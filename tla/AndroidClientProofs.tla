------------------------ MODULE AndroidClientProofs -------------------------
(***************************************************************************)
(* The hand-over of the main loop of src/android/app/src/main/jni/webrtc.c *)
(* for any number of calls.                                                *)
(***************************************************************************)
EXTENDS AndroidClient, TLAPS

-----------------------------------------------------------------------------
(* The inductive invariant.                                                *)

\* A thread that is to start can be: it is chosen among those that have not.
WillCreate ==
  java = "create" \/ (java \in {"ending", "cleaning", "joining"} /\ after = "create")
Room == WillCreate => \E t \in Calls : pc[t] = "none"

TypeInv == TypeOK /\ Room

\* A thread that has ended its own call: its loop is quit, and its connection
\* has nothing to say any more, so that it does not run the cleanup again.
Done(t) == conn[t] \in {"failed", "closing", "closed", "freed"}
Retired(t) ==
  /\ pc[t] = "running" /\ t \in quit /\ Done(t)
  /\ clean[t] \in {"stop", "drop", "no"}

\* The thread that webrtc->thread designates, or that is being joined.
Active(t) == thread = t \/ joined = t

LockInv ==
  /\ java = "cleaning" <=> lock = Java
  /\ \A t \in Calls : pc[t] = "locked" <=> lock = t

JavaInv ==
  /\ clean[Java] # "no" => java = "cleaning"
  /\ java = "cleaning" => joined = thread /\ joined # None
  /\ java = "joining" => thread = None /\ joined # None /\ joined \in quit
  /\ java \notin {"cleaning", "joining"} => joined = None
  /\ java = "cleaning" /\ clean[Java] # "quit" => joined \in quit
  /\ java = "cleaning" /\ clean[Java] \in {"stop", "drop", "no"} => loop = None
  /\ java \in {"joining", "idle", "create", "freed"} => loop = None
  /\ java \in {"checking", "waiting"} => thread # None
  /\ java = "waiting" => loop = None
  /\ java \in {"idle", "create", "freed"} =>
       thread = None \/ pc[thread] = "exited" \/ Retired(thread)

LoopInv ==
  /\ loop # None => thread = loop /\ pc[loop] \notin {"none", "start"}
  /\ \A t \in Calls : Running(t) => loop = t
  /\ loop = None /\ thread # None =>
       \/ pc[thread] \in {"start", "exited"} \/ Retired(thread)
       \/ java = "cleaning" /\ thread \in quit

ThreadInv ==
  \A t \in Calls :
    /\ thread = t => pc[t] # "none"
    /\ pc[t] = "start" => java \in {"checking", "waiting"} /\ thread = t
    /\ pc[t] \in {"none", "start", "locked"} => t \notin quit
    /\ pc[t] \in {"none", "start", "locked", "unlocked"} => conn[t] = "none" /\ clean[t] = "no"
    /\ pc[t] = "starting" => conn[t] # "none" /\ clean[t] = "no"
    /\ clean[t] # "no" => pc[t] = "running" /\ Done(t)
    /\ clean[t] \in {"quit", "clear"} => Active(t)
    /\ clean[t] = "clear" => t \in quit
    /\ pc[t] \in {"none", "exited"} \/ Active(t) \/ Retired(t)
    /\ pc[t] \in {"running", "starting"} /\ conn[t] \in Listening => ws = t
    /\ ws = t => conn[t] # "none"
    /\ pc[t] = "exited" => t \in quit
    /\ clean[BinOf(t)] = "no"

SafeInv == LockInv /\ JavaInv /\ LoopInv /\ ThreadInv

\* A thread starts its pipeline once, when it has its session.
Early == {"none", "hello", "session"}
BinInv ==
  \A t \in Calls :
    /\ pc[t] = "starting" => conn[t] \notin Early
    /\ bin[t] # "none" \/ pipe = t => pc[t] \in {"running", "exited"} /\ conn[t] \notin Early

\* Once the program has crashed, or webrtcbin's thread has run the cleanup,
\* nothing more is claimed.
Inv ==
  /\ TypeInv /\ BinInv
  /\ SafeInv \/ (java = "crashed" /\ LoopReachable) \/ CleanedByBin

-----------------------------------------------------------------------------
(* Types.                                                                  *)

ConnStates == {"none", "failed", "hello", "session", "call", "shut", "closing", "closed", "freed"}

\* What a handler may have found out of its connection when it gives up.
Told(t) == {conn} \cup {[conn EXCEPT ![t] = state] : state \in {"shut", "closed"}}

LEMMA Names ==
  /\ Java \notin Calls /\ None \notin Calls /\ Java # None
  /\ Calls \subseteq Threads /\ Java \in Threads
  /\ \A t \in Calls : BinOf(t) \in Threads /\ BinOf(t) # Java /\ BinOf(t) \notin Calls
  /\ \A t \in Calls, u \in Calls : BinOf(t) = BinOf(u) => t = u
  BY CallsAssumption DEF Calls, Threads, BinOf

LEMMA States == 0 \in AppStates
  BY DEF AppStates, UNKNOWN, ERROR, SERVER_CONNECTING, SERVER_CONNECTION_ERROR,
     SERVER_CONNECTED, SERVER_REGISTERING, SERVER_REGISTRATION_ERROR, SERVER_CLOSED, PEER_CONNECTING, PEER_CONNECTION_ERROR,
     PEER_CONNECTED, PEER_CALL_NEGOTIATING, PEER_CALL_STARTED, PEER_CALL_ERROR

LEMMA InitType == Init => TypeInv
  BY Names, States DEF Init, TypeInv, TypeOK, Room, WillCreate, UNKNOWN, JavaStates

LEMMA CloseConnType ==
  ASSUME TypeOK, NEW conns \in [Calls -> ConnStates]
  PROVE CloseConn(conns) \in [Calls -> ConnStates]
  BY DEF CloseConn, TypeOK, ConnStates

LEMMA CleanupType ==
  ASSUME TypeInv, NEW a \in Threads, NEW state \in AppStates,
         NEW conns \in [Calls -> ConnStates], Cleanup(a, state, conns)
  PROVE  /\ app_state' \in AppStates
         /\ clean' \in [Threads -> {"no", "quit", "clear", "stop", "drop"}]
         /\ conn' \in [Calls -> ConnStates]
         /\ UNCHANGED <<loop, ws, pipe, quit>>
  BY CloseConnType DEF Cleanup, StateAfter, TypeInv, TypeOK

LEMMA CleanStepType ==
  ASSUME TypeInv, NEW a \in Threads, CleanStep(a) PROVE TypeInv'
  <1> USE Names DEF TypeInv, TypeOK, Room, WillCreate, jvars, tvars
  <1>1. CASE CleanQuit(a)
    BY <1>1 DEF CleanQuit
  <1>2. CASE CleanClear(a)
    BY <1>2 DEF CleanClear
  <1>3. CASE CleanStop(a)
    BY <1>3 DEF CleanStop
  <1>4. CASE CleanDrop(a)
    BY <1>4 DEF CleanDrop
  <1> QED
    BY <1>1, <1>2, <1>3, <1>4 DEF CleanStep

LEMMA CrashType == ASSUME TypeInv, Crash PROVE TypeInv'
  BY DEF Crash, TypeInv, TypeOK, Room, WillCreate, JavaStates, tvars, cvars

LEMMA JavaType ==
  ASSUME TypeInv, NativeCallOtherParty \/ NativeEndCall \/ JavaStep PROVE TypeInv'
  <1> USE Names DEF TypeInv, TypeOK, Room, WillCreate, JavaStates, jvars, tvars, cvars
  <1>1. CASE NativeCallOtherParty
    BY <1>1 DEF NativeCallOtherParty
  <1>2. CASE NativeEndCall
    BY <1>2 DEF NativeEndCall
  <1>3. CASE EndLocked
    <2>1. CASE loop = None
      BY <1>3, <2>1 DEF EndLocked
    <2>2. CASE Crash
      BY <2>2, CrashType
    <2>3. CASE loop # None /\ ~Dangling(conn)
      BY <1>3, <2>3, States, CleanupType DEF EndLocked, ConnStates
    <2> QED
      BY <1>3, <2>1, <2>2, <2>3 DEF EndLocked
  <1>4. CASE EndUnlocks
    BY <1>4 DEF EndUnlocks
  <1>5. CASE EndJoined
    BY <1>5 DEF EndJoined
  <1>6. CASE CreateThread
    BY <1>6 DEF CreateThread, NextCall
  <1>7. CASE CheckLoop
    BY <1>7 DEF CheckLoop
  <1>8. CASE CleanStep(Java)
    BY <1>8, CleanStepType
  <1> QED
    BY <1>1, <1>2, <1>3, <1>4, <1>5, <1>6, <1>7, <1>8 DEF JavaStep

LEMMA GiveUpType ==
  ASSUME TypeInv, NEW t \in Calls, NEW state \in AppStates,
         NEW conns \in [Calls -> ConnStates], GiveUp(t, state, conns)
  PROVE TypeInv'
  <1>1. CASE Crash
    BY <1>1, CrashType
  <1>2. CASE ~Dangling(conns)
    BY <1>2, Names, CleanupType
       DEF GiveUp, TypeInv, TypeOK, Room, WillCreate, jvars, ConnStates
  <1> QED
    BY <1>1, <1>2 DEF GiveUp

\* HELLO moves the call on, or gives it up.
LEMMA HelloMoves ==
  ASSUME TypeInv, NEW t \in Calls, Hello(t)
  PROVE  \/ \E state \in {ERROR, PEER_CALL_ERROR}, conns \in Told(t) : GiveUp(t, state, conns)
         \/ /\ app_state' = Connecting /\ SetConn(t, "session")
            /\ UNCHANGED <<jvars, lock, pc, bin, cvars>>
  <1>1. [conn EXCEPT ![t] = "hello"] = conn
    BY DEF Hello, TypeInv, TypeOK
  <1>2. conn \in Told(t) /\ [conn EXCEPT ![t] = "shut"] \in Told(t)
    BY DEF Told
  <1> QED
    BY <1>1, <1>2 DEF Hello

LEMMA DispatchType ==
  ASSUME TypeInv, NEW t \in Calls, Dispatch(t) PROVE TypeInv'
  <1> USE Names DEF TypeInv, TypeOK, Room, WillCreate, jvars, tvars, cvars, At, Goto, SetConn
  <1>0. /\ {ERROR, PEER_CONNECTION_ERROR, SERVER_CLOSED, SERVER_CONNECTION_ERROR} \subseteq AppStates
        /\ {PEER_CONNECTING, PEER_CONNECTED, PEER_CALL_STARTED, SERVER_REGISTERING} \subseteq AppStates
        /\ {SERVER_CONNECTED, PEER_CALL_ERROR, ErrorState} \subseteq AppStates
        /\ conn \in [Calls -> ConnStates] /\ Told(t) \subseteq [Calls -> ConnStates]
    BY DEF AppStates, ConnStates, Told, ErrorState
  <1>1. CASE ServerConnected(t)
    BY <1>0, <1>1 DEF ServerConnected
  <1>2. CASE ConnectFails(t)
    BY <1>0, <1>2 DEF ConnectFails
  <1>3. CASE Hello(t)
    <2>1. CASE \E state \in {ERROR, PEER_CALL_ERROR}, conns \in Told(t) : GiveUp(t, state, conns)
      BY <1>0, <2>1, GiveUpType
    <2>2. CASE app_state' = Connecting /\ SetConn(t, "session")
               /\ UNCHANGED <<jvars, lock, pc, bin, cvars>>
      BY <1>0, <2>2 DEF Connecting
    <2> QED
      BY <1>3, <2>1, <2>2, HelloMoves
  <1>4. CASE SessionOk(t)
    BY <1>0, <1>4, GiveUpType DEF SessionOk
  <1>5. CASE ServerError(t)
    BY <1>0, <1>5, GiveUpType DEF ServerError
  <1>6. CASE SdpAnswer(t)
    BY <1>0, <1>6, CrashType DEF SdpAnswer
  <1>7. CASE ServerClosed(t)
    BY <1>0, <1>7, GiveUpType DEF ServerClosed, Told
  <1> QED
    BY <1>1, <1>2, <1>3, <1>4, <1>5, <1>6, <1>7 DEF Dispatch

LEMMA CallStepType ==
  ASSUME TypeInv, NEW t \in Calls, CallStep(t) PROVE TypeInv'
  <1> USE Names DEF TypeInv, TypeOK, Room, WillCreate, JavaStates, jvars, tvars, cvars, At, Goto
  <1>1. CASE LockAndRun(t)
    BY <1>1 DEF LockAndRun
  <1>2. CASE UnlockMutex(t)
    BY <1>2 DEF UnlockMutex
  <1>3. CASE ConnectToServer(t)
    BY <1>3 DEF ConnectToServer, AppStates
  <1>4. CASE StartPipeline(t)
    BY <1>4 DEF StartPipeline
  <1>5. CASE PipelineFails(t)
    <2>1. CASE Crash
      BY <2>1, CrashType
    <2>2. CASE ~Dangling(conn)
      BY <1>5, <2>2, CloseConnType DEF PipelineFails, AppStates, ConnStates
    <2> QED
      BY <1>5, <2>1, <2>2 DEF PipelineFails
  <1>6. CASE LoopReturns(t)
    BY <1>6 DEF LoopReturns
  <1>7. CASE CleanStep(t)
    BY <1>7, CleanStepType
  <1> QED
    BY <1>1, <1>2, <1>3, <1>4, <1>5, <1>6, <1>7 DEF CallStep

LEMMA CallbackType ==
  ASSUME TypeInv, NEW t \in Calls, Callback(t) PROVE TypeInv'
  <1> USE Names DEF TypeInv, TypeOK, Room, WillCreate, jvars, tvars, cvars, Runs, SetBin
  <1>1. CASE NegotiationNeeded(t)
    BY <1>1 DEF NegotiationNeeded, AppStates
  <1>2. CASE OfferCreated(t)
    BY <1>2, CrashType DEF OfferCreated
  <1>3. CASE BinGivesUp(t)
    BY <1>3, CleanupType DEF BinGivesUp, AppStates, ConnStates
  <1>4. CASE SendSdpOffer(t)
    BY <1>3, <1>4, CrashType DEF SendSdpOffer
  <1>5. CASE SendIceCandidate(t)
    BY <1>3, <1>5, CrashType DEF SendIceCandidate
  <1> QED
    BY <1>1, <1>2, <1>4, <1>5 DEF Callback

LEMMA NextType == TypeInv /\ [Next]_vars => TypeInv'
  <1> SUFFICES ASSUME TypeInv, [Next]_vars PROVE TypeInv'
    OBVIOUS
  <1>1. CASE UNCHANGED vars
    BY <1>1 DEF vars, jvars, tvars, cvars, TypeInv, TypeOK, Room, WillCreate
  <1>2. CASE Next
    BY <1>2, Names, JavaType, DispatchType, CallStepType, CallbackType, CleanStepType DEF Next
  <1> QED
    BY <1>1, <1>2
-----------------------------------------------------------------------------
(* The invariant.                                                          *)

LEMMA InitSafe == Init => SafeInv
  BY Names DEF Init, SafeInv, LockInv, JavaInv, LoopInv, ThreadInv, Running, Active, Retired

\* What the steps are split by: everything that SafeInv is made of.
Others == <<lock, thread, joined, loop, ws, quit, pc, conn, clean, java>>

LEMMA UnchangedSafe == ASSUME SafeInv, UNCHANGED Others PROVE SafeInv'
  BY DEF Others, SafeInv, LockInv, JavaInv, LoopInv, ThreadInv, Running, Active, Retired, Done

LEMMA CrashSafe == ASSUME SafeInv, Crash PROVE java' = "crashed" /\ LoopReachable'
  BY DEF SafeInv, LoopInv, Crash, LoopReachable, Running, CleanedByBin, tvars, cvars

LEMMA NoBinCleans == ASSUME TypeInv, SafeInv, NEW t \in Calls, CleanStep(BinOf(t)) PROVE FALSE
  BY DEF SafeInv, ThreadInv, CleanStep, CleanQuit, CleanClear, CleanStop, CleanDrop

LEMMA CleanQuitSafe ==
  ASSUME TypeInv, SafeInv, NEW a \in Calls \cup {Java}, CleanQuit(a) PROVE SafeInv'
  <1> USE Names DEF SafeInv, TypeInv, TypeOK, CleanQuit, jvars, tvars
  <1>1. LockInv'
    BY DEF LockInv
  <1>2. JavaInv'
    BY DEF JavaInv, LoopInv, ThreadInv, Retired, Done, Active
  <1>3. LoopInv'
    BY DEF LoopInv, JavaInv, ThreadInv, Running, Retired, Done, Active
  <1>4. ThreadInv'
    BY DEF ThreadInv, LockInv, JavaInv, LoopInv, Retired, Done, Active
  <1> QED
    BY <1>1, <1>2, <1>3, <1>4

LEMMA CleanClearSafe ==
  ASSUME TypeInv, SafeInv, NEW a \in Calls \cup {Java}, CleanClear(a) PROVE SafeInv'
  <1> USE Names DEF SafeInv, TypeInv, TypeOK, CleanClear, jvars, tvars
  <1>1. LockInv'
    BY DEF LockInv
  <1>2. JavaInv'
    BY DEF JavaInv, LoopInv, ThreadInv, Retired, Done, Active
  <1>3. LoopInv'
    BY DEF LoopInv, JavaInv, ThreadInv, Running, Retired, Done, Active
  <1>4. ThreadInv'
    BY DEF ThreadInv, LockInv, JavaInv, LoopInv, Retired, Done, Active
  <1> QED
    BY <1>1, <1>2, <1>3, <1>4

LEMMA CleanEndSafe ==
  ASSUME TypeInv, SafeInv, NEW a \in Calls \cup {Java}, CleanStop(a) \/ CleanDrop(a)
  PROVE SafeInv'
  <1> USE Names DEF SafeInv, TypeInv, TypeOK, CleanStop, CleanDrop, jvars, tvars
  <1>1. LockInv'
    BY DEF LockInv
  <1>2. JavaInv'
    BY DEF JavaInv, LoopInv, ThreadInv, Retired, Done, Active
  <1>3. LoopInv'
    BY DEF LoopInv, JavaInv, ThreadInv, Running, Retired, Done, Active
  <1>4. ThreadInv'
    BY DEF ThreadInv, LockInv, JavaInv, LoopInv, Retired, Done, Active
  <1> QED
    BY <1>1, <1>2, <1>3, <1>4

LEMMA NativeCallOtherPartySafe ==
  ASSUME TypeInv, SafeInv, NativeCallOtherParty
  PROVE SafeInv'
  <1> USE Names DEF SafeInv, TypeInv, TypeOK, NativeCallOtherParty, tvars, cvars
  <1>1. LockInv'
    BY DEF LockInv, ThreadInv
  <1>2. JavaInv'
    BY DEF JavaInv, LockInv, LoopInv, ThreadInv, Running, Retired, Done, Active
  <1>3. LoopInv'
    BY DEF LoopInv, LockInv, JavaInv, ThreadInv, Running, Retired, Done, Active
  <1>4. ThreadInv'
    BY DEF ThreadInv, LockInv, JavaInv, LoopInv, Running, Retired, Done, Active
  <1> QED
    BY <1>1, <1>2, <1>3, <1>4

LEMMA NativeEndCallSafe ==
  ASSUME TypeInv, SafeInv, NativeEndCall
  PROVE SafeInv'
  <1> USE Names DEF SafeInv, TypeInv, TypeOK, NativeEndCall, tvars, cvars
  <1>1. LockInv'
    BY DEF LockInv, ThreadInv
  <1>2. JavaInv'
    BY DEF JavaInv, LockInv, LoopInv, ThreadInv, Running, Retired, Done, Active
  <1>3. LoopInv'
    BY DEF LoopInv, LockInv, JavaInv, ThreadInv, Running, Retired, Done, Active
  <1>4. ThreadInv'
    BY DEF ThreadInv, LockInv, JavaInv, LoopInv, Running, Retired, Done, Active
  <1> QED
    BY <1>1, <1>2, <1>3, <1>4

LEMMA EndUnlocksSafe ==
  ASSUME TypeInv, SafeInv, EndUnlocks
  PROVE SafeInv'
  <1> USE Names DEF SafeInv, TypeInv, TypeOK, EndUnlocks, tvars, cvars
  <1>1. LockInv'
    BY DEF LockInv, ThreadInv
  <1>2. JavaInv'
    BY DEF JavaInv, LockInv, LoopInv, ThreadInv, Running, Retired, Done, Active
  <1>3. LoopInv'
    BY DEF LoopInv, LockInv, JavaInv, ThreadInv, Running, Retired, Done, Active
  <1>4. ThreadInv'
    BY DEF ThreadInv, LockInv, JavaInv, LoopInv, Running, Retired, Done, Active
  <1> QED
    BY <1>1, <1>2, <1>3, <1>4

LEMMA EndJoinedSafe ==
  ASSUME TypeInv, SafeInv, EndJoined
  PROVE SafeInv'
  <1> USE Names DEF SafeInv, TypeInv, TypeOK, EndJoined, tvars, cvars
  <1>1. LockInv'
    BY DEF LockInv, ThreadInv
  <1>2. JavaInv'
    BY DEF JavaInv, LockInv, LoopInv, ThreadInv, Running, Retired, Done, Active
  <1>3. LoopInv'
    BY DEF LoopInv, LockInv, JavaInv, ThreadInv, Running, Retired, Done, Active
  <1>4. ThreadInv'
    BY DEF ThreadInv, LockInv, JavaInv, LoopInv, Running, Retired, Done, Active
  <1> QED
    BY <1>1, <1>2, <1>3, <1>4

LEMMA CheckLoopSafe ==
  ASSUME TypeInv, SafeInv, CheckLoop
  PROVE SafeInv'
  <1> USE Names DEF SafeInv, TypeInv, TypeOK, CheckLoop, tvars, cvars
  <1>1. LockInv'
    BY DEF LockInv, ThreadInv
  <1>2. JavaInv'
    BY DEF JavaInv, LockInv, LoopInv, ThreadInv, Running, Retired, Done, Active
  <1>3. LoopInv'
    BY DEF LoopInv, LockInv, JavaInv, ThreadInv, Running, Retired, Done, Active
  <1>4. ThreadInv'
    BY DEF ThreadInv, LockInv, JavaInv, LoopInv, Running, Retired, Done, Active
  <1> QED
    BY <1>1, <1>2, <1>3, <1>4

LEMMA CreateThreadSafe ==
  ASSUME TypeInv, SafeInv, CreateThread
  PROVE SafeInv'
  <1> USE Names DEF SafeInv, TypeInv, TypeOK, Room, WillCreate, CreateThread, NextCall, cvars
  <1>1. LockInv'
    BY DEF LockInv, ThreadInv
  <1>2. JavaInv'
    BY DEF JavaInv, LockInv, LoopInv, ThreadInv, Running, Retired, Done, Active
  <1>3. LoopInv'
    BY DEF LoopInv, LockInv, JavaInv, ThreadInv, Running, Retired, Done, Active
  <1>4. ThreadInv'
    BY DEF ThreadInv, LockInv, JavaInv, LoopInv, Running, Retired, Done, Active
  <1> QED
    BY <1>1, <1>2, <1>3, <1>4

LEMMA EndsNothingSafe ==
  ASSUME TypeInv, SafeInv, EndLocked, loop = None
  PROVE SafeInv'
  <1> USE Names DEF SafeInv, TypeInv, TypeOK, EndLocked, tvars, cvars
  <1>1. LockInv'
    BY DEF LockInv, ThreadInv
  <1>2. JavaInv'
    BY DEF JavaInv, LockInv, LoopInv, ThreadInv, Running, Retired, Done, Active
  <1>3. LoopInv'
    BY DEF LoopInv, LockInv, JavaInv, ThreadInv, Running, Retired, Done, Active
  <1>4. ThreadInv'
    BY DEF ThreadInv, LockInv, JavaInv, LoopInv, Running, Retired, Done, Active
  <1> QED
    BY <1>1, <1>2, <1>3, <1>4

LEMMA EndCleansUpSafe ==
  ASSUME TypeInv, SafeInv, EndLocked, loop # None, ~Dangling(conn)
  PROVE SafeInv'
  <1> USE Names DEF SafeInv, TypeInv, TypeOK, EndLocked, Cleanup, CloseConn, Open, Listening
  <1>1. LockInv'
    BY DEF LockInv, ThreadInv
  <1>2. JavaInv'
    BY DEF JavaInv, LockInv, LoopInv, ThreadInv, Running, Retired, Done, Active
  <1>3. LoopInv'
    BY DEF LoopInv, LockInv, JavaInv, ThreadInv, Running, Retired, Done, Active
  <1>4. ThreadInv'
    BY DEF ThreadInv, LockInv, JavaInv, LoopInv, Running, Retired, Done, Active
  <1> QED
    BY <1>1, <1>2, <1>3, <1>4

LEMMA LockAndRunSafe ==
  ASSUME TypeInv, SafeInv, NEW t \in Calls, LockAndRun(t)
  PROVE SafeInv'
  <1> USE Names DEF SafeInv, TypeInv, TypeOK, LockAndRun, At, Goto, SetConn, jvars, cvars, Open, Listening
  <1>1. LockInv'
    BY DEF LockInv, ThreadInv
  <1>2. JavaInv'
    BY DEF JavaInv, LockInv, LoopInv, ThreadInv, Running, Retired, Done, Active
  <1>3. LoopInv'
    BY DEF LoopInv, LockInv, JavaInv, ThreadInv, Running, Retired, Done, Active
  <1>4. ThreadInv'
    BY DEF ThreadInv, LockInv, JavaInv, LoopInv, Running, Retired, Done, Active
  <1> QED
    BY <1>1, <1>2, <1>3, <1>4

LEMMA UnlockMutexSafe ==
  ASSUME TypeInv, SafeInv, NEW t \in Calls, UnlockMutex(t)
  PROVE SafeInv'
  <1> USE Names DEF SafeInv, TypeInv, TypeOK, UnlockMutex, At, Goto, SetConn, jvars, cvars, Open, Listening
  <1>1. LockInv'
    BY DEF LockInv, ThreadInv
  <1>2. JavaInv'
    BY DEF JavaInv, LockInv, LoopInv, ThreadInv, Running, Retired, Done, Active
  <1>3. LoopInv'
    BY DEF LoopInv, LockInv, JavaInv, ThreadInv, Running, Retired, Done, Active
  <1>4. ThreadInv'
    BY DEF ThreadInv, LockInv, JavaInv, LoopInv, Running, Retired, Done, Active
  <1> QED
    BY <1>1, <1>2, <1>3, <1>4

LEMMA ConnectToServerSafe ==
  ASSUME TypeInv, SafeInv, NEW t \in Calls, ConnectToServer(t)
  PROVE SafeInv'
  <1> USE Names DEF SafeInv, TypeInv, TypeOK, ConnectToServer, At, Goto, SetConn, jvars, cvars, Open, Listening
  <1>1. LockInv'
    BY DEF LockInv, ThreadInv
  <1>2. JavaInv'
    BY DEF JavaInv, LockInv, LoopInv, ThreadInv, Running, Retired, Done, Active
  <1>3. LoopInv'
    BY DEF LoopInv, LockInv, JavaInv, ThreadInv, Running, Retired, Done, Active
  <1>4. ThreadInv'
    BY DEF ThreadInv, LockInv, JavaInv, LoopInv, Running, Retired, Done, Active
  <1> QED
    BY <1>1, <1>2, <1>3, <1>4

LEMMA StartPipelineSafe ==
  ASSUME TypeInv, SafeInv, NEW t \in Calls, StartPipeline(t)
  PROVE SafeInv'
  <1> USE Names DEF SafeInv, TypeInv, TypeOK, StartPipeline, At, Goto, SetConn, jvars, cvars, Open, Listening
  <1>1. LockInv'
    BY DEF LockInv, ThreadInv
  <1>2. JavaInv'
    BY DEF JavaInv, LockInv, LoopInv, ThreadInv, Running, Retired, Done, Active
  <1>3. LoopInv'
    BY DEF LoopInv, LockInv, JavaInv, ThreadInv, Running, Retired, Done, Active
  <1>4. ThreadInv'
    BY DEF ThreadInv, LockInv, JavaInv, LoopInv, Running, Retired, Done, Active
  <1> QED
    BY <1>1, <1>2, <1>3, <1>4

LEMMA LoopReturnsSafe ==
  ASSUME TypeInv, SafeInv, NEW t \in Calls, LoopReturns(t)
  PROVE SafeInv'
  <1> USE Names DEF SafeInv, TypeInv, TypeOK, LoopReturns, At, Goto, SetConn, jvars, cvars, Open, Listening
  <1>1. LockInv'
    BY DEF LockInv, ThreadInv
  <1>2. JavaInv'
    BY DEF JavaInv, LockInv, LoopInv, ThreadInv, Running, Retired, Done, Active
  <1>3. LoopInv'
    BY DEF LoopInv, LockInv, JavaInv, ThreadInv, Running, Retired, Done, Active
  <1>4. ThreadInv'
    BY DEF ThreadInv, LockInv, JavaInv, LoopInv, Running, Retired, Done, Active
  <1> QED
    BY <1>1, <1>2, <1>3, <1>4

LEMMA ServerConnectedSafe ==
  ASSUME TypeInv, SafeInv, NEW t \in Calls, ServerConnected(t)
  PROVE SafeInv'
  <1> USE Names DEF SafeInv, TypeInv, TypeOK, ServerConnected, At, Goto, SetConn, jvars, cvars, Open, Listening
  <1>1. LockInv'
    BY DEF LockInv, ThreadInv
  <1>2. JavaInv'
    BY DEF JavaInv, LockInv, LoopInv, ThreadInv, Running, Retired, Done, Active
  <1>3. LoopInv'
    BY DEF LoopInv, LockInv, JavaInv, ThreadInv, Running, Retired, Done, Active
  <1>4. ThreadInv'
    BY DEF ThreadInv, LockInv, JavaInv, LoopInv, Running, Retired, Done, Active
  <1> QED
    BY <1>1, <1>2, <1>3, <1>4

LEMMA ConnectFailsSafe ==
  ASSUME TypeInv, SafeInv, NEW t \in Calls, ConnectFails(t)
  PROVE SafeInv'
  <1> USE Names DEF SafeInv, TypeInv, TypeOK, ConnectFails, At, Goto, SetConn, jvars, cvars, Open, Listening
  <1>1. LockInv'
    BY DEF LockInv, ThreadInv
  <1>2. JavaInv'
    BY DEF JavaInv, LockInv, LoopInv, ThreadInv, Running, Retired, Done, Active
  <1>3. LoopInv'
    BY DEF LoopInv, LockInv, JavaInv, ThreadInv, Running, Retired, Done, Active
  <1>4. ThreadInv'
    BY DEF ThreadInv, LockInv, JavaInv, LoopInv, Running, Retired, Done, Active
  <1> QED
    BY <1>1, <1>2, <1>3, <1>4

LEMMA PipelineFailsSafe ==
  ASSUME TypeInv, SafeInv, NEW t \in Calls, PipelineFails(t), ~Dangling(conn)
  PROVE SafeInv'
  <1> USE Names DEF SafeInv, TypeInv, TypeOK, PipelineFails, At, Goto, CloseConn, jvars, Open, Listening
  <1>1. LockInv'
    BY DEF LockInv, ThreadInv
  <1>2. JavaInv'
    BY DEF JavaInv, LockInv, LoopInv, ThreadInv, Running, Retired, Done, Active
  <1>3. LoopInv'
    BY DEF LoopInv, LockInv, JavaInv, ThreadInv, Running, Retired, Done, Active
  <1>4. ThreadInv'
    BY DEF ThreadInv, LockInv, JavaInv, LoopInv, Running, Retired, Done, Active
  <1> QED
    BY <1>1, <1>2, <1>3, <1>4

LEMMA ConnMovesSafe ==
  ASSUME TypeInv, SafeInv, NEW t \in Calls, At(t, "running"), conn[t] \in Listening,
         \E where \in {"running", "starting"}, state \in {"session", "call"} :
           Goto(t, where) /\ SetConn(t, state),
         UNCHANGED <<jvars, lock, cvars>>
  PROVE SafeInv'
  <1> USE Names DEF SafeInv, TypeInv, TypeOK, At, Goto, SetConn, jvars, cvars, Open, Listening
  <1>1. LockInv'
    BY DEF LockInv, ThreadInv
  <1>2. JavaInv'
    BY DEF JavaInv, LockInv, LoopInv, ThreadInv, Running, Retired, Done, Active
  <1>3. LoopInv'
    BY DEF LoopInv, LockInv, JavaInv, ThreadInv, Running, Retired, Done, Active
  <1>4. ThreadInv'
    BY DEF ThreadInv, LockInv, JavaInv, LoopInv, Running, Retired, Done, Active
  <1> QED
    BY <1>1, <1>2, <1>3, <1>4

LEMMA GiveUpSafe ==
  ASSUME TypeInv, SafeInv, NEW t \in Calls, At(t, "running"), conn[t] \in Listening,
         NEW state, NEW conns \in Told(t),
         GiveUp(t, state, conns), ~Dangling(conns)
  PROVE SafeInv'
  <1> USE Names DEF SafeInv, TypeInv, TypeOK, GiveUp, Cleanup, CloseConn, At, jvars, Open, Listening, Told
  <1>1. LockInv'
    BY DEF LockInv, ThreadInv
  <1>2. JavaInv'
    BY DEF JavaInv, LockInv, LoopInv, ThreadInv, Running, Retired, Done, Active
  <1>3. LoopInv'
    BY DEF LoopInv, LockInv, JavaInv, ThreadInv, Running, Retired, Done, Active
  <1>4. ThreadInv'
    BY DEF ThreadInv, LockInv, JavaInv, LoopInv, Running, Retired, Done, Active
  <1> QED
    BY <1>1, <1>2, <1>3, <1>4

LEMMA JavaSafe ==
  ASSUME TypeInv, SafeInv, NativeCallOtherParty \/ NativeEndCall \/ JavaStep
  PROVE SafeInv' \/ Crash
  <1>1. CASE EndLocked
    BY <1>1, EndsNothingSafe, EndCleansUpSafe DEF EndLocked
  <1>2. CASE CleanStep(Java)
    BY <1>2, CleanQuitSafe, CleanClearSafe, CleanEndSafe DEF CleanStep
  <1> QED
    BY <1>1, <1>2, NativeCallOtherPartySafe, NativeEndCallSafe, EndUnlocksSafe,
       EndJoinedSafe, CreateThreadSafe, CheckLoopSafe DEF JavaStep

\* A handler either moves the call on, or gives it up.
LEMMA DispatchSafe ==
  ASSUME TypeInv, SafeInv, NEW t \in Calls, Dispatch(t) PROVE SafeInv' \/ Crash
  <1>1. ASSUME At(t, "running"), conn[t] \in Listening, NEW state,
               NEW conns \in Told(t), GiveUp(t, state, conns)
        PROVE SafeInv' \/ Crash
    BY <1>1, GiveUpSafe DEF GiveUp
  <1>2. CASE Hello(t)
    <2>1. At(t, "running") /\ conn[t] \in Listening
      BY <1>2 DEF Hello, Open, Listening
    <2>2. CASE app_state' = Connecting /\ SetConn(t, "session")
               /\ UNCHANGED <<jvars, lock, pc, bin, cvars>>
      <3>1. Goto(t, "running")
        BY <2>1, <2>2 DEF At, Goto, TypeInv, TypeOK
      <3> QED
        BY <2>1, <2>2, <3>1, ConnMovesSafe
    <2> QED
      BY <1>1, <1>2, <2>1, <2>2, HelloMoves
  <1>3. CASE SessionOk(t)
    <2>1. At(t, "running") /\ conn[t] \in Listening
      BY <1>3 DEF SessionOk, Open, Listening
    <2>2. CASE app_state = PEER_CONNECTING
      <3>1. Goto(t, "starting") /\ SetConn(t, "call") /\ UNCHANGED <<jvars, lock, cvars>>
        BY <1>3, <2>2 DEF SessionOk
      <3> QED
        BY <2>1, <3>1, ConnMovesSafe
    <2>3. CASE GiveUp(t, PEER_CONNECTION_ERROR, conn)
      BY <1>1, <2>1, <2>3 DEF Told
    <2> QED
      BY <1>3, <2>2, <2>3 DEF SessionOk
  <1>4. CASE ServerError(t)
    BY <1>1, <1>4 DEF ServerError, Open, Listening, Told
  <1>5. CASE SdpAnswer(t)
    BY <1>5, UnchangedSafe DEF SdpAnswer, Others, jvars, cvars
  <1>6. CASE ServerClosed(t)
    BY <1>1, <1>6 DEF ServerClosed, Told
  <1> QED
    BY <1>2, <1>3, <1>4, <1>5, <1>6, ServerConnectedSafe, ConnectFailsSafe DEF Dispatch

LEMMA CallStepSafe ==
  ASSUME TypeInv, SafeInv, NEW t \in Calls, CallStep(t) PROVE SafeInv' \/ Crash
  <1>1. CASE PipelineFails(t)
    BY <1>1, PipelineFailsSafe DEF PipelineFails
  <1>2. CASE CleanStep(t)
    BY <1>2, CleanQuitSafe, CleanClearSafe, CleanEndSafe DEF CleanStep
  <1> QED
    BY <1>1, <1>2, LockAndRunSafe, UnlockMutexSafe, ConnectToServerSafe,
       StartPipelineSafe, LoopReturnsSafe DEF CallStep

LEMMA CallbackSafe ==
  ASSUME TypeInv, SafeInv, NEW t \in Calls, Callback(t)
  PROVE SafeInv' \/ Crash \/ CleanedByBin'
  <1>1. CASE NegotiationNeeded(t)
    BY <1>1, UnchangedSafe DEF NegotiationNeeded, Others, jvars, cvars
  <1>2. CASE OfferCreated(t)
    BY <1>2, UnchangedSafe DEF OfferCreated, Others, jvars, cvars
  <1>3. BinGivesUp(t) => CleanedByBin'
    BY DEF BinGivesUp, SetBin, CleanedByBin, TypeInv, TypeOK
  <1>4. CASE SendSdpOffer(t)
    BY <1>3, <1>4, UnchangedSafe DEF SendSdpOffer, Others, jvars, cvars
  <1>5. CASE SendIceCandidate(t)
    BY <1>3, <1>5 DEF SendIceCandidate
  <1> QED
    BY <1>1, <1>2, <1>4, <1>5 DEF Callback

LEMMA NextSafe ==
  ASSUME TypeInv, SafeInv, Next
  PROVE SafeInv' \/ (java = "crashed" /\ LoopReachable)' \/ CleanedByBin'
  <1>1. SafeInv' \/ Crash \/ CleanedByBin'
    BY JavaSafe, DispatchSafe, CallStepSafe, CallbackSafe, NoBinCleans DEF Next
  <1> QED
    BY <1>1, CrashSafe

LEMMA CleanStepBin ==
  ASSUME TypeInv, BinInv, NEW a \in Threads, CleanStep(a)
  PROVE BinInv' /\ (CleanedByBin => CleanedByBin')
  <1> USE DEF BinInv, CleanedByBin, TypeInv, TypeOK, jvars, tvars
  <1>1. CASE CleanStop(a)
    BY <1>1 DEF CleanStop
  <1>2. CASE CleanDrop(a)
    BY <1>2, Names DEF CleanDrop
  <1> QED
    BY <1>1, <1>2 DEF CleanStep, CleanQuit, CleanClear

LEMMA CloseConnBin ==
  ASSUME TypeInv, NEW conns \in [Calls -> ConnStates], NEW t \in Calls, conns[t] \notin Early
  PROVE CloseConn(conns)[t] \notin Early
  BY DEF CloseConn, Early, TypeInv, TypeOK, ConnStates

LEMMA CrashBin ==
  ASSUME BinInv, Crash PROVE BinInv' /\ (CleanedByBin => CleanedByBin')
  BY DEF Crash, BinInv, CleanedByBin, tvars, cvars

LEMMA GiveUpBin ==
  ASSUME TypeInv, BinInv, NEW t \in Calls, NEW state,
         NEW conns \in Told(t), GiveUp(t, state, conns)
  PROVE BinInv' /\ (CleanedByBin => CleanedByBin')
  <1>1. /\ conns \in [Calls -> ConnStates]
        /\ \A u \in Calls : conn[u] \notin Early => conns[u] \notin Early
    BY DEF TypeInv, TypeOK, ConnStates, Early, Told
  <1>2. CASE Cleanup(t, state, conns) /\ UNCHANGED <<jvars, lock, pc, bin>>
    BY <1>1, <1>2, CloseConnBin DEF Cleanup, BinInv, CleanedByBin
  <1> QED
    BY <1>2, CrashBin DEF GiveUp

LEMMA JavaBin ==
  ASSUME TypeInv, BinInv, NativeCallOtherParty \/ NativeEndCall \/ JavaStep
  PROVE BinInv' /\ (CleanedByBin => CleanedByBin')
  <1>1. CASE EndLocked
    <2>1. CASE Cleanup(Java, 0, conn) /\ UNCHANGED <<pc, bin>>
      <3>1. conn \in [Calls -> ConnStates]
        BY DEF TypeInv, TypeOK, ConnStates
      <3> QED
        BY <2>1, <3>1, CloseConnBin DEF Cleanup, BinInv, CleanedByBin
    <2>2. CASE UNCHANGED <<tvars, cvars>>
      BY <2>2 DEF BinInv, CleanedByBin, tvars, cvars
    <2> QED
      BY <1>1, <2>1, <2>2, CrashBin DEF EndLocked
  <1>2. CASE CleanStep(Java)
    BY <1>2, Names, CleanStepBin
  <1>3. CASE CreateThread
    BY <1>3 DEF CreateThread, NextCall, Room, WillCreate, BinInv, CleanedByBin,
       TypeInv, TypeOK, cvars
  <1> QED
    BY <1>1, <1>2, <1>3
       DEF JavaStep, NativeCallOtherParty, NativeEndCall, EndUnlocks, EndJoined, CheckLoop,
           BinInv, CleanedByBin, tvars, cvars

LEMMA DispatchBin ==
  ASSUME TypeInv, BinInv, NEW t \in Calls, Dispatch(t)
  PROVE BinInv' /\ (CleanedByBin => CleanedByBin')
  <1> USE DEF TypeInv, TypeOK, BinInv, CleanedByBin, Early, At, Goto, SetConn, jvars, cvars
  <1>1. CASE ServerConnected(t)
    BY <1>1 DEF ServerConnected
  <1>2. CASE ConnectFails(t)
    BY <1>2 DEF ConnectFails
  <1>3. CASE Hello(t)
    <2>1. CASE app_state' = Connecting /\ SetConn(t, "session")
               /\ UNCHANGED <<jvars, lock, pc, bin, cvars>>
      BY <1>3, <2>1 DEF Hello
    <2> QED
      BY <1>3, <2>1, HelloMoves, GiveUpBin
  <1>4. CASE SessionOk(t)
    BY <1>4, GiveUpBin DEF SessionOk, Told
  <1>5. CASE ServerError(t)
    BY <1>5, GiveUpBin DEF ServerError, Told
  <1>6. CASE SdpAnswer(t)
    BY <1>6, CrashBin DEF SdpAnswer
  <1>7. CASE ServerClosed(t)
    BY <1>7, GiveUpBin DEF ServerClosed, Told
  <1> QED
    BY <1>1, <1>2, <1>3, <1>4, <1>5, <1>6, <1>7 DEF Dispatch

LEMMA CallStepBin ==
  ASSUME TypeInv, BinInv, NEW t \in Calls, CallStep(t)
  PROVE BinInv' /\ (CleanedByBin => CleanedByBin')
  <1> USE DEF TypeInv, TypeOK, BinInv, CleanedByBin, At, Goto, jvars, cvars
  <1>1. CASE PipelineFails(t)
    <2>1. conn \in [Calls -> ConnStates]
      BY DEF ConnStates
    <2> QED
      BY <1>1, <2>1, Names, CloseConnBin, CrashBin DEF PipelineFails
  <1>2. CASE StartPipeline(t)
    BY <1>2 DEF StartPipeline
  <1>3. CASE CleanStep(t)
    BY <1>3, Names, CleanStepBin
  <1> QED
    BY <1>1, <1>2, <1>3 DEF CallStep, LockAndRun, UnlockMutex, ConnectToServer, LoopReturns

LEMMA CallbackBin ==
  ASSUME TypeInv, BinInv, NEW t \in Calls, Callback(t)
  PROVE BinInv' /\ (CleanedByBin => CleanedByBin')
  <1> USE DEF TypeInv, TypeOK, BinInv, CleanedByBin, Runs, SetBin, jvars, cvars
  <1>1. CASE NegotiationNeeded(t)
    BY <1>1 DEF NegotiationNeeded
  <1>2. CASE OfferCreated(t)
    BY <1>2, CrashBin DEF OfferCreated
  <1>3. CASE BinGivesUp(t)
    <2>1. conn \in [Calls -> ConnStates]
      BY DEF ConnStates
    <2>2. conn' = CloseConn(conn) /\ UNCHANGED <<pc, pipe>> /\ bin' = [bin EXCEPT ![t] = "gaveup"]
      BY <1>3 DEF BinGivesUp, Cleanup
    <2>3. bin[t] # "none"
      BY DEF Callback, NegotiationNeeded, OfferCreated, SendSdpOffer, SendIceCandidate
    <2> QED
      BY <2>1, <2>2, <2>3, CloseConnBin
  <1>4. CASE SendSdpOffer(t)
    BY <1>3, <1>4, CrashBin DEF SendSdpOffer
  <1>5. CASE SendIceCandidate(t)
    BY <1>3, <1>5, CrashBin DEF SendIceCandidate
  <1> QED
    BY <1>1, <1>2, <1>4, <1>5 DEF Callback

LEMMA NextBin ==
  ASSUME TypeInv, BinInv, Next PROVE BinInv' /\ (CleanedByBin => CleanedByBin')
  BY Names, JavaBin, DispatchBin, CallStepBin, CallbackBin, CleanStepBin DEF Next

LEMMA InitInv == Init => Inv
  BY Names, InitType, InitSafe DEF Inv, Init, BinInv

LEMMA NextInv == Inv /\ [Next]_vars => Inv'
  <1> SUFFICES ASSUME Inv, [Next]_vars PROVE Inv'
    OBVIOUS
  <1>1. TypeInv'
    BY NextType DEF Inv
  <1>2. CASE UNCHANGED vars
    <2>1. BinInv'
      BY <1>2 DEF Inv, BinInv, vars, tvars, cvars
    <2>2. (SafeInv => SafeInv') /\ (CleanedByBin => CleanedByBin')
      BY <1>2, UnchangedSafe DEF Others, CleanedByBin, vars, jvars, tvars, cvars
    <2>3. (java = "crashed" /\ LoopReachable) => (java = "crashed" /\ LoopReachable)'
      BY <1>2 DEF LoopReachable, CleanedByBin, Running, vars, jvars, tvars, cvars
    <2> QED
      BY <1>1, <2>1, <2>2, <2>3 DEF Inv
  <1>3. CASE Next
    <2>1. BinInv' /\ (CleanedByBin => CleanedByBin')
      BY <1>3, NextBin DEF Inv
    <2>2. java # "crashed"
      BY <1>3 DEF Next
    <2>3. SafeInv => SafeInv' \/ (java = "crashed" /\ LoopReachable)' \/ CleanedByBin'
      BY <1>3, NextSafe DEF Inv
    <2> QED
      BY <1>1, <2>1, <2>2, <2>3 DEF Inv
  <1> QED
    BY <1>2, <1>3

LEMMA Invariance == Spec => []Inv
  BY InitInv, NextInv, PTL DEF Spec

-----------------------------------------------------------------------------
(* The theorems.                                                           *)

\* Each variable keeps its range, however many calls are made: the threads
\* that pass the loop and the mutex around never name a call that is not one.
THEOREM TypeCorrect == Spec => []TypeOK
  <1>1. Inv => TypeOK
    BY DEF Inv, TypeInv
  <1> QED
    BY <1>1, Invariance, PTL

\* A loop that runs is the one webrtc->loop points to, so that native_end_call
\* can end it: cleanup_and_quit_loop, which holds no mutex, never clears the
\* loop of a call later than its own, unless webrtcbin's thread runs it.
THEOREM LoopReachableHolds == Spec => []LoopReachable
  <1>1. Inv => LoopReachable
    BY DEF Inv, SafeInv, LoopInv, LoopReachable
  <1> QED
    BY <1>1, Invariance, PTL

\* When native_end_call has returned, no call runs and none will: the thread of
\* every earlier call has ended, or only has the rest of its cleanup to do.
THEOREM EndedIsEndedHolds == Spec => []EndedIsEnded
  <1>1. Inv => EndedIsEnded
    <2> SUFFICES ASSUME SafeInv, java \in {"idle", "create", "freed"}, NEW t \in Calls
                 PROVE pc[t] # "start" /\ ~Running(t)
      BY DEF Inv, EndedIsEnded
    <2>1. loop = None
      BY DEF SafeInv, JavaInv
    <2> QED
      BY <2>1, Names DEF SafeInv, LoopInv, ThreadInv
  <1> QED
    BY <1>1, Invariance, PTL

\* The thread of a call that is joined has been told to end and holds nothing
\* that it needs to do so.
THEOREM JoinEndsHolds == Spec => []JoinEnds
  <1>1. Inv => JoinEnds
    BY DEF Inv, TypeInv, TypeOK, SafeInv, JavaInv, ThreadInv, JoinEnds
  <1> QED
    BY <1>1, Invariance, PTL

\* The wait for the loop, which is not repeated by a timeout, is always ended
\* by the broadcast of a thread that has yet to run, or the call is over.
THEOREM WakeUpComesHolds == Spec => []WakeUpComes
  <1>1. Inv => WakeUpComes
    BY DEF Inv, TypeInv, TypeOK, SafeInv, JavaInv, LoopInv, ThreadInv, Retired, WakeUpComes
  <1> QED
    BY <1>1, Invariance, PTL
=============================================================================
