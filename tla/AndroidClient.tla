---------------------------- MODULE AndroidClient ----------------------------
(***************************************************************************)
(* src/android/app/src/main/jni/webrtc.c: the calls that one WebRTC object *)
(* makes, one after another.  Three kinds of thread share its structure:   *)
(*   - the thread of the Java activity, which starts and ends calls;       *)
(*   - a thread for each call, which runs a main loop of its own;          *)
(*   - webrtcbin's thread, for each pipeline, which runs the callbacks.    *)
(* Only the first two take the mutex, and only to hand the loop over:      *)
(* cleanup_and_quit_loop and the handlers run unlocked.  A step is what a  *)
(* thread does between two accesses that another thread can tell apart.    *)
(***************************************************************************)
EXTENDS Naturals

CONSTANTS
  MaxCalls, \* bound: calls, one thread and one pipeline for each
  Java,     \* the thread of the activity
  None

Calls == 1..MaxCalls
BinOf(t) == MaxCalls + t
Threads == {Java} \cup 1..(2 * MaxCalls)

ASSUME CallsAssumption ==
  /\ MaxCalls \in Nat
  /\ Java \notin Nat /\ None \notin Nat /\ Java # None

\* enum AppState: the values another step can find in app_state.
UNKNOWN == 0
ERROR == 1
SERVER_CONNECTING == 1000
SERVER_CONNECTION_ERROR == 1001
SERVER_CONNECTED == 1002
SERVER_REGISTERING == 2000
SERVER_REGISTRATION_ERROR == 2001
SERVER_CLOSED == 2003
PEER_CONNECTING == 3000
PEER_CONNECTION_ERROR == 3001
PEER_CONNECTED == 3002
PEER_CALL_NEGOTIATING == 4000
PEER_CALL_STARTED == 4001
PEER_CALL_ERROR == 4004

AppStates ==
  {UNKNOWN, ERROR, SERVER_CONNECTING, SERVER_CONNECTION_ERROR, SERVER_CONNECTED,
   SERVER_REGISTERING, SERVER_REGISTRATION_ERROR, SERVER_CLOSED,
   PEER_CONNECTING, PEER_CONNECTION_ERROR, PEER_CONNECTED,
   PEER_CALL_NEGOTIATING, PEER_CALL_STARTED, PEER_CALL_ERROR}

\* setup_call follows SERVER_REGISTERED, which only on_server_message sees.
ConnectingUnset == 2002
Connecting == PEER_CONNECTING

VARIABLES
  java,      \* where the Java thread is, see JavaStates
  after,     \* what follows the end of the call: "idle", "create" or "freed"
  lock,      \* the owner of webrtc->lock
  thread,    \* webrtc->thread
  joined,    \* the thread native_end_call is to join
  loop,      \* webrtc->loop, named after the call it is for
  app_state, \* webrtc->app_state
  ws,        \* webrtc->ws_conn, named likewise
  pipe,      \* webrtc->pipe, named likewise
  pc,        \* pc[t]: where the thread of a call is
  quit,      \* the loops that have been quit
  conn,      \* conn[t]: the connection of a call, up to the next answer due
  bin,       \* bin[t]: what the webrtcbin of a call has done so far
  clean      \* clean[a]: what a thread has left of cleanup_and_quit_loop

jvars == <<java, after, thread, joined>>
tvars == <<pc, conn, bin>>
cvars == <<loop, ws, pipe, quit, clean>>
vars == <<jvars, lock, app_state, tvars, cvars>>

JavaStates == {"idle", "incall", "ending", "cleaning", "joining",
               "create", "checking", "waiting", "freed", "crashed"}

TypeOK ==
  /\ java \in JavaStates
  /\ after \in {"idle", "create", "freed"}
  /\ lock \in {Java, None} \cup Calls
  /\ {thread, joined, loop, ws, pipe} \subseteq Calls \cup {None}
  /\ app_state \in AppStates
  /\ pc \in [Calls -> {"none", "start", "locked", "unlocked", "running", "starting", "exited"}]
  /\ quit \subseteq Calls
  /\ conn \in [Calls -> {"none", "failed", "hello", "session", "call",
                         "shut", "closing", "closed", "freed"}]
  /\ bin \in [Calls -> {"none", "new", "creating", "described", "offered", "connected",
                        "gaveup", "stopped"}]
  /\ clean \in [Threads -> {"no", "quit", "clear", "stop", "drop"}]

Init ==
  /\ java = "idle" /\ after = "idle"
  /\ lock = None
  /\ thread = None /\ joined = None
  /\ loop = None /\ ws = None /\ pipe = None
  /\ app_state = UNKNOWN
  /\ pc = [t \in Calls |-> "none"]
  /\ quit = {}
  /\ conn = [t \in Calls |-> "none"]
  /\ bin = [t \in Calls |-> "none"]
  /\ clean = [a \in Threads |-> "no"]

-----------------------------------------------------------------------------
(* A failed assertion, or memory used after it was freed.                  *)

Crash ==
  /\ java' = "crashed"
  /\ UNCHANGED <<after, thread, joined, lock, app_state, tvars, cvars>>

-----------------------------------------------------------------------------
(* cleanup_and_quit_loop, run by any of the threads: the connection, the   *)
(* loop, the pointer to it, the pipeline, the pointer to it.  The pointer  *)
(* to the connection stays.                                                *)

\* One that the server or the network has shut tells its handler later, if at all.
Open == {"hello", "session", "call"}
Listening == Open \cup {"shut"}
StateAfter(state) == IF state > 0 THEN state ELSE app_state

\* webrtc->ws_conn is closed, or unreferenced if it is not open.
CloseConn(conns) ==
  IF ws = None THEN conns
  ELSE [conns EXCEPT ![ws] = IF @ \in Open THEN "closing" ELSE "freed"]

\* With conns for what has happened to the connections in the same step.
Cleanup(a, state, conns) ==
  /\ app_state' = StateAfter(state)
  /\ clean' = [clean EXCEPT ![a] = "quit"]
  /\ conn' = CloseConn(conns)
  /\ UNCHANGED <<loop, ws, pipe, quit>>

Dangling(conns) == ws # None /\ conns[ws] = "freed"

CleanQuit(a) ==
  /\ clean[a] = "quit"
  /\ IF loop = None
     THEN clean' = [clean EXCEPT ![a] = "stop"] /\ UNCHANGED quit
     ELSE clean' = [clean EXCEPT ![a] = "clear"] /\ quit' = quit \cup {loop}
  /\ UNCHANGED <<jvars, lock, app_state, tvars, loop, ws, pipe>>

CleanClear(a) ==
  /\ clean[a] = "clear"
  /\ loop' = None
  /\ clean' = [clean EXCEPT ![a] = "stop"]
  /\ UNCHANGED <<jvars, lock, app_state, tvars, ws, pipe, quit>>

\* Stopping the pipeline waits for the thread of its webrtcbin to end the callback
\* it is in: that thread waits for itself, and whoever else stops the pipeline
\* for it.
CleanStop(a) ==
  /\ clean[a] = "stop"
  /\ IF pipe = None
     THEN clean' = [clean EXCEPT ![a] = "no"] /\ UNCHANGED bin
     ELSE /\ clean[BinOf(pipe)] = "no" /\ bin[pipe] # "described"
          /\ clean' = [clean EXCEPT ![a] = "drop"]
          /\ bin' = [bin EXCEPT ![pipe] = IF @ = "gaveup" THEN @ ELSE "stopped"]
  /\ UNCHANGED <<jvars, lock, app_state, pc, conn, loop, ws, pipe, quit>>

CleanDrop(a) ==
  /\ clean[a] = "drop"
  /\ pipe' = None
  /\ clean' = [clean EXCEPT ![a] = "no"]
  /\ UNCHANGED <<jvars, lock, app_state, tvars, loop, ws, quit>>

CleanStep(a) == CleanQuit(a) \/ CleanClear(a) \/ CleanStop(a) \/ CleanDrop(a)

-----------------------------------------------------------------------------
(* The Java thread.                                                        *)

\* What the activity may ask for when nothing is under way: a call, after the
\* end of the one before if there was any, or the end of it, or close().
NativeCallOtherParty ==
  /\ java \in {"idle", "incall"}
  /\ \E t \in Calls : pc[t] = "none"
  /\ IF thread = None
     THEN java' = "create" /\ UNCHANGED after
     ELSE java' = "ending" /\ after' = "create"
  /\ UNCHANGED <<thread, joined, lock, app_state, tvars, cvars>>

NativeEndCall ==
  /\ java = "incall"
  /\ java' = "ending"
  /\ after' \in {"idle", "freed"}   \* native_free ends the call first
  /\ UNCHANGED <<thread, joined, lock, app_state, tvars, cvars>>

EndLockedKeepsLoop ==
  /\ java = "ending" /\ lock = None
  /\ IF loop = None
     THEN java' = after /\ UNCHANGED <<lock, joined>>
     ELSE java' = "cleaning" /\ lock' = Java /\ joined' = thread
  /\ UNCHANGED <<after, thread, app_state, tvars, cvars>>

\* native_end_call has the lock: nothing to end if there is no loop.
EndLocked ==
  /\ java = "ending" /\ lock = None
  /\ IF loop = None
     THEN /\ java' = after
          /\ UNCHANGED <<after, thread, joined, lock, app_state, tvars, cvars>>
     ELSE IF Dangling(conn)
          THEN Crash
          ELSE /\ java' = "cleaning"
               /\ lock' = Java
               /\ joined' = thread
               /\ Cleanup(Java, 0, conn)
               /\ UNCHANGED <<after, thread, pc, bin>>

EndUnlocksAtOnce ==
  /\ java = "cleaning" /\ clean[Java] = "no"
  /\ thread' = None
  /\ joined' = None
  /\ lock' = None
  /\ java' = after
  /\ UNCHANGED <<after, app_state, tvars, cvars>>

EndUnlocks ==
  /\ java = "cleaning" /\ clean[Java] = "no"
  /\ thread' = None
  /\ lock' = None
  /\ java' = "joining"
  /\ UNCHANGED <<after, joined, app_state, tvars, cvars>>

EndJoined ==
  /\ java = "joining" /\ pc[joined] = "exited"
  /\ joined' = None
  /\ java' = after
  /\ UNCHANGED <<after, thread, lock, app_state, tvars, cvars>>

NextCall == CHOOSE t \in Calls : pc[t] = "none"

CreateThreadOnly ==
  /\ java = "create"
  /\ thread' = NextCall
  /\ pc' = [pc EXCEPT ![NextCall] = "start"]
  /\ java' = "incall"
  /\ UNCHANGED <<after, joined, lock, app_state, conn, bin, cvars>>

CreateThread ==
  /\ java = "create"
  /\ thread' = NextCall
  /\ pc' = [pc EXCEPT ![NextCall] = "start"]
  /\ java' = "checking"
  /\ UNCHANGED <<after, joined, lock, app_state, conn, bin, cvars>>

\* while (!loop) g_cond_wait (): the lock is taken to look, and given back.
CheckLoop ==
  /\ java = "checking" /\ lock = None
  /\ java' = IF loop = None THEN "waiting" ELSE "incall"
  /\ UNCHANGED <<after, thread, joined, lock, app_state, tvars, cvars>>

JavaStep ==
  \/ EndLocked \/ EndUnlocks \/ EndJoined
  \/ CreateThread \/ CheckLoop \/ CleanStep(Java)

-----------------------------------------------------------------------------
(* The thread of a call.                                                   *)

At(t, where) == pc[t] = where /\ clean[t] = "no"
Goto(t, where) == pc' = [pc EXCEPT ![t] = where]
SetConn(t, state) == conn' = [conn EXCEPT ![t] = state]

\* _call_thread, up to the sources it has queued: the lock is kept, so that
\* the Java thread looks at the loop when the first of them has run.
LockAndRunSilent(t) ==
  /\ At(t, "start") /\ lock = None
  /\ lock' = t
  /\ loop' = t
  /\ Goto(t, "locked")
  /\ UNCHANGED <<jvars, app_state, conn, bin, ws, pipe, quit, clean>>

LockAndRun(t) ==
  /\ At(t, "start") /\ lock = None
  /\ lock' = t
  /\ loop' = t
  /\ Goto(t, "locked")
  /\ java' = IF java = "waiting" THEN "checking" ELSE java
  /\ UNCHANGED <<after, thread, joined, app_state, conn, bin, ws, pipe, quit, clean>>

UnlockMutex(t) ==
  /\ At(t, "locked")
  /\ lock' = None
  /\ Goto(t, "unlocked")
  /\ UNCHANGED <<jvars, app_state, conn, bin, cvars>>

ConnectToServer(t) ==
  /\ At(t, "unlocked")
  /\ app_state' = SERVER_CONNECTING
  /\ Goto(t, "running")
  /\ UNCHANGED <<jvars, lock, conn, bin, cvars>>

\* A source that is ready when the loop is quit may still be dispatched.
LoopReturns(t) ==
  /\ At(t, "running") /\ t \in quit
  /\ Goto(t, "exited")
  /\ UNCHANGED <<jvars, lock, app_state, conn, bin, cvars>>

\* on_server_connected: register_with_server gives up, without a word, when the
\* connection is not open any more.
ServerConnected(t) ==
  /\ At(t, "running") /\ conn[t] = "none"
  /\ ws' = t
  /\ \/ app_state' = SERVER_REGISTERING /\ SetConn(t, "hello")
     \/ app_state' = SERVER_CONNECTED /\ SetConn(t, "shut")
  /\ UNCHANGED <<jvars, lock, pc, bin, loop, pipe, quit, clean>>

\* ws_conn is NULL, so that there is no connection to close.
ConnectFails(t) ==
  /\ At(t, "running") /\ conn[t] = "none"
  /\ ws' = None
  /\ app_state' = SERVER_CONNECTION_ERROR
  /\ clean' = [clean EXCEPT ![t] = "quit"]
  /\ SetConn(t, "failed")
  /\ UNCHANGED <<jvars, lock, pc, bin, loop, pipe, quit>>

\* The call is given up: cleanup, or a crash if it meets a freed connection.
GiveUp(t, state, conns) ==
  IF Dangling(conns) THEN Crash
  ELSE Cleanup(t, state, conns) /\ UNCHANGED <<jvars, lock, pc, bin>>

\* HELLO.  setup_call fails without a peer to call, or if the connection has been
\* shut.
Hello(t) ==
  /\ At(t, "running") /\ conn[t] = "hello"
  /\ IF app_state = SERVER_REGISTERING
     THEN \/ /\ app_state' = Connecting
             /\ SetConn(t, "session")
             /\ UNCHANGED <<jvars, lock, pc, bin, cvars>>
          \/ \E state \in {"hello", "shut"} :
               GiveUp(t, PEER_CALL_ERROR, [conn EXCEPT ![t] = state])
     ELSE GiveUp(t, ERROR, conn)

SessionOk(t) ==
  /\ At(t, "running") /\ conn[t] = "session"
  /\ IF app_state = PEER_CONNECTING
     THEN /\ app_state' = PEER_CONNECTED
          /\ SetConn(t, "call")
          /\ Goto(t, "starting")
          /\ UNCHANGED <<jvars, lock, bin, cvars>>
     ELSE GiveUp(t, PEER_CONNECTION_ERROR, conn)

\* start_pipeline, which may fail; it overwrites what webrtc->pipe was.
StartPipeline(t) ==
  /\ At(t, "starting")
  /\ pipe' = t
  /\ bin' = [bin EXCEPT ![t] = "new"]
  /\ Goto(t, "running")
  /\ UNCHANGED <<jvars, lock, app_state, conn, loop, ws, quit, clean>>

PipelineFails(t) ==
  /\ At(t, "starting")
  /\ IF Dangling(conn) THEN Crash
     ELSE /\ pipe' = None
          /\ Goto(t, "running")
          /\ app_state' = PEER_CALL_ERROR
          /\ clean' = [clean EXCEPT ![t] = "quit"]
          /\ conn' = CloseConn(conn)
          /\ UNCHANGED <<jvars, lock, bin, loop, ws, quit>>

\* The states of the switch on ERROR.
ErrorState ==
  IF app_state = SERVER_CONNECTING THEN SERVER_CONNECTION_ERROR
  ELSE IF app_state = SERVER_REGISTERING THEN SERVER_REGISTRATION_ERROR
  ELSE IF app_state = PEER_CONNECTING THEN PEER_CONNECTION_ERROR
  ELSE IF app_state \in {PEER_CONNECTED, PEER_CALL_NEGOTIATING} THEN PEER_CALL_ERROR
  ELSE ERROR

\* ERROR: there is no such peer, or it is busy.
ServerError(t) ==
  /\ At(t, "running") /\ conn[t] = "session"
  /\ GiveUp(t, ErrorState, conn)

SdpAnswer(t) ==
  /\ At(t, "running") /\ conn[t] = "call" /\ bin[t] = "offered"
  /\ IF app_state = PEER_CALL_NEGOTIATING
     THEN /\ app_state' = PEER_CALL_STARTED
          /\ bin' = [bin EXCEPT ![t] = "connected"]
          /\ UNCHANGED <<jvars, lock, pc, conn, cvars>>
     ELSE Crash

\* on_server_closed
ServerClosed(t) ==
  /\ At(t, "running") /\ conn[t] \in Listening
  /\ GiveUp(t, SERVER_CLOSED, [conn EXCEPT ![t] = "closed"])

Dispatch(t) ==
  \/ ServerConnected(t) \/ ConnectFails(t)
  \/ Hello(t) \/ SessionOk(t) \/ ServerError(t)
  \/ SdpAnswer(t) \/ ServerClosed(t)

CallStep(t) ==
  \/ LockAndRun(t) \/ UnlockMutex(t) \/ ConnectToServer(t)
  \/ StartPipeline(t) \/ PipelineFails(t)
  \/ LoopReturns(t) \/ CleanStep(t)

-----------------------------------------------------------------------------
(* The thread of the webrtcbin of a call.                                  *)

Runs(t, stage) == bin[t] = stage /\ clean[BinOf(t)] = "no"
SetBin(t, stage) == bin' = [bin EXCEPT ![t] = stage]

NegotiationNeeded(t) ==
  /\ Runs(t, "new")
  /\ app_state' = PEER_CALL_NEGOTIATING
  /\ SetBin(t, "creating")
  /\ UNCHANGED <<jvars, lock, pc, conn, cvars>>

\* on_offer_created, up to the local description.
OfferCreated(t) ==
  /\ Runs(t, "creating")
  /\ IF app_state = PEER_CALL_NEGOTIATING
     THEN SetBin(t, "described") /\ UNCHANGED <<jvars, lock, app_state, pc, conn, cvars>>
     ELSE Crash

\* app_state says that there is no call: webrtcbin's thread ends it.
BinGivesUp(t) ==
  /\ Cleanup(BinOf(t), ERROR, conn)
  /\ SetBin(t, "gaveup")
  /\ UNCHANGED <<jvars, lock, pc>>

\* The rest of on_offer_created: another thread may have written app_state, and
\* may have freed the connection.
SendSdpOffer(t) ==
  /\ Runs(t, "described")
  /\ IF Dangling(conn) THEN Crash
     ELSE IF app_state < PEER_CALL_NEGOTIATING THEN BinGivesUp(t)
     ELSE SetBin(t, "offered") /\ UNCHANGED <<jvars, lock, app_state, pc, conn, cvars>>

\* send_ice_candidate_message, which leaves everything alone in a call.
SendIceCandidate(t) ==
  /\ Runs(t, "offered") \/ Runs(t, "connected")
  /\ IF Dangling(conn) THEN Crash
     ELSE app_state < PEER_CALL_NEGOTIATING /\ BinGivesUp(t)

Callback(t) ==
  NegotiationNeeded(t) \/ OfferCreated(t) \/ SendSdpOffer(t) \/ SendIceCandidate(t)

\* After native_free, and after a crash, there is nothing left to model.
Next ==
  /\ java \notin {"freed", "crashed"}
  /\ \/ NativeCallOtherParty \/ NativeEndCall \/ JavaStep
     \/ \E t \in Calls :
          Dispatch(t) \/ CallStep(t) \/ Callback(t) \/ CleanStep(BinOf(t))

Spec == Init /\ [][Next]_vars

\* The threads are scheduled, and a callback under way goes on.  Nothing is assumed
\* of the network, of the server or of the user, nor that the mutex is fair.
Fairness ==
  /\ WF_vars(java # "freed" /\ JavaStep)
  /\ \A t \in Calls :
       /\ WF_vars(java \notin {"freed", "crashed"} /\ CallStep(t))
       /\ WF_vars(java \notin {"freed", "crashed"} /\ (SendSdpOffer(t) \/ CleanStep(BinOf(t))))

FairSpec == Spec /\ Fairness

-----------------------------------------------------------------------------
(* Properties                                                              *)

\* The thread of some webrtcbin has run the cleanup (l.233, l.256): nobody waits
\* for that thread, so it may quit and clear the loop of a later call, and it
\* never gets past stopping its own pipeline.
CleanedByBin == \E t \in Calls : bin[t] = "gaveup"

Running(t) == pc[t] \in {"locked", "unlocked", "running", "starting"} /\ t \notin quit

\* A loop that runs is the one webrtc->loop points to, so that native_end_call
\* can end it: the cleanup of an old call never clears the loop of the next.
LoopReachable ==
  CleanedByBin \/ \A t \in Calls : Running(t) => loop = t

\* When native_end_call has returned no call runs, or will run: it cannot find
\* a call whose loop is not there yet (l.763-766), so that the next call, and
\* native_free, meet no thread of an earlier one that still takes messages.
EndedIsEnded ==
  java \in {"idle", "create", "freed"} =>
    CleanedByBin \/ \A t \in Calls : pc[t] # "start" /\ ~Running(t)

\* The thread that native_end_call joins (l.715) has its loop quit and is past
\* the lock: the join, which holds the Java thread, is not for ever.
JoinEnds ==
  java = "joining" =>
    CleanedByBin \/ (joined \in quit /\ pc[joined] \notin {"none", "start", "locked"})

\* No wake-up is lost (l.765-766): while the Java thread waits, the thread of the
\* call has yet to publish its loop and signal, or the call is over already.
WakeUpComes ==
  java = "waiting" =>
    CleanedByBin \/ (thread # None /\ (pc[thread] = "start" \/ thread \in quit))

\* native_end_call returns: the thread it joins is one whose loop was quit.
EndReturns ==
  java \in {"ending", "cleaning", "joining"}
    ~> java \notin {"ending", "cleaning", "joining"} \/ CleanedByBin

\* native_call_other_party returns, unless the call was over before the Java
\* thread could look at the loop (l.765): then it waits for ever.
CallReturns ==
  java \in {"create", "checking", "waiting"}
    ~> \/ java \notin {"create", "checking", "waiting"}
       \/ thread \in quit \/ CleanedByBin
=============================================================================
