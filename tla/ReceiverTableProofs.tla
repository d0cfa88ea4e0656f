------------------------ MODULE ReceiverTableProofs -------------------------
(***************************************************************************)
(* The safety of the servers of src/sendonly, for any number of            *)
(* connections, pages and candidates.                                      *)
(***************************************************************************)
EXTENDS ReceiverTable, TLAPS

\* The main thread deals with a connection unless it is idle.
Place == at = "idle" <=> main = None

\* The entries: those of the table, and the one that is being destroyed.
Entries ==
  /\ entry = IF at \in {"closed", "stopped"} THEN table \cup {main} ELSE table
  /\ at = "accepted" => main \in table
  /\ at \in {"closed", "stopped"} => main \notin table

\* A connection is referred to by its entry, and by libsoup in its handler.
References ==
  \A c \in Conns :
    refs[c] = IF c \notin entry THEN 0
              ELSE IF main = c /\ at = "accepted" THEN 2 ELSE 1

\* A pipeline does nothing, and calls nobody, before it is made or after it is
\* stopped; a candidate is announced once; nothing moves the pipeline on while
\* it makes its offer or hands over a pad.
Stopped(c) == c \notin entry \/ (at = "stopped" /\ main = c)
Pipelines ==
  \A c \in Conns :
    /\ Stopped(c) => bin[c] = "none" /\ uses[c] = "none"
    /\ uses[c] = "ice" => ice[c] > 0
    /\ uses[c] = "offer" => bin[c] = "creating"
    /\ uses[c] = "pad" => bin[c] = "connected"

\* The program returns when the table is empty and nothing is being destroyed.
Emptied == run = "ended" => table = {} /\ main = None

Inv == TypeOK /\ Place /\ Entries /\ References /\ Pipelines /\ Emptied

LEMMA InitInv == Init => Inv
  <1> SUFFICES ASSUME Init PROVE Inv
    OBVIOUS
  <1> USE ConnsAssumption
  <1>1. TypeOK
    BY DEF Init, TypeOK, Callbacks, Stages
  <1>2. Place /\ Entries /\ References /\ Emptied
    BY DEF Init, Place, Entries, References, Emptied
  <1>3. Pipelines
    BY DEF Init, Pipelines, Stopped
  <1> QED
    BY <1>1, <1>2, <1>3 DEF Inv

-----------------------------------------------------------------------------
(* One lemma for each kind of step.                                        *)

LEMMA AbortStep == ASSUME Inv, Abort PROVE Inv'
  BY DEF Inv, Abort, TypeOK, Place, Entries, References, Pipelines, Stopped,
         Emptied, evars, pvars

LEMMA AcceptStep == ASSUME Inv, NEW c \in Conns, Accept(c) PROVE Inv'
  <1>1. CASE Abort
    BY <1>1, AbortStep
  <1>2. CASE ~Abort
    <2> USE <1>2 DEF Accept, IdleLoop, Turn, Goes, EntryRefs
    <2>1. c \notin entry /\ c \notin table /\ c # None /\ at = "idle"
      BY ConnsAssumption DEF Inv, References, Entries
    <2>2. TypeOK'
      BY ConnsAssumption DEF Inv, TypeOK, Stages
    <2>3. Place' /\ Entries' /\ Emptied'
      BY <2>1 DEF Inv, Place, Entries, Emptied
    <2>4. References'
      BY <2>1 DEF Inv, TypeOK, References, Entries
    <2>5. Pipelines'
      BY <2>1 DEF Inv, TypeOK, Pipelines, Stopped, Entries
    <2> QED
      BY <2>2, <2>3, <2>4, <2>5 DEF Inv
  <1> QED
    BY <1>1, <1>2

LEMMA AcceptedStep == ASSUME Inv, NEW c \in Conns, Accepted(c) PROVE Inv'
  <1> USE DEF Accepted, Turn, Goes, Alive, pvars
  <1>1. c \in entry /\ refs[c] = 2 /\ c # None
    BY ConnsAssumption DEF Inv, References, Entries
  <1>2. TypeOK'
    BY <1>1 DEF Inv, TypeOK
  <1>3. Place' /\ Entries' /\ Emptied'
    BY DEF Inv, Place, Entries, Emptied
  <1>4. References'
    BY <1>1, ConnsAssumption DEF Inv, TypeOK, References
  <1>5. Pipelines'
    BY DEF Inv, Pipelines, Stopped
  <1> QED
    BY <1>2, <1>3, <1>4, <1>5 DEF Inv

LEMMA RemoveStep ==
  ASSUME Inv, NEW c \in Conns, c \in table, Turn(None, "idle"), run # "ended", Remove(c)
  PROVE Inv'
  <1> USE DEF Remove, Turn, Goes, pvars
  <1>1. c \in entry /\ c # None
    BY ConnsAssumption DEF Inv, Entries
  <1>2. TypeOK'
    BY DEF Inv, TypeOK
  <1>3. Place' /\ Entries' /\ Emptied'
    BY <1>1 DEF Inv, Place, Entries, Emptied
  <1>4. References'
    BY <1>1 DEF Inv, References
  <1>5. Pipelines'
    BY <1>1, ConnsAssumption DEF Inv, Pipelines, Stopped
  <1> QED
    BY <1>2, <1>3, <1>4, <1>5 DEF Inv

LEMMA StopStep == ASSUME Inv, NEW c \in Conns, DestroyStop(c) PROVE Inv'
  <1>1. CASE Abort
    BY <1>1, AbortStep
  <1>2. CASE ~Abort
    <2> USE <1>2 DEF DestroyStop, Turn, Goes, Alive, evars
    <2>1. c \in entry /\ c # None /\ refs[c] = 1
      BY ConnsAssumption DEF Inv, Entries, References
    <2>2. TypeOK'
      BY DEF Inv, TypeOK, Stages
    <2>3. Place' /\ Entries' /\ Emptied'
      BY <2>1 DEF Inv, Place, Entries, Emptied
    <2>4. References'
      BY <2>1 DEF Inv, References
    <2>5. Pipelines'
      BY <2>1 DEF Inv, TypeOK, Pipelines, Stopped
    <2> QED
      BY <2>2, <2>3, <2>4, <2>5 DEF Inv
  <1> QED
    BY <1>1, <1>2

LEMMA FreeStep == ASSUME Inv, NEW c \in Conns, DestroyFree(c) PROVE Inv'
  <1> USE DEF DestroyFree, Turn, Goes, Alive
  <1>1. c \in entry /\ c \notin table /\ c # None /\ refs[c] = 1
    BY ConnsAssumption DEF Inv, Entries, References
  <1>2. TypeOK'
    BY <1>1, ConnsAssumption DEF Inv, TypeOK
  <1>3. Place' /\ Entries' /\ Emptied'
    BY <1>1 DEF Inv, Place, Entries, Emptied
  <1>4. References'
    BY <1>1, ConnsAssumption DEF Inv, TypeOK, References
  <1>5. Pipelines'
    BY <1>1, ConnsAssumption DEF Inv, TypeOK, Pipelines, Stopped
  <1> QED
    BY <1>2, <1>3, <1>4, <1>5 DEF Inv

LEMMA QuitStep == ASSUME Inv, Signal \/ Ended PROVE Inv'
  BY DEF Inv, Signal, Ended, IdleLoop, Turn, TypeOK, Place, Entries, References,
         Pipelines, Stopped, Emptied, evars, pvars

\* What the threads of a pipeline do, and what the pages do, leaves the main
\* thread and its structures alone.
Outside == UNCHANGED <<mvars, evars, pages>>

LEMMA OutsideStep ==
  ASSUME Inv, Outside, TypeOK', Pipelines'
  PROVE Inv'
  BY DEF Inv, Outside, mvars, evars, Place, Entries, References, Emptied

LEMMA PageStep == ASSUME Inv, NEW c \in Conns, PageCloses(c) \/ ReceiveAnswer(c) PROVE Inv'
  <1> USE DEF PageCloses, ReceiveAnswer, mvars, evars, pvars
  <1>1. Outside
    BY DEF Outside
  <1>2. TypeOK'
    BY DEF Inv, TypeOK, Stages
  <1>3. Pipelines'
    BY DEF Inv, TypeOK, Pipelines, Stopped
  <1> QED
    BY <1>1, <1>2, <1>3, OutsideStep

LEMMA BeginStep ==
  ASSUME Inv, NEW c \in Conns, NEW callback \in Callbacks, Begin(c, callback),
         bin[c] # "none", callback = "ice" => ice[c] > 0,
         callback = "offer" => bin[c] = "creating",
         callback = "pad" => bin[c] = "connected", UNCHANGED bin
  PROVE Inv'
  <1> USE DEF Begin, mvars, evars
  <1>1. Outside
    BY DEF Outside
  <1>2. TypeOK'
    BY DEF Inv, TypeOK
  <1>3. Pipelines'
    BY DEF Inv, TypeOK, Pipelines, Stopped
  <1> QED
    BY <1>1, <1>2, <1>3, OutsideStep

LEMMA PipelineStep ==
  ASSUME Inv, NEW c \in Conns,
         PipelineThread(c) \/ OnIceCandidate(c) \/ OnIncomingStream(c)
  PROVE Inv'
  <1>1. CASE OnNegotiationNeeded(c)
    <2> USE <1>1 DEF OnNegotiationNeeded, mvars, evars
    <2>1. Outside
      BY DEF Outside
    <2>2. TypeOK'
      BY DEF Inv, TypeOK, Stages
    <2>3. Pipelines'
      BY DEF Inv, TypeOK, Pipelines, Stopped
    <2> QED
      BY <2>1, <2>2, <2>3, OutsideStep
  <1>2. CASE Return(c)
    <2> USE <1>2 DEF Return, After, mvars, evars
    <2>1. Outside
      BY DEF Outside
    <2>2. TypeOK'
      <3>1. ice' \in [Conns -> 0..MaxIce]
        BY ConnsAssumption DEF Inv, TypeOK, Pipelines
      <3>2. bin' \in [Conns -> Stages]
        BY DEF Inv, TypeOK, Stages
      <3> QED
        BY <3>1, <3>2 DEF Inv, TypeOK, Callbacks
    <2>3. Pipelines'
      BY DEF Inv, TypeOK, Pipelines, Stopped
    <2> QED
      BY <2>1, <2>2, <2>3, OutsideStep
  <1>3. CASE OnOfferCreated(c)
    BY <1>3, BeginStep DEF OnOfferCreated, Callbacks
  <1>4. CASE OnIceCandidate(c)
    BY <1>4, BeginStep DEF OnIceCandidate, Callbacks
  <1>5. CASE OnIncomingStream(c)
    BY <1>5, BeginStep DEF OnIncomingStream, Callbacks
  <1> QED
    BY <1>1, <1>2, <1>3, <1>4, <1>5 DEF PipelineThread

LEMMA NextInv == Inv /\ [Next]_vars => Inv'
  <1> SUFFICES ASSUME Inv, [Next]_vars PROVE Inv'
    OBVIOUS
  <1>1. CASE UNCHANGED vars
    BY <1>1 DEF vars, mvars, evars, pvars, Inv, TypeOK, Place, Entries,
                References, Pipelines, Stopped, Emptied
  <1>2. CASE Signal \/ Ended
    BY <1>2, QuitStep
  <1>3. ASSUME NEW c \in Conns, Accept(c) PROVE Inv'
    BY <1>3, AcceptStep
  <1>4. ASSUME NEW c \in Conns, PageCloses(c) \/ ReceiveAnswer(c) PROVE Inv'
    BY <1>4, PageStep
  <1>5. ASSUME NEW c \in Conns,
               PipelineThread(c) \/ OnIceCandidate(c) \/ OnIncomingStream(c)
        PROVE Inv'
    BY <1>5, PipelineStep
  <1>6. ASSUME NEW c \in Conns, MainThread(c) PROVE Inv'
    <2>1. CASE Accepted(c)
      BY <2>1, AcceptedStep
    <2>2. CASE Closed(c) \/ DestroyAll(c)
      BY <2>2, RemoveStep DEF Closed, DestroyAll, IdleLoop
    <2>3. CASE DestroyStop(c)
      BY <2>3, StopStep
    <2>4. CASE DestroyFree(c)
      BY <2>4, FreeStep
    <2> QED
      BY <1>6, <2>1, <2>2, <2>3, <2>4 DEF MainThread
  <1> QED
    BY <1>1, <1>2, <1>3, <1>4, <1>5, <1>6 DEF Next

THEOREM Invariance == Spec => []Inv
  BY InitInv, NextInv, PTL DEF Spec

-----------------------------------------------------------------------------

\* Every variable keeps its type: no reference is dropped that was not taken.
THEOREM TypeCorrect == Spec => []TypeOK
  <1>1. Inv => TypeOK
    BY DEF Inv
  <1> QED
    BY <1>1, Invariance, PTL

\* A callback of a pipeline never runs on an entry that has been freed.
THEOREM EntryAliveHolds == Spec => []EntryAlive
  <1>1. Inv => EntryAlive
    BY DEF Inv, Pipelines, Stopped, EntryAlive
  <1> QED
    BY <1>1, Invariance, PTL

\* An entry never sends on a connection that has been freed.
THEOREM ConnectionAliveHolds == Spec => []ConnectionAlive
  <1>1. Inv => ConnectionAlive
    BY DEF Inv, References, ConnectionAlive
  <1> QED
    BY <1>1, Invariance, PTL

\* When the program has ended no entry, no connection and no callback is left.
THEOREM CleanExitHolds == Spec => []CleanExit
  <1>1. Inv => CleanExit
    BY DEF Inv, Emptied, Place, Entries, References, Pipelines, Stopped, CleanExit
  <1> QED
    BY <1>1, Invariance, PTL

-----------------------------------------------------------------------------
(* The refinement of PageLease.                                            *)

StageNow == [c \in Conns |-> StageOf(c)]
BusyNow == {c \in Conns : uses[c] # "none"}
LeaseVars == <<StageNow, BusyNow, run = "ended">>

\* What the steps of a connection leave of the others.
Alone(c) == \A d \in Conns \ {c} : refs'[d] = refs[d] /\ bin'[d] = bin[d]

LEMMA StageMoves ==
  ASSUME NEW c \in Conns, Alone(c), NEW to, StageOf(c)' = to
  PROVE  StageNow' = [StageNow EXCEPT ![c] = to]
  BY DEF Alone, StageNow, StageOf

LEMMA StageKept ==
  ASSUME NEW c \in Conns, Alone(c), StageOf(c)' = StageOf(c)
  PROVE  StageNow' = StageNow
  BY DEF Alone, StageNow, StageOf

\* A pipeline that is not in service calls nobody.
LEMMA ServiceStages ==
  ASSUME Inv, NEW c \in Conns
  PROVE  /\ refs[c] > 0 /\ bin[c] # "none" => StageOf(c) \in {"held", "offered", "answered"}
         /\ uses[c] # "none" => refs[c] > 0 /\ refs[c] # 0
         /\ bin[c] # "none" => refs[c] > 0 /\ refs[c] # 0
  <1>1. uses[c] # "none" \/ bin[c] # "none" => c \in entry
    BY DEF Inv, Pipelines, Stopped
  <1>2. c \in entry => refs[c] \in {1, 2}
    BY DEF Inv, References
  <1> QED
    BY <1>1, <1>2 DEF Inv, TypeOK, Stages, StageOf

LEMMA GrantLease ==
  ASSUME Inv, NEW c \in Conns, Accept(c)
  PROVE  [Lease!Next]_LeaseVars
  <1>1. CASE Abort
    BY <1>1 DEF Abort, Accept, IdleLoop, evars, pvars, LeaseVars, StageNow, StageOf, BusyNow
  <1>2. CASE ~Abort
    <2> USE <1>2 DEF Accept, IdleLoop, EntryRefs, Inv, TypeOK
    <2>1. StageOf(c) = "free" /\ StageOf(c)' = "held" /\ Alone(c)
      BY DEF StageOf, Alone
    <2>2. StageNow' = [StageNow EXCEPT ![c] = "held"]
      BY <2>1, StageMoves
    <2>3. Lease!Grant(c)
      BY <2>1, <2>2 DEF Lease!Grant, Lease!Moves, StageNow, BusyNow
    <2> QED
      BY <2>3 DEF Lease!Next
  <1> QED
    BY <1>1, <1>2

LEMMA AcceptedLease ==
  ASSUME Inv, NEW c \in Conns, Accepted(c)
  PROVE  UNCHANGED LeaseVars
  <1>1. refs[c] = 2
    BY DEF Accepted, Turn, Inv, References, Entries
  <1>2. Alone(c) /\ StageOf(c)' = StageOf(c)
    BY <1>1 DEF Accepted, Inv, TypeOK, pvars, Alone, StageOf
  <1> QED
    BY <1>2, StageKept DEF Accepted, pvars, LeaseVars, BusyNow

LEMMA StopLease ==
  ASSUME Inv, NEW c \in Conns, DestroyStop(c)
  PROVE  [Lease!Next]_LeaseVars
  <1>1. CASE Abort
    BY <1>1 DEF Abort, DestroyStop, Alive, evars, pvars, LeaseVars, StageNow, StageOf, BusyNow
  <1>2. CASE ~Abort
    <2> USE <1>2 DEF DestroyStop, Turn, evars
    <2>1. refs[c] = 1 /\ uses[c] = "none"
      BY ConnsAssumption DEF Inv, Entries, References
    <2>2. StageOf(c)' = "stopped" /\ Alone(c)
      BY <2>1 DEF Inv, TypeOK, StageOf, Alone
    <2>3. StageNow' = [StageNow EXCEPT ![c] = "stopped"]
      BY <2>2, StageMoves
    <2>4. CASE bin[c] = "none"
      <3>1. StageOf(c)' = StageOf(c)
        BY <2>1, <2>2, <2>4 DEF StageOf
      <3> QED
        BY <2>2, <3>1, StageKept DEF LeaseVars, BusyNow
    <2>5. CASE bin[c] # "none"
      <3>1. Lease!InService(c) /\ c \notin BusyNow
        BY <2>1, <2>5, ServiceStages DEF Lease!InService, BusyNow
      <3>2. Lease!Stop(c)
        BY <2>3, <3>1 DEF Lease!Stop, Lease!Moves, StageNow, BusyNow
      <3> QED
        BY <3>2 DEF Lease!Next
    <2> QED
      BY <2>4, <2>5
  <1> QED
    BY <1>1, <1>2

LEMMA FreeLease ==
  ASSUME Inv, NEW c \in Conns, DestroyFree(c)
  PROVE  [Lease!Next]_LeaseVars
  <1>1. refs[c] = 1 /\ bin[c] = "none"
    BY ConnsAssumption DEF DestroyFree, Turn, Inv, Entries, References, Pipelines, Stopped
  <1>2. StageOf(c) = "stopped" /\ StageOf(c)' = "free" /\ Alone(c)
    BY <1>1 DEF DestroyFree, Inv, TypeOK, StageOf, Alone
  <1>3. StageNow' = [StageNow EXCEPT ![c] = "free"]
    BY <1>2, StageMoves
  <1>4. Lease!GiveBack(c)
    BY <1>2, <1>3 DEF DestroyFree, Lease!GiveBack, Lease!Moves, StageNow, BusyNow
  <1> QED
    BY <1>4 DEF Lease!Next

LEMMA AnswerLease ==
  ASSUME Inv, NEW c \in Conns, ReceiveAnswer(c)
  PROVE  [Lease!Next]_LeaseVars
  <1>1. refs[c] # 0
    BY ServiceStages DEF ReceiveAnswer
  <1>2. StageOf(c) = "offered" /\ StageOf(c)' = "answered" /\ Alone(c)
    BY <1>1 DEF ReceiveAnswer, evars, Inv, TypeOK, StageOf, Alone
  <1>3. StageNow' = [StageNow EXCEPT ![c] = "answered"]
    BY <1>2, StageMoves
  <1>4. Lease!Answer(c)
    BY <1>2, <1>3 DEF ReceiveAnswer, mvars, Lease!Answer, Lease!Moves, StageNow, BusyNow
  <1> QED
    BY <1>4 DEF Lease!Next

LEMMA UseLease ==
  ASSUME Inv, NEW c \in Conns, NEW callback \in Callbacks \ {"none"},
         bin[c] # "none", Begin(c, callback), UNCHANGED bin
  PROVE  [Lease!Next]_LeaseVars
  <1>1. BusyNow' = BusyNow \cup {c} /\ c \notin BusyNow
    BY DEF Begin, BusyNow, Inv, TypeOK
  <1>2. StageNow' = StageNow
    BY DEF Begin, evars, StageNow, StageOf
  <1>3. Lease!InService(c)
    BY ServiceStages DEF Lease!InService
  <1>4. Lease!Use(c)
    BY <1>1, <1>2, <1>3 DEF Begin, mvars, Lease!Use, StageNow, BusyNow
  <1> QED
    BY <1>4 DEF Lease!Next

LEMMA DoneLease ==
  ASSUME Inv, NEW c \in Conns, Return(c)
  PROVE  [Lease!Next]_LeaseVars
  <1>1. BusyNow' = BusyNow \ {c} /\ c \in BusyNow
    BY DEF Return, BusyNow, Inv, TypeOK
  <1>2. Alone(c) /\ refs' = refs /\ refs[c] # 0
    BY ServiceStages DEF Return, evars, Alone, Inv, TypeOK
  <1>3. bin'[c] = After(c)
    BY DEF Return, Inv, TypeOK
  <1>4. \/ StageOf(c)' = StageOf(c)
        \/ StageOf(c) = "held" /\ StageOf(c)' = "offered"
    BY <1>2, <1>3 DEF StageOf, After, Inv, Pipelines
  <1>5. StageNow' = StageNow \/ (StageOf(c) = "held" /\ StageNow' = [StageNow EXCEPT ![c] = "offered"])
    BY <1>2, <1>4, StageMoves, StageKept
  <1>6. Lease!Done(c)
    BY <1>1, <1>5 DEF Return, mvars, Lease!Done, Lease!Moves, StageNow, BusyNow
  <1> QED
    BY <1>6 DEF Lease!Next

LEMMA EndLease ==
  ASSUME Inv, Ended
  PROVE  [Lease!Next]_LeaseVars
  <1>1. \A c \in Conns : refs[c] = 0 /\ uses[c] = "none"
    BY ConnsAssumption
       DEF Ended, Turn, Inv, Place, Entries, References, Pipelines, Stopped
  <1>2. /\ \A c \in Conns : StageNow[c] = "free"
        /\ BusyNow = {}
    BY <1>1 DEF StageNow, StageOf, BusyNow
  <1>3. StageNow' = StageNow /\ BusyNow' = BusyNow
    BY DEF Ended, evars, pvars, StageNow, StageOf, BusyNow
  <1>4. Lease!End
    BY <1>2, <1>3 DEF Ended, Lease!End, StageNow, BusyNow
  <1> QED
    BY <1>4 DEF Lease!Next

LEMMA LeaseStep ==
  ASSUME Inv, [Next]_vars
  PROVE  [Lease!Next]_LeaseVars
  <1>k. ASSUME UNCHANGED <<refs, bin, uses>>, (run = "ended") <=> (run' = "ended")
        PROVE  UNCHANGED LeaseVars
    BY <1>k DEF LeaseVars, StageNow, StageOf, BusyNow
  <1>1. CASE UNCHANGED vars
    BY <1>1, <1>k DEF vars, mvars, evars, pvars
  <1>2. CASE Signal
    BY <1>2, <1>k DEF Signal, IdleLoop, evars, pvars
  <1>3. CASE Ended
    BY <1>3, EndLease
  <1>4. ASSUME NEW c \in Conns, PageCloses(c) \/ Closed(c) \/ DestroyAll(c)
        PROVE  [Lease!Next]_LeaseVars
    BY <1>4, <1>k DEF PageCloses, Closed, DestroyAll, Remove, mvars, evars, pvars
  <1>5. ASSUME NEW c \in Conns, OnNegotiationNeeded(c)
        PROVE  [Lease!Next]_LeaseVars
    <2>1. StageOf(c)' = StageOf(c) /\ Alone(c)
      BY <1>5 DEF OnNegotiationNeeded, evars, Inv, TypeOK, StageOf, Alone
    <2> QED
      BY <1>5, <2>1, StageKept DEF OnNegotiationNeeded, mvars, LeaseVars, BusyNow
  <1>6. ASSUME NEW c \in Conns,
               OnOfferCreated(c) \/ OnIceCandidate(c) \/ OnIncomingStream(c)
        PROVE  [Lease!Next]_LeaseVars
    BY <1>6, UseLease DEF OnOfferCreated, OnIceCandidate, OnIncomingStream, Callbacks
  <1> QED
    BY <1>1, <1>2, <1>3, <1>4, <1>5, <1>6, GrantLease, AcceptedLease, StopLease,
       FreeLease, AnswerLease, DoneLease
       DEF Next, MainThread, PipelineThread

\* For any number of pages, candidates and callbacks, the connection of a page
\* is freed, and its address used again, only when no thread of its pipeline
\* uses it; the page is offered its stream at most once; the end leaves nothing behind.
THEOREM LeaseRefined == Spec => LeaseSpec
  <1>1. Init => Lease!Init
    BY DEF Init, Lease!Init, StageOf
  <1>2. Inv /\ [Next]_vars => [Lease!Next]_LeaseVars
    BY LeaseStep
  <1> QED
    BY <1>1, <1>2, Invariance, PTL DEF Spec, LeaseSpec, Lease!Spec, LeaseVars, StageNow, BusyNow
=============================================================================
