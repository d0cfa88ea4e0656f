--------------------------- MODULE ReceiverTable ----------------------------
(***************************************************************************)
(* The stand-alone servers of src/sendonly: a page that connects gets a    *)
(* receiver entry with a pipeline of its own.  webrtc-unidirectional-h264.c*)
(* sends video; webrtc-recvonly-h264.c also plays what the page sends,     *)
(* and is otherwise the same program.                                      *)
(*                                                                         *)
(* A connection is its address, which is what receiver_entry_table is      *)
(* keyed by: it is used again once the connection has been freed.  The     *)
(* main loop accepts, reads and closes; a callback runs on a thread of its *)
(* pipeline and uses the entry, and the connection, until it returns.      *)
(***************************************************************************)
EXTENDS Naturals, FiniteSets

CONSTANTS
  Conns,    \* addresses of connections
  Playing,  \* the program is webrtc-recvonly-h264.c
  MaxIce,   \* bound: candidates a webrtcbin gathers
  MaxPages, \* bound: pages that connect
  None

ASSUME ConnsAssumption ==
  /\ IsFiniteSet(Conns) /\ None \notin Conns
  /\ Playing \in BOOLEAN /\ MaxIce \in Nat /\ MaxPages \in Nat

VARIABLES
  run,   \* "running", "quitting" (after a signal), "ended" or "aborted"
  main,  \* the connection the main thread is dealing with
  at,    \* how far it is: "idle", "accepted", "closed" or "stopped"
  table, \* the keys of receiver_entry_table
  entry, \* the receiver entries that are allocated, by their connection
  refs,  \* refs[c]: references to a connection; it is freed with the last
  sock,  \* sock[c]: "none", "open" or "closing" (the page has closed it)
  bin,   \* bin[c]: what the pipeline of an entry has done so far
  uses,  \* uses[c]: the callback of the pipeline that is running
  ice,   \* ice[c]: candidates still to announce
  pages  \* pages that have connected

mvars == <<run, main, at>>
evars == <<table, entry, refs>>
pvars == <<bin, uses, ice>>
vars == <<mvars, evars, sock, pvars, pages>>

Callbacks == {"none", "offer", "ice", "pad"}
\* A mute pipeline has failed to start, and gives its webrtcbin nothing to offer.
Stages == {"none", "mute", "new", "creating", "offered", "connected", "playing"}

TypeOK ==
  /\ run \in {"running", "quitting", "ended", "aborted"}
  /\ main \in Conns \cup {None}
  /\ at \in {"idle", "accepted", "closed", "stopped"}
  /\ table \subseteq Conns /\ entry \subseteq Conns
  /\ refs \in [Conns -> 0..2]
  /\ sock \in [Conns -> {"none", "open", "closing"}]
  /\ bin \in [Conns -> Stages]
  /\ uses \in [Conns -> Callbacks]
  /\ ice \in [Conns -> 0..MaxIce]
  /\ pages \in 0..MaxPages

Init ==
  /\ run = "running" /\ main = None /\ at = "idle"
  /\ table = {} /\ entry = {}
  /\ refs = [c \in Conns |-> 0]
  /\ sock = [c \in Conns |-> "none"]
  /\ bin = [c \in Conns |-> "none"]
  /\ uses = [c \in Conns |-> "none"]
  /\ ice = [c \in Conns |-> MaxIce]
  /\ pages = 0

-----------------------------------------------------------------------------
(* The main thread.                                                        *)

Alive == run \in {"running", "quitting"}
Turn(c, where) == main = c /\ at = where
Goes(c, where) == main' = c /\ at' = where
IdleLoop == run = "running" /\ Turn(None, "idle")

Abort ==
  /\ run' = "aborted"
  /\ UNCHANGED <<main, at, evars, sock, pvars, pages>>

\* create_receiver_entry takes a reference beside the one of libsoup.
EntryRefsLibsoup == 1
EntryRefs == 2

\* soup_websocket_handler.  g_error ends the program if there is no pipeline.  If
\* the pipeline does not start nobody is told, and nothing starts it later: the
\* camera may be missing, or another page's pipeline may have it open.
Accept(c) ==
  /\ IdleLoop /\ pages < MaxPages
  /\ refs[c] = 0 /\ sock[c] = "none"
  /\ \/ /\ pages' = pages + 1
        /\ sock' = [sock EXCEPT ![c] = "open"]
        /\ refs' = [refs EXCEPT ![c] = EntryRefs]
        /\ entry' = entry \cup {c}
        /\ table' = table \cup {c}
        /\ \E stage \in {"new", "mute"} : bin' = [bin EXCEPT ![c] = stage]
        /\ Goes(c, "accepted")
        /\ UNCHANGED <<run, uses, ice>>
     \/ Abort

\* libsoup drops its reference when the handler has returned.
Accepted(c) ==
  /\ Alive /\ Turn(c, "accepted")
  /\ refs' = [refs EXCEPT ![c] = @ - 1]
  /\ Goes(None, "idle")
  /\ UNCHANGED <<run, table, entry, sock, pvars, pages>>

\* The page answers the offer; soup_websocket_message_cb hands the answer on.
ReceiveAnswer(c) ==
  /\ IdleLoop /\ sock[c] = "open" /\ bin[c] = "offered"
  /\ bin' = [bin EXCEPT ![c] = "connected"]
  /\ UNCHANGED <<mvars, evars, sock, uses, ice, pages>>

\* soup_websocket_closed_cb removes the entry from the table, which destroys
\* it; so does the end of the table, in main().
Remove(c) ==
  /\ table' = table \ {c}
  /\ Goes(c, "closed")
  /\ UNCHANGED <<run, entry, refs, sock, pvars, pages>>

ClosedIfAnswered(c) ==
  /\ IdleLoop /\ sock[c] = "closing" /\ c \in table
  /\ bin[c] \in {"connected", "playing"}
  /\ Remove(c)

Closed(c) == IdleLoop /\ sock[c] = "closing" /\ c \in table /\ Remove(c)

DestroyAll(c) == run = "quitting" /\ Turn(None, "idle") /\ c \in table /\ Remove(c)

\* destroy_receiver_entry stops the pipeline, which waits for its callbacks ...
DestroyStopAtOnce(c) ==
  /\ Alive /\ Turn(c, "closed")
  /\ bin' = [bin EXCEPT ![c] = "none"]
  /\ Goes(c, "stopped")
  /\ UNCHANGED <<run, evars, sock, uses, ice, pages>>

\* ... and drops an offer that is under way, or, as other versions of webrtcbin
\* do, has on_offer_created_cb called without one, which it follows (l.257).
DestroyStop(c) ==
  /\ Alive /\ Turn(c, "closed") /\ uses[c] = "none"
  /\ \/ /\ bin' = [bin EXCEPT ![c] = "none"]
        /\ Goes(c, "stopped")
        /\ UNCHANGED <<run, evars, sock, uses, ice, pages>>
     \/ bin[c] = "creating" /\ Abort

DestroyFreeTwice(c) ==
  /\ Alive /\ Turn(c, "stopped")
  /\ entry' = entry \ {c}
  /\ refs' = [refs EXCEPT ![c] = @ - 2]
  /\ sock' = [sock EXCEPT ![c] = "none"]
  /\ ice' = [ice EXCEPT ![c] = MaxIce]
  /\ Goes(None, "idle")
  /\ UNCHANGED <<run, table, bin, uses, pages>>

\* ... and frees the entry, with its reference to the connection.
DestroyFree(c) ==
  /\ Alive /\ Turn(c, "stopped")
  /\ entry' = entry \ {c}
  /\ refs' = [refs EXCEPT ![c] = @ - 1]
  /\ sock' = [sock EXCEPT ![c] = "none"]
  /\ ice' = [ice EXCEPT ![c] = MaxIce]
  /\ Goes(None, "idle")
  /\ UNCHANGED <<run, table, bin, uses, pages>>

Signal ==
  /\ IdleLoop
  /\ run' = "quitting"
  /\ UNCHANGED <<main, at, evars, sock, pvars, pages>>

EndedTableKept ==
  /\ run = "quitting" /\ Turn(None, "idle")
  /\ run' = "ended"
  /\ UNCHANGED <<main, at, evars, sock, pvars, pages>>

\* The table has been destroyed: main() returns.
Ended ==
  /\ run = "quitting" /\ Turn(None, "idle") /\ table = {}
  /\ run' = "ended"
  /\ UNCHANGED <<main, at, evars, sock, pvars, pages>>

-----------------------------------------------------------------------------
(* The threads of a pipeline.                                              *)

Begin(c, callback) ==
  /\ Alive /\ uses[c] = "none"
  /\ uses' = [uses EXCEPT ![c] = callback]
  /\ UNCHANGED <<mvars, evars, sock, ice, pages>>

OnNegotiationNeededShared(c) ==
  /\ Alive /\ bin[c] = "new" /\ uses[c] = "none"
  /\ \A d \in table \ {c} : bin[d] \notin {"creating", "offered"}
  /\ bin' = [bin EXCEPT ![c] = "creating"]
  /\ UNCHANGED <<mvars, evars, sock, uses, ice, pages>>

OnNegotiationNeeded(c) ==
  /\ Alive /\ bin[c] = "new" /\ uses[c] = "none"
  /\ bin' = [bin EXCEPT ![c] = "creating"]
  /\ UNCHANGED <<mvars, evars, sock, uses, ice, pages>>

OnOfferCreated(c) == bin[c] = "creating" /\ Begin(c, "offer") /\ UNCHANGED bin

OnIceCandidate(c) ==
  bin[c] \in {"offered", "connected", "playing"} /\ ice[c] > 0 /\ Begin(c, "ice") /\ UNCHANGED bin

OnIncomingStream(c) ==
  Playing /\ bin[c] = "connected" /\ Begin(c, "pad") /\ UNCHANGED bin

\* What a pipeline has done after a callback.
After(c) ==
  IF uses[c] = "offer" THEN "offered"
  ELSE IF uses[c] = "pad" THEN "playing"
  ELSE bin[c]

\* The callback has sent what it had to, or linked the pad, and returns.
Return(c) ==
  /\ Alive /\ uses[c] # "none"
  /\ uses' = [uses EXCEPT ![c] = "none"]
  /\ bin' = [bin EXCEPT ![c] = After(c)]
  /\ ice' = [ice EXCEPT ![c] = IF uses[c] = "ice" THEN @ - 1 ELSE @]
  /\ UNCHANGED <<mvars, evars, sock, pages>>

-----------------------------------------------------------------------------

PageCloses(c) ==
  /\ Alive /\ sock[c] = "open"
  /\ sock' = [sock EXCEPT ![c] = "closing"]
  /\ UNCHANGED <<mvars, evars, pvars, pages>>

MainThread(c) ==
  \/ Accepted(c) \/ Closed(c) \/ DestroyAll(c)
  \/ DestroyStop(c) \/ DestroyFree(c)

PipelineThread(c) == OnNegotiationNeeded(c) \/ OnOfferCreated(c) \/ Return(c)

Next ==
  \/ Signal \/ Ended
  \/ \E c \in Conns :
       \/ Accept(c) \/ ReceiveAnswer(c) \/ PageCloses(c) \/ MainThread(c)
       \/ PipelineThread(c) \/ OnIceCandidate(c) \/ OnIncomingStream(c)

Spec == Init /\ [][Next]_vars

\* The main loop turns, a pipeline that has started has media to offer, and a
\* callback returns; pages, and the user who may send a signal, are free to do
\* nothing.
Fairness ==
  /\ WF_vars(Ended)
  /\ \A c \in Conns : WF_vars(MainThread(c)) /\ WF_vars(PipelineThread(c))

FairSpec == Spec /\ Fairness

-----------------------------------------------------------------------------
(* Properties                                                              *)

\* A callback finds its entry allocated until it returns, on whatever thread,
\* whatever is closed meanwhile: callbacks keep a bare pointer (l.202-206).
EntryAlive == \A c \in Conns : uses[c] # "none" => c \in entry

\* The connection an entry sends on has not been freed, and its address is not
\* that of another: libsoup keeps no reference (l.172).
ConnectionAlive == \A c \in Conns : c \in entry => refs[c] > 0

\* A signal stops every pipeline and frees every connection before the program
\* ends (l.581), also one that was being accepted or closed.
CleanExit ==
  run = "ended" => \A c \in Conns : c \notin entry /\ refs[c] = 0 /\ uses[c] = "none"

\* The entry of a page that has gone is freed, whatever its pipeline was doing,
\* so that entries do not pile up.
EntryFreed ==
  \A c \in Conns : sock[c] = "closing" ~> c \notin entry \/ run = "aborted"

\* A page that stays and whose pipeline has started is offered the stream, whether
\* or not the other pages ever answer their offers: no pipeline waits for the
\* negotiation of another (l.169-208).  One that has failed to start is kept all
\* the same (l.208), and its page waits.
Offered ==
  \A c \in Conns :
    sock[c] = "open" ~> \/ bin[c] \in {"mute", "offered", "connected", "playing"}
                        \/ sock[c] # "open" \/ run # "running"

-----------------------------------------------------------------------------
(* What the table promises (PageLease).  A connection is in service from   *)
(* its first reference to its last; its stage is that of its pipeline.     *)

StageOf(c) ==
  IF refs[c] = 0 THEN "free"
  ELSE IF bin[c] = "none" THEN "stopped"
  ELSE IF bin[c] \in {"mute", "new", "creating"} THEN "held"
  ELSE IF bin[c] = "offered" THEN "offered"
  ELSE "answered"

Lease == INSTANCE PageLease
           WITH stage <- [c \in Conns |-> StageOf(c)],
                busy <- {c \in Conns : uses[c] # "none"},
                over <- run = "ended"

\* The program implements PageLease: no connection is freed, or its address
\* used for another page, while a thread of a pipeline still uses it, each page
\* is offered its stream at most once, and nothing is left when the program ends.
LeaseSpec == Lease!Spec
=============================================================================
