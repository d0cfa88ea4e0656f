----------------------------- MODULE PageLease ------------------------------
(***************************************************************************)
(* What the servers of src/sendonly promise of each page that connects:    *)
(* its connection is held for it until nobody uses it any more, and only   *)
(* then is its address free for another page; in between the page is sent  *)
(* at most one offer, to which it gives one answer; once the stream is     *)
(* stopped nobody uses the connection; and the program does not end before *)
(* all connections are given back.                                         *)
(***************************************************************************)
CONSTANTS Conns

VARIABLES stage,  \* stage[c]: "free", "held", "offered", "answered" or "stopped"
          busy,   \* the connections that some thread is using
          over    \* the program has ended

Init ==
  /\ stage = [c \in Conns |-> "free"]
  /\ busy = {}
  /\ over = FALSE

Moves(c, to) == stage' = [stage EXCEPT ![c] = to]
InService(c) == stage[c] \in {"held", "offered", "answered"}

Grant(c) ==
  /\ ~over /\ stage[c] = "free"
  /\ Moves(c, "held")
  /\ UNCHANGED <<busy, over>>

Use(c) ==
  /\ InService(c) /\ c \notin busy
  /\ busy' = busy \cup {c}
  /\ UNCHANGED <<stage, over>>

\* A user is done; one that found the page without an offer may have sent it.
Done(c) ==
  /\ c \in busy
  /\ busy' = busy \ {c}
  /\ \/ stage[c] = "held" /\ Moves(c, "offered")
     \/ UNCHANGED stage
  /\ UNCHANGED over

Answer(c) ==
  /\ stage[c] = "offered"
  /\ Moves(c, "answered")
  /\ UNCHANGED <<busy, over>>

Stop(c) ==
  /\ InService(c) /\ c \notin busy
  /\ Moves(c, "stopped")
  /\ UNCHANGED <<busy, over>>

GiveBack(c) ==
  /\ stage[c] = "stopped"
  /\ Moves(c, "free")
  /\ UNCHANGED <<busy, over>>

End ==
  /\ ~over /\ busy = {}
  /\ \A c \in Conns : stage[c] = "free"
  /\ over' = TRUE
  /\ UNCHANGED <<stage, busy>>

Next ==
  \/ End
  \/ \E c \in Conns : Grant(c) \/ Use(c) \/ Done(c) \/ Answer(c) \/ Stop(c) \/ GiveBack(c)

Spec == Init /\ [][Next]_<<stage, busy, over>>
=============================================================================
