------------------------------ MODULE Handshake ------------------------------
(***************************************************************************)
(* What the programs of this repository make of the offers and answers of  *)
(* signalling/Protocol.md, seen from outside: of two parties that are both *)
(* present only one offers, an offer is received once, only the answer to  *)
(* it settles the call, and whoever leaves takes its half of every call    *)
(* along.  Nothing is said of messages, threads or the server: a step may  *)
(* look at both ends at once, which no program of the repository can.      *)
(***************************************************************************)
CONSTANT Parties

VARIABLES members, \* the parties that are present
          end      \* end[c][p]: how far c has come with its call with p

Init ==
  /\ members = {}
  /\ end = [c \in Parties |-> [p \in Parties |-> "idle"]]

Enter(S) ==
  /\ members' = members \cup S
  /\ UNCHANGED end

Leave(S) ==
  /\ members' = members \ S
  /\ end' = [c \in Parties |-> [p \in Parties |->
              IF c \in S \/ p \in S THEN "idle" ELSE end[c][p]]]

\* One end moves on, at a time when the other is where it should be.
Move(c, p, mine, theirs, next) ==
  /\ c \in members /\ p \in members /\ c # p
  /\ end[c][p] = mine /\ end[p][c] = theirs
  /\ end' = [end EXCEPT ![c][p] = next]
  /\ UNCHANGED members

Offer(c, p) == Move(c, p, "idle", "idle", "calling")
Receive(c, p) == Move(c, p, "idle", "calling", "called")
Answer(c, p) == Move(c, p, "called", "calling", "up")
Settle(c, p) == Move(c, p, "calling", "up", "up")

Next ==
  \/ \E S \in SUBSET Parties : Enter(S) \/ Leave(S)
  \/ \E c, p \in Parties : Offer(c, p) \/ Receive(c, p) \/ Answer(c, p) \/ Settle(c, p)

Spec == Init /\ [][Next]_<<members, end>>
=============================================================================
