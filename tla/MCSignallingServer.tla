------------------------- MODULE MCSignallingServer -------------------------
(* Instances of SignallingServer: who connects, under which uid, and what  *)
(* each client may ask for.                                                *)
EXTENDS SignallingServer, TLC

CONSTANTS A, B, C, D, a1, a2, b1, c1, d1

\* One connection for each user.
OneEach == [c \in Conns |-> CASE c = a1 -> A [] c = b1 -> B [] c = c1 -> C [] c = d1 -> D]
\* User A connects twice.
TwiceA == [c \in Conns |-> CASE c = b1 -> B [] c = c1 -> C [] OTHER -> A]

NoCalls  == [c \in Conns |-> {}]
AllCalls == [c \in Conns |-> Uids]
OtherUid == [c \in Conns |-> Uids \ {UidOf[c]}]
\* A calls only B and C calls only D, or the other way round.
Buddy    == [c \in Conns |-> CASE c = a1 -> {B} [] c = b1 -> {A} [] c = c1 -> {D} [] c = d1 -> {C}]

NoRooms  == [c \in Conns |-> {}]
AllRooms == [c \in Conns |-> RoomIds]
=============================================================================
