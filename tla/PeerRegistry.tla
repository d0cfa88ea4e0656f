---------------------------- MODULE PeerRegistry ----------------------------
(***************************************************************************)
(* What the clients of src/signalling/simple_server.py may rely on when    *)
(* they present a uid (signalling/Protocol.md, "Peer registration"): a uid *)
(* is claimed by one connection at a time, by one that is open, and it is  *)
(* given up together with the closing of that connection.                  *)
(***************************************************************************)
CONSTANTS Conns, Uids, UidOf, None

VARIABLES sock,    \* sock[c]: "new", "open" or "closed"
          holder   \* holder[u]: the connection that holds u, or None

Init ==
  /\ sock = [c \in Conns |-> "new"]
  /\ holder = [u \in Uids |-> None]

Shut(S) == sock' = [c \in Conns |-> IF c \in S THEN "closed" ELSE sock[c]]

Open(c) ==
  /\ sock[c] = "new"
  /\ sock' = [sock EXCEPT ![c] = "open"]
  /\ UNCHANGED holder

\* Any connection may close, whoever closes it.
Leave(S) ==
  /\ \A c \in S : sock[c] = "open"
  /\ Shut(S)
  /\ UNCHANGED holder

Claim(c) ==
  /\ sock[c] = "open" /\ holder[UidOf[c]] = None
  /\ holder' = [holder EXCEPT ![UidOf[c]] = c]
  /\ UNCHANGED sock

Release(u, S) ==
  /\ holder[u] # None
  /\ \A c \in S : sock[c] = "open"
  /\ holder' = [holder EXCEPT ![u] = None]
  /\ Shut(S \cup {holder[u]})

Next ==
  \/ \E c \in Conns : Open(c) \/ Claim(c)
  \/ \E S \in SUBSET Conns : Leave(S) \/ \E u \in Uids : Release(u, S)

Spec == Init /\ [][Next]_<<sock, holder>>
=============================================================================
