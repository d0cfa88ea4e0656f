----------------------- MODULE SignallingServerProofs -----------------------
(* Theorems about SignallingServer, for all values of its constants.       *)
EXTENDS SignallingServer, TLAPS

Entries  == [Uids -> [ws : Conns \cup {None}, status : Statuses]]
RoomSets == [RoomIds -> SUBSET Uids]

\* The part of TypeOK that remove_peer and the notification loops disturb.
HandlerOK ==
  /\ sock \in [Conns -> {"new", "open", "closed"}]
  /\ pc \in [Conns -> Points]
  /\ peers \in Entries
  /\ rooms \in RoomSets
  /\ roomId \in [Conns -> RoomIds \cup {None}]
  /\ dest \in [Conns -> Conns \cup {None}]
  /\ callee \in [Conns -> Uids \cup {None}]
  /\ mine \in [Conns -> Conns \cup {None}]
  /\ snap \in [Conns -> SUBSET Uids]
  /\ seen \in [Conns -> SUBSET Uids]
  /\ known \in [Conns -> SUBSET Uids]

\* What a handler has in its local variables while it uses them.
RoomIdSet ==
  \A c \in Conns : pc[c] \in {"room_ok", "joined", "left"} => roomId[c] \in RoomIds
CalleeSet == \A c \in Conns : pc[c] = "session_ok" => callee[c] \in Uids
\* Bookkeeping of the bound on restarts.
RestartDue == ~listening => restarts < MaxRestarts
TypeInv == TypeOK /\ RoomIdSet /\ CalleeSet /\ RestartDue

LEMMA TypeParts ==
  TypeOK <=> /\ HandlerOK
             /\ msgs \in [Conns -> 0..MaxMsgs]
             /\ sessions \in [Uids -> Uids \cup {None}]
             /\ listening \in BOOLEAN
             /\ restarts \in 0..MaxRestarts
BY DEF TypeOK, HandlerOK, Entries, RoomSets

LEMMA TypePartsNext ==
  ASSUME HandlerOK',
         msgs' \in [Conns -> 0..MaxMsgs],
         sessions' \in [Uids -> Uids \cup {None}],
         listening' \in BOOLEAN,
         restarts' \in 0..MaxRestarts
  PROVE  TypeOK'
BY DEF TypeOK, HandlerOK, Entries, RoomSets

LEMMA AwaitType ==
  ASSUME HandlerOK, NEW c \in Conns, NEW d \in Conns \cup {None},
         NEW point \in Points, Await(c, point, d)
  PROVE  /\ pc' \in [Conns -> Points]
         /\ dest' \in [Conns -> Conns \cup {None}]
BY DEF HandlerOK, Await

LEMMA TellType ==
  ASSUME HandlerOK, NEW d, NEW S \in SUBSET Uids, Tell(d, S)
  PROVE  known' \in [Conns -> SUBSET Uids]
BY DEF HandlerOK, Tell

LEMMA FinishType ==
  ASSUME HandlerOK, NEW c \in Conns, NEW S, Finish(c, S)
  PROVE  /\ sock' \in [Conns -> {"new", "open", "closed"}]
         /\ pc' \in [Conns -> Points]
         /\ roomId' \in [Conns -> RoomIds \cup {None}]
         /\ dest' \in [Conns -> Conns \cup {None}]
         /\ callee' \in [Conns -> Uids \cup {None}]
         /\ mine' \in [Conns -> Conns \cup {None}]
         /\ snap' \in [Conns -> SUBSET Uids]
         /\ seen' \in [Conns -> SUBSET Uids]
BY DEF HandlerOK, Finish, Close, Points

LEMMA UnlistType ==
  ASSUME NEW P \in Entries, NEW u \in Uids
  PROVE  Unlist(P, u) \in Entries
BY DEF Entries, Unlist, NoPeer, Statuses

LEMMA FarewellType ==
  ASSUME HandlerOK, NEW c \in Conns, NEW P \in Entries, rooms' \in RoomSets,
         NEW members \in SUBSET Uids, NEW room \in RoomIds \cup {None},
         NEW ws \in Conns \cup {None},
         NEW start \in SUBSET Uids, NEW visited \in SUBSET Uids,
         Farewell(c, P, members, room, ws, start, visited)
  PROVE  HandlerOK'
<1>1. ASSUME Abandon(c, P) PROVE HandlerOK'
  BY <1>1, FinishType DEF Abandon, HandlerOK
<1>2. ASSUME Drop(c, P, ws) PROVE HandlerOK'
  <2>1. UidOf[c] \in Uids
    BY ConstantsAssumption
  <2> QED BY <1>2, <2>1, FinishType, UnlistType DEF Drop, HandlerOK
<1>3. ASSUME NEW pid \in members \ visited, P[pid].ws # None, peers' = P,
             Await(c, "left", P[pid].ws),
             Tell(P[pid].ws, known[P[pid].ws] \ {UidOf[c]}),
             roomId' = [roomId EXCEPT ![c] = room],
             mine' = [mine EXCEPT ![c] = ws],
             snap' = [snap EXCEPT ![c] = start],
             seen' = [seen EXCEPT ![c] = visited \cup {pid}],
             UNCHANGED <<sock, callee>>
      PROVE  HandlerOK'
  <2>1. P[pid].ws \in Conns
    BY <1>3 DEF Entries
  <2>2. known[P[pid].ws] \ {UidOf[c]} \in SUBSET Uids
    BY <2>1 DEF HandlerOK
  <2>3. "left" \in Points
    BY DEF Points, Leaving
  <2> QED BY <1>3, <2>1, <2>2, <2>3, AwaitType, TellType DEF HandlerOK
<1> QED BY <1>1, <1>2, <1>3 DEF Farewell

LEMMA RemoveEntryType ==
  ASSUME HandlerOK, NEW c \in Conns, NEW P \in Entries, NEW R \in RoomSets,
         RemoveEntry(c, P, R)
  PROVE  HandlerOK'
<1> DEFINE u == UidOf[c]
           status == P[u].status
<1>0. u \in Uids /\ P[u].ws \in Conns \cup {None} /\ P[u].status \in Statuses
  BY ConstantsAssumption DEF Entries
<1>1. CASE P[u].ws = None
  BY <1>1, FinishType DEF RemoveEntry, HandlerOK
<1>2. CASE P[u].ws # None /\ status \in RoomIds /\ u \in R[status]
  <2>1. Without(R, status, u) \in RoomSets
    BY <1>2 DEF Without, RoomSets
  <2>2. /\ rooms' = Without(R, status, u)
        /\ Farewell(c, P, Without(R, status, u)[status], status, P[u].ws,
                    Without(R, status, u)[status], {})
    BY <1>2 DEF RemoveEntry
  <2>3. Without(R, status, u)[status] \in SUBSET Uids
    BY <2>1, <1>2 DEF RoomSets
  <2> QED BY <1>0, <1>2, <2>1, <2>2, <2>3, FarewellType
<1>3. CASE P[u].ws # None /\ ~(status \in RoomIds /\ u \in R[status])
  <2>1. rooms' = R /\ Drop(c, P, P[u].ws)
    BY <1>3 DEF RemoveEntry
  <2> QED BY <1>0, <2>1, FinishType, UnlistType DEF Drop, HandlerOK
<1> QED BY <1>1, <1>2, <1>3

LEMMA RemovePeerType ==
  ASSUME HandlerOK, sessions \in [Uids -> Uids \cup {None}],
         NEW c \in Conns, NEW P \in Entries, NEW R \in RoomSets,
         RemovePeer(c, P, R)
  PROVE  HandlerOK' /\ sessions' \in [Uids -> Uids \cup {None}]
<1> DEFINE u == UidOf[c]
           other == sessions[u]
           paired == other \notin {None, u} /\ sessions[other] # None
<1>0. u \in Uids /\ other \in Uids \cup {None}
  BY ConstantsAssumption
<1>1. sessions' \in [Uids -> Uids \cup {None}]
  BY DEF RemovePeer, Forget
<1>2. CASE paired /\ P[other].ws # None
  <2>1. /\ peers' = Unlist(P, other) /\ rooms' = R
        /\ HangUp(P[other].ws)
        /\ pc' = [pc EXCEPT ![c] = "closing"]
        /\ UNCHANGED <<locals, known>>
    BY <1>2 DEF RemovePeer
  <2> QED BY <1>0, <1>1, <1>2, <2>1, UnlistType
          DEF HangUp, Close, HandlerOK, locals, Points, Leaving
<1>3. CASE ~(paired /\ P[other].ws # None)
  <2>1. RemoveEntry(c, P, R)
    BY <1>3 DEF RemovePeer
  <2> QED BY <1>1, <2>1, RemoveEntryType
<1> QED BY <1>2, <1>3

LEMMA QuitType ==
  ASSUME TypeOK, NEW c \in Conns, Quit(c)
  PROVE  HandlerOK' /\ sessions' \in [Uids -> Uids \cup {None}]
BY TypeParts, RemovePeerType DEF Quit, HandlerOK

LEMMA ReplyType ==
  ASSUME HandlerOK, NEW c \in Conns, Reply(c)
  PROVE  HandlerOK'
<1>1. "reply" \in Points
  BY DEF Points, Serving, Sending
<1> QED BY <1>1, AwaitType DEF Reply, HandlerOK, registry

LEMMA AnnounceType ==
  ASSUME HandlerOK, sessions \in [Uids -> Uids \cup {None}],
         NEW c \in Conns, NEW P \in Entries, NEW R \in RoomSets,
         NEW start \in SUBSET Uids, NEW visited \in SUBSET Uids,
         roomId[c] \in RoomIds,
         Announce(c, P, R, start, visited)
  PROVE  HandlerOK' /\ sessions' \in [Uids -> Uids \cup {None}]
<1> DEFINE members == R[roomId[c]]
           rest == Audience(c, members) \ (visited \cup {UidOf[c]})
<1>0. rest \in SUBSET Uids /\ UidOf[c] \in Uids
  BY ConstantsAssumption DEF Audience, RoomSets
<1>1. ASSUME RemovePeer(c, P, R)
      PROVE  HandlerOK' /\ sessions' \in [Uids -> Uids \cup {None}]
  BY <1>1, RemovePeerType
<1>2. ASSUME peers' = P, rooms' = R,
             pc' = [pc EXCEPT ![c] = "recv"], dest' = [dest EXCEPT ![c] = None],
             snap' = [snap EXCEPT ![c] = {}], seen' = [seen EXCEPT ![c] = {}],
             UNCHANGED <<sock, sessions, roomId, callee, mine, known>>
      PROVE  HandlerOK' /\ sessions' \in [Uids -> Uids \cup {None}]
  BY <1>2 DEF HandlerOK, Points, Serving
<1>3. ASSUME NEW pid \in rest, P[pid].ws # None, peers' = P, rooms' = R,
             Await(c, "joined", P[pid].ws),
             Tell(P[pid].ws, known[P[pid].ws] \cup {UidOf[c]}),
             snap' = [snap EXCEPT ![c] = start],
             seen' = [seen EXCEPT ![c] = visited \cup {pid}],
             UNCHANGED <<sock, sessions, roomId, callee, mine>>
      PROVE  HandlerOK' /\ sessions' \in [Uids -> Uids \cup {None}]
  <2>1. pid \in Uids /\ P[pid].ws \in Conns
    BY <1>0, <1>3 DEF Entries
  <2>2. known[P[pid].ws] \cup {UidOf[c]} \in SUBSET Uids
    BY <1>0, <2>1 DEF HandlerOK
  <2>3. "joined" \in Points
    BY DEF Points, Serving, Sending
  <2> QED BY <1>3, <2>1, <2>2, <2>3, AwaitType, TellType DEF HandlerOK
<1> QED BY <1>1, <1>2, <1>3 DEF Announce

-----------------------------------------------------------------------------
\* One lemma for each kind of step of a handler.

LEMMA RegistrationType ==
  ASSUME TypeOK, NEW c \in Conns,
         HelloAccepted(c) \/ HelloAtOnce(c) \/ HelloRejected(c)
           \/ GreetRefused(c) \/ Register(c)
  PROVE  TypeOK'
<1>t. /\ HandlerOK /\ msgs \in [Conns -> 0..MaxMsgs]
      /\ sessions \in [Uids -> Uids \cup {None}]
      /\ listening \in BOOLEAN /\ restarts \in 0..MaxRestarts
  BY TypeParts
<1>0. UidOf[c] \in Uids /\ None \in Statuses /\ {"greet", "recv"} \subseteq Points
  BY ConstantsAssumption DEF Statuses, Points, Serving
<1>1. ASSUME HelloAccepted(c) PROVE TypeOK'
  BY <1>t, <1>0, <1>1, AwaitType, TypePartsNext DEF HelloAccepted, HandlerOK, registry, server
<1>2. ASSUME HelloRejected(c) \/ GreetRefused(c) PROVE TypeOK'
  BY <1>t, <1>2, FinishType, TypePartsNext DEF HelloRejected, GreetRefused, HandlerOK, registry, server
<1>3. ASSUME Enter(c) PROVE TypeOK'
  BY <1>t, <1>0, <1>3, TypePartsNext DEF Enter, Registration, HandlerOK, Entries, server
<1> QED BY <1>1, <1>2, <1>3 DEF HelloAtOnce, Register

LEMMA CommandType ==
  ASSUME TypeOK, NEW c \in Conns, Command(c)
  PROVE  TypeOK'
<1>t. /\ HandlerOK /\ msgs \in [Conns -> 0..MaxMsgs]
      /\ sessions \in [Uids -> Uids \cup {None}]
      /\ listening \in BOOLEAN /\ restarts \in 0..MaxRestarts
  BY TypeParts
<1>0. /\ UidOf[c] \in Uids
      /\ {"reply", "session_ok", "room_ok"} \subseteq Points
  BY ConstantsAssumption DEF Points, Serving, Sending
<1>r. ASSUME Receive(c)
      PROVE  /\ msgs' \in [Conns -> 0..MaxMsgs]
             /\ listening' \in BOOLEAN /\ restarts' \in 0..MaxRestarts
  <2>1. msgs[c] - 1 \in 0..MaxMsgs
    BY <1>t, <1>r, ConstantsAssumption DEF Receive
  <2> QED BY <1>t, <1>r, <2>1 DEF Receive, server
<1>q. ASSUME Receive(c), Quit(c) PROVE TypeOK'
  BY <1>q, <1>r, QuitType, TypePartsNext
<1>p. ASSUME Receive(c), Reply(c) PROVE TypeOK'
  BY <1>t, <1>p, <1>r, ReplyType, TypePartsNext DEF Reply, registry
<1>w. ASSUME Receive(c), NEW d \in Conns \cup {None}, Await(c, "reply", d),
             UNCHANGED <<sock, registry, roomId, callee, mine, snap, seen, known>>
      PROVE  TypeOK'
  BY <1>t, <1>0, <1>w, <1>r, AwaitType, TypePartsNext DEF HandlerOK, registry
<1>1. ASSUME RecvUnregistered(c) \/ RecvMalformed(c) \/ RelayLost(c) \/ RoomPeerList(c)
      PROVE  TypeOK'
  BY <1>1, <1>q DEF RecvUnregistered, RecvMalformed, RelayLost, RoomPeerList
<1>2. ASSUME RecvInvalid(c) PROVE TypeOK'
  BY <1>2, <1>p DEF RecvInvalid
<1>i. ASSUME RecvIgnored(c) PROVE TypeOK'
  BY <1>t, <1>r, <1>i, TypePartsNext DEF RecvIgnored, HandlerOK, registry, locals
<1>3. ASSUME Relay(c) PROVE TypeOK'
  <2>1. peers[sessions[UidOf[c]]].ws \in Conns \cup {None}
    BY <1>t, <1>0, <1>3 DEF Relay, HandlerOK, Entries
  <2> QED BY <1>3, <2>1, <1>w DEF Relay
<1>4. ASSUME NEW v \in Uids, RoomMessage(c, v) PROVE TypeOK'
  <2>1. peers[v].ws \in Conns \cup {None}
    BY <1>t DEF HandlerOK, Entries
  <2> QED BY <1>4, <2>1, <1>p, <1>q, <1>w DEF RoomMessage
<1>5. ASSUME NEW v \in Callees[c], SessionRequest(c, v) PROVE TypeOK'
  <2>1. v \in Uids
    BY ConstantsAssumption
  <2>2. ASSUME Receive(c), Await(c, "session_ok", c),
               callee' = [callee EXCEPT ![c] = v],
               UNCHANGED <<sock, registry, roomId, mine, snap, seen, known>>
        PROVE  TypeOK'
    BY <1>t, <1>0, <1>r, <2>1, <2>2, AwaitType, TypePartsNext DEF HandlerOK, registry
  <2> QED BY <1>5, <1>p, <2>2 DEF SessionRequest
<1>6. ASSUME NEW r \in Joins[c], RoomRequest(c, r) PROVE TypeOK'
  <2>1. r \in RoomIds /\ rooms[r] \in SUBSET Uids
    BY <1>t, ConstantsAssumption DEF HandlerOK, RoomSets
  <2>2. ASSUME Receive(c), Await(c, "room_ok", c), Tell(c, rooms[r]),
               roomId' = [roomId EXCEPT ![c] = r],
               UNCHANGED <<sock, registry, callee, mine, snap, seen>>
        PROVE  TypeOK'
    BY <1>t, <1>0, <1>r, <2>1, <2>2, AwaitType, TellType, TypePartsNext DEF HandlerOK, registry
  <2> QED BY <1>6, <1>q, <2>2 DEF RoomRequest
<1> QED BY <1>1, <1>2, <1>i, <1>3, <1>4, <1>5, <1>6 DEF Command

LEMMA ResumeType ==
  ASSUME TypeOK, NEW c \in Conns, Resume(c), RoomIdSet, CalleeSet
  PROVE  TypeOK'
<1>t. /\ HandlerOK /\ msgs \in [Conns -> 0..MaxMsgs]
      /\ sessions \in [Uids -> Uids \cup {None}]
      /\ listening \in BOOLEAN /\ restarts \in 0..MaxRestarts
  BY TypeParts
<1>0. UidOf[c] \in Uids /\ "recv" \in Points /\ "session" \in Statuses
  BY ConstantsAssumption DEF Statuses, Points, Serving
<1>1. ASSUME GreetRefused(c) \/ Register(c) PROVE TypeOK'
  BY <1>1, RegistrationType
<1>2. ASSUME RecvClosed(c) \/ SendRefused(c) PROVE TypeOK'
  BY <1>t, <1>2, QuitType, TypePartsNext DEF RecvClosed, SendRefused, server
<1>3. ASSUME Replied(c) PROVE TypeOK'
  BY <1>t, <1>0, <1>3, TypePartsNext DEF Replied, HandlerOK, registry, server
<1>4. ASSUME SessionStart(c) PROVE TypeOK'
  <2> DEFINE u == UidOf[c]
             v == callee[c]
  <2>1. v \in Uids
    BY <1>4 DEF SessionStart, CalleeSet
  <2>2. CASE Quit(c)
    BY <1>t, <1>4, <2>2, QuitType, TypePartsNext DEF SessionStart, server
  <2>3. CASE ~Quit(c)
    <3>1. /\ peers' = [peers EXCEPT ![u].status = "session", ![v].status = "session"]
          /\ sessions' = [sessions EXCEPT ![u] = v, ![v] = u]
          /\ pc' = [pc EXCEPT ![c] = "recv"]
          /\ dest' = [dest EXCEPT ![c] = None]
          /\ callee' = [callee EXCEPT ![c] = None]
          /\ UNCHANGED <<msgs, server, sock, rooms, roomId, mine, snap, seen, known>>
      BY <1>4, <2>3 DEF SessionStart
    <3>2. peers' \in Entries
      BY <1>t, <1>0, <2>1, <3>1 DEF HandlerOK, Entries
    <3>3. sessions' \in [Uids -> Uids \cup {None}]
      BY <1>t, <1>0, <2>1, <3>1
    <3> QED BY <1>t, <1>0, <3>1, <3>2, <3>3, TypePartsNext DEF HandlerOK, server
  <2> QED BY <2>2, <2>3
<1>5. ASSUME RoomEnter(c) PROVE TypeOK'
  <2> DEFINE u == UidOf[c]
             r == roomId[c]
             P == [peers EXCEPT ![u].status = r]
             R == [rooms EXCEPT ![r] = @ \cup {u}]
  <2>1. r \in RoomIds
    BY <1>5 DEF RoomEnter, RoomIdSet
  <2>2. P \in Entries /\ R \in RoomSets
    BY <1>t, <1>0, <2>1 DEF HandlerOK, Entries, RoomSets, Statuses
  <2>3. R[r] \in SUBSET Uids
    BY <2>1, <2>2 DEF RoomSets
  <2>4. Quit(c) \/ Announce(c, P, R, R[r], {})
    BY <1>5 DEF RoomEnter
  <2>5. UNCHANGED <<msgs, server>>
    BY <1>5 DEF RoomEnter
  <2>6. HandlerOK' /\ sessions' \in [Uids -> Uids \cup {None}]
    BY <1>t, <2>1, <2>2, <2>3, <2>4, QuitType, AnnounceType
  <2> QED BY <1>t, <2>5, <2>6, TypePartsNext DEF server
<1>6. ASSUME JoinTold(c) PROVE TypeOK'
  <2>1. roomId[c] \in RoomIds
    BY <1>6 DEF JoinTold, RoomIdSet
  <2>2. /\ peers \in Entries /\ rooms \in RoomSets
        /\ snap[c] \in SUBSET Uids /\ seen[c] \in SUBSET Uids
    BY <1>t DEF HandlerOK
  <2>3. HandlerOK' /\ sessions' \in [Uids -> Uids \cup {None}]
    BY <1>t, <1>6, <2>1, <2>2, AnnounceType DEF JoinTold
  <2> QED BY <1>t, <1>6, <2>3, TypePartsNext DEF JoinTold, server
<1>7. ASSUME PartnerClosed(c) PROVE TypeOK'
  <2>1. HandlerOK'
    BY <1>t, <1>7, RemoveEntryType DEF PartnerClosed, HandlerOK
  <2> QED BY <1>t, <1>7, <2>1, TypePartsNext DEF PartnerClosed, server
<1>8. ASSUME LeftTold(c) PROVE TypeOK'
  <2>1. roomId[c] \in RoomIds
    BY <1>8 DEF LeftTold, RoomIdSet
  <2>2. /\ peers \in Entries /\ rooms' \in RoomSets /\ rooms[roomId[c]] \in SUBSET Uids
        /\ mine[c] \in Conns \cup {None}
        /\ snap[c] \in SUBSET Uids /\ seen[c] \in SUBSET Uids
    BY <1>t, <1>8, <2>1 DEF HandlerOK, RoomSets, LeftTold
  <2>3. HandlerOK'
    BY <1>t, <1>8, <2>1, <2>2, FarewellType DEF LeftTold
  <2> QED BY <1>t, <1>8, <2>3, TypePartsNext DEF LeftTold, server
<1>9. ASSUME LeftRefused(c) PROVE TypeOK'
  BY <1>t, <1>9, FinishType, TypePartsNext DEF LeftRefused, Abandon, HandlerOK, server
<1> QED BY <1>1, <1>2, <1>3, <1>4, <1>5, <1>6, <1>7, <1>8, <1>9 DEF Resume

-----------------------------------------------------------------------------
\* What a step of the handler of c leaves alone, and where it may go.

Frame(c) ==
  /\ \A d \in Conns \ {c} : /\ pc'[d] = pc[d] /\ roomId'[d] = roomId[d]
                            /\ callee'[d] = callee[d] /\ mine'[d] = mine[d]
  /\ \A d \in Conns : sock'[d] \in {sock[d], "closed"}

\* remove_peer suspends in its notification loop, or is over; ws is the
\* connection it has to close.
EntryGone(c, P, ws) ==
  /\ Frame(c)
  /\ \/ P[UidOf[c]].status \in RoomIds \/ pc[c] = "left"
     \/ pc'[c] = "done" /\ (P[UidOf[c]].ws = None \/ peers' = Unlist(P, UidOf[c]))
  /\ \/ /\ pc'[c] = "left" /\ peers' = P
        /\ roomId'[c] \in RoomIds /\ mine'[c] = ws
     \/ /\ pc'[c] = "done" /\ sock'[c] = "closed"
        /\ \/ peers' = P
           \/ /\ peers' = Unlist(P, UidOf[c])
              /\ P[UidOf[c]].ws # None /\ ws \in Conns => sock'[ws] = "closed"

\* ... or it first unregisters and closes the partner.
PeerGone(c, P) ==
  \/ EntryGone(c, P, P[UidOf[c]].ws)
  \/ /\ Frame(c) /\ pc'[c] = "closing"
     /\ sessions[UidOf[c]] \in Uids
     /\ P[sessions[UidOf[c]]].ws # None
     /\ sessions[UidOf[c]] # UidOf[c]
     /\ peers' = Unlist(P, sessions[UidOf[c]])
     /\ sock'[P[sessions[UidOf[c]]].ws] = "closed"

\* A session entry other than that of c goes together with the peers entry.
SessionGone(c) ==
  \A u \in Uids \ {UidOf[c]} :
    sessions'[u] = sessions[u] \/ (u \in Uids /\ peers'[u].ws = None)

LEMMA FinishEffect ==
  ASSUME HandlerOK, NEW c \in Conns, NEW S, Finish(c, S)
  PROVE  /\ Frame(c) /\ pc'[c] = "done" /\ sock'[c] = "closed"
         /\ \A d \in Conns : d \in S => sock'[d] = "closed"
BY DEF Finish, Close, Frame, HandlerOK

LEMMA FarewellEffect ==
  ASSUME HandlerOK, NEW c \in Conns, NEW P \in Entries,
         NEW members, NEW room, NEW ws, NEW start, NEW visited,
         Farewell(c, P, members, room, ws, start, visited)
  PROVE  /\ Frame(c)
         /\ \/ /\ pc'[c] = "left" /\ peers' = P
               /\ roomId'[c] = room /\ mine'[c] = ws
            \/ /\ pc'[c] = "done" /\ sock'[c] = "closed"
               /\ \/ peers' = P
                  \/ /\ peers' = Unlist(P, UidOf[c])
                     /\ P[UidOf[c]].ws # None /\ ws \in Conns => sock'[ws] = "closed"
<1>1. CASE Abandon(c, P)
  BY <1>1, FinishEffect DEF Abandon
<1>2. CASE Drop(c, P, ws)
  BY <1>2, FinishEffect DEF Drop
<1>3. ASSUME NEW pid \in members \ visited, P[pid].ws # None, peers' = P,
             Await(c, "left", P[pid].ws),
             roomId' = [roomId EXCEPT ![c] = room],
             mine' = [mine EXCEPT ![c] = ws],
             UNCHANGED <<sock, callee>>
      PROVE  /\ Frame(c) /\ pc'[c] = "left" /\ peers' = P
             /\ roomId'[c] = room /\ mine'[c] = ws
  BY <1>3 DEF Await, Frame, HandlerOK
<1> QED BY <1>1, <1>2, <1>3 DEF Farewell

LEMMA RemoveEntryEffect ==
  ASSUME HandlerOK, NEW c \in Conns, NEW P \in Entries, NEW R \in RoomSets,
         RemoveEntry(c, P, R)
  PROVE  EntryGone(c, P, P[UidOf[c]].ws)
<1> DEFINE u == UidOf[c]
           status == P[u].status
<1>0. u \in Uids /\ P[u].ws \in Conns \cup {None}
  BY ConstantsAssumption DEF Entries
<1>1. CASE P[u].ws = None
  BY <1>1, FinishEffect DEF RemoveEntry, EntryGone
<1>2. CASE P[u].ws # None /\ status \in RoomIds /\ u \in R[status]
  <2>1. Farewell(c, P, Without(R, status, u)[status], status, P[u].ws,
                 Without(R, status, u)[status], {})
    BY <1>2 DEF RemoveEntry
  <2> QED BY <1>0, <1>2, <2>1, FarewellEffect DEF EntryGone
<1>3. CASE P[u].ws # None /\ ~(status \in RoomIds /\ u \in R[status])
  <2>1. Drop(c, P, P[u].ws)
    BY <1>3 DEF RemoveEntry
  <2> QED BY <1>0, <1>3, <2>1, FinishEffect DEF Drop, EntryGone
<1> QED BY <1>1, <1>2, <1>3

LEMMA RemovePeerEffect ==
  ASSUME HandlerOK, sessions \in [Uids -> Uids \cup {None}],
         NEW c \in Conns, NEW P \in Entries, NEW R \in RoomSets,
         RemovePeer(c, P, R)
  PROVE  PeerGone(c, P)
<1> DEFINE u == UidOf[c]
           other == sessions[u]
           paired == other \notin {None, u} /\ sessions[other] # None
<1>0. u \in Uids /\ other \in Uids \cup {None}
  BY ConstantsAssumption
<1>1. CASE paired /\ P[other].ws # None
  <2>1. /\ peers' = Unlist(P, other)
        /\ HangUp(P[other].ws)
        /\ pc' = [pc EXCEPT ![c] = "closing"]
        /\ UNCHANGED <<locals, known>>
    BY <1>1 DEF RemovePeer
  <2>2. P[other].ws \in Conns
    BY <1>0, <1>1 DEF Entries
  <2> QED BY <1>0, <1>1, <2>1, <2>2
          DEF PeerGone, Frame, HangUp, Close, locals, HandlerOK
<1>2. CASE ~(paired /\ P[other].ws # None)
  BY <1>2, RemoveEntryEffect DEF RemovePeer, PeerGone
<1> QED BY <1>1, <1>2

LEMMA SessionGoneStep ==
  ASSUME HandlerOK, sessions \in [Uids -> Uids \cup {None}],
         NEW c \in Conns, NEW P \in Entries, NEW R \in RoomSets,
         RemovePeer(c, P, R)
  PROVE  SessionGone(c)
<1> DEFINE u == UidOf[c]
           other == sessions[u]
           paired == other \notin {None, u} /\ sessions[other] # None
<1>0. /\ u \in Uids /\ other \in Uids \cup {None} /\ None \notin Uids
      /\ sessions' = Forget(u, other)
  BY ConstantsAssumption DEF RemovePeer
<1>1. CASE paired /\ P[other].ws # None
  <2>1. peers' = Unlist(P, other)
    BY <1>1 DEF RemovePeer
  <2> QED BY <1>0, <2>1 DEF SessionGone, Forget, Unlist, NoPeer, Entries
<1>2. CASE paired /\ P[other].ws = None
  <2>1. peers' = P \/ peers' = Unlist(P, u)
    BY <1>2, RemoveEntryEffect DEF RemovePeer, EntryGone
  <2> QED BY <1>0, <1>2, <2>1 DEF SessionGone, Forget, Unlist, NoPeer, Entries
<1>3. CASE ~paired
  BY <1>0, <1>3 DEF SessionGone, Forget
<1> QED BY <1>1, <1>2, <1>3

LEMMA AnnounceEffect ==
  ASSUME HandlerOK, sessions \in [Uids -> Uids \cup {None}],
         NEW c \in Conns, NEW P \in Entries, NEW R \in RoomSets,
         NEW start, NEW visited, Announce(c, P, R, start, visited)
  PROVE  \/ PeerGone(c, P) /\ SessionGone(c)
         \/ /\ Frame(c) /\ peers' = P /\ pc'[c] \in {"recv", "joined"}
            /\ roomId'[c] = roomId[c] /\ sock' = sock /\ sessions' = sessions
<1> DEFINE rest == Audience(c, R[roomId[c]]) \ (visited \cup {UidOf[c]})
<1>1. CASE RemovePeer(c, P, R)
  BY <1>1, RemovePeerEffect, SessionGoneStep
<1>2. CASE /\ peers' = P
           /\ pc' = [pc EXCEPT ![c] = "recv"]
           /\ UNCHANGED <<sock, sessions, roomId, callee, mine>>
  BY <1>2 DEF Frame, HandlerOK
<1>3. CASE \E pid \in rest : /\ peers' = P
                             /\ Await(c, "joined", P[pid].ws)
                             /\ UNCHANGED <<sock, sessions, roomId, callee, mine>>
  BY <1>3 DEF Await, Frame, HandlerOK
<1> QED BY <1>1, <1>2, <1>3 DEF Announce

-----------------------------------------------------------------------------
\* The five kinds of step of a handler, as seen from peers, pc and sock.

SameWs(P) == \A u \in Uids : P[u].ws = peers[u].ws

Enters(c) ==
  /\ pc[c] = "greet" \/ (pc[c] = "hello" /\ sock[c] = "open" /\ UidFree(c))
  /\ pc'[c] = "recv" /\ Frame(c) /\ sock' = sock /\ sessions' = sessions
  /\ peers' = [peers EXCEPT ![UidOf[c]] = Registration(c)]

Preludes(c) ==
  /\ pc[c] \in {"hello", "greet"} /\ pc'[c] \in {"greet", "done"}
  /\ pc'[c] = "greet" => GreetSuspends
  /\ pc'[c] = "done" => sock'[c] = "closed"
  /\ Frame(c) /\ peers' = peers /\ sessions' = sessions

Serves(c) ==
  /\ pc[c] \in Serving /\ pc'[c] \in Serving
  /\ Frame(c) /\ sock' = sock
  /\ peers' \in Entries /\ SameWs(peers')
  /\ pc'[c] \in {"room_ok", "joined"} => roomId'[c] \in RoomIds
  /\ pc'[c] = "session_ok" => callee'[c] \in Uids
  /\ pc'[c] = "room_ok" => Joins[c] # {}
  /\ pc'[c] = "joined" => pc[c] \in {"room_ok", "joined"}
  /\ \A u \in Uids :
       /\ sessions'[u] \in {sessions[u]} \cup Uids
       /\ peers'[u].status # peers[u].status =>
            \/ pc[c] = "room_ok" /\ peers'[u].status # "session"
            \/ peers'[u].status = "session" /\ sessions'[u] \in Uids

Raises(c) ==
  /\ pc[c] \in Serving /\ SessionGone(c)
  /\ \E P \in Entries :
       /\ SameWs(P)
       /\ P = peers \/ pc[c] = "room_ok"
       /\ \A u \in Uids : P[u].status \in {peers[u].status} \cup RoomIds
       /\ PeerGone(c, P)

Leaves(c) ==
  /\ sessions' = sessions
  /\ \/ pc[c] = "closing" /\ EntryGone(c, peers, peers[UidOf[c]].ws)
     \/ pc[c] = "left" /\ EntryGone(c, peers, mine[c])

LEMMA AwaitEffect ==
  ASSUME HandlerOK, NEW c \in Conns, NEW d, NEW point, Await(c, point, d)
  PROVE  pc'[c] = point /\ \A e \in Conns \ {c} : pc'[e] = pc[e]
BY DEF Await, HandlerOK

LEMMA QuitEffect ==
  ASSUME TypeInv, NEW c \in Conns, pc[c] \in Serving, Quit(c)
  PROVE  Raises(c)
BY TypeParts, RemovePeerEffect, SessionGoneStep DEF TypeInv, Quit, Raises, SameWs, HandlerOK

LEMMA PreludeStep ==
  ASSUME TypeInv, NEW c \in Conns,
         HelloAccepted(c) \/ HelloAtOnce(c) \/ HelloRejected(c)
           \/ GreetRefused(c) \/ Register(c)
  PROVE  Enters(c) \/ Preludes(c)
<1>t. HandlerOK
  BY TypeParts DEF TypeInv
<1>1. CASE HelloAccepted(c)
  BY <1>t, <1>1, AwaitEffect DEF HelloAccepted, Preludes, Frame, registry, HandlerOK
<1>2. CASE HelloRejected(c) \/ GreetRefused(c)
  BY <1>t, <1>2, FinishEffect DEF HelloRejected, GreetRefused, Preludes, registry
<1>3. ASSUME Enter(c),
             pc[c] = "greet" \/ (pc[c] = "hello" /\ sock[c] = "open" /\ UidFree(c))
      PROVE  Enters(c)
  BY <1>t, <1>3 DEF Enter, Enters, Frame, HandlerOK
<1> QED BY <1>1, <1>2, <1>3 DEF HelloAtOnce, Register

LEMMA CommandStep ==
  ASSUME TypeInv, NEW c \in Conns, Command(c)
  PROVE  Serves(c) \/ Raises(c)
<1>t. HandlerOK /\ {"recv", "reply", "session_ok", "room_ok"} \subseteq Serving
  BY TypeParts DEF TypeInv, Serving, Sending
<1>s. SameWs(peers)
  BY DEF SameWs
<1>q. ASSUME Receive(c), Quit(c) PROVE Raises(c)
  BY <1>t, <1>q, QuitEffect DEF Receive
<1>w. ASSUME Receive(c), NEW d, Await(c, "reply", d),
             UNCHANGED <<sock, registry, roomId, callee, mine, snap, seen, known>>
      PROVE  Serves(c)
  BY <1>t, <1>s, <1>w, AwaitEffect DEF Receive, Serves, Frame, registry, HandlerOK
<1>p. ASSUME Receive(c), Reply(c) PROVE Serves(c)
  BY <1>p, <1>w DEF Reply
<1>1. CASE RecvUnregistered(c) \/ RecvMalformed(c) \/ RelayLost(c) \/ RoomPeerList(c)
  BY <1>1, <1>q DEF RecvUnregistered, RecvMalformed, RelayLost, RoomPeerList
<1>2. CASE RecvInvalid(c)
  BY <1>2, <1>p DEF RecvInvalid
<1>i. CASE RecvIgnored(c)
  BY <1>t, <1>s, <1>i DEF RecvIgnored, Receive, Serves, Frame, registry, locals, HandlerOK
<1>3. CASE Relay(c)
  BY <1>3, <1>w DEF Relay
<1>4. ASSUME NEW v \in Uids, RoomMessage(c, v) PROVE Serves(c) \/ Raises(c)
  BY <1>4, <1>p, <1>q, <1>w DEF RoomMessage
<1>5. ASSUME NEW v \in Callees[c], SessionRequest(c, v) PROVE Serves(c) \/ Raises(c)
  <2>1. ASSUME Receive(c), Await(c, "session_ok", c),
               callee' = [callee EXCEPT ![c] = v],
               UNCHANGED <<sock, registry, roomId, mine, snap, seen, known>>
        PROVE  Serves(c)
    <3>1. v \in Uids
      BY ConstantsAssumption
    <3> QED BY <1>t, <1>s, <2>1, <3>1, AwaitEffect
            DEF Receive, Serves, Frame, registry, HandlerOK
  <2> QED BY <1>5, <1>p, <2>1 DEF SessionRequest
<1>6. ASSUME NEW r \in Joins[c], RoomRequest(c, r) PROVE Serves(c) \/ Raises(c)
  <2>1. ASSUME Receive(c), Await(c, "room_ok", c),
               roomId' = [roomId EXCEPT ![c] = r],
               UNCHANGED <<sock, registry, callee, mine, snap, seen>>
        PROVE  Serves(c)
    <3>1. r \in RoomIds
      BY ConstantsAssumption
    <3> QED BY <1>t, <1>s, <2>1, <3>1, AwaitEffect
            DEF Receive, Serves, Frame, registry, HandlerOK
  <2> QED BY <1>6, <1>q, <2>1 DEF RoomRequest
<1> QED BY <1>1, <1>2, <1>i, <1>3, <1>4, <1>5, <1>6 DEF Command

LEMMA ResumeStep ==
  ASSUME TypeInv, NEW c \in Conns, Resume(c)
  PROVE  Enters(c) \/ Preludes(c) \/ Serves(c) \/ Raises(c) \/ Leaves(c)
<1>t. /\ HandlerOK /\ sessions \in [Uids -> Uids \cup {None}]
      /\ UidOf[c] \in Uids /\ "session" \in Statuses
      /\ {"recv", "joined", "session_ok", "room_ok"} \cup Sending \subseteq Serving
      /\ {"closing", "left"} \subseteq Leaving
  BY TypeParts, ConstantsAssumption DEF TypeInv, Serving, Sending, Leaving, Statuses
<1>s. SameWs(peers)
  BY DEF SameWs
<1>1. CASE GreetRefused(c) \/ Register(c)
  BY <1>1, PreludeStep
<1>2. CASE RecvClosed(c) \/ SendRefused(c)
  BY <1>t, <1>2, QuitEffect DEF RecvClosed, SendRefused
<1>3. CASE Replied(c)
  BY <1>t, <1>s, <1>3 DEF Replied, Serves, Serving, Sending, Frame, registry, HandlerOK
<1>4. CASE SessionStart(c)
  <2> DEFINE u == UidOf[c]
             v == callee[c]
             P == [peers EXCEPT ![u].status = "session", ![v].status = "session"]
  <2>1. v \in Uids
    BY <1>4 DEF SessionStart, CalleeSet, TypeInv
  <2>2. CASE Quit(c)
    BY <1>t, <1>4, <2>2, QuitEffect DEF SessionStart
  <2>3. CASE ~Quit(c)
    <3>1. /\ peers' = P
          /\ pc[c] = "session_ok"
          /\ pc' = [pc EXCEPT ![c] = "recv"]
          /\ callee' = [callee EXCEPT ![c] = None]
          /\ sessions' = [sessions EXCEPT ![u] = v, ![v] = u]
          /\ UNCHANGED <<sock, roomId, mine>>
      BY <1>4, <2>3 DEF SessionStart
    <3>2. P \in Entries /\ SameWs(P)
      BY <1>t, <2>1 DEF HandlerOK, Entries, SameWs
    <3>3. \A x \in Uids :
            /\ sessions'[x] \in {sessions[x]} \cup Uids
            /\ P[x].status # peers[x].status
                 => P[x].status = "session" /\ sessions'[x] \in Uids
      BY <1>t, <2>1, <3>1 DEF HandlerOK, Entries
    <3>4. Frame(c)
      BY <1>t, <3>1 DEF Frame, HandlerOK
    <3>5. pc'[c] = "recv" /\ pc[c] \in Serving /\ sock' = sock
      BY <1>t, <3>1 DEF HandlerOK
    <3> HIDE DEF P
    <3>6. peers' \in Entries /\ SameWs(peers')
      BY <3>1, <3>2
    <3>7. \A x \in Uids :
            /\ sessions'[x] \in {sessions[x]} \cup Uids
            /\ peers'[x].status # peers[x].status
                 => peers'[x].status = "session" /\ sessions'[x] \in Uids
      BY <3>1, <3>3
    <3> QED BY <1>t, <3>4, <3>5, <3>6, <3>7 DEF Serves
  <2> QED BY <2>2, <2>3
<1>5. CASE RoomEnter(c)
  <2> DEFINE u == UidOf[c]
             r == roomId[c]
             P == [peers EXCEPT ![u].status = r]
             R == [rooms EXCEPT ![r] = @ \cup {u}]
  <2>1. r \in RoomIds /\ pc[c] = "room_ok"
    BY <1>5 DEF RoomEnter, RoomIdSet, TypeInv
  <2>2. P \in Entries /\ SameWs(P) /\ R \in RoomSets
    BY <1>t, <2>1 DEF HandlerOK, Entries, RoomSets, Statuses, SameWs
  <2>3. CASE Quit(c)
    BY <1>t, <2>1, <2>3, QuitEffect
  <2>4. CASE Announce(c, P, R, R[r], {})
    <3>1. \A x \in Uids : P[x].status \in {peers[x].status, r}
      BY <1>t, <2>1 DEF HandlerOK, Entries
    <3>2. PeerGone(c, P) /\ SessionGone(c) => Raises(c)
      BY <1>t, <2>1, <2>2, <3>1 DEF Raises
    <3>3. ASSUME Frame(c), peers' = P, pc'[c] \in {"recv", "joined"},
                 roomId'[c] = roomId[c], sock' = sock, sessions' = sessions
          PROVE  Serves(c)
      BY <1>t, <2>1, <2>2, <3>1, <3>3, ConstantsAssumption DEF Serves, SameWs
    <3> QED BY <1>t, <2>2, <2>4, <3>2, <3>3, AnnounceEffect
  <2> QED BY <1>5, <2>3, <2>4 DEF RoomEnter
<1>6. CASE JoinTold(c)
  <2>1. roomId[c] \in RoomIds /\ pc[c] = "joined"
    BY <1>6 DEF JoinTold, RoomIdSet, TypeInv
  <2>2. /\ peers \in Entries /\ rooms \in RoomSets
        /\ Announce(c, peers, rooms, snap[c], seen[c])
    BY <1>t, <1>6 DEF HandlerOK, JoinTold
  <2>3. PeerGone(c, peers) /\ SessionGone(c) => Raises(c)
    BY <1>t, <1>s, <2>1, <2>2 DEF Raises
  <2>4. \/ PeerGone(c, peers) /\ SessionGone(c)
        \/ /\ Frame(c) /\ peers' = peers /\ pc'[c] \in {"recv", "joined"}
           /\ roomId'[c] = roomId[c] /\ sock' = sock /\ sessions' = sessions
    BY <1>t, <2>2, AnnounceEffect
  <2> QED BY <1>t, <1>s, <2>1, <2>2, <2>3, <2>4 DEF Serves, SameWs
<1>7. CASE PartnerClosed(c)
  BY <1>t, <1>7, RemoveEntryEffect DEF PartnerClosed, Leaves, HandlerOK
<1>8. CASE LeftRefused(c)
  BY <1>t, <1>8, FinishEffect DEF LeftRefused, Abandon, Leaves, EntryGone
<1>9. CASE LeftTold(c)
  BY <1>t, <1>9, FarewellEffect DEF LeftTold, Leaves, EntryGone, HandlerOK, RoomIdSet, TypeInv
<1> QED BY <1>1, <1>2, <1>3, <1>4, <1>5, <1>6, <1>7, <1>8, <1>9 DEF Resume

LEMMA HandlerStep ==
  ASSUME TypeInv, NEW c \in Conns, Handler(c)
  PROVE  Enters(c) \/ Preludes(c) \/ Serves(c) \/ Raises(c) \/ Leaves(c)
BY PreludeStep, CommandStep, ResumeStep DEF Handler

LEMMA HandlerType ==
  ASSUME TypeInv, NEW c \in Conns, Handler(c)
  PROVE  TypeOK'
BY RegistrationType, CommandType, ResumeType DEF TypeInv, Handler

-----------------------------------------------------------------------------
\* TypeInv is inductive.

LEMMA LocalsStep ==
  ASSUME TypeInv, NEW c \in Conns, Handler(c), TypeOK'
  PROVE  (RoomIdSet /\ CalleeSet)'
<1>t. /\ HandlerOK /\ HandlerOK'
      /\ {"room_ok", "joined", "session_ok"} \subseteq Sending
  BY TypeParts DEF TypeInv, TypeOK, HandlerOK, Entries, RoomSets, Sending
<1>1. Frame(c)
  BY HandlerStep DEF Enters, Preludes, Serves, Raises, Leaves, PeerGone, EntryGone
<1>2. /\ pc'[c] \in {"room_ok", "joined", "left"} => roomId'[c] \in RoomIds
      /\ pc'[c] = "session_ok" => callee'[c] \in Uids
  <2>1. CASE Enters(c) \/ Preludes(c)
    BY <2>1 DEF Enters, Preludes
  <2>2. CASE Serves(c)
    BY <2>2 DEF Serves, Serving, Sending
  <2>3. CASE Raises(c) \/ Leaves(c)
    BY <2>3 DEF Raises, Leaves, PeerGone, EntryGone
  <2> QED BY <2>1, <2>2, <2>3, HandlerStep
<1> QED BY <1>t, <1>1, <1>2 DEF Frame, RoomIdSet, CalleeSet, TypeInv

LEMMA TypeInvStep ==
  ASSUME TypeInv, [Next]_vars
  PROVE  TypeInv'
<1>t. /\ TypeOK /\ HandlerOK /\ msgs \in [Conns -> 0..MaxMsgs]
      /\ sessions \in [Uids -> Uids \cup {None}]
      /\ listening \in BOOLEAN /\ restarts \in 0..MaxRestarts
      /\ "hello" \in Points
  BY TypeParts DEF TypeInv, Points
<1>1. ASSUME NEW c \in Conns, Connect(c) PROVE TypeInv'
  <2>1. TypeOK'
    BY <1>t, <1>1, TypePartsNext DEF Connect, HandlerOK, registry, locals, server
  <2> QED BY <1>t, <1>1, <2>1 DEF Connect, TypeInv, RoomIdSet, CalleeSet, RestartDue, locals, server, HandlerOK
<1>2. ASSUME NEW c \in Conns, Disconnect(c) PROVE TypeInv'
  <2>1. TypeOK'
    BY <1>t, <1>2, TypePartsNext DEF Disconnect, HandlerOK, registry, locals, server
  <2> QED BY <1>t, <1>2, <2>1 DEF Disconnect, TypeInv, RoomIdSet, CalleeSet, RestartDue, locals, server
<1>3. ASSUME NEW c \in Conns, Handler(c) PROVE TypeInv'
  <2>1. UNCHANGED server
    BY <1>3 DEF Handler, HelloAccepted, HelloAtOnce, HelloRejected, Enter, Command, Resume,
                RecvUnregistered, RecvMalformed, RecvInvalid, RecvIgnored, Relay, RelayLost,
                RoomPeerList, RoomMessage, SessionRequest, RoomRequest, Receive, GreetRefused,
                Register, RecvClosed, SendRefused, Replied, SessionStart, RoomEnter, JoinTold,
                PartnerClosed, LeftTold, LeftRefused
  <2> QED BY <1>3, <2>1, HandlerType, LocalsStep DEF TypeInv, server, RestartDue
<1>4. CASE Stop
  <2>1. TypeOK'
    BY <1>t, <1>4, TypePartsNext DEF Stop, HandlerOK, registry, locals
  <2> QED BY <1>4, <2>1 DEF Stop, TypeInv, RoomIdSet, CalleeSet, RestartDue, locals
<1>5. CASE Restart
  <2>1. restarts + 1 \in 0..MaxRestarts
    BY <1>t, <1>5, ConstantsAssumption DEF Restart, TypeInv, RestartDue
  <2>2. TypeOK'
    BY <1>t, <1>5, <2>1, TypePartsNext DEF Restart, HandlerOK, registry, locals
  <2> QED BY <1>5, <2>2 DEF Restart, TypeInv, RoomIdSet, CalleeSet, RestartDue, locals
<1>6. CASE UNCHANGED vars
  BY <1>6 DEF vars, registry, locals, server, TypeInv, TypeOK, RoomIdSet, CalleeSet, RestartDue
<1> QED BY <1>1, <1>2, <1>3, <1>4, <1>5, <1>6 DEF Next

LEMMA TypeInvInvariant == Spec => []TypeInv
<1>1. Init => TypeInv
  BY ConstantsAssumption DEF Init, TypeInv, TypeOK, RoomIdSet, CalleeSet, RestartDue, Points, NoPeer, Statuses
<1> QED BY <1>1, TypeInvStep, PTL DEF Spec

\* Every variable keeps its type, whatever the clients send and however the
\* handlers interleave.
THEOREM TypeCorrect == Spec => []TypeOK
<1>1. TypeInv => TypeOK
  BY DEF TypeInv
<1> QED BY <1>1, TypeInvInvariant, PTL

-----------------------------------------------------------------------------
\* The facts about pc and peers that the safety theorems share.

\* Nobody presents the uid of somebody else, or comes back under the same one.
OneConnectionEach == \A c, d \in Conns : UidOf[c] = UidOf[d] => c = d
CallsOnly == \A c \in Conns : Joins[c] = {}

Started   == \A c \in Conns : sock[c] = "new" => pc[c] = "new"
GreetFree == ~GreetSuspends => \A c \in Conns : pc[c] # "greet"
RoomFree  ==
  CallsOnly => /\ \A u \in Uids : peers[u].status \notin RoomIds
               /\ \A c \in Conns : pc[c] \notin {"room_ok", "joined", "left"}
Listed == \A u \in Uids : Registered(u) => UidOf[peers[u].ws] = u
BaseInv == TypeInv /\ Started /\ GreetFree /\ RoomFree /\ Listed

\* The steps of the environment and stuttering leave the registry alone.
Outside ==
  /\ peers' = peers /\ sessions' = sessions
  /\ \/ pc' = pc
     \/ \E c \in Conns : sock[c] = "new" /\ pc' = [pc EXCEPT ![c] = "hello"]
  /\ \A c \in Conns : sock'[c] = "open" => sock[c] = "open" \/ pc'[c] = "hello"
  /\ \A c \in Conns : sock'[c] = "new" => sock[c] = "new" /\ pc'[c] = pc[c]

LEMMA OutsideStep ==
  ASSUME TypeInv, [Next]_vars, ~ \E c \in Conns : Handler(c)
  PROVE  Outside
<1>t. HandlerOK
  BY TypeParts DEF TypeInv
<1>1. ASSUME NEW c \in Conns, Connect(c) PROVE Outside
  BY <1>t, <1>1 DEF Connect, Outside, registry, HandlerOK
<1>2. ASSUME NEW c \in Conns, Disconnect(c) PROVE Outside
  BY <1>t, <1>2 DEF Disconnect, Outside, registry, HandlerOK
<1>3. CASE Stop
  BY <1>t, <1>3 DEF Stop, Outside, registry, HandlerOK
<1>4. CASE Restart
  BY <1>t, <1>4 DEF Restart, Outside, registry, HandlerOK
<1>5. CASE UNCHANGED vars
  BY <1>5 DEF vars, Outside, registry
<1> QED BY <1>1, <1>2, <1>3, <1>4, <1>5 DEF Next

\* How the registered connections change: c registers, nobody does, or one
\* entry goes away.
LEMMA WsStep ==
  ASSUME TypeInv, NEW c \in Conns, Handler(c)
  PROVE  \/ Enters(c)
         \/ SameWs(peers')
         \/ \E v \in Uids : /\ peers'[v].ws = None
                            /\ \A u \in Uids \ {v} : peers'[u].ws = peers[u].ws
<1>t. UidOf[c] \in Uids /\ HandlerOK
  BY TypeParts, ConstantsAssumption DEF TypeInv
<1>1. ASSUME NEW P \in Entries, SameWs(P), NEW v \in Uids, peers' = Unlist(P, v)
      PROVE  peers'[v].ws = None /\ \A u \in Uids \ {v} : peers'[u].ws = peers[u].ws
  BY <1>1 DEF Unlist, NoPeer, Entries, SameWs
<1>2. ASSUME NEW P \in Entries, SameWs(P), NEW ws, EntryGone(c, P, ws)
      PROVE  SameWs(peers') \/ peers' = Unlist(P, UidOf[c])
  BY <1>2 DEF EntryGone
<1>3. CASE Preludes(c) \/ Serves(c)
  BY <1>3 DEF Preludes, Serves, SameWs
<1>4. CASE Raises(c)
  <2>1. PICK P \in Entries : SameWs(P) /\ PeerGone(c, P)
    BY <1>4 DEF Raises
  <2> QED BY <1>t, <1>1, <1>2, <2>1 DEF PeerGone
<1>5. CASE Leaves(c)
  <2>1. peers \in Entries /\ SameWs(peers)
    BY <1>t DEF HandlerOK, SameWs
  <2> QED BY <1>t, <1>1, <1>2, <1>5, <2>1 DEF Leaves
<1> QED BY <1>3, <1>4, <1>5, HandlerStep

LEMMA BaseInvStep ==
  ASSUME BaseInv, [Next]_vars
  PROVE  BaseInv'
<1>t. TypeInv /\ TypeInv' /\ HandlerOK /\ HandlerOK'
  BY TypeInvStep, TypeParts DEF BaseInv, TypeInv, TypeOK, HandlerOK, Entries, RoomSets
<1>1. CASE ~ \E c \in Conns : Handler(c)
  BY <1>t, <1>1, OutsideStep
     DEF Outside, BaseInv, Started, GreetFree, RoomFree, Listed, Registered, HandlerOK
<1>2. ASSUME NEW c \in Conns, Handler(c)
      PROVE  BaseInv'
  <2>0. /\ Enters(c) \/ Preludes(c) \/ Serves(c) \/ Raises(c) \/ Leaves(c)
        /\ UidOf[c] \in Uids /\ None \notin RoomIds /\ "session" \notin RoomIds
    BY <1>t, <1>2, HandlerStep, ConstantsAssumption
  <2>1. Frame(c) /\ pc[c] # "new"
    BY <2>0 DEF Enters, Preludes, Serves, Raises, Leaves, PeerGone, EntryGone,
                Serving, Sending
  <2>2. Started'
    BY <1>t, <2>1 DEF Frame, BaseInv, Started, HandlerOK
  <2>3. GreetFree'
    BY <2>0, <2>1 DEF Frame, BaseInv, GreetFree, Enters, Preludes, Serves, Raises, Leaves,
                      PeerGone, EntryGone, Serving, Sending
  <2>4. Listed'
    <3>1. \A u \in Uids : peers[u].ws # None => UidOf[peers[u].ws] = u
      BY DEF BaseInv, Listed, Registered
    <3>2. CASE Enters(c)
      <4>1. \A u \in Uids : peers'[u].ws = IF u = UidOf[c] THEN c ELSE peers[u].ws
        BY <1>t, <2>0, <3>2 DEF Enters, Registration, HandlerOK, Entries
      <4> QED BY <3>1, <4>1 DEF Listed, Registered
    <3>3. CASE SameWs(peers')
      BY <3>1, <3>3 DEF SameWs, Listed, Registered
    <3>4. CASE \E v \in Uids : /\ peers'[v].ws = None
                               /\ \A u \in Uids \ {v} : peers'[u].ws = peers[u].ws
      BY <3>1, <3>4 DEF Listed, Registered
    <3> QED BY <1>t, <1>2, <3>2, <3>3, <3>4, WsStep
  <2>5. RoomFree'
    <3> SUFFICES ASSUME CallsOnly
                 PROVE  /\ \A u \in Uids : peers'[u].status \notin RoomIds
                        /\ \A d \in Conns : pc'[d] \notin {"room_ok", "joined", "left"}
      BY DEF RoomFree
    <3>1. /\ \A u \in Uids : peers[u].status \notin RoomIds
          /\ \A d \in Conns : pc[d] \notin {"room_ok", "joined", "left"}
          /\ Joins[c] = {}
      BY DEF BaseInv, RoomFree, CallsOnly
    <3>2. \A u, v \in Uids : Unlist(peers, v)[u].status \notin RoomIds
      BY <1>t, <2>0, <3>1 DEF Unlist, NoPeer, HandlerOK, Entries
    <3>l. ASSUME NEW v \in Uids, peers' = peers \/ peers' = Unlist(peers, v),
                 pc'[c] \in {"closing", "done"}, Frame(c)
          PROVE  /\ \A u \in Uids : peers'[u].status \notin RoomIds
                 /\ \A d \in Conns : pc'[d] \notin {"room_ok", "joined", "left"}
      <4>1. \A u \in Uids : peers'[u].status \notin RoomIds
        BY <3>1, <3>2, <3>l
      <4>2. \A d \in Conns : pc'[d] \notin {"room_ok", "joined", "left"}
        BY <3>1, <3>l DEF Frame
      <4> QED BY <4>1, <4>2
    <3>e. ASSUME NEW ws, EntryGone(c, peers, ws)
          PROVE  /\ peers' = peers \/ peers' = Unlist(peers, UidOf[c])
                 /\ pc'[c] = "done" /\ Frame(c)
      BY <2>0, <3>1, <3>e DEF EntryGone
    <3>p. ASSUME Frame(c), pc'[c] \notin {"room_ok", "joined", "left"}
          PROVE  \A d \in Conns : pc'[d] \notin {"room_ok", "joined", "left"}
      BY <3>1, <3>p DEF Frame
    <3>3. CASE Enters(c) \/ Preludes(c)
      <4>1. Frame(c) /\ pc'[c] \notin {"room_ok", "joined", "left"}
        BY <3>3 DEF Enters, Preludes
      <4>2. \A u \in Uids : peers'[u].status \in {None, peers[u].status}
        <5>1. CASE Enters(c)
          BY <1>t, <2>0, <5>1 DEF Enters, Registration, HandlerOK, Entries
        <5>2. CASE Preludes(c)
          BY <5>2 DEF Preludes
        <5> QED BY <3>3, <5>1, <5>2
      <4> QED BY <2>0, <3>1, <3>p, <4>1, <4>2
    <3>4. CASE Serves(c)
      <4>1. Frame(c) /\ pc'[c] \notin {"room_ok", "joined", "left"}
        BY <3>1, <3>4 DEF Serves, Serving, Sending
      <4>2. \A u \in Uids : peers'[u].status \in {"session", peers[u].status}
        BY <3>1, <3>4 DEF Serves
      <4> QED BY <2>0, <3>1, <3>p, <4>1, <4>2
    <3>5. CASE Raises(c)
      <4>1. PeerGone(c, peers)
        BY <3>1, <3>5 DEF Raises
      <4> QED BY <2>0, <3>l, <3>e, <4>1 DEF PeerGone
    <3>6. CASE Leaves(c)
      BY <2>0, <3>l, <3>e, <3>6 DEF Leaves
    <3> QED BY <2>0, <3>3, <3>4, <3>5, <3>6
  <2> QED BY <1>t, <2>2, <2>3, <2>4, <2>5 DEF BaseInv
<1> QED BY <1>1, <1>2

LEMMA BaseInvInvariant == Spec => []BaseInv
<1>1. Init => BaseInv
  BY ConstantsAssumption
     DEF Init, BaseInv, TypeInv, TypeOK, RoomIdSet, CalleeSet, RestartDue, Points, NoPeer,
         Statuses, Started, GreetFree, RoomFree, Listed, Registered
<1> QED BY <1>1, BaseInvStep, PTL DEF Spec

-----------------------------------------------------------------------------
\* NoZombie.  It needs that a handler never overwrites the entry of another
\* (l.119) and never unregisters a connection other than the one it closes
\* (l.109-110 after the awaits of l.108).

Exclusive == OneConnectionEach \/ (CallsOnly /\ ~GreetSuspends)

\* Whoever makes an entry go away closes its connection in the same step, or
\* is the last connection with that uid.
Unregisters(c, v) ==
  /\ \A u \in Uids \ {v} : peers'[u].ws = peers[u].ws
  /\ peers'[v].ws # peers[v].ws =>
       /\ peers'[v].ws = None
       /\ \/ peers[v].ws \in Conns => sock'[peers[v].ws] = "closed"
          \/ /\ OneConnectionEach /\ v = UidOf[c]
             /\ pc[c] = "left" /\ pc'[c] \notin Serving

LEMMA UnregistersStep ==
  ASSUME BaseInv, Exclusive, NEW c \in Conns, Handler(c), ~Enters(c)
  PROVE  \E v \in Uids : Unregisters(c, v)
<1>t. /\ TypeInv /\ HandlerOK /\ UidOf[c] \in Uids
      /\ peers \in Entries /\ sessions \in [Uids -> Uids \cup {None}]
  BY TypeParts, ConstantsAssumption DEF BaseInv, TypeInv, HandlerOK
<1>1. ASSUME SameWs(peers') PROVE Unregisters(c, UidOf[c])
  BY <1>t, <1>1 DEF SameWs, Unregisters
<1>2. ASSUME NEW P \in Entries, SameWs(P), NEW v \in Uids, peers' = Unlist(P, v),
             \/ peers[v].ws \in Conns => sock'[peers[v].ws] = "closed"
             \/ /\ OneConnectionEach /\ v = UidOf[c]
                /\ pc[c] = "left" /\ pc'[c] \notin Serving
      PROVE  Unregisters(c, v)
  BY <1>2 DEF Unlist, NoPeer, Entries, SameWs, Unregisters
<1>3. ASSUME NEW P \in Entries, SameWs(P), EntryGone(c, P, P[UidOf[c]].ws)
      PROVE  Unregisters(c, UidOf[c])
  <2>1. P[UidOf[c]].ws = peers[UidOf[c]].ws
    BY <1>t, <1>3 DEF SameWs
  <2>2. P[UidOf[c]].ws # None \/ P[UidOf[c]].ws \notin Conns
    BY ConstantsAssumption
  <2>3. \/ peers' = P
        \/ /\ peers' = Unlist(P, UidOf[c])
           /\ peers[UidOf[c]].ws \in Conns => sock'[peers[UidOf[c]].ws] = "closed"
    BY <1>3, <2>1, <2>2 DEF EntryGone
  <2> QED BY <1>t, <1>1, <1>2, <1>3, <2>3
<1>4. CASE Preludes(c) \/ Serves(c)
  <2>1. SameWs(peers')
    BY <1>4 DEF Preludes, Serves, SameWs
  <2> QED BY <1>t, <1>1, <2>1
<1>5. CASE Raises(c)
  <2>1. PICK P \in Entries : SameWs(P) /\ PeerGone(c, P)
    BY <1>5 DEF Raises
  <2> DEFINE v == sessions[UidOf[c]]
  <2>2. CASE EntryGone(c, P, P[UidOf[c]].ws)
    BY <1>t, <1>3, <2>1, <2>2
  <2>3. CASE ~EntryGone(c, P, P[UidOf[c]].ws)
    <3>1. v \in Uids /\ peers' = Unlist(P, v) /\ sock'[P[v].ws] = "closed"
      BY <2>1, <2>3 DEF PeerGone
    <3>2. P[v].ws = peers[v].ws
      BY <2>1, <3>1 DEF SameWs
    <3>3. Unregisters(c, v)
      BY <1>2, <2>1, <3>1, <3>2
    <3> QED BY <3>1, <3>3
  <2> QED BY <2>2, <2>3
<1>6. CASE Leaves(c)
  <2>s. SameWs(peers)
    BY DEF SameWs
  <2>1. CASE EntryGone(c, peers, peers[UidOf[c]].ws)
    BY <1>t, <1>3, <2>s, <2>1
  <2>2. CASE pc[c] = "left" /\ EntryGone(c, peers, mine[c])
    <3>1. OneConnectionEach
      BY <2>2 DEF BaseInv, RoomFree, Exclusive
    <3>2. \/ peers' = peers
          \/ peers' = Unlist(peers, UidOf[c]) /\ pc'[c] \notin Serving
      BY <2>2 DEF EntryGone, Serving, Sending
    <3> QED BY <1>t, <1>1, <1>2, <2>s, <2>2, <3>1, <3>2
  <2> QED BY <1>6, <2>1, <2>2 DEF Leaves
<1> QED BY <1>t, <1>4, <1>5, <1>6, HandlerStep

LEMMA NoZombieStep ==
  ASSUME BaseInv, Exclusive, NoZombie, [Next]_vars
  PROVE  NoZombie'
<1>t. TypeInv /\ HandlerOK /\ HandlerOK'
  BY TypeInvStep, TypeParts DEF BaseInv, TypeInv, TypeOK, HandlerOK, Entries, RoomSets
<1>1. CASE ~ \E c \in Conns : Handler(c)
  BY <1>t, <1>1, OutsideStep DEF Outside, NoZombie, HandlerOK, Serving, Sending
<1>2. ASSUME NEW c \in Conns, Handler(c) PROVE NoZombie'
  <2> SUFFICES ASSUME NEW d \in Conns, pc'[d] \in Serving, sock'[d] = "open"
               PROVE  peers'[UidOf[d]].ws = d
    BY DEF NoZombie
  <2>0. UidOf[c] \in Uids /\ UidOf[d] \in Uids /\ None \notin Conns
    BY ConstantsAssumption
  <2>1. CASE Enters(c)
    <3>1. \A u \in Uids : peers'[u].ws = IF u = UidOf[c] THEN c ELSE peers[u].ws
      BY <1>t, <2>0, <2>1 DEF Enters, Registration, HandlerOK, Entries
    <3>2. CASE d = c
      BY <2>0, <3>1, <3>2
    <3>3. CASE d # c
      <4>1. peers[UidOf[d]].ws = d
        BY <2>1, <3>3 DEF Enters, Frame, NoZombie
      <4>2. UidOf[d] # UidOf[c]
        BY <2>0, <2>1, <3>3, <4>1
           DEF Exclusive, OneConnectionEach, BaseInv, GreetFree, Enters, UidFree, Registered
      <4> QED BY <2>0, <3>1, <4>1, <4>2
    <3> QED BY <3>2, <3>3
  <2>2. CASE ~Enters(c)
    <3>1. PICK v \in Uids : Unregisters(c, v)
      BY <1>2, <2>2, UnregistersStep
    <3>2. Frame(c) /\ (pc'[c] \in Serving => pc[c] \in Serving)
      BY <1>t, <1>2, <2>2, HandlerStep
         DEF Preludes, Serves, Raises, Leaves, PeerGone, EntryGone, Serving, Sending
    <3>3. pc[d] \in Serving /\ sock[d] = "open"
      BY <3>2 DEF Frame
    <3>4. peers[UidOf[d]].ws = d
      BY <3>3 DEF NoZombie
    <3>5. CASE UidOf[d] # v \/ peers'[v].ws = peers[v].ws
      BY <2>0, <3>1, <3>4, <3>5 DEF Unregisters
    <3>6. CASE UidOf[d] = v /\ peers'[v].ws # peers[v].ws
      BY <3>1, <3>4, <3>6 DEF Unregisters, OneConnectionEach
    <3> QED BY <3>5, <3>6
  <2> QED BY <2>1, <2>2
<1> QED BY <1>1, <1>2

\* An open connection that is served stays reachable under its uid, as long as
\* nobody shares that uid, or there are only calls and the HELLO reply does
\* not suspend the handler between the test and the registration.
THEOREM NoZombieHolds ==
  ASSUME Exclusive
  PROVE  Spec => []NoZombie
<1>1. Init => NoZombie
  BY DEF Init, NoZombie, Serving, Sending
<1>2. BaseInv /\ NoZombie /\ [Next]_vars => NoZombie'
  BY NoZombieStep
<1> QED BY <1>1, <1>2, BaseInvInvariant, PTL DEF Spec

-----------------------------------------------------------------------------
\* NoGhost.  cleanup_room may raise in the `finally' and leave the entry
\* behind, so it needs that there are no rooms.

Owners == \A u \in Uids : Registered(u) => pc[peers[u].ws] \in Serving \cup Leaving

\* A handler that ends takes every entry of its connection with it.
LEMMA DoneUnlists ==
  ASSUME BaseInv, Owners, CallsOnly, NEW c \in Conns, Handler(c), pc'[c] = "done"
  PROVE  /\ \A u \in Uids : peers'[u].ws \in {None, peers[u].ws}
         /\ \A u \in Uids : peers'[u].ws # c
<1>t. /\ TypeInv /\ HandlerOK /\ UidOf[c] \in Uids /\ peers \in Entries
      /\ None \notin Conns /\ SameWs(peers)
      /\ \A u \in Uids : peers[u].ws = c => u = UidOf[c]
  BY TypeParts, ConstantsAssumption
     DEF BaseInv, TypeInv, HandlerOK, SameWs, Listed, Registered
<1>1. ASSUME NEW ws, EntryGone(c, peers, ws)
      PROVE  peers[UidOf[c]].ws = None \/ peers' = Unlist(peers, UidOf[c])
  BY <1>t, <1>1 DEF EntryGone, BaseInv, RoomFree
<1>2. CASE Preludes(c)
  BY <1>t, <1>2 DEF Preludes, Owners, Registered, Serving, Sending, Leaving
<1>3. CASE Raises(c) \/ Leaves(c)
  <2>1. \/ peers[UidOf[c]].ws = None /\ peers' \in {peers, Unlist(peers, UidOf[c])}
        \/ peers' = Unlist(peers, UidOf[c])
    BY <1>1, <1>3 DEF Raises, Leaves, PeerGone, EntryGone, BaseInv, RoomFree
  <2> QED BY <1>t, <2>1 DEF Unlist, NoPeer, Entries
<1> QED BY <1>t, <1>2, <1>3, HandlerStep DEF Enters, Serves, Serving, Sending

LEMMA OwnersStep ==
  ASSUME BaseInv, Owners, CallsOnly, [Next]_vars
  PROVE  Owners'
<1>t. TypeInv /\ HandlerOK /\ HandlerOK'
  BY TypeInvStep, TypeParts DEF BaseInv, TypeInv, TypeOK, HandlerOK, Entries, RoomSets
<1>1. CASE ~ \E c \in Conns : Handler(c)
  BY <1>t, <1>1, OutsideStep
     DEF Outside, Owners, Registered, BaseInv, Started, HandlerOK, Entries,
         Serving, Sending, Leaving
<1>2. ASSUME NEW c \in Conns, Handler(c) PROVE Owners'
  <2> SUFFICES ASSUME NEW u \in Uids, peers'[u].ws # None
               PROVE  pc'[peers'[u].ws] \in Serving \cup Leaving
    BY DEF Owners, Registered
  <2>0. UidOf[c] \in Uids /\ None \notin Conns /\ peers'[u].ws \in Conns
    BY <1>t, ConstantsAssumption DEF HandlerOK, Entries
  <2>1. CASE pc'[c] = "done"
    <3>1. peers'[u].ws = peers[u].ws /\ peers'[u].ws # c
      BY <1>2, <2>1, DoneUnlists
    <3>2. Frame(c)
      BY <1>t, <1>2, HandlerStep DEF Enters, Preludes, Serves, Raises, Leaves, PeerGone, EntryGone
    <3> QED BY <2>0, <3>1, <3>2 DEF Owners, Registered, Frame
  <2>2. CASE pc'[c] # "done"
    <3>1. Enters(c) \/ Preludes(c) \/ Serves(c) \/ Raises(c) \/ Leaves(c)
      BY <1>t, <1>2, HandlerStep
    <3>2. /\ Frame(c)
          /\ pc'[c] \in Serving \cup Leaving \/ Preludes(c)
      BY <2>2, <3>1 DEF Enters, Preludes, Serves, Raises, Leaves, PeerGone, EntryGone,
                        Serving, Sending, Leaving
    <3>3. peers'[u].ws \in {c, peers[u].ws}
      <4>1. CASE Enters(c)
        BY <1>t, <2>0, <4>1 DEF Enters, Registration, HandlerOK, Entries
      <4> QED BY <1>t, <1>2, <4>1, WsStep DEF SameWs
    <3>4. CASE peers'[u].ws = c /\ ~Preludes(c)
      BY <3>2, <3>4
    <3>5. CASE Preludes(c)
      <4>1. peers'[u].ws # c
        BY <2>0, <3>5 DEF Preludes, Owners, Registered, Serving, Sending, Leaving
      <4> QED BY <2>0, <3>2, <3>3, <4>1 DEF Owners, Registered, Frame
    <3>6. CASE peers'[u].ws # c
      BY <2>0, <3>2, <3>3, <3>6 DEF Owners, Registered, Frame
    <3> QED BY <3>4, <3>5, <3>6
  <2> QED BY <2>1, <2>2
<1> QED BY <1>1, <1>2

\* Without rooms, a uid is free again when the handler of its connection has
\* ended, whoever else presents that uid meanwhile.
THEOREM NoGhostHolds ==
  ASSUME CallsOnly
  PROVE  Spec => []NoGhost
<1>1. Init => Owners
  BY DEF Init, Owners, Registered, NoPeer
<1>2. BaseInv /\ Owners /\ [Next]_vars => Owners'
  BY OwnersStep
<1>3. Owners => NoGhost
  BY DEF Owners, NoGhost, Serving, Sending, Leaving
<1> QED BY <1>1, <1>2, <1>3, BaseInvInvariant, PTL DEF Spec

-----------------------------------------------------------------------------
\* SessionLookup.

LEMMA SessionLookupStep ==
  ASSUME BaseInv, OneConnectionEach, SessionLookup, [Next]_vars
  PROVE  SessionLookup'
<1>t. /\ TypeInv /\ HandlerOK /\ HandlerOK' /\ None \notin Uids
      /\ None # "session" /\ "session" \notin RoomIds
  BY TypeInvStep, TypeParts, ConstantsAssumption
     DEF BaseInv, TypeInv, TypeOK, HandlerOK, Entries, RoomSets
<1>1. CASE ~ \E c \in Conns : Handler(c)
  BY <1>t, <1>1, OutsideStep DEF Outside, SessionLookup, Status, HandlerOK, Serving, Sending
<1>2. ASSUME NEW c \in Conns, Handler(c) PROVE SessionLookup'
  <2> SUFFICES ASSUME NEW d \in Conns, pc'[d] \in Serving,
                      peers'[UidOf[d]].ws = d, peers'[UidOf[d]].status = "session"
               PROVE  sessions'[UidOf[d]] # None
    BY DEF SessionLookup, Status
  <2> DEFINE u == UidOf[d]
  <2>0. /\ UidOf[c] \in Uids /\ u \in Uids /\ None \notin Conns
        /\ d # c => u # UidOf[c]
    BY ConstantsAssumption DEF OneConnectionEach
  <2>1. CASE Enters(c) \/ Preludes(c)
    <3>1. u # UidOf[c] \/ Preludes(c)
      BY <1>t, <2>0, <2>1 DEF Enters, Registration, HandlerOK, Entries
    <3>2. peers'[u] = peers[u] /\ sessions' = sessions /\ d # c
      BY <1>t, <2>0, <2>1, <3>1
         DEF Enters, Preludes, Registration, HandlerOK, Entries, Serving, Sending
    <3>3. pc[d] \in Serving
      BY <2>1, <3>2 DEF Enters, Preludes, Frame
    <3> QED BY <3>2, <3>3 DEF SessionLookup, Status
  <2>2. CASE Serves(c)
    <3>1. pc[d] \in Serving /\ peers[u].ws = d
      BY <2>0, <2>2 DEF Serves, Frame, SameWs
    <3>2. CASE peers[u].status = "session"
      BY <1>t, <2>0, <2>2, <3>1, <3>2 DEF Serves, SessionLookup, Status
    <3>3. CASE peers[u].status # "session"
      BY <1>t, <2>0, <2>2, <3>3 DEF Serves
    <3> QED BY <3>2, <3>3
  <2>3. CASE Raises(c)
    <3>1. PICK P \in Entries : /\ SameWs(P) /\ PeerGone(c, P)
                               /\ \A x \in Uids : P[x].status \in {peers[x].status} \cup RoomIds
      BY <2>3 DEF Raises
    <3>2. /\ Frame(c) /\ pc'[c] \notin Serving
          /\ peers' = P \/ \E v \in Uids : peers' = Unlist(P, v)
      BY <2>0, <3>1 DEF PeerGone, EntryGone, Serving, Sending
    <3>3. d # c /\ u # UidOf[c] /\ pc[d] \in Serving
      BY <2>0, <3>2 DEF Frame
    <3>4. peers'[u] = P[u]
      BY <2>0, <3>2 DEF Unlist, NoPeer, Entries
    <3>5. peers[u].ws = d /\ peers[u].status = "session"
      BY <1>t, <2>0, <3>1, <3>4 DEF SameWs
    <3>6. sessions'[u] = sessions[u]
      BY <2>0, <2>3, <3>3 DEF Raises, SessionGone
    <3> QED BY <3>3, <3>5, <3>6 DEF SessionLookup, Status
  <2>4. CASE Leaves(c)
    <3>1. /\ Frame(c) /\ pc'[c] \notin Serving /\ sessions' = sessions
          /\ peers' = peers \/ peers' = Unlist(peers, UidOf[c])
      BY <2>4 DEF Leaves, EntryGone, Serving, Sending
    <3>2. d # c /\ u # UidOf[c] /\ pc[d] \in Serving
      BY <2>0, <3>1 DEF Frame
    <3>3. peers'[u] = peers[u]
      BY <1>t, <2>0, <3>1, <3>2 DEF Unlist, HandlerOK, Entries
    <3> QED BY <3>1, <3>2, <3>3 DEF SessionLookup, Status
  <2> QED BY <1>t, <1>2, <2>1, <2>2, <2>3, <2>4, HandlerStep
<1> QED BY <1>1, <1>2

\* While every user has one connection, the lookup of l.130 does not raise.
THEOREM SessionLookupHolds ==
  ASSUME OneConnectionEach
  PROVE  Spec => []SessionLookup
<1>1. Init => SessionLookup
  BY DEF Init, SessionLookup, Serving, Sending
<1>2. BaseInv /\ SessionLookup /\ [Next]_vars => SessionLookup'
  BY SessionLookupStep
<1> QED BY <1>1, <1>2, BaseInvInvariant, PTL DEF Spec

-----------------------------------------------------------------------------
\* The refinement of PeerRegistry, without rooms and without a suspension
\* between the test of the uid and its registration.

\* A step of the handler of c closes connections in S and its own only.
ClosesOnly(c, S) == \A d \in Conns \ {c} : sock'[d] # sock[d] => d \in S
Holders == {peers[u].ws : u \in Uids}

LEMMA FinishCloses ==
  ASSUME HandlerOK, NEW c \in Conns, NEW S, Finish(c, S)
  PROVE  ClosesOnly(c, S)
BY DEF Finish, Close, ClosesOnly, HandlerOK

LEMMA RemoveEntryCloses ==
  ASSUME HandlerOK, NEW c \in Conns, NEW P \in Entries, NEW R, RemoveEntry(c, P, R)
  PROVE  ClosesOnly(c, {P[UidOf[c]].ws})
<1> DEFINE ws == P[UidOf[c]].ws
<1>1. CASE Abandon(c, P) \/ Finish(c, {}) \/ UNCHANGED sock
  BY <1>1, FinishCloses DEF Abandon, ClosesOnly
<1>2. CASE Drop(c, P, ws)
  <2>1. ClosesOnly(c, {ws}) \/ ClosesOnly(c, {})
    BY <1>2, FinishCloses DEF Drop
  <2> QED BY <2>1 DEF ClosesOnly
<1> QED BY <1>1, <1>2 DEF RemoveEntry, Farewell

LEMMA RemovePeerCloses ==
  ASSUME HandlerOK, sessions \in [Uids -> Uids \cup {None}], NEW c \in Conns,
         NEW P \in Entries, SameWs(P), NEW R, RemovePeer(c, P, R)
  PROVE  ClosesOnly(c, Holders)
<1>0. UidOf[c] \in Uids /\ sessions[UidOf[c]] \in Uids \cup {None}
  BY ConstantsAssumption
<1>1. \A u \in Uids : P[u].ws \in Holders
  BY DEF SameWs, Holders
<1>2. CASE RemoveEntry(c, P, R)
  BY <1>0, <1>1, <1>2, RemoveEntryCloses DEF ClosesOnly
<1>3. CASE sessions[UidOf[c]] \in Uids /\ HangUp(P[sessions[UidOf[c]]].ws)
  BY <1>1, <1>3 DEF HangUp, Close, ClosesOnly, HandlerOK
<1> QED BY <1>0, <1>2, <1>3 DEF RemovePeer

LEMMA HandlerCloses ==
  ASSUME TypeInv, NEW c \in Conns, Handler(c), pc[c] # "left"
  PROVE  ClosesOnly(c, Holders)
<1>t. /\ HandlerOK /\ sessions \in [Uids -> Uids \cup {None}]
      /\ UidOf[c] \in Uids /\ peers \in Entries /\ SameWs(peers)
  BY TypeParts, ConstantsAssumption DEF TypeInv, HandlerOK, SameWs
<1>u. UNCHANGED sock => ClosesOnly(c, Holders)
  BY DEF ClosesOnly
<1>q. Quit(c) => ClosesOnly(c, Holders)
  BY <1>t, RemovePeerCloses DEF Quit
<1>a. ASSUME NEW P \in Entries, SameWs(P), NEW R, NEW start, NEW visited,
             Announce(c, P, R, start, visited)
      PROVE  ClosesOnly(c, Holders)
  BY <1>t, <1>u, <1>a, RemovePeerCloses DEF Announce
<1>1. CASE HelloAccepted(c) \/ HelloAtOnce(c) \/ Register(c) \/ Replied(c)
             \/ Relay(c) \/ RecvInvalid(c) \/ RecvIgnored(c)
  BY <1>1, <1>u DEF HelloAccepted, HelloAtOnce, Register, Enter, Replied, Relay,
                    RecvInvalid, RecvIgnored, Reply
<1>2. CASE HelloRejected(c) \/ GreetRefused(c)
  BY <1>t, <1>2, FinishCloses DEF HelloRejected, GreetRefused, ClosesOnly
<1>3. CASE RecvUnregistered(c) \/ RecvMalformed(c) \/ RelayLost(c) \/ RoomPeerList(c)
             \/ RecvClosed(c) \/ SendRefused(c)
  BY <1>3, <1>q DEF RecvUnregistered, RecvMalformed, RelayLost, RoomPeerList,
                    RecvClosed, SendRefused
<1>4. CASE \/ \E v \in Uids : RoomMessage(c, v)
           \/ \E v \in Callees[c] : SessionRequest(c, v)
           \/ \E r \in Joins[c] : RoomRequest(c, r)
  BY <1>4, <1>u, <1>q DEF RoomMessage, SessionRequest, RoomRequest, Reply
<1>5. CASE SessionStart(c)
  BY <1>5, <1>u, <1>q DEF SessionStart
<1>6. CASE RoomEnter(c)
  <2> DEFINE r == roomId[c]
             P == [peers EXCEPT ![UidOf[c]].status = r]
             R == [rooms EXCEPT ![r] = @ \cup {UidOf[c]}]
  <2>1. P \in Entries /\ SameWs(P)
    BY <1>t, <1>6 DEF RoomEnter, TypeInv, RoomIdSet, HandlerOK, Entries, Statuses, SameWs
  <2>2. Quit(c) \/ Announce(c, P, R, R[r], {})
    BY <1>6 DEF RoomEnter
  <2> QED BY <1>a, <1>q, <2>1, <2>2
<1>7. CASE JoinTold(c)
  BY <1>t, <1>a, <1>7 DEF JoinTold
<1>8. CASE PartnerClosed(c)
  BY <1>t, <1>8, RemoveEntryCloses DEF PartnerClosed, ClosesOnly, Holders
<1> QED BY <1>1, <1>2, <1>3, <1>4, <1>5, <1>6, <1>7, <1>8
        DEF Handler, Command, Resume, LeftTold, LeftRefused

LEMMA RegistryStep ==
  ASSUME BaseInv, Owners, CallsOnly, ~GreetSuspends, [Next]_vars
  PROVE  [Registry!Next]_<<sock, [u \in Uids |-> peers[u].ws]>>
<1> DEFINE holder == [u \in Uids |-> peers[u].ws]
<1>t. /\ TypeInv /\ TypeInv' /\ HandlerOK /\ HandlerOK' /\ None \notin Conns
      /\ sock \in [Conns -> {"new", "open", "closed"}]
      /\ sock' \in [Conns -> {"new", "open", "closed"}]
  BY TypeInvStep, TypeParts, ConstantsAssumption
     DEF BaseInv, TypeInv, TypeOK, HandlerOK, Entries, RoomSets
<1>l. ASSUME peers' = peers, \A d \in Conns : sock'[d] \in {sock[d], "closed"},
             \A d \in Conns : sock'[d] # sock[d] => sock[d] = "open"
      PROVE  [Registry!Next]_<<sock, holder>>
  <2> DEFINE S == {d \in Conns : sock'[d] # sock[d]}
  <2>1. Registry!Shut(S)
    BY <1>t, <1>l DEF Registry!Shut
  <2>2. Registry!Leave(S)
    BY <1>l, <2>1 DEF Registry!Leave
  <2>3. S \in SUBSET Conns
    OBVIOUS
  <2> QED BY <2>2, <2>3 DEF Registry!Next
<1>1. ASSUME NEW c \in Conns, Connect(c) PROVE [Registry!Next]_<<sock, holder>>
  BY <1>t, <1>1 DEF Connect, registry, Registry!Next, Registry!Open
<1>2. ASSUME NEW c \in Conns, Disconnect(c) PROVE [Registry!Next]_<<sock, holder>>
  BY <1>t, <1>l, <1>2 DEF Disconnect, registry
<1>3. CASE Stop
  BY <1>t, <1>l, <1>3 DEF Stop, registry
<1>4. CASE Restart
  BY <1>t, <1>4 DEF Restart, registry
<1>5. CASE UNCHANGED vars
  BY <1>5 DEF vars, registry
<1>6. ASSUME NEW c \in Conns, Handler(c) PROVE [Registry!Next]_<<sock, holder>>
  <2>0. /\ UidOf[c] \in Uids /\ pc[c] # "left" /\ pc[c] # "greet"
        /\ Enters(c) \/ Preludes(c) \/ Serves(c) \/ Raises(c) \/ Leaves(c)
    BY <1>t, <1>6, HandlerStep, ConstantsAssumption DEF BaseInv, RoomFree, GreetFree
  <2>1. /\ Frame(c) /\ pc[c] # "new"
    BY <2>0 DEF Enters, Preludes, Serves, Raises, Leaves, PeerGone, EntryGone, Serving, Sending
  <2>2. \A d \in Conns : sock'[d] # sock[d] => sock[d] = "open" /\ sock'[d] = "closed"
    <3>1. \A d \in Holders \cap Conns : sock[d] # "new"
      BY <1>t DEF Holders, Owners, Registered, BaseInv, Started, Serving, Sending, Leaving
    <3>2. sock[c] # "new"
      BY <2>1 DEF BaseInv, Started
    <3> QED BY <1>t, <1>6, <2>0, <2>1, <3>1, <3>2, HandlerCloses DEF Frame, ClosesOnly
  <2>3. CASE Enters(c)
    <3>1. sock[c] = "open" /\ peers[UidOf[c]].ws = None /\ sock' = sock
      BY <2>0, <2>3 DEF Enters, UidFree, Registered
    <3>2. holder' = [holder EXCEPT ![UidOf[c]] = c]
      BY <1>t, <2>0, <2>3 DEF Enters, Registration, HandlerOK, Entries
    <3>3. Registry!Claim(c)
      BY <2>0, <3>1, <3>2 DEF Registry!Claim
    <3> QED BY <3>3 DEF Registry!Next
  <2>4. CASE ~Enters(c)
    <3>1. PICK v \in Uids : Unregisters(c, v)
      BY <1>6, <2>4, UnregistersStep DEF Exclusive
    <3>2. CASE peers'[v].ws = peers[v].ws
      <4>1. holder' = holder
        BY <3>1, <3>2 DEF Unregisters
      <4> DEFINE S == {d \in Conns : sock'[d] # sock[d]}
      <4>2. Registry!Leave(S)
        BY <1>t, <2>2, <4>1 DEF Registry!Leave, Registry!Shut
      <4> QED BY <4>2 DEF Registry!Next
    <3>3. CASE peers'[v].ws # peers[v].ws
      <4>1. peers'[v].ws = None /\ peers[v].ws \in Conns /\ sock'[peers[v].ws] = "closed"
        BY <1>t, <2>0, <3>1, <3>3 DEF Unregisters, HandlerOK, Entries
      <4>2. holder' = [holder EXCEPT ![v] = None]
        BY <3>1, <4>1 DEF Unregisters
      <4>3. PICK S \in SUBSET Conns : S = {d \in Conns : sock'[d] # sock[d]}
        OBVIOUS
      <4>4. Registry!Shut(S \cup {holder[v]})
        BY <1>t, <2>2, <4>1, <4>3 DEF Registry!Shut
      <4>5. Registry!Release(v, S)
        BY <1>t, <2>2, <4>1, <4>2, <4>3, <4>4 DEF Registry!Release
      <4> QED BY <4>5 DEF Registry!Next
    <3> QED BY <3>2, <3>3
  <2> QED BY <2>3, <2>4
<1> QED BY <1>1, <1>2, <1>3, <1>4, <1>5, <1>6 DEF Next

\* Without rooms and when the HELLO reply does not suspend, the registry does
\* what PeerRegistry promises, across reconnections and restarts.
THEOREM RegistryRefined ==
  ASSUME CallsOnly, ~GreetSuspends
  PROVE  Spec => RegistrySpec
<1>1. Init => Owners /\ Registry!Init
  BY DEF Init, Owners, Registered, NoPeer, Registry!Init
<1>2. BaseInv /\ Owners /\ [Next]_vars => Owners'
  BY OwnersStep
<1>3. BaseInv /\ Owners /\ [Next]_vars
        => [Registry!Next]_<<sock, [u \in Uids |-> peers[u].ws]>>
  BY RegistryStep
<1> QED BY <1>1, <1>2, <1>3, BaseInvInvariant, PTL DEF Spec, RegistrySpec, Registry!Spec
=============================================================================
