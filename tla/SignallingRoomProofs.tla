------------------------ MODULE SignallingRoomProofs ------------------------
(* Proofs about the rooms of SignallingServer: who is listed in a room, and *)
(* who is told of whom.                                                     *)
EXTENDS SignallingCallProofs

RoomsOnly == \A c \in Conns : Callees[c] = {}

NoSessions == \A u \in Uids : sessions[u] = None

\* A member is registered with a connection that is served and has entered
\* this room, and no other.
Members ==
  \A r \in RoomIds : \A u \in rooms[r] :
    /\ Registered(u) /\ peers[u].status = r
    /\ pc[peers[u].ws] \in Serving \ {"room_ok"}
    /\ roomId[peers[u].ws] = r

\* c was told of d, is going to be told, or can no longer be.
Informed(c, d) ==
  \/ UidOf[d] \in known[c]
  \/ sock[c] # "open"
  \/ pc[d] = "joined" /\ UidOf[c] \in snap[d] \ seen[d]

Acquainted ==
  \A r \in RoomIds, c, d \in Conns :
    c # d /\ UidOf[c] \in rooms[r] /\ UidOf[d] \in rooms[r]
      => Informed(c, d) \/ Informed(d, c)

RoomBase == BaseInv /\ Dialled /\ NoSessions /\ Members
RoomInv == RoomBase /\ Acquainted

-----------------------------------------------------------------------------
\* The three kinds of step of a handler, as seen from rooms.

\* The others forget nobody but c, and their loops stay where they are.
Quiet(c) ==
  \A d \in Conns \ {c} : /\ snap'[d] = snap[d] /\ seen'[d] = seen[d]
                         /\ known[d] \ {UidOf[c]} \subseteq known'[d]

Departs(c) ==
  /\ Frame(c) /\ Quiet(c)
  /\ \A u \in Uids \ {UidOf[c]} : peers'[u] = peers[u]
  /\ \A r \in RoomIds : rooms'[r] = rooms[r] \ {UidOf[c]}

\* The notification loop does not forget anyone it has to tell.
Tells(c, members, start, visited) ==
  \A u \in (members \cap start) \ (visited \cup {UidOf[c]}) :
    \/ pc'[c] = "joined" /\ u \in snap'[c] \ seen'[c]
    \/ sock[peers[u].ws] # "open"
    \/ UidOf[c] \in known'[peers[u].ws]

Stays(c) ==
  /\ Frame(c) /\ rooms' = rooms /\ peers' = peers /\ pc'[c] \in Serving
  /\ \A d \in Conns \ {c} : /\ snap'[d] = snap[d] /\ seen'[d] = seen[d]
                            /\ known[d] \subseteq known'[d]
  /\ \/ Status(c) = None /\ Registered(UidOf[c])
     \/ /\ pc'[c] # "room_ok" /\ roomId'[c] = roomId[c] /\ known[c] \subseteq known'[c]
        /\ pc[c] = "joined" => Tells(c, rooms[roomId[c]], snap[c], seen[c])

Enrols(c) ==
  LET u == UidOf[c]
      r == roomId[c]
  IN  /\ Frame(c) /\ pc[c] = "room_ok" /\ pc'[c] \in {"recv", "joined"}
      /\ roomId'[c] = r /\ r \in RoomIds /\ Registered(u)
      /\ peers' = [peers EXCEPT ![u].status = r]
      /\ rooms' = [rooms EXCEPT ![r] = @ \cup {u}]
      /\ \A d \in Conns : known[d] \subseteq known'[d]
      /\ \A d \in Conns \ {c} : snap'[d] = snap[d] /\ seen'[d] = seen[d]
      /\ Tells(c, rooms[r] \cup {u}, rooms[r] \cup {u}, {})

\* What Members says of the one connection of a user.
LEMMA MemberConn ==
  ASSUME OneConnectionEach, RoomBase, NEW c \in Conns, NEW r \in RoomIds,
         UidOf[c] \in rooms[r]
  PROVE  /\ peers[UidOf[c]].ws = c /\ Status(c) = r
         /\ pc[c] \in Serving \ {"room_ok"} /\ roomId[c] = r
<1>1. /\ UidOf[c] \in Uids /\ Registered(UidOf[c])
      /\ peers[UidOf[c]].ws \in Conns
  BY TypeParts, ConstantsAssumption
     DEF RoomBase, Members, BaseInv, TypeInv, HandlerOK, Entries, Registered
<1>2. UidOf[peers[UidOf[c]].ws] = UidOf[c]
  BY <1>1 DEF RoomBase, BaseInv, Listed
<1>3. peers[UidOf[c]].ws = c
  BY <1>1, <1>2 DEF OneConnectionEach
<1> QED BY <1>3 DEF RoomBase, Members, Status

LEMMA FinishQuiet ==
  ASSUME HandlerOK, NEW c \in Conns, NEW S, Finish(c, S), UNCHANGED known
  PROVE  Quiet(c)
BY DEF Finish, Quiet, HandlerOK

LEMMA FarewellQuiet ==
  ASSUME HandlerOK, NEW c \in Conns, NEW P \in Entries,
         NEW members, NEW room, NEW ws, NEW start, NEW visited,
         Farewell(c, P, members, room, ws, start, visited)
  PROVE  Quiet(c)
<1>1. CASE Drop(c, P, ws) \/ Abandon(c, P)
  BY <1>1, FinishQuiet DEF Drop, Abandon
<1>2. ASSUME NEW d, Tell(d, known[d] \ {UidOf[c]}), d \in Conns,
             snap' = [snap EXCEPT ![c] = start], NEW t, seen' = [seen EXCEPT ![c] = t]
      PROVE  Quiet(c)
  BY <1>2 DEF Quiet, Tell, HandlerOK
<1>3. ASSUME NEW pid \in members \ visited, P[pid].ws # None, P[pid].ws \notin Conns,
             Tell(P[pid].ws, known[P[pid].ws] \ {UidOf[c]}),
             snap' = [snap EXCEPT ![c] = start], seen' = [seen EXCEPT ![c] = visited \cup {pid}]
      PROVE  Quiet(c)
  BY <1>3 DEF Quiet, Tell, HandlerOK
<1> QED BY <1>1, <1>2, <1>3 DEF Farewell

LEMMA RemoveEntryQuiet ==
  ASSUME HandlerOK, NEW c \in Conns, NEW P \in Entries, NEW R \in RoomSets,
         RemoveEntry(c, P, R)
  PROVE  Quiet(c)
BY FinishQuiet, FarewellQuiet DEF RemoveEntry, Drop

LEMMA RemoveEntryDeparts ==
  ASSUME HandlerOK, NEW c \in Conns, NEW P \in Entries, NEW R \in RoomSets,
         RemoveEntry(c, P, R),
         \A u \in Uids \ {UidOf[c]} : P[u] = peers[u],
         \A r \in RoomIds : R[r] \ {UidOf[c]} = rooms[r] \ {UidOf[c]},
         \A r \in RoomIds : UidOf[c] \in R[r] =>
           P[UidOf[c]].ws # None /\ P[UidOf[c]].status = r
  PROVE  Departs(c)
<1> DEFINE u == UidOf[c]
<1>1. Frame(c) /\ (peers' = P \/ peers' = Unlist(P, u)) /\ u \in Uids
  BY RemoveEntryEffect, ConstantsAssumption DEF EntryGone
<1>2. \A w \in Uids \ {u} : peers'[w] = peers[w]
  BY <1>1 DEF Unlist, Entries
<1>3. \/ rooms' = R /\ \A r \in RoomIds : u \notin R[r]
      \/ /\ P[u].status \in RoomIds /\ rooms' = Without(R, P[u].status, u)
         /\ \A r \in RoomIds : u \in R[r] => r = P[u].status
  BY DEF RemoveEntry
<1>4. \A r \in RoomIds : rooms'[r] = R[r] \ {u}
  BY <1>3 DEF Without, RoomSets
<1>5. \A r \in RoomIds : rooms'[r] = rooms[r] \ {u}
  BY <1>4
<1> QED BY <1>1, <1>2, <1>5, RemoveEntryQuiet DEF Departs

LEMMA RemovePeerDeparts ==
  ASSUME HandlerOK, NoSessions, NEW c \in Conns, NEW P \in Entries, NEW R \in RoomSets,
         RemovePeer(c, P, R),
         \A u \in Uids \ {UidOf[c]} : P[u] = peers[u],
         \A r \in RoomIds : R[r] \ {UidOf[c]} = rooms[r] \ {UidOf[c]},
         \A r \in RoomIds : UidOf[c] \in R[r] =>
           P[UidOf[c]].ws # None /\ P[UidOf[c]].status = r
  PROVE  Departs(c)
<1>1. sessions[UidOf[c]] = None
  BY ConstantsAssumption DEF NoSessions
<1>2. RemoveEntry(c, P, R)
  BY <1>1 DEF RemovePeer
<1> QED BY <1>2, RemoveEntryDeparts

LEMMA QuitDeparts ==
  ASSUME OneConnectionEach, RoomBase, NEW c \in Conns, Quit(c)
  PROVE  Departs(c)
<1>1. HandlerOK /\ peers \in Entries /\ rooms \in RoomSets
  BY TypeParts DEF RoomBase, BaseInv, TypeInv, HandlerOK
<1>2. \A r \in RoomIds : UidOf[c] \in rooms[r] =>
           peers[UidOf[c]].ws # None /\ peers[UidOf[c]].status = r
  BY DEF RoomBase, Members, Registered
<1> QED BY <1>1, <1>2, RemovePeerDeparts DEF Quit, RoomBase

LEMMA TellKnown ==
  ASSUME HandlerOK, NEW d \in Conns, NEW u, Tell(d, known[d] \cup {u})
  PROVE  /\ \A e \in Conns : known[e] \subseteq known'[e]
         /\ sock[d] = "open" => u \in known'[d]
BY DEF Tell, HandlerOK

\* What a round of the loop that announces c does when it does not raise.
LEMMA AnnounceRooms ==
  ASSUME OneConnectionEach, RoomBase, NEW c \in Conns, roomId[c] \in RoomIds,
         NEW P \in Entries, NEW R \in RoomSets, NEW start, NEW visited,
         Announce(c, P, R, start, visited), SameWs(P),
         \A u \in Uids \ {UidOf[c]} : P[u] = peers[u],
         \A r \in RoomIds : R[r] \ {UidOf[c]} = rooms[r] \ {UidOf[c]},
         \A r \in RoomIds : UidOf[c] \in R[r] =>
           P[UidOf[c]].ws # None /\ P[UidOf[c]].status = r
  PROVE  \/ Departs(c)
         \/ /\ Frame(c) /\ peers' = P /\ rooms' = R /\ pc'[c] \in {"recv", "joined"}
            /\ roomId'[c] = roomId[c]
            /\ \A d \in Conns : known[d] \subseteq known'[d]
            /\ \A d \in Conns \ {c} : snap'[d] = snap[d] /\ seen'[d] = seen[d]
            /\ Tells(c, R[roomId[c]], start, visited)
<1> DEFINE members == R[roomId[c]]
           rest == members \ (visited \cup {UidOf[c]})
<1>t. HandlerOK /\ NoSessions /\ members \in SUBSET Uids
  BY TypeParts DEF RoomBase, BaseInv, TypeInv, RoomSets
<1>1. CASE RemovePeer(c, P, R)
  BY <1>t, <1>1, RemovePeerDeparts
<1>2. CASE /\ rest \cap start = {} /\ peers' = P /\ rooms' = R
           /\ pc' = [pc EXCEPT ![c] = "recv"]
           /\ snap' = [snap EXCEPT ![c] = {}] /\ seen' = [seen EXCEPT ![c] = {}]
           /\ UNCHANGED <<sock, sessions, roomId, callee, mine, known>>
  BY <1>t, <1>2 DEF Frame, Tells, HandlerOK
<1>3. ASSUME NEW pid \in rest, P[pid].ws # None, peers' = P, rooms' = R,
             Await(c, "joined", P[pid].ws),
             Tell(P[pid].ws, known[P[pid].ws] \cup {UidOf[c]}),
             snap' = [snap EXCEPT ![c] = start],
             seen' = [seen EXCEPT ![c] = visited \cup {pid}],
             UNCHANGED <<sock, sessions, roomId, callee, mine>>
      PROVE  /\ Frame(c) /\ pc'[c] = "joined" /\ roomId'[c] = roomId[c]
             /\ \A d \in Conns : known[d] \subseteq known'[d]
             /\ \A d \in Conns \ {c} : snap'[d] = snap[d] /\ seen'[d] = seen[d]
             /\ Tells(c, members, start, visited)
  <2> DEFINE d == P[pid].ws
  <2>1. d \in Conns /\ peers[pid].ws = d
    BY <1>t, <1>3 DEF Entries, SameWs
  <2>2. /\ \A e \in Conns : known[e] \subseteq known'[e]
        /\ sock[d] = "open" => UidOf[c] \in known'[d]
    BY <1>t, <1>3, <2>1, TellKnown
  <2>3. pc' = [pc EXCEPT ![c] = "joined"]
    BY <1>3 DEF Await
  <2>4. Frame(c) /\ pc'[c] = "joined"
    BY <1>t, <1>3, <2>3 DEF Frame, HandlerOK
  <2>5. snap'[c] = start /\ seen'[c] = visited \cup {pid}
    BY <1>t, <1>3 DEF HandlerOK
  <2>6. Tells(c, members, start, visited)
    BY <2>1, <2>2, <2>4, <2>5 DEF Tells
  <2> QED BY <1>3, <2>2, <2>4, <2>6
<1> QED BY <1>1, <1>2, <1>3 DEF Announce, Audience

LEMMA CommandRooms ==
  ASSUME OneConnectionEach, RoomBase, NEW c \in Conns, Command(c)
  PROVE  Stays(c) \/ Departs(c)
<1>t. /\ HandlerOK
      /\ {"recv", "reply", "session_ok", "room_ok"} \subseteq Serving
  BY TypeParts DEF RoomBase, BaseInv, TypeInv, Serving, Sending
<1>w. ASSUME Receive(c), NEW d, Await(c, "reply", d),
             UNCHANGED <<sock, registry, roomId, callee, mine, snap, seen, known>>
      PROVE  Stays(c)
  BY <1>t, <1>w, AwaitEffect DEF Receive, Stays, Frame, registry
<1>p. ASSUME Receive(c), Reply(c) PROVE Stays(c)
  BY <1>p, <1>w DEF Reply
<1>1. CASE RecvUnregistered(c) \/ RecvMalformed(c) \/ RelayLost(c) \/ RoomPeerList(c)
  BY <1>1, QuitDeparts DEF RecvUnregistered, RecvMalformed, RelayLost, RoomPeerList
<1>2. CASE RecvInvalid(c)
  BY <1>2, <1>p DEF RecvInvalid
<1>3. CASE RecvIgnored(c)
  BY <1>t, <1>3 DEF RecvIgnored, Receive, Stays, Frame, registry, locals
<1>4. CASE Relay(c)
  BY <1>4, <1>w DEF Relay
<1>5. ASSUME NEW v \in Uids, RoomMessage(c, v) PROVE Stays(c) \/ Departs(c)
  BY <1>5, <1>p, <1>w, QuitDeparts DEF RoomMessage
<1>6. ASSUME NEW v \in Callees[c], SessionRequest(c, v) PROVE Stays(c) \/ Departs(c)
  <2>1. ASSUME Receive(c), Await(c, "session_ok", c),
               callee' = [callee EXCEPT ![c] = v],
               UNCHANGED <<sock, registry, roomId, mine, snap, seen, known>>
        PROVE  Stays(c)
    BY <1>t, <2>1, AwaitEffect DEF Receive, Stays, Frame, registry, HandlerOK
  <2> QED BY <1>6, <1>p, <2>1 DEF SessionRequest
<1>7. ASSUME NEW r \in Joins[c], RoomRequest(c, r) PROVE Stays(c) \/ Departs(c)
  <2>1. ASSUME Receive(c), Status(c) = None, Registered(UidOf[c]),
               Await(c, "room_ok", c), Tell(c, rooms[r]),
               roomId' = [roomId EXCEPT ![c] = r],
               UNCHANGED <<sock, registry, callee, mine, snap, seen>>
        PROVE  Stays(c)
    BY <1>t, <2>1, AwaitEffect DEF Tell, Stays, Frame, registry, HandlerOK
  <2> QED BY <1>7, <2>1, QuitDeparts DEF RoomRequest
<1> QED BY <1>1, <1>2, <1>3, <1>4, <1>5, <1>6, <1>7 DEF Command

LEMMA PreludeRooms ==
  ASSUME OneConnectionEach, RoomBase, NEW c \in Conns,
         HelloAccepted(c) \/ HelloAtOnce(c) \/ HelloRejected(c)
           \/ GreetRefused(c) \/ Register(c)
  PROVE  Departs(c)
<1>t. /\ HandlerOK /\ TypeInv /\ UidOf[c] \in Uids
      /\ "hello" \notin Serving /\ "greet" \notin Serving
  BY TypeParts, ConstantsAssumption DEF RoomBase, BaseInv, TypeInv, Serving, Sending
<1>1. pc[c] \notin Serving
  BY <1>t DEF HelloAccepted, HelloAtOnce, HelloRejected, GreetRefused, Register
<1>2. \A r \in RoomIds : UidOf[c] \notin rooms[r]
  BY <1>1, MemberConn
<1>3. rooms' = rooms /\ Quiet(c)
  <2>1. CASE HelloRejected(c) \/ GreetRefused(c)
    BY <1>t, <2>1, FinishQuiet DEF HelloRejected, GreetRefused, registry
  <2>2. CASE HelloAccepted(c) \/ HelloAtOnce(c) \/ Register(c)
    BY <2>2 DEF HelloAccepted, HelloAtOnce, Register, Enter, registry, Quiet
  <2> QED BY <2>1, <2>2
<1>4. Frame(c) /\ \A u \in Uids \ {UidOf[c]} : peers'[u] = peers[u]
  BY <1>t, PreludeStep DEF Enters, Preludes, HandlerOK, Entries
<1> QED BY <1>2, <1>3, <1>4 DEF Departs

LEMMA ResumeRooms ==
  ASSUME OneConnectionEach, RoomBase, NEW c \in Conns, pc[c] # "session_ok", Resume(c)
  PROVE  Stays(c) \/ Departs(c) \/ Enrols(c)
<1>t. /\ HandlerOK /\ TypeInv /\ UidOf[c] \in Uids
      /\ peers \in Entries /\ rooms \in RoomSets /\ SameWs(peers)
      /\ "recv" \in Serving /\ "joined" \in Serving
      /\ "closing" \notin Serving /\ "left" \notin Serving
  BY TypeParts, ConstantsAssumption
     DEF RoomBase, BaseInv, TypeInv, HandlerOK, SameWs, Serving, Sending
<1>m. \A r \in RoomIds : UidOf[c] \in rooms[r] =>
        peers[UidOf[c]].ws # None /\ peers[UidOf[c]].status = r
  BY DEF RoomBase, Members, Registered
<1>1. CASE GreetRefused(c) \/ Register(c)
  BY <1>1, PreludeRooms
<1>2. CASE RecvClosed(c)
  BY <1>2, QuitDeparts DEF RecvClosed
<1>3. CASE SendRefused(c)
  BY <1>3, QuitDeparts DEF SendRefused
<1>4. CASE Replied(c)
  BY <1>t, <1>4 DEF Replied, Stays, Frame, registry, HandlerOK
<1>5. CASE RoomEnter(c)
  <2> DEFINE u == UidOf[c]
             r == roomId[c]
             P == [peers EXCEPT ![u].status = r]
             R == [rooms EXCEPT ![r] = @ \cup {u}]
  <2>1. r \in RoomIds /\ pc[c] = "room_ok"
    BY <1>t, <1>5 DEF RoomEnter, RoomIdSet, TypeInv
  <2>2. /\ P \in Entries /\ R \in RoomSets /\ SameWs(P)
        /\ P[u].ws = peers[u].ws /\ P[u].status = r
        /\ \A w \in Uids \ {u} : P[w] = peers[w]
        /\ R[r] = rooms[r] \cup {u} /\ \A s \in RoomIds \ {r} : R[s] = rooms[s]
    BY <1>t, <2>1 DEF Entries, RoomSets, Statuses, SameWs
  <2>3. \A s \in RoomIds : u \notin rooms[s]
    BY <2>1, MemberConn
  <2>4. CASE Quit(c)
    BY <2>4, QuitDeparts
  <2>5. CASE Registered(u) /\ Announce(c, P, R, R[r], {})
    <3>1. /\ \A s \in RoomIds : R[s] \ {u} = rooms[s] \ {u}
          /\ \A s \in RoomIds : u \in R[s] => P[u].ws # None /\ P[u].status = s
      BY <2>2, <2>3, <2>5 DEF Registered
    <3> HIDE DEF P, R
    <3>2. \/ Departs(c)
          \/ /\ Frame(c) /\ peers' = P /\ rooms' = R /\ pc'[c] \in {"recv", "joined"}
             /\ roomId'[c] = roomId[c]
             /\ \A d \in Conns : known[d] \subseteq known'[d]
             /\ \A d \in Conns \ {c} : snap'[d] = snap[d] /\ seen'[d] = seen[d]
             /\ Tells(c, R[r], R[r], {})
      BY <1>t, <2>1, <2>2, <2>5, <3>1, AnnounceRooms
    <3> USE DEF P, R
    <3> QED BY <2>1, <2>2, <2>5, <3>2 DEF Enrols
  <2> QED BY <1>5, <2>4, <2>5 DEF RoomEnter
<1>6. CASE JoinTold(c)
  <2>1. /\ roomId[c] \in RoomIds /\ pc[c] = "joined"
        /\ Announce(c, peers, rooms, snap[c], seen[c])
    BY <1>t, <1>6 DEF JoinTold, RoomIdSet, TypeInv
  <2>2. \/ Departs(c)
        \/ /\ Frame(c) /\ peers' = peers /\ rooms' = rooms /\ pc'[c] \in {"recv", "joined"}
           /\ roomId'[c] = roomId[c]
           /\ \A d \in Conns : known[d] \subseteq known'[d]
           /\ \A d \in Conns \ {c} : snap'[d] = snap[d] /\ seen'[d] = seen[d]
           /\ Tells(c, rooms[roomId[c]], snap[c], seen[c])
    BY <1>t, <1>m, <2>1, AnnounceRooms
  <2> QED BY <1>t, <2>1, <2>2 DEF Stays
<1>7. CASE PartnerClosed(c) \/ LeftTold(c) \/ LeftRefused(c)
  <2>1. \A r \in RoomIds : UidOf[c] \notin rooms[r]
    BY <1>t, <1>7, MemberConn DEF PartnerClosed, LeftTold, LeftRefused
  <2>2. CASE PartnerClosed(c)
    BY <1>t, <1>m, <2>2, RemoveEntryDeparts DEF PartnerClosed
  <2>3. CASE LeftTold(c)
    <3>1. Frame(c) /\ rooms' = rooms /\ (peers' = peers \/ peers' = Unlist(peers, UidOf[c]))
      BY <1>t, <2>3, FarewellEffect DEF LeftTold
    <3>2. Quiet(c)
      BY <1>t, <2>3, FarewellQuiet DEF LeftTold
    <3> QED BY <1>t, <2>1, <3>1, <3>2 DEF Departs, Unlist, Entries
  <2>4. CASE LeftRefused(c)
    BY <1>t, <2>1, <2>4, FinishEffect, FinishQuiet DEF LeftRefused, Abandon, Departs
  <2> QED BY <1>7, <2>2, <2>3, <2>4
<1>8. ~SessionStart(c)
  BY DEF SessionStart
<1> QED BY <1>1, <1>2, <1>3, <1>4, <1>5, <1>6, <1>7, <1>8 DEF Resume

LEMMA HandlerRooms ==
  ASSUME OneConnectionEach, RoomsOnly, RoomBase, NEW c \in Conns, Handler(c)
  PROVE  Stays(c) \/ Departs(c) \/ Enrols(c)
<1>1. pc[c] # "session_ok"
  BY DEF RoomsOnly, RoomBase, Dialled
<1> QED BY <1>1, PreludeRooms, CommandRooms, ResumeRooms DEF Handler

-----------------------------------------------------------------------------
\* The invariants.

LEMMA NoSessionsStep ==
  ASSUME RoomsOnly, RoomBase, [Next]_vars
  PROVE  NoSessions'
<1>t. TypeInv /\ HandlerOK /\ sessions \in [Uids -> Uids \cup {None}]
  BY TypeParts DEF RoomBase, BaseInv, TypeInv
<1>1. CASE ~ \E c \in Conns : Handler(c)
  BY <1>t, <1>1, OutsideStep DEF Outside, RoomBase, NoSessions
<1>2. ASSUME NEW c \in Conns, Handler(c) PROVE NoSessions'
  <2>1. ~SessionBegins(c)
    BY DEF SessionBegins, RoomsOnly, RoomBase, Dialled
  <2> QED BY <1>t, <1>2, <2>1, HandlerSessions
          DEF SessionsKept, SessionEnds, Forget, RoomBase, NoSessions
<1> QED BY <1>1, <1>2

LEMMA MembersStep ==
  ASSUME OneConnectionEach, RoomsOnly, RoomBase, [Next]_vars
  PROVE  Members'
<1>t. /\ TypeInv /\ HandlerOK /\ peers \in Entries /\ rooms \in RoomSets
      /\ "room_ok" \in Serving /\ "recv" \in Serving /\ "joined" \in Serving
      /\ None \notin RoomIds /\ None \notin Conns
  BY TypeParts, ConstantsAssumption
     DEF RoomBase, BaseInv, TypeInv, HandlerOK, Serving, Sending
<1>1. CASE ~ \E c \in Conns : Handler(c)
  <2>1. rooms' = rooms /\ peers' = peers /\ roomId' = roomId
    BY <1>1 DEF Next, Connect, Disconnect, Stop, Restart, vars, registry, locals
  <2>2. \A c \in Conns : pc[c] \in Serving => pc'[c] = pc[c]
    BY <1>t, <1>1, OutsideStep
       DEF Outside, RoomBase, BaseInv, Started, HandlerOK, Serving, Sending
  <2>3. \A r \in RoomIds : \A u \in rooms[r] : peers[u].ws \in Conns
    BY <1>t DEF RoomBase, Members, Registered, Entries, RoomSets
  <2> QED BY <2>1, <2>2, <2>3 DEF RoomBase, Members, Registered
<1>2. ASSUME NEW c \in Conns, Handler(c) PROVE Members'
  <2> SUFFICES ASSUME NEW r \in RoomIds, NEW u \in rooms'[r]
               PROVE  /\ peers'[u].ws # None /\ peers'[u].status = r
                      /\ pc'[peers'[u].ws] \in Serving \ {"room_ok"}
                      /\ roomId'[peers'[u].ws] = r
    BY DEF Members, Registered
  <2>0. UidOf[c] \in Uids
    BY ConstantsAssumption
  <2>1. ASSUME u \in rooms[r]
        PROVE  /\ u \in Uids /\ peers[u].ws \in Conns /\ UidOf[peers[u].ws] = u
               /\ peers[u].status = r
               /\ pc[peers[u].ws] \in Serving \ {"room_ok"} /\ roomId[peers[u].ws] = r
    BY <1>t, <2>1 DEF RoomBase, Members, BaseInv, Listed, Registered, Entries, RoomSets
  <2>2. ASSUME u \in rooms[r], u # UidOf[c], Frame(c), peers'[u] = peers[u]
        PROVE  /\ peers'[u].ws # None /\ peers'[u].status = r
               /\ pc'[peers'[u].ws] \in Serving \ {"room_ok"}
               /\ roomId'[peers'[u].ws] = r
    BY <1>t, <2>1, <2>2 DEF Frame
  <2>3. CASE Departs(c)
    BY <1>t, <2>1, <2>2, <2>3 DEF Departs
  <2>4. CASE Stays(c)
    <3>1. u \in rooms[r] /\ peers' = peers /\ Frame(c)
      BY <2>4 DEF Stays
    <3>2. CASE u = UidOf[c]
      <4>1. peers[u].ws = c /\ Status(c) = r /\ pc[c] # "room_ok" /\ roomId[c] = r
        BY <3>1, <3>2, MemberConn
      <4> QED BY <1>t, <2>4, <3>1, <3>2, <4>1 DEF Stays, Status
    <3> QED BY <2>2, <3>1, <3>2
  <2>5. CASE Enrols(c)
    <3> DEFINE s == roomId[c]
    <3>1. \A q \in RoomIds : UidOf[c] \notin rooms[q]
      BY <2>5, MemberConn DEF Enrols
    <3>2. /\ s \in RoomIds /\ Frame(c)
          /\ peers' = [peers EXCEPT ![UidOf[c]].status = s]
          /\ rooms' = [rooms EXCEPT ![s] = @ \cup {UidOf[c]}]
      BY <2>5 DEF Enrols
    <3>3. CASE u = UidOf[c]
      <4>1. r = s
        BY <1>t, <3>1, <3>2, <3>3 DEF RoomSets
      <4>2. peers'[u].ws = peers[u].ws /\ peers'[u].status = s
        BY <1>t, <2>0, <3>2, <3>3 DEF Entries
      <4>3. peers[u].ws = c
        BY <1>t, <2>0, <2>5, <3>3
           DEF Enrols, Registered, RoomBase, BaseInv, Listed, OneConnectionEach, Entries
      <4> QED BY <1>t, <2>5, <4>1, <4>2, <4>3 DEF Enrols
    <3>4. CASE u # UidOf[c]
      <4>1. u \in rooms[r]
        BY <1>t, <3>2, <3>4 DEF RoomSets
      <4>2. peers'[u] = peers[u]
        BY <1>t, <2>1, <3>2, <3>4, <4>1 DEF Entries
      <4> QED BY <2>2, <3>2, <3>4, <4>1, <4>2
    <3> QED BY <3>3, <3>4
  <2> QED BY <1>2, <2>3, <2>4, <2>5, HandlerRooms
<1> QED BY <1>1, <1>2

\* Whoever is to be told by c is told, stays to be told, or is closed.
LEMMA TellsInforms ==
  ASSUME OneConnectionEach, RoomBase, NEW c \in Conns, NEW d \in Conns \ {c},
         NEW members, NEW start, NEW visited,
         Tells(c, members, start, visited), Frame(c), peers[UidOf[d]].ws = d,
         UidOf[d] \in (members \cap start) \ visited
  PROVE  Informed(d, c)'
<1>1. UidOf[d] # UidOf[c]
  BY DEF OneConnectionEach
<1>2. sock[d] # "open" => sock'[d] # "open"
  BY DEF Frame
<1> QED BY <1>1, <1>2 DEF Tells, Informed

LEMMA AcquaintedStep ==
  ASSUME OneConnectionEach, RoomsOnly, RoomInv, Members', [Next]_vars
  PROVE  Acquainted'
<1>t. /\ TypeInv /\ HandlerOK /\ rooms \in RoomSets /\ RoomBase
      /\ "joined" \in Serving
  BY TypeParts DEF RoomInv, RoomBase, BaseInv, TypeInv, HandlerOK, Serving, Sending
<1>1. CASE ~ \E c \in Conns : Handler(c)
  <2>1. UNCHANGED <<rooms, snap, seen, known>>
    BY <1>1 DEF Next, Connect, Disconnect, Stop, Restart, vars, registry, locals
  <2>2. /\ \A c \in Conns : pc[c] = "joined" => pc'[c] = "joined"
        /\ \A c \in Conns : pc[c] \in Serving /\ sock'[c] = "open" => sock[c] = "open"
    BY <1>t, <1>1, OutsideStep
       DEF Outside, RoomBase, BaseInv, Started, HandlerOK, Serving, Sending
  <2>3. ASSUME NEW r \in RoomIds, NEW c \in Conns, NEW d \in Conns,
               UidOf[c] \in rooms[r], Informed(c, d)
        PROVE  Informed(c, d)'
    <3>1. pc[c] \in Serving
      BY <1>t, <2>3, MemberConn
    <3> QED BY <2>1, <2>2, <2>3, <3>1 DEF Informed
  <2> QED BY <2>1, <2>3 DEF RoomInv, Acquainted
<1>2. ASSUME NEW x \in Conns, Handler(x) PROVE Acquainted'
  <2> SUFFICES ASSUME NEW r \in RoomIds, NEW c \in Conns, NEW d \in Conns, c # d,
                      UidOf[c] \in rooms'[r], UidOf[d] \in rooms'[r]
               PROVE  Informed(c, d)' \/ Informed(d, c)'
    BY DEF Acquainted
  <2>0. /\ UidOf[c] # UidOf[d]
        /\ c # x => UidOf[c] # UidOf[x]
        /\ d # x => UidOf[d] # UidOf[x]
    BY DEF OneConnectionEach
  \* Between two others, nothing that x does matters.
  <2>1. ASSUME NEW e \in Conns \ {x}, NEW f \in Conns \ {x}, Informed(e, f),
               Frame(x), Quiet(x)
        PROVE  Informed(e, f)'
    <3>1. UidOf[f] # UidOf[x]
      BY <2>1 DEF OneConnectionEach
    <3>2. /\ snap'[f] = snap[f] /\ seen'[f] = seen[f] /\ pc'[f] = pc[f]
          /\ sock'[e] \in {sock[e], "closed"}
          /\ known[e] \ {UidOf[x]} \subseteq known'[e]
      BY <2>1 DEF Frame, Quiet
    <3> QED BY <2>1, <3>1, <3>2 DEF Informed
  <2>2. CASE Departs(x)
    <3>1. /\ UidOf[c] \in rooms[r] /\ UidOf[d] \in rooms[r] /\ c # x /\ d # x
      BY <2>2 DEF Departs
    <3>2. Informed(c, d) \/ Informed(d, c)
      BY <3>1 DEF RoomInv, Acquainted
    <3> QED BY <2>1, <2>2, <3>1, <3>2 DEF Departs
  <2>3. CASE Stays(x)
    <3>1. /\ UidOf[c] \in rooms[r] /\ UidOf[d] \in rooms[r] /\ Frame(x)
          /\ Informed(c, d) \/ Informed(d, c)
      BY <2>3 DEF Stays, RoomInv, Acquainted
    <3>2. CASE c # x /\ d # x
      <4>1. Quiet(x)
        BY <2>3 DEF Stays, Quiet
      <4> QED BY <2>1, <3>1, <3>2, <4>1
    \* x keeps what it knows, and tells the other as it must.
    <3>3. ASSUME NEW e \in Conns \ {x}, UidOf[e] \in rooms[r], UidOf[x] \in rooms[r],
                 Informed(x, e) \/ Informed(e, x)
          PROVE  Informed(x, e)' \/ Informed(e, x)'
      <4>1. /\ Status(x) = r /\ roomId[x] = r /\ peers[UidOf[e]].ws = e
            /\ r # None
        BY <1>t, <3>3, MemberConn, ConstantsAssumption
      <4>2. /\ known[x] \subseteq known'[x] /\ known[e] \subseteq known'[e]
            /\ snap'[e] = snap[e] /\ seen'[e] = seen[e] /\ pc'[e] = pc[e]
            /\ sock'[x] \in {sock[x], "closed"} /\ sock'[e] \in {sock[e], "closed"}
            /\ pc[x] = "joined" => Tells(x, rooms[r], snap[x], seen[x])
        BY <2>3, <4>1 DEF Stays, Frame
      <4>3. CASE Informed(x, e)
        BY <4>2, <4>3 DEF Informed
      <4>4. CASE pc[x] = "joined" /\ UidOf[e] \in snap[x] \ seen[x]
        BY <1>t, <3>1, <3>3, <4>1, <4>2, <4>4, TellsInforms
      <4>5. CASE UidOf[x] \in known[e] \/ sock[e] # "open"
        BY <4>2, <4>5 DEF Informed
      <4> QED BY <3>3, <4>3, <4>4, <4>5 DEF Informed
    <3> QED BY <3>1, <3>2, <3>3
  <2>4. CASE Enrols(x)
    <3> DEFINE s == roomId[x]
    <3>1. /\ \A q \in RoomIds : UidOf[x] \notin rooms[q]
          /\ rooms' = [rooms EXCEPT ![s] = @ \cup {UidOf[x]}] /\ s \in RoomIds
          /\ Frame(x) /\ Quiet(x)
          /\ Tells(x, rooms[s] \cup {UidOf[x]}, rooms[s] \cup {UidOf[x]}, {})
      BY <1>t, <2>4, MemberConn DEF Enrols, Quiet
    <3>2. CASE c # x /\ d # x
      <4>1. UidOf[c] \in rooms[r] /\ UidOf[d] \in rooms[r]
        BY <1>t, <2>0, <3>1, <3>2 DEF RoomSets
      <4>2. Informed(c, d) \/ Informed(d, c)
        BY <4>1 DEF RoomInv, Acquainted
      <4> QED BY <2>1, <3>1, <3>2, <4>2
    <3>3. ASSUME NEW e \in Conns \ {x}, UidOf[e] \in rooms'[r], UidOf[x] \in rooms'[r]
          PROVE  Informed(e, x)'
      <4>1. r = s
        BY <1>t, <3>1, <3>3 DEF RoomSets
      <4>2. UidOf[e] \in rooms[s]
        BY <1>t, <3>1, <3>3, <4>1 DEF RoomSets, OneConnectionEach
      <4>3. peers[UidOf[e]].ws = e
        BY <1>t, <3>1, <4>2, MemberConn
      <4> QED BY <1>t, <3>1, <4>2, <4>3, TellsInforms
    <3> QED BY <3>2, <3>3
  <2> QED BY <1>t, <1>2, <2>2, <2>3, <2>4, HandlerRooms
<1> QED BY <1>1, <1>2

LEMMA RoomInvariant ==
  ASSUME OneConnectionEach, RoomsOnly
  PROVE  Spec => []RoomInv
<1>1. Init => Dialled /\ NoSessions /\ Members /\ Acquainted
  BY DEF Init, Dialled, NoSessions, Members, Acquainted
<1>2. RoomInv /\ [Next]_vars => Dialled' /\ NoSessions' /\ Members' /\ Acquainted'
  BY DialledStep, NoSessionsStep, MembersStep, AcquaintedStep DEF RoomInv, RoomBase
<1> QED BY <1>1, <1>2, BaseInvInvariant, PTL DEF Spec, RoomInv, RoomBase

\* With rooms alone and one connection for each user, no lookup of a member of
\* a room (l.98, l.205) fails.
THEOREM MembersListedHolds ==
  ASSUME OneConnectionEach, RoomsOnly
  PROVE  Spec => []MembersListed
<1>1. RoomInv => MembersListed
  BY DEF RoomInv, RoomBase, Members, MembersListed
<1> QED BY <1>1, RoomInvariant, PTL

\* Of two members whose handlers are idle one was told of the other: the one
\* that entered last has told the others, and one that came before it.
THEOREM OneKnowsOtherHolds ==
  ASSUME OneConnectionEach, RoomsOnly
  PROVE  Spec => []OneKnowsOther
<1>1. RoomInv => OneKnowsOther
  BY DEF RoomInv, Acquainted, Informed, OneKnowsOther, Settled
<1> QED BY <1>1, RoomInvariant, PTL
=============================================================================
