-------------------------- MODULE SignallingServer --------------------------
(***************************************************************************)
(* The signalling server, src/signalling/simple_server.py: one asyncio     *)
(* coroutine per websocket connection, all sharing the dictionaries peers, *)
(* sessions and rooms.  The event loop switches coroutines only at an      *)
(* `await', so an action is the code between two awaits and pc[c] names    *)
(* the await that the handler of connection c is suspended in.             *)
(*                                                                         *)
(* Clients are arbitrary: which commands a connection may send is given by *)
(* the constants.  A send writes its message when it is called (if the     *)
(* socket is open) and may suspend until the socket drains.                *)
(***************************************************************************)
EXTENDS Naturals, FiniteSets

CONSTANTS
  Conns,       \* websocket connections: each is accepted at most once
  Uids,        \* peer ids
  RoomIds,     \* room names
  UidOf,       \* UidOf[c]: the uid connection c announces in its HELLO
  Callees,     \* Callees[c]: the uids c may name in a SESSION command
  Joins,       \* Joins[c]: the rooms c may name in a ROOM command
  GreetSuspends, \* TRUE: the await of the HELLO reply (l.226) may suspend
  MaxMsgs,     \* bound: commands a client sends on one connection
  MaxRestarts, \* bound: restarts of the server on a certificate change
  None         \* Python's None, and the absence of a dictionary entry

Statuses == RoomIds \cup {"session", None}

ASSUME ConstantsAssumption ==
  /\ UidOf \in [Conns -> Uids]
  /\ Callees \in [Conns -> SUBSET Uids]
  /\ Joins \in [Conns -> SUBSET RoomIds]
  /\ GreetSuspends \in BOOLEAN
  /\ MaxMsgs \in Nat /\ MaxRestarts \in Nat
  /\ None \notin Conns \cup Uids \cup RoomIds
  /\ "session" \notin RoomIds /\ None # "session"   \* l.187

VARIABLES
  sock,      \* sock[c]: the websocket of c: "new", "open" or "closed"
  pc,        \* pc[c]: the await the handler of c is suspended in
  msgs,      \* msgs[c]: commands the client of c has not yet had handled
  peers,     \* peers[uid]: [ws, status], NoPeer when uid is not a key
  sessions,  \* sessions[uid]: the other uid, None when uid is not a key
  rooms,     \* rooms[r]: the uids in r ({} when r is not a key: never deleted)
  roomId,    \* local room_id
  dest,      \* connection of the awaited send, None when it was refused
  callee,    \* local callee_id across l.173
  mine,      \* local ws of remove_peer (l.106) across l.108
  snap,      \* the set a notification loop started on (l.97, l.202)
  seen,      \* the members that loop has visited
  known,     \* known[c]: room members the client of c was told of
  listening, \* FALSE from server.close() until run() listens again
  restarts   \* restarts so far

locals   == <<roomId, dest, callee, mine, snap, seen>>
registry == <<peers, sessions, rooms>>
server   == <<listening, restarts>>
vars     == <<sock, pc, msgs, registry, locals, known, server>>

Sending == {"reply", "session_ok", "room_ok", "joined"}   \* in the main loop
Serving == {"recv"} \cup Sending
Leaving == {"closing", "left"}                            \* in remove_peer
Points  == {"new", "hello", "greet", "done"} \cup Serving \cup Leaving

NoPeer == [ws |-> None, status |-> None]
RegistrationIdle(c) == [ws |-> c, status |-> "idle"]   \* mutant
Registration(c) == [ws |-> c, status |-> None]
Registered(u) == peers[u].ws # None
Status(c) == peers[UidOf[c]].status

TypeOK ==
  /\ sock \in [Conns -> {"new", "open", "closed"}]
  /\ pc \in [Conns -> Points]
  /\ msgs \in [Conns -> 0..MaxMsgs]
  /\ peers \in [Uids -> [ws : Conns \cup {None}, status : Statuses]]
  /\ sessions \in [Uids -> Uids \cup {None}]
  /\ rooms \in [RoomIds -> SUBSET Uids]
  /\ roomId \in [Conns -> RoomIds \cup {None}]
  /\ dest \in [Conns -> Conns \cup {None}]
  /\ callee \in [Conns -> Uids \cup {None}]
  /\ mine \in [Conns -> Conns \cup {None}]
  /\ snap \in [Conns -> SUBSET Uids]
  /\ seen \in [Conns -> SUBSET Uids]
  /\ known \in [Conns -> SUBSET Uids]
  /\ listening \in BOOLEAN
  /\ restarts \in 0..MaxRestarts

Init ==
  /\ sock = [c \in Conns |-> "new"]
  /\ pc = [c \in Conns |-> "new"]
  /\ msgs = [c \in Conns |-> MaxMsgs]
  /\ peers = [u \in Uids |-> NoPeer]
  /\ sessions = [u \in Uids |-> None]
  /\ rooms = [r \in RoomIds |-> {}]
  /\ roomId = [c \in Conns |-> None]
  /\ dest = [c \in Conns |-> None]
  /\ callee = [c \in Conns |-> None]
  /\ mine = [c \in Conns |-> None]
  /\ snap = [c \in Conns |-> {}]
  /\ seen = [c \in Conns |-> {}]
  /\ known = [c \in Conns |-> {}]
  /\ listening = TRUE
  /\ restarts = 0

-----------------------------------------------------------------------------
(* Awaiting a send.  One to a socket that is not open is refused: it will  *)
(* raise ConnectionClosed.  One that was written returns, or raises when   *)
(* the socket closes before it has drained.                                *)

Close(S) == sock' = [x \in Conns |-> IF x \in S THEN "closed" ELSE sock[x]]

Await(c, point, d) ==
  /\ pc' = [pc EXCEPT ![c] = point]
  /\ dest' = [dest EXCEPT ![c] = IF d # None /\ sock[d] = "open" THEN d ELSE None]

Sent(c) == dest[c] # None
Refused(c) == dest[c] # None => sock[dest[c]] # "open"

Reply(c) ==
  /\ Await(c, "reply", c)
  /\ UNCHANGED <<sock, registry, roomId, callee, mine, snap, seen, known>>

\* Messages from the server update what the client at the other end knows.
Tell(d, members) ==
  known' = [x \in Conns |-> IF x = d /\ sock[d] = "open" THEN members ELSE known[x]]

\* Variants of the four updates below that a plausible slip would leave.
KeepListed(P, u) == P
KeepOpen(ws) == UNCHANGED sock
KeepMember(R, room, u) == R
ForgetOne(u, other) == [sessions EXCEPT ![u] = None]

\* del self.peers[u], await wso.close(), room_peers.remove(u) ...
Unlist(P, u) == [P EXCEPT ![u] = NoPeer]
HangUp(ws) == Close({ws})
Without(R, room, u) == [R EXCEPT ![room] = @ \ {u}]
\* ... and del self.sessions[u], del self.sessions[other] (l.79, l.82).
Forget(u, other) == [v \in Uids |-> IF v \in {u, other} THEN None ELSE sessions[v]]

\* The coroutine ends; the websockets library then closes its connection.
Finish(c, closing) ==
  /\ pc' = [pc EXCEPT ![c] = "done"]
  /\ Close(closing \cup {c})
  /\ roomId' = [roomId EXCEPT ![c] = None]
  /\ dest' = [dest EXCEPT ![c] = None]
  /\ callee' = [callee EXCEPT ![c] = None]
  /\ mine' = [mine EXCEPT ![c] = None]
  /\ snap' = [snap EXCEPT ![c] = {}]
  /\ seen' = [seen EXCEPT ![c] = {}]

-----------------------------------------------------------------------------
(* remove_peer (l.103), run by the `finally' of the handler.  P and R are  *)
(* the values of peers and rooms when it starts, which a segment that      *)
(* raises may have changed before.                                         *)

\* l.109-110: del self.peers[uid] raises KeyError when the entry is gone.
Drop(c, P, ws) ==
  /\ peers' = Unlist(P, UidOf[c])
  /\ Finish(c, IF P[UidOf[c]].ws = None THEN {} ELSE {ws})
  /\ UNCHANGED known

\* An exception in cleanup_room leaves remove_peer before l.109.
Abandon(c, P) ==
  /\ peers' = P
  /\ Finish(c, {})
  /\ UNCHANGED known

\* One round of the loop of cleanup_room over the live set (l.97-101).
Farewell(c, P, members, room, ws, start, visited) ==
  \/ /\ Cardinality(members) # Cardinality(start)    \* RuntimeError
     /\ Abandon(c, P)
  \/ /\ Cardinality(members) = Cardinality(start)
     /\ (members \cap start) \subseteq visited
     /\ Drop(c, P, ws)
  \/ /\ Cardinality(members) = Cardinality(start)
     /\ \E pid \in members \ visited :
          \/ P[pid].ws = None /\ Abandon(c, P)        \* KeyError
          \/ /\ P[pid].ws # None
             /\ peers' = P
             /\ Await(c, "left", P[pid].ws)
             /\ Tell(P[pid].ws, known[P[pid].ws] \ {UidOf[c]})
             /\ roomId' = [roomId EXCEPT ![c] = room]
             /\ mine' = [mine EXCEPT ![c] = ws]
             /\ snap' = [snap EXCEPT ![c] = start]
             /\ seen' = [seen EXCEPT ![c] = visited \cup {pid}]
             /\ UNCHANGED <<sock, callee>>

\* l.105-110, with cleanup_room up to its first send.
RemoveEntry(c, P, R) ==
  LET u == UidOf[c]
      status == P[u].status
      left == Without(R, status, u)
  IN  IF P[u].ws = None
      THEN peers' = P /\ rooms' = R /\ Finish(c, {}) /\ UNCHANGED known
      ELSE IF status \in RoomIds /\ u \in R[status]
      THEN /\ rooms' = left
           /\ Farewell(c, P, left[status], status, P[u].ws, left[status], {})
      ELSE rooms' = R /\ Drop(c, P, P[u].ws)

\* cleanup_session (l.76-90) and, unless it awaits, what follows it.
RemovePeer(c, P, R) ==
  LET u == UidOf[c]
      other == sessions[u]
      paired == other \notin {None, u} /\ sessions[other] # None
  IN  /\ sessions' = Forget(u, other)
      /\ IF paired /\ P[other].ws # None
         THEN /\ peers' = Unlist(P, other)
              /\ rooms' = R
              /\ HangUp(P[other].ws)
              /\ pc' = [pc EXCEPT ![c] = "closing"]
              /\ UNCHANGED <<locals, known>>
         ELSE RemoveEntry(c, P, R)

\* mutant: remove_peer without cleanup_session
QuitSessionKept(c) == RemoveEntry(c, peers, rooms) /\ UNCHANGED sessions
Quit(c) == RemovePeer(c, peers, rooms)

\* l.90 returned: the rest of remove_peer.
PartnerClosed(c) ==
  /\ pc[c] = "closing"
  /\ RemoveEntry(c, peers, rooms)
  /\ UNCHANGED <<msgs, sessions, server>>

\* l.101 returned: the next round.
LeftTold(c) ==
  /\ pc[c] = "left" /\ Sent(c)
  /\ Farewell(c, peers, rooms[roomId[c]], roomId[c], mine[c], snap[c], seen[c])
  /\ UNCHANGED <<msgs, rooms, sessions, server>>

\* l.101 raised, from within the `finally'.
LeftRefused(c) ==
  /\ pc[c] = "left" /\ Refused(c)
  /\ Abandon(c, peers)
  /\ UNCHANGED <<msgs, rooms, sessions, server>>

-----------------------------------------------------------------------------
(* The clients and the listening socket.                                   *)

Connect(c) ==
  /\ listening /\ sock[c] = "new"
  /\ sock' = [sock EXCEPT ![c] = "open"]
  /\ pc' = [pc EXCEPT ![c] = "hello"]
  /\ UNCHANGED <<msgs, registry, locals, known, server>>

Disconnect(c) ==
  /\ sock[c] = "open"
  /\ sock' = [sock EXCEPT ![c] = "closed"]
  /\ UNCHANGED <<pc, msgs, registry, locals, known, server>>

\* stop(): server.close() closes every connection (l.290-293).
Stop ==
  /\ listening /\ restarts < MaxRestarts
  /\ listening' = FALSE
  /\ sock' = [c \in Conns |-> IF sock[c] = "open" THEN "closed" ELSE sock[c]]
  /\ UNCHANGED <<pc, msgs, registry, locals, known, restarts>>

\* wait_closed() has waited for the handlers; main() runs the server again.
Restart ==
  /\ ~listening /\ \A c \in Conns : pc[c] \in {"new", "done"}
  /\ listening' = TRUE
  /\ restarts' = restarts + 1
  /\ UNCHANGED <<sock, pc, msgs, registry, locals, known>>

-----------------------------------------------------------------------------
(* hello_peer (l.212) and the registration of connection_handler (l.119).  *)

AnyUid(c) == TRUE                                       \* mutant
UidFree(c) == ~Registered(UidOf[c])

HelloAccepted(c) ==
  /\ GreetSuspends /\ pc[c] = "hello" /\ UidFree(c)
  /\ Await(c, "greet", c)
  /\ UNCHANGED <<sock, msgs, registry, roomId, callee, mine, snap, seen, known, server>>

\* A malformed hello, an invalid or used uid, or a closed socket: no cleanup.
HelloRejected(c) ==
  /\ pc[c] = "hello"
  /\ Finish(c, {})
  /\ UNCHANGED <<msgs, registry, known, server>>

GreetRefused(c) ==
  /\ pc[c] = "greet" /\ Refused(c)
  /\ Finish(c, {})
  /\ UNCHANGED <<msgs, registry, known, server>>

Enter(c) ==
  /\ peers' = [peers EXCEPT ![UidOf[c]] = Registration(c)]
  /\ pc' = [pc EXCEPT ![c] = "recv"]
  /\ dest' = [dest EXCEPT ![c] = None]
  /\ UNCHANGED <<sock, msgs, sessions, rooms, roomId, callee, mine, snap, seen, known, server>>

Register(c) == pc[c] = "greet" /\ Sent(c) /\ Enter(c)

\* The reply did not suspend the handler: tested and registered in one go.
HelloAtOnce(c) == pc[c] = "hello" /\ sock[c] = "open" /\ UidFree(c) /\ Enter(c)

-----------------------------------------------------------------------------
(* connection_handler (l.121-210).  A buffered command is still received   *)
(* after the socket has closed; then recv or the keepalive ping raises.    *)

Receive(c) ==
  /\ pc[c] = "recv" /\ msgs[c] > 0
  /\ msgs' = [msgs EXCEPT ![c] = @ - 1]
  /\ UNCHANGED server

RecvClosedIfListed(c) ==                                 \* mutant
  /\ pc[c] = "recv" /\ sock[c] = "closed" /\ Registered(UidOf[c])
  /\ Quit(c)
  /\ UNCHANGED <<msgs, server>>

RecvClosed(c) ==
  /\ pc[c] = "recv" /\ sock[c] = "closed"
  /\ Quit(c)
  /\ UNCHANGED <<msgs, server>>

\* l.125 KeyError: someone else removed the entry.
RecvUnregistered(c) == Receive(c) /\ ~Registered(UidOf[c]) /\ Quit(c)

\* Too few words in a command: split() raises ValueError.  (Not in a session.)
RecvMalformed(c) ==
  /\ Receive(c) /\ Registered(UidOf[c]) /\ Status(c) # "session"
  /\ Quit(c)

\* l.129-134, when all three lookups succeed ...
Relay(c) ==
  LET other == sessions[UidOf[c]]
  IN  /\ Receive(c) /\ Status(c) = "session"
      /\ other # None /\ Registered(other) /\ peers[other].status = "session"
      /\ Await(c, "reply", peers[other].ws)
      /\ UNCHANGED <<sock, registry, roomId, callee, mine, snap, seen, known>>

\* ... and when one raises: KeyError, KeyError, AssertionError.
RelayLost(c) ==
  LET other == sessions[UidOf[c]]
  IN  /\ Receive(c) /\ Status(c) = "session"
      /\ \/ other = None
         \/ other # None /\ ~Registered(other)
         \/ other # None /\ peers[other].status # "session"
      /\ Quit(c)

\* ROOM_PEER_MSG v (l.138-151).
RoomMessage(c, v) ==
  /\ Receive(c) /\ Status(c) \in RoomIds
  /\ \/ ~Registered(v) /\ Reply(c)
     \/ Registered(v) /\ roomId[c] = None /\ Quit(c)  \* UnboundLocalError
     \/ Registered(v) /\ roomId[c] # None /\ peers[v].status # roomId[c] /\ Reply(c)
     \/ /\ Registered(v) /\ roomId[c] # None /\ peers[v].status = roomId[c]
        /\ Await(c, "reply", peers[v].ws)
        /\ UNCHANGED <<sock, registry, roomId, callee, mine, snap, seen, known>>

\* ROOM_PEER_LIST: `peer_id' (l.153) is no name of this function: NameError.
RoomPeerList(c) ==
  /\ Receive(c) /\ Status(c) \in RoomIds
  /\ Quit(c)

\* l.159: any other message in a room.  l.188: an invalid room name.
RecvInvalid(c) ==
  /\ Receive(c) /\ Registered(UidOf[c]) /\ Status(c) # "session"
  /\ Reply(c)

\* l.210: not a command at all.
RecvIgnored(c) ==
  /\ Receive(c) /\ Registered(UidOf[c]) /\ Status(c) = None
  /\ UNCHANGED <<sock, pc, registry, locals, known>>

\* SESSION v up to the await at l.173.  The caller's status is None here,
\* so the busy test of l.170 never succeeds.
SessionRequest(c, v) ==
  /\ Receive(c) /\ Registered(UidOf[c]) /\ Status(c) = None
  /\ \/ ~Registered(v) /\ Reply(c)
     \/ /\ Registered(v)
        /\ Await(c, "session_ok", c)
        /\ callee' = [callee EXCEPT ![c] = v]
        /\ UNCHANGED <<sock, registry, roomId, mine, snap, seen, known>>

\* ROOM r up to the await at l.198.
RoomRequest(c, r) ==
  /\ Receive(c) /\ Registered(UidOf[c]) /\ Status(c) = None
  /\ \/ UidOf[c] \in rooms[r] /\ Quit(c)              \* AssertionError
     \/ /\ UidOf[c] \notin rooms[r]
        /\ Await(c, "room_ok", c)
        /\ Tell(c, rooms[r])
        /\ roomId' = [roomId EXCEPT ![c] = r]
        /\ UNCHANGED <<sock, registry, callee, mine, snap, seen>>

-----------------------------------------------------------------------------
(* A send awaited by the main loop returns, or raises.                     *)

SendRefused(c) ==
  /\ pc[c] \in Sending /\ Refused(c)
  /\ Quit(c)
  /\ UNCHANGED <<msgs, server>>

Replied(c) ==
  /\ pc[c] = "reply" /\ Sent(c)
  /\ pc' = [pc EXCEPT ![c] = "recv"]
  /\ dest' = [dest EXCEPT ![c] = None]
  /\ UNCHANGED <<sock, msgs, registry, roomId, callee, mine, snap, seen, known, server>>

\* l.174-181.
SessionStart(c) ==
  LET u == UidOf[c]
      v == callee[c]
  IN  /\ pc[c] = "session_ok" /\ Sent(c)
      /\ UNCHANGED <<msgs, server>>
      /\ \/ ~(Registered(u) /\ Registered(v)) /\ Quit(c)   \* KeyError
         \/ /\ Registered(u) /\ Registered(v)
            /\ peers' = [peers EXCEPT ![u].status = "session", ![v].status = "session"]
            /\ sessions' = [sessions EXCEPT ![u] = v, ![v] = u]
            /\ pc' = [pc EXCEPT ![c] = "recv"]
            /\ dest' = [dest EXCEPT ![c] = None]
            /\ callee' = [callee EXCEPT ![c] = None]
            /\ UNCHANGED <<sock, rooms, roomId, mine, snap, seen, known>>

OnlyListed(c, members) == members \cap known[c]         \* mutant
Audience(c, members) == members

\* One round of the loop over the live set that announces c (l.202-208).
Announce(c, P, R, start, visited) ==
  LET members == R[roomId[c]]
      rest == Audience(c, members) \ (visited \cup {UidOf[c]})
  IN  \/ /\ Cardinality(members) # Cardinality(start)  \* RuntimeError
         /\ RemovePeer(c, P, R)
      \/ /\ Cardinality(members) = Cardinality(start)
         /\ rest \cap start = {}
         /\ peers' = P /\ rooms' = R
         /\ pc' = [pc EXCEPT ![c] = "recv"]
         /\ dest' = [dest EXCEPT ![c] = None]
         /\ snap' = [snap EXCEPT ![c] = {}]
         /\ seen' = [seen EXCEPT ![c] = {}]
         /\ UNCHANGED <<sock, sessions, roomId, callee, mine, known>>
      \/ /\ Cardinality(members) = Cardinality(start)
         /\ \E pid \in rest :
              \/ P[pid].ws = None /\ RemovePeer(c, P, R)   \* KeyError
              \/ /\ P[pid].ws # None
                 /\ peers' = P /\ rooms' = R
                 /\ Await(c, "joined", P[pid].ws)
                 /\ Tell(P[pid].ws, known[P[pid].ws] \cup {UidOf[c]})
                 /\ snap' = [snap EXCEPT ![c] = start]
                 /\ seen' = [seen EXCEPT ![c] = visited \cup {pid}]
                 /\ UNCHANGED <<sock, sessions, roomId, callee, mine>>

\* l.200-208 up to the first send.
RoomEnter(c) ==
  LET u == UidOf[c]
      r == roomId[c]
      P == [peers EXCEPT ![u].status = r]
      R == [rooms EXCEPT ![r] = @ \cup {u}]
  IN  /\ pc[c] = "room_ok" /\ Sent(c)
      /\ UNCHANGED <<msgs, server>>
      /\ \/ ~Registered(u) /\ Quit(c)                      \* KeyError
         \/ Registered(u) /\ Announce(c, P, R, R[r], {})

JoinTold(c) ==
  /\ pc[c] = "joined" /\ Sent(c)
  /\ Announce(c, peers, rooms, snap[c], seen[c])
  /\ UNCHANGED <<msgs, server>>

-----------------------------------------------------------------------------
Command(c) ==
  \/ RecvUnregistered(c) \/ RecvMalformed(c) \/ RecvInvalid(c) \/ RecvIgnored(c)
  \/ Relay(c) \/ RelayLost(c) \/ RoomPeerList(c)
  \/ \E v \in Uids : RoomMessage(c, v)
  \/ \E v \in Callees[c] : SessionRequest(c, v)
  \/ \E r \in Joins[c] : RoomRequest(c, r)

\* What a handler does without its client.
Resume(c) ==
  \/ GreetRefused(c) \/ Register(c) \/ RecvClosed(c)
  \/ SendRefused(c) \/ Replied(c) \/ SessionStart(c) \/ RoomEnter(c) \/ JoinTold(c)
  \/ PartnerClosed(c) \/ LeftTold(c) \/ LeftRefused(c)

Handler(c) == HelloAccepted(c) \/ HelloAtOnce(c) \/ HelloRejected(c) \/ Command(c) \/ Resume(c)

Next ==
  \/ \E c \in Conns : Connect(c) \/ Disconnect(c) \/ Handler(c)
  \/ Stop \/ Restart

Spec == Init /\ [][Next]_vars

\* The send that c awaits is to d, which stays connected: it completes when d
\* reads, and has no timeout (l.101, l.134, l.208).
WaitsFor(c, d) ==
  pc[c] \in Sending \cup {"greet", "left"} /\ dest[c] = d /\ sock[d] = "open"
Waits(c) == \E d \in Conns : WaitsFor(c, d)

\* A handler whose awaited call has completed is run again by the event loop.
\* A send to an open connection need never complete; one to a connection that
\* has closed raises, and the wait of l.90 for a connection to close is bounded.
Fairness ==
  \A c \in Conns :
    /\ WF_vars(~Waits(c) /\ Resume(c))
    /\ WF_vars(sock[c] = "closed" /\ HelloRejected(c))

FairSpec == Spec /\ Fairness
-----------------------------------------------------------------------------
(* Properties.                                                             *)

\* A connection that is open and served by its handler is the one its uid is
\* registered with: remove_peer never unregisters a peer without closing the
\* connection it unregisters (l.88-90, l.109-110).
NoZombie ==
  \A c \in Conns :
    pc[c] \in Serving /\ sock[c] = "open" => peers[UidOf[c]].ws = c

\* No uid stays registered with a connection whose handler has ended, which
\* would refuse that uid for ever (l.222); Protocol.md:41 "You may reconnect
\* again whenever you wish."
NoGhost == \A u \in Uids : Registered(u) => pc[peers[u].ws] # "done"

\* The lookup self.sessions[uid] of l.130 succeeds: whoever removes a session
\* entry also unregisters its uid before the next await.
SessionLookup ==
  \A c \in Conns :
    pc[c] \in Serving /\ peers[UidOf[c]].ws = c /\ Status(c) = "session"
      => sessions[UidOf[c]] # None

\* simple_server.py:30-32 "Bidirectional mapping between the two peers".
Bidirectional == \A u, v \in Uids : sessions[u] = v => sessions[v] = u

\* The one a client is in a call with is still served: Protocol.md:40 "Closure
\* of the server connection means the call has ended; either because the other
\* peer ended it or went away".
LivePartner ==
  \A c \in Conns :
    LET v == sessions[UidOf[c]]
    IN  pc[c] \in Serving /\ sock[c] = "open" /\ v # None
          => \E d \in Conns : UidOf[d] = v /\ pc[d] \in Serving

\* Protocol.md:40 from the other side: no step takes a call away (l.76-90)
\* without taking both its entries, and neither of the two users is left with
\* an open connection that is served, which would believe in the call.
CallEndsForBoth ==
  [][\A u \in Uids :
       LET v == sessions[u]
       IN  v # None /\ sessions'[u] # v =>
             /\ sessions'[v] = None
             /\ \A c \in Conns :
                  UidOf[c] \in {u, v} /\ pc'[c] \in Serving => sock'[c] # "open"]_vars

\* The members of a room are registered and have that room as their status, so
\* the lookups self.peers[pid] of l.98 and l.205 succeed.
MembersListed ==
  \A r \in RoomIds, u \in Uids :
    u \in rooms[r] => Registered(u) /\ peers[u].status = r

Settled(c, r) == pc[c] = "recv" /\ sock[c] = "open" /\ UidOf[c] \in rooms[r]

\* Of two members of a room whose handlers are idle at least one was told of
\* the other, by ROOM_OK or by ROOM_PEER_JOINED: no pair is missed altogether.
\* It does not follow that one of them offers, which only the one does that has
\* the other in its ROOM_OK (Protocol.md:49): of two that enter at once, neither.
OneKnowsOther ==
  \A r \in RoomIds, c, d \in Conns :
    c # d /\ Settled(c, r) /\ Settled(d, r)
      => UidOf[d] \in known[c] \/ UidOf[c] \in known[d]

\* Protocol.md:54 "you are guaranteed to receive JOINED and LEFT messages for
\* all peers in a room": both know of each other.
BothKnow ==
  \A r \in RoomIds, c, d \in Conns :
    c # d /\ Settled(c, r) /\ Settled(d, r) => UidOf[d] \in known[c]

\* When the server listens again after a restart (l.338-341) it remembers no
\* peer and no call of the connections it closed.
CleanRestart ==
  [][Restart => \A u \in Uids : ~Registered(u) /\ sessions[u] = None]_vars

\* remove_peer terminates whatever the other handlers do meanwhile: the handler
\* of a closed connection ends, unless it waits for ever for one other peer that
\* stays connected and does not read.  Handlers never wait for each other, and
\* the departure of the peer that is waited for ends the wait.
HandlersEnd ==
  \A c \in Conns :
    sock[c] = "closed" ~> pc[c] = "done" \/ \E d \in Conns \ {c} : []WaitsFor(c, d)

-----------------------------------------------------------------------------
\* What the registry promises (PeerRegistry): a uid designates one open
\* connection until that connection is closed.
Registry == INSTANCE PeerRegistry WITH holder <- [u \in Uids |-> peers[u].ws]
RegistrySpec == Registry!Spec
=============================================================================
