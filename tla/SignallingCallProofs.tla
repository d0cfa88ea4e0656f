------------------------ MODULE SignallingCallProofs ------------------------
(* Proofs about the calls of SignallingServer: the map of sessions.        *)
EXTENDS SignallingServerProofs

\* The users make up couples: b[u] is the only one that u ever calls, and u
\* the only one that b[u] does.
Couples(b) ==
  /\ b \in [Uids -> Uids]
  /\ \A u \in Uids : b[b[u]] = u
  /\ \A c \in Conns : Callees[c] \subseteq {b[UidOf[c]]}

-----------------------------------------------------------------------------
\* The three kinds of step of a handler, as seen from sessions.

SessionsKept(c) ==
  /\ sessions' = sessions
  /\ pc[c] \in Serving => pc'[c] \in Serving
  /\ pc'[c] = "session_ok" => callee'[c] \in Callees[c]

SessionEnds(c) ==
  /\ pc[c] \in Serving
  /\ sessions' = Forget(UidOf[c], sessions[UidOf[c]])
  /\ pc'[c] \in Leaving \cup {"done"}
  /\ pc'[c] = "closing" =>
       /\ sessions[UidOf[c]] \in Uids \ {UidOf[c]}
       /\ peers'[sessions[UidOf[c]]].ws = None

SessionBegins(c) ==
  /\ pc[c] = "session_ok" /\ pc'[c] = "recv"
  /\ Registered(UidOf[c]) /\ Registered(callee[c])
  /\ sessions' = [sessions EXCEPT ![UidOf[c]] = callee[c], ![callee[c]] = UidOf[c]]

LEMMA RemovePeerEnds ==
  ASSUME HandlerOK, sessions \in [Uids -> Uids \cup {None}],
         NEW c \in Conns, pc[c] \in Serving,
         NEW P \in Entries, NEW R \in RoomSets, RemovePeer(c, P, R)
  PROVE  SessionEnds(c)
<1>1. sessions' = Forget(UidOf[c], sessions[UidOf[c]])
  BY DEF RemovePeer
<1>2. PeerGone(c, P)
  BY RemovePeerEffect
<1>3. /\ pc'[c] \in Leaving \cup {"done"}
      /\ pc'[c] = "closing" =>
           /\ sessions[UidOf[c]] \in Uids \ {UidOf[c]}
           /\ peers' = Unlist(P, sessions[UidOf[c]])
  BY <1>2 DEF PeerGone, EntryGone, Leaving
<1> QED BY <1>1, <1>3 DEF SessionEnds, Unlist, NoPeer, Entries

LEMMA QuitEnds ==
  ASSUME TypeInv, NEW c \in Conns, pc[c] \in Serving, Quit(c)
  PROVE  SessionEnds(c)
BY TypeParts, RemovePeerEnds DEF TypeInv, HandlerOK, Quit

LEMMA CommandSessions ==
  ASSUME TypeInv, NEW c \in Conns, Command(c)
  PROVE  SessionsKept(c) \/ SessionEnds(c)
<1>t. HandlerOK /\ {"recv", "reply", "session_ok", "room_ok"} \subseteq Serving
  BY TypeParts DEF TypeInv, Serving, Sending
<1>q. ASSUME Receive(c), Quit(c) PROVE SessionEnds(c)
  BY <1>t, <1>q, QuitEnds DEF Receive
<1>w. ASSUME NEW d, Await(c, "reply", d), UNCHANGED registry PROVE SessionsKept(c)
  BY <1>t, <1>w, AwaitEffect DEF SessionsKept, registry
<1>p. ASSUME Reply(c) PROVE SessionsKept(c)
  BY <1>p, <1>w DEF Reply
<1>1. CASE RecvUnregistered(c) \/ RecvMalformed(c) \/ RelayLost(c) \/ RoomPeerList(c)
  BY <1>1, <1>q DEF RecvUnregistered, RecvMalformed, RelayLost, RoomPeerList
<1>2. CASE RecvInvalid(c)
  BY <1>2, <1>p DEF RecvInvalid
<1>3. CASE RecvIgnored(c)
  BY <1>t, <1>3 DEF RecvIgnored, Receive, SessionsKept, registry, Serving, Sending
<1>4. CASE Relay(c)
  BY <1>4, <1>w DEF Relay
<1>5. ASSUME NEW v \in Uids, RoomMessage(c, v)
      PROVE  SessionsKept(c) \/ SessionEnds(c)
  BY <1>5, <1>p, <1>q, <1>w DEF RoomMessage
<1>6. ASSUME NEW v \in Callees[c], SessionRequest(c, v)
      PROVE  SessionsKept(c)
  <2>1. ASSUME Await(c, "session_ok", c), callee' = [callee EXCEPT ![c] = v],
               UNCHANGED registry
        PROVE  SessionsKept(c)
    BY <1>t, <2>1, AwaitEffect DEF SessionsKept, registry, HandlerOK
  <2> QED BY <1>6, <1>p, <2>1 DEF SessionRequest
<1>7. ASSUME NEW r \in Joins[c], RoomRequest(c, r)
      PROVE  SessionsKept(c) \/ SessionEnds(c)
  <2>1. ASSUME Await(c, "room_ok", c), UNCHANGED registry PROVE SessionsKept(c)
    BY <1>t, <2>1, AwaitEffect DEF SessionsKept, registry
  <2> QED BY <1>7, <1>q, <2>1 DEF RoomRequest
<1> QED BY <1>1, <1>2, <1>3, <1>4, <1>5, <1>6, <1>7 DEF Command

LEMMA AnnounceSessions ==
  ASSUME HandlerOK, sessions \in [Uids -> Uids \cup {None}],
         NEW c \in Conns, pc[c] \in Serving, NEW P \in Entries, NEW R \in RoomSets,
         NEW start, NEW visited, Announce(c, P, R, start, visited)
  PROVE  SessionsKept(c) \/ SessionEnds(c)
<1>1. CASE RemovePeer(c, P, R)
  BY <1>1, RemovePeerEnds
<1>2. CASE pc' = [pc EXCEPT ![c] = "recv"] /\ sessions' = sessions
  BY <1>2 DEF SessionsKept, HandlerOK, Serving
<1>3. CASE sessions' = sessions /\ \E d : Await(c, "joined", d)
  BY <1>3, AwaitEffect DEF SessionsKept, Serving, Sending
<1> QED BY <1>1, <1>2, <1>3 DEF Announce

LEMMA ResumeSessions ==
  ASSUME TypeInv, NEW c \in Conns, Resume(c)
  PROVE  SessionsKept(c) \/ SessionEnds(c) \/ SessionBegins(c)
<1>t. /\ HandlerOK /\ sessions \in [Uids -> Uids \cup {None}]
      /\ UidOf[c] \in Uids /\ Sending \subseteq Serving
      /\ "session_ok" \in Sending /\ "room_ok" \in Sending /\ "joined" \in Sending
      /\ "recv" \in Serving /\ "greet" \notin Serving
      /\ "closing" \notin Serving /\ "left" \notin Serving
  BY TypeParts, ConstantsAssumption DEF TypeInv, Serving, Sending
<1>1. CASE GreetRefused(c) \/ Register(c)
  BY <1>t, <1>1, PreludeStep
     DEF GreetRefused, Register, Enters, Preludes, SessionsKept
<1>2. CASE RecvClosed(c) \/ SendRefused(c)
  BY <1>t, <1>2, QuitEnds DEF RecvClosed, SendRefused
<1>3. CASE Replied(c)
  BY <1>t, <1>3 DEF Replied, SessionsKept, registry, HandlerOK
<1>4. CASE SessionStart(c)
  <2>1. CASE Quit(c)
    BY <1>t, <1>4, <2>1, QuitEnds DEF SessionStart
  <2>2. CASE ~Quit(c)
    BY <1>t, <1>4, <2>2 DEF SessionStart, SessionBegins, HandlerOK
  <2> QED BY <2>1, <2>2
<1>5. CASE RoomEnter(c)
  <2> DEFINE u == UidOf[c]
             r == roomId[c]
             P == [peers EXCEPT ![u].status = r]
             R == [rooms EXCEPT ![r] = @ \cup {u}]
  <2>1. r \in RoomIds /\ pc[c] \in Serving
    BY <1>t, <1>5 DEF RoomEnter, RoomIdSet, TypeInv
  <2>2. P \in Entries /\ R \in RoomSets
    BY <1>t, <2>1 DEF HandlerOK, Entries, RoomSets, Statuses
  <2>3. CASE Quit(c)
    BY <2>1, <2>3, QuitEnds
  <2>4. CASE Announce(c, P, R, R[r], {})
    BY <1>t, <2>1, <2>2, <2>4, AnnounceSessions
  <2> QED BY <1>5, <2>3, <2>4 DEF RoomEnter
<1>6. CASE JoinTold(c)
  <2>1. pc[c] \in Serving /\ Announce(c, peers, rooms, snap[c], seen[c])
    BY <1>t, <1>6 DEF JoinTold
  <2>2. peers \in Entries /\ rooms \in RoomSets
    BY <1>t DEF HandlerOK
  <2> QED BY <1>t, <2>1, <2>2, AnnounceSessions
<1>7. CASE PartnerClosed(c) \/ LeftTold(c) \/ LeftRefused(c)
  <2>1. /\ pc[c] \notin Serving /\ sessions' = sessions
        /\ pc'[c] # "session_ok"
    <3>1. CASE PartnerClosed(c)
      BY <1>t, <3>1, RemoveEntryEffect DEF PartnerClosed, EntryGone, HandlerOK
    <3>2. CASE LeftTold(c)
      BY <1>t, <3>2, FarewellEffect DEF LeftTold, HandlerOK
    <3>3. CASE LeftRefused(c)
      BY <1>t, <3>3, FinishEffect DEF LeftRefused, Abandon
    <3> QED BY <1>7, <3>1, <3>2, <3>3
  <2> QED BY <2>1 DEF SessionsKept
<1> QED BY <1>1, <1>2, <1>3, <1>4, <1>5, <1>6, <1>7 DEF Resume

LEMMA HandlerSessions ==
  ASSUME TypeInv, NEW c \in Conns, Handler(c)
  PROVE  SessionsKept(c) \/ SessionEnds(c) \/ SessionBegins(c)
<1>1. CASE HelloAccepted(c) \/ HelloAtOnce(c) \/ HelloRejected(c)
  BY <1>1, PreludeStep
     DEF HelloAccepted, HelloAtOnce, HelloRejected, Enters, Preludes, SessionsKept,
         Serving, Sending
<1> QED BY <1>1, CommandSessions, ResumeSessions DEF Handler
-----------------------------------------------------------------------------
\* Bidirectional.  While everybody calls the same partner only, the two
\* entries of a call are made and deleted together, whoever shares a uid and
\* whichever rooms there are.

\* The local callee_id is one that the client may name.
Dialled == \A c \in Conns : pc[c] = "session_ok" => callee[c] \in Callees[c]

Coupled(b) ==
  \A u \in Uids : sessions[u] # None => sessions[u] = b[u] /\ sessions[b[u]] = u

LEMMA DialledStep ==
  ASSUME BaseInv, Dialled, [Next]_vars
  PROVE  Dialled'
<1>t. TypeInv /\ HandlerOK
  BY TypeParts DEF BaseInv, TypeInv
<1>1. ASSUME NEW c \in Conns, Handler(c) PROVE Dialled'
  <2>1. Frame(c)
    BY <1>t, <1>1, HandlerStep
       DEF Enters, Preludes, Serves, Raises, Leaves, PeerGone, EntryGone
  <2>2. pc'[c] = "session_ok" => callee'[c] \in Callees[c]
    BY <1>t, <1>1, HandlerSessions DEF SessionsKept, SessionEnds, SessionBegins, Leaving
  <2> QED BY <2>1, <2>2 DEF Dialled, Frame
<1>2. CASE ~ \E c \in Conns : Handler(c)
  <2>1. callee' = callee
    BY <1>2 DEF Next, Connect, Disconnect, Stop, Restart, vars, locals
  <2>2. \A c \in Conns : pc'[c] = "session_ok" => pc[c] = "session_ok"
    BY <1>t, <1>2, OutsideStep DEF Outside, HandlerOK
  <2> QED BY <2>1, <2>2 DEF Dialled
<1> QED BY <1>1, <1>2

LEMMA CoupledStep ==
  ASSUME NEW b, Couples(b), BaseInv, Dialled, Coupled(b), [Next]_vars
  PROVE  Coupled(b)'
<1>t. /\ TypeInv /\ HandlerOK /\ sessions \in [Uids -> Uids \cup {None}]
      /\ None \notin Uids /\ b \in [Uids -> Uids] /\ \A u \in Uids : b[b[u]] = u
  BY TypeParts, ConstantsAssumption DEF BaseInv, TypeInv, Couples
<1>1. ASSUME sessions' = sessions PROVE Coupled(b)'
  BY <1>1 DEF Coupled
<1>2. ASSUME NEW c \in Conns, Handler(c) PROVE Coupled(b)'
  <2> DEFINE u == UidOf[c]
  <2>0. u \in Uids
    BY ConstantsAssumption
  <2>1. CASE SessionEnds(c)
    <3>1. sessions' = [v \in Uids |-> IF v \in {u, sessions[u]} THEN None ELSE sessions[v]]
      BY <2>1 DEF SessionEnds, Forget
    <3> SUFFICES ASSUME NEW v \in Uids, sessions'[v] # None
                 PROVE  sessions'[v] = b[v] /\ sessions'[b[v]] = v
      BY DEF Coupled
    <3>2. v \notin {u, sessions[u]} /\ sessions'[v] = sessions[v]
      BY <3>1
    <3>3. sessions[v] = b[v] /\ sessions[b[v]] = v /\ b[v] \in Uids
      BY <1>t, <3>2 DEF Coupled
    <3>4. b[v] # u /\ b[v] # sessions[u]
      <4>1. CASE sessions[u] = None
        BY <1>t, <3>2, <3>3, <4>1
      <4>2. CASE sessions[u] # None
        <5>1. sessions[u] = b[u] /\ sessions[b[u]] = u
          BY <2>0, <4>2 DEF Coupled
        <5> QED BY <1>t, <2>0, <3>2, <3>3, <5>1
      <4> QED BY <4>1, <4>2
    <3> QED BY <3>1, <3>2, <3>3, <3>4
  <2>2. CASE SessionBegins(c)
    <3> DEFINE w == b[u]
    <3>1. callee[c] = w /\ w \in Uids /\ b[w] = u
      BY <1>t, <2>0, <2>2 DEF SessionBegins, Dialled, Couples
    <3>2. sessions' = [sessions EXCEPT ![u] = w, ![w] = u]
      BY <2>2, <3>1 DEF SessionBegins
    <3>3. sessions'[u] = w /\ sessions'[w] = u
      BY <1>t, <2>0, <3>1, <3>2
    <3> SUFFICES ASSUME NEW v \in Uids \ {u, w}, sessions'[v] # None
                 PROVE  sessions'[v] = b[v] /\ sessions'[b[v]] = v
      BY <3>1, <3>3 DEF Coupled
    <3>4. sessions'[v] = sessions[v]
      BY <1>t, <3>2
    <3>5. sessions[v] = b[v] /\ sessions[b[v]] = v /\ b[v] \in Uids
      BY <1>t, <3>4 DEF Coupled
    <3>6. b[v] \notin {u, w}
      BY <1>t, <2>0, <3>1
    <3> QED BY <1>t, <3>2, <3>4, <3>5, <3>6
  <2> QED BY <1>t, <1>1, <1>2, <2>1, <2>2, HandlerSessions DEF SessionsKept
<1>3. CASE ~ \E c \in Conns : Handler(c)
  BY <1>t, <1>1, <1>3, OutsideStep DEF Outside
<1> QED BY <1>2, <1>3

LEMMA CoupledInvariant ==
  ASSUME NEW b, Couples(b)
  PROVE  Spec => [](BaseInv /\ Dialled /\ Coupled(b))
<1>1. Init => Dialled /\ Coupled(b)
  BY DEF Init, Dialled, Coupled
<1>2. BaseInv /\ Dialled /\ Coupled(b) /\ [Next]_vars => Dialled' /\ Coupled(b)'
  BY DialledStep, CoupledStep
<1> QED BY <1>1, <1>2, BaseInvInvariant, PTL DEF Spec

\* The map of simple_server.py:30-32 is "bidirectional" as long as no user is
\* called by a third one.
THEOREM BidirectionalHolds ==
  ASSUME NEW b, Couples(b)
  PROVE  Spec => []Bidirectional
<1>1. BaseInv /\ Coupled(b) => Bidirectional
  BY ConstantsAssumption DEF Coupled, Bidirectional
<1> QED BY <1>1, CoupledInvariant, PTL

-----------------------------------------------------------------------------
\* LivePartner and CleanRestart, without rooms and with one connection for
\* each user.

\* Who is in a call is served ...
Attended ==
  \A u \in Uids : sessions[u] # None => \E d \in Conns : UidOf[d] = u /\ pc[d] \in Serving

\* ... and one whose partner hangs up is unregistered and cannot come back, so
\* that a call that is about to begin does not find the handler of the partner
\* in remove_peer (l.90) with its uid still registered.
HungUp(b) ==
  \A c \in Conns : pc[c] = "closing" =>
    /\ ~Registered(b[UidOf[c]])
    /\ \A d \in Conns : UidOf[d] = b[UidOf[c]] => pc[d] \notin {"new", "hello", "greet"}

CallInv(b) == BaseInv /\ Owners /\ Dialled /\ Coupled(b) /\ Attended /\ HungUp(b)

\* A handler is on its way in only before it serves.
LEMMA Forward ==
  ASSUME TypeInv, NEW c \in Conns, Handler(c)
  PROVE  /\ Frame(c)
         /\ pc'[c] \in {"new", "hello", "greet"} => pc[c] \in {"new", "hello", "greet"}
         /\ pc'[c] = "closing" => pc[c] \in Serving
BY HandlerStep DEF Enters, Preludes, Serves, Raises, Leaves, PeerGone, EntryGone,
                   Serving, Sending

LEMMA AttendedStep ==
  ASSUME NEW b, Couples(b), CallsOnly, CallInv(b), [Next]_vars
  PROVE  Attended'
<1>t. /\ TypeInv /\ HandlerOK /\ sessions \in [Uids -> Uids \cup {None}]
      /\ None \notin Uids /\ None \notin Conns
  BY TypeParts, ConstantsAssumption DEF CallInv, BaseInv, TypeInv
<1>1. CASE ~ \E c \in Conns : Handler(c)
  BY <1>t, <1>1, OutsideStep
     DEF Outside, CallInv, Attended, BaseInv, Started, HandlerOK, Serving, Sending
<1>2. ASSUME NEW c \in Conns, Handler(c) PROVE Attended'
  <2> SUFFICES ASSUME NEW u \in Uids, sessions'[u] # None
               PROVE  \E d \in Conns : UidOf[d] = u /\ pc'[d] \in Serving
    BY DEF Attended
  <2>0. Frame(c) /\ UidOf[c] \in Uids
    BY <1>t, <1>2, Forward, ConstantsAssumption
  <2>1. ASSUME sessions[u] # None, u # UidOf[c] \/ (pc[c] \in Serving => pc'[c] \in Serving)
        PROVE  \E d \in Conns : UidOf[d] = u /\ pc'[d] \in Serving
    BY <2>0, <2>1 DEF CallInv, Attended, Frame
  <2>2. CASE SessionsKept(c)
    BY <2>1, <2>2 DEF SessionsKept
  <2>3. CASE SessionEnds(c)
    BY <2>1, <2>3 DEF SessionEnds, Forget
  <2>4. CASE SessionBegins(c)
    <3> DEFINE v == callee[c]
    <3>1. v = b[UidOf[c]] /\ v \in Uids /\ b[v] = UidOf[c]
      BY <2>0, <2>4 DEF SessionBegins, CallInv, Dialled, Couples
    <3>2. pc'[c] \in Serving
      BY <2>4 DEF SessionBegins, Serving
    <3>3. CASE u \notin {UidOf[c], v}
      <4>1. sessions'[u] = sessions[u]
        BY <1>t, <2>4, <3>3 DEF SessionBegins
      <4> QED BY <2>1, <3>2, <4>1
    <3>4. CASE u = UidOf[c]
      BY <3>2, <3>4
    <3>5. CASE u = v
      <4> DEFINE d == peers[v].ws
      <4>1. /\ Registered(v) /\ Registered(UidOf[c])
            /\ d \in Conns /\ UidOf[d] = v /\ pc[d] \in Serving \cup Leaving
        BY <1>t, <2>4, <3>1
           DEF SessionBegins, CallInv, BaseInv, Listed, Owners, Registered, HandlerOK, Entries
      <4>2. pc[d] # "closing"
        BY <3>1, <4>1 DEF CallInv, HungUp
      <4>3. pc[d] # "left"
        BY <4>1 DEF CallInv, BaseInv, RoomFree
      <4>4. pc'[d] \in Serving
        BY <2>0, <3>2, <4>1, <4>2, <4>3 DEF Leaving, Frame
      <4> QED BY <3>5, <4>1, <4>4
    <3> QED BY <3>3, <3>4, <3>5
  <2> QED BY <1>t, <1>2, <2>2, <2>3, <2>4, HandlerSessions
<1> QED BY <1>1, <1>2

LEMMA HungUpStep ==
  ASSUME NEW b, Couples(b), OneConnectionEach, CallInv(b), [Next]_vars
  PROVE  HungUp(b)'
<1>t. /\ TypeInv /\ HandlerOK /\ b \in [Uids -> Uids]
      /\ None \notin Uids /\ None \notin Conns
  BY TypeParts, ConstantsAssumption DEF CallInv, BaseInv, TypeInv, Couples
<1>1. CASE ~ \E c \in Conns : Handler(c)
  BY <1>t, <1>1, OutsideStep
     DEF Outside, CallInv, HungUp, Registered, BaseInv, Started, HandlerOK
<1>2. ASSUME NEW c \in Conns, Handler(c) PROVE HungUp(b)'
  <2> SUFFICES ASSUME NEW e \in Conns, pc'[e] = "closing"
               PROVE  /\ peers'[b[UidOf[e]]].ws = None
                      /\ \A d \in Conns : UidOf[d] = b[UidOf[e]] =>
                           pc'[d] \notin {"new", "hello", "greet"}
    BY DEF HungUp, Registered
  <2> DEFINE v == b[UidOf[e]]
  <2>0. /\ UidOf[c] \in Uids /\ UidOf[e] \in Uids /\ v \in Uids
        /\ Frame(c)
        /\ pc'[c] \in {"new", "hello", "greet"} => pc[c] \in {"new", "hello", "greet"}
    BY <1>t, <1>2, Forward, ConstantsAssumption
  <2>1. CASE e # c
    <3>1. /\ peers[v].ws = None
          /\ \A d \in Conns : UidOf[d] = v => pc[d] \notin {"new", "hello", "greet"}
      BY <2>0, <2>1 DEF Frame, CallInv, HungUp, Registered
    <3>2. CASE Enters(c)
      <4>1. UidOf[c] # v
        BY <3>1, <3>2 DEF Enters
      <4> QED BY <1>t, <2>0, <3>1, <3>2, <4>1 DEF Enters, Frame, HandlerOK, Entries
    <3>3. CASE SameWs(peers')
      BY <2>0, <3>1, <3>3 DEF SameWs, Frame
    <3>4. CASE \E w \in Uids : /\ peers'[w].ws = None
                               /\ \A u \in Uids \ {w} : peers'[u].ws = peers[u].ws
      BY <2>0, <3>1, <3>4 DEF Frame
    <3> QED BY <1>t, <1>2, <3>2, <3>3, <3>4, WsStep
  <2>2. CASE e = c
    <3>1. pc[c] \in Serving
      BY <1>t, <1>2, <2>2, Forward
    <3>2. SessionEnds(c)
      BY <1>t, <1>2, <2>2, <3>1, HandlerSessions
         DEF SessionsKept, SessionBegins, Serving, Sending
    <3>3. sessions[UidOf[c]] = v /\ v # UidOf[c] /\ peers'[v].ws = None
      BY <1>t, <2>0, <2>2, <3>2 DEF SessionEnds, CallInv, Coupled
    <3>4. PICK d \in Conns : UidOf[d] = v /\ pc[d] \in Serving
      <4>1. sessions[v] = UidOf[c] /\ sessions[v] # None
        BY <1>t, <2>0, <2>2, <3>3 DEF CallInv, Coupled
      <4> QED BY <2>0, <4>1 DEF CallInv, Attended
    <3>5. d # c /\ pc'[d] \in Serving
      BY <2>0, <3>3, <3>4 DEF Frame
    <3>6. \A x \in Conns : UidOf[x] = v => x = d
      BY <3>4 DEF OneConnectionEach
    <3> QED BY <2>2, <3>3, <3>5, <3>6 DEF Serving, Sending
  <2> QED BY <2>1, <2>2
<1> QED BY <1>1, <1>2

LEMMA CallInvariant ==
  ASSUME NEW b, Couples(b), CallsOnly, OneConnectionEach
  PROVE  Spec => []CallInv(b)
<1>1. Init => Owners /\ Attended /\ HungUp(b)
  BY DEF Init, Owners, Registered, NoPeer, Attended, HungUp
<1>2. CallInv(b) /\ [Next]_vars => Owners' /\ Attended' /\ HungUp(b)'
  BY OwnersStep, AttendedStep, HungUpStep DEF CallInv
<1> QED BY <1>1, <1>2, CoupledInvariant, PTL DEF Spec, CallInv

\* The call of a connected client ends only when the server closes its
\* connection: until then somebody is served under the uid of its partner.
THEOREM LivePartnerHolds ==
  ASSUME NEW b, Couples(b), CallsOnly, OneConnectionEach
  PROVE  Spec => []LivePartner
<1>1. CallInv(b) => LivePartner
  <2> SUFFICES ASSUME CallInv(b), NEW c \in Conns, sessions[UidOf[c]] # None
               PROVE  \E d \in Conns : UidOf[d] = sessions[UidOf[c]] /\ pc[d] \in Serving
    BY DEF LivePartner
  <2>1. UidOf[c] \in Uids /\ b[UidOf[c]] \in Uids /\ None \notin Uids
    BY ConstantsAssumption DEF Couples
  <2>2. /\ sessions[UidOf[c]] = b[UidOf[c]]
        /\ sessions[b[UidOf[c]]] = UidOf[c]
    BY <2>1 DEF CallInv, Coupled
  <2> QED BY <2>1, <2>2 DEF CallInv, Attended
<1> QED BY <1>1, CallInvariant, PTL

\* wait_closed() waits for the handlers, and they have undone what they did.
THEOREM CleanRestartHolds ==
  ASSUME NEW b, Couples(b), CallsOnly, OneConnectionEach
  PROVE  Spec => CleanRestart
<1>1. CallInv(b) /\ [Next]_vars
        => [Restart => \A u \in Uids : ~Registered(u) /\ sessions[u] = None]_vars
  <2> SUFFICES ASSUME CallInv(b), Restart, NEW u \in Uids
               PROVE  ~Registered(u) /\ sessions[u] = None
    OBVIOUS
  <2>1. HandlerOK /\ \A c \in Conns : pc[c] \notin Serving \cup Leaving
    BY TypeParts DEF CallInv, BaseInv, TypeInv, Restart, Serving, Sending, Leaving
  <2>2. ~Registered(u)
    BY <2>1 DEF CallInv, Owners, Registered, HandlerOK, Entries
  <2>3. sessions[u] = None
    BY <2>1 DEF CallInv, Attended
  <2> QED BY <2>2, <2>3
<1> QED BY <1>1, CallInvariant, PTL DEF Spec, CleanRestart

-----------------------------------------------------------------------------
\* CallEndsForBoth, with one connection for each user; there may be rooms.

\* A handler that ends a call unregisters the partner in the same step.
LEMMA EndsSessionGone ==
  ASSUME TypeInv, NEW c \in Conns, Handler(c), sessions' # sessions, ~SessionBegins(c)
  PROVE  SessionEnds(c) /\ SessionGone(c)
<1>1. SessionEnds(c)
  BY HandlerSessions DEF SessionsKept
<1>2. pc[c] \in Serving /\ pc'[c] \notin Serving
  BY <1>1 DEF SessionEnds, Leaving, Serving, Sending
<1>3. ~Enters(c) /\ ~Preludes(c) /\ ~Leaves(c)
  BY <1>2 DEF Enters, Preludes, Leaves, Serving, Sending
<1>4. ~Serves(c)
  BY <1>2 DEF Serves
<1>5. Raises(c)
  BY <1>3, <1>4, HandlerStep
<1> QED BY <1>1, <1>5 DEF Raises

LEMMA CallEndsStep ==
  ASSUME NEW b, Couples(b), OneConnectionEach,
         BaseInv, Dialled, Coupled(b), NoZombie, [Next]_vars,
         NEW u \in Uids, sessions[u] # None, sessions'[u] # sessions[u]
  PROVE  /\ sessions'[sessions[u]] = None
         /\ \A d \in Conns :
              UidOf[d] \in {u, sessions[u]} /\ pc'[d] \in Serving => sock'[d] # "open"
<1>t. /\ TypeInv /\ sessions \in [Uids -> Uids \cup {None}]
      /\ None \notin Uids /\ None \notin Conns
      /\ b \in [Uids -> Uids] /\ \A x \in Uids : b[b[x]] = x
  BY TypeParts, ConstantsAssumption DEF BaseInv, TypeInv, Couples
<1>1. PICK c \in Conns : Handler(c)
  BY <1>t, OutsideStep DEF Outside
<1> DEFINE w == UidOf[c]
<1>2. w \in Uids /\ \A x \in Uids : sessions[x] # None => sessions[x] = b[x] /\ sessions[b[x]] = x
  BY ConstantsAssumption DEF Coupled
<1>3. ~SessionBegins(c)
  <2> SUFFICES ASSUME SessionBegins(c) PROVE FALSE
    OBVIOUS
  <2>1. callee[c] = b[w] /\ sessions' = [sessions EXCEPT ![w] = b[w], ![b[w]] = w]
    BY DEF SessionBegins, Dialled, Couples
  <2>2. u \in {w, b[w]} /\ sessions[u] = b[u]
    BY <1>t, <1>2, <2>1
  <2>3. sessions'[u] = b[u]
    BY <1>t, <1>2, <2>1, <2>2
  <2> QED BY <2>2, <2>3
<1>4. SessionEnds(c) /\ SessionGone(c)
  BY <1>t, <1>1, <1>3, EndsSessionGone
<1>5. u \in {w, sessions[w]} /\ sessions' = Forget(w, sessions[w])
  BY <1>4 DEF SessionEnds, Forget
<1>6. sessions[w] = b[w] /\ sessions[b[w]] = w /\ {u, sessions[u]} = {w, b[w]}
  BY <1>t, <1>2, <1>5
<1>7. sessions'[w] = None /\ sessions'[b[w]] = None
  BY <1>t, <1>2, <1>5, <1>6 DEF Forget
<1>8. ASSUME NEW d \in Conns, UidOf[d] \in {w, b[w]}, pc'[d] \in Serving, sock'[d] = "open"
      PROVE  FALSE
  <2>1. d # c
    BY <1>4, <1>8 DEF SessionEnds, Leaving, Serving, Sending
  <2>2. UidOf[d] = b[w] /\ UidOf[d] # w
    BY <1>8, <2>1 DEF OneConnectionEach
  <2>3. peers'[b[w]].ws = None
    BY <1>t, <1>2, <1>4, <1>6, <1>7, <2>2 DEF SessionGone
  <2>4. peers'[b[w]].ws = d
    BY <1>8, <2>2, NoZombieStep DEF Exclusive, NoZombie
  <2> QED BY <1>t, <2>3, <2>4
<1> QED BY <1>6, <1>7, <1>8

\* A call ends for both at once: whichever way the server takes it away, it
\* hangs up on whoever of the two is still there.
THEOREM CallEndsForBothHolds ==
  ASSUME NEW b, Couples(b), OneConnectionEach
  PROVE  Spec => CallEndsForBoth
<1> DEFINE Ends ==
      \A u \in Uids :
        LET v == sessions[u]
        IN  v # None /\ sessions'[u] # v =>
              /\ sessions'[v] = None
              /\ \A c \in Conns :
                   UidOf[c] \in {u, v} /\ pc'[c] \in Serving => sock'[c] # "open"
<1>1. BaseInv /\ Dialled /\ Coupled(b) /\ NoZombie /\ [Next]_vars => [Ends]_vars
  BY CallEndsStep
<1>2. Spec => []NoZombie
  BY NoZombieHolds DEF Exclusive
<1> QED BY <1>1, <1>2, CoupledInvariant, PTL DEF Spec, CallEndsForBoth
=============================================================================
