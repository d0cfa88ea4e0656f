----------------------- MODULE MultipartyClientProofs -----------------------
(***************************************************************************)
(* The members of a room of mp-webrtc-sendrecv.c, for any number of        *)
(* members, candidates and connections that are closed: types, and that a  *)
(* message is never about a peer that is not listed.                       *)
(*                                                                         *)
(* The argument follows one member p through the inbox of another, c.      *)
(* Before a message that is about p the inbox has a message that announces *)
(* p, or c lists p already, and none that says p has left; and while both  *)
(* are in the room p is listed or announced.                               *)
(***************************************************************************)
EXTENDS MultipartyClient, TLAPS

AboutKinds == {"left", "offer", "answer", "ice"}

Announces(m, p) ==
  \/ m.kind = "joined" /\ m.from = p
  \/ m.kind = "room_ok" /\ p \in m.members
Leaves(m, p) == m.kind = "left" /\ m.from = p
About(m, p) == m.kind \in AboutKinds /\ m.from = p

\* The messages that are sent name whom they are about.
Sent == {m \in Message : m.kind \in AboutKinds \cup {"joined"} => m.from \in Clients}

NoLeft(q, p) == \A i \in 1..Len(q) : ~Leaves(q[i], p)
Announced(q, p) == \E i \in 1..Len(q) : Announces(q[i], p)
AnnouncedBefore(q, p, i) == \E j \in 1..Len(q) : j < i /\ Announces(q[j], p)
NoLeftBefore(q, p, i) == \A j \in 1..Len(q) : j < i => ~Leaves(q[j], p)

\* With the inbox q and the list of peers, a message about p finds p listed.
Follows(q, p, list) ==
  \A i \in 1..Len(q) : About(q[i], p) =>
    /\ p \in list \/ AnnouncedBefore(q, p, i)
    /\ NoLeftBefore(q, p, i)

\* When q has been read p will be listed.
WillList(q, p, list) == (p \in list \/ Announced(q, p)) /\ NoLeft(q, p)

-----------------------------------------------------------------------------
(* The inductive invariant.                                                *)

Types ==
  /\ app \in [Clients -> AppStates]
  /\ life \in [Clients -> {"running", "quitting", "ended", "aborted"}]
  /\ peers \in [Clients -> SUBSET Clients]
  /\ bin \in [Clients -> [Clients -> Stages]]
  /\ ice \in [Clients -> 0..MaxIce]
  /\ busy \in [Clients -> Clients \cup {None}]
  /\ inbox \in [Clients -> Seq(Sent)]
  /\ online \subseteq Clients
  /\ room \subseteq Clients
  /\ drops \in 0..MaxDrops

\* It has not asked for the room.
Outside(c) == c \in online \ room

\* Those in the room are registered, and those registered run; before the
\* room is asked for there is no webrtcbin.
Registered(c) ==
  /\ c \in room => c \in online /\ app[c] # SERVER_REGISTERING
  /\ c \in online => life[c] = "running" /\ app[c] # SERVER_CONNECTING
  /\ life[c] = "running" /\ app[c] = SERVER_CONNECTING =>
       inbox[c] = <<>> /\ bin[c] = NoBins
  /\ Outside(c) =>
       app[c] = SERVER_REGISTERING /\ inbox[c] = <<Msg("hello", None)>> /\ bin[c] = NoBins

Known(c, p) ==
  life[c] = "running" =>
    /\ Follows(inbox[c], p, peers[c])
    /\ c \in room /\ p \in room /\ c # p => WillList(inbox[c], p, peers[c])

\* A client joins once: nobody has been told that it left before it joined.
Fresh(p) == life[p] = "running" /\ (app[p] = SERVER_CONNECTING \/ Outside(p))
Unheard(c, p) == Fresh(p) /\ life[c] = "running" => NoLeft(inbox[c], p)

Inv ==
  /\ Types
  /\ \A c \in Clients : Registered(c)
  /\ \A c, p \in Clients : Known(c, p) /\ Unheard(c, p)

-----------------------------------------------------------------------------
(* Inboxes.                                                                *)

LEMMA AppendFacts ==
  ASSUME NEW q \in Seq(Sent), NEW m \in Sent
  PROVE  /\ Append(q, m) \in Seq(Sent)
         /\ Len(Append(q, m)) = Len(q) + 1 /\ Len(q) \in Nat
         /\ \A i \in 1..Len(q) : Append(q, m)[i] = q[i]
         /\ Append(q, m)[Len(q) + 1] = m
  OBVIOUS

LEMMA TailFacts ==
  ASSUME NEW q \in Seq(Sent), q # <<>>
  PROVE  /\ Tail(q) \in Seq(Sent) /\ Head(q) \in Sent
         /\ Len(q) \in Nat /\ Len(q) >= 1 /\ Len(Tail(q)) = Len(q) - 1
         /\ \A i \in 1..Len(Tail(q)) : Tail(q)[i] = q[i + 1]
         /\ Head(q) = q[1]
  OBVIOUS

LEMMA NoLeftAppend ==
  ASSUME NEW q \in Seq(Sent), NEW m \in Sent, NEW p, NoLeft(q, p), ~Leaves(m, p)
  PROVE  NoLeft(Append(q, m), p)
  BY AppendFacts DEF NoLeft

LEMMA NoLeftTail ==
  ASSUME NEW q \in Seq(Sent), q # <<>>, NEW p, NoLeft(q, p)
  PROVE  NoLeft(Tail(q), p)
  <1> SUFFICES ASSUME NEW i \in 1..Len(Tail(q)) PROVE ~Leaves(Tail(q)[i], p)
    BY DEF NoLeft
  <1>1. i + 1 \in 1..Len(q) /\ Tail(q)[i] = q[i + 1]
    BY TailFacts
  <1> QED
    BY <1>1 DEF NoLeft

\* A message that is not about p, or that comes while p is to be listed,
\* may be appended.
LEMMA FollowsAppend ==
  ASSUME NEW q \in Seq(Sent), NEW m \in Sent, NEW p, NEW list,
         Follows(q, p, list), About(m, p) => WillList(q, p, list)
  PROVE  Follows(Append(q, m), p, list)
  <1> DEFINE r == Append(q, m)
  <1> SUFFICES ASSUME NEW i \in 1..Len(r), About(r[i], p)
               PROVE  /\ p \in list \/ AnnouncedBefore(r, p, i)
                      /\ NoLeftBefore(r, p, i)
    BY DEF Follows
  <1>1. CASE i \in 1..Len(q)
    <2>1. r[i] = q[i] /\ 1..Len(q) \subseteq 1..Len(r)
      BY <1>1, AppendFacts
    <2>2. p \in list \/ AnnouncedBefore(q, p, i)
      BY <1>1, <2>1 DEF Follows
    <2>3. NoLeftBefore(q, p, i)
      BY <1>1, <2>1 DEF Follows
    <2>4. AnnouncedBefore(q, p, i) => AnnouncedBefore(r, p, i)
      BY <2>1, AppendFacts DEF AnnouncedBefore
    <2>5. NoLeftBefore(r, p, i)
      BY <1>1, <2>3, AppendFacts DEF NoLeftBefore
    <2> QED
      BY <2>2, <2>4, <2>5
  <1>2. CASE i = Len(q) + 1
    <2>1. WillList(q, p, list)
      BY <1>2, AppendFacts
    <2>2. Announced(q, p) => AnnouncedBefore(r, p, i)
      BY <1>2, AppendFacts DEF Announced, AnnouncedBefore
    <2>3. NoLeftBefore(r, p, i)
      BY <1>2, <2>1, AppendFacts DEF NoLeftBefore, WillList, NoLeft
    <2> QED
      BY <2>1, <2>2, <2>3 DEF WillList
  <1> QED
    BY <1>1, <1>2, AppendFacts

LEMMA WillListAppend ==
  ASSUME NEW q \in Seq(Sent), NEW m \in Sent, NEW p, NEW list,
         NoLeft(q, p), ~Leaves(m, p),
         p \in list \/ Announced(q, p) \/ Announces(m, p)
  PROVE  WillList(Append(q, m), p, list)
  <1>1. Announced(q, p) \/ Announces(m, p) => Announced(Append(q, m), p)
    BY AppendFacts DEF Announced
  <1> QED
    BY <1>1, NoLeftAppend DEF WillList

\* What is at the head of the inbox finds p listed; when it has been read the
\* list has changed as list2 has.
LEMMA FollowsHead ==
  ASSUME NEW q \in Seq(Sent), q # <<>>, NEW p, NEW list,
         Follows(q, p, list), About(Head(q), p)
  PROVE  p \in list
  <1>1. 1 \in 1..Len(q) /\ Head(q) = q[1]
    BY TailFacts
  <1>2. ~AnnouncedBefore(q, p, 1)
    BY DEF AnnouncedBefore
  <1> QED
    BY <1>1, <1>2 DEF Follows

LEMMA FollowsTail ==
  ASSUME NEW q \in Seq(Sent), q # <<>>, NEW p, NEW list, NEW list2,
         Follows(q, p, list),
         (p \in list \/ Announces(Head(q), p)) /\ ~Leaves(Head(q), p) => p \in list2
  PROVE  Follows(Tail(q), p, list2)
  <1> DEFINE r == Tail(q)
  <1> SUFFICES ASSUME NEW i \in 1..Len(r), About(r[i], p)
               PROVE  /\ p \in list2 \/ AnnouncedBefore(r, p, i)
                      /\ NoLeftBefore(r, p, i)
    BY DEF Follows
  <1>1. /\ i + 1 \in 1..Len(q) /\ r[i] = q[i + 1] /\ 1 \in 1..Len(q)
        /\ Head(q) = q[1] /\ 1 < i + 1
    BY TailFacts
  <1>2. /\ p \in list \/ AnnouncedBefore(q, p, i + 1)
        /\ NoLeftBefore(q, p, i + 1)
    BY <1>1 DEF Follows
  <1>3. ~Leaves(Head(q), p)
    BY <1>1, <1>2 DEF NoLeftBefore
  <1>4. AnnouncedBefore(q, p, i + 1) => Announces(Head(q), p) \/ AnnouncedBefore(r, p, i)
    <2> SUFFICES ASSUME NEW j \in 1..Len(q), j < i + 1, Announces(q[j], p), j # 1
                 PROVE  AnnouncedBefore(r, p, i)
      BY <1>1 DEF AnnouncedBefore
    <2>1. j - 1 \in 1..Len(r) /\ j - 1 < i /\ r[j - 1] = q[j]
      BY TailFacts
    <2> QED
      BY <2>1 DEF AnnouncedBefore
  <1>5. NoLeftBefore(r, p, i)
    <2> SUFFICES ASSUME NEW j \in 1..Len(r), j < i PROVE ~Leaves(r[j], p)
      BY DEF NoLeftBefore
    <2>1. j + 1 \in 1..Len(q) /\ j + 1 < i + 1 /\ r[j] = q[j + 1]
      BY TailFacts
    <2> QED
      BY <1>2, <2>1 DEF NoLeftBefore
  <1> QED
    BY <1>2, <1>3, <1>4, <1>5

LEMMA WillListTail ==
  ASSUME NEW q \in Seq(Sent), q # <<>>, NEW p, NEW list, NEW list2,
         WillList(q, p, list),
         (p \in list \/ Announces(Head(q), p)) /\ ~Leaves(Head(q), p) => p \in list2
  PROVE  WillList(Tail(q), p, list2)
  <1>1. NoLeft(Tail(q), p)
    BY NoLeftTail DEF WillList
  <1>2. ~Leaves(Head(q), p)
    BY TailFacts DEF WillList, NoLeft
  <1>3. Announced(q, p) => Announces(Head(q), p) \/ Announced(Tail(q), p)
    <2> SUFFICES ASSUME NEW j \in 1..Len(q), Announces(q[j], p), j # 1
                 PROVE  Announced(Tail(q), p)
      BY TailFacts DEF Announced
    <2>1. j - 1 \in 1..Len(Tail(q)) /\ Tail(q)[j - 1] = q[j]
      BY TailFacts
    <2> QED
      BY <2>1 DEF Announced
  <1> QED
    BY <1>1, <1>2, <1>3 DEF WillList

-----------------------------------------------------------------------------
(* What the server does to the inboxes.                                    *)

LEMMA MsgSent ==
  /\ \A kind \in {"hello", "error", "closed"} : Msg(kind, None) \in Sent
  /\ \A kind \in AboutKinds \cup {"joined"}, c \in Clients : Msg(kind, c) \in Sent
  /\ \A S \in SUBSET Clients : RoomOk(S) \in Sent
  BY DEF Sent, Msg, RoomOk, Message, Kinds, AboutKinds

\* A message that neither announces a peer nor says that one has left, and is
\* about nobody.
LEMMA Service ==
  ASSUME NEW kind \in {"hello", "error", "closed"}, NEW p
  PROVE  LET m == Msg(kind, None)
         IN ~About(m, p) /\ ~Leaves(m, p) /\ ~Announces(m, p)
  BY DEF Msg, About, Leaves, Announces, AboutKinds

\* Both in the room: the one will be listed by the other.
LEMMA Members ==
  ASSUME Inv, NEW c \in Clients, NEW p \in Clients, c \in room, p \in room, c # p
  PROVE  life[c] = "running" /\ WillList(inbox[c], p, peers[c])
  BY DEF Inv, Registered, Known

LEMMA GoneFacts ==
  ASSUME Inv, NEW c \in Clients, NEW box \in [Clients -> Seq(Sent)], Gone(box, c)
  PROVE  /\ inbox' \in [Clients -> Seq(Sent)]
         /\ inbox'[c] = box[c]
         /\ \A d \in Clients \ {c} :
              inbox'[d] = IF c \in room /\ d \in room
                          THEN Append(box[d], Msg("left", c)) ELSE box[d]
  <1>1. Msg("left", c) \in Sent
    BY MsgSent DEF AboutKinds
  <1>2. \A d \in Clients : Append(box[d], Msg("left", c)) \in Seq(Sent)
    BY <1>1, AppendFacts
  <1>3. CASE c \in room
    <2>1. inbox' = [d \in Clients |-> IF d \in room \ {c}
                      THEN Append(box[d], Msg("left", c)) ELSE box[d]]
      BY <1>3 DEF Gone, PutAll
    <2> QED
      BY <1>2, <1>3, <2>1
  <1>4. CASE c \notin room
    BY <1>4 DEF Gone
  <1> QED
    BY <1>3, <1>4

\* The others, when c is gone.
LEMMA OthersKnow ==
  ASSUME Inv, NEW c \in Clients, NEW d \in Clients \ {c}, NEW p \in Clients,
         life[d] = "running", room' = room \ {c},
         inbox'[d] = IF c \in room /\ d \in room
                     THEN Append(inbox[d], Msg("left", c)) ELSE inbox[d]
  PROVE  /\ Follows(inbox'[d], p, peers[d])
         /\ d \in room' /\ p \in room' /\ d # p => WillList(inbox'[d], p, peers[d])
         /\ p # c /\ NoLeft(inbox[d], p) => NoLeft(inbox'[d], p)
  <1> DEFINE m == Msg("left", c)
  <1>1. m \in Sent /\ inbox[d] \in Seq(Sent)
    BY MsgSent DEF AboutKinds, Inv, Types
  <1>2. (About(m, p) <=> p = c) /\ (Leaves(m, p) <=> p = c)
    BY DEF Msg, About, Leaves, AboutKinds
  <1>3. Follows(inbox[d], p, peers[d])
    BY DEF Inv, Known
  <1>4. c \in room /\ d \in room => WillList(inbox[d], c, peers[d])
    BY Members
  <1>5. Follows(inbox'[d], p, peers[d])
    BY <1>1, <1>2, <1>3, <1>4, FollowsAppend
  <1>6. ASSUME d \in room', p \in room', d # p PROVE WillList(inbox'[d], p, peers[d])
    <2>1. p # c /\ WillList(inbox[d], p, peers[d])
      BY <1>6, Members
    <2>2. WillList(Append(inbox[d], m), p, peers[d])
      BY <1>1, <1>2, <2>1, WillListAppend DEF WillList
    <2> QED
      BY <2>1, <2>2
  <1>7. ASSUME p # c, NoLeft(inbox[d], p) PROVE NoLeft(inbox'[d], p)
    BY <1>1, <1>2, <1>7, NoLeftAppend
  <1> QED
    BY <1>5, <1>6, <1>7

-----------------------------------------------------------------------------
(* The kinds of step.                                                      *)

\* The program of c ends, or will: it closes its connection.
LEMMA EndStep ==
  ASSUME Inv, NEW c \in Clients,
         NEW how \in {"quitting", "ended", "aborted"}, life' = [life EXCEPT ![c] = how],
         NEW a \in AppStates, app' = [app EXCEPT ![c] = a],
         \A d \in Clients \ {c} : bin'[d] = bin[d] /\ peers'[d] = peers[d],
         peers' \in [Clients -> SUBSET Clients],
         bin' \in [Clients -> [Clients -> Stages]],
         ice' \in [Clients -> 0..MaxIce],
         busy' \in [Clients -> Clients \cup {None}],
         drops' \in 0..MaxDrops,
         Gone(Unread(inbox, c), c)
  PROVE  Inv'
  <1> DEFINE box == Unread(inbox, c)
  <1>0. /\ box \in [Clients -> Seq(Sent)]
        /\ \A d \in Clients \ {c} : box[d] = inbox[d]
    BY DEF Unread, Inv, Types
  <1>1. /\ inbox' \in [Clients -> Seq(Sent)]
        /\ \A d \in Clients \ {c} :
             inbox'[d] = IF c \in room /\ d \in room
                         THEN Append(inbox[d], Msg("left", c)) ELSE inbox[d]
    <2> HIDE DEF box
    <2> QED
      BY <1>0, GoneFacts DEF box
  <1>2. online' = online \ {c} /\ room' = room \ {c}
    BY DEF Gone
  <1>3. Types'
    BY <1>1, <1>2 DEF Inv, Types
  <1>4. life'[c] # "running" /\ \A d \in Clients \ {c} : life'[d] = life[d] /\ app'[d] = app[d]
    BY DEF Inv, Types
  <1>5. ASSUME NEW d \in Clients PROVE Registered(d)'
    <2>1. CASE d = c
      BY <1>2, <1>4, <2>1 DEF Registered, Outside
    <2>2. CASE d # c
      <3>1. Registered(d)
        BY DEF Inv
      <3>2. d \notin room => inbox'[d] = inbox[d]
        BY <1>1, <2>2
      <3> QED
        BY <1>2, <1>4, <2>2, <3>1, <3>2 DEF Registered, Outside
    <2> QED
      BY <2>1, <2>2
  <1>6. ASSUME NEW d \in Clients, NEW p \in Clients PROVE Known(d, p)' /\ Unheard(d, p)'
    <2>1. CASE d = c
      BY <1>4, <2>1 DEF Known, Unheard
    <2>2. CASE d # c /\ life[d] = "running"
      <3>1. /\ Follows(inbox'[d], p, peers[d])
            /\ d \in room' /\ p \in room' /\ d # p => WillList(inbox'[d], p, peers[d])
            /\ p # c /\ NoLeft(inbox[d], p) => NoLeft(inbox'[d], p)
        BY <1>1, <1>2, <2>2, OthersKnow
      <3>2. Fresh(p)' => p # c /\ Fresh(p)
        BY <1>2, <1>4 DEF Fresh, Outside
      <3>3. Fresh(p) => NoLeft(inbox[d], p)
        BY <2>2 DEF Inv, Unheard
      <3> QED
        BY <2>2, <3>1, <3>2, <3>3 DEF Known, Unheard
    <2>3. CASE d # c /\ life[d] # "running"
      BY <1>4, <2>3 DEF Known, Unheard
    <2> QED
      BY <2>1, <2>2, <2>3
  <1> QED
    BY <1>3, <1>5, <1>6 DEF Inv

LEMMA QuitStep ==
  ASSUME Inv, NEW c \in Clients, NEW state \in AppStates, Quit(c, state),
         UNCHANGED <<peers, bin, busy, drops>>, ice' \in [Clients -> 0..MaxIce]
  PROVE  Inv'
  <1>1. Types
    BY DEF Inv
  <1> QED
    BY <1>1, EndStep DEF Quit, Types

LEMMA ExitFacts ==
  ASSUME Inv, NEW c \in Clients, NEW how, Exit(c, how)
  PROVE  /\ \A d \in Clients \ {c} : bin'[d] = bin[d] /\ peers'[d] = peers[d]
         /\ peers' \in [Clients -> SUBSET Clients]
         /\ bin' \in [Clients -> [Clients -> Stages]]
         /\ ice' \in [Clients -> 0..MaxIce]
         /\ busy' \in [Clients -> Clients \cup {None}]
  <1>1. NoBins \in [Clients -> Stages]
    BY DEF NoBins, Stages
  <1>2. AllIce(c) \in 0..MaxIce
    BY ClientsAssumption DEF AllIce
  <1> QED
    BY <1>1, <1>2 DEF Exit, Inv, Types

LEMMA AbortStep ==
  ASSUME Inv, NEW c \in Clients, Abort(c), UNCHANGED drops
  PROVE  Inv'
  <1>1. Exit(c, "aborted") /\ Gone(Unread(inbox, c), c)
    BY DEF Abort
  <1>2. SERVER_CONNECTING \in AppStates /\ drops' \in 0..MaxDrops
    BY DEF AppStates, Inv, Types
  <1>3. /\ app' = [app EXCEPT ![c] = SERVER_CONNECTING]
        /\ life' = [life EXCEPT ![c] = "aborted"]
    BY <1>1 DEF Exit
  <1> QED
    BY <1>1, <1>2, <1>3, ExitFacts, EndStep

\* The main loop of c reads a message; its list becomes L.
LEMMA ReadStep ==
  ASSUME Inv, NEW c \in Clients, life[c] = "running", inbox[c] # <<>>,
         c \notin online \/ Head(inbox[c]).kind # "hello",
         inbox' = Rest(c),
         NEW L \in SUBSET Clients, peers' = [peers EXCEPT ![c] = L],
         \A p \in Clients :
           (p \in peers[c] \/ Announces(Head(inbox[c]), p)) /\ ~Leaves(Head(inbox[c]), p)
             => p \in L,
         NEW a \in AppStates, app' = [app EXCEPT ![c] = a],
         a = app[c] \/ a \notin {SERVER_CONNECTING, SERVER_REGISTERING},
         NEW B \in [Clients -> Stages], bin' = [bin EXCEPT ![c] = B],
         busy' \in [Clients -> Clients \cup {None}],
         UNCHANGED <<life, ice, online, room, drops>>
  PROVE  Inv'
  <1>1. /\ inbox[c] \in Seq(Sent)
        /\ inbox' = [inbox EXCEPT ![c] = Tail(inbox[c])]
        /\ inbox'[c] = Tail(inbox[c]) /\ Tail(inbox[c]) \in Seq(Sent)
        /\ \A d \in Clients \ {c} : inbox'[d] = inbox[d]
    BY TailFacts DEF Rest, Inv, Types
  <1>2. Types'
    BY <1>1 DEF Inv, Types
  <1>3. /\ app[c] # SERVER_CONNECTING /\ ~Outside(c)
        /\ app'[c] # SERVER_CONNECTING
        /\ c \in room => app'[c] # SERVER_REGISTERING
    <2>1. Registered(c)
      BY DEF Inv
    <2>2. app[c] # SERVER_CONNECTING
      BY <2>1 DEF Registered
    <2>3. ~Outside(c)
      <3> SUFFICES ASSUME Outside(c) PROVE FALSE
        OBVIOUS
      <3>1. inbox[c] = <<Msg("hello", None)>> /\ c \in online
        BY <2>1 DEF Registered, Outside
      <3>2. Head(inbox[c]).kind = "hello"
        BY <3>1 DEF Msg
      <3> QED
        BY <3>1, <3>2
    <2>4. app'[c] = a
      BY DEF Inv, Types
    <2> QED
      BY <2>1, <2>2, <2>3, <2>4 DEF Registered
  <1>4. ASSUME NEW d \in Clients PROVE Registered(d)'
    <2>0. Registered(d)
      BY DEF Inv
    <2>1. CASE d = c
      BY <1>3, <2>0, <2>1 DEF Registered, Outside
    <2>2. CASE d # c
      <3>1. app'[d] = app[d] /\ bin'[d] = bin[d] /\ inbox'[d] = inbox[d]
        BY <1>1, <2>2 DEF Inv, Types
      <3> QED
        BY <2>0, <3>1 DEF Registered, Outside
    <2> QED
      BY <2>1, <2>2
  <1>5. ASSUME NEW p \in Clients PROVE Fresh(p)' => Fresh(p)
    <2>1. CASE p = c
      BY <1>3, <2>1 DEF Fresh, Outside
    <2>2. CASE p # c
      BY <2>2 DEF Fresh, Outside, Inv, Types
    <2> QED
      BY <2>1, <2>2
  <1>6. ASSUME NEW d \in Clients, NEW p \in Clients PROVE Known(d, p)' /\ Unheard(d, p)'
    <2>0. Known(d, p) /\ Unheard(d, p)
      BY DEF Inv
    <2>1. CASE d = c
      <3>1. peers'[c] = L /\ life'[c] = "running"
        BY DEF Inv, Types
      <3>2. Follows(Tail(inbox[c]), p, L)
        BY <1>1, <2>0, <2>1, FollowsTail DEF Known
      <3>3. WillList(inbox[c], p, peers[c]) => WillList(Tail(inbox[c]), p, L)
        BY <1>1, WillListTail
      <3>4. NoLeft(inbox[c], p) => NoLeft(Tail(inbox[c]), p)
        BY <1>1, NoLeftTail
      <3> QED
        BY <1>1, <1>5, <2>0, <2>1, <3>1, <3>2, <3>3, <3>4 DEF Known, Unheard
    <2>2. CASE d # c
      <3>1. inbox'[d] = inbox[d] /\ peers'[d] = peers[d]
        BY <1>1, <2>2 DEF Inv, Types
      <3> QED
        BY <1>5, <2>0, <3>1 DEF Known, Unheard
    <2> QED
      BY <2>1, <2>2
  <1> QED
    BY <1>2, <1>4, <1>6 DEF Inv

\* A program that has asked for the room.
Entered(c) == ~Outside(c) /\ (life[c] = "running" => app[c] # SERVER_CONNECTING)

LEMMA WithBins ==
  ASSUME Inv, NEW c \in Clients, NEW p \in Clients, bin[c][p] # "none"
  PROVE  Entered(c)
  <1>1. bin[c] # NoBins
    BY DEF NoBins
  <1>2. Registered(c)
    BY DEF Inv
  <1> QED
    BY <1>1, <1>2 DEF Entered, Registered

\* c sets app_state and does something with its webrtcbins; at most one
\* message m is put into an inbox, that of q.
LEMMA WriteStep ==
  ASSUME Inv, NEW c \in Clients, Entered(c),
         NEW a \in AppStates, app' = [app EXCEPT ![c] = a],
         a = app[c] \/ a \notin {SERVER_CONNECTING, SERVER_REGISTERING},
         NEW B \in [Clients -> Stages], bin' = [bin EXCEPT ![c] = B],
         NEW q \in Clients, Entered(q), NEW m \in Sent,
         inbox' = inbox \/ inbox' = Put(inbox, q, m),
         \A p \in Clients : ~Leaves(m, p),
         \A p \in Clients : About(m, p) => WillList(inbox[q], p, peers[q]),
         ice' \in [Clients -> 0..MaxIce],
         busy' \in [Clients -> Clients \cup {None}],
         UNCHANGED <<life, peers, online, room, drops>>
  PROVE  Inv'
  <1>1. /\ inbox' \in [Clients -> Seq(Sent)]
        /\ inbox'[q] = inbox[q] \/ inbox'[q] = Append(inbox[q], m)
        /\ \A d \in Clients \ {q} : inbox'[d] = inbox[d]
    <2>1. inbox \in [Clients -> Seq(Sent)] /\ Append(inbox[q], m) \in Seq(Sent)
      BY AppendFacts DEF Inv, Types
    <2> QED
      BY <2>1 DEF Put
  <1>2. Types'
    BY <1>1 DEF Inv, Types
  <1>3. /\ app'[c] = a /\ bin'[c] = B
        /\ \A d \in Clients \ {c} : app'[d] = app[d] /\ bin'[d] = bin[d]
    BY DEF Inv, Types
  <1>4. Outside(c)' = Outside(c) /\ ~Outside(c) /\ ~Outside(q)
    BY DEF Entered, Outside
  <1>5. life[c] = "running" => app'[c] # SERVER_CONNECTING
    BY <1>3 DEF Entered
  <1>6. ASSUME NEW d \in Clients PROVE Registered(d)'
    <2>0. Registered(d)
      BY DEF Inv
    <2>1. d = q => ~Outside(d) /\ (life[d] = "running" => app[d] # SERVER_CONNECTING)
      BY DEF Entered
    <2>2. d # q => inbox'[d] = inbox[d]
      BY <1>1
    <2>3. CASE d = c
      <3>1. d \in online => life[d] = "running" /\ app'[d] # SERVER_CONNECTING
        BY <1>5, <2>0, <2>3 DEF Registered
      <3>2. d \in room => d \in online /\ app'[d] # SERVER_REGISTERING
        BY <1>3, <2>0, <2>3 DEF Registered
      <3> QED
        BY <1>4, <1>5, <2>3, <3>1, <3>2 DEF Registered
    <2>4. CASE d # c
      BY <1>3, <2>0, <2>1, <2>2, <2>4 DEF Registered, Outside
    <2> QED
      BY <2>3, <2>4
  <1>7. ASSUME NEW p \in Clients PROVE Fresh(p)' => Fresh(p)
    <2>1. CASE p = c
      BY <1>4, <1>5, <2>1 DEF Fresh
    <2>2. CASE p # c
      BY <1>3, <2>2 DEF Fresh, Outside
    <2> QED
      BY <2>1, <2>2
  <1>8. ASSUME NEW d \in Clients, NEW p \in Clients PROVE Known(d, p)' /\ Unheard(d, p)'
    <2>0. Known(d, p) /\ Unheard(d, p)
      BY DEF Inv
    <2>1. CASE inbox'[d] = inbox[d]
      BY <1>7, <2>0, <2>1 DEF Known, Unheard
    <2>2. CASE d = q /\ inbox'[q] = Append(inbox[q], m)
      <3>0. inbox[q] \in Seq(Sent)
        BY DEF Inv, Types
      <3>1. Follows(inbox[q], p, peers[q]) => Follows(inbox'[q], p, peers[q])
        BY <2>2, <3>0, FollowsAppend
      <3>2. WillList(inbox[q], p, peers[q]) => WillList(inbox'[q], p, peers[q])
        BY <2>2, <3>0, WillListAppend DEF WillList
      <3>3. NoLeft(inbox[q], p) => NoLeft(inbox'[q], p)
        BY <2>2, <3>0, NoLeftAppend
      <3> QED
        BY <1>7, <2>0, <2>2, <3>1, <3>2, <3>3 DEF Known, Unheard
    <2> QED
      BY <1>1, <2>1, <2>2
  <1> QED
    BY <1>2, <1>6, <1>8 DEF Inv

LEMMA InRoom ==
  ASSUME Inv, NEW c \in Clients, c \in room
  PROVE  Entered(c) /\ c \in online
  BY DEF Inv, Registered, Entered, Outside

LEMMA RelayStep ==
  ASSUME Inv, NEW c \in Clients, NEW p \in Clients, c # p, bin[c][p] # "none",
         NEW kind \in {"offer", "answer", "ice"}, inbox' = Relay(inbox, c, p, kind),
         NEW B \in [Clients -> Stages], bin' = [bin EXCEPT ![c] = B],
         ice' \in [Clients -> 0..MaxIce],
         UNCHANGED <<app, life, peers, busy, online, room, drops>>
  PROVE  Inv'
  <1>1. Entered(c)
    BY WithBins
  <1>2. /\ app[c] \in AppStates /\ app' = [app EXCEPT ![c] = app[c]]
        /\ busy' \in [Clients -> Clients \cup {None}]
    BY DEF Inv, Types
  <1>3. CASE c \in online /\ p \in room
    <2> DEFINE m == Msg(kind, c)
    <2>1. c \in room
      BY <1>1, <1>3 DEF Entered, Outside
    <2>2. WillList(inbox[p], c, peers[p])
      BY <1>3, <2>1, Members
    <2>3. m \in Sent
      BY MsgSent DEF AboutKinds
    <2>4. \A x \in Clients : ~Leaves(m, x) /\ (About(m, x) => x = c)
      BY DEF Msg, Leaves, About
    <2>5. inbox' = Put(inbox, p, m)
      BY <1>3 DEF Relay
    <2>6. Entered(p)
      BY <1>3, InRoom
    <2> HIDE DEF m
    <2> QED
      BY <1>1, <1>2, <2>2, <2>3, <2>4, <2>5, <2>6, WriteStep
  <1>4. CASE ~(c \in online /\ p \in room)
    <2> DEFINE m == Msg("error", None)
    <2>1. m \in Sent
      BY MsgSent
    <2>2. \A x \in Clients : ~Leaves(m, x) /\ ~About(m, x)
      BY Service
    <2>3. inbox' = inbox \/ inbox' = Put(inbox, c, m)
      BY <1>4 DEF Relay
    <2> HIDE DEF m
    <2> QED
      BY <1>1, <1>2, <2>1, <2>2, <2>3, WriteStep
  <1> QED
    BY <1>3, <1>4

LEMMA LocalStep ==
  ASSUME Inv, NEW c \in Clients, Entered(c),
         NEW a \in AppStates \ {SERVER_CONNECTING, SERVER_REGISTERING},
         app' = [app EXCEPT ![c] = a] \/ (app' = app /\ app[c] = a),
         NEW B \in [Clients -> Stages], bin' = [bin EXCEPT ![c] = B],
         busy' \in [Clients -> Clients \cup {None}],
         UNCHANGED <<life, peers, ice, service, drops>>
  PROVE  Inv'
  <1> DEFINE m == Msg("error", None)
  <1>1. m \in Sent /\ \A x \in Clients : ~Leaves(m, x) /\ ~About(m, x)
    BY MsgSent, Service
  <1>2. ice' \in [Clients -> 0..MaxIce] /\ app' = [app EXCEPT ![c] = a]
    BY DEF Inv, Types
  <1> HIDE DEF m
  <1> QED
    BY <1>1, <1>2, WriteStep DEF service

-----------------------------------------------------------------------------
(* One lemma for each action that is not one of these steps alone.         *)

LEMMA InitInv == Init => Inv
  <1> SUFFICES ASSUME Init PROVE Inv
    OBVIOUS
  <1>1. NoBins \in [Clients -> Stages] /\ <<>> \in Seq(Sent)
    BY DEF NoBins, Stages
  <1>2. Types
    BY <1>1, ClientsAssumption DEF Init, Types, AppStates, AllIce
  <1>3. \A c \in Clients : Registered(c)
    BY DEF Init, Registered, Outside
  <1>4. \A c, p \in Clients : Known(c, p) /\ Unheard(c, p)
    BY DEF Init, Known, Unheard, Follows, NoLeft
  <1> QED
    BY <1>2, <1>3, <1>4 DEF Inv

\* A connection is closed: c reads "closed" when it has read the rest.
LEMMA DropStep == ASSUME Inv, NEW c \in Clients, Drop(c) PROVE Inv'
  <1> DEFINE m == Msg("closed", None)
             box == Put(inbox, c, m)
  <1>1. /\ m \in Sent /\ inbox[c] \in Seq(Sent) /\ inbox \in [Clients -> Seq(Sent)]
        /\ \A p \in Clients : ~About(m, p) /\ ~Leaves(m, p)
    BY MsgSent, Service DEF Inv, Types
  <1>2. /\ box \in [Clients -> Seq(Sent)] /\ box[c] = Append(inbox[c], m)
        /\ \A d \in Clients \ {c} : box[d] = inbox[d]
    BY <1>1, AppendFacts DEF Put
  <1>3. /\ Gone(box, c) /\ online' = online \ {c} /\ room' = room \ {c}
        /\ c \in online /\ drops' \in 0..MaxDrops
        /\ UNCHANGED <<app, life, peers, bin, ice, busy>>
    BY ClientsAssumption DEF Drop, Gone, client, Inv, Types
  <1> HIDE DEF m, box
  <1>4. /\ inbox' \in [Clients -> Seq(Sent)]
        /\ inbox'[c] = Append(inbox[c], m)
        /\ \A d \in Clients \ {c} :
             inbox'[d] = IF c \in room /\ d \in room
                         THEN Append(inbox[d], Msg("left", c)) ELSE inbox[d]
    BY <1>2, <1>3, GoneFacts
  <1>5. Types'
    BY <1>3, <1>4 DEF Inv, Types
  <1>6. app[c] # SERVER_CONNECTING /\ Registered(c)
    BY <1>3 DEF Inv, Registered
  <1>7. ASSUME NEW d \in Clients PROVE Registered(d)'
    <2>1. CASE d = c
      BY <1>3, <1>6, <2>1 DEF Registered, Outside
    <2>2. CASE d # c
      <3>1. Registered(d) /\ (d \notin room => inbox'[d] = inbox[d])
        BY <1>4, <2>2 DEF Inv
      <3> QED
        BY <1>3, <2>2, <3>1 DEF Registered, Outside
    <2> QED
      BY <2>1, <2>2
  <1>8. \A p \in Clients : Fresh(p)' => p # c /\ Fresh(p)
    BY <1>3, <1>6 DEF Fresh, Outside
  <1>9. ASSUME NEW d \in Clients, NEW p \in Clients PROVE Known(d, p)' /\ Unheard(d, p)'
    <2>0. Known(d, p) /\ Unheard(d, p)
      BY DEF Inv
    <2>1. CASE d = c
      <3>1. Follows(inbox[c], p, peers[c]) => Follows(inbox'[c], p, peers[c])
        BY <1>1, <1>4, FollowsAppend
      <3>2. NoLeft(inbox[c], p) => NoLeft(inbox'[c], p)
        BY <1>1, <1>4, NoLeftAppend
      <3>3. c \notin room'
        BY <1>3
      <3> QED
        BY <1>3, <1>8, <2>0, <2>1, <3>1, <3>2, <3>3 DEF Known, Unheard
    <2>2. CASE d # c /\ life[d] = "running"
      <3>1. /\ Follows(inbox'[d], p, peers[d])
            /\ d \in room' /\ p \in room' /\ d # p => WillList(inbox'[d], p, peers[d])
            /\ p # c /\ NoLeft(inbox[d], p) => NoLeft(inbox'[d], p)
        BY <1>3, <1>4, <2>2, OthersKnow
      <3> QED
        BY <1>3, <1>8, <2>0, <2>2, <3>1 DEF Known, Unheard
    <2>3. CASE d # c /\ life[d] # "running"
      BY <1>3, <2>3 DEF Known, Unheard
    <2> QED
      BY <2>1, <2>2, <2>3
  <1> QED
    BY <1>5, <1>7, <1>9 DEF Inv

LEMMA StopStep == ASSUME Inv, NEW c \in Clients, Stop(c) PROVE Inv'
  <1>1. /\ Exit(c, "ended") /\ life[c] = "quitting"
        /\ UNCHANGED <<inbox, online, room, drops>>
    BY DEF Stop, service
  <1>2. /\ life' = [life EXCEPT ![c] = "ended"]
        /\ app' = [app EXCEPT ![c] = SERVER_CONNECTING]
        /\ SERVER_CONNECTING \in AppStates
    BY <1>1 DEF Exit, AppStates
  <1>3. /\ \A d \in Clients \ {c} : bin'[d] = bin[d] /\ peers'[d] = peers[d]
        /\ peers' \in [Clients -> SUBSET Clients]
        /\ bin' \in [Clients -> [Clients -> Stages]]
        /\ ice' \in [Clients -> 0..MaxIce]
        /\ busy' \in [Clients -> Clients \cup {None}]
    BY <1>1, ExitFacts
  <1>4. /\ life'[c] = "ended" /\ c \notin online
        /\ \A d \in Clients \ {c} : life'[d] = life[d] /\ app'[d] = app[d]
    BY <1>1, <1>2 DEF Inv, Types, Registered
  <1>5. Types'
    BY <1>1, <1>2, <1>3 DEF Inv, Types
  <1>6. ASSUME NEW d \in Clients PROVE Registered(d)'
    <2>1. Registered(d)
      BY DEF Inv
    <2> QED
      BY <1>1, <1>3, <1>4, <2>1 DEF Registered, Outside
  <1>7. \A p \in Clients : Fresh(p)' => Fresh(p)
    BY <1>1, <1>4 DEF Fresh, Outside
  <1>8. ASSUME NEW d \in Clients, NEW p \in Clients PROVE Known(d, p)' /\ Unheard(d, p)'
    <2>1. Known(d, p) /\ Unheard(d, p)
      BY DEF Inv
    <2> QED
      BY <1>1, <1>3, <1>4, <1>7, <2>1 DEF Known, Unheard
  <1> QED
    BY <1>5, <1>6, <1>8 DEF Inv

\* HELLO is sent: c is registered, and not in the room yet.
LEMMA HelloStep ==
  ASSUME Inv, NEW c \in Clients, ServerConnected(c)
  PROVE  Inv'
  <1>1. /\ life[c] = "running" /\ app[c] = SERVER_CONNECTING
        /\ inbox[c] = <<>> /\ bin[c] = NoBins /\ c \notin online /\ c \notin room
        /\ Fresh(c)
    BY DEF ServerConnected, Idle, Inv, Registered, Fresh
  <1>2. /\ UNCHANGED <<life, peers, bin, ice, busy, room>>
        /\ inbox \in [Clients -> Seq(Sent)] /\ app \in [Clients -> AppStates]
    BY DEF ServerConnected, Inv, Types
  <1>3. PICK kind \in {"hello", "closed"} :
          /\ inbox' = Put(inbox, c, Msg(kind, None))
          /\ kind = "hello" => /\ SetApp(c, SERVER_REGISTERING)
                               /\ online' = online \cup {c} /\ UNCHANGED drops
          /\ kind = "closed" => /\ SetApp(c, SERVER_CONNECTED)
                                /\ UNCHANGED online
                                /\ drops < MaxDrops /\ drops' = drops + 1
    BY DEF ServerConnected
  <1> DEFINE m == Msg(kind, None)
  <1>4. m \in Sent /\ \A p \in Clients : ~About(m, p) /\ ~Leaves(m, p)
    BY MsgSent, Service
  <1>5. /\ inbox' \in [Clients -> Seq(Sent)] /\ inbox'[c] = Append(inbox[c], m)
        /\ \A d \in Clients \ {c} : inbox'[d] = inbox[d]
    BY <1>2, <1>3, <1>4, AppendFacts DEF Put
  <1>6. inbox'[c] = <<m>>
    BY <1>1, <1>5
  <1>7. /\ app' \in [Clients -> AppStates]
        /\ app'[c] \in {SERVER_REGISTERING, SERVER_CONNECTED}
        /\ app'[c] # SERVER_CONNECTING
        /\ kind = "hello" => app'[c] = SERVER_REGISTERING
        /\ \A d \in Clients \ {c} : app'[d] = app[d]
    <2>1. /\ {SERVER_REGISTERING, SERVER_CONNECTED} \subseteq AppStates
          /\ SERVER_CONNECTING \notin {SERVER_REGISTERING, SERVER_CONNECTED}
      BY DEF AppStates, SERVER_REGISTERING, SERVER_CONNECTED, SERVER_CONNECTING
    <2>2. PICK a \in {SERVER_REGISTERING, SERVER_CONNECTED} :
            SetApp(c, a) /\ (kind = "hello" => a = SERVER_REGISTERING)
      BY <1>3
    <2>3. app' = [app EXCEPT ![c] = a]
      BY <2>2 DEF SetApp
    <2> QED
      BY <1>2, <2>1, <2>2, <2>3
  <1>8. Types'
    BY <1>2, <1>3, <1>5, <1>7, ClientsAssumption DEF Inv, Types
  <1>9. ASSUME NEW d \in Clients PROVE Registered(d)'
    <2>1. CASE d = c
      BY <1>1, <1>2, <1>3, <1>6, <1>7, <2>1 DEF Registered, Outside
    <2>2. CASE d # c
      <3>1. Registered(d)
        BY DEF Inv
      <3> QED
        BY <1>2, <1>3, <1>5, <1>7, <2>2, <3>1 DEF Registered, Outside
    <2> QED
      BY <2>1, <2>2
  <1>10. ASSUME NEW p \in Clients PROVE Fresh(p)' => Fresh(p)
    <2>1. CASE p = c
      BY <1>1, <2>1
    <2>2. CASE p # c
      BY <1>2, <1>3, <1>7, <2>2 DEF Fresh, Outside
    <2> QED
      BY <2>1, <2>2
  <1> HIDE DEF m
  <1>11. ASSUME NEW d \in Clients, NEW p \in Clients PROVE Known(d, p)' /\ Unheard(d, p)'
    <2>0. Known(d, p) /\ Unheard(d, p)
      BY DEF Inv
    <2>1. CASE d = c
      <3>0. inbox[c] \in Seq(Sent)
        BY <1>2
      <3>1. Follows(inbox[c], p, peers[c]) => Follows(inbox'[c], p, peers[c])
        BY <1>4, <1>5, <3>0, FollowsAppend
      <3>2. NoLeft(inbox[c], p) => NoLeft(inbox'[c], p)
        BY <1>4, <1>5, <3>0, NoLeftAppend
      <3> QED
        BY <1>1, <1>2, <1>10, <2>0, <2>1, <3>1, <3>2 DEF Known, Unheard
    <2>2. CASE d # c
      BY <1>2, <1>5, <1>10, <2>0, <2>2 DEF Known, Unheard
    <2> QED
      BY <2>1, <2>2
  <1> QED
    BY <1>8, <1>9, <1>11 DEF Inv

\* ROOM: the members are told that c has joined, and c who they are.
LEMMA EnterStep ==
  ASSUME Inv, NEW c \in Clients, life[c] = "running", c \in online,
         app[c] = SERVER_REGISTERING, inbox[c] # <<>>,
         SetApp(c, ROOM_JOINING), EnterRoom(Rest(c), c),
         UNCHANGED <<life, peers, bin, ice, busy, online, drops>>
  PROVE  Inv'
  <1> DEFINE m == Msg("joined", c)
             ok == RoomOk(room)
  <1>1. /\ inbox \in [Clients -> Seq(Sent)] /\ room \subseteq Clients
        /\ app \in [Clients -> AppStates]
    BY DEF Inv, Types
  <1>2. c \notin room /\ Outside(c) /\ Fresh(c)
    BY DEF Inv, Registered, Outside, Fresh
  <1>3. inbox[c] = <<Msg("hello", None)>>
    BY <1>2 DEF Inv, Registered
  <1>4. m \in Sent /\ ok \in Sent /\ <<>> \in Seq(Sent)
    BY <1>1, MsgSent DEF AboutKinds
  <1>5. /\ \A p \in Clients : ~About(m, p) /\ ~Leaves(m, p) /\ (Announces(m, p) <=> p = c)
        /\ \A p \in Clients : ~About(ok, p) /\ ~Leaves(ok, p)
        /\ \A p \in Clients : Announces(ok, p) <=> p \in room
    BY DEF Msg, RoomOk, About, Leaves, Announces, AboutKinds
  <1>6. /\ Rest(c) \in [Clients -> Seq(Sent)] /\ Rest(c)[c] = <<>>
        /\ \A d \in Clients \ {c} : Rest(c)[d] = inbox[d]
    BY <1>1, <1>3, <1>4 DEF Rest
  <1>7. /\ room' = room \cup {c}
        /\ inbox' = Put(PutAll(Rest(c), room, m), c, ok)
    BY DEF EnterRoom
  <1>8. /\ inbox' \in [Clients -> Seq(Sent)]
        /\ inbox'[c] = Append(<<>>, ok)
        /\ \A d \in Clients \ {c} :
             inbox'[d] = IF d \in room THEN Append(inbox[d], m) ELSE inbox[d]
    <2> HIDE DEF m, ok
    <2>1. \A d \in Clients : Append(Rest(c)[d], m) \in Seq(Sent)
      BY <1>4, <1>6, AppendFacts
    <2>2. PutAll(Rest(c), room, m) \in [Clients -> Seq(Sent)]
      BY <1>6, <2>1 DEF PutAll
    <2>3. PutAll(Rest(c), room, m)[c] = <<>>
      BY <1>2, <1>6 DEF PutAll
    <2>4. Append(<<>>, ok) \in Seq(Sent)
      BY <1>4, AppendFacts
    <2>5. inbox' = [PutAll(Rest(c), room, m) EXCEPT ![c] = Append(<<>>, ok)]
      BY <1>7, <2>2, <2>3 DEF Put
    <2>6. \A d \in Clients \ {c} : inbox'[d] = PutAll(Rest(c), room, m)[d]
      BY <2>2, <2>5
    <2>7. \A d \in Clients \ {c} :
            PutAll(Rest(c), room, m)[d] = IF d \in room THEN Append(inbox[d], m) ELSE inbox[d]
      BY <1>6 DEF PutAll
    <2> QED
      BY <2>2, <2>4, <2>5, <2>6, <2>7
  <1> HIDE DEF m, ok
  <1>9. /\ app' \in [Clients -> AppStates] /\ app'[c] = ROOM_JOINING
        /\ \A d \in Clients \ {c} : app'[d] = app[d]
        /\ app'[c] # SERVER_CONNECTING /\ app'[c] # SERVER_REGISTERING
    <2>1. /\ ROOM_JOINING \in AppStates
          /\ ROOM_JOINING # SERVER_CONNECTING /\ ROOM_JOINING # SERVER_REGISTERING
      BY DEF AppStates, ROOM_JOINING, SERVER_CONNECTING, SERVER_REGISTERING
    <2> QED
      BY <1>1, <2>1 DEF SetApp
  <1>10. Types'
    BY <1>7, <1>8, <1>9 DEF Inv, Types
  <1>11. ASSUME NEW d \in Clients PROVE Registered(d)'
    <2>1. CASE d = c
      BY <1>7, <1>9, <2>1 DEF Registered, Outside
    <2>2. CASE d # c
      <3>1. Registered(d) /\ (d \notin room => inbox'[d] = inbox[d])
        BY <1>8, <2>2 DEF Inv
      <3> QED
        BY <1>7, <1>9, <2>2, <3>1 DEF Registered, Outside
    <2> QED
      BY <2>1, <2>2
  <1>12. ASSUME NEW p \in Clients PROVE Fresh(p)' => p # c /\ Fresh(p)
    BY <1>7, <1>9 DEF Fresh, Outside
  <1>13. ASSUME NEW d \in Clients, NEW p \in Clients PROVE Known(d, p)' /\ Unheard(d, p)'
    <2>0. Known(d, p) /\ Unheard(d, p) /\ inbox[d] \in Seq(Sent)
      BY <1>1 DEF Inv
    <2>1. CASE d = c
      <3>1. Follows(<<>>, p, peers[c]) /\ NoLeft(<<>>, p)
        BY DEF Follows, NoLeft
      <3>2. Follows(inbox'[c], p, peers[c])
        BY <1>4, <1>5, <1>8, <3>1, FollowsAppend
      <3>3. NoLeft(inbox'[c], p)
        BY <1>4, <1>5, <1>8, <3>1, NoLeftAppend
      <3>4. p \in room => WillList(inbox'[c], p, peers[c])
        BY <1>4, <1>5, <1>8, <3>1, WillListAppend
      <3> QED
        BY <1>7, <2>1, <3>2, <3>3, <3>4 DEF Known, Unheard
    <2>2. CASE d # c /\ d \in room
      <3>1. life[d] = "running" /\ NoLeft(inbox[d], c)
        BY <1>2, <2>2 DEF Inv, Registered, Unheard
      <3>2. inbox'[d] = Append(inbox[d], m)
        BY <1>8, <2>2
      <3>3. Follows(inbox'[d], p, peers[d])
        BY <1>4, <1>5, <2>0, <3>1, <3>2, FollowsAppend DEF Known
      <3>4. NoLeft(inbox[d], p) => NoLeft(inbox'[d], p)
        BY <1>4, <1>5, <2>0, <3>2, NoLeftAppend
      <3>5. p = c => WillList(inbox'[d], p, peers[d])
        BY <1>4, <1>5, <2>0, <3>1, <3>2, WillListAppend
      <3>6. p \in room /\ d # p => WillList(inbox'[d], p, peers[d])
        <4>1. p \in room /\ d # p => WillList(inbox[d], p, peers[d])
          BY <2>0, <2>2, <3>1 DEF Known
        <4> QED
          BY <1>4, <1>5, <2>0, <3>2, <4>1, WillListAppend DEF WillList
      <3> QED
        BY <1>7, <1>12, <2>0, <3>1, <3>3, <3>4, <3>5, <3>6 DEF Known, Unheard
    <2>3. CASE d # c /\ d \notin room
      BY <1>7, <1>8, <1>12, <2>0, <2>3 DEF Known, Unheard
    <2> QED
      BY <2>1, <2>2, <2>3
  <1> QED
    BY <1>10, <1>11, <1>13 DEF Inv

-----------------------------------------------------------------------------
(* The main loop.                                                          *)

LEMMA Headed ==
  ASSUME Inv, NEW c \in Clients, NEW kind, Receives(c, kind)
  PROVE  /\ life[c] = "running" /\ inbox[c] # <<>> /\ Head(inbox[c]).kind = kind
         /\ Head(inbox[c]) \in Sent
         /\ app \in [Clients -> AppStates] /\ peers \in [Clients -> SUBSET Clients]
         /\ bin \in [Clients -> [Clients -> Stages]]
         /\ busy \in [Clients -> Clients \cup {None}]
         /\ ice \in [Clients -> 0..MaxIce]
         /\ app' = app => app' = [app EXCEPT ![c] = app[c]]
         /\ bin' = bin => bin' = [bin EXCEPT ![c] = bin[c]]
         /\ peers' = peers => peers' = [peers EXCEPT ![c] = peers[c]]
  <1>1. Types
    BY DEF Inv
  <1>2. inbox[c] \in Seq(Sent)
    BY <1>1 DEF Types
  <1> QED
    BY <1>1, <1>2, TailFacts DEF Receives, Idle, Types

LEMMA DoRegistrationStep ==
  ASSUME Inv, NEW c \in Clients, DoRegistration(c)
  PROVE  Inv'
  <1>1. /\ life[c] = "running" /\ inbox[c] # <<>> /\ Head(inbox[c]).kind = "hello"
        /\ ice' \in [Clients -> 0..MaxIce]
        /\ UNCHANGED <<peers, bin, ice, busy, drops>>
    BY Headed DEF DoRegistration
  <1>2. CASE Quit(c, ERROR)
    BY <1>1, <1>2, QuitStep DEF AppStates
  <1>3. CASE Quit(c, ROOM_CALL_ERROR)
    BY <1>1, <1>3, QuitStep DEF AppStates
  <1>4. CASE /\ app[c] = SERVER_REGISTERING /\ SetApp(c, ROOM_JOINING)
             /\ EnterRoom(Rest(c), c) /\ UNCHANGED <<life, online>>
    <2>1. CASE c \in online
      BY <1>1, <1>4, <2>1, EnterStep
    <2>2. CASE c \notin online
      <3>1. /\ peers[c] \in SUBSET Clients /\ peers' = [peers EXCEPT ![c] = peers[c]]
            /\ bin[c] \in [Clients -> Stages] /\ bin' = [bin EXCEPT ![c] = bin[c]]
            /\ busy' \in [Clients -> Clients \cup {None}]
        BY <1>1 DEF Inv, Types
      <3>2. /\ ROOM_JOINING \in AppStates \ {SERVER_CONNECTING, SERVER_REGISTERING}
            /\ app' = [app EXCEPT ![c] = ROOM_JOINING]
        BY <1>4 DEF SetApp, AppStates, ROOM_JOINING, SERVER_CONNECTING, SERVER_REGISTERING
      <3>3. inbox' = Rest(c) /\ room' = room
        BY <1>4, <2>2 DEF EnterRoom
      <3>4. \A p \in Clients : ~Announces(Head(inbox[c]), p)
        BY <1>1 DEF Announces
      <3> QED
        BY <1>1, <1>4, <2>2, <3>1, <3>2, <3>3, <3>4, ReadStep
    <2> QED
      BY <2>1, <2>2
  <1> QED
    BY <1>2, <1>3, <1>4 DEF DoRegistration

\* Those that only end the program.
LEMMA EndingSteps ==
  ASSUME Inv, NEW c \in Clients,
         ConnectFails(c) \/ PipelineFails(c) \/ HandleError(c) \/ ServerClosed(c)
  PROVE  Inv'
  <1>1. \A state \in {SERVER_CONNECTION_ERROR, ROOM_CALL_ERROR, SERVER_CLOSED} :
          state \in AppStates
    BY DEF AppStates
  <1>2. ErrorState(app[c]) \in AppStates
    BY DEF ErrorState, AppStates
  <1>3. PICK state \in AppStates : Quit(c, state)
    BY <1>1, <1>2 DEF ConnectFails, PipelineFails, HandleError, ServerClosed
  <1>4. UNCHANGED <<peers, bin, ice, busy, drops>>
    BY DEF ConnectFails, PipelineFails, HandleError, ServerClosed
  <1>5. ice' \in [Clients -> 0..MaxIce]
    BY <1>4 DEF Inv, Types
  <1> QED
    BY <1>3, <1>4, <1>5, QuitStep

LEMMA DoJoinRoomStep ==
  ASSUME Inv, NEW c \in Clients, DoJoinRoom(c)
  PROVE  Inv'
  <1> DEFINE members == Head(inbox[c]).members
  <1>1. /\ life[c] = "running" /\ inbox[c] # <<>> /\ Head(inbox[c]).kind = "room_ok"
        /\ Head(inbox[c]) \in Sent /\ UNCHANGED <<ice, busy, drops>>
    BY Headed DEF DoJoinRoom
  <1>2. CASE app[c] # ROOM_JOINING
    <2>1. ice' \in [Clients -> 0..MaxIce]
      BY <1>1 DEF Inv, Types
    <2> QED
      BY <1>1, <1>2, <2>1, QuitStep DEF DoJoinRoom, AppStates
  <1>3. CASE app[c] = ROOM_JOINING
    <2>1. members \subseteq Clients
      BY <1>1 DEF Sent, Message
    <2>2. /\ StateOnJoin(members) \in AppStates \ {SERVER_CONNECTING, SERVER_REGISTERING}
          /\ app' = [app EXCEPT ![c] = StateOnJoin(members)]
      BY <1>3 DEF DoJoinRoom, SetApp, StateOnJoin, AppStates, ROOM_JOINED,
                  ROOM_CALL_OFFERING, SERVER_CONNECTING, SERVER_REGISTERING
    <2>3. /\ Call(bin[c], members) \in [Clients -> Stages]
          /\ bin' = [bin EXCEPT ![c] = Call(bin[c], members)]
      BY <1>3 DEF DoJoinRoom, Call, Inv, Types, Stages
    <2>4. /\ peers[c] \cup members \in SUBSET Clients
          /\ peers' = [peers EXCEPT ![c] = peers[c] \cup members]
      BY <1>3, <2>1 DEF DoJoinRoom, List, Inv, Types
    <2>5. \A p \in Clients : Announces(Head(inbox[c]), p) => p \in members
      BY <1>1 DEF Announces
    <2>6. inbox' = Rest(c) /\ UNCHANGED <<life, online, room>>
      BY <1>3 DEF DoJoinRoom
    <2>7. busy' \in [Clients -> Clients \cup {None}]
      BY <1>1 DEF Inv, Types
    <2>8. \A p \in Clients :
            (p \in peers[c] \/ Announces(Head(inbox[c]), p)) /\ ~Leaves(Head(inbox[c]), p)
              => p \in peers[c] \cup members
      BY <2>5
    <2> HIDE DEF members
    <2> QED
      BY <1>1, <2>2, <2>3, <2>4, <2>6, <2>7, <2>8, ReadStep
  <1> QED
    BY <1>2, <1>3

LEMMA PeerJoinedStep ==
  ASSUME Inv, NEW c \in Clients, PeerJoined(c)
  PROVE  Inv'
  <1> DEFINE L == peers[c] \cup {From(c)}
  <1>1. /\ life[c] = "running" /\ inbox[c] # <<>> /\ Head(inbox[c]).kind = "joined"
        /\ Head(inbox[c]) \in Sent
        /\ app' = [app EXCEPT ![c] = app[c]] /\ app[c] \in AppStates
        /\ bin' = [bin EXCEPT ![c] = bin[c]] /\ bin[c] \in [Clients -> Stages]
        /\ busy' \in [Clients -> Clients \cup {None}] /\ peers[c] \subseteq Clients
    BY Headed DEF PeerJoined
  <1>2. L \in SUBSET Clients
    BY <1>1 DEF Sent, From
  <1>3. \A p \in Clients :
          (p \in peers[c] \/ Announces(Head(inbox[c]), p)) /\ ~Leaves(Head(inbox[c]), p)
            => p \in L
    BY <1>1 DEF Announces, From
  <1>4. /\ peers' = [peers EXCEPT ![c] = L] /\ inbox' = Rest(c)
        /\ UNCHANGED <<life, ice, online, room, drops>>
    BY DEF PeerJoined
  <1> HIDE DEF L
  <1> QED
    BY <1>1, <1>2, <1>3, <1>4, ReadStep

LEMMA PeerLeftStep ==
  ASSUME Inv, NEW c \in Clients, PeerLeft(c)
  PROVE  Inv'
  <1> DEFINE L == peers[c] \ {From(c)}
  <1>1. /\ life[c] = "running" /\ inbox[c] # <<>> /\ Head(inbox[c]).kind = "left"
        /\ peers[c] \subseteq Clients /\ UNCHANGED drops
    BY Headed DEF PeerLeft
  <1>2. CASE Abort(c)
    BY <1>1, <1>2, AbortStep
  <1>3. CASE ~Abort(c)
    <2>1. /\ peers' = [peers EXCEPT ![c] = L] /\ inbox' = Rest(c)
          /\ UNCHANGED <<app, life, bin, ice, busy, online, room>>
      BY <1>3 DEF PeerLeft
    <2>2. /\ app' = [app EXCEPT ![c] = app[c]] /\ app[c] \in AppStates
          /\ bin' = [bin EXCEPT ![c] = bin[c]] /\ bin[c] \in [Clients -> Stages]
          /\ busy' \in [Clients -> Clients \cup {None}]
      BY <2>1 DEF Inv, Types
    <2>3. \A p \in Clients :
            (p \in peers[c] \/ Announces(Head(inbox[c]), p)) /\ ~Leaves(Head(inbox[c]), p)
              => p \in L
      BY <1>1 DEF Announces, Leaves, From
    <2>4. L \in SUBSET Clients
      BY <1>1
    <2> HIDE DEF L
    <2> QED
      BY <1>1, <2>1, <2>2, <2>3, <2>4, ReadStep
  <1> QED
    BY <1>2, <1>3

\* An offer, an answer or a candidate that is not refused.
LEMMA PeerMessageStep ==
  ASSUME Inv, NEW c \in Clients, NEW kind \in {"offer", "answer", "ice"},
         Receives(c, kind), inbox' = Rest(c),
         NEW a \in AppStates, app' = [app EXCEPT ![c] = a],
         a = app[c] \/ a \notin {SERVER_CONNECTING, SERVER_REGISTERING},
         NEW B \in [Clients -> Stages], bin' = [bin EXCEPT ![c] = B],
         busy' \in [Clients -> Clients \cup {None}],
         UNCHANGED <<life, peers, ice, online, room, drops>>
  PROVE  Inv'
  <1>1. /\ life[c] = "running" /\ inbox[c] # <<>> /\ Head(inbox[c]).kind = kind
        /\ peers' = [peers EXCEPT ![c] = peers[c]] /\ peers[c] \in SUBSET Clients
    BY Headed
  <1>2. \A p \in Clients : ~Announces(Head(inbox[c]), p)
    BY <1>1 DEF Announces
  <1> QED
    BY <1>1, <1>2, ReadStep

LEMMA PeerOfferStep ==
  ASSUME Inv, NEW c \in Clients, PeerOffer(c)
  PROVE  Inv'
  <1>1. Receives(c, "offer") /\ UNCHANGED drops
    BY DEF PeerOffer
  <1>2. CASE Abort(c)
    BY <1>1, <1>2, AbortStep
  <1>3. CASE ~Abort(c)
    <2> DEFINE B == [bin[c] EXCEPT ![From(c)] = "called"]
    <2>1. /\ Listed(c, From(c)) /\ SetApp(c, ROOM_CALL_ANSWERING)
          /\ SetBin(c, From(c), "called") /\ busy' = [busy EXCEPT ![c] = From(c)]
          /\ inbox' = Rest(c) /\ UNCHANGED <<life, peers, ice, online, room>>
      BY <1>3 DEF PeerOffer
    <2>2. /\ ROOM_CALL_ANSWERING \in AppStates \ {SERVER_CONNECTING, SERVER_REGISTERING}
          /\ app' = [app EXCEPT ![c] = ROOM_CALL_ANSWERING]
      BY <2>1 DEF SetApp, AppStates, ROOM_CALL_ANSWERING, SERVER_CONNECTING,
                  SERVER_REGISTERING
    <2>3. /\ From(c) \in Clients /\ busy' \in [Clients -> Clients \cup {None}]
          /\ B \in [Clients -> Stages] /\ bin' = [bin EXCEPT ![c] = B]
      BY <2>1 DEF Listed, SetBin, Stages, Inv, Types
    <2> HIDE DEF B
    <2> QED
      BY <1>1, <2>1, <2>2, <2>3, PeerMessageStep
  <1> QED
    BY <1>2, <1>3

LEMMA PeerAnswerStep ==
  ASSUME Inv, NEW c \in Clients, PeerAnswer(c)
  PROVE  Inv'
  <1>1. Receives(c, "answer") /\ UNCHANGED drops
    BY DEF PeerAnswer
  <1>2. CASE Abort(c)
    BY <1>1, <1>2, AbortStep
  <1>3. CASE ~Abort(c)
    <2> DEFINE B == [bin[c] EXCEPT ![From(c)] = "connected"]
    <2>1. /\ InPipeline(c, From(c)) /\ SetApp(c, ROOM_CALL_STARTED)
          /\ SetBin(c, From(c), "connected")
          /\ inbox' = Rest(c) /\ UNCHANGED <<life, peers, ice, busy, online, room>>
      BY <1>3 DEF PeerAnswer
    <2>2. /\ ROOM_CALL_STARTED \in AppStates \ {SERVER_CONNECTING, SERVER_REGISTERING}
          /\ app' = [app EXCEPT ![c] = ROOM_CALL_STARTED]
      BY <2>1 DEF SetApp, AppStates, ROOM_CALL_STARTED, SERVER_CONNECTING,
                  SERVER_REGISTERING
    <2>3. /\ busy' \in [Clients -> Clients \cup {None}]
          /\ B \in [Clients -> Stages] /\ bin' = [bin EXCEPT ![c] = B]
      BY <2>1 DEF SetBin, Stages, Inv, Types
    <2> HIDE DEF B
    <2> QED
      BY <1>1, <2>1, <2>2, <2>3, PeerMessageStep
  <1> QED
    BY <1>2, <1>3

LEMMA PeerIceStep ==
  ASSUME Inv, NEW c \in Clients, PeerIce(c)
  PROVE  Inv'
  <1>1. Receives(c, "ice") /\ UNCHANGED drops
    BY DEF PeerIce
  <1>2. CASE Abort(c)
    BY <1>1, <1>2, AbortStep
  <1>3. CASE ~Abort(c)
    <2>1. inbox' = Rest(c) /\ UNCHANGED <<app, life, peers, bin, ice, busy, online, room>>
      BY <1>3 DEF PeerIce, client
    <2>2. /\ app' = [app EXCEPT ![c] = app[c]] /\ app[c] \in AppStates
          /\ bin' = [bin EXCEPT ![c] = bin[c]] /\ bin[c] \in [Clients -> Stages]
          /\ busy' \in [Clients -> Clients \cup {None}]
      BY <2>1 DEF Inv, Types
    <2> QED
      BY <1>1, <2>1, <2>2, PeerMessageStep
  <1> QED
    BY <1>2, <1>3

LEMMA HandleSdpOfferStep ==
  ASSUME Inv, NEW c \in Clients, HandleSdpOffer(c)
  PROVE  Inv'
  <1>1. CASE Abort(c)
    BY <1>1, AbortStep DEF HandleSdpOffer
  <1>2. CASE ~Abort(c)
    <2> DEFINE B == [bin[c] EXCEPT ![busy[c]] = "answering"]
    <2>1. /\ app[c] = ROOM_CALL_ANSWERING /\ busy[c] # None
          /\ SetBin(c, busy[c], "answering") /\ busy' = [busy EXCEPT ![c] = None]
          /\ UNCHANGED <<app, life, peers, ice, service, drops>>
      BY <1>2 DEF HandleSdpOffer
    <2>2. ROOM_CALL_ANSWERING \in AppStates \ {SERVER_CONNECTING, SERVER_REGISTERING}
      BY DEF AppStates, ROOM_CALL_ANSWERING, SERVER_CONNECTING, SERVER_REGISTERING
    <2>3. Entered(c)
      BY <2>1, <2>2 DEF Entered, Inv, Registered
    <2>4. /\ busy' \in [Clients -> Clients \cup {None}]
          /\ B \in [Clients -> Stages] /\ bin' = [bin EXCEPT ![c] = B]
      BY <2>1 DEF SetBin, Stages, Inv, Types
    <2> HIDE DEF B
    <2> QED
      BY <2>1, <2>2, <2>3, <2>4, LocalStep
  <1> QED
    BY <1>1, <1>2

LEMMA MainLoopStep == ASSUME Inv, NEW c \in Clients, MainLoop(c) PROVE Inv'
  BY HelloStep, EndingSteps, DoRegistrationStep, DoJoinRoomStep, PeerJoinedStep,
     PeerLeftStep, PeerOfferStep, HandleSdpOfferStep, PeerAnswerStep, PeerIceStep
     DEF MainLoop

-----------------------------------------------------------------------------
(* The webrtcbins.                                                         *)

LEMMA SetStage ==
  ASSUME Inv, NEW c \in Clients, NEW p \in Clients, NEW stage \in Stages,
         SetBin(c, p, stage)
  PROVE  \E B \in [Clients -> Stages] : bin' = [bin EXCEPT ![c] = B]
  <1>1. [bin[c] EXCEPT ![p] = stage] \in [Clients -> Stages]
    BY DEF Inv, Types
  <1> QED
    BY <1>1 DEF SetBin

LEMMA StateSetStep ==
  ASSUME Inv, NEW c \in Clients, NEW p \in Clients,
         NegotiationNeeded(c, p) \/ CallStarted(c, p)
  PROVE  Inv'
  <1>1. /\ bin[c][p] # "none" /\ UNCHANGED <<life, peers, ice, busy, service, drops>>
        /\ SetBin(c, p, "creating") \/ SetBin(c, p, "connected")
    BY DEF NegotiationNeeded, CallStarted
  <1>2. PICK a \in {ROOM_CALL_OFFERING, ROOM_CALL_STARTED} : SetApp(c, a)
    BY DEF NegotiationNeeded, CallStarted
  <1>3. /\ a \in AppStates \ {SERVER_CONNECTING, SERVER_REGISTERING}
        /\ app' = [app EXCEPT ![c] = a]
    BY <1>2 DEF SetApp, AppStates, ROOM_CALL_OFFERING, ROOM_CALL_STARTED,
                SERVER_CONNECTING, SERVER_REGISTERING
  <1>4. PICK B \in [Clients -> Stages] : bin' = [bin EXCEPT ![c] = B]
    BY <1>1, SetStage DEF Stages
  <1>5. Entered(c) /\ busy' \in [Clients -> Clients \cup {None}]
    BY <1>1, WithBins DEF Inv, Types
  <1> QED
    BY <1>1, <1>3, <1>4, <1>5, LocalStep

LEMMA CreatedStep ==
  ASSUME Inv, NEW c \in Clients, NEW p \in Clients \ {c},
         OfferCreated(c, p) \/ AnswerCreated(c, p)
  PROVE  Inv'
  <1>1. CASE Abort(c)
    BY <1>1, AbortStep DEF OfferCreated, AnswerCreated
  <1>2. CASE ~Abort(c)
    <2>1. /\ bin[c][p] # "none"
          /\ \E kind \in {"offer", "answer"} : inbox' = Relay(inbox, c, p, kind)
          /\ SetBin(c, p, "offered") \/ SetBin(c, p, "answered")
          /\ UNCHANGED <<app, life, peers, ice, busy, online, room, drops>>
      BY <1>2 DEF OfferCreated, AnswerCreated
    <2>2. PICK B \in [Clients -> Stages] : bin' = [bin EXCEPT ![c] = B]
      BY <2>1, SetStage DEF Stages
    <2>3. ice' \in [Clients -> 0..MaxIce]
      BY <2>1 DEF Inv, Types
    <2> QED
      BY <2>1, <2>2, <2>3, RelayStep
  <1> QED
    BY <1>1, <1>2

LEMMA SendIceStep ==
  ASSUME Inv, NEW c \in Clients, NEW p \in Clients \ {c}, SendIceCandidate(c, p)
  PROVE  Inv'
  <1>1. /\ bin[c][p] # "none" /\ UNCHANGED <<peers, bin, busy, drops>>
        /\ ice[c] > 0 /\ ice' = [ice EXCEPT ![c] = @ - 1]
    BY DEF SendIceCandidate, Gathering
  <1>2. ice' \in [Clients -> 0..MaxIce]
    BY <1>1, ClientsAssumption DEF Inv, Types
  <1>3. CASE app[c] < ROOM_CALL_OFFERING
    BY <1>1, <1>2, <1>3, QuitStep DEF SendIceCandidate, AppStates
  <1>4. CASE ~(app[c] < ROOM_CALL_OFFERING)
    <2>1. inbox' = Relay(inbox, c, p, "ice") /\ UNCHANGED <<app, life, online, room>>
      BY <1>4 DEF SendIceCandidate
    <2>2. bin[c] \in [Clients -> Stages] /\ bin' = [bin EXCEPT ![c] = bin[c]]
      BY <1>1 DEF Inv, Types
    <2> QED
      BY <1>1, <1>2, <2>1, <2>2, RelayStep
  <1> QED
    BY <1>3, <1>4

LEMMA CallbackStep ==
  ASSUME Inv, NEW c \in Clients, Callbacks(c)
  PROVE  Inv'
  BY StateSetStep, CreatedStep, SendIceStep DEF Callbacks, Callback

LEMMA NextInv == Inv /\ [Next]_vars => Inv'
  <1> SUFFICES ASSUME Inv, [Next]_vars PROVE Inv'
    OBVIOUS
  <1>1. CASE Next
    BY <1>1, DropStep, StopStep, MainLoopStep, CallbackStep DEF Next
  <1>2. CASE UNCHANGED vars
    BY <1>2 DEF vars, client, service, Inv, Types, Registered, Outside, Known,
                Unheard, Fresh
  <1> QED
    BY <1>1, <1>2

THEOREM Invariance == Spec => []Inv
  BY InitInv, NextInv, PTL DEF Spec

-----------------------------------------------------------------------------
(* The theorems.                                                           *)

LEMMA SentSeq == ASSUME NEW q \in Seq(Sent) PROVE q \in Seq(Message)
  BY DEF Sent

\* Every variable keeps its type: app_state is one of the states in which a
\* step of another thread can find it, and a message is sent by a member.
THEOREM TypeCorrect == Spec => []TypeOK
  <1>1. Inv => TypeOK
    BY SentSeq DEF Inv, Types, TypeOK
  <1> QED
    BY <1>1, Invariance, PTL

\* Whoever an offer, an answer, a candidate or a departure is about is in the
\* list of the receiver: the search of find_peer_from_list (l.74) finds it.
THEOREM SenderListedHolds == Spec => []SenderListed
  <1>1. Inv => SenderListed
    <2> SUFFICES ASSUME Inv, NEW c \in Clients, NEW kind \in AboutKinds, Receives(c, kind)
                 PROVE  From(c) \in peers[c]
      BY DEF SenderListed, Listed, AboutKinds
    <2>1. /\ life[c] = "running" /\ inbox[c] # <<>> /\ Head(inbox[c]).kind = kind
          /\ Head(inbox[c]) \in Sent
      BY Headed
    <2>2. From(c) \in Clients /\ About(Head(inbox[c]), From(c))
      BY <2>1 DEF Sent, About, From
    <2>3. Follows(inbox[c], From(c), peers[c]) /\ inbox[c] \in Seq(Sent)
      BY <2>1, <2>2 DEF Inv, Types, Known
    <2> QED
      BY <2>1, <2>2, <2>3, FollowsHead
  <1> QED
    BY <1>1, Invariance, PTL

=============================================================================
