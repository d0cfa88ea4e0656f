----------------------- MODULE MultipartyCallProofs -------------------------
(***************************************************************************)
(* The calls of the members of a room, for any number of members: an offer *)
(* finds no webrtcbin of its sender, an answer the one that offered, and a *)
(* candidate one that is in the pipeline.                                  *)
(*                                                                         *)
(* The argument looks at two members, c and p, at what the webrtcbin of    *)
(* each has done for the other, and at what waits in their inboxes.  Who   *)
(* calls is settled when the second of the two enters the room: it is told *)
(* of the first in ROOM_OK, and the first of it in JOINED.                 *)
(***************************************************************************)
EXTENDS MultipartyClientProofs

Has(q, kind, p) == \E i \in 1..Len(q) : q[i].kind = kind /\ q[i].from = p
Once(q, kind, p) ==
  \A i, j \in 1..Len(q) :
    /\ q[i].kind = kind /\ q[i].from = p
    /\ q[j].kind = kind /\ q[j].from = p
    => i = j

\* c is told to call p.
Invites(m, p) == m.kind = "room_ok" /\ p \in m.members
Invited(q, p) == \E i \in 1..Len(q) : Invites(q[i], p)
InvitedOnce(q, p) ==
  \A i, j \in 1..Len(q) : Invites(q[i], p) /\ Invites(q[j], p) => i = j

\* The candidates of p come after its offer.
OfferBefore(q, p, i) == \E j \in 1..Len(q) : j < i /\ q[j].kind = "offer" /\ q[j].from = p
IceFollows(q, p) ==
  \A i \in 1..Len(q) : q[i].kind = "ice" /\ q[i].from = p => OfferBefore(q, p, i)

-----------------------------------------------------------------------------
(* The inductive invariant.                                                *)

\* What waits for c, and the stage of its webrtcbin for p.  The sender may
\* have left.
Tells(c, p) ==
  life[c] = "running" =>
    /\ Has(inbox[c], "offer", p) => bin[c][p] = "none" /\ ~Invited(inbox[c], p)
    /\ Has(inbox[c], "answer", p) => bin[c][p] = "offered"
    /\ Invited(inbox[c], p) => bin[c][p] = "none"
    /\ Once(inbox[c], "offer", p) /\ Once(inbox[c], "answer", p)
    /\ InvitedOnce(inbox[c], p)
    /\ bin[c][p] = "none" => IceFollows(inbox[c], p)

\* The stages of two members of the room, and what c has sent to p.
Agree(c, p) ==
  c \in room /\ p \in room /\ c # p =>
    /\ Invited(inbox[c], p) \/ bin[c][p] \in {"new", "creating"} =>
         bin[p][c] = "none" /\ ~Invited(inbox[p], c)
    /\ Has(inbox[p], "offer", c) => bin[c][p] = "offered"
    /\ Has(inbox[p], "answer", c) => bin[c][p] \in {"answered", "connected"}
    /\ bin[c][p] \in {"called", "answering"} => bin[p][c] = "offered"
    /\ bin[c][p] \notin {"none", "new", "creating"} =>
         bin[p][c] # "none" \/ Has(inbox[p], "offer", c)

\* Nobody has heard of a program that has not asked for the room.
Mentions(m, p) == m.from = p \/ Invites(m, p)
Unknown(c, p) ==
  Fresh(p) /\ life[c] = "running" =>
    bin[c][p] = "none" /\ \A i \in 1..Len(inbox[c]) : ~Mentions(inbox[c][i], p)

\* The webrtcbin of an offer that is being handled.
BusyCalled(c) ==
  life[c] = "running" /\ busy[c] # None => bin[c][busy[c]] = "called"

Calls ==
  /\ \A c, p \in Clients : Tells(c, p) /\ Agree(c, p) /\ Unknown(c, p)
  /\ \A c \in Clients : BusyCalled(c)
CallInv == Inv /\ Calls

-----------------------------------------------------------------------------
(* Inboxes.                                                                *)

LEMMA HasAppend ==
  ASSUME NEW q \in Seq(Sent), NEW m \in Sent, NEW kind, NEW p
  PROVE  Has(Append(q, m), kind, p) <=> Has(q, kind, p) \/ (m.kind = kind /\ m.from = p)
  BY AppendFacts DEF Has

LEMMA InvitedAppend ==
  ASSUME NEW q \in Seq(Sent), NEW m \in Sent, NEW p
  PROVE  Invited(Append(q, m), p) <=> Invited(q, p) \/ Invites(m, p)
  BY AppendFacts DEF Invited

LEMMA OnceAppend ==
  ASSUME NEW q \in Seq(Sent), NEW m \in Sent, NEW kind, NEW p,
         Once(q, kind, p), m.kind = kind /\ m.from = p => ~Has(q, kind, p)
  PROVE  Once(Append(q, m), kind, p)
  BY AppendFacts DEF Once, Has

LEMMA InvitedOnceAppend ==
  ASSUME NEW q \in Seq(Sent), NEW m \in Sent, NEW p,
         InvitedOnce(q, p), Invites(m, p) => ~Invited(q, p)
  PROVE  InvitedOnce(Append(q, m), p)
  BY AppendFacts DEF InvitedOnce, Invited

LEMMA IceAppend ==
  ASSUME NEW q \in Seq(Sent), NEW m \in Sent, NEW p, IceFollows(q, p),
         m.kind = "ice" /\ m.from = p => Has(q, "offer", p)
  PROVE  IceFollows(Append(q, m), p)
  <1> DEFINE r == Append(q, m)
  <1> SUFFICES ASSUME NEW i \in 1..Len(r), r[i].kind = "ice", r[i].from = p
               PROVE  OfferBefore(r, p, i)
    BY DEF IceFollows
  <1>1. CASE i \in 1..Len(q)
    <2>1. OfferBefore(q, p, i)
      BY <1>1, AppendFacts DEF IceFollows
    <2> QED
      BY <2>1, AppendFacts DEF OfferBefore
  <1>2. CASE i = Len(q) + 1
    <2>1. Has(q, "offer", p)
      BY <1>2, AppendFacts
    <2> QED
      BY <1>2, <2>1, AppendFacts DEF OfferBefore, Has
  <1> QED
    BY <1>1, <1>2, AppendFacts

LEMMA TailIndex ==
  ASSUME NEW q \in Seq(Sent), q # <<>>
  PROVE  /\ 1 \in 1..Len(q) /\ q[1] = Head(q)
         /\ \A i \in 1..Len(Tail(q)) : i + 1 \in 1..Len(q) /\ Tail(q)[i] = q[i + 1]
         /\ \A i \in 1..Len(q) : i # 1 => i - 1 \in 1..Len(Tail(q)) /\ Tail(q)[i - 1] = q[i]
         /\ \A i \in 1..Len(Tail(q)) : i + 1 # 1
  BY TailFacts

LEMMA HasTail ==
  ASSUME NEW q \in Seq(Sent), q # <<>>, NEW kind, NEW p
  PROVE  Has(q, kind, p) <=>
           Has(Tail(q), kind, p) \/ (Head(q).kind = kind /\ Head(q).from = p)
  <1>1. Has(q, kind, p) => Has(Tail(q), kind, p) \/ (Head(q).kind = kind /\ Head(q).from = p)
    BY TailIndex DEF Has
  <1>2. Has(Tail(q), kind, p) => Has(q, kind, p)
    BY TailIndex DEF Has
  <1>3. Head(q).kind = kind /\ Head(q).from = p => Has(q, kind, p)
    BY TailIndex DEF Has
  <1> QED
    BY <1>1, <1>2, <1>3

LEMMA InvitedTail ==
  ASSUME NEW q \in Seq(Sent), q # <<>>, NEW p
  PROVE  Invited(q, p) <=> Invited(Tail(q), p) \/ Invites(Head(q), p)
  <1>1. Invited(q, p) => Invited(Tail(q), p) \/ Invites(Head(q), p)
    BY TailIndex DEF Invited
  <1>2. Invited(Tail(q), p) => Invited(q, p)
    BY TailIndex DEF Invited
  <1>3. Invites(Head(q), p) => Invited(q, p)
    BY TailIndex DEF Invited
  <1> QED
    BY <1>1, <1>2, <1>3

LEMMA OnceTail ==
  ASSUME NEW q \in Seq(Sent), q # <<>>, NEW kind, NEW p, Once(q, kind, p)
  PROVE  /\ Once(Tail(q), kind, p)
         /\ Head(q).kind = kind /\ Head(q).from = p => ~Has(Tail(q), kind, p)
  <1>1. Once(Tail(q), kind, p)
    <2> SUFFICES ASSUME NEW i \in 1..Len(Tail(q)), NEW j \in 1..Len(Tail(q)),
                        Tail(q)[i].kind = kind, Tail(q)[i].from = p,
                        Tail(q)[j].kind = kind, Tail(q)[j].from = p
                 PROVE  i = j
      BY DEF Once
    <2>1. i + 1 = j + 1
      BY TailIndex DEF Once
    <2> QED
      BY <2>1, TailFacts
  <1>2. ASSUME Head(q).kind = kind, Head(q).from = p, Has(Tail(q), kind, p) PROVE FALSE
    <2>1. PICK i \in 1..Len(Tail(q)) : Tail(q)[i].kind = kind /\ Tail(q)[i].from = p
      BY <1>2 DEF Has
    <2>2. i + 1 = 1
      BY <1>2, <2>1, TailIndex DEF Once
    <2> QED
      BY <2>2, TailIndex
  <1> QED
    BY <1>1, <1>2

LEMMA InvitedOnceTail ==
  ASSUME NEW q \in Seq(Sent), q # <<>>, NEW p, InvitedOnce(q, p)
  PROVE  InvitedOnce(Tail(q), p) /\ (Invites(Head(q), p) => ~Invited(Tail(q), p))
  <1>1. InvitedOnce(Tail(q), p)
    <2> SUFFICES ASSUME NEW i \in 1..Len(Tail(q)), NEW j \in 1..Len(Tail(q)),
                        Invites(Tail(q)[i], p), Invites(Tail(q)[j], p)
                 PROVE  i = j
      BY DEF InvitedOnce
    <2>1. i + 1 = j + 1
      BY TailIndex DEF InvitedOnce
    <2> QED
      BY <2>1, TailFacts
  <1>2. ASSUME Invites(Head(q), p), Invited(Tail(q), p) PROVE FALSE
    <2>1. PICK i \in 1..Len(Tail(q)) : Invites(Tail(q)[i], p)
      BY <1>2 DEF Invited
    <2>2. i + 1 = 1
      BY <1>2, <2>1, TailIndex DEF InvitedOnce
    <2> QED
      BY <2>2, TailIndex
  <1> QED
    BY <1>1, <1>2

LEMMA IceTail ==
  ASSUME NEW q \in Seq(Sent), q # <<>>, NEW p, IceFollows(q, p),
         ~(Head(q).kind = "offer" /\ Head(q).from = p)
  PROVE  IceFollows(Tail(q), p)
  <1> SUFFICES ASSUME NEW i \in 1..Len(Tail(q)), Tail(q)[i].kind = "ice", Tail(q)[i].from = p
               PROVE  OfferBefore(Tail(q), p, i)
    BY DEF IceFollows
  <1>1. PICK j \in 1..Len(q) : j < i + 1 /\ q[j].kind = "offer" /\ q[j].from = p
    BY TailIndex DEF IceFollows, OfferBefore
  <1>2. j # 1
    BY <1>1, TailIndex
  <1>3. j - 1 \in 1..Len(Tail(q)) /\ j - 1 < i /\ Tail(q)[j - 1] = q[j]
    BY <1>1, <1>2, TailIndex, TailFacts
  <1> QED
    BY <1>1, <1>3 DEF OfferBefore

-----------------------------------------------------------------------------
(* Two members that a step does not deal with.                             *)

\* A message of a call between its sender and its receiver.
Deals(m, p) == (m.kind \in {"offer", "answer", "ice"} /\ m.from = p) \/ Invites(m, p)

\* For p the inbox r says what q does.
SameFor(r, q, p) ==
  /\ \A kind \in {"offer", "answer"} :
       /\ Has(r, kind, p) <=> Has(q, kind, p)
       /\ Once(q, kind, p) => Once(r, kind, p)
  /\ Invited(r, p) <=> Invited(q, p)
  /\ InvitedOnce(q, p) => InvitedOnce(r, p)
  /\ IceFollows(q, p) => IceFollows(r, p)

LEMMA SameItself == ASSUME NEW q, NEW p PROVE SameFor(q, q, p)
  BY DEF SameFor

LEMMA SameAppend ==
  ASSUME NEW q \in Seq(Sent), NEW m \in Sent, NEW p, ~Deals(m, p)
  PROVE  SameFor(Append(q, m), q, p)
  BY HasAppend, InvitedAppend, OnceAppend, InvitedOnceAppend, IceAppend DEF SameFor, Deals

LEMMA SameTail ==
  ASSUME NEW q \in Seq(Sent), q # <<>>, NEW p,
         ~Deals(Head(q), p) \/ Head(q).kind = "ice"
  PROVE  SameFor(Tail(q), q, p)
  <1>1. /\ ~(Head(q).kind \in {"offer", "answer"} /\ Head(q).from = p)
        /\ ~Invites(Head(q), p)
    BY DEF Deals, Invites
  <1> QED
    BY <1>1, HasTail, InvitedTail, OnceTail, InvitedOnceTail, IceTail DEF SameFor

LEMMA TellsKept ==
  ASSUME NEW d \in Clients, NEW e \in Clients, Tells(d, e),
         life'[d] = "running" =>
           life[d] = "running" /\ bin'[d][e] = bin[d][e] /\ SameFor(inbox'[d], inbox[d], e)
  PROVE  Tells(d, e)'
  BY DEF Tells, SameFor

LEMMA AgreeKept ==
  ASSUME NEW d \in Clients, NEW e \in Clients, Agree(d, e),
         d \in room' /\ e \in room' /\ d # e =>
           /\ d \in room /\ e \in room
           /\ bin'[d][e] = bin[d][e] /\ bin'[e][d] = bin[e][d]
           /\ SameFor(inbox'[d], inbox[d], e) /\ SameFor(inbox'[e], inbox[e], d)
  PROVE  Agree(d, e)'
  BY DEF Agree, SameFor

\* Appended messages, and those that are read, do not mention p.
LEMMA UnknownKept ==
  ASSUME NEW d \in Clients, NEW p \in Clients, Unknown(d, p), inbox[d] \in Seq(Sent),
         Fresh(p)' /\ life'[d] = "running" =>
           /\ Fresh(p) /\ life[d] = "running" /\ bin'[d][p] = bin[d][p]
           /\ \/ inbox'[d] = inbox[d]
              \/ inbox[d] # <<>> /\ inbox'[d] = Tail(inbox[d])
              \/ \E m \in Sent : inbox'[d] = Append(inbox[d], m) /\ ~Mentions(m, p)
  PROVE  Unknown(d, p)'
  <1> SUFFICES ASSUME Fresh(p)', life'[d] = "running"
               PROVE  /\ bin'[d][p] = "none"
                      /\ \A i \in 1..Len(inbox'[d]) : ~Mentions(inbox'[d][i], p)
    BY DEF Unknown
  <1>1. /\ Fresh(p) /\ life[d] = "running" /\ bin'[d][p] = "none"
        /\ \A i \in 1..Len(inbox[d]) : ~Mentions(inbox[d][i], p)
    BY DEF Unknown
  <1>2. CASE inbox'[d] = inbox[d]
    BY <1>1, <1>2
  <1>3. CASE inbox[d] # <<>> /\ inbox'[d] = Tail(inbox[d])
    BY <1>1, <1>3, TailIndex
  <1>4. ASSUME NEW m \in Sent, inbox'[d] = Append(inbox[d], m), ~Mentions(m, p)
        PROVE  \A i \in 1..Len(inbox'[d]) : ~Mentions(inbox'[d][i], p)
    BY <1>1, <1>4, AppendFacts
  <1> QED
    BY <1>1, <1>2, <1>3, <1>4

-----------------------------------------------------------------------------
(* The kinds of step.                                                      *)

LEMMA Typed ==
  ASSUME Inv
  PROVE  /\ inbox \in [Clients -> Seq(Sent)] /\ bin \in [Clients -> [Clients -> Stages]]
         /\ app \in [Clients -> AppStates] /\ busy \in [Clients -> Clients \cup {None}]
         /\ life \in [Clients -> {"running", "quitting", "ended", "aborted"}]
         /\ peers \in [Clients -> SUBSET Clients]
         /\ room \subseteq Clients /\ online \subseteq Clients
  BY DEF Inv, Types

\* c is gone, and if its program still runs it has "closed" to read.
LEMMA GoneCalls ==
  ASSUME CallInv, NEW c \in Clients, NEW box \in [Clients -> Seq(Sent)], Gone(box, c),
         \A d \in Clients \ {c} :
           /\ box[d] = inbox[d] /\ life'[d] = life[d] /\ app'[d] = app[d]
           /\ bin'[d] = bin[d] /\ busy'[d] = busy[d],
         life'[c] = "running" =>
           /\ life[c] = "running" /\ app'[c] # SERVER_CONNECTING
           /\ bin'[c] = bin[c] /\ busy'[c] = busy[c]
           /\ box[c] = Append(inbox[c], Msg("closed", None))
  PROVE  Calls'
  <1>0. Inv /\ Calls /\ inbox \in [Clients -> Seq(Sent)]
    BY Typed DEF CallInv
  <1>1. online' = online \ {c} /\ room' = room \ {c}
    BY DEF Gone
  <1>2. /\ inbox'[c] = box[c]
        /\ \A d \in Clients \ {c} :
             inbox'[d] = IF c \in room /\ d \in room
                         THEN Append(inbox[d], Msg("left", c)) ELSE inbox[d]
    BY <1>0, GoneFacts
  <1>3. /\ Msg("left", c) \in Sent /\ Msg("closed", None) \in Sent
        /\ \A e \in Clients : /\ ~Deals(Msg("left", c), e)
                              /\ ~Mentions(Msg("closed", None), e)
                              /\ ~Deals(Msg("closed", None), e)
                              /\ e # c => ~Mentions(Msg("left", c), e)
    <2>1. Msg("left", c) \in Sent /\ Msg("closed", None) \in Sent
      BY MsgSent DEF AboutKinds
    <2> QED
      BY <2>1, ClientsAssumption DEF Msg, Deals, Mentions, Invites
  <1>4. ASSUME NEW d \in Clients, life'[d] = "running"
        PROVE  /\ life[d] = "running" /\ bin'[d] = bin[d]
               /\ \A e \in Clients : SameFor(inbox'[d], inbox[d], e)
    <2>1. CASE d = c
      BY <1>0, <1>2, <1>3, <1>4, <2>1, SameAppend
    <2>2. CASE d # c
      BY <1>0, <1>2, <1>3, <1>4, <2>2, SameAppend, SameItself
    <2> QED
      BY <2>1, <2>2
  <1>5. ASSUME NEW d \in Clients, d \in room' PROVE life'[d] = "running" /\ d \in room
    BY <1>0, <1>1, <1>5 DEF Inv, Registered
  <1>6. ASSUME NEW p \in Clients, Fresh(p)' PROVE p # c /\ Fresh(p)
    BY <1>1, <1>6 DEF Fresh, Outside
  <1>7. ASSUME NEW d \in Clients, NEW e \in Clients
        PROVE  Tells(d, e)' /\ Agree(d, e)' /\ Unknown(d, e)'
    <2>0. Tells(d, e) /\ Agree(d, e) /\ Unknown(d, e) /\ inbox[d] \in Seq(Sent)
      BY <1>0 DEF Calls
    <2>1. Tells(d, e)'
      BY <1>4, <2>0, TellsKept
    <2>2. Agree(d, e)'
      BY <1>4, <1>5, <2>0, AgreeKept
    <2>3. Unknown(d, e)'
      <3>1. ASSUME Fresh(e)', life'[d] = "running"
            PROVE  \/ inbox'[d] = inbox[d]
                   \/ \E m \in Sent : inbox'[d] = Append(inbox[d], m) /\ ~Mentions(m, e)
        <4>1. CASE d = c
          BY <1>2, <1>3, <3>1, <4>1
        <4>2. CASE d # c
          BY <1>2, <1>3, <1>6, <3>1, <4>2
        <4> QED
          BY <4>1, <4>2
      <3> QED
        BY <1>4, <1>6, <2>0, <3>1, UnknownKept
    <2> QED
      BY <2>1, <2>2, <2>3
  <1>8. ASSUME NEW d \in Clients PROVE BusyCalled(d)'
    <2>1. BusyCalled(d) /\ (life'[d] = "running" => busy'[d] = busy[d])
      BY <1>0 DEF Calls
    <2> QED
      BY <1>4, <2>1 DEF BusyCalled
  <1> QED
    BY <1>7, <1>8 DEF Calls

LEMMA QuitCalls ==
  ASSUME CallInv, NEW c \in Clients, NEW state, Quit(c, state), UNCHANGED <<bin, busy>>
  PROVE  Calls'
  <1>1. Types
    BY DEF CallInv, Inv
  <1>2. /\ Unread(inbox, c) \in [Clients -> Seq(Sent)]
        /\ \A d \in Clients \ {c} : Unread(inbox, c)[d] = inbox[d]
    BY <1>1 DEF Types, Unread
  <1>3. Gone(Unread(inbox, c), c)
    BY DEF Quit
  <1>4. /\ life'[c] # "running"
        /\ \A d \in Clients \ {c} : life'[d] = life[d] /\ app'[d] = app[d]
    BY <1>1 DEF Quit, Types
  <1> QED
    BY <1>2, <1>3, <1>4, GoneCalls

LEMMA ExitCalls ==
  ASSUME CallInv, NEW c \in Clients, NEW how \in {"ended", "aborted"}, Exit(c, how)
  PROVE  /\ life'[c] # "running"
         /\ \A d \in Clients \ {c} :
              life'[d] = life[d] /\ app'[d] = app[d] /\ bin'[d] = bin[d] /\ busy'[d] = busy[d]
  BY DEF CallInv, Inv, Types, Exit

LEMMA AbortCalls ==
  ASSUME CallInv, NEW c \in Clients, Abort(c)
  PROVE  Calls'
  <1>1. /\ Unread(inbox, c) \in [Clients -> Seq(Sent)]
        /\ \A d \in Clients \ {c} : Unread(inbox, c)[d] = inbox[d]
    BY DEF CallInv, Inv, Types, Unread
  <1>2. Gone(Unread(inbox, c), c) /\ Exit(c, "aborted")
    BY DEF Abort
  <1> QED
    BY <1>1, <1>2, ExitCalls, GoneCalls

LEMMA DropCalls ==
  ASSUME CallInv, NEW c \in Clients, Drop(c)
  PROVE  Calls'
  <1> DEFINE m == Msg("closed", None)
             box == Put(inbox, c, m)
  <1>1. m \in Sent /\ inbox[c] \in Seq(Sent) /\ inbox \in [Clients -> Seq(Sent)]
    BY MsgSent DEF CallInv, Inv, Types
  <1>2. /\ box \in [Clients -> Seq(Sent)] /\ box[c] = Append(inbox[c], m)
        /\ \A d \in Clients \ {c} : box[d] = inbox[d]
    BY <1>1, AppendFacts DEF Put
  <1>3. Gone(box, c) /\ c \in online /\ UNCHANGED <<app, life, bin, busy>>
    BY DEF Drop, client
  <1>4. life[c] = "running" /\ app[c] # SERVER_CONNECTING
    BY <1>3 DEF CallInv, Inv, Registered
  <1> HIDE DEF m, box
  <1> QED
    BY <1>2, <1>3, <1>4, GoneCalls DEF m

\* The program has ended: nobody looks at what it knew.
LEMMA StopCalls ==
  ASSUME CallInv, NEW c \in Clients, Stop(c)
  PROVE  Calls'
  <1>0. Inv /\ Calls /\ inbox \in [Clients -> Seq(Sent)]
    BY Typed DEF CallInv
  <1>1. Exit(c, "ended") /\ UNCHANGED <<inbox, online, room>> /\ life[c] = "quitting"
    BY DEF Stop, service
  <1>2. /\ life'[c] # "running"
        /\ \A d \in Clients \ {c} :
             life'[d] = life[d] /\ app'[d] = app[d] /\ bin'[d] = bin[d] /\ busy'[d] = busy[d]
    BY <1>1, ExitCalls
  <1>3. c \notin room
    BY <1>0, <1>1 DEF Inv, Registered
  <1>4. \A p \in Clients : Fresh(p)' => Fresh(p)
    BY <1>1, <1>2 DEF Fresh, Outside
  <1>5. ASSUME NEW d \in Clients, NEW e \in Clients
        PROVE  Tells(d, e)' /\ Agree(d, e)' /\ Unknown(d, e)'
    <2>0. Tells(d, e) /\ Agree(d, e) /\ Unknown(d, e) /\ inbox[d] \in Seq(Sent)
      BY <1>0 DEF Calls
    <2>1. Tells(d, e)'
      BY <1>1, <1>2, <2>0, TellsKept, SameItself
    <2>2. Agree(d, e)'
      BY <1>1, <1>2, <1>3, <2>0, AgreeKept, SameItself
    <2>3. Unknown(d, e)'
      BY <1>1, <1>2, <1>4, <2>0, UnknownKept
    <2> QED
      BY <2>1, <2>2, <2>3
  <1>6. ASSUME NEW d \in Clients PROVE BusyCalled(d)'
    BY <1>0, <1>2 DEF Calls, BusyCalled
  <1> QED
    BY <1>5, <1>6 DEF Calls

\* HELLO is sent, or the connection has been closed: nobody hears of it.
LEMMA HelloCalls ==
  ASSUME CallInv, NEW c \in Clients, ServerConnected(c)
  PROVE  Calls'
  <1>0. Inv /\ Calls /\ inbox \in [Clients -> Seq(Sent)] /\ app \in [Clients -> AppStates]
    BY Typed DEF CallInv
  <1>1. UNCHANGED <<life, bin, busy, room>> /\ Fresh(c) /\ c \notin room
    BY <1>0 DEF ServerConnected, Idle, Fresh, Inv, Registered
  <1>2. PICK m \in {Msg("hello", None), Msg("closed", None)} : inbox' = Put(inbox, c, m)
    BY DEF ServerConnected
  <1>3. m \in Sent /\ \A e \in Clients : ~Deals(m, e) /\ ~Mentions(m, e)
    <2>1. m \in Sent
      BY MsgSent
    <2> QED
      BY <2>1, ClientsAssumption DEF Msg, Deals, Mentions, Invites
  <1>4. /\ inbox'[c] = Append(inbox[c], m)
        /\ \A d \in Clients \ {c} : inbox'[d] = inbox[d]
    BY <1>0, <1>2 DEF Put
  <1>5. /\ online' \subseteq online \cup {c}
        /\ \A d \in Clients \ {c} : app'[d] = app[d]
    BY <1>0 DEF ServerConnected, SetApp
  <1>6. ASSUME NEW p \in Clients, Fresh(p)' PROVE Fresh(p)
    BY <1>1, <1>5, <1>6 DEF Fresh, Outside
  <1>7. ASSUME NEW d \in Clients, NEW e \in Clients PROVE SameFor(inbox'[d], inbox[d], e)
    <2>1. CASE d = c
      BY <1>0, <1>3, <1>4, <2>1, SameAppend
    <2>2. CASE d # c
      BY <1>4, <2>2, SameItself
    <2> QED
      BY <2>1, <2>2
  <1>8. ASSUME NEW d \in Clients, NEW e \in Clients
        PROVE  Tells(d, e)' /\ Agree(d, e)' /\ Unknown(d, e)'
    <2>0. Tells(d, e) /\ Agree(d, e) /\ Unknown(d, e) /\ inbox[d] \in Seq(Sent)
      BY <1>0 DEF Calls
    <2>1. Tells(d, e)'
      BY <1>1, <1>7, <2>0, TellsKept
    <2>2. Agree(d, e)'
      BY <1>1, <1>7, <2>0, AgreeKept
    <2>3. \/ inbox'[d] = inbox[d]
          \/ \E x \in Sent : inbox'[d] = Append(inbox[d], x) /\ ~Mentions(x, e)
      BY <1>3, <1>4
    <2>4. Unknown(d, e)'
      BY <1>1, <1>6, <2>0, <2>3, UnknownKept
    <2> QED
      BY <2>1, <2>2, <2>4
  <1>9. ASSUME NEW d \in Clients PROVE BusyCalled(d)'
    BY <1>0, <1>1 DEF Calls, BusyCalled
  <1> QED
    BY <1>8, <1>9 DEF Calls

\* ROOM: c will call the members, none of whom has heard of it.
LEMMA EnterCalls ==
  ASSUME CallInv, NEW c \in Clients, life[c] = "running", c \in online,
         app[c] = SERVER_REGISTERING, inbox[c] # <<>>,
         SetApp(c, ROOM_JOINING), EnterRoom(Rest(c), c),
         UNCHANGED <<life, peers, bin, ice, busy, online, drops>>
  PROVE  Calls'
  <1> DEFINE m == Msg("joined", c)
             ok == RoomOk(room)
  <1>0. /\ Inv /\ Calls /\ inbox \in [Clients -> Seq(Sent)] /\ app \in [Clients -> AppStates]
        /\ room \subseteq Clients
    BY Typed DEF CallInv
  <1>1. /\ c \notin room /\ Fresh(c) /\ inbox[c] = <<Msg("hello", None)>> /\ bin[c] = NoBins
        /\ room' = room \cup {c}
    BY <1>0 DEF Inv, Registered, Outside, Fresh, EnterRoom
  <1>2. /\ m \in Sent /\ ok \in Sent /\ <<>> \in Seq(Sent)
        /\ \A e \in Clients : ~Deals(m, e) /\ (Mentions(m, e) => e = c)
        /\ \A e \in Clients : Mentions(ok, e) => e \in room
        /\ \A e \in Clients : Invites(ok, e) <=> e \in room
        /\ ok.kind = "room_ok"
    <2>1. m \in Sent /\ ok \in Sent
      BY <1>0, MsgSent DEF AboutKinds
    <2> QED
      BY <2>1, ClientsAssumption DEF Msg, RoomOk, Deals, Mentions, Invites
  <1>3. /\ Rest(c) \in [Clients -> Seq(Sent)] /\ Rest(c)[c] = <<>>
        /\ \A d \in Clients \ {c} : Rest(c)[d] = inbox[d]
    BY <1>0, <1>1, <1>2 DEF Rest
  <1>4. inbox' = Put(PutAll(Rest(c), room, m), c, ok)
    BY DEF EnterRoom
  <1> HIDE DEF m, ok
  <1>5. /\ inbox'[c] = Append(<<>>, ok)
        /\ \A d \in Clients \ {c} :
             inbox'[d] = IF d \in room THEN Append(inbox[d], m) ELSE inbox[d]
    BY <1>1, <1>3, <1>4 DEF Put, PutAll
  <1>6. \A p \in Clients : Fresh(p)' => p # c /\ Fresh(p)
    BY <1>0, <1>1 DEF Fresh, Outside, SetApp, ROOM_JOINING, SERVER_CONNECTING
  <1>7. ASSUME NEW d \in Clients \ {c}, NEW e \in Clients
        PROVE  SameFor(inbox'[d], inbox[d], e)
    BY <1>0, <1>2, <1>5, SameAppend, SameItself
  \* What c knows: the members.
  <1>8. ASSUME NEW e \in Clients
        PROVE  /\ ~Has(inbox'[c], "offer", e) /\ ~Has(inbox'[c], "answer", e)
               /\ Invited(inbox'[c], e) <=> e \in room
               /\ Once(inbox'[c], "offer", e) /\ Once(inbox'[c], "answer", e)
               /\ InvitedOnce(inbox'[c], e) /\ IceFollows(inbox'[c], e)
    <2>0. PICK q \in Seq(Sent) : inbox'[c] = Append(q, ok) /\ Len(q) = 0
      BY <1>2, <1>5
    <2>1. /\ \A kind \in {"offer", "answer"} : ~Has(q, kind, e) /\ Once(q, kind, e)
          /\ ~Invited(q, e) /\ InvitedOnce(q, e) /\ IceFollows(q, e)
      BY <2>0 DEF Has, Once, Invited, InvitedOnce, IceFollows
    <2>2. \A kind \in {"offer", "answer"} :
            ~Has(inbox'[c], kind, e) /\ Once(inbox'[c], kind, e)
      <3> SUFFICES ASSUME NEW kind \in {"offer", "answer"}
                   PROVE  ~Has(inbox'[c], kind, e) /\ Once(inbox'[c], kind, e)
        OBVIOUS
      <3>1. ok.kind # kind
        BY <1>2
      <3>2. ~Has(Append(q, ok), kind, e)
        BY <1>2, <2>1, <3>1, HasAppend
      <3>3. Once(Append(q, ok), kind, e)
        BY <1>2, <2>1, <3>1, OnceAppend
      <3> QED
        BY <2>0, <3>2, <3>3
    <2>3. (Invited(inbox'[c], e) <=> e \in room) /\ InvitedOnce(inbox'[c], e)
      <3>1. Invited(Append(q, ok), e) <=> e \in room
        BY <1>2, <2>1, InvitedAppend
      <3>2. InvitedOnce(Append(q, ok), e)
        BY <1>2, <2>1, InvitedOnceAppend
      <3> QED
        BY <2>0, <3>1, <3>2
    <2>4. IceFollows(inbox'[c], e)
      BY <1>2, <2>0, <2>1, IceAppend
    <2> QED
      BY <2>2, <2>3, <2>4
  \* What the members know of c: nothing.
  <1>9. ASSUME NEW d \in Clients \ {c}, d \in room
        PROVE  /\ bin[d][c] = "none" /\ ~Invited(inbox[d], c)
               /\ ~Has(inbox[d], "offer", c) /\ ~Has(inbox[d], "answer", c)
    <2>1. Unknown(d, c) /\ life[d] = "running"
      BY <1>0, <1>9 DEF Inv, Registered, Calls
    <2> QED
      BY <1>1, <2>1 DEF Unknown, Mentions, Has, Invited
  <1>10. ASSUME NEW d \in Clients, NEW e \in Clients
         PROVE  Tells(d, e)' /\ Agree(d, e)' /\ Unknown(d, e)'
    <2>0. Tells(d, e) /\ Agree(d, e) /\ Unknown(d, e) /\ inbox[d] \in Seq(Sent)
      BY <1>0 DEF Calls
    <2>1. CASE d = c
      <3>1. bin'[c][e] = "none"
        BY <1>1 DEF NoBins
      <3>2. Tells(c, e)'
        BY <1>8, <3>1 DEF Tells
      <3>3. Agree(c, e)'
        <4> SUFFICES ASSUME e \in room, c # e PROVE Agree(c, e)'
          BY <1>1 DEF Agree
        <4>1. /\ bin'[e][c] = "none" /\ ~Invited(inbox'[e], c)
              /\ ~Has(inbox'[e], "offer", c) /\ ~Has(inbox'[e], "answer", c)
          BY <1>7, <1>9 DEF SameFor
        <4> QED
          BY <3>1, <4>1 DEF Agree
      <3>4. Unknown(c, e)'
        <4> SUFFICES ASSUME Fresh(e)' PROVE Unknown(c, e)'
          BY DEF Unknown
        <4>1. ~Mentions(ok, e)
          BY <1>0, <1>2, <1>6 DEF Fresh, Outside, Inv, Registered
        <4>2. inbox'[c] = <<ok>>
          BY <1>5
        <4> QED
          BY <3>1, <4>1, <4>2 DEF Unknown
      <3> QED
        BY <2>1, <3>2, <3>3, <3>4
    <2>2. CASE d # c
      <3>1. Tells(d, e)'
        BY <1>7, <2>0, <2>2, TellsKept
      <3>2. Agree(d, e)'
        <4>1. CASE e # c
          BY <1>1, <1>7, <2>0, <2>2, <4>1, AgreeKept
        <4>2. CASE e = c /\ d \in room
          <5>1. /\ bin'[d][c] = "none" /\ ~Invited(inbox'[d], c) /\ bin'[c][d] = "none"
                /\ ~Has(inbox'[c], "offer", d) /\ ~Has(inbox'[c], "answer", d)
            BY <1>1, <1>7, <1>8, <1>9, <2>2, <4>2 DEF SameFor, NoBins
          <5> QED
            BY <4>2, <5>1 DEF Agree
        <4>3. CASE e = c /\ d \notin room
          BY <1>1, <2>2, <4>3 DEF Agree
        <4> QED
          BY <4>1, <4>2, <4>3
      <3>3. Unknown(d, e)'
        <4>1. \/ inbox'[d] = inbox[d]
              \/ inbox'[d] = Append(inbox[d], m)
          BY <1>5, <2>2
        <4>2. Fresh(e)' => ~Mentions(m, e)
          BY <1>2, <1>6
        <4> QED
          BY <1>2, <1>6, <2>0, <4>1, <4>2, UnknownKept
      <3> QED
        BY <3>1, <3>2, <3>3
    <2> QED
      BY <2>1, <2>2
  <1>11. ASSUME NEW d \in Clients PROVE BusyCalled(d)'
    BY <1>0 DEF Calls, BusyCalled
  <1> QED
    BY <1>10, <1>11 DEF Calls

LEMMA FreshKept ==
  ASSUME Inv, NEW c \in Clients, UNCHANGED <<life, online, room>>,
         app' = app \/ \E a \in AppStates \ {SERVER_CONNECTING} : app' = [app EXCEPT ![c] = a]
  PROVE  \A p \in Clients : Fresh(p)' => Fresh(p)
  <1>1. \A p \in Clients : app'[p] = SERVER_CONNECTING => app[p] = SERVER_CONNECTING
    BY Typed
  <1> QED
    BY <1>1 DEF Fresh, Outside

\* c reads a message.  Only those that the message deals with, or whose
\* webrtcbin changes, have to be looked at.
LEMMA ReadCalls ==
  ASSUME CallInv, NEW c \in Clients, inbox[c] # <<>>, inbox' = Rest(c),
         NEW B \in [Clients -> Stages], bin' = [bin EXCEPT ![c] = B],
         UNCHANGED <<life, online, room>>,
         app' = app \/ \E a \in AppStates \ {SERVER_CONNECTING} : app' = [app EXCEPT ![c] = a],
         \A d \in Clients \ {c} : busy'[d] = busy[d], BusyCalled(c)',
         \A e \in Clients : B[e] # bin[c][e] => Mentions(Head(inbox[c]), e),
         \A e \in Clients :
           \/ B[e] = bin[c][e] /\ (~Deals(Head(inbox[c]), e) \/ Head(inbox[c]).kind = "ice")
           \/ Tells(c, e)' /\ Agree(c, e)' /\ Agree(e, c)'
  PROVE  Calls'
  <1>0. /\ Inv /\ Calls /\ inbox \in [Clients -> Seq(Sent)]
        /\ bin \in [Clients -> [Clients -> Stages]]
    BY Typed DEF CallInv
  <1>1. /\ inbox'[c] = Tail(inbox[c]) /\ bin'[c] = B
        /\ \A d \in Clients \ {c} : inbox'[d] = inbox[d] /\ bin'[d] = bin[d]
    BY <1>0 DEF Rest
  <1>2. \A p \in Clients : Fresh(p)' => Fresh(p)
    BY <1>0, FreshKept
  <1>3. ASSUME NEW d \in Clients, NEW e \in Clients
        PROVE  Tells(d, e)' /\ Agree(d, e)' /\ Unknown(d, e)'
    <2>0. Tells(d, e) /\ Agree(d, e) /\ Unknown(d, e) /\ inbox[d] \in Seq(Sent)
      BY <1>0 DEF Calls
    <2>1. CASE d # c /\ e # c
      BY <1>1, <1>2, <2>0, <2>1, TellsKept, AgreeKept, UnknownKept, SameItself
    <2>2. CASE d = c
      <3>1. Unknown(c, e)'
        <4>1. Fresh(e) /\ life[c] = "running" => ~Mentions(Head(inbox[c]), e)
          BY <2>0, <2>2, TailIndex DEF Unknown
        <4> QED
          BY <1>1, <1>2, <2>0, <2>2, <4>1, UnknownKept
      <3>2. CASE Tells(c, e)' /\ Agree(c, e)'
        BY <2>2, <3>1, <3>2
      <3>3. CASE B[e] = bin[c][e] /\ (~Deals(Head(inbox[c]), e) \/ Head(inbox[c]).kind = "ice")
        <4>1. SameFor(inbox'[c], inbox[c], e)
          BY <1>1, <2>0, <2>2, <3>3, SameTail
        <4>2. c # e => bin'[e] = bin[e] /\ SameFor(inbox'[e], inbox[e], c)
          BY <1>1, SameItself
        <4>3. Tells(c, e)'
          BY <1>1, <2>0, <2>2, <3>3, <4>1, TellsKept
        <4>4. Agree(c, e)'
          BY <1>1, <2>0, <2>2, <3>3, <4>1, <4>2, AgreeKept
        <4> QED
          BY <2>2, <3>1, <4>3, <4>4
      <3> QED
        BY <3>2, <3>3
    <2>3. CASE d # c /\ e = c
      <3>1. Tells(d, c)' /\ Unknown(d, c)'
        BY <1>1, <1>2, <2>0, <2>3, TellsKept, UnknownKept, SameItself
      <3>2. CASE Agree(d, c)'
        BY <2>3, <3>1, <3>2
      <3>3. CASE B[d] = bin[c][d] /\ (~Deals(Head(inbox[c]), d) \/ Head(inbox[c]).kind = "ice")
        <4>1. SameFor(inbox'[c], inbox[c], d)
          BY <1>0, <1>1, <3>3, SameTail
        <4>2. Agree(d, c)'
          BY <1>1, <2>0, <2>3, <3>3, <4>1, AgreeKept, SameItself
        <4> QED
          BY <2>3, <3>1, <4>2
      <3> QED
        BY <3>2, <3>3
    <2> QED
      BY <2>1, <2>2, <2>3
  <1>4. ASSUME NEW d \in Clients PROVE BusyCalled(d)'
    <2>1. CASE d = c
      BY <2>1
    <2>2. CASE d # c
      BY <1>0, <1>1, <2>2 DEF Calls, BusyCalled
    <2> QED
      BY <2>1, <2>2
  <1> QED
    BY <1>3, <1>4 DEF Calls

-----------------------------------------------------------------------------
(* The main loop.                                                          *)

\* A message that concerns no call, or a candidate.
LEMMA PlainCalls ==
  ASSUME CallInv, NEW c \in Clients, life[c] = "running", inbox[c] # <<>>,
         Head(inbox[c]).kind \in {"hello", "joined", "left", "ice"}, inbox' = Rest(c),
         UNCHANGED <<life, bin, busy, online, room>>,
         app' = app \/ \E a \in AppStates \ {SERVER_CONNECTING} : app' = [app EXCEPT ![c] = a]
  PROVE  Calls'
  <1>1. bin[c] \in [Clients -> Stages] /\ bin' = [bin EXCEPT ![c] = bin[c]]
    BY DEF CallInv, Inv, Types
  <1>2. \A e \in Clients : ~Deals(Head(inbox[c]), e) \/ Head(inbox[c]).kind = "ice"
    BY DEF Deals, Invites
  <1>3. BusyCalled(c)'
    BY DEF CallInv, Calls, BusyCalled
  <1> QED
    BY <1>1, <1>2, <1>3, ReadCalls

LEMMA DoJoinRoomCalls ==
  ASSUME CallInv, NEW c \in Clients, DoJoinRoom(c), app[c] = ROOM_JOINING
  PROVE  Calls'
  <1> DEFINE H == Head(inbox[c])
             B == Call(bin[c], H.members)
  <1>0. /\ Inv /\ Calls /\ inbox[c] \in Seq(Sent) /\ bin \in [Clients -> [Clients -> Stages]]
        /\ inbox \in [Clients -> Seq(Sent)]
    BY Typed DEF CallInv
  <1>1. /\ life[c] = "running" /\ inbox[c] # <<>> /\ H.kind = "room_ok" /\ H \in Sent
    BY <1>0, Headed DEF DoJoinRoom
  <1>2. /\ inbox' = Rest(c) /\ UNCHANGED <<life, online, room, busy>> /\ busy[c] = None
        /\ bin' = [bin EXCEPT ![c] = B]
    BY DEF DoJoinRoom, Receives, Idle
  <1>3. B \in [Clients -> Stages]
    BY <1>0 DEF Call, Stages
  <1>4. \E a \in AppStates \ {SERVER_CONNECTING} : app' = [app EXCEPT ![c] = a]
    BY DEF DoJoinRoom, SetApp, StateOnJoin, AppStates, ROOM_JOINED,
           ROOM_CALL_OFFERING, SERVER_CONNECTING
  <1>5. BusyCalled(c)' /\ \A d \in Clients \ {c} : busy'[d] = busy[d]
    BY <1>2 DEF BusyCalled
  <1>6. \A e \in Clients : /\ Invites(H, e) <=> e \in H.members
                           /\ e \in H.members => B[e] = "new"
                           /\ e \notin H.members => B[e] = bin[c][e] /\ ~Deals(H, e)
    BY <1>1 DEF Invites, Call, Deals
  <1>7. inbox'[c] = Tail(inbox[c]) /\ bin'[c] = B
    BY <1>0, <1>2 DEF Rest
  <1>8. \A d \in Clients \ {c} : inbox'[d] = inbox[d] /\ bin'[d] = bin[d]
    BY <1>0, <1>2 DEF Rest
  <1> HIDE DEF B
  <1>9. ASSUME NEW e \in Clients, e \in H.members
        PROVE  Tells(c, e)' /\ Agree(c, e)' /\ Agree(e, c)'
    <2>0. Tells(c, e) /\ Agree(c, e) /\ Agree(e, c) /\ Invites(H, e) /\ bin'[c][e] = "new"
      BY <1>0, <1>6, <1>7, <1>9 DEF Calls
    <2>1. Invited(inbox[c], e) /\ ~Invited(inbox'[c], e) /\ InvitedOnce(inbox'[c], e)
      BY <1>0, <1>1, <1>7, <2>0, InvitedTail, InvitedOnceTail DEF Tells
    <2>2. /\ bin[c][e] = "none" /\ ~Has(inbox[c], "offer", e) /\ ~Has(inbox[c], "answer", e)
      BY <1>1, <2>0, <2>1 DEF Tells
    <2>3. \A kind \in {"offer", "answer"} :
            ~Has(inbox'[c], kind, e) /\ Once(inbox'[c], kind, e)
      BY <1>0, <1>1, <1>7, <2>0, <2>2, HasTail, OnceTail DEF Tells
    <2>4. Tells(c, e)'
      BY <2>0, <2>1, <2>3 DEF Tells
    <2>5. ASSUME c \in room', e \in room', c # e PROVE Agree(c, e)' /\ Agree(e, c)'
      <3>1. /\ bin'[e][c] = "none" /\ ~Invited(inbox'[e], c)
            /\ ~Has(inbox'[e], "offer", c) /\ ~Has(inbox'[e], "answer", c)
        BY <1>2, <1>8, <2>0, <2>1, <2>2, <2>5 DEF Agree
      <3> QED
        BY <2>0, <2>3, <3>1 DEF Agree
    <2>6. Agree(c, e)' /\ Agree(e, c)'
      BY <2>5 DEF Agree
    <2> QED
      BY <2>4, <2>6
  <1> QED
    BY <1>1, <1>2, <1>3, <1>4, <1>5, <1>6, <1>9, ReadCalls DEF Mentions

\* An offer: its sender waits for the answer.
LEMMA PeerOfferCalls ==
  ASSUME CallInv, NEW c \in Clients, PeerOffer(c), ~Abort(c),
         NEW p \in Clients, p = From(c)
  PROVE  Calls'
  <1> DEFINE H == Head(inbox[c])
             B == [bin[c] EXCEPT ![p] = "called"]
  <1>0. /\ Inv /\ Calls /\ inbox[c] \in Seq(Sent) /\ bin \in [Clients -> [Clients -> Stages]]
        /\ inbox \in [Clients -> Seq(Sent)] /\ busy \in [Clients -> Clients \cup {None}]
        /\ peers \in [Clients -> SUBSET Clients]
    BY Typed DEF CallInv
  <1>1. /\ life[c] = "running" /\ inbox[c] # <<>> /\ H.kind = "offer" /\ H.from = p
    BY <1>0, Headed DEF PeerOffer, From
  <1>2. /\ inbox' = Rest(c) /\ UNCHANGED <<life, online, room>>
        /\ bin' = [bin EXCEPT ![c] = B] /\ busy' = [busy EXCEPT ![c] = p]
        /\ SetApp(c, ROOM_CALL_ANSWERING)
    BY <1>0 DEF PeerOffer, Listed, SetBin
  <1>3. B \in [Clients -> Stages] /\ B[p] = "called"
    BY <1>0, <1>2 DEF Stages
  <1>4. \E a \in AppStates \ {SERVER_CONNECTING} : app' = [app EXCEPT ![c] = a]
    <2>1. ROOM_CALL_ANSWERING \in AppStates \ {SERVER_CONNECTING}
      BY DEF AppStates, ROOM_CALL_ANSWERING, SERVER_CONNECTING
    <2> QED
      BY <1>2, <2>1 DEF SetApp
  <1>5. /\ inbox'[c] = Tail(inbox[c]) /\ bin'[c] = B
        /\ \A d \in Clients \ {c} : inbox'[d] = inbox[d] /\ bin'[d] = bin[d]
    BY <1>0, <1>2 DEF Rest
  <1>6. BusyCalled(c)' /\ \A d \in Clients \ {c} : busy'[d] = busy[d]
    BY <1>0, <1>2, <1>3, <1>5 DEF BusyCalled
  <1>7. \A e \in Clients \ {p} : B[e] = bin[c][e] /\ ~Deals(H, e)
    BY <1>0, <1>1 DEF Deals, Invites
  <1> HIDE DEF B, H
  <1>8. Tells(c, p)' /\ Agree(c, p)' /\ Agree(p, c)'
    <2>0. Tells(c, p) /\ Agree(c, p) /\ Agree(p, c) /\ bin'[c][p] = "called"
      BY <1>0, <1>2, <1>3, <1>5 DEF Calls
    <2>1. Has(inbox[c], "offer", p)
      BY <1>0, <1>1, HasTail DEF H
    <2>2. bin[c][p] = "none" /\ ~Invited(inbox[c], p) /\ ~Has(inbox[c], "answer", p)
      BY <1>1, <2>0, <2>1 DEF Tells
    <2>3. ~Has(inbox'[c], "offer", p) /\ Once(inbox'[c], "offer", p)
      BY <1>0, <1>1, <1>5, <2>0, OnceTail DEF Tells, H
    <2>4. ~Has(inbox'[c], "answer", p) /\ Once(inbox'[c], "answer", p)
      BY <1>0, <1>1, <1>5, <2>0, <2>2, HasTail, OnceTail DEF Tells
    <2>5. ~Invited(inbox'[c], p) /\ InvitedOnce(inbox'[c], p)
      BY <1>0, <1>1, <1>5, <2>0, <2>2, InvitedTail, InvitedOnceTail DEF Tells
    <2>6. Tells(c, p)'
      BY <2>0, <2>3, <2>4, <2>5 DEF Tells
    <2>7. ASSUME c \in room', p \in room', c # p PROVE Agree(c, p)' /\ Agree(p, c)'
      <3>1. /\ bin[p][c] = "offered" /\ ~Has(inbox[p], "offer", c)
            /\ ~Has(inbox[p], "answer", c)
        BY <1>2, <2>0, <2>1, <2>2, <2>7 DEF Agree
      <3>2. ~Invited(inbox[p], c)
        <4>1. Tells(p, c) /\ life[p] = "running"
          BY <1>0, <1>2, <2>7 DEF Calls, Inv, Registered
        <4> QED
          BY <3>1, <4>1 DEF Tells
      <3>3. inbox'[p] = inbox[p] /\ bin'[p] = bin[p]
        BY <1>2, <1>5, <2>7
      <3> QED
        BY <2>0, <2>3, <2>4, <2>5, <3>1, <3>2, <3>3 DEF Agree
    <2>8. Agree(c, p)' /\ Agree(p, c)'
      BY <2>7 DEF Agree
    <2> QED
      BY <2>6, <2>8
  <1>9. \A e \in Clients : B[e] # bin[c][e] => Mentions(Head(inbox[c]), e)
    BY <1>1, <1>7 DEF Mentions, H
  <1>10. \A e \in Clients :
           \/ B[e] = bin[c][e] /\ ~Deals(Head(inbox[c]), e)
           \/ Tells(c, e)' /\ Agree(c, e)' /\ Agree(e, c)'
    BY <1>7, <1>8 DEF H
  <1> QED
    BY <1>1, <1>2, <1>3, <1>4, <1>6, <1>9, <1>10, ReadCalls

\* An answer finds the webrtcbin that offered.
LEMMA PeerAnswerCalls ==
  ASSUME CallInv, NEW c \in Clients, PeerAnswer(c), ~Abort(c),
         NEW p \in Clients, p = From(c)
  PROVE  Calls'
  <1> DEFINE H == Head(inbox[c])
             B == [bin[c] EXCEPT ![p] = "connected"]
  <1>0. /\ Inv /\ Calls /\ inbox[c] \in Seq(Sent) /\ bin \in [Clients -> [Clients -> Stages]]
        /\ inbox \in [Clients -> Seq(Sent)]
    BY Typed DEF CallInv
  <1>1. /\ life[c] = "running" /\ inbox[c] # <<>> /\ H.kind = "answer" /\ H.from = p
        /\ busy[c] = None
    BY <1>0, Headed DEF PeerAnswer, From, Receives, Idle
  <1>2. /\ inbox' = Rest(c) /\ UNCHANGED <<life, online, room, busy>>
        /\ bin' = [bin EXCEPT ![c] = B] /\ SetApp(c, ROOM_CALL_STARTED)
    BY DEF PeerAnswer, SetBin
  <1>3. B \in [Clients -> Stages] /\ B[p] = "connected"
    BY <1>0 DEF Stages
  <1>4. \E a \in AppStates \ {SERVER_CONNECTING} : app' = [app EXCEPT ![c] = a]
    <2>1. ROOM_CALL_STARTED \in AppStates \ {SERVER_CONNECTING}
      BY DEF AppStates, ROOM_CALL_STARTED, SERVER_CONNECTING
    <2> QED
      BY <1>2, <2>1 DEF SetApp
  <1>5. /\ inbox'[c] = Tail(inbox[c]) /\ bin'[c] = B
        /\ \A d \in Clients \ {c} : inbox'[d] = inbox[d] /\ bin'[d] = bin[d]
    BY <1>0, <1>2 DEF Rest
  <1>6. BusyCalled(c)' /\ \A d \in Clients \ {c} : busy'[d] = busy[d]
    BY <1>1, <1>2 DEF BusyCalled
  <1>7. \A e \in Clients \ {p} : B[e] = bin[c][e] /\ ~Deals(H, e)
    BY <1>0, <1>1 DEF Deals, Invites
  <1> HIDE DEF B, H
  <1>8. Tells(c, p)' /\ Agree(c, p)' /\ Agree(p, c)'
    <2>0. Tells(c, p) /\ Agree(c, p) /\ Agree(p, c) /\ bin'[c][p] = "connected"
      BY <1>0, <1>3, <1>5 DEF Calls
    <2>1. Has(inbox[c], "answer", p)
      BY <1>0, <1>1, HasTail DEF H
    <2>2. bin[c][p] = "offered" /\ ~Invited(inbox[c], p) /\ ~Has(inbox[c], "offer", p)
      BY <1>1, <2>0, <2>1 DEF Tells
    <2>3. ~Has(inbox'[c], "answer", p) /\ Once(inbox'[c], "answer", p)
      BY <1>0, <1>1, <1>5, <2>0, OnceTail DEF Tells, H
    <2>4. ~Has(inbox'[c], "offer", p) /\ Once(inbox'[c], "offer", p)
      BY <1>0, <1>1, <1>5, <2>0, <2>2, HasTail, OnceTail DEF Tells
    <2>5. ~Invited(inbox'[c], p) /\ InvitedOnce(inbox'[c], p)
      BY <1>0, <1>1, <1>5, <2>0, <2>2, InvitedTail, InvitedOnceTail DEF Tells
    <2>6. Tells(c, p)'
      BY <2>0, <2>3, <2>4, <2>5 DEF Tells
    <2>7. ASSUME c \in room', p \in room', c # p PROVE Agree(c, p)' /\ Agree(p, c)'
      <3>1. bin[p][c] \in {"answered", "connected"}
        BY <1>2, <2>0, <2>1, <2>7 DEF Agree
      <3>2. ~Invited(inbox[p], c) /\ ~Has(inbox[p], "offer", c) /\ ~Has(inbox[p], "answer", c)
        <4>1. Tells(p, c) /\ life[p] = "running"
          BY <1>0, <1>2, <2>7 DEF Calls, Inv, Registered
        <4> QED
          BY <3>1, <4>1 DEF Tells
      <3>3. inbox'[p] = inbox[p] /\ bin'[p] = bin[p]
        BY <1>2, <1>5, <2>7
      <3> QED
        BY <2>0, <2>3, <2>4, <2>5, <3>1, <3>2, <3>3 DEF Agree
    <2>8. Agree(c, p)' /\ Agree(p, c)'
      BY <2>7 DEF Agree
    <2> QED
      BY <2>6, <2>8
  <1>9. \A e \in Clients : B[e] # bin[c][e] => Mentions(Head(inbox[c]), e)
    BY <1>1, <1>7 DEF Mentions, H
  <1>10. \A e \in Clients :
           \/ B[e] = bin[c][e] /\ ~Deals(Head(inbox[c]), e)
           \/ Tells(c, e)' /\ Agree(c, e)' /\ Agree(e, c)'
    BY <1>7, <1>8 DEF H
  <1> QED
    BY <1>1, <1>2, <1>3, <1>4, <1>6, <1>9, <1>10, ReadCalls

\* Those that only end the program.
LEMMA EndingCalls ==
  ASSUME CallInv, NEW c \in Clients,
         ConnectFails(c) \/ PipelineFails(c) \/ HandleError(c) \/ ServerClosed(c)
  PROVE  Calls'
  <1>1. UNCHANGED <<bin, busy>> /\ \E state : Quit(c, state)
    BY DEF ConnectFails, PipelineFails, HandleError, ServerClosed
  <1> QED
    BY <1>1, QuitCalls

LEMMA DoRegistrationCalls ==
  ASSUME CallInv, NEW c \in Clients, DoRegistration(c)
  PROVE  Calls'
  <1>1. /\ life[c] = "running" /\ inbox[c] # <<>> /\ Head(inbox[c]).kind = "hello"
        /\ UNCHANGED <<peers, bin, ice, busy, drops>>
    BY DEF DoRegistration, Receives, Idle
  <1>2. CASE Quit(c, ERROR) \/ Quit(c, ROOM_CALL_ERROR)
    BY <1>1, <1>2, QuitCalls
  <1>3. CASE /\ app[c] = SERVER_REGISTERING /\ SetApp(c, ROOM_JOINING)
             /\ EnterRoom(Rest(c), c) /\ UNCHANGED <<life, online>>
    <2>1. CASE c \in online
      BY <1>1, <1>3, <2>1, EnterCalls
    <2>2. CASE c \notin online
      <3>1. inbox' = Rest(c) /\ room' = room
        BY <1>3, <2>2 DEF EnterRoom
      <3>2. \E a \in AppStates \ {SERVER_CONNECTING} : app' = [app EXCEPT ![c] = a]
        <4>1. ROOM_JOINING \in AppStates \ {SERVER_CONNECTING}
          BY DEF AppStates, ROOM_JOINING, SERVER_CONNECTING
        <4> QED
          BY <1>3, <4>1 DEF SetApp
      <3> QED
        BY <1>1, <1>3, <3>1, <3>2, PlainCalls
    <2> QED
      BY <2>1, <2>2
  <1> QED
    BY <1>2, <1>3 DEF DoRegistration

LEMMA MainLoopCalls ==
  ASSUME CallInv, NEW c \in Clients, MainLoop(c), ~HandleSdpOffer(c)
  PROVE  Calls'
  <1>0. Inv
    BY DEF CallInv
  <1>1. CASE ServerConnected(c)
    BY <1>1, HelloCalls
  <1>2. CASE DoRegistration(c)
    BY <1>2, DoRegistrationCalls
  <1>3. CASE ConnectFails(c) \/ PipelineFails(c) \/ HandleError(c) \/ ServerClosed(c)
    BY <1>3, EndingCalls
  <1>4. CASE DoJoinRoom(c)
    <2>1. CASE app[c] = ROOM_JOINING
      BY <1>4, <2>1, DoJoinRoomCalls
    <2>2. CASE app[c] # ROOM_JOINING
      BY <1>4, <2>2, QuitCalls DEF DoJoinRoom
    <2> QED
      BY <2>1, <2>2
  <1>5. CASE PeerJoined(c)
    BY <1>5, PlainCalls DEF PeerJoined, Receives, Idle
  <1>6. CASE PeerLeft(c)
    BY <1>6, PlainCalls, AbortCalls DEF PeerLeft, Receives, Idle
  <1>7. CASE PeerIce(c)
    BY <1>7, PlainCalls, AbortCalls DEF PeerIce, Receives, Idle, client
  <1>8. CASE PeerOffer(c)
    <2>1. CASE Abort(c)
      BY <2>1, AbortCalls
    <2>2. CASE ~Abort(c)
      <3>1. From(c) \in Clients
        BY <1>0, <1>8, <2>2, Typed DEF PeerOffer, Listed
      <3> QED
        BY <1>8, <2>2, <3>1, PeerOfferCalls
    <2> QED
      BY <2>1, <2>2
  <1>9. CASE PeerAnswer(c)
    <2>1. CASE Abort(c)
      BY <2>1, AbortCalls
    <2>2. CASE ~Abort(c)
      <3>1. From(c) \in Clients
        BY <1>0, <1>9, <2>2, Typed DEF PeerAnswer, InPipeline
      <3> QED
        BY <1>9, <2>2, <3>1, PeerAnswerCalls
    <2> QED
      BY <2>1, <2>2
  <1> QED
    BY <1>1, <1>2, <1>3, <1>4, <1>5, <1>6, <1>7, <1>8, <1>9 DEF MainLoop

-----------------------------------------------------------------------------
(* The webrtcbins, and the answer to an offer.                             *)

\* The webrtcbin that c has for p gets on, and at most one message m is sent,
\* to q.  Only c and p have to be looked at.
LEMMA WriteCalls ==
  ASSUME CallInv, NEW c \in Clients, NEW p \in Clients, bin[c][p] # "none",
         NEW B \in [Clients -> Stages], bin' = [bin EXCEPT ![c] = B],
         \A e \in Clients \ {p} : B[e] = bin[c][e],
         NEW q \in Clients, NEW m \in Sent, inbox' = inbox \/ inbox' = Put(inbox, q, m),
         \A e \in Clients : Deals(m, e) => q = p /\ e = c,
         \A e \in Clients : Mentions(m, e) => e = c,
         UNCHANGED <<life, online, room>>,
         app' = app \/ \E a \in AppStates \ {SERVER_CONNECTING} : app' = [app EXCEPT ![c] = a],
         \A d \in Clients \ {c} : busy'[d] = busy[d], BusyCalled(c)',
         Tells(c, p)', Tells(p, c)', Agree(c, p)', Agree(p, c)'
  PROVE  Calls'
  <1>0. /\ Inv /\ Calls /\ inbox \in [Clients -> Seq(Sent)]
        /\ bin \in [Clients -> [Clients -> Stages]]
    BY Typed DEF CallInv
  <1>1. /\ bin'[c] = B /\ \A d \in Clients \ {c} : bin'[d] = bin[d]
        /\ \A d \in Clients : \/ inbox'[d] = inbox[d]
                              \/ d = q /\ inbox'[d] = Append(inbox[d], m)
    BY <1>0 DEF Put
  <1>2. (\A e \in Clients : Fresh(e)' => Fresh(e)) /\ ~Fresh(c)
    BY <1>0, FreshKept, WithBins DEF Entered, Fresh
  <1>3. ASSUME NEW d \in Clients, NEW e \in Clients, ~(d = p /\ e = c)
        PROVE  SameFor(inbox'[d], inbox[d], e)
    <2>1. CASE inbox'[d] = inbox[d]
      BY <2>1, SameItself
    <2>2. CASE d = q /\ inbox'[d] = Append(inbox[d], m)
      <3>1. ~Deals(m, e) /\ inbox[d] \in Seq(Sent)
        BY <1>0, <1>3, <2>2
      <3> QED
        BY <2>2, <3>1, SameAppend
    <2> QED
      BY <1>1, <2>1, <2>2
  <1>4. ASSUME NEW d \in Clients, NEW e \in Clients
        PROVE  Tells(d, e)' /\ Agree(d, e)' /\ Unknown(d, e)'
    <2>0. Tells(d, e) /\ Agree(d, e) /\ Unknown(d, e) /\ inbox[d] \in Seq(Sent)
      BY <1>0 DEF Calls
    <2>1. Unknown(d, e)'
      <3>1. Fresh(e) /\ life[d] = "running" => bin'[d][e] = bin[d][e]
        BY <1>1, <2>0 DEF Unknown
      <3>2. Fresh(e) => ~Mentions(m, e)
        BY <1>2
      <3> QED
        BY <1>1, <1>2, <2>0, <3>1, <3>2, UnknownKept
    <2>2. CASE {d, e} = {c, p}
      BY <2>1, <2>2
    <2>3. CASE {d, e} # {c, p}
      <3>1. bin'[d][e] = bin[d][e] /\ bin'[e][d] = bin[e][d]
        BY <1>1, <2>3
      <3>2. SameFor(inbox'[d], inbox[d], e) /\ SameFor(inbox'[e], inbox[e], d)
        BY <1>3, <2>3
      <3>3. Tells(d, e)'
        BY <2>0, <3>1, <3>2, TellsKept
      <3>4. Agree(d, e)'
        BY <2>0, <3>1, <3>2, AgreeKept
      <3> QED
        BY <2>1, <3>3, <3>4
    <2> QED
      BY <2>2, <2>3
  <1>5. ASSUME NEW d \in Clients PROVE BusyCalled(d)'
    <2>1. CASE d = c
      BY <2>1
    <2>2. CASE d # c
      BY <1>0, <1>1, <2>2 DEF Calls, BusyCalled
    <2> QED
      BY <2>1, <2>2
  <1> QED
    BY <1>4, <1>5 DEF Calls

\* The stage changes, and nothing is sent.
LEMMA StageCalls ==
  ASSUME CallInv, NEW c \in Clients, NEW p \in Clients, NEW stage \in Stages,
         SetBin(c, p, stage), UNCHANGED <<life, service>>,
         \/ bin[c][p] = "new" /\ stage = "creating"
         \/ bin[c][p] = "called" /\ stage = "answering"
         \/ bin[c][p] = "answered" /\ stage = "connected",
         app' = app \/ \E a \in AppStates \ {SERVER_CONNECTING} : app' = [app EXCEPT ![c] = a],
         \A d \in Clients \ {c} : busy'[d] = busy[d], BusyCalled(c)'
  PROVE  Calls'
  <1> DEFINE B == [bin[c] EXCEPT ![p] = stage]
             m == Msg("error", None)
  <1>0. Inv /\ Calls /\ bin \in [Clients -> [Clients -> Stages]]
    BY Typed DEF CallInv
  <1>1. /\ B \in [Clients -> Stages] /\ bin' = [bin EXCEPT ![c] = B]
        /\ \A e \in Clients \ {p} : B[e] = bin[c][e]
    BY <1>0 DEF SetBin
  <1>2. /\ bin'[c][p] = stage /\ UNCHANGED <<inbox, online, room>>
        /\ \A d, e \in Clients : ~(d = c /\ e = p) => bin'[d][e] = bin[d][e]
    BY <1>0 DEF SetBin, service
  <1>3. m \in Sent /\ \A e \in Clients : ~Deals(m, e) /\ ~Mentions(m, e)
    <2>1. m \in Sent
      BY MsgSent
    <2> QED
      BY <2>1, ClientsAssumption DEF Msg, Deals, Mentions, Invites
  <1>4. Tells(c, p) /\ Tells(p, c) /\ Agree(c, p) /\ Agree(p, c)
    BY <1>0 DEF Calls
  <1>5. Tells(c, p)'
    BY <1>2, <1>4 DEF Tells
  <1>6. Tells(p, c)'
    <2>1. CASE p = c
      BY <1>5, <2>1
    <2>2. CASE p # c
      BY <1>2, <1>4, <2>2 DEF Tells
    <2> QED
      BY <2>1, <2>2
  <1>7. Agree(c, p)'
    BY <1>2, <1>4 DEF Agree
  <1>8. Agree(p, c)'
    <2> SUFFICES ASSUME c \in room, p \in room, c # p PROVE Agree(p, c)'
      BY <1>2 DEF Agree
    <2>1. bin'[p][c] = bin[p][c]
      BY <1>2
    <2>2. ~Has(inbox[c], "offer", p) /\ ~Has(inbox[c], "answer", p) /\ ~Invited(inbox[c], p)
      <3>1. life[c] = "running"
        BY <1>0 DEF Inv, Registered
      <3> QED
        BY <1>4, <3>1 DEF Tells
    <2> QED
      BY <1>2, <1>4, <2>1, <2>2 DEF Agree
  <1> HIDE DEF B, m
  <1> QED
    BY <1>0, <1>1, <1>2, <1>3, <1>5, <1>6, <1>7, <1>8, WriteCalls

LEMMA HandleSdpOfferCalls ==
  ASSUME CallInv, NEW c \in Clients, HandleSdpOffer(c)
  PROVE  Calls'
  <1>1. CASE Abort(c)
    BY <1>1, AbortCalls
  <1>2. CASE ~Abort(c)
    <2>0. /\ Calls /\ busy \in [Clients -> Clients \cup {None}]
      BY Typed DEF CallInv
    <2>1. /\ SetBin(c, busy[c], "answering") /\ busy' = [busy EXCEPT ![c] = None]
          /\ UNCHANGED <<app, life, service>> /\ busy[c] # None /\ life[c] = "running"
      BY <1>2 DEF HandleSdpOffer
    <2>2. busy[c] \in Clients /\ bin[c][busy[c]] = "called"
      BY <2>0, <2>1 DEF Calls, BusyCalled
    <2>3. BusyCalled(c)' /\ \A d \in Clients \ {c} : busy'[d] = busy[d]
      BY <2>0, <2>1 DEF BusyCalled
    <2> QED
      BY <2>1, <2>2, <2>3, StageCalls DEF Stages
  <1> QED
    BY <1>1, <1>2

\* The stage of another webrtcbin than the one of the offer being handled.
LEMMA BusyKept ==
  ASSUME CallInv, NEW c \in Clients, NEW p \in Clients, NEW stage, bin[c][p] # "called",
         SetBin(c, p, stage) \/ bin' = bin, UNCHANGED <<life, busy>>
  PROVE  BusyCalled(c)' /\ \A d \in Clients \ {c} : busy'[d] = busy[d]
  <1>1. BusyCalled(c) /\ bin \in [Clients -> [Clients -> Stages]]
    BY Typed DEF CallInv, Calls
  <1>2. \A e \in Clients : bin[c][e] = "called" => bin'[c][e] = "called"
    <2>1. CASE SetBin(c, p, stage)
      BY <1>1, <2>1 DEF SetBin
    <2>2. CASE bin' = bin
      BY <2>2
    <2> QED
      BY <2>1, <2>2
  <1>3. busy[c] # None => busy[c] \in Clients
    BY Typed DEF CallInv
  <1> QED
    BY <1>1, <1>2, <1>3 DEF BusyCalled

LEMMA StateSetCalls ==
  ASSUME CallInv, NEW c \in Clients, NEW p \in Clients,
         NegotiationNeeded(c, p) \/ CallStarted(c, p)
  PROVE  Calls'
  <1>1. PICK stage \in Stages :
          /\ SetBin(c, p, stage)
          /\ \/ bin[c][p] = "new" /\ stage = "creating"
             \/ bin[c][p] = "answered" /\ stage = "connected"
    BY DEF NegotiationNeeded, CallStarted, Stages
  <1>2. UNCHANGED <<life, busy, service>>
    BY DEF NegotiationNeeded, CallStarted
  <1>3. \E a \in AppStates \ {SERVER_CONNECTING} : app' = [app EXCEPT ![c] = a]
    <2>1. {ROOM_CALL_OFFERING, ROOM_CALL_STARTED} \subseteq AppStates \ {SERVER_CONNECTING}
      BY DEF AppStates, ROOM_CALL_OFFERING, ROOM_CALL_STARTED, SERVER_CONNECTING
    <2> QED
      BY <2>1 DEF NegotiationNeeded, CallStarted, SetApp
  <1>4. BusyCalled(c)' /\ \A d \in Clients \ {c} : busy'[d] = busy[d]
    BY <1>1, <1>2, BusyKept
  <1> QED
    BY <1>1, <1>2, <1>3, <1>4, StageCalls

\* What Relay does.
LEMMA RelayFacts ==
  ASSUME CallInv, NEW c \in Clients, NEW p \in Clients, bin[c][p] # "none",
         NEW kind, inbox' = Relay(inbox, c, p, kind)
  PROVE  \/ c \in room /\ p \in room /\ inbox' = Put(inbox, p, Msg(kind, c))
         \/ ~(c \in room /\ p \in room) /\ inbox' \in {inbox, Put(inbox, c, Msg("error", None))}
  <1>1. Inv
    BY DEF CallInv
  <1>2. c \in room <=> c \in online
    BY <1>1, WithBins, InRoom DEF Entered, Outside
  <1> QED
    BY <1>2 DEF Relay

\* An offer, an answer or a candidate is sent.
LEMMA SendCalls ==
  ASSUME CallInv, NEW c \in Clients, NEW p \in Clients \ {c},
         NEW kind \in {"offer", "answer", "ice"}, inbox' = Relay(inbox, c, p, kind),
         NEW stage \in Stages, SetBin(c, p, stage),
         \/ kind = "offer" /\ bin[c][p] = "creating" /\ stage = "offered"
         \/ kind = "answer" /\ bin[c][p] = "answering" /\ stage = "answered"
         \/ kind = "ice" /\ bin[c][p] \in {"offered", "connected"} /\ stage = bin[c][p],
         UNCHANGED <<app, life, busy, online, room>>
  PROVE  Calls'
  <1>0. /\ Inv /\ Calls /\ inbox \in [Clients -> Seq(Sent)]
        /\ bin \in [Clients -> [Clients -> Stages]]
    BY Typed DEF CallInv
  <1> DEFINE B == [bin[c] EXCEPT ![p] = stage]
  <1>a. /\ B \in [Clients -> Stages] /\ bin' = [bin EXCEPT ![c] = B] /\ B[p] = stage
        /\ \A e \in Clients \ {p} : B[e] = bin[c][e]
    BY <1>0 DEF SetBin
  <1> HIDE DEF B
  <1>1. Tells(c, p) /\ Tells(p, c) /\ Agree(c, p) /\ Agree(p, c)
    BY <1>0 DEF Calls
  <1>2. /\ bin'[c][p] = stage /\ bin'[p] = bin[p]
        /\ \A e \in Clients : bin[c][e] = "called" => bin'[c][e] = "called"
    BY <1>0, <1>a
  <1>3. BusyCalled(c)' /\ \A d \in Clients \ {c} : busy'[d] = busy[d]
    <2>1. BusyCalled(c) /\ (busy[c] # None => busy[c] \in Clients)
      BY <1>0, Typed DEF Calls
    <2> QED
      BY <1>2, <2>1 DEF BusyCalled
  \* Before: c has not been sent anything of a call of p.
  <1>4. life[c] = "running" =>
          /\ ~Has(inbox[c], "offer", p) /\ ~Invited(inbox[c], p)
          /\ kind # "ice" => ~Has(inbox[c], "answer", p)
    BY <1>1 DEF Tells
  <1>5. bin[c][p] # "none"
    OBVIOUS
  <1>6. CASE c \in room /\ p \in room /\ inbox' = Put(inbox, p, Msg(kind, c))
    <2> DEFINE m == Msg(kind, c)
    <2>1. m \in Sent /\ m.kind = kind /\ m.from = c
      BY MsgSent DEF AboutKinds, Msg
    <2>2. /\ \A e \in Clients : (Deals(m, e) => e = c) /\ (Mentions(m, e) => e = c)
          /\ ~Invites(m, c)
      BY <2>1 DEF Deals, Mentions, Invites
    <2>3. inbox' = Put(inbox, p, m)
      BY <1>6
    <2> HIDE DEF m
    <2>4. inbox'[p] = Append(inbox[p], m) /\ inbox'[c] = inbox[c] /\ inbox[p] \in Seq(Sent)
      BY <1>0, <2>3 DEF Put
    <2>5. life[c] = "running" /\ life[p] = "running"
      BY <1>0, <1>6 DEF Inv, Registered
    \* What p has of c, before and after.
    <2>6. /\ Has(inbox'[p], "offer", c) <=> Has(inbox[p], "offer", c) \/ kind = "offer"
          /\ Has(inbox'[p], "answer", c) <=> Has(inbox[p], "answer", c) \/ kind = "answer"
      BY <2>1, <2>4, HasAppend
    <2>7. Invited(inbox'[p], c) <=> Invited(inbox[p], c)
      BY <2>1, <2>2, <2>4, InvitedAppend
    <2>8. InvitedOnce(inbox'[p], c)
      BY <1>1, <2>1, <2>2, <2>4, <2>5, InvitedOnceAppend DEF Tells
    <2>9. kind = "offer" =>
            /\ bin[p][c] = "none" /\ ~Invited(inbox[p], c)
            /\ ~Has(inbox[p], "offer", c) /\ ~Has(inbox[p], "answer", c)
      BY <1>1, <1>6 DEF Agree
    <2>10. kind = "answer" =>
             /\ bin[p][c] = "offered" /\ ~Has(inbox[p], "offer", c)
             /\ ~Has(inbox[p], "answer", c)
      BY <1>1, <1>6 DEF Agree
    <2>11. kind = "ice" => bin[p][c] # "none" \/ Has(inbox[p], "offer", c)
      BY <1>1, <1>6 DEF Agree
    <2>12. Once(inbox'[p], "offer", c) /\ Once(inbox'[p], "answer", c)
      <3>1. Once(inbox'[p], "offer", c)
        BY <1>1, <2>1, <2>4, <2>5, <2>9, OnceAppend DEF Tells
      <3>2. Once(inbox'[p], "answer", c)
        BY <1>1, <2>1, <2>4, <2>5, <2>10, OnceAppend DEF Tells
      <3> QED
        BY <3>1, <3>2
    <2>13. bin[p][c] = "none" => IceFollows(inbox'[p], c)
      BY <1>1, <2>1, <2>4, <2>5, <2>11, IceAppend DEF Tells
    <2>14. Tells(p, c)'
      BY <1>1, <1>2, <2>5, <2>6, <2>7, <2>8, <2>9, <2>10, <2>12, <2>13 DEF Tells
    <2>15. Tells(c, p)'
      BY <1>1, <1>2, <1>4, <2>4, <2>5 DEF Tells
    <2>16. Agree(c, p)'
      BY <1>1, <1>2, <1>4, <1>6, <2>4, <2>5, <2>6, <2>7, <2>9, <2>10, <2>11 DEF Agree
    <2>17. Agree(p, c)'
      BY <1>1, <1>2, <1>4, <1>6, <2>4, <2>5, <2>6, <2>7, <2>9, <2>10, <2>11 DEF Agree
    <2> QED
      BY <1>a, <1>3, <1>5, <2>1, <2>2, <2>3, <2>14, <2>15, <2>16, <2>17, WriteCalls
  <1>7. CASE /\ ~(c \in room /\ p \in room)
             /\ inbox' = inbox \/ inbox' = Put(inbox, c, Msg("error", None))
    <2> DEFINE m == Msg("error", None)
    <2>1. m \in Sent /\ \A e \in Clients : ~Deals(m, e) /\ ~Mentions(m, e)
      <3>1. m \in Sent
        BY MsgSent
      <3> QED
        BY <3>1, ClientsAssumption DEF Msg, Deals, Mentions, Invites
    <2>2. inbox' = inbox \/ inbox' = Put(inbox, c, m)
      BY <1>7
    <2> HIDE DEF m
    <2>3. inbox'[p] = inbox[p] /\ (inbox'[c] = inbox[c] \/ inbox'[c] = Append(inbox[c], m))
      BY <1>0, <2>2 DEF Put
    <2>4. SameFor(inbox'[c], inbox[c], p)
      BY <1>0, <2>1, <2>3, SameAppend, SameItself
    <2>5. Tells(p, c)'
      BY <1>1, <1>2, <2>3 DEF Tells
    <2>6. Tells(c, p)'
      BY <1>1, <1>2, <1>4, <2>4 DEF Tells, SameFor
    <2>7. Agree(c, p)' /\ Agree(p, c)'
      BY <1>7 DEF Agree
    <2> QED
      BY <1>a, <1>3, <1>5, <2>1, <2>2, <2>5, <2>6, <2>7, WriteCalls
  <1> QED
    BY <1>5, <1>6, <1>7, RelayFacts

LEMMA CreatedCalls ==
  ASSUME CallInv, NEW c \in Clients, NEW p \in Clients \ {c},
         OfferCreated(c, p) \/ AnswerCreated(c, p)
  PROVE  Calls'
  <1>1. CASE Abort(c)
    BY <1>1, AbortCalls
  <1>2. CASE ~Abort(c)
    <2>1. CASE OfferCreated(c, p)
      BY <1>2, <2>1, SendCalls DEF OfferCreated, Stages
    <2>2. CASE AnswerCreated(c, p)
      BY <1>2, <2>2, SendCalls DEF AnswerCreated, Stages
    <2> QED
      BY <2>1, <2>2
  <1> QED
    BY <1>1, <1>2

LEMMA SendIceCalls ==
  ASSUME CallInv, NEW c \in Clients, NEW p \in Clients \ {c}, SendIceCandidate(c, p)
  PROVE  Calls'
  <1>1. bin[c][p] \in {"offered", "connected"} /\ UNCHANGED <<bin, busy>>
    BY DEF SendIceCandidate, Gathering
  <1>2. CASE app[c] < ROOM_CALL_OFFERING
    BY <1>1, <1>2, QuitCalls DEF SendIceCandidate
  <1>3. CASE ~(app[c] < ROOM_CALL_OFFERING)
    <2>1. inbox' = Relay(inbox, c, p, "ice") /\ UNCHANGED <<app, life, online, room>>
      BY <1>3 DEF SendIceCandidate
    <2>2. bin[c][p] \in Stages /\ SetBin(c, p, bin[c][p])
      BY <1>1, Typed DEF CallInv, SetBin
    <2> QED
      BY <1>1, <2>1, <2>2, SendCalls
  <1> QED
    BY <1>2, <1>3

-----------------------------------------------------------------------------
(* The invariant.                                                          *)

LEMMA InitCalls == Init => Calls
  <1> SUFFICES ASSUME Init PROVE Calls
    OBVIOUS
  <1>1. /\ \A c \in Clients : inbox[c] = <<>> /\ busy[c] = None
        /\ \A c, p \in Clients : bin[c][p] = "none" /\ room = {}
    BY DEF Init, NoBins
  <1>2. \A p \in Clients : /\ \A kind : ~Has(<<>>, kind, p) /\ Once(<<>>, kind, p)
                           /\ ~Invited(<<>>, p) /\ InvitedOnce(<<>>, p) /\ IceFollows(<<>>, p)
    BY DEF Has, Once, Invited, InvitedOnce, IceFollows
  <1>3. \A c, p \in Clients : Tells(c, p) /\ Agree(c, p)
    BY <1>1, <1>2 DEF Tells, Agree
  <1>4. \A c, p \in Clients : Unknown(c, p)
    BY <1>1 DEF Unknown
  <1> QED
    BY <1>1, <1>3, <1>4 DEF Calls, BusyCalled

LEMMA NextCalls == CallInv /\ [Next]_vars => CallInv'
  <1> SUFFICES ASSUME CallInv, [Next]_vars PROVE CallInv'
    OBVIOUS
  <1>1. Inv'
    BY NextInv DEF CallInv
  <1>2. CASE Next
    <2>1. PICK c \in Clients : Drop(c) \/ Stop(c) \/ MainLoop(c) \/ Callbacks(c)
      BY <1>2 DEF Next
    <2>2. CASE Drop(c) \/ Stop(c) \/ MainLoop(c)
      BY <2>2, DropCalls, StopCalls, MainLoopCalls, HandleSdpOfferCalls, <1>1 DEF CallInv
    <2>3. CASE Callbacks(c)
      <3>1. PICK p \in Clients \ {c} : Callback(c, p)
        BY <2>3 DEF Callbacks
      <3> QED
        BY <3>1, StateSetCalls, CreatedCalls, SendIceCalls, <1>1 DEF Callback, CallInv
    <2> QED
      BY <2>1, <2>2, <2>3
  <1>3. CASE UNCHANGED vars
    BY <1>1, <1>3 DEF vars, client, service, CallInv, Calls, Tells, Agree, Unknown,
                      Fresh, Outside, BusyCalled
  <1> QED
    BY <1>2, <1>3

THEOREM CallInvariance == Spec => []CallInv
  <1>1. Init => CallInv
    BY InitInv, InitCalls DEF CallInv
  <1> QED
    BY <1>1, NextCalls, PTL DEF Spec

-----------------------------------------------------------------------------
(* The theorems.                                                           *)

\* What the head of the inbox is about, in the terms of the invariant.
LEMMA HeadHas ==
  ASSUME CallInv, NEW c \in Clients, NEW kind \in {"offer", "answer", "ice"},
         Receives(c, kind)
  PROVE  /\ From(c) \in Clients /\ life[c] = "running" /\ Tells(c, From(c))
         /\ Has(inbox[c], kind, From(c)) /\ From(c) \in peers[c]
         /\ inbox[c] \in Seq(Sent) /\ inbox[c] # <<>>
         /\ Head(inbox[c]).kind = kind /\ Head(inbox[c]).from = From(c)
  <1>1. /\ life[c] = "running" /\ inbox[c] # <<>> /\ Head(inbox[c]).kind = kind
        /\ Head(inbox[c]) \in Sent /\ inbox[c] \in Seq(Sent) /\ Head(inbox[c]).from = From(c)
    BY Headed, Typed DEF CallInv, From
  <1>2. From(c) \in Clients /\ About(Head(inbox[c]), From(c))
    BY <1>1 DEF Sent, About, AboutKinds
  <1>3. Follows(inbox[c], From(c), peers[c])
    BY <1>1, <1>2 DEF CallInv, Inv, Known
  <1>4. From(c) \in peers[c]
    BY <1>1, <1>2, <1>3, FollowsHead
  <1>5. Has(inbox[c], kind, From(c))
    BY <1>1, HasTail
  <1>6. Tells(c, From(c))
    BY <1>2 DEF CallInv, Calls
  <1> QED
    BY <1>1, <1>2, <1>4, <1>5, <1>6

\* Whoever comes later calls: an offer finds no webrtcbin of its sender, whose
\* name would be taken (l.345), and an answer the one that offered (l.678).
THEOREM OneCallerHolds == Spec => []OneCaller
  <1>1. CallInv => OneCaller
    BY HeadHas DEF OneCaller, Tells
  <1> QED
    BY <1>1, CallInvariance, PTL

\* A candidate finds the webrtcbin of its sender in the pipeline (l.748): it
\* never overtakes the offer of that webrtcbin.
THEOREM CandidateFindsBinHolds == Spec => []CandidateFindsBin
  <1>1. CallInv => CandidateFindsBin
    <2> SUFFICES ASSUME CallInv, NEW c \in Clients, Receives(c, "ice")
                 PROVE  From(c) \in peers[c] /\ bin[c][From(c)] # "none"
      BY DEF CandidateFindsBin, InPipeline
    <2>1. /\ From(c) \in peers[c] /\ Tells(c, From(c)) /\ life[c] = "running"
          /\ inbox[c] \in Seq(Sent) /\ inbox[c] # <<>>
          /\ Head(inbox[c]).kind = "ice" /\ Head(inbox[c]).from = From(c)
      BY HeadHas
    <2>2. ~IceFollows(inbox[c], From(c))
      <3>1. 1 \in 1..Len(inbox[c]) /\ inbox[c][1] = Head(inbox[c])
        BY <2>1, TailIndex
      <3>2. ~OfferBefore(inbox[c], From(c), 1)
        BY <2>1 DEF OfferBefore
      <3> QED
        BY <2>1, <3>1, <3>2 DEF IceFollows
    <2> QED
      BY <2>1, <2>2 DEF Tells
  <1> QED
    BY <1>1, CallInvariance, PTL

-----------------------------------------------------------------------------
(* The refinement of Handshake.                                            *)

\* Its next-state relation, or a step that it does not see.
Negotiates == [Negotiation!Next]_<<room, Ends>>

LEMMA StageEnds ==
  /\ EndOf("none") = "idle" /\ EndOf("new") = "idle" /\ EndOf("creating") = "idle"
  /\ EndOf("offered") = "calling"
  /\ EndOf("called") = "called" /\ EndOf("answering") = "called"
  /\ EndOf("answered") = "up" /\ EndOf("connected") = "up"
  BY DEF EndOf

\* No end changes for the members.
LEMMA StillEnds ==
  ASSUME UNCHANGED room,
         \A d, e \in room : d \in Clients /\ e \in Clients /\ d # e =>
           EndOf(bin[d][e])' = EndOf(bin[d][e])
  PROVE  Negotiates
  <1>1. Ends' = Ends
    BY DEF Ends
  <1> QED
    BY <1>1 DEF Negotiates

LEMMA SameBinsEnds ==
  ASSUME UNCHANGED <<bin, room>>
  PROVE  Negotiates
  BY DEF Negotiates, Ends, EndOf

\* A client has left the room, or it was not in it: its ends are gone.
LEMMA GoneEnds ==
  ASSUME NEW c \in Clients, NEW box, Gone(box, c), \A d \in Clients \ {c} : bin'[d] = bin[d]
  PROVE  Negotiates
  <1>1. room' = room \ {c}
    BY DEF Gone
  <1>2. Ends' = [d \in Clients |-> [e \in Clients |->
                  IF d \in {c} \/ e \in {c} THEN "idle" ELSE Ends[d][e]]]
    <2>1. \A d, e \in Clients :
            (IF d \in room' /\ e \in room' /\ d # e THEN EndOf(bin'[d][e]) ELSE "idle")
            = IF d \in {c} \/ e \in {c} THEN "idle" ELSE Ends[d][e]
      BY <1>1 DEF Ends
    <2>2. \A d, e \in Clients : EndOf(bin[d][e])' = EndOf(bin'[d][e])
      BY DEF EndOf
    <2> QED
      BY <2>1, <2>2 DEF Ends
  <1>3. Negotiation!Leave({c})
    BY <1>1, <1>2 DEF Negotiation!Leave
  <1>4. {c} \in SUBSET Clients
    OBVIOUS
  <1> QED
    BY <1>3, <1>4 DEF Negotiates, Negotiation!Next

\* A member has come to the next stage with another, who is where it should be.
LEMMA MoveEnds ==
  ASSUME bin \in [Clients -> [Clients -> Stages]], UNCHANGED room,
         NEW c \in room, NEW p \in room, c \in Clients, p \in Clients, c # p,
         NEW stage, SetBin(c, p, stage),
         \/ EndOf(bin[c][p]) = "idle" /\ EndOf(bin[p][c]) = "idle" /\ EndOf(stage) = "calling"
         \/ EndOf(bin[c][p]) = "idle" /\ EndOf(bin[p][c]) = "calling" /\ EndOf(stage) = "called"
         \/ EndOf(bin[c][p]) = "called" /\ EndOf(bin[p][c]) = "calling" /\ EndOf(stage) = "up"
         \/ EndOf(bin[c][p]) = "calling" /\ EndOf(bin[p][c]) = "up" /\ EndOf(stage) = "up"
  PROVE  Negotiates
  <1>1. Ends' = [Ends EXCEPT ![c][p] = EndOf(stage)]
    <2>1. \A d, e \in Clients : bin'[d][e] = IF d = c /\ e = p THEN stage ELSE bin[d][e]
      BY DEF SetBin
    <2>2. \A d, e \in Clients : EndOf(bin[d][e])' = EndOf(bin'[d][e])
      BY DEF EndOf
    <2>3. Ends' = [d \in Clients |-> [e \in Clients |->
                    IF d = c /\ e = p THEN EndOf(stage) ELSE Ends[d][e]]]
      BY <2>1, <2>2 DEF Ends
    <2>4. [Ends EXCEPT ![c][p] = EndOf(stage)] = [d \in Clients |-> [e \in Clients |->
                    IF d = c /\ e = p THEN EndOf(stage) ELSE Ends[d][e]]]
      BY DEF Ends
    <2> QED
      BY <2>3, <2>4
  <1>2. Ends[c][p] = EndOf(bin[c][p]) /\ Ends[p][c] = EndOf(bin[p][c])
    BY DEF Ends
  <1>3. \/ Negotiation!Offer(c, p) \/ Negotiation!Receive(c, p)
        \/ Negotiation!Answer(c, p) \/ Negotiation!Settle(c, p)
    BY <1>1, <1>2 DEF Negotiation!Offer, Negotiation!Receive, Negotiation!Answer,
                      Negotiation!Settle, Negotiation!Move
  <1> QED
    BY <1>3 DEF Negotiates, Negotiation!Next

\* One webrtcbin of c may have come to another stage.
LEMMA SetBinEnds ==
  ASSUME bin \in [Clients -> [Clients -> Stages]], UNCHANGED room,
         NEW c \in Clients, NEW p \in Clients, NEW stage, SetBin(c, p, stage),
         c \notin room \/ p \notin room \/ c = p \/ EndOf(stage) = EndOf(bin[c][p])
  PROVE  Negotiates
  <1>1. \A d, e \in Clients : bin'[d][e] = IF d = c /\ e = p THEN stage ELSE bin[d][e]
    BY DEF SetBin
  <1>2. \A d, e \in Clients : EndOf(bin[d][e])' = EndOf(bin'[d][e])
    BY DEF EndOf
  <1> QED
    BY <1>1, <1>2, StillEnds

-----------------------------------------------------------------------------
(* The steps.                                                              *)

LEMMA QuitEnds ==
  ASSUME NEW c \in Clients, NEW state, Quit(c, state), UNCHANGED bin
  PROVE  Negotiates
  BY GoneEnds DEF Quit

LEMMA AbortEnds ==
  ASSUME Inv, NEW c \in Clients, Abort(c)
  PROVE  Negotiates
  <1>1. \A d \in Clients \ {c} : bin'[d] = bin[d]
    BY Typed DEF Abort, Exit
  <1> QED
    BY <1>1, GoneEnds DEF Abort

LEMMA StopEnds ==
  ASSUME Inv, NEW c \in Clients, Stop(c)
  PROVE  Negotiates
  <1>1. c \notin room
    BY DEF Inv, Registered, Stop
  <1>2. \A d \in Clients \ {c} : bin'[d] = bin[d]
    BY Typed DEF Stop, Exit
  <1>3. \A d, e \in Clients : d # c => EndOf(bin[d][e])' = EndOf(bin[d][e])
    BY <1>2 DEF EndOf
  <1> QED
    BY <1>1, <1>3, StillEnds DEF Stop, service

\* The room is entered by a client that nobody has a webrtcbin for.
LEMMA EnterEnds ==
  ASSUME CallInv, NEW c \in Clients, NEW box, Outside(c), EnterRoom(box, c), UNCHANGED bin
  PROVE  Negotiates
  <1>0. Inv /\ Calls
    BY DEF CallInv
  <1>1. room' = room \cup {c}
    BY DEF EnterRoom, Outside
  <1>2. c \notin room /\ Fresh(c) /\ bin[c] = NoBins
    BY <1>0 DEF Inv, Registered, Outside, Fresh
  <1>3. \A d \in room : d \in Clients => bin[d][c] = "none"
    BY <1>0, <1>2 DEF Calls, Unknown, Inv, Registered
  <1>4. \A d, e \in Clients :
          (IF d \in room' /\ e \in room' /\ d # e THEN EndOf(bin[d][e]) ELSE "idle") = Ends[d][e]
    BY <1>1, <1>2, <1>3, StageEnds DEF Ends, NoBins
  <1>5. Ends' = Ends
    <2>1. \A d, e \in Clients : EndOf(bin[d][e])' = EndOf(bin[d][e])
      BY DEF EndOf
    <2> QED
      BY <1>4, <2>1 DEF Ends
  <1>6. Negotiation!Enter({c})
    BY <1>1, <1>5 DEF Negotiation!Enter
  <1>7. {c} \in SUBSET Clients
    OBVIOUS
  <1> QED
    BY <1>6, <1>7 DEF Negotiates, Negotiation!Next

LEMMA DoRegistrationEnds ==
  ASSUME CallInv, NEW c \in Clients, DoRegistration(c)
  PROVE  Negotiates
  <1>1. Receives(c, "hello") /\ UNCHANGED bin /\ Inv
    BY DEF DoRegistration, CallInv
  <1>2. CASE \E state : Quit(c, state)
    BY <1>1, <1>2, QuitEnds
  <1>3. CASE app[c] = SERVER_REGISTERING /\ EnterRoom(Rest(c), c)
    <2>1. CASE c \in online
      <3>1. c \notin room
        BY <1>1, <1>3 DEF Inv, Registered
      <3> QED
        BY <1>1, <1>3, <2>1, <3>1, EnterEnds DEF Outside
    <2>2. CASE c \notin online
      BY <1>1, <1>3, <2>2, SameBinsEnds DEF EnterRoom
    <2> QED
      BY <2>1, <2>2
  <1> QED
    BY <1>2, <1>3 DEF DoRegistration

\* The members that a newcomer is told to call have no end of a call with it.
LEMMA DoJoinRoomEnds ==
  ASSUME CallInv, NEW c \in Clients, DoJoinRoom(c)
  PROVE  Negotiates
  <1> DEFINE members == Head(inbox[c]).members
  <1>0. Inv /\ Calls /\ Receives(c, "room_ok")
    BY DEF CallInv, DoJoinRoom
  <1>1. CASE Quit(c, ROOM_JOIN_ERROR) /\ UNCHANGED bin
    BY <1>1, QuitEnds
  <1>2. CASE bin' = [bin EXCEPT ![c] = Call(@, members)] /\ UNCHANGED room
    <2>1. /\ life[c] = "running" /\ inbox[c] # <<>> /\ Head(inbox[c]).kind = "room_ok"
          /\ inbox[c] \in Seq(Sent) /\ bin \in [Clients -> [Clients -> Stages]]
      BY <1>0, Headed, Typed
    <2>2. \A p \in Clients : p \in members => bin[c][p] = "none"
      <3> SUFFICES ASSUME NEW p \in Clients, p \in members PROVE bin[c][p] = "none"
        OBVIOUS
      <3>1. Invited(inbox[c], p)
        BY <2>1, InvitedTail DEF Invites
      <3> QED
        BY <1>0, <2>1, <3>1 DEF Calls, Tells
    <2>3. \A d, e \in Clients : bin'[d][e] = IF d = c /\ e \in members THEN "new" ELSE bin[d][e]
      BY <1>2, <2>1 DEF Call
    <2>4. \A d, e \in Clients : EndOf(bin[d][e])' = EndOf(bin'[d][e])
      BY DEF EndOf
    <2>5. \A d, e \in Clients : EndOf(bin[d][e])' = EndOf(bin[d][e])
      BY <2>2, <2>3, <2>4, StageEnds
    <2> QED
      BY <1>2, <2>5, StillEnds
  <1> QED
    BY <1>1, <1>2 DEF DoJoinRoom

\* An offer of a member finds it calling, and nothing at this end.
LEMMA PeerOfferEnds ==
  ASSUME CallInv, NEW c \in Clients, PeerOffer(c)
  PROVE  Negotiates
  <1> DEFINE p == From(c)
  <1>0. Inv /\ Calls /\ bin \in [Clients -> [Clients -> Stages]]
    BY Typed DEF CallInv
  <1>1. CASE Abort(c)
    BY <1>0, <1>1, AbortEnds
  <1>2. CASE SetBin(c, p, "called") /\ UNCHANGED room
    <2>1. p \in Clients /\ bin[c][p] = "none" /\ Has(inbox[c], "offer", p)
      BY HeadHas DEF PeerOffer, Tells
    <2>2. Agree(p, c)
      BY <1>0, <2>1 DEF Calls
    <2>3. CASE c \in room /\ p \in room /\ c # p
      <3>1. bin[p][c] = "offered"
        BY <2>1, <2>2, <2>3 DEF Agree
      <3> QED
        BY <1>0, <1>2, <2>1, <2>3, <3>1, StageEnds, MoveEnds
    <2>4. CASE ~(c \in room /\ p \in room /\ c # p)
      BY <1>0, <1>2, <2>1, <2>4, SetBinEnds
    <2> QED
      BY <2>3, <2>4
  <1> QED
    BY <1>1, <1>2 DEF PeerOffer

\* An answer of a member finds the offer of this end, which it is for.
LEMMA PeerAnswerEnds ==
  ASSUME CallInv, NEW c \in Clients, PeerAnswer(c)
  PROVE  Negotiates
  <1> DEFINE p == From(c)
  <1>0. Inv /\ Calls /\ bin \in [Clients -> [Clients -> Stages]]
    BY Typed DEF CallInv
  <1>1. CASE Abort(c)
    BY <1>0, <1>1, AbortEnds
  <1>2. CASE SetBin(c, p, "connected") /\ UNCHANGED room
    <2>1. p \in Clients /\ bin[c][p] = "offered" /\ Has(inbox[c], "answer", p)
      BY HeadHas DEF PeerAnswer, Tells
    <2>2. Agree(p, c)
      BY <1>0, <2>1 DEF Calls
    <2>3. CASE c \in room /\ p \in room /\ c # p
      <3>1. bin[p][c] \in {"answered", "connected"}
        BY <2>1, <2>2, <2>3 DEF Agree
      <3> QED
        BY <1>0, <1>2, <2>1, <2>3, <3>1, StageEnds, MoveEnds
    <2>4. CASE ~(c \in room /\ p \in room /\ c # p)
      BY <1>0, <1>2, <2>1, <2>4, SetBinEnds
    <2> QED
      BY <2>3, <2>4
  <1> QED
    BY <1>1, <1>2 DEF PeerAnswer

LEMMA HandleSdpOfferEnds ==
  ASSUME CallInv, NEW c \in Clients, HandleSdpOffer(c)
  PROVE  Negotiates
  <1>0. Inv /\ Calls /\ bin \in [Clients -> [Clients -> Stages]]
        /\ busy \in [Clients -> Clients \cup {None}]
    BY Typed DEF CallInv
  <1>1. CASE Abort(c)
    BY <1>0, <1>1, AbortEnds
  <1>2. CASE SetBin(c, busy[c], "answering") /\ UNCHANGED room
    <2>1. busy[c] \in Clients /\ bin[c][busy[c]] = "called"
      BY <1>0 DEF Calls, BusyCalled, HandleSdpOffer
    <2> QED
      BY <1>0, <1>2, <2>1, StageEnds, SetBinEnds
  <1> QED
    BY <1>1, <1>2 DEF HandleSdpOffer, service

\* An offer or an answer is created for a member that is there for it.
LEMMA CreatedEnds ==
  ASSUME CallInv, NEW c \in Clients, NEW p \in Clients \ {c},
         OfferCreated(c, p) \/ AnswerCreated(c, p)
  PROVE  Negotiates
  <1>0. Inv /\ Calls /\ bin \in [Clients -> [Clients -> Stages]]
    BY Typed DEF CallInv
  <1>1. CASE Abort(c)
    BY <1>0, <1>1, AbortEnds
  <1>2. CASE \/ bin[c][p] = "creating" /\ SetBin(c, p, "offered") /\ UNCHANGED room
             \/ bin[c][p] = "answering" /\ SetBin(c, p, "answered") /\ UNCHANGED room
    <2>1. CASE c \in room /\ p \in room
      <3>1. Agree(c, p)
        BY <1>0 DEF Calls
      <3>2. /\ bin[c][p] = "creating" => bin[p][c] = "none"
            /\ bin[c][p] = "answering" => bin[p][c] = "offered"
        BY <2>1, <3>1 DEF Agree
      <3> QED
        BY <1>0, <1>2, <2>1, <3>2, StageEnds, MoveEnds
    <2>2. CASE ~(c \in room /\ p \in room)
      BY <1>0, <1>2, <2>2, SetBinEnds
    <2> QED
      BY <2>1, <2>2
  <1> QED
    BY <1>1, <1>2 DEF OfferCreated, AnswerCreated

LEMMA MainLoopEnds ==
  ASSUME CallInv, NEW c \in Clients, MainLoop(c)
  PROVE  Negotiates
  <1>0. Inv
    BY DEF CallInv
  <1>1. CASE ServerConnected(c) \/ PeerJoined(c)
    BY <1>1, SameBinsEnds DEF ServerConnected, PeerJoined
  <1>2. CASE ConnectFails(c) \/ PipelineFails(c) \/ HandleError(c) \/ ServerClosed(c)
    BY <1>2, QuitEnds DEF ConnectFails, PipelineFails, HandleError, ServerClosed
  <1>3. CASE PeerLeft(c) \/ PeerIce(c)
    BY <1>0, <1>3, SameBinsEnds, AbortEnds DEF PeerLeft, PeerIce, client
  <1> QED
    BY <1>1, <1>2, <1>3, DoRegistrationEnds, DoJoinRoomEnds, PeerOfferEnds, PeerAnswerEnds,
       HandleSdpOfferEnds DEF MainLoop

LEMMA CallbackEnds ==
  ASSUME CallInv, NEW c \in Clients, NEW p \in Clients \ {c}, Callback(c, p)
  PROVE  Negotiates
  <1>0. bin \in [Clients -> [Clients -> Stages]]
    BY Typed DEF CallInv
  <1>1. CASE NegotiationNeeded(c, p) \/ CallStarted(c, p)
    <2>1. /\ UNCHANGED room
          /\ \/ bin[c][p] = "new" /\ SetBin(c, p, "creating")
             \/ bin[c][p] = "answered" /\ SetBin(c, p, "connected")
      BY <1>1 DEF NegotiationNeeded, CallStarted, service
    <2> QED
      BY <1>0, <2>1, StageEnds, SetBinEnds
  <1>2. CASE SendIceCandidate(c, p)
    BY <1>2, SameBinsEnds, QuitEnds DEF SendIceCandidate
  <1> QED
    BY <1>1, <1>2, CreatedEnds DEF Callback

LEMMA HandshakeStep ==
  ASSUME CallInv, [Next]_vars
  PROVE  [Negotiation!Next]_<<room, Ends>>
  <1> SUFFICES Negotiates
    BY DEF Negotiates
  <1>0. Inv
    BY DEF CallInv
  <1>1. ASSUME NEW c \in Clients, Drop(c) PROVE Negotiates
    BY <1>1, GoneEnds DEF Drop, client
  <1>2. ASSUME NEW c \in Clients, Callbacks(c) PROVE Negotiates
    BY <1>2, CallbackEnds DEF Callbacks
  <1>3. CASE UNCHANGED vars
    BY <1>3, SameBinsEnds DEF vars, client, service
  <1> QED
    BY <1>0, <1>1, <1>2, <1>3, StopEnds, MainLoopEnds DEF Next

\* However many members there are, each two of them negotiate as Handshake says
\* while the others enter, leave and fail: they never both offer (call_peer,
\* l.541), an offer is taken up by an end that has none, while it stands
\* (l.726), and an answer settles the offer that it is for (l.667).
THEOREM HandshakeRefined == Spec => HandshakeSpec
  <1>1. Init => Negotiation!Init
    BY StageEnds DEF Init, Negotiation!Init, Ends
  <1>2. CallInv /\ [Next]_vars => [Negotiation!Next]_<<room, Ends>>
    BY HandshakeStep
  <1> QED
    BY <1>1, <1>2, CallInvariance, PTL DEF Spec, HandshakeSpec, Negotiation!Spec

-----------------------------------------------------------------------------
(* Of two members one is to call the other, and what the caller waits for  *)
(* is in its inbox or still to be made.                                    *)

Meet(c, p) ==
  c \in room /\ p \in room /\ c # p =>
    /\ \/ bin[c][p] # "none" \/ bin[p][c] # "none"
       \/ Invited(inbox[c], p) \/ Invited(inbox[p], c)
    /\ bin[c][p] = "offered" /\ bin[p][c] \in {"answered", "connected"} =>
         Has(inbox[c], "answer", p)
    /\ bin[c][p] \in {"answered", "connected"} => bin[p][c] \in {"offered", "answered", "connected"}
    /\ bin[c][p] = "offered" => bin[p][c] # "offered"
    /\ bin[c][p] = "called" => busy[c] = p

Meets == \A c, p \in Clients : Meet(c, p)
MeetInv == CallInv /\ Meets

\* What d is to do with e, or waits for, is not lost.
Keeps(d, e) ==
  /\ Invited(inbox[d], e) => Invited(inbox'[d], e)
  /\ Has(inbox[d], "answer", e) => Has(inbox'[d], "answer", e)

LEMMA KeepsAppend ==
  ASSUME NEW d, NEW e, inbox[d] \in Seq(Sent),
         NEW m \in Sent, inbox'[d] = inbox[d] \/ inbox'[d] = Append(inbox[d], m)
  PROVE  Keeps(d, e)
  <1>1. CASE inbox'[d] = inbox[d]
    BY <1>1 DEF Keeps
  <1>2. CASE inbox'[d] = Append(inbox[d], m)
    BY <1>2, HasAppend, InvitedAppend DEF Keeps
  <1> QED
    BY <1>1, <1>2

LEMMA KeepsTail ==
  ASSUME NEW d, NEW e, inbox[d] \in Seq(Sent), inbox[d] # <<>>, inbox'[d] = Tail(inbox[d]),
         ~Invites(Head(inbox[d]), e), ~(Head(inbox[d]).kind = "answer" /\ Head(inbox[d]).from = e)
  PROVE  Keeps(d, e)
  BY HasTail, InvitedTail DEF Keeps

\* A step of c that has no part in what c and another member have come to.
LEMMA StepMeets ==
  ASSUME Meets, NEW c \in Clients, room' \subseteq room,
         \A d \in Clients \ {c} : bin'[d] = bin[d] /\ busy'[d] = busy[d],
         \A d \in Clients \ {c} : d \in room' => \A e \in Clients : Keeps(d, e),
         c \in room' => \A e \in Clients \ {c} :
           \/ /\ Keeps(c, e) /\ bin'[c][e] = bin[c][e]
              /\ bin[c][e] = "called" => busy'[c] = busy[c]
           \/ e \in room' => Meet(c, e)' /\ Meet(e, c)'
  PROVE  Meets'
  <1> SUFFICES ASSUME NEW d \in Clients, NEW e \in Clients, d \in room', e \in room', d # e
               PROVE  Meet(d, e)'
    BY DEF Meets, Meet
  <1>0. Meet(d, e) /\ Meet(e, d) /\ d \in room /\ e \in room
    BY DEF Meets
  <1>1. CASE d # c /\ e # c
    BY <1>0, <1>1 DEF Meet, Keeps
  <1>2. CASE d = c
    <2>1. Keeps(e, d) /\ bin'[e] = bin[e]
      BY <1>2
    <2>2. CASE e \in room' => Meet(c, e)'
      BY <1>2, <2>2
    <2>3. CASE Keeps(c, e) /\ bin'[c][e] = bin[c][e] /\ (bin[c][e] = "called" => busy'[c] = busy[c])
      BY <1>0, <1>2, <2>1, <2>3 DEF Meet, Keeps
    <2> QED
      BY <1>2, <2>2, <2>3
  <1>3. CASE e = c
    <2>1. Keeps(d, e) /\ bin'[d] = bin[d] /\ busy'[d] = busy[d] /\ d # c
      BY <1>3
    <2>2. CASE d \in room' => Meet(d, c)'
      BY <1>3, <2>2
    <2>3. CASE Keeps(c, d) /\ bin'[c][d] = bin[c][d]
      BY <1>0, <1>3, <2>1, <2>3 DEF Meet, Keeps
    <2> QED
      BY <1>3, <2>1, <2>2, <2>3
  <1> QED
    BY <1>1, <1>2, <1>3

-----------------------------------------------------------------------------
(* The steps.                                                              *)

LEMMA GoneMeets ==
  ASSUME MeetInv, NEW c \in Clients, NEW box \in [Clients -> Seq(Sent)], Gone(box, c),
         \A d \in Clients \ {c} : box[d] = inbox[d] /\ bin'[d] = bin[d] /\ busy'[d] = busy[d]
  PROVE  Meets'
  <1>0. Inv /\ Meets /\ inbox \in [Clients -> Seq(Sent)] /\ room' = room \ {c}
    BY Typed DEF MeetInv, CallInv, Gone
  <1>1. Msg("left", c) \in Sent
    BY MsgSent DEF AboutKinds
  <1>2. \A d \in Clients \ {c} :
          inbox'[d] = inbox[d] \/ inbox'[d] = Append(inbox[d], Msg("left", c))
    <2>1. \A d \in Clients \ {c} : inbox'[d] =
            IF c \in room /\ d \in room THEN Append(box[d], Msg("left", c)) ELSE box[d]
      BY <1>0, GoneFacts
    <2> QED
      BY <2>1
  <1>3. \A d \in Clients \ {c}, e \in Clients : Keeps(d, e)
    BY <1>0, <1>1, <1>2, KeepsAppend
  <1> QED
    BY <1>0, <1>3, StepMeets

LEMMA UnreadBox ==
  ASSUME MeetInv, NEW c \in Clients
  PROVE  /\ Unread(inbox, c) \in [Clients -> Seq(Sent)]
         /\ \A d \in Clients \ {c} : Unread(inbox, c)[d] = inbox[d]
  BY Typed DEF MeetInv, CallInv, Unread

LEMMA QuitMeets ==
  ASSUME MeetInv, NEW c \in Clients, NEW state, Quit(c, state), UNCHANGED <<bin, busy>>
  PROVE  Meets'
  BY UnreadBox, GoneMeets DEF Quit

LEMMA ExitOthers ==
  ASSUME MeetInv, NEW c \in Clients, NEW how, Exit(c, how)
  PROVE  \A d \in Clients \ {c} : bin'[d] = bin[d] /\ busy'[d] = busy[d]
  BY Typed DEF MeetInv, CallInv, Exit

LEMMA AbortMeets ==
  ASSUME MeetInv, NEW c \in Clients, Abort(c)
  PROVE  Meets'
  BY UnreadBox, ExitOthers, GoneMeets DEF Abort

LEMMA DropMeets ==
  ASSUME MeetInv, NEW c \in Clients, Drop(c)
  PROVE  Meets'
  <1>0. inbox \in [Clients -> Seq(Sent)] /\ UNCHANGED <<bin, busy>>
    BY Typed DEF MeetInv, CallInv, Drop, client
  <1>1. Msg("closed", None) \in Sent
    BY MsgSent DEF AboutKinds
  <1>2. /\ Put(inbox, c, Msg("closed", None)) \in [Clients -> Seq(Sent)]
        /\ \A d \in Clients \ {c} : Put(inbox, c, Msg("closed", None))[d] = inbox[d]
    BY <1>0, <1>1, AppendFacts DEF Put
  <1> QED
    BY <1>0, <1>2, GoneMeets DEF Drop

LEMMA StopMeets ==
  ASSUME MeetInv, NEW c \in Clients, Stop(c)
  PROVE  Meets'
  <1>0. Inv /\ Meets /\ UNCHANGED <<inbox, room>>
    BY DEF MeetInv, CallInv, Stop, service
  <1>1. c \notin room
    BY <1>0 DEF Inv, Registered, Stop
  <1>2. \A d \in Clients \ {c} : bin'[d] = bin[d] /\ busy'[d] = busy[d]
    BY ExitOthers DEF Stop
  <1>3. \A d, e \in Clients : Keeps(d, e)
    BY <1>0 DEF Keeps
  <1> QED
    BY <1>0, <1>1, <1>2, <1>3, StepMeets

\* A message is put into inboxes and nothing else done.
LEMMA ConnectedMeets ==
  ASSUME MeetInv, NEW c \in Clients, ServerConnected(c)
  PROVE  Meets'
  <1>0. Meets /\ inbox \in [Clients -> Seq(Sent)] /\ UNCHANGED <<bin, busy, room>>
    BY Typed DEF MeetInv, CallInv, ServerConnected
  <1>1. Msg("hello", None) \in Sent /\ Msg("closed", None) \in Sent
    BY MsgSent DEF AboutKinds
  <1>2. \A d, e \in Clients : Keeps(d, e)
    BY <1>0, <1>1, KeepsAppend DEF ServerConnected, Put
  <1> QED
    BY <1>0, <1>2, StepMeets

\* Whoever enters is told to call those that are there.
LEMMA EnterMeets ==
  ASSUME MeetInv, NEW c \in Clients, Outside(c), inbox[c] # <<>>, EnterRoom(Rest(c), c),
         UNCHANGED <<bin, busy>>
  PROVE  Meets'
  <1>0. /\ Inv /\ Calls /\ Meets /\ inbox \in [Clients -> Seq(Sent)] /\ room \subseteq Clients
    BY Typed DEF MeetInv, CallInv
  <1>1. /\ c \in online /\ c \notin room /\ Fresh(c) /\ bin[c] = NoBins
        /\ inbox[c] = <<Msg("hello", None)>>
    BY <1>0 DEF Inv, Registered, Outside, Fresh
  <1>2. /\ room' = room \cup {c}
        /\ inbox' = Put(PutAll(Rest(c), room, Msg("joined", c)), c, RoomOk(room))
    BY <1>1 DEF EnterRoom
  <1>3. /\ Msg("joined", c) \in Sent /\ RoomOk(room) \in Sent
    <2>1. RoomOk(room) \in Message /\ RoomOk(room).kind = "room_ok"
      BY <1>0 DEF RoomOk, Message, Kinds
    <2> QED
      BY <2>1, MsgSent DEF Sent, AboutKinds
  <1>4. \A d \in Clients \ {c} :
          inbox'[d] = inbox[d] \/ inbox'[d] = Append(inbox[d], Msg("joined", c))
    BY <1>0, <1>2 DEF Put, PutAll, Rest
  <1>5. \A e \in room : Invited(inbox'[c], e)
    <2>1. Rest(c)[c] \in Seq(Sent) /\ inbox'[c] = Append(Rest(c)[c], RoomOk(room))
      BY <1>0, <1>1, <1>2, TailFacts DEF Put, PutAll, Rest
    <2>2. \A e \in room : Invites(RoomOk(room), e)
      BY DEF Invites, RoomOk
    <2> QED
      BY <1>0, <1>3, <2>1, <2>2, InvitedAppend
  <1>6. \A d \in room : d \in Clients /\ bin[d][c] = "none"
    BY <1>0, <1>1 DEF Calls, Unknown, Inv, Registered
  <1>7. \A e \in room : bin[c][e] = "none"
    BY <1>0, <1>1 DEF NoBins
  <1> SUFFICES ASSUME NEW d \in Clients, NEW e \in Clients, d \in room', e \in room', d # e
               PROVE  Meet(d, e)'
    BY DEF Meets, Meet
  <1>8. CASE d # c /\ e # c
    <2>1. Keeps(d, e) /\ Keeps(e, d)
      BY <1>0, <1>3, <1>4, <1>8, KeepsAppend
    <2>2. Meet(d, e) /\ d \in room /\ e \in room
      BY <1>0, <1>2, <1>8 DEF Meets
    <2> QED
      BY <2>1, <2>2 DEF Meet, Keeps
  <1>9. CASE d = c
    BY <1>2, <1>5, <1>6, <1>7, <1>9 DEF Meet
  <1>10. CASE e = c
    BY <1>2, <1>5, <1>6, <1>7, <1>10 DEF Meet
  <1> QED
    BY <1>8, <1>9, <1>10

\* c has read a message, which may be about p, and set the webrtcbin for p.
LEMMA ReadMeets ==
  ASSUME MeetInv, NEW c \in Clients, inbox[c] # <<>>, inbox' = Rest(c),
         room' = room, \A d \in Clients \ {c} : bin'[d] = bin[d] /\ busy'[d] = busy[d],
         c \in room => \A e \in Clients \ {c} :
           \/ /\ bin'[c][e] = bin[c][e] /\ (bin[c][e] = "called" => busy'[c] = busy[c])
              /\ ~Invites(Head(inbox[c]), e)
              /\ ~(Head(inbox[c]).kind = "answer" /\ Head(inbox[c]).from = e)
           \/ e \in room => Meet(c, e)' /\ Meet(e, c)'
  PROVE  Meets'
  <1>0. Meets /\ inbox \in [Clients -> Seq(Sent)]
    BY Typed DEF MeetInv, CallInv
  <1>1. inbox'[c] = Tail(inbox[c]) /\ \A d \in Clients \ {c} : inbox'[d] = inbox[d]
    BY <1>0 DEF Rest
  <1>2. \A d \in Clients \ {c} : \A e \in Clients : Keeps(d, e)
    BY <1>1 DEF Keeps
  <1>3. \A e \in Clients :
          /\ ~Invites(Head(inbox[c]), e)
          /\ ~(Head(inbox[c]).kind = "answer" /\ Head(inbox[c]).from = e)
          => Keeps(c, e)
    BY <1>0, <1>1, KeepsTail
  <1> QED
    BY <1>0, <1>2, <1>3, StepMeets

\* Its webrtcbin for p has come to another stage, and what it has to do with the
\* others stays.
LEMMA MoveMeets ==
  ASSUME MeetInv, NEW c \in Clients, NEW p \in Clients, NEW stage, SetBin(c, p, stage),
         UNCHANGED room, \A d \in Clients \ {c} : busy'[d] = busy[d],
         \A e \in Clients \ {p} : bin[c][e] = "called" /\ e \in room /\ c \in room /\ c # e =>
           busy'[c] = busy[c],
         \A d, e \in Clients : (d = c /\ e = p) \/ Keeps(d, e),
         c \in room /\ p \in room /\ c # p => Meet(c, p)' /\ Meet(p, c)'
  PROVE  Meets'
  <1>0. Meets /\ bin \in [Clients -> [Clients -> Stages]]
    BY Typed DEF MeetInv, CallInv
  <1>1. /\ \A d \in Clients \ {c} : bin'[d] = bin[d]
        /\ \A e \in Clients \ {p} : bin'[c][e] = bin[c][e]
    BY <1>0 DEF SetBin
  <1>2. c \in room' => \A e \in Clients \ {c} :
          \/ /\ Keeps(c, e) /\ bin'[c][e] = bin[c][e]
             /\ bin[c][e] = "called" => busy'[c] = busy[c]
          \/ e \in room' => Meet(c, e)' /\ Meet(e, c)'
    BY <1>1
  <1> QED
    BY <1>0, <1>1, <1>2, StepMeets

\* A message that concerns no call, or a candidate, is read.
LEMMA PlainMeets ==
  ASSUME MeetInv, NEW c \in Clients, inbox[c] # <<>>, inbox' = Rest(c),
         Head(inbox[c]).kind \in {"hello", "joined", "left", "ice"},
         UNCHANGED <<bin, busy, room>>
  PROVE  Meets'
  BY ReadMeets DEF Invites

LEMMA DoRegistrationMeets ==
  ASSUME MeetInv, NEW c \in Clients, DoRegistration(c)
  PROVE  Meets'
  <1>0. /\ inbox[c] # <<>> /\ Head(inbox[c]).kind = "hello" /\ UNCHANGED <<bin, busy>> /\ Inv
    BY DEF DoRegistration, Receives, MeetInv, CallInv
  <1>1. CASE \E state : Quit(c, state)
    BY <1>0, <1>1, QuitMeets
  <1>2. CASE app[c] = SERVER_REGISTERING /\ EnterRoom(Rest(c), c)
    <2>1. CASE c \in online
      <3>1. c \notin room
        BY <1>0, <1>2 DEF Inv, Registered
      <3> QED
        BY <1>0, <1>2, <2>1, <3>1, EnterMeets DEF Outside
    <2>2. CASE c \notin online
      BY <1>0, <1>2, <2>2, PlainMeets DEF EnterRoom
    <2> QED
      BY <2>1, <2>2
  <1> QED
    BY <1>1, <1>2 DEF DoRegistration

\* The members it is told of have not called it, and will not.
LEMMA DoJoinRoomMeets ==
  ASSUME MeetInv, NEW c \in Clients, DoJoinRoom(c)
  PROVE  Meets'
  <1> DEFINE H == Head(inbox[c])
  <1>0. /\ Inv /\ Calls /\ inbox \in [Clients -> Seq(Sent)]
        /\ bin \in [Clients -> [Clients -> Stages]]
        /\ inbox[c] # <<>> /\ H.kind = "room_ok"
    BY Typed DEF MeetInv, CallInv, DoJoinRoom, Receives
  <1>1. CASE Quit(c, ROOM_JOIN_ERROR) /\ UNCHANGED <<bin, busy>>
    BY <1>1, QuitMeets
  <1>2. CASE /\ bin' = [bin EXCEPT ![c] = Call(@, H.members)] /\ inbox' = Rest(c)
             /\ UNCHANGED <<busy, room>>
    <2>1. /\ \A d \in Clients \ {c} : bin'[d] = bin[d]
          /\ \A e \in Clients : bin'[c][e] = IF e \in H.members THEN "new" ELSE bin[c][e]
      BY <1>0, <1>2 DEF Call
    <2>2. ASSUME NEW e \in Clients \ {c}, c \in room', e \in H.members, e \in room'
          PROVE  Meet(c, e)' /\ Meet(e, c)'
      <3>1. Invited(inbox[c], e) /\ Agree(c, e)
        BY <1>0, <2>2, InvitedTail DEF Invites, Calls
      <3>2. bin'[e][c] = "none" /\ bin'[c][e] = "new"
        BY <1>2, <2>1, <2>2, <3>1 DEF Agree
      <3> QED
        BY <3>2 DEF Meet
    <2>3. \A e \in Clients : e \notin H.members =>
            /\ ~Invites(H, e) /\ ~(H.kind = "answer" /\ H.from = e)
            /\ bin'[c][e] = bin[c][e]
      BY <1>0, <2>1 DEF Invites
    <2> QED
      BY <1>0, <1>2, <2>1, <2>2, <2>3, ReadMeets
  <1> QED
    BY <1>1, <1>2 DEF DoJoinRoom

LEMMA PeerOfferMeets ==
  ASSUME MeetInv, NEW c \in Clients, PeerOffer(c), NEW p, p = From(c)
  PROVE  Meets'
  <1>0. /\ CallInv /\ Inv /\ Calls /\ Meets /\ inbox \in [Clients -> Seq(Sent)]
        /\ bin \in [Clients -> [Clients -> Stages]]
        /\ busy \in [Clients -> Clients \cup {None}]
    BY Typed DEF MeetInv, CallInv
  <1>1. CASE Abort(c)
    BY <1>1, AbortMeets
  <1>2. CASE /\ SetBin(c, p, "called") /\ busy' = [busy EXCEPT ![c] = p]
             /\ inbox' = Rest(c) /\ UNCHANGED room
    <2>1. /\ p \in Clients /\ Has(inbox[c], "offer", p) /\ inbox[c] # <<>>
          /\ Head(inbox[c]).kind = "offer" /\ busy[c] = None
      BY <1>0, HeadHas DEF PeerOffer, Receives, Idle
    <2>2. \A d, e \in Clients : Keeps(d, e)
      <3>1. /\ inbox'[c] = Tail(inbox[c]) /\ \A d \in Clients \ {c} : inbox'[d] = inbox[d]
            /\ \A e : ~Invites(Head(inbox[c]), e) /\ Head(inbox[c]).kind # "answer"
        BY <1>0, <1>2, <2>1 DEF Rest, Invites
      <3>2. \A e \in Clients : Keeps(c, e)
        BY <1>0, <2>1, <3>1, KeepsTail
      <3> QED
        BY <3>1, <3>2 DEF Keeps
    <2>3. \A e \in Clients \ {p} : ~(bin[c][e] = "called" /\ e \in room /\ c \in room /\ c # e)
      BY <1>0, <2>1, ClientsAssumption DEF Meets, Meet
    <2>4. ASSUME c \in room, p \in room, c # p PROVE Meet(c, p)' /\ Meet(p, c)'
      <3>1. bin[p][c] = "offered"
        BY <1>0, <2>1, <2>4 DEF Calls, Agree
      <3>2. bin'[c][p] = "called" /\ bin'[p][c] = "offered" /\ busy'[c] = p
        BY <1>0, <1>2, <2>1, <2>4, <3>1 DEF SetBin
      <3> QED
        BY <3>2 DEF Meet
    <2>5. \A d \in Clients \ {c} : busy'[d] = busy[d]
      BY <1>0, <1>2
    <2> QED
      BY <1>2, <2>1, <2>2, <2>3, <2>4, <2>5, MoveMeets
  <1> QED
    BY <1>1, <1>2 DEF PeerOffer

LEMMA HandleSdpOfferMeets ==
  ASSUME MeetInv, NEW c \in Clients, HandleSdpOffer(c), NEW p, p = busy[c]
  PROVE  Meets'
  <1>0. /\ Inv /\ Calls /\ Meets /\ bin \in [Clients -> [Clients -> Stages]]
        /\ busy \in [Clients -> Clients \cup {None}]
    BY Typed DEF MeetInv, CallInv
  <1>1. CASE Abort(c)
    BY <1>1, AbortMeets
  <1>2. CASE /\ SetBin(c, p, "answering") /\ busy' = [busy EXCEPT ![c] = None]
             /\ UNCHANGED <<inbox, room>>
    <2>1. p \in Clients /\ bin[c][p] = "called"
      BY <1>0 DEF Calls, BusyCalled, HandleSdpOffer
    <2>2. \A d, e \in Clients : Keeps(d, e)
      BY <1>2 DEF Keeps
    <2>3. \A e \in Clients \ {p} : ~(bin[c][e] = "called" /\ e \in room /\ c \in room /\ c # e)
      BY <1>0 DEF Meets, Meet
    <2>4. ASSUME c \in room, p \in room, c # p PROVE Meet(c, p)' /\ Meet(p, c)'
      <3>1. bin[p][c] = "offered"
        BY <1>0, <2>1, <2>4 DEF Calls, Agree
      <3>2. bin'[c][p] = "answering" /\ bin'[p][c] = "offered"
        BY <1>0, <1>2, <2>1, <2>4, <3>1 DEF SetBin
      <3> QED
        BY <3>2 DEF Meet
    <2>5. \A d \in Clients \ {c} : busy'[d] = busy[d]
      BY <1>0, <1>2
    <2> QED
      BY <1>2, <2>1, <2>2, <2>3, <2>4, <2>5, MoveMeets
  <1> QED
    BY <1>1, <1>2 DEF HandleSdpOffer, service

\* An answer leaves only the one that it is for connected.
LEMMA PeerAnswerMeets ==
  ASSUME MeetInv, NEW c \in Clients, PeerAnswer(c), NEW p, p = From(c)
  PROVE  Meets'
  <1>0. /\ CallInv /\ Inv /\ Calls /\ Meets /\ inbox \in [Clients -> Seq(Sent)]
        /\ bin \in [Clients -> [Clients -> Stages]]
    BY Typed DEF MeetInv, CallInv
  <1>1. CASE Abort(c)
    BY <1>1, AbortMeets
  <1>2. CASE SetBin(c, p, "connected") /\ inbox' = Rest(c) /\ UNCHANGED <<busy, room>>
    <2>1. /\ p \in Clients /\ Has(inbox[c], "answer", p) /\ inbox[c] # <<>>
          /\ Head(inbox[c]).kind = "answer" /\ Head(inbox[c]).from = p
      BY <1>0, HeadHas DEF PeerAnswer
    <2>2. \A d, e \in Clients : (d = c /\ e = p) \/ Keeps(d, e)
      <3>1. /\ inbox'[c] = Tail(inbox[c]) /\ \A d \in Clients \ {c} : inbox'[d] = inbox[d]
            /\ \A e : ~Invites(Head(inbox[c]), e)
        BY <1>0, <1>2, <2>1 DEF Rest, Invites
      <3>2. \A e \in Clients \ {p} : Keeps(c, e)
        BY <1>0, <2>1, <3>1, KeepsTail
      <3> QED
        BY <3>1, <3>2 DEF Keeps
    <2>3. ASSUME c \in room, p \in room, c # p PROVE Meet(c, p)' /\ Meet(p, c)'
      <3>1. bin[p][c] \in {"answered", "connected"}
        BY <1>0, <2>1, <2>3 DEF Calls, Agree
      <3>2. bin'[c][p] = "connected" /\ bin'[p][c] \in {"answered", "connected"}
        BY <1>0, <1>2, <2>1, <2>3, <3>1 DEF SetBin
      <3> QED
        BY <3>2 DEF Meet
    <2>4. UNCHANGED <<busy, room>>
      BY <1>2
    <2> QED
      BY <1>2, <2>1, <2>2, <2>3, <2>4, MoveMeets
  <1> QED
    BY <1>1, <1>2 DEF PeerAnswer

LEMMA MainLoopMeets ==
  ASSUME MeetInv, NEW c \in Clients, MainLoop(c)
  PROVE  Meets'
  <1>1. CASE ConnectFails(c) \/ PipelineFails(c) \/ HandleError(c) \/ ServerClosed(c)
    BY <1>1, QuitMeets DEF ConnectFails, PipelineFails, HandleError, ServerClosed
  <1>2. CASE PeerJoined(c) \/ PeerLeft(c) \/ PeerIce(c)
    BY <1>2, PlainMeets, AbortMeets DEF PeerJoined, PeerLeft, PeerIce, Receives, client
  <1> QED
    BY <1>1, <1>2, ConnectedMeets, DoRegistrationMeets, DoJoinRoomMeets, PeerOfferMeets,
       HandleSdpOfferMeets, PeerAnswerMeets DEF MainLoop

-----------------------------------------------------------------------------
(* The webrtcbins.                                                         *)

\* What Relay sends is added to what waits.
LEMMA RelayKeeps ==
  ASSUME CallInv, NEW c \in Clients, NEW p \in Clients, bin[c][p] # "none",
         NEW kind \in {"offer", "answer", "ice"}, inbox' = Relay(inbox, c, p, kind)
  PROVE  /\ \A d, e \in Clients : Keeps(d, e)
         /\ c \in room /\ p \in room => Has(inbox'[p], kind, c)
  <1>0. inbox \in [Clients -> Seq(Sent)]
    BY Typed DEF CallInv
  <1>1. /\ Msg(kind, c) \in Sent /\ Msg("error", None) \in Sent
        /\ Msg(kind, c).kind = kind /\ Msg(kind, c).from = c
    BY MsgSent DEF AboutKinds, Msg
  <1>2. CASE c \in room /\ p \in room /\ inbox' = Put(inbox, p, Msg(kind, c))
    <2>1. /\ inbox'[p] = Append(inbox[p], Msg(kind, c))
          /\ \A d \in Clients :
               inbox'[d] = inbox[d] \/ inbox'[d] = Append(inbox[d], Msg(kind, c))
      BY <1>0, <1>2 DEF Put
    <2>2. \A d, e \in Clients : Keeps(d, e)
      BY <1>0, <1>1, <2>1, KeepsAppend
    <2>3. Has(inbox'[p], kind, c)
      BY <1>0, <1>1, <2>1, HasAppend
    <2> QED
      BY <2>2, <2>3
  <1>3. CASE /\ ~(c \in room /\ p \in room)
             /\ inbox' \in {inbox, Put(inbox, c, Msg("error", None))}
    <2>1. \A d \in Clients :
            inbox'[d] = inbox[d] \/ inbox'[d] = Append(inbox[d], Msg("error", None))
      BY <1>0, <1>3 DEF Put
    <2> QED
      BY <1>0, <1>1, <1>3, <2>1, KeepsAppend
  <1> QED
    BY <1>2, <1>3, RelayFacts

LEMMA StateSetMeets ==
  ASSUME MeetInv, NEW c \in Clients, NEW p \in Clients \ {c},
         NegotiationNeeded(c, p) \/ CallStarted(c, p)
  PROVE  Meets'
  <1>0. /\ Calls /\ Meets /\ bin \in [Clients -> [Clients -> Stages]]
        /\ UNCHANGED <<inbox, busy, room>>
    BY Typed DEF MeetInv, CallInv, NegotiationNeeded, CallStarted, service
  <1>1. \A d, e \in Clients : Keeps(d, e)
    BY <1>0 DEF Keeps
  <1>2. CASE bin[c][p] = "new" /\ SetBin(c, p, "creating")
    <2>1. ASSUME c \in room, p \in room PROVE Meet(c, p)' /\ Meet(p, c)'
      <3>1. bin'[c][p] = "creating" /\ bin'[p][c] = "none"
        BY <1>0, <1>2, <2>1 DEF Calls, Agree, SetBin
      <3> QED
        BY <3>1 DEF Meet
    <2> QED
      BY <1>0, <1>1, <1>2, <2>1, MoveMeets
  <1>3. CASE bin[c][p] = "answered" /\ SetBin(c, p, "connected")
    <2>1. ASSUME c \in room, p \in room PROVE Meet(c, p)' /\ Meet(p, c)'
      <3>1. /\ bin'[c][p] = "connected" /\ bin'[p][c] = bin[p][c]
            /\ Meet(c, p) /\ Meet(p, c)
        BY <1>0, <1>3 DEF SetBin, Meets
      <3> QED
        BY <1>0, <1>3, <2>1, <3>1 DEF Meet
    <2> QED
      BY <1>0, <1>1, <1>3, <2>1, MoveMeets
  <1> QED
    BY <1>2, <1>3 DEF NegotiationNeeded, CallStarted

LEMMA CreatedMeets ==
  ASSUME MeetInv, NEW c \in Clients, NEW p \in Clients \ {c},
         OfferCreated(c, p) \/ AnswerCreated(c, p)
  PROVE  Meets'
  <1>0. /\ CallInv /\ Calls /\ bin \in [Clients -> [Clients -> Stages]] /\ UNCHANGED drops
    BY Typed DEF MeetInv, CallInv, OfferCreated, AnswerCreated
  <1>1. CASE Abort(c)
    BY <1>1, AbortMeets
  <1>2. CASE /\ bin[c][p] = "creating" /\ SetBin(c, p, "offered")
             /\ inbox' = Relay(inbox, c, p, "offer") /\ UNCHANGED <<busy, room>>
    <2>1. \A d, e \in Clients : Keeps(d, e)
      BY <1>0, <1>2, RelayKeeps
    <2>2. ASSUME c \in room, p \in room PROVE Meet(c, p)' /\ Meet(p, c)'
      <3>1. bin'[c][p] = "offered" /\ bin'[p][c] = "none"
        BY <1>0, <1>2, <2>2 DEF Calls, Agree, SetBin
      <3> QED
        BY <3>1 DEF Meet
    <2> QED
      BY <1>2, <2>1, <2>2, MoveMeets
  <1>3. CASE /\ bin[c][p] = "answering" /\ SetBin(c, p, "answered")
             /\ inbox' = Relay(inbox, c, p, "answer") /\ UNCHANGED <<busy, room>>
    <2>1. /\ \A d, e \in Clients : Keeps(d, e)
          /\ c \in room /\ p \in room => Has(inbox'[p], "answer", c)
      BY <1>0, <1>3, RelayKeeps
    <2>2. ASSUME c \in room, p \in room PROVE Meet(c, p)' /\ Meet(p, c)'
      <3>1. bin'[c][p] = "answered" /\ bin'[p][c] = "offered"
        BY <1>0, <1>3, <2>2 DEF Calls, Agree, SetBin
      <3> QED
        BY <2>1, <2>2, <3>1 DEF Meet
    <2> QED
      BY <1>3, <2>1, <2>2, MoveMeets
  <1> QED
    BY <1>1, <1>2, <1>3 DEF OfferCreated, AnswerCreated

LEMMA SendIceMeets ==
  ASSUME MeetInv, NEW c \in Clients, NEW p \in Clients \ {c}, SendIceCandidate(c, p)
  PROVE  Meets'
  <1>0. CallInv /\ Meets /\ UNCHANGED <<bin, busy>> /\ bin[c][p] # "none"
    BY DEF MeetInv, SendIceCandidate, Gathering
  <1>1. CASE Quit(c, ERROR)
    BY <1>0, <1>1, QuitMeets
  <1>2. CASE inbox' = Relay(inbox, c, p, "ice") /\ UNCHANGED room
    <2>1. \A d, e \in Clients : Keeps(d, e)
      BY <1>0, <1>2, RelayKeeps
    <2> QED
      BY <1>0, <1>2, <2>1, StepMeets
  <1> QED
    BY <1>1, <1>2 DEF SendIceCandidate

LEMMA NextMeets == MeetInv /\ [Next]_vars => MeetInv'
  <1> SUFFICES ASSUME MeetInv, [Next]_vars PROVE MeetInv'
    OBVIOUS
  <1>0. CallInv' /\ Meets
    BY NextCalls DEF MeetInv
  <1>1. CASE UNCHANGED vars
    BY <1>0, <1>1 DEF vars, client, service, MeetInv, Meets, Meet
  <1>2. ASSUME NEW c \in Clients, Drop(c) \/ Stop(c) \/ MainLoop(c) PROVE Meets'
    BY <1>2, DropMeets, StopMeets, MainLoopMeets
  <1>3. ASSUME NEW c \in Clients, NEW p \in Clients \ {c}, Callback(c, p) PROVE Meets'
    BY <1>3, StateSetMeets, CreatedMeets, SendIceMeets DEF Callback
  <1> QED
    BY <1>0, <1>1, <1>2, <1>3 DEF Next, Callbacks, MeetInv

THEOREM MeetInvariance == Spec => []MeetInv
  <1>1. Init => MeetInv
    <2>1. Init => CallInv /\ Meets
      BY InitInv, InitCalls DEF CallInv, Init, Meets, Meet
    <2> QED
      BY <2>1 DEF MeetInv
  <1> QED
    BY <1>1, NextMeets, PTL DEF Spec

\* Two members never wait for each other: whatever their state, one of them has
\* a message to read, an offer to handle or a callback to make, unless each has
\* the other connected (do_join_room, l.541; handle_sdp_offer, l.606).
THEOREM NobodyWaitsHolds == Spec => []NobodyWaits
  <1>1. MeetInv => NobodyWaits
    <2> SUFFICES ASSUME MeetInv, NEW c \in room, NEW p \in room, c # p, bin[c][p] # "connected",
                        ~ToDo(c, p), ~ToDo(p, c)
                 PROVE  FALSE
      BY DEF NobodyWaits
    <2>0. /\ Inv /\ Calls /\ Meets /\ c \in Clients /\ p \in Clients
          /\ bin \in [Clients -> [Clients -> Stages]]
      BY Typed DEF MeetInv, CallInv
    <2>1. /\ Meet(c, p) /\ Meet(p, c) /\ Agree(c, p) /\ Agree(p, c)
          /\ bin[c][p] \in Stages /\ bin[p][c] \in Stages
      BY <2>0 DEF Meets, Calls
    <2>2. /\ inbox[c] = <<>> /\ inbox[p] = <<>> /\ busy[c] # p /\ busy[p] # c
          /\ bin[c][p] \notin {"new", "creating", "answering", "answered"}
          /\ bin[p][c] \notin {"new", "creating", "answering", "answered"}
      BY DEF ToDo
    <2>3. \A e : ~Invited(<<>>, e) /\ \A kind : ~Has(<<>>, kind, e)
      BY DEF Invited, Has
    <2>4. /\ bin[c][p] \in {"none", "offered", "called"}
          /\ bin[p][c] \in {"none", "offered", "called", "connected"}
      BY <2>1, <2>2 DEF Stages
    <2>5. bin[c][p] # "called" /\ bin[p][c] # "called"
      BY <2>1, <2>2 DEF Meet
    <2>6. bin[c][p] # "offered"
      BY <2>1, <2>2, <2>3, <2>4, <2>5 DEF Meet, Agree
    <2> QED
      BY <2>1, <2>2, <2>3, <2>4, <2>5, <2>6 DEF Meet, Agree
  <1> QED
    BY <1>1, MeetInvariance, PTL

=============================================================================
