-------------------------- MODULE CallClientProofs --------------------------
(***************************************************************************)
(* The assertions of src/sendrecv/gst/webrtc-sendrecv.c, for any number of *)
(* candidates and of dropped connections.                                  *)
(***************************************************************************)
EXTENDS CallClient, TLAPS

-----------------------------------------------------------------------------
(* The inductive invariant.  It looks at an inbox as the set of the kinds  *)
(* of its messages, and the kind of the first.                             *)

Elements(q) == {q[i] : i \in 1..Len(q)}
First(q) == IF q = <<>> THEN "nothing" ELSE Head(q)

kinds == [s \in Sides |-> Elements(inbox[s])]
first == [s \in Sides |-> First(inbox[s])]

\* Only candidates, and then the end of the connection, follow on something.
InOrder(q) ==
  \A i \in 1..Len(q) :
    /\ q[i] = "closed" => i = Len(q)
    /\ q[i] \notin {"ice", "closed"} => i = 1

Ordered == \A s \in Sides : InOrder(inbox[s])

Connected ==
  /\ session => online = Sides
  /\ \A s \in Sides : "closed" \in kinds[s] => s \notin online

\* app_state follows bin, which only webrtcbin's thread and the answers advance.
Phase ==
  life = "running" =>
    /\ bin = "none" => app \in {SERVER_CONNECTING, SERVER_CONNECTED, SERVER_REGISTERING,
                                PEER_CONNECTING}
    /\ bin = "new" => app = PEER_CONNECTED
    /\ bin \in {"creating", "offered", "requested", "answering"} => app = PEER_CALL_NEGOTIATING
    /\ bin = "connected" => app \in {PEER_CALL_NEGOTIATING, PEER_CALL_STARTED}
    /\ app = SERVER_CONNECTING => kinds["program"] = {} /\ "program" \notin online
    /\ first["program"] = "hello" => app = SERVER_REGISTERING
    /\ first["program"] = "session_ok" => app = PEER_CONNECTING

\* What each stage of the negotiation leaves for the two to receive.
Only(s, some) == kinds[s] \subseteq some \cup {"closed"}

Before ==
  /\ Only("page", {}) /\ page = "none"
  /\ bin # "none" => Only("program", {})
  /\ Only("program", {"hello", "session_ok", "error"})

Requested ==
  /\ page \in {"none", "requested", "offered"}
  /\ Only("page", {"request"}) /\ Only("program", {"offer", "ice"})
  /\ first["page"] = "request" => page = "none"
  /\ first["page"] = "request" \/ page = "requested" => Only("program", {})

Offered ==
  /\ page \in {"none", "called", "connected"}
  /\ Only("page", {"offer", "ice"}) /\ Only("program", {"answer", "ice"})
  /\ first["page"] = "offer" => page = "none"
  /\ first["page"] = "offer" \/ page = "called" => Only("program", {})

Negotiated ==
  /\ page \in {"none", "offered", "connected"}
  /\ Only("page", IF bin = "answering" THEN {} ELSE {"answer", "ice"})
  /\ Only("program", {"ice"})

Stage ==
  IF Alive
  THEN /\ bin \in {"none", "new", "creating"} => Before
       /\ bin = "requested" => Requested
       /\ bin = "offered" => Offered
       /\ bin \in {"answering", "connected"} => Negotiated
  ELSE Only("program", {}) /\ ~session

\* Candidates follow the description, if it was sent at all.
Waits == {"requested", "offered"}
IceLast ==
  /\ page = "none" => first["page"] \in {"nothing", "request", "offer", "closed"}
  /\ Alive /\ bin \in Waits => first["program"] \in {"nothing", "offer", "answer", "closed"}
  /\ Alive /\ bin \in Waits \cup {"answering", "connected"} /\ session /\ ws = "open" =>
       page # "none" \/ first["page"] \in {"request", "offer"}
  /\ Alive /\ bin \in Waits /\ session /\ page \in {"offered", "connected"} =>
       first["program"] \in {"offer", "answer"}

SafeInv == Connected /\ Phase /\ Stage /\ IceLast
Inv == TypeOK /\ Ordered /\ SafeInv

-----------------------------------------------------------------------------
(* Sequences of messages.                                                  *)

LEMMA Firsts ==
  ASSUME NEW q \in Seq(Kinds)
  PROVE  /\ Elements(q) \subseteq Kinds
         /\ First(q) = "nothing" <=> Elements(q) = {}
         /\ First(q) # "nothing" => First(q) \in Elements(q)
         /\ First(q) = "nothing" <=> q = <<>>
  <1>1. CASE q = <<>>
    BY <1>1 DEF Elements, First
  <1>2. CASE q # <<>>
    <2>1. Len(q) \in Nat /\ Len(q) > 0 /\ Head(q) = q[1] /\ q[1] \in Kinds
      BY <1>2
    <2>2. First(q) = q[1] /\ q[1] # "nothing"
      BY <1>2, <2>1 DEF First, Kinds
    <2>3. q[1] \in Elements(q)
      BY <2>1 DEF Elements
    <2>4. Elements(q) \subseteq Kinds
      BY DEF Elements
    <2> QED
      BY <1>2, <2>2, <2>3, <2>4
  <1> QED
    BY <1>1, <1>2

LEMMA Appended ==
  ASSUME NEW q \in Seq(Kinds), NEW k \in Kinds
  PROVE  /\ Append(q, k) \in Seq(Kinds)
         /\ Elements(Append(q, k)) = Elements(q) \cup {k}
         /\ First(Append(q, k)) = IF First(q) = "nothing" THEN k ELSE First(q)
         /\ InOrder(q) /\ "closed" \notin Elements(q) /\ (k \in {"ice", "closed"} \/ q = <<>>) =>
              InOrder(Append(q, k))
  <1> DEFINE r == Append(q, k)
  <1>1. /\ r \in Seq(Kinds) /\ Len(q) \in Nat /\ Len(r) = Len(q) + 1
        /\ \A i \in 1..Len(q) : r[i] = q[i]
        /\ r[Len(q) + 1] = k /\ r # <<>>
    OBVIOUS
  <1>2. Elements(r) = Elements(q) \cup {k}
    BY <1>1 DEF Elements
  <1>3. First(r) = IF First(q) = "nothing" THEN k ELSE First(q)
    <2>1. CASE q = <<>>
      BY <1>1, <2>1 DEF First
    <2>2. CASE q # <<>>
      <3>1. Len(q) > 0 /\ Head(r) = q[1] /\ Head(q) = q[1]
        BY <1>1, <2>2
      <3> QED
        BY <1>1, <2>2, <3>1, Firsts DEF First
    <2> QED
      BY <2>1, <2>2
  <1>4. ASSUME InOrder(q), "closed" \notin Elements(q), k \in {"ice", "closed"} \/ q = <<>>
        PROVE  InOrder(r)
    <2>1. \A i \in 1..Len(q) : q[i] # "closed" /\ (q[i] # "ice" => i = 1)
      BY <1>4 DEF InOrder, Elements
    <2> QED
      BY <1>1, <1>4, <2>1 DEF InOrder
  <1> QED
    BY <1>1, <1>2, <1>3, <1>4

LEMMA Taken ==
  ASSUME NEW q \in Seq(Kinds), q # <<>>, InOrder(q)
  PROVE  /\ Tail(q) \in Seq(Kinds) /\ InOrder(Tail(q))
         /\ Elements(Tail(q)) \subseteq Elements(q) \cap {"ice", "closed"}
         /\ Head(q) = "closed" => Tail(q) = <<>>
  <1> DEFINE r == Tail(q)
  <1>1. /\ r \in Seq(Kinds) /\ Len(q) \in Nat /\ Len(q) > 0 /\ Len(r) = Len(q) - 1
        /\ \A i \in 1..Len(r) : i + 1 \in 1..Len(q) /\ r[i] = q[i + 1]
        /\ Head(q) = q[1]
    OBVIOUS
  <1> HIDE DEF r
  <1>2. ASSUME NEW i \in 1..Len(r)
        PROVE  r[i] \in {"ice", "closed"} /\ (r[i] = "closed" => i = Len(r)) /\ r[i] \in Elements(q)
    <2> DEFINE j == i + 1
    <2>1. j \in 1..Len(q) /\ r[i] = q[j] /\ j # 1 /\ (j = Len(q) => i = Len(r))
      <3>1. i \in Nat /\ i >= 1 /\ Len(r) \in Nat
        BY <1>1
      <3> QED
        BY <1>1, <3>1
    <2> HIDE DEF j
    <2>2. q[j] \in {"ice", "closed"} /\ (q[j] = "closed" => j = Len(q))
      BY <2>1 DEF InOrder
    <2>3. q[j] \in Elements(q)
      BY <2>1 DEF Elements
    <2> QED
      BY <2>1, <2>2, <2>3
  <1>3. InOrder(r)
    BY <1>2 DEF InOrder
  <1>4. Elements(r) \subseteq Elements(q) \cap {"ice", "closed"}
    <2>1. \A x \in Elements(r) : \E i \in 1..Len(r) : x = r[i]
      BY DEF Elements
    <2> QED
      BY <1>2, <2>1
  <1>5. Head(q) = "closed" => r = <<>>
    <2>1. Len(r) = 0 => r = <<>>
      BY <1>1
    <2>2. Head(q) = "closed" => 1 = Len(q)
      BY <1>1 DEF InOrder
    <2> QED
      BY <1>1, <2>1, <2>2
  <1> QED
    BY <1>1, <1>3, <1>4, <1>5 DEF r

-----------------------------------------------------------------------------
(* How a step changes the inboxes.                                         *)

LEMMA Boxes ==
  ASSUME TypeOK
  PROVE  /\ kinds \in [Sides -> SUBSET Kinds]
         /\ first \in [Sides -> Kinds \cup {"nothing"}]
         /\ \A s \in Sides : /\ inbox[s] \in Seq(Kinds)
                             /\ first[s] = "nothing" <=> kinds[s] = {}
                             /\ first[s] # "nothing" => first[s] \in kinds[s]
                             /\ first[s] = "nothing" <=> inbox[s] = <<>>
                             /\ first[s] = Head1(s)
  <1>1. \A s \in Sides : inbox[s] \in Seq(Kinds)
    BY DEF TypeOK
  <1>2. \A s \in Sides : kinds[s] = Elements(inbox[s]) /\ first[s] = First(inbox[s])
    BY DEF kinds, first
  <1>3. \A s \in Sides :
          /\ kinds[s] \subseteq Kinds
          /\ first[s] = "nothing" <=> kinds[s] = {}
          /\ first[s] # "nothing" => first[s] \in kinds[s]
          /\ first[s] = "nothing" <=> inbox[s] = <<>>
    BY <1>1, <1>2, Firsts
  <1>4. \A s \in Sides : first[s] = Head1(s)
    BY <1>2 DEF First, Head1
  <1>5. kinds \in [Sides -> SUBSET Kinds] /\ first \in [Sides -> Kinds \cup {"nothing"}]
    BY <1>3 DEF kinds, first
  <1> QED
    BY <1>1, <1>3, <1>4, <1>5

\* What is neither a candidate nor the end comes first.
LEMMA Leading ==
  ASSUME TypeOK, Ordered, NEW s \in Sides, NEW k \in kinds[s], k \notin {"ice", "closed"}
  PROVE  first[s] = k
  <1>1. inbox[s] \in Seq(Kinds) /\ InOrder(inbox[s])
    BY DEF TypeOK, Ordered
  <1>2. PICK i \in 1..Len(inbox[s]) : k = inbox[s][i]
    BY DEF kinds, Elements
  <1>3. i = 1 /\ inbox[s] # <<>>
    BY <1>1, <1>2 DEF InOrder
  <1>4. Head(inbox[s]) = inbox[s][1]
    BY <1>1, <1>3
  <1> QED
    BY <1>2, <1>3, <1>4 DEF first, First

Same == UNCHANGED <<kinds, first>> /\ Ordered'

LEMMA SameStep == ASSUME Ordered, UNCHANGED inbox PROVE Same
  BY DEF Same, kinds, first, Ordered

\* After a message of kind k for s.
Puts(s, k) ==
  /\ kinds' = [kinds EXCEPT ![s] = @ \cup {k}]
  /\ first' = [first EXCEPT ![s] = IF @ = "nothing" THEN k ELSE @]
  /\ Ordered'

LEMMA PutStep ==
  ASSUME TypeOK, Ordered, NEW s \in Sides, NEW k \in Kinds, inbox' = Put(inbox, s, k),
         "closed" \notin kinds[s], k \in {"ice", "closed"} \/ first[s] = "nothing"
  PROVE  Puts(s, k)
  <1>1. /\ inbox \in [Sides -> Seq(Kinds)]
        /\ inbox' = [inbox EXCEPT ![s] = Append(inbox[s], k)]
        /\ kinds[s] = Elements(inbox[s]) /\ first[s] = First(inbox[s]) /\ InOrder(inbox[s])
        /\ first[s] = "nothing" => inbox[s] = <<>>
    BY Boxes DEF Put, TypeOK, Ordered, kinds, first
  <1>2. /\ Elements(inbox'[s]) = kinds[s] \cup {k}
        /\ First(inbox'[s]) = IF first[s] = "nothing" THEN k ELSE first[s]
        /\ InOrder(inbox'[s])
    BY <1>1, Appended
  <1>3. \A t \in Sides \ {s} : inbox'[t] = inbox[t]
    BY <1>1
  <1>4. Ordered'
    BY <1>2, <1>3 DEF Ordered
  <1>5. kinds' = [kinds EXCEPT ![s] = @ \cup {k}]
    BY <1>2, <1>3 DEF kinds
  <1>6. first' = [first EXCEPT ![s] = IF @ = "nothing" THEN k ELSE @]
    BY <1>2, <1>3 DEF first
  <1> QED
    BY <1>4, <1>5, <1>6 DEF Puts

\* After s has taken its first message.
Takes(s) ==
  /\ kinds' \in [Sides -> SUBSET Kinds] /\ first' \in [Sides -> Kinds \cup {"nothing"}]
  /\ \A t \in Sides \ {s} : kinds'[t] = kinds[t] /\ first'[t] = first[t]
  /\ kinds'[s] \subseteq kinds[s] \cap {"ice", "closed"}
  /\ first[s] = "closed" => kinds'[s] = {}
  /\ first'[s] = "nothing" <=> kinds'[s] = {}
  /\ first'[s] # "nothing" => first'[s] \in kinds'[s]
  /\ Ordered'

LEMMA TakeStep ==
  ASSUME TypeOK, Ordered, NEW s \in Sides, first[s] # "nothing", inbox' = Rest(s)
  PROVE  Takes(s)
  <1>1. /\ inbox \in [Sides -> Seq(Kinds)]
        /\ inbox' = [inbox EXCEPT ![s] = Tail(inbox[s])]
        /\ inbox[s] # <<>> /\ InOrder(inbox[s])
        /\ kinds[s] = Elements(inbox[s]) /\ first[s] = Head(inbox[s])
    BY Boxes DEF Rest, TypeOK, Ordered, kinds, first, First
  <1>2. /\ inbox'[s] \in Seq(Kinds) /\ InOrder(inbox'[s])
        /\ Elements(inbox'[s]) \subseteq kinds[s] \cap {"ice", "closed"}
        /\ first[s] = "closed" => inbox'[s] = <<>>
    BY <1>1, Taken
  <1>3. /\ First(inbox'[s]) = "nothing" <=> Elements(inbox'[s]) = {}
        /\ First(inbox'[s]) # "nothing" => First(inbox'[s]) \in Elements(inbox'[s])
        /\ First(inbox'[s]) = "nothing" <=> inbox'[s] = <<>>
    BY <1>2, Firsts
  <1>4. \A t \in Sides \ {s} : inbox'[t] = inbox[t]
    BY <1>1
  <1>5. Ordered'
    BY <1>2, <1>4 DEF Ordered
  <1>6. \A t \in Sides : kinds'[t] = Elements(inbox'[t]) /\ first'[t] = First(inbox'[t])
    BY DEF kinds, first
  <1>7. \A t \in Sides : kinds[t] = Elements(inbox[t]) /\ first[t] = First(inbox[t])
    BY DEF kinds, first
  <1>8. \A t \in Sides \ {s} : kinds'[t] = kinds[t] /\ first'[t] = first[t]
    BY <1>4, <1>6, <1>7
  <1>9. kinds' \in [Sides -> SUBSET Kinds] /\ first' \in [Sides -> Kinds \cup {"nothing"}]
    <2>1. \A t \in Sides : kinds'[t] \subseteq Kinds /\ first'[t] \in Kinds \cup {"nothing"}
      BY <1>2, <1>3, <1>6, <1>8, Boxes
    <2> QED
      BY <2>1 DEF kinds, first
  <1> QED
    BY <1>2, <1>3, <1>5, <1>6, <1>8, <1>9 DEF Takes

LEMMA Other ==
  /\ (CHOOSE t \in Sides : t # "program") = "page"
  /\ (CHOOSE t \in Sides : t # "page") = "program"
  BY DEF Sides

LEMMA AnswerStep ==
  ASSUME TypeOK, Ordered, first["program"] # "nothing",
         kinds["program"] \cap {"ice", "closed"} = {},
         NEW k \in Kinds, inbox' = Put(Rest("program"), "program", k)
  PROVE  /\ kinds' = [kinds EXCEPT !["program"] = {k}]
         /\ first' = [first EXCEPT !["program"] = k]
         /\ Ordered'
  <1> DEFINE q == inbox["program"]
  <1>1. /\ inbox \in [Sides -> Seq(Kinds)] /\ "program" \in Sides
        /\ q \in Seq(Kinds) /\ q # <<>> /\ InOrder(q) /\ kinds["program"] = Elements(q)
    BY Boxes DEF TypeOK, Ordered, kinds, Sides
  <1> DEFINE r == Tail(q)
  <1>2. r \in Seq(Kinds) /\ InOrder(r) /\ Elements(r) = {}
    BY <1>1, Taken
  <1>3. inbox' = [inbox EXCEPT !["program"] = Append(r, k)]
    BY <1>1 DEF Put, Rest
  <1> HIDE DEF r
  <1>4. First(r) = "nothing" /\ r = <<>>
    BY <1>2, Firsts
  <1>5. inbox'["program"] = Append(r, k)
    BY <1>1, <1>3
  <1>6. /\ Elements(inbox'["program"]) = {k} /\ First(inbox'["program"]) = k
        /\ InOrder(inbox'["program"])
    <2>1. /\ Elements(Append(r, k)) = Elements(r) \cup {k}
          /\ First(Append(r, k)) = IF First(r) = "nothing" THEN k ELSE First(r)
          /\ InOrder(Append(r, k))
      <3>1. InOrder(r) /\ "closed" \notin Elements(r) /\ (k \in {"ice", "closed"} \/ r = <<>>)
        BY <1>2, <1>4
      <3> QED
        BY <1>2, <3>1, Appended
    <2> QED
      BY <1>2, <1>4, <1>5, <2>1
  <1>7. \A t \in Sides \ {"program"} : inbox'[t] = inbox[t]
    BY <1>1, <1>3
  <1>8. Ordered'
    BY <1>6, <1>7 DEF Ordered
  <1>9. kinds' = [kinds EXCEPT !["program"] = {k}]
    BY <1>6, <1>7 DEF kinds
  <1>10. first' = [first EXCEPT !["program"] = k]
    BY <1>6, <1>7 DEF first
  <1> QED
    BY <1>8, <1>9, <1>10

LEMMA HangUpStep ==
  ASSUME TypeOK, Connected, NEW s \in Sides, NEW box \in [Sides -> Seq(Kinds)],
         \A t \in Sides : InOrder(box[t]) /\ ("closed" \in Elements(box[t]) => t \notin online),
         HangUp(box, s)
  PROVE  /\ ~session' /\ online' \subseteq online /\ s \notin online'
         /\ inbox' \in [Sides -> Seq(Kinds)] /\ Ordered'
         /\ \A t \in Sides :
              /\ kinds'[t] \subseteq Elements(box[t]) \cup {"closed"}
              /\ "closed" \in kinds'[t] => t \notin online'
              /\ first'[t] \in {First(box[t]), "closed"}
              /\ First(box[t]) # "nothing" => first'[t] = First(box[t])
              /\ t \notin online => kinds'[t] = Elements(box[t]) /\ first'[t] = First(box[t])
  <1>1. /\ ~session' /\ online' = online \ Ended(s) /\ s \in Ended(s)
        /\ \A t \in Sides : inbox'[t] = IF t \in online \cap Ended(s) THEN Append(box[t], "closed")
                                        ELSE box[t]
        /\ inbox' \in [Sides -> Seq(Kinds)]
    BY DEF HangUp, Ended, Kinds
  <1>2. ASSUME NEW t \in Sides
        PROVE  /\ InOrder(inbox'[t])
               /\ kinds'[t] \subseteq Elements(box[t]) \cup {"closed"}
               /\ "closed" \in kinds'[t] => t \notin online'
               /\ first'[t] \in {First(box[t]), "closed"}
               /\ First(box[t]) # "nothing" => first'[t] = First(box[t])
               /\ t \notin online => kinds'[t] = Elements(box[t]) /\ first'[t] = First(box[t])
    <2>1. box[t] \in Seq(Kinds) /\ "closed" \in Kinds
      BY DEF Kinds
    <2>2. kinds'[t] = Elements(inbox'[t]) /\ first'[t] = First(inbox'[t])
      BY DEF kinds, first
    <2>3. CASE t \in online \cap Ended(s)
      <3>1. inbox'[t] = Append(box[t], "closed") /\ t \notin online' /\ t \in online
        BY <1>1, <2>3
      <3> QED
        BY <2>1, <2>2, <3>1, Appended
    <2>4. CASE t \notin online \cap Ended(s)
      <3>1. inbox'[t] = box[t]
        BY <1>1, <2>4
      <3> QED
        BY <1>1, <2>2, <3>1
    <2> QED
      BY <2>3, <2>4
  <1> QED
    BY <1>1, <1>2 DEF Ordered

-----------------------------------------------------------------------------
(* The ways to end.                                                        *)

LEMMA DropSafe == ASSUME Inv, NEW s \in Sides, Drop(s) PROVE (Ordered /\ SafeInv)'
  <1>1. \A t \in Sides : InOrder(inbox[t]) /\ ("closed" \in Elements(inbox[t]) => t \notin online)
                         /\ kinds[t] = Elements(inbox[t]) /\ first[t] = First(inbox[t])
    BY DEF Inv, SafeInv, Ordered, Connected, kinds, first
  <1>2. /\ ~session' /\ online' \subseteq online /\ Ordered'
        /\ \A t \in Sides :
              /\ kinds'[t] \subseteq kinds[t] \cup {"closed"}
              /\ "closed" \in kinds'[t] => t \notin online'
              /\ first'[t] \in {first[t], "closed"}
              /\ t \notin online => kinds'[t] = kinds[t]
    BY <1>1, HangUpStep DEF Inv, SafeInv, Drop, TypeOK
  <1> USE <1>2 DEF Inv, SafeInv, Drop, program, Alive, Sides
  <1>3. Connected'
    BY DEF Connected
  <1>4. Phase'
    BY DEF Phase
  <1>5. Stage'
    BY DEF Stage, Before, Requested, Offered, Negotiated, Only
  <1>6. IceLast'
    BY DEF IceLast, Waits
  <1> QED
    BY <1>3, <1>4, <1>5, <1>6

LEMMA ExitSafe ==
  ASSUME Inv, NEW how \in {"ended", "aborted"}, Exit(how), UNCHANGED page
  PROVE  (Ordered /\ SafeInv)'
  <1> DEFINE box == [inbox EXCEPT !["program"] = <<>>]
  <1>1. /\ box \in [Sides -> Seq(Kinds)] /\ box["program"] = <<>> /\ box["page"] = inbox["page"]
        /\ Sides = {"program", "page"}
    BY DEF Inv, TypeOK, Sides
  <1>2. /\ InOrder(<<>>) /\ Elements(<<>>) = {}
        /\ kinds["page"] = Elements(inbox["page"]) /\ first["page"] = First(inbox["page"])
    BY DEF InOrder, Elements, kinds, first, Sides
  <1>3. \A t \in Sides : InOrder(box[t]) /\ ("closed" \in Elements(box[t]) => t \notin online)
    BY <1>1, <1>2 DEF Inv, SafeInv, Ordered, Connected
  <1>4. HangUp(box, "program")
    BY DEF Exit
  <1>5. /\ ~session' /\ Ordered'
        /\ \A t \in Sides : "closed" \in kinds'[t] => t \notin online'
        /\ kinds'["program"] \subseteq {"closed"}
        /\ first'["page"] \in {first["page"], "closed"}
    BY <1>1, <1>2, <1>3, <1>4, HangUpStep DEF Inv, SafeInv
  <1> HIDE DEF box
  <1> USE <1>5 DEF Inv, SafeInv, Exit
  <1>6. Connected'
    BY DEF Connected
  <1>7. Phase'
    BY DEF Phase
  <1>8. Stage'
    BY DEF Stage, Alive, Only
  <1>9. IceLast'
    BY DEF IceLast, Alive
  <1> QED
    BY <1>6, <1>7, <1>8, <1>9

LEMMA QuitSafe ==
  ASSUME Inv, NEW state, Alive, QuitLoop(state), UNCHANGED page
  PROVE  (Ordered /\ SafeInv)'
  <1>1. CASE ws = "freed"
    BY <1>1, ExitSafe DEF QuitLoop
  <1>2. CASE ws # "freed"
    <2>1. Same
      BY <1>2, SameStep DEF QuitLoop, service, Inv
    <2> USE <1>2, <2>1 DEF QuitLoop, service, Inv, SafeInv, Same, Alive
    <2>2. Connected'
      BY DEF Connected
    <2>3. Phase'
      BY DEF Phase
    <2>4. Stage'
      BY DEF Stage, Before, Requested, Offered, Negotiated, Only
    <2>5. IceLast'
      <3>1. ws' # "open"
        BY DEF ClosedAlready
      <3> QED
        BY <3>1 DEF IceLast
    <2> QED
      BY <2>2, <2>3, <2>4, <2>5
  <1> QED
    BY <1>1, <1>2

-----------------------------------------------------------------------------
(* The steps of the main loop and of the page that take a message.         *)

LEMMA Distinct ==
  /\ SERVER_CONNECTING \notin {SERVER_CONNECTED, SERVER_REGISTERING, PEER_CONNECTING,
        PEER_CONNECTED, PEER_CALL_NEGOTIATING, PEER_CALL_STARTED}
  /\ SERVER_REGISTERING \notin {SERVER_CONNECTED, PEER_CONNECTING,
        PEER_CONNECTED, PEER_CALL_NEGOTIATING, PEER_CALL_STARTED}
  /\ PEER_CONNECTING \notin {SERVER_CONNECTED, PEER_CONNECTED, PEER_CALL_NEGOTIATING,
        PEER_CALL_STARTED}
  BY DEF SERVER_CONNECTING, SERVER_CONNECTED, SERVER_REGISTERING, PEER_CONNECTING,
         PEER_CONNECTED, PEER_CALL_NEGOTIATING, PEER_CALL_STARTED

LEMMA PageRequestedSafe ==
  ASSUME Inv, PageRequested PROVE (Ordered /\ SafeInv)'
  <1>1. Takes("page")
    BY TakeStep, Boxes DEF Inv, Sides, Kinds, Receives, PageReceives, PageRequested, program
  <1> USE Boxes, <1>1 DEF Takes, Inv, SafeInv, Alive,
            Waits, Sides, Receives, PageReceives, PageRequested, program
  <1>2. Connected'
    BY DEF Connected
  <1>3. Phase'
    BY Distinct DEF Phase, Stage, Before, Requested, Offered, Negotiated, Only
  <1>4. Stage'
    BY DEF Stage, Before, Requested, Offered, Negotiated, Only, Phase, IceLast, Connected
  <1>5. IceLast'
    BY DEF IceLast, Stage, Before, Requested, Offered, Negotiated, Only, Phase, Connected
  <1> QED
    BY <1>1, <1>2, <1>3, <1>4, <1>5

LEMMA PageSdpSafe ==
  ASSUME Inv, PageSdp PROVE (Ordered /\ SafeInv)'
  <1>1. Takes("page")
    BY TakeStep, Boxes DEF Inv, Sides, Kinds, Receives, PageReceives, PageSdp, program
  <1> USE Boxes, <1>1 DEF Takes, Inv, SafeInv, Alive,
            Waits, Sides, Receives, PageReceives, PageSdp, program
  <1>2. Connected'
    BY DEF Connected
  <1>3. Phase'
    BY Distinct DEF Phase, Stage, Before, Requested, Offered, Negotiated, Only
  <1>4. Stage'
    BY DEF Stage, Before, Requested, Offered, Negotiated, Only, Phase, IceLast, Connected
  <1>5. IceLast'
    BY DEF IceLast, Stage, Before, Requested, Offered, Negotiated, Only, Phase, Connected
  <1> QED
    BY <1>1, <1>2, <1>3, <1>4, <1>5

LEMMA PageIceSafe ==
  ASSUME Inv, PageIce PROVE (Ordered /\ SafeInv)'
  <1>1. Takes("page")
    BY TakeStep, Boxes DEF Inv, Sides, Kinds, Receives, PageReceives, PageIce, program
  <1> USE Boxes, <1>1 DEF Takes, Inv, SafeInv, Alive,
            Waits, Sides, Receives, PageReceives, PageIce, program
  <1>2. Connected'
    BY DEF Connected
  <1>3. Phase'
    BY Distinct DEF Phase, Stage, Before, Requested, Offered, Negotiated, Only
  <1>4. Stage'
    BY DEF Stage, Before, Requested, Offered, Negotiated, Only, Phase, IceLast, Connected
  <1>5. IceLast'
    BY DEF IceLast, Stage, Before, Requested, Offered, Negotiated, Only, Phase, Connected
  <1> QED
    BY <1>1, <1>2, <1>3, <1>4, <1>5

\* Nobody hears of it, and no message is lost.
LEMMA PageStallsSafe ==
  ASSUME Inv, PageStalls PROVE (Ordered /\ SafeInv)'
  <1>1. Same /\ UNCHANGED <<program, online, session, page>>
    BY SameStep DEF Inv, PageStalls, service
  <1> QED
    BY <1>1 DEF Inv, SafeInv, Same, Connected, Phase, Stage, IceLast, Before, Requested,
                Offered, Negotiated, Only, Alive, program

LEMMA PageClosedSafe ==
  ASSUME Inv, PageClosed PROVE (Ordered /\ SafeInv)'
  <1>1. Takes("page")
    BY TakeStep, Boxes DEF Inv, Sides, Kinds, Receives, PageReceives, PageClosed, program
  <1> USE Boxes, <1>1 DEF Takes, Inv, SafeInv, Alive,
            Waits, Sides, Receives, PageReceives, PageClosed, program
  <1>2. Connected'
    BY DEF Connected
  <1>3. Phase'
    BY Distinct DEF Phase, Stage, Before, Requested, Offered, Negotiated, Only
  <1>4. Stage'
    BY DEF Stage, Before, Requested, Offered, Negotiated, Only, Phase, IceLast, Connected
  <1>5. IceLast'
    BY DEF IceLast, Stage, Before, Requested, Offered, Negotiated, Only, Phase, Connected
  <1> QED
    BY <1>1, <1>2, <1>3, <1>4, <1>5

LEMMA AddIceSafe ==
  ASSUME Inv, AddIceCandidate, bin # "none" PROVE (Ordered /\ SafeInv)'
  <1>1. Takes("program")
    BY TakeStep, Boxes DEF Inv, Sides, Kinds, Receives, PageReceives, AddIceCandidate, program
  <1> USE Boxes, <1>1 DEF Takes, Inv, SafeInv, Alive,
            Waits, Sides, Receives, PageReceives, AddIceCandidate, program
  <1>2. Connected'
    BY DEF Connected
  <1>3. Phase'
    BY Distinct DEF Phase, Stage, Before, Requested, Offered, Negotiated, Only
  <1>4. Stage'
    BY DEF Stage, Before, Requested, Offered, Negotiated, Only, Phase, IceLast, Connected
  <1>5. IceLast'
    BY DEF IceLast, Stage, Before, Requested, Offered, Negotiated, Only, Phase, Connected
  <1> QED
    BY <1>1, <1>2, <1>3, <1>4, <1>5

LEMMA SdpOfferSafe ==
  ASSUME Inv, SdpOffer, app = PEER_CALL_NEGOTIATING PROVE (Ordered /\ SafeInv)'
  <1>1. Takes("program")
    BY TakeStep, Boxes DEF Inv, Sides, Kinds, Receives, PageReceives, SdpOffer, program
  <1>0. /\ Alive /\ bin = "requested" /\ first["program"] = "offer" /\ "offer" \in kinds["program"]
        /\ first["page"] \notin {"request", "offer"} /\ page \notin {"requested", "called"}
    <2>1. Alive /\ first["program"] = "offer" /\ "offer" \in kinds["program"]
      BY Boxes DEF Inv, Receives, Alive, Sides, SdpOffer
    <2>2. bin = "requested"
      BY <2>1 DEF Inv, TypeOK, SafeInv, Stage, Before, Requested, Offered, Negotiated, Only
    <2>3. Requested /\ ~Only("program", {})
      BY <2>1, <2>2 DEF Inv, SafeInv, Stage, Only
    <2>4. first["page"] # "nothing" => first["page"] \in kinds["page"]
      BY Boxes DEF Inv, Sides
    <2> QED
      BY <2>1, <2>2, <2>3, <2>4 DEF Requested, Only
  <1>6. "request" \notin kinds["page"] /\ "offer" \notin kinds["page"]
    BY <1>0, Leading DEF Inv, Sides
  <1> USE Boxes, <1>0, <1>1, <1>6 DEF Takes, Inv, SafeInv, Alive,
            Waits, Sides, Receives, PageReceives, SdpOffer, program
  <1>2. Connected'
    BY DEF Connected
  <1>3. Phase'
    BY Distinct DEF Phase, Stage, Before, Requested, Offered, Negotiated, Only
  <1>4. Stage'
    BY DEF Stage, Before, Requested, Offered, Negotiated, Only, Phase, IceLast, Connected
  <1>5. IceLast'
    BY DEF IceLast, Stage, Before, Requested, Offered, Negotiated, Only, Phase, Connected
  <1> QED
    BY <1>1, <1>2, <1>3, <1>4, <1>5

LEMMA SdpAnswerSafe ==
  ASSUME Inv, SdpAnswer, app = PEER_CALL_NEGOTIATING PROVE (Ordered /\ SafeInv)'
  <1>1. Takes("program")
    BY TakeStep, Boxes DEF Inv, Sides, Kinds, Receives, PageReceives, SdpAnswer, program
  <1>0. /\ Alive /\ bin = "offered" /\ first["program"] = "answer" /\ "answer" \in kinds["program"]
        /\ first["page"] \notin {"request", "offer"} /\ page \notin {"requested", "called"}
    <2>1. Alive /\ first["program"] = "answer" /\ "answer" \in kinds["program"]
      BY Boxes DEF Inv, Receives, Alive, Sides, SdpAnswer
    <2>2. bin = "offered"
      BY <2>1 DEF Inv, TypeOK, SafeInv, Stage, Before, Requested, Offered, Negotiated, Only
    <2>3. Offered /\ ~Only("program", {})
      BY <2>1, <2>2 DEF Inv, SafeInv, Stage, Only
    <2>4. first["page"] # "nothing" => first["page"] \in kinds["page"]
      BY Boxes DEF Inv, Sides
    <2> QED
      BY <2>1, <2>2, <2>3, <2>4 DEF Offered, Only
  <1>6. "request" \notin kinds["page"] /\ "offer" \notin kinds["page"]
    BY <1>0, Leading DEF Inv, Sides
  <1> USE Boxes, <1>0, <1>1, <1>6 DEF Takes, Inv, SafeInv, Alive,
            Waits, Sides, Receives, PageReceives, SdpAnswer, program
  <1>2. Connected'
    BY DEF Connected
  <1>3. Phase'
    BY Distinct DEF Phase, Stage, Before, Requested, Offered, Negotiated, Only
  <1>4. Stage'
    BY DEF Stage, Before, Requested, Offered, Negotiated, Only, Phase, IceLast, Connected
  <1>5. IceLast'
    BY DEF IceLast, Stage, Before, Requested, Offered, Negotiated, Only, Phase, Connected
  <1> QED
    BY <1>1, <1>2, <1>3, <1>4, <1>5

LEMMA StartPipelineSafe ==
  ASSUME Inv, Receives("session_ok"), app = PEER_CONNECTING, app' = PEER_CONNECTED, bin' = "new",
         inbox' = Rest("program"), UNCHANGED <<life, ws, online, session, page>>
  PROVE  (Ordered /\ SafeInv)'
  <1>1. Takes("program")
    BY TakeStep, Boxes DEF Inv, Sides, Kinds, Receives, PageReceives
  <1>0. bin = "none"
    BY Distinct DEF Inv, TypeOK, SafeInv, Phase, Receives
  <1> USE Boxes, <1>0, <1>1 DEF Takes, Inv, SafeInv, Alive,
            Waits, Sides, Receives, PageReceives
  <1>2. Connected'
    BY DEF Connected
  <1>3. Phase'
    BY Distinct DEF Phase, Stage, Before, Requested, Offered, Negotiated, Only
  <1>4. Stage'
    BY DEF Stage, Before, Requested, Offered, Negotiated, Only, Phase, IceLast, Connected
  <1>5. IceLast'
    BY DEF IceLast, Stage, Before, Requested, Offered, Negotiated, Only, Phase, Connected
  <1> QED
    BY <1>1, <1>2, <1>3, <1>4, <1>5

-----------------------------------------------------------------------------
(* The steps that send one.                                                *)

LEMMA SendStep ==
  ASSUME Inv, NEW k \in Kinds, Send(k), k = "ice" \/ Only("page", {})
  PROVE  IF session /\ ws = "open" THEN Puts("page", k) ELSE Same
  <1>1. CASE session /\ ws = "open"
    <2>1. inbox' = Put(inbox, "page", k)
      BY <1>1, Other DEF Send, Relay
    <2>2. "closed" \notin kinds["page"]
      BY <1>1 DEF Inv, SafeInv, Connected, Sides
    <2>3. k = "ice" \/ first["page"] = "nothing"
      BY <2>2, Boxes DEF Only, Inv, Sides
    <2> QED
      BY <1>1, <2>1, <2>2, <2>3, PutStep DEF Inv, Sides
  <1>2. CASE ~(session /\ ws = "open")
    BY <1>2, SameStep DEF Send, Relay, Inv
  <1> QED
    BY <1>1, <1>2

LEMMA PageSendStep ==
  ASSUME Inv, NEW k \in Kinds, inbox' = PageSends(inbox, k), k = "ice" \/ Only("program", {})
  PROVE  IF session THEN Puts("program", k) ELSE Same
  <1>1. CASE session
    <2>1. inbox' = Put(inbox, "program", k)
      BY <1>1, Other DEF PageSends, Relay, Inv, SafeInv, Connected, Sides
    <2>2. "closed" \notin kinds["program"]
      BY <1>1 DEF Inv, SafeInv, Connected, Sides
    <2>3. k = "ice" \/ first["program"] = "nothing"
      BY <2>2, Boxes DEF Only, Inv, Sides
    <2> QED
      BY <1>1, <2>1, <2>2, <2>3, PutStep DEF Inv, Sides
  <1>2. CASE ~session
    BY <1>2, SameStep DEF PageSends, Relay, Inv
  <1> QED
    BY <1>1, <1>2

LEMMA ServerConnectedSafe == ASSUME Inv, ServerConnected PROVE (Ordered /\ SafeInv)'
  <1>0. /\ kinds["program"] = {} /\ first["program"] = "nothing" /\ "program" \notin online
        /\ bin = "none" /\ ~session
    BY Boxes, Distinct DEF Inv, TypeOK, SafeInv, Phase, Connected, ServerConnected, Sides
  <1>1. \/ /\ app' = SERVER_REGISTERING /\ online' = online \cup {"program"}
           /\ Puts("program", "hello")
        \/ app' = SERVER_CONNECTED /\ UNCHANGED online /\ Puts("program", "closed")
    BY <1>0, PutStep DEF ServerConnected, Inv, Kinds, Sides
  <1> USE Boxes, <1>0, <1>1 DEF Puts, Inv, SafeInv, Alive, Waits, Sides, ServerConnected
  <1>2. Connected'
    BY DEF Connected
  <1>3. Phase'
    BY Distinct DEF Phase, Connected, Stage, Before, Requested, Offered, Negotiated, Only
  <1>4. Stage'
    BY DEF Stage, Before, Requested, Offered, Negotiated, Only, Phase, IceLast, Connected
  <1>5. IceLast'
    BY DEF IceLast, Stage, Before, Requested, Offered, Negotiated, Only, Phase, Connected
  <1> QED
    BY <1>1, <1>2, <1>3, <1>4, <1>5

LEMMA SetupCallSafe ==
  ASSUME Inv, Receives("hello"), app = SERVER_REGISTERING, app' = PEER_CONNECTING,
         session' => online = Sides,
         inbox' = IF online = Sides THEN Put(Rest("program"), "program", "session_ok")
                    ELSE IF online = {"program"} THEN Put(Rest("program"), "program", "error")
                    ELSE Rest("program"),
         UNCHANGED <<life, ws, bin, online, page>>
  PROVE  (Ordered /\ SafeInv)'
  <1>0. /\ bin = "none" /\ Before /\ first["program"] = "hello" /\ Alive
    BY Boxes, Distinct DEF Inv, TypeOK, SafeInv, Phase, Receives, Stage, Alive, Sides
  <1>1. \/ /\ kinds' \in [Sides -> SUBSET Kinds]
           /\ kinds' = [kinds EXCEPT !["program"] = {"session_ok"}]
           /\ first' = [first EXCEPT !["program"] = "session_ok"]
           /\ Ordered' /\ "program" \in online
        \/ /\ kinds' = [kinds EXCEPT !["program"] = {"error"}]
           /\ first' = [first EXCEPT !["program"] = "error"]
           /\ Ordered' /\ "program" \in online
        \/ Takes("program")
    <2>1. CASE "program" \in online
      <3>1. kinds["program"] \cap {"ice", "closed"} = {}
        BY <1>0, <2>1 DEF Before, Only, Inv, SafeInv, Connected, Sides
      <3>2. {"session_ok", "error"} \subseteq Kinds
        BY DEF Kinds
      <3>3. online = Sides \/ online = {"program"}
        BY <2>1 DEF Inv, TypeOK, Sides
      <3>4. Sides # {"program"}
        BY DEF Sides
      <3>5. CASE online = Sides
        <4>1. inbox' = Put(Rest("program"), "program", "session_ok")
          BY <3>4, <3>5
        <4> QED
          BY <1>0, <2>1, <3>1, <3>2, <4>1, AnswerStep, Boxes DEF Inv, Kinds, Sides
      <3>6. CASE online = {"program"}
        <4>1. inbox' = Put(Rest("program"), "program", "error")
          BY <3>4, <3>6
        <4> QED
          BY <1>0, <2>1, <3>1, <3>2, <4>1, AnswerStep DEF Inv
      <3> QED
        BY <3>3, <3>5, <3>6
    <2>2. CASE "program" \notin online
      <3>1. inbox' = Rest("program")
        BY <2>2 DEF Sides
      <3> QED
        BY <1>0, <3>1, TakeStep DEF Inv, Sides
    <2> QED
      BY <2>1, <2>2
  <1> USE Boxes, <1>0, <1>1 DEF Takes, Inv, SafeInv, Alive,
            Waits, Sides, Receives
  <1>2. Connected'
    BY DEF Connected
  <1>3. Phase'
    BY Distinct DEF Phase, Connected, Stage, Before, Requested, Offered, Negotiated, Only
  <1>4. Stage'
    BY DEF Stage, Before, Requested, Offered, Negotiated, Only, Phase, IceLast, Connected
  <1>5. IceLast'
    BY DEF IceLast, Stage, Before, Requested, Offered, Negotiated, Only, Phase, Connected
  <1> QED
    BY <1>1, <1>2, <1>3, <1>4, <1>5

LEMMA NegotiationNeededSafe ==
  ASSUME Inv, NegotiationNeeded
  PROVE  (Ordered /\ SafeInv)'
  <1>0. Alive /\ bin = "new" /\ Before
    BY DEF NegotiationNeeded, Inv, SafeInv, Stage
  <1>1. IF bin' = "requested" /\ session /\ ws = "open" THEN Puts("page", "request") ELSE Same
    BY <1>0, SendStep, SameStep DEF NegotiationNeeded, Before, Kinds, Inv
  <1> USE Boxes, <1>0, <1>1 DEF Puts, Same, Inv, SafeInv, Alive, Waits, Sides, NegotiationNeeded
  <1>2. Connected'
    BY DEF Connected
  <1>3. Phase'
    BY Distinct DEF Phase, Connected, Stage, Before, Requested, Offered, Negotiated, Only
  <1>4. Stage'
    BY DEF Stage, Before, Requested, Offered, Negotiated, Only, Phase, IceLast, Connected
  <1>5. IceLast'
    BY DEF IceLast, Stage, Before, Requested, Offered, Negotiated, Only, Phase, Connected
  <1> QED
    BY <1>1, <1>2, <1>3, <1>4, <1>5

LEMMA OfferCreatedSafe ==
  ASSUME Inv, OfferCreated, bin' = "offered", Send("offer"),
         UNCHANGED <<app, life, ws, online, session, page>>
  PROVE  (Ordered /\ SafeInv)'
  <1>0. Alive /\ bin = "creating" /\ Before
    BY DEF OfferCreated, SdpCreated, Inv, SafeInv, Stage
  <1>1. IF session /\ ws = "open" THEN Puts("page", "offer") ELSE Same
    BY <1>0, SendStep DEF Before, Kinds
  <1> USE Boxes, <1>0, <1>1 DEF Puts, Same, Inv, SafeInv, Alive, Waits, Sides, Kinds
  <1>2. Connected'
    BY DEF Connected
  <1>3. Phase'
    BY Distinct DEF Phase, Connected, Stage, Before, Requested, Offered, Negotiated, Only
  <1>4. Stage'
    BY DEF Stage, Before, Requested, Offered, Negotiated, Only, Phase, IceLast, Connected
  <1>5. IceLast'
    BY DEF IceLast, Stage, Before, Requested, Offered, Negotiated, Only, Phase, Connected
  <1> QED
    BY <1>1, <1>2, <1>3, <1>4, <1>5

LEMMA AnswerCreatedSafe ==
  ASSUME Inv, AnswerCreated, bin' = "connected", Send("answer"),
         UNCHANGED <<app, life, ws, online, session, page>>
  PROVE  (Ordered /\ SafeInv)'
  <1>0. Alive /\ bin = "answering" /\ Negotiated
    BY DEF AnswerCreated, SdpCreated, Inv, SafeInv, Stage
  <1>1. IF session /\ ws = "open" THEN Puts("page", "answer") ELSE Same
    BY <1>0, SendStep DEF Negotiated, Kinds
  <1> USE Boxes, <1>0, <1>1 DEF Puts, Same, Inv, SafeInv, Alive, Waits, Sides, Kinds
  <1>2. Connected'
    BY DEF Connected
  <1>3. Phase'
    BY Distinct DEF Phase, Connected, Stage, Before, Requested, Offered, Negotiated, Only
  <1>4. Stage'
    BY DEF Stage, Before, Requested, Offered, Negotiated, Only, Phase, IceLast, Connected
  <1>5. IceLast'
    BY DEF IceLast, Stage, Before, Requested, Offered, Negotiated, Only, Phase, Connected
  <1> QED
    BY <1>1, <1>2, <1>3, <1>4, <1>5

LEMMA SendIceSafe ==
  ASSUME Inv, SendIceCandidate, Send("ice"), UNCHANGED <<program, online, session, page>>
  PROVE  (Ordered /\ SafeInv)'
  <1>0. Alive /\ bin \in Gathering
    BY DEF SendIceCandidate
  <1>1. IF session /\ ws = "open" THEN Puts("page", "ice") ELSE Same
    BY <1>0, SendStep DEF Kinds
  <1> USE Boxes, <1>0, <1>1 DEF Puts, Same, Inv, SafeInv, Alive, Waits, Sides, program, Gathering
  <1>2. Connected'
    BY DEF Connected
  <1>3. Phase'
    BY Distinct DEF Phase, Connected, Stage, Before, Requested, Offered, Negotiated, Only
  <1>4. Stage'
    BY DEF Stage, Before, Requested, Offered, Negotiated, Only, Phase, IceLast, Connected
  <1>5. IceLast'
    BY DEF IceLast, Stage, Before, Requested, Offered, Negotiated, Only, Phase, Connected
  <1> QED
    BY <1>1, <1>2, <1>3, <1>4, <1>5

LEMMA PageOffersSafe ==
  ASSUME Inv, PageDescribes, page = "requested"
  PROVE  (Ordered /\ SafeInv)'
  <1>0. /\ page' = "offered" /\ inbox' = PageSends(inbox, "offer")
        /\ UNCHANGED <<program, online, session>>
    BY DEF PageDescribes
  <1>1. IF session THEN Puts("program", "offer") ELSE Same
    <2>1. session => Only("program", {})
      BY DEF Inv, SafeInv, Stage, Before, Requested, Offered, Negotiated, TypeOK
    <2>2. ~session => UNCHANGED inbox
      BY <1>0 DEF PageSends, Relay
    <2> QED
      BY <1>0, <2>1, <2>2, PageSendStep, SameStep DEF Kinds, Inv
  <1> USE Boxes, <1>0, <1>1 DEF Puts, Same, Inv, SafeInv, Alive, Waits, Sides, program
  <1>2. Connected'
    BY DEF Connected
  <1>3. Phase'
    BY Distinct DEF Phase, Connected, Stage, Before, Requested, Offered, Negotiated, Only
  <1>4. Stage'
    BY DEF Stage, Before, Requested, Offered, Negotiated, Only, Phase, IceLast, Connected
  <1>5. IceLast'
    BY DEF IceLast, Stage, Before, Requested, Offered, Negotiated, Only, Phase, Connected
  <1> QED
    BY <1>1, <1>2, <1>3, <1>4, <1>5

LEMMA PageAnswersSafe ==
  ASSUME Inv, PageDescribes, page = "called"
  PROVE  (Ordered /\ SafeInv)'
  <1>0. /\ page' = "connected" /\ inbox' = PageSends(inbox, "answer")
        /\ UNCHANGED <<program, online, session>>
    BY DEF PageDescribes
  <1>1. IF session THEN Puts("program", "answer") ELSE Same
    <2>1. session => Only("program", {})
      BY DEF Inv, SafeInv, Stage, Before, Requested, Offered, Negotiated, TypeOK
    <2>2. ~session => UNCHANGED inbox
      BY <1>0 DEF PageSends, Relay
    <2> QED
      BY <1>0, <2>1, <2>2, PageSendStep, SameStep DEF Kinds, Inv
  <1> USE Boxes, <1>0, <1>1 DEF Puts, Same, Inv, SafeInv, Alive, Waits, Sides, program
  <1>2. Connected'
    BY DEF Connected
  <1>3. Phase'
    BY Distinct DEF Phase, Connected, Stage, Before, Requested, Offered, Negotiated, Only
  <1>4. Stage'
    BY DEF Stage, Before, Requested, Offered, Negotiated, Only, Phase, IceLast, Connected
  <1>5. IceLast'
    BY DEF IceLast, Stage, Before, Requested, Offered, Negotiated, Only, Phase, Connected
  <1> QED
    BY <1>1, <1>2, <1>3, <1>4, <1>5

LEMMA PageCandidateSafe ==
  ASSUME Inv, PageCandidate
  PROVE  (Ordered /\ SafeInv)'
  <1>0. page \in {"offered", "connected"} /\ UNCHANGED <<program, online, session, page>>
    BY DEF PageCandidate
  <1>1. IF session THEN Puts("program", "ice") ELSE Same
    BY PageSendStep DEF PageCandidate, Kinds
  <1> USE Boxes, <1>0, <1>1 DEF Puts, Same, Inv, SafeInv, Alive, Waits, Sides, program
  <1>2. Connected'
    BY DEF Connected
  <1>3. Phase'
    BY Distinct DEF Phase, Connected, Stage, Before, Requested, Offered, Negotiated, Only
  <1>4. Stage'
    BY DEF Stage, Before, Requested, Offered, Negotiated, Only, Phase, IceLast, Connected
  <1>5. IceLast'
    BY DEF IceLast, Stage, Before, Requested, Offered, Negotiated, Only, Phase, Connected
  <1> QED
    BY <1>1, <1>2, <1>3, <1>4, <1>5

LEMMA ServerClosedSafe == ASSUME Inv, ServerClosed PROVE (Ordered /\ SafeInv)'
  <1>1. Same
    BY SameStep DEF Inv, ServerClosed, service
  <1> USE Boxes, <1>1 DEF Same, Inv, SafeInv, Alive, Sides, ServerClosed, Receives, service
  <1>2. Connected'
    BY DEF Connected
  <1>3. Phase'
    BY Distinct DEF Phase, Connected, Stage, Before, Requested, Offered, Negotiated, Only
  <1>4. Stage'
    BY DEF Stage, Before, Requested, Offered, Negotiated, Only, Phase, IceLast, Connected
  <1>5. IceLast'
    BY DEF IceLast, Stage, Before, Requested, Offered, Negotiated, Only, Phase, Connected
  <1> QED
    BY <1>1, <1>2, <1>3, <1>4, <1>5

-----------------------------------------------------------------------------
(* Types.                                                                  *)

LEMMA StatesNamed ==
  /\ {ERROR, SERVER_CONNECTING, SERVER_CONNECTION_ERROR, SERVER_CONNECTED,
      SERVER_REGISTERING, SERVER_REGISTRATION_ERROR, SERVER_CLOSED} \subseteq AppStates
  /\ {PEER_CONNECTING, PEER_CONNECTION_ERROR, PEER_CONNECTED,
      PEER_CALL_NEGOTIATING, PEER_CALL_STARTED, PEER_CALL_ERROR} \subseteq AppStates
  /\ "program" \in Sides /\ "page" \in Sides
  BY DEF AppStates, Sides

ServiceOK ==
  /\ inbox \in [Sides -> Seq(Kinds)]
  /\ online \subseteq Sides
  /\ session \in BOOLEAN

LEMMA InboxType ==
  ASSUME TypeOK, NEW s \in Sides, NEW k \in Kinds
  PROVE  /\ Put(inbox, s, k) \in [Sides -> Seq(Kinds)]
         /\ Relay(inbox, s, k) \in [Sides -> Seq(Kinds)]
         /\ PageSends(inbox, k) \in [Sides -> Seq(Kinds)]
  <1>1. \A t \in Sides : Put(inbox, t, k) \in [Sides -> Seq(Kinds)]
    BY DEF Put, TypeOK
  <1> QED
    BY <1>1, Other, StatesNamed DEF Relay, PageSends, Sides, TypeOK

LEMMA RestType ==
  ASSUME TypeOK, NEW s \in Sides, Head1(s) # "nothing"
  PROVE  /\ Rest(s) \in [Sides -> Seq(Kinds)]
         /\ \A k \in Kinds : Put(Rest(s), s, k) \in [Sides -> Seq(Kinds)]
  <1>1. inbox[s] \in Seq(Kinds) /\ inbox[s] # <<>>
    BY DEF TypeOK, Head1
  <1>2. Tail(inbox[s]) \in Seq(Kinds)
    BY <1>1
  <1>3. Rest(s) \in [Sides -> Seq(Kinds)]
    BY <1>2 DEF Rest, TypeOK
  <1> HIDE DEF Rest
  <1> QED
    BY <1>3 DEF Put

LEMMA HangUpType ==
  ASSUME TypeOK, NEW s \in Sides, NEW box \in [Sides -> Seq(Kinds)], HangUp(box, s)
  PROVE  ServiceOK'
  <1>1. inbox' \in [Sides -> Seq(Kinds)]
    BY DEF HangUp, Kinds
  <1>2. online' \subseteq Sides /\ session' \in BOOLEAN
    BY DEF HangUp, TypeOK
  <1> QED
    BY <1>1, <1>2 DEF ServiceOK

LEMMA ExitType ==
  ASSUME TypeOK, NEW how \in {"ended", "aborted"}, Exit(how),
         UNCHANGED <<remote_is_offerer, stalled, page>>,
         channels' \in 0..2, ice' \in [Sides -> 0..MaxIce], drops' \in 0..MaxDrops
  PROVE  TypeOK'
  <1>1. [inbox EXCEPT !["program"] = <<>>] \in [Sides -> Seq(Kinds)]
    BY DEF TypeOK, Sides
  <1>2. ServiceOK'
    BY <1>1, HangUpType, StatesNamed DEF Exit
  <1> QED
    BY <1>2, StatesNamed DEF Exit, ServiceOK, TypeOK

LEMMA QuitType ==
  ASSUME TypeOK, NEW state \in AppStates \cup {0}, QuitLoop(state),
         UNCHANGED <<remote_is_offerer, stalled, page>>,
         channels' \in 0..2, ice' \in [Sides -> 0..MaxIce], drops' \in 0..MaxDrops
  PROVE  TypeOK'
  <1>1. CASE ws = "freed"
    BY <1>1, ExitType DEF QuitLoop
  <1>2. CASE ws # "freed"
    <2>1. ws' \in {"none", "closing", "freed"}
      BY <1>2 DEF QuitLoop, ClosedAlready, TypeOK
    <2>2. app' \in AppStates
      BY <1>2 DEF QuitLoop, StateAfter, TypeOK
    <2> QED
      BY <1>2, <2>1, <2>2 DEF QuitLoop, TypeOK, service
  <1> QED
    BY <1>1, <1>2

LEMMA MainLoopType == ASSUME TypeOK, MainLoop PROVE TypeOK'
  <1> USE StatesNamed
  <1>0. \A k \in Kinds : Head1("program") = k =>
          /\ Rest("program") \in [Sides -> Seq(Kinds)]
          /\ \A l \in Kinds : Put(Rest("program"), "program", l) \in [Sides -> Seq(Kinds)]
    BY RestType DEF Kinds
  <1>1. CASE ServerConnected
    <2>1. inbox' \in [Sides -> Seq(Kinds)]
      BY <1>1, InboxType DEF ServerConnected, Kinds
    <2>2. drops' \in 0..MaxDrops
      BY <1>1, BoundsAssumption DEF ServerConnected, TypeOK
    <2>3. app' \in AppStates /\ online' \subseteq Sides
      BY <1>1 DEF ServerConnected, TypeOK
    <2> QED
      BY <1>1, <2>1, <2>2, <2>3 DEF ServerConnected, TypeOK
  <1>2. CASE ConnectFails
    BY <1>2, QuitType DEF ConnectFails, TypeOK
  <1>3. CASE SetupCall
    <2>1. CASE \E state \in AppStates : QuitLoop(state)
      BY <1>3, <2>1, QuitType DEF SetupCall, TypeOK
    <2>2. CASE ~\E state \in AppStates : QuitLoop(state)
      <3>1. /\ app' = PEER_CONNECTING
            /\ session' = (online = Sides)
            /\ inbox' \in {Put(Rest("program"), "program", "session_ok"),
                           Put(Rest("program"), "program", "error"), Rest("program")}
            /\ UNCHANGED <<life, ws, bin, online>>
        <4>1. /\ app' = PEER_CONNECTING
              /\ session' = (online = Sides)
              /\ inbox' = IF online = Sides THEN Put(Rest("program"), "program", "session_ok")
                            ELSE IF online = {"program"} THEN Put(Rest("program"), "program", "error")
                            ELSE Rest("program")
              /\ UNCHANGED <<life, ws, bin, online>>
          BY <1>3, <2>2 DEF SetupCall
        <4> QED
          BY <4>1
      <3>2. inbox' \in [Sides -> Seq(Kinds)]
        BY <1>0, <1>3, <3>1 DEF SetupCall, Receives, Kinds
      <3>3. session' \in BOOLEAN
        BY <3>1
      <3> QED
        BY <1>3, <3>1, <3>2, <3>3 DEF SetupCall, TypeOK
    <2> QED
      BY <2>1, <2>2
  <1>4. CASE StartPipeline
    <2>1. CASE \E state \in AppStates : QuitLoop(state)
      BY <1>4, <2>1, QuitType DEF StartPipeline, TypeOK
    <2>2. CASE ~\E state \in AppStates : QuitLoop(state)
      BY <1>0, <1>4, <2>2 DEF StartPipeline, TypeOK, Receives, Kinds
    <2> QED
      BY <2>1, <2>2
  <1>5. CASE SdpAnswer
    BY <1>0, <1>5, ExitType DEF SdpAnswer, TypeOK, Receives, Kinds
  <1>6. CASE SdpOffer
    BY <1>0, <1>6, ExitType DEF SdpOffer, TypeOK, Receives, Kinds
  <1>7. CASE AddIceCandidate
    BY <1>0, <1>7, ExitType DEF AddIceCandidate, TypeOK, Receives, Kinds, program
  <1>8. CASE ServerError
    <2>1. ErrorState \in AppStates
      BY DEF ErrorState
    <2> QED
      BY <1>8, <2>1, QuitType DEF ServerError, TypeOK
  <1>9. CASE ServerClosed
    BY <1>9 DEF ServerClosed, TypeOK, service
  <1> QED
    BY <1>1, <1>2, <1>3, <1>4, <1>5, <1>6, <1>7, <1>8, <1>9 DEF MainLoop

LEMMA CallbackType == ASSUME TypeOK, Callback PROVE TypeOK'
  <1> USE StatesNamed
  <1>0. \A k \in Kinds : Send(k) => inbox' \in [Sides -> Seq(Kinds)]
    BY InboxType DEF Send, TypeOK
  <1>1. CASE NegotiationNeeded
    BY <1>0, <1>1 DEF NegotiationNeeded, TypeOK, Kinds
  <1>2. CASE OfferCreated
    BY <1>0, <1>2, ExitType DEF OfferCreated, SdpCreated, TypeOK, Kinds
  <1>3. CASE AnswerCreated
    BY <1>0, <1>3, ExitType DEF AnswerCreated, SdpCreated, TypeOK, Kinds
  <1>4. CASE SendIceCandidate
    <2>1. ice' \in [Sides -> 0..MaxIce]
      BY <1>4, BoundsAssumption DEF SendIceCandidate, TypeOK
    <2>2. channels' \in 0..2 /\ drops' \in 0..MaxDrops
          /\ UNCHANGED <<remote_is_offerer, stalled, page>>
      BY <1>4 DEF SendIceCandidate, TypeOK
    <2>3. CASE QuitLoop(ERROR)
      BY <2>1, <2>2, <2>3, QuitType
    <2>4. CASE Exit("aborted")
      BY <2>1, <2>2, <2>4, ExitType
    <2>5. CASE Send("ice") /\ UNCHANGED <<program, online, session>>
      BY <1>0, <2>1, <2>2, <2>5 DEF TypeOK, Kinds, program
    <2> QED
      BY <1>4, <2>3, <2>4, <2>5 DEF SendIceCandidate
  <1>5. CASE DataChannelClosed
    <2>1. channels' \in 0..2
      BY <1>5 DEF DataChannelClosed, TypeOK
    <2> QED
      BY <1>5, <2>1, QuitType DEF DataChannelClosed, TypeOK
  <1> QED
    BY <1>1, <1>2, <1>3, <1>4, <1>5 DEF Callback

LEMMA PageType == ASSUME TypeOK, Page PROVE TypeOK'
  <1> USE StatesNamed
  <1>0. \A k \in Kinds : Head1("page") = k => Rest("page") \in [Sides -> Seq(Kinds)]
    BY RestType DEF Kinds
  <1>1. CASE PageRequested \/ PageSdp \/ PageIce \/ PageClosed
    BY <1>0, <1>1
       DEF PageRequested, PageSdp, PageIce, PageClosed, PageReceives, Kinds, TypeOK, program
  <1>2. CASE PageDescribes
    BY <1>2, InboxType DEF PageDescribes, Kinds, TypeOK, program
  <1>3. CASE PageCandidate
    <2>1. ice' \in [Sides -> 0..MaxIce]
      BY <1>3, BoundsAssumption DEF PageCandidate, TypeOK
    <2> QED
      BY <1>3, <2>1, InboxType DEF PageCandidate, Kinds, TypeOK, program
  <1>4. CASE PageStalls
    BY <1>4 DEF PageStalls, TypeOK, program, service
  <1> QED
    BY <1>1, <1>2, <1>3, <1>4 DEF Page

LEMMA NextType == ASSUME TypeOK, Next PROVE TypeOK'
  <1>1. ASSUME NEW s \in Sides, Drop(s) PROVE TypeOK'
    <2>1. ServiceOK'
      BY <1>1, HangUpType DEF Drop, TypeOK
    <2>2. drops' \in 0..MaxDrops
      BY <1>1, BoundsAssumption DEF Drop, TypeOK
    <2> QED
      BY <1>1, <2>1, <2>2 DEF Drop, ServiceOK, TypeOK, program
  <1>2. CASE Stop
    BY <1>2, ExitType DEF Stop, TypeOK
  <1> QED
    BY <1>1, <1>2, MainLoopType, CallbackType, PageType DEF Next

-----------------------------------------------------------------------------
(* The invariant.                                                          *)

LEMMA MainLoopSafe == ASSUME Inv, MainLoop PROVE (Ordered /\ SafeInv)'
  <1>1. ASSUME Alive, \E state : QuitLoop(state), UNCHANGED page PROVE (Ordered /\ SafeInv)'
    BY <1>1, QuitSafe
  <1>2. ASSUME Exit("aborted"), UNCHANGED page PROVE (Ordered /\ SafeInv)'
    BY <1>2, ExitSafe
  <1>3. CASE ServerConnected
    BY <1>3, ServerConnectedSafe
  <1>4. CASE ConnectFails
    BY <1>1, <1>4 DEF ConnectFails, Alive
  <1>5. CASE SetupCall
    <2>1. CASE \E state : QuitLoop(state)
      BY <1>1, <1>5, <2>1 DEF SetupCall, Receives, Alive
    <2>2. CASE ~\E state : QuitLoop(state)
      BY <1>5, <2>2, SetupCallSafe DEF SetupCall
    <2> QED
      BY <2>1, <2>2
  <1>6. CASE StartPipeline
    <2>1. CASE \E state : QuitLoop(state)
      BY <1>1, <1>6, <2>1 DEF StartPipeline, Receives, Alive
    <2>2. CASE ~\E state : QuitLoop(state)
      BY <1>6, <2>2, StartPipelineSafe DEF StartPipeline
    <2> QED
      BY <2>1, <2>2
  <1>7. CASE SdpAnswer
    BY <1>2, <1>7, SdpAnswerSafe DEF SdpAnswer
  <1>8. CASE SdpOffer
    BY <1>2, <1>8, SdpOfferSafe DEF SdpOffer
  <1>9. CASE AddIceCandidate
    BY <1>2, <1>9, AddIceSafe DEF AddIceCandidate
  <1>10. CASE ServerError
    BY <1>1, <1>10 DEF ServerError, Receives, Alive
  <1>11. CASE ServerClosed
    BY <1>11, ServerClosedSafe
  <1> QED
    BY <1>3, <1>4, <1>5, <1>6, <1>7, <1>8, <1>9, <1>10, <1>11 DEF MainLoop

LEMMA CallbackSafe == ASSUME Inv, Callback PROVE (Ordered /\ SafeInv)'
  <1>1. ASSUME Alive, NEW state, QuitLoop(state), UNCHANGED page PROVE (Ordered /\ SafeInv)'
    BY <1>1, QuitSafe
  <1>2. ASSUME Exit("aborted"), UNCHANGED page PROVE (Ordered /\ SafeInv)'
    BY <1>2, ExitSafe
  <1>3. CASE NegotiationNeeded
    BY <1>3, NegotiationNeededSafe
  <1>4. CASE OfferCreated
    BY <1>2, <1>4, OfferCreatedSafe DEF OfferCreated, SdpCreated
  <1>5. CASE AnswerCreated
    BY <1>2, <1>5, AnswerCreatedSafe DEF AnswerCreated, SdpCreated
  <1>6. CASE SendIceCandidate
    BY <1>1, <1>2, <1>6, SendIceSafe DEF SendIceCandidate
  <1>7. CASE DataChannelClosed
    BY <1>1, <1>7 DEF DataChannelClosed
  <1> QED
    BY <1>3, <1>4, <1>5, <1>6, <1>7 DEF Callback

LEMMA PageSafe == ASSUME Inv, Page PROVE (Ordered /\ SafeInv)'
  <1>1. CASE PageDescribes
    BY <1>1, PageOffersSafe, PageAnswersSafe DEF PageDescribes
  <1>2. CASE PageStalls
    BY <1>2, PageStallsSafe
  <1> QED
    BY <1>1, <1>2, PageRequestedSafe, PageSdpSafe, PageIceSafe, PageCandidateSafe, PageClosedSafe
       DEF Page

LEMMA InitInv == Init => Inv
  <1> SUFFICES ASSUME Init PROVE Inv
    OBVIOUS
  <1>1. TypeOK
    <2>1. ice \in [Sides -> 0..MaxIce] /\ drops \in 0..MaxDrops
      BY BoundsAssumption DEF Init
    <2>2. inbox \in [Sides -> Seq(Kinds)]
      BY DEF Init
    <2>3. channels \in 0..2 /\ online \subseteq Sides /\ app \in AppStates
      BY StatesNamed DEF Init
    <2>4. remote_is_offerer \in BOOLEAN /\ session \in BOOLEAN
      BY DEF Init
    <2> QED
      BY <2>1, <2>2, <2>3, <2>4 DEF Init, TypeOK
  <1>2. Ordered
    BY DEF Init, Ordered, InOrder
  <1>3. \A s \in Sides : kinds[s] = {} /\ first[s] = "nothing"
    BY DEF Init, kinds, first, Elements, First
  <1>4. SafeInv
    BY <1>3, Distinct
       DEF Init, SafeInv, Connected, Phase, Stage, Before, Only, IceLast, Alive, Sides, Waits
  <1> QED
    BY <1>1, <1>2, <1>4 DEF Inv

LEMMA NextInv == Inv /\ [Next]_vars => Inv'
  <1> SUFFICES ASSUME Inv, [Next]_vars PROVE Inv'
    OBVIOUS
  <1>1. CASE Next
    <2>1. TypeOK'
      BY <1>1, NextType DEF Inv
    <2>2. Stop => (Ordered /\ SafeInv)'
      BY ExitSafe DEF Stop
    <2> QED
      BY <1>1, <2>1, <2>2, DropSafe, MainLoopSafe, CallbackSafe, PageSafe DEF Next, Inv
  <1>2. CASE UNCHANGED vars
    <2>1. Same
      BY <1>2, SameStep DEF Inv, vars, service
    <2>2. TypeOK'
      BY <1>2 DEF Inv, TypeOK, vars, program, service
    <2>3. SafeInv'
      BY <1>2, <2>1
         DEF Inv, SafeInv, Connected, Phase, Stage, Before, Requested, Offered, Negotiated, Only,
             IceLast, Alive, Same, vars, program, service
    <2> QED
      BY <2>1, <2>2, <2>3 DEF Inv, Same
  <1> QED
    BY <1>1, <1>2

LEMMA Invariance == Spec => []Inv
  BY InitInv, NextInv, PTL DEF Spec

-----------------------------------------------------------------------------
(* The two ends together, while the session lasts: what one has sent the   *)
(* other has not read yet, or has acted upon.                              *)

Joint ==
  /\ life = "running" /\ app # SERVER_CONNECTING => ws = "open"
  /\ session =>
       /\ "offer" \in kinds["program"] => page = "offered"
       /\ "answer" \in kinds["program"] => page = "connected"
       /\ bin = "answering" => page = "offered"
       /\ "answer" \in kinds["page"] => page = "offered"
       /\ life = "running" /\ bin = "none" => "session_ok" \in kinds["program"]
       /\ bin = "connected" /\ page = "offered" /\ ws = "open" =>
            "answer" \in kinds["page"] \/ stalled
JointInv == Inv /\ Joint

LEMMA OverJoint ==
  ASSUME ~session', life' # "running" \/ (Joint /\ UNCHANGED <<app, ws, life>>)
  PROVE  Joint'
  BY DEF Joint

LEMMA DropJoint == ASSUME JointInv, NEW s \in Sides, Drop(s) PROVE Joint'
  BY OverJoint DEF JointInv, Drop, HangUp, program

LEMMA ExitJoint == ASSUME NEW how \in {"ended", "aborted"}, Exit(how) PROVE Joint'
  BY OverJoint DEF Exit, HangUp

LEMMA QuitJoint ==
  ASSUME JointInv, NEW state, Alive, QuitLoop(state), UNCHANGED page
  PROVE  Joint'
  <1>1. CASE ws = "freed"
    BY <1>1, ExitJoint DEF QuitLoop
  <1>2. CASE ws # "freed"
    <2>1. Same /\ life' = "quitting" /\ UNCHANGED <<bin, session>> /\ ws' # "open"
      BY <1>2, SameStep DEF QuitLoop, service, JointInv, Inv, ClosedAlready
    <2> QED
      BY <2>1 DEF Joint, JointInv, Same
  <1> QED
    BY <1>1, <1>2

\* A message that is neither a candidate nor the end is alone of its kind.
LEMMA FirstJoint ==
  ASSUME Inv, NEW s \in Sides, first[s] # "nothing", inbox' = Rest(s)
  PROVE  /\ Takes(s) /\ Sides = {"program", "page"}
         /\ \A k \in {"offer", "answer", "session_ok"} : k \in kinds[s] => first[s] = k
  BY TakeStep, Leading DEF Inv, Sides

LEMMA ConnectedJoint == ASSUME JointInv, ServerConnected PROVE Joint'
  <1>1. ~session'
    BY Boxes, Distinct DEF JointInv, Inv, TypeOK, SafeInv, Phase, Connected, ServerConnected, Sides
  <1>2. ws' = "open"
    BY DEF ServerConnected
  <1> QED
    BY <1>1, <1>2 DEF Joint

LEMMA SetupJoint ==
  ASSUME JointInv, Receives("hello"), app = SERVER_REGISTERING, app' = PEER_CONNECTING,
         session' => online = Sides,
         inbox' = IF online = Sides THEN Put(Rest("program"), "program", "session_ok")
                    ELSE IF online = {"program"} THEN Put(Rest("program"), "program", "error")
                    ELSE Rest("program"),
         UNCHANGED <<life, ws, bin, online, page>>
  PROVE  Joint'
  <1>0. /\ Inv /\ bin = "none" /\ Before /\ first["program"] = "hello" /\ Alive
        /\ ws = "open" /\ Sides = {"program", "page"}
    BY Boxes, Distinct
       DEF JointInv, Joint, Inv, TypeOK, SafeInv, Phase, Receives, Stage, Alive, Sides
  <1>1. CASE session'
    <2>1. kinds["program"] \cap {"ice", "closed"} = {}
      BY <1>0, <1>1 DEF Before, Only, Inv, SafeInv, Connected
    <2>2. inbox' = Put(Rest("program"), "program", "session_ok") /\ "session_ok" \in Kinds
      BY <1>0, <1>1 DEF Kinds
    <2>3. kinds' = [kinds EXCEPT !["program"] = {"session_ok"}]
      BY <1>0, <2>1, <2>2, AnswerStep DEF Inv
    <2>4. kinds'["program"] = {"session_ok"} /\ kinds'["page"] = kinds["page"]
      BY <1>0, <2>3, Boxes DEF Inv
    <2>5. "answer" \notin kinds["page"]
      BY <1>0 DEF Before, Only
    <2> QED
      BY <1>0, <2>4, <2>5 DEF Joint
  <1>2. CASE ~session'
    BY <1>0, <1>2 DEF Joint
  <1> QED
    BY <1>1, <1>2

LEMMA StartJoint ==
  ASSUME JointInv, Receives("session_ok"), app = PEER_CONNECTING, bin' = "new",
         inbox' = Rest("program"), UNCHANGED <<life, ws, session, page>>
  PROVE  Joint'
  <1>1. Inv /\ first["program"] = "session_ok" /\ "program" \in Sides
    BY Boxes DEF JointInv, Inv, Sides, Receives
  <1>2. ws = "open"
    BY Distinct DEF JointInv, Joint, Receives
  <1> QED
    BY <1>1, <1>2, FirstJoint DEF JointInv, Joint, Takes

LEMMA AnsweredJoint ==
  ASSUME JointInv, SdpAnswer, app = PEER_CALL_NEGOTIATING
  PROVE  Joint'
  <1>1. Inv /\ first["program"] = "answer" /\ "answer" \in kinds["program"] /\ "program" \in Sides
    BY Boxes DEF JointInv, Inv, Sides, Receives, SdpAnswer
  <1>2. ws = "open" /\ (session => page = "connected")
    BY <1>1, Distinct DEF JointInv, Joint, Receives, SdpAnswer
  <1> QED
    BY <1>1, <1>2, FirstJoint DEF JointInv, Joint, Takes, SdpAnswer

LEMMA OfferedJoint ==
  ASSUME JointInv, SdpOffer, app = PEER_CALL_NEGOTIATING
  PROVE  Joint'
  <1>1. Inv /\ first["program"] = "offer" /\ "offer" \in kinds["program"] /\ "program" \in Sides
    BY Boxes DEF JointInv, Inv, Sides, Receives, SdpOffer
  <1>2. ws = "open" /\ (session => page = "offered")
    BY <1>1, Distinct DEF JointInv, Joint, Receives, SdpOffer
  <1> QED
    BY <1>1, <1>2, FirstJoint DEF JointInv, Joint, Takes, SdpOffer

LEMMA IceJoint ==
  ASSUME JointInv, AddIceCandidate, bin # "none"
  PROVE  Joint'
  <1>1. Inv /\ first["program"] = "ice" /\ "program" \in Sides
    BY Boxes DEF JointInv, Inv, Sides, Receives, AddIceCandidate
  <1> QED
    BY <1>1, FirstJoint DEF JointInv, Joint, Takes, AddIceCandidate, program

LEMMA MainLoopJoint == ASSUME JointInv, MainLoop PROVE Joint'
  <1>1. ASSUME Alive, \E state : QuitLoop(state), UNCHANGED page PROVE Joint'
    BY <1>1, QuitJoint
  <1>2. ASSUME Exit("aborted") PROVE Joint'
    BY <1>2, ExitJoint
  <1>3. CASE ConnectFails \/ ServerError
    BY <1>1, <1>3 DEF ConnectFails, ServerError, Receives, Alive
  <1>4. CASE SetupCall
    <2>1. CASE \E state : QuitLoop(state)
      BY <1>1, <1>4, <2>1 DEF SetupCall, Receives, Alive
    <2>2. CASE ~\E state : QuitLoop(state)
      BY <1>4, <2>2, SetupJoint DEF SetupCall
    <2> QED
      BY <2>1, <2>2
  <1>5. CASE StartPipeline
    <2>1. CASE \E state : QuitLoop(state)
      BY <1>1, <1>5, <2>1 DEF StartPipeline, Receives, Alive
    <2>2. CASE ~\E state : QuitLoop(state)
      BY <1>5, <2>2, StartJoint DEF StartPipeline
    <2> QED
      BY <2>1, <2>2
  <1>6. CASE SdpAnswer
    BY <1>2, <1>6, AnsweredJoint DEF SdpAnswer
  <1>7. CASE SdpOffer
    BY <1>2, <1>7, OfferedJoint DEF SdpOffer
  <1>8. CASE AddIceCandidate
    BY <1>2, <1>8, IceJoint DEF AddIceCandidate
  <1>9. CASE ServerClosed
    <2>1. Same /\ life' = "quitting" /\ ws' = "freed" /\ UNCHANGED <<bin, page, session>>
      BY <1>9, SameStep DEF ServerClosed, service, JointInv, Inv
    <2> QED
      BY <2>1 DEF Joint, JointInv, Same
  <1> QED
    BY <1>3, <1>4, <1>5, <1>6, <1>7, <1>8, <1>9, ConnectedJoint DEF MainLoop

\* A message for the page.
LEMMA SendJoint ==
  ASSUME JointInv, Alive, NEW k \in {"request", "offer", "answer", "ice"}, Send(k),
         UNCHANGED <<life, ws, session, page, stalled>>, app' = app \/ app' = PEER_CALL_NEGOTIATING,
         k # "ice" => Only("page", {}),
         bin # "none" /\ bin' \notin {"none", "answering"},
         bin' = "connected" => (bin = "connected" /\ k = "ice") \/ k = "answer",
         k = "answer" => bin = "answering"
  PROVE  Joint'
  <1>0. Inv /\ k \in Kinds /\ Sides = {"program", "page"}
    BY DEF JointInv, Kinds, Sides
  <1>1. IF session /\ ws = "open" THEN Puts("page", k) ELSE Same
    BY <1>0, SendStep
  <1>2. kinds'["program"] = kinds["program"]
        /\ IF session /\ ws = "open" THEN kinds'["page"] = kinds["page"] \cup {k}
           ELSE kinds'["page"] = kinds["page"]
    BY <1>0, <1>1, Boxes DEF Puts, Same, Inv
  <1>3. life = "running" => app # SERVER_CONNECTING
    BY <1>0, Distinct DEF Inv, TypeOK, SafeInv, Phase
  <1> QED
    BY <1>2, <1>3 DEF JointInv, Joint, Alive

LEMMA CallbackJoint == ASSUME JointInv, Callback PROVE Joint'
  <1>0. Inv
    BY DEF JointInv
  <1>1. ASSUME Alive, NEW state, QuitLoop(state), UNCHANGED page PROVE Joint'
    BY <1>1, QuitJoint
  <1>2. ASSUME Exit("aborted") PROVE Joint'
    BY <1>2, ExitJoint
  <1>3. CASE NegotiationNeeded
    <2>1. Alive /\ bin = "new" /\ Before /\ UNCHANGED <<life, ws, session, page, stalled>>
      BY <1>0, <1>3 DEF NegotiationNeeded, Inv, SafeInv, Stage
    <2>2. CASE bin' = "requested" /\ Send("request")
      BY <1>3, <2>1, <2>2, SendJoint DEF NegotiationNeeded, Before
    <2>3. CASE bin' = "creating" /\ UNCHANGED inbox
      <3>1. Same /\ ws' = ws /\ (life = "running" => app # SERVER_CONNECTING)
        BY <1>0, <2>1, <2>3, SameStep, Distinct DEF Inv, SafeInv, Phase
      <3> QED
        BY <2>1, <2>3, <3>1 DEF JointInv, Joint, Same
    <2> QED
      BY <1>3, <2>2, <2>3 DEF NegotiationNeeded
  <1>4. CASE OfferCreated
    <2>1. Alive /\ bin = "creating" /\ Before
      BY <1>0, <1>4 DEF OfferCreated, SdpCreated, Inv, SafeInv, Stage
    <2> QED
      BY <1>2, <1>4, <2>1, SendJoint DEF OfferCreated, SdpCreated, Before
  <1>5. CASE AnswerCreated
    <2>1. Alive /\ bin = "answering" /\ Negotiated
      BY <1>0, <1>5 DEF AnswerCreated, SdpCreated, Inv, SafeInv, Stage
    <2> QED
      BY <1>2, <1>5, <2>1, SendJoint DEF AnswerCreated, SdpCreated, Negotiated
  <1>6. CASE SendIceCandidate
    BY <1>1, <1>2, <1>6, SendJoint DEF SendIceCandidate, Gathering, program
  <1>7. CASE DataChannelClosed
    BY <1>1, <1>7 DEF DataChannelClosed
  <1> QED
    BY <1>3, <1>4, <1>5, <1>6, <1>7 DEF Callback

LEMMA PageReadJoint ==
  ASSUME JointInv, PageRequested \/ PageSdp \/ PageIce \/ PageClosed
  PROVE  Joint'
  <1>0. /\ Inv /\ first["page"] # "nothing" /\ inbox' = Rest("page")
        /\ first["page"] = Head1("page") /\ "page" \in Sides
        /\ first["page"] \in kinds["page"]
    BY Boxes DEF JointInv, Inv, Sides, PageRequested, PageSdp, PageIce, PageClosed, PageReceives
  <1>1. /\ Takes("page") /\ Sides = {"program", "page"}
        /\ \A k \in {"offer", "answer", "session_ok"} : k \in kinds["page"] => first["page"] = k
    BY <1>0, FirstJoint
  <1>2. UNCHANGED <<app, life, ws, bin, session>>
    BY DEF PageRequested, PageSdp, PageIce, PageClosed, program
  <1>3. CASE first["page"] = "closed"
    <2>1. ~session
      BY <1>0, <1>3 DEF Inv, SafeInv, Connected
    <2> QED
      BY <1>2, <2>1 DEF JointInv, Joint
  <1>4. CASE PageSdp
    <2>1. session => Alive
      BY <1>0 DEF Inv, SafeInv, Stage
    <2>2. session /\ first["page"] = "offer" => bin = "offered" /\ page = "none"
      BY <1>0, <2>1 DEF Inv, TypeOK, SafeInv, Stage, Before, Requested, Offered, Negotiated, Only
    <2>3. session /\ first["page"] = "answer" =>
            bin = "connected" /\ "offer" \notin kinds["program"]
      BY <1>0, <2>1 DEF Inv, TypeOK, SafeInv, Stage, Before, Requested, Offered, Negotiated, Only
    <2>4. \/ first["page"] = "offer" /\ page' = "called"
          \/ first["page"] = "answer" /\ page' = "connected"
          \/ first["page"] = "answer" /\ page' = page /\ stalled'
      BY <1>0, <1>4 DEF PageSdp, PageReceives
    <2> QED
      BY <1>0, <1>1, <1>2, <2>2, <2>3, <2>4 DEF JointInv, Joint, Takes
  <1>5. CASE PageRequested \/ PageIce
    <2>1. first["page"] \in {"request", "ice"} /\ page' \in {page, "requested", "called"}
          /\ (page' # page => page = "none") /\ UNCHANGED stalled
      BY <1>0, <1>5 DEF PageRequested, PageIce, PageReceives
    <2> QED
      BY <1>0, <1>1, <1>2, <2>1 DEF JointInv, Joint, Takes
  <1> QED
    BY <1>0, <1>3, <1>4, <1>5 DEF PageClosed, PageReceives

\* A message for the program.
LEMMA PageSendJoint ==
  ASSUME JointInv, PageDescribes \/ PageCandidate
  PROVE  Joint'
  <1>0. Inv /\ UNCHANGED <<app, life, ws, bin, session>> /\ Sides = {"program", "page"}
        /\ (session => Alive)
    BY DEF JointInv, Inv, SafeInv, Stage, PageDescribes, PageCandidate, program, Sides
  <1>1. ASSUME NEW k \in {"offer", "answer", "ice"}, inbox' = PageSends(inbox, k), session,
               k = "ice" \/ Only("program", {})
        PROVE  kinds'["program"] = kinds["program"] \cup {k} /\ kinds'["page"] = kinds["page"]
    <2>1. Puts("program", k)
      BY <1>0, <1>1, PageSendStep DEF Kinds
    <2> QED
      BY <1>0, <2>1, Boxes DEF Puts, Inv
  <1>2. CASE ~session
    BY <1>0, <1>2 DEF JointInv, Joint
  <1>3. CASE session /\ PageCandidate
    BY <1>0, <1>1, <1>3 DEF JointInv, Joint, PageCandidate
  <1>4. CASE session /\ PageDescribes /\ page = "requested"
    <2>1. bin = "requested" /\ Only("program", {}) /\ "answer" \notin kinds["page"]
      BY <1>0, <1>4
         DEF Inv, TypeOK, SafeInv, Stage, Before, Requested, Offered, Negotiated, Only
    <2>2. page' = "offered" /\ inbox' = PageSends(inbox, "offer")
      BY <1>4 DEF PageDescribes
    <2> QED
      BY <1>0, <1>1, <1>4, <2>1, <2>2 DEF JointInv, Joint, Only
  <1>5. CASE session /\ PageDescribes /\ page = "called"
    <2>1. bin = "offered" /\ Only("program", {}) /\ "answer" \notin kinds["page"]
      BY <1>0, <1>5
         DEF Inv, TypeOK, SafeInv, Stage, Before, Requested, Offered, Negotiated, Only
    <2>2. page' = "connected" /\ inbox' = PageSends(inbox, "answer")
      BY <1>5 DEF PageDescribes
    <2> QED
      BY <1>0, <1>1, <1>5, <2>1, <2>2 DEF JointInv, Joint, Only
  <1> QED
    BY <1>2, <1>3, <1>4, <1>5 DEF PageDescribes

LEMMA PageStallsJoint ==
  ASSUME JointInv, PageStalls
  PROVE  Joint'
  <1>1. Same /\ UNCHANGED <<app, life, ws, bin, session, page>> /\ stalled'
    BY SameStep DEF JointInv, Inv, PageStalls, program, service
  <1> QED
    BY <1>1 DEF JointInv, Joint, Same

LEMMA NextJoint == JointInv /\ [Next]_vars => JointInv'
  <1> SUFFICES ASSUME JointInv, [Next]_vars PROVE JointInv'
    OBVIOUS
  <1>1. Inv'
    BY NextInv DEF JointInv
  <1>2. CASE Next
    <2>1. Stop => Joint'
      BY ExitJoint DEF Stop
    <2> QED
      BY <1>1, <1>2, <2>1, DropJoint, MainLoopJoint, CallbackJoint, PageReadJoint, PageSendJoint,
         PageStallsJoint
         DEF Next, Page, JointInv
  <1>3. CASE UNCHANGED vars
    BY <1>1, <1>3, SameStep DEF JointInv, Inv, Joint, Same, vars, program, service
  <1> QED
    BY <1>2, <1>3

LEMMA JointInvariance == Spec => []JointInv
  <1>1. Init => JointInv
    BY InitInv DEF Init, JointInv, Joint
  <1> QED
    BY <1>1, NextJoint, PTL DEF Spec

-----------------------------------------------------------------------------
(* The refinement of Handshake.                                            *)

Present == IF session THEN Sides ELSE {}

\* Its next-state relation, or a step that it does not see.
Negotiates == [Negotiation!Next]_<<Present, Ends>>

EndValues ==
  /\ bin \in {"none", "new", "creating", "requested"} => ProgramEnd = "idle"
  /\ bin = "offered" => ProgramEnd = "calling"
  /\ bin = "answering" => ProgramEnd = "called"
  /\ bin = "connected" => ProgramEnd = "up"
  /\ page \in {"none", "requested"} => PageEnd = "idle"
  /\ page = "offered" => PageEnd = "calling"
  /\ page = "called" => PageEnd = "called"
  /\ page = "connected" => PageEnd = "up"

LEMMA BothEnds ==
  /\ EndValues /\ EndValues'
  /\ bin' = bin => ProgramEnd' = ProgramEnd
  /\ page' = page => PageEnd' = PageEnd
  BY DEF EndValues, ProgramEnd, PageEnd

\* There is no session, or no more.
LEMMA NoSessionEnds ==
  ASSUME ~session'
  PROVE  Negotiates
  <1>1. CASE ~session
    BY <1>1 DEF Negotiates, Present, Ends
  <1>2. CASE session
    <2>1. Negotiation!Leave(Sides)
      BY <1>2 DEF Negotiation!Leave, Ends
    <2> QED
      BY <2>1 DEF Negotiates, Negotiation!Next, Present
  <1> QED
    BY <1>1, <1>2

LEMMA StillEnds ==
  ASSUME UNCHANGED session, session => ProgramEnd' = ProgramEnd /\ PageEnd' = PageEnd
  PROVE  Negotiates
  BY DEF Negotiates, Present, Ends

LEMMA SameEnds ==
  ASSUME UNCHANGED <<session, bin, page>>
  PROVE  Negotiates
  BY StillEnds, BothEnds

LEMMA MoveEnds ==
  ASSUME session, session', NEW s \in Sides, NEW t \in Sides, s # t,
         Ends[t][s]' = Ends[t][s],
         \/ Ends[s][t] = "idle" /\ Ends[t][s] = "idle" /\ Ends[s][t]' = "calling"
         \/ Ends[s][t] = "idle" /\ Ends[t][s] = "calling" /\ Ends[s][t]' = "called"
         \/ Ends[s][t] = "called" /\ Ends[t][s] = "calling" /\ Ends[s][t]' = "up"
         \/ Ends[s][t] = "calling" /\ Ends[t][s] = "up" /\ Ends[s][t]' = "up"
  PROVE  Negotiates
  <1>1. Sides = {s, t}
    BY DEF Sides
  <1>2. Ends' = [Ends EXCEPT ![s][t] = Ends'[s][t]]
    <2>1. /\ Ends = [a \in Sides |-> [b \in Sides |-> Ends[a][b]]]
          /\ Ends' = [a \in Sides |-> [b \in Sides |-> Ends'[a][b]]]
      BY DEF Ends
    <2>2. /\ Ends[s][s] = "idle" /\ Ends[t][t] = "idle"
          /\ Ends'[s][s] = "idle" /\ Ends'[t][t] = "idle"
      BY DEF Ends
    <2>3. \A a, b \in Sides : Ends'[a][b] = IF a = s /\ b = t THEN Ends'[s][t] ELSE Ends[a][b]
      BY <1>1, <2>2
    <2> QED
      BY <2>1, <2>3
  <1>3. \/ Negotiation!Offer(s, t) \/ Negotiation!Receive(s, t)
        \/ Negotiation!Answer(s, t) \/ Negotiation!Settle(s, t)
    BY <1>2 DEF Negotiation!Offer, Negotiation!Receive, Negotiation!Answer,
                Negotiation!Settle, Negotiation!Move, Present
  <1> QED
    BY <1>3 DEF Negotiates, Negotiation!Next

\* The program comes to its next stage, or the page does.
LEMMA SideEnds ==
  ASSUME UNCHANGED session,
         session =>
           \/ /\ page' = page
              /\ \/ bin = "creating" /\ page = "none" /\ bin' = "offered"
                 \/ bin = "requested" /\ page = "offered" /\ bin' = "answering"
                 \/ bin = "answering" /\ page = "offered" /\ bin' = "connected"
                 \/ bin = "offered" /\ page = "connected" /\ bin' = "connected"
           \/ /\ bin' = bin
              /\ \/ page = "requested" /\ bin = "requested" /\ page' = "offered"
                 \/ page = "none" /\ bin = "offered" /\ page' = "called"
                 \/ page = "called" /\ bin = "offered" /\ page' = "connected"
                 \/ page = "offered" /\ bin = "connected" /\ page' = "connected"
  PROVE  Negotiates
  <1>1. CASE session
    <2>1. /\ Ends["program"]["page"] = ProgramEnd /\ Ends["page"]["program"] = PageEnd
          /\ Ends["program"]["page"]' = ProgramEnd' /\ Ends["page"]["program"]' = PageEnd'
      BY <1>1 DEF Ends, Sides
    <2>2. "program" \in Sides /\ "page" \in Sides
      BY DEF Sides
    <2>3. CASE page' = page /\ bin' # bin
      <3>1. Ends["page"]["program"]' = Ends["page"]["program"]
        BY <2>1, <2>3, BothEnds
      <3> QED
        BY <1>1, <2>1, <2>2, <2>3, <3>1, BothEnds, MoveEnds DEF EndValues
    <2>4. CASE bin' = bin /\ page' # page
      <3>1. Ends["program"]["page"]' = Ends["program"]["page"]
        BY <2>1, <2>4, BothEnds
      <3> QED
        BY <1>1, <2>1, <2>2, <2>4, <3>1, BothEnds, MoveEnds DEF EndValues
    <2> QED
      BY <1>1, <2>3, <2>4
  <1>2. CASE ~session
    BY <1>2, NoSessionEnds
  <1> QED
    BY <1>1, <1>2

LEMMA QuitEnds ==
  ASSUME NEW state, QuitLoop(state), UNCHANGED page
  PROVE  Negotiates
  BY NoSessionEnds, SameEnds DEF QuitLoop, Exit, HangUp, service

LEMMA ExitEnds ==
  ASSUME NEW how, Exit(how)
  PROVE  Negotiates
  BY NoSessionEnds DEF Exit, HangUp

LEMMA SetupEnds ==
  ASSUME JointInv, SetupCall
  PROVE  Negotiates
  <1>1. CASE \E state : QuitLoop(state)
    BY <1>1, QuitEnds DEF SetupCall
  <1>2. CASE ~\E state : QuitLoop(state)
    <2>1. /\ Receives("hello") /\ app = SERVER_REGISTERING /\ UNCHANGED <<bin, page>>
      BY <1>2 DEF SetupCall
    <2>2. bin = "none" /\ page = "none"
      BY <2>1, Boxes, Distinct
         DEF JointInv, Inv, TypeOK, SafeInv, Phase, Receives, Stage, Before, Alive, Sides
    <2>3. ProgramEnd = "idle" /\ PageEnd = "idle" /\ ProgramEnd' = "idle" /\ PageEnd' = "idle"
      BY <2>1, <2>2, BothEnds DEF EndValues
    <2>4. CASE session'
      <3>1. Ends' = Ends
        BY <2>3 DEF Ends
      <3>2. Present' = Present \cup Sides
        BY <2>4 DEF Present
      <3>3. Negotiation!Enter(Sides)
        BY <3>1, <3>2 DEF Negotiation!Enter, Present
      <3> QED
        BY <3>3 DEF Negotiates, Negotiation!Next
    <2>5. CASE ~session'
      BY <2>5, NoSessionEnds
    <2> QED
      BY <2>4, <2>5
  <1> QED
    BY <1>1, <1>2

LEMMA MainLoopEnds ==
  ASSUME JointInv, MainLoop
  PROVE  Negotiates
  <1>0. Inv /\ (session => Alive) /\ Sides = {"program", "page"}
        /\ (first["program"] # "nothing" => first["program"] \in kinds["program"])
        /\ first["program"] = Head1("program")
    BY Boxes DEF JointInv, Inv, SafeInv, Stage, Sides
  <1>1. CASE ServerConnected \/ AddIceCandidate \/ ServerClosed
    BY <1>1, SameEnds, ExitEnds
       DEF ServerConnected, AddIceCandidate, ServerClosed, program, service
  <1>2. CASE ConnectFails \/ ServerError
    BY <1>2, QuitEnds DEF ConnectFails, ServerError
  <1>3. CASE StartPipeline
    <2>1. CASE bin' = "new" /\ UNCHANGED <<session, page>>
      <3>1. bin = "none" \/ ~Receives("session_ok") \/ app # PEER_CONNECTING
        BY <1>0, Distinct DEF Inv, TypeOK, SafeInv, Phase, Receives
      <3>2. app = PEER_CONNECTING \/ \E state : QuitLoop(state)
        BY <1>3 DEF StartPipeline
      <3> QED
        BY <1>3, <2>1, <3>1, <3>2, BothEnds, StillEnds, QuitEnds DEF StartPipeline, EndValues
    <2> QED
      BY <1>3, <2>1, QuitEnds DEF StartPipeline
  <1>4. CASE SdpAnswer
    <2>1. first["program"] = "answer" /\ "answer" \in kinds["program"] /\ Alive
      BY <1>0, <1>4 DEF SdpAnswer, Receives, Alive
    <2>2. session => bin = "offered" /\ page = "connected"
      BY <1>0, <2>1
         DEF JointInv, Joint, Inv, TypeOK, SafeInv, Stage, Before, Requested, Offered, Negotiated, Only
    <2> QED
      BY <1>4, <2>2, SideEnds, ExitEnds DEF SdpAnswer
  <1>5. CASE SdpOffer
    <2>1. first["program"] = "offer" /\ "offer" \in kinds["program"] /\ Alive
      BY <1>0, <1>5 DEF SdpOffer, Receives, Alive
    <2>2. session => bin = "requested" /\ page = "offered"
      BY <1>0, <2>1
         DEF JointInv, Joint, Inv, TypeOK, SafeInv, Stage, Before, Requested, Offered, Negotiated, Only
    <2> QED
      BY <1>5, <2>2, SideEnds, ExitEnds DEF SdpOffer
  <1> QED
    BY <1>1, <1>2, <1>3, <1>4, <1>5, SetupEnds DEF MainLoop

LEMMA CallbackEnds ==
  ASSUME JointInv, Callback
  PROVE  Negotiates
  <1>1. CASE NegotiationNeeded
    <2>1. ProgramEnd = "idle" /\ ProgramEnd' = "idle" /\ UNCHANGED <<session, page>>
      BY <1>1, BothEnds DEF NegotiationNeeded, EndValues
    <2> QED
      BY <2>1, BothEnds, StillEnds
  <1>2. CASE OfferCreated
    <2>1. Alive /\ bin = "creating"
      BY <1>2 DEF OfferCreated, SdpCreated
    <2>2. page = "none"
      BY <2>1 DEF JointInv, Inv, SafeInv, Stage, Before
    <2> QED
      BY <1>2, <2>1, <2>2, SideEnds, ExitEnds DEF OfferCreated, SdpCreated
  <1>3. CASE AnswerCreated
    <2>1. bin = "answering" /\ (session => page = "offered")
      BY <1>3 DEF JointInv, Joint, AnswerCreated, SdpCreated
    <2> QED
      BY <1>3, <2>1, SideEnds, ExitEnds DEF AnswerCreated, SdpCreated
  <1>4. CASE SendIceCandidate
    BY <1>4, SameEnds, QuitEnds, ExitEnds DEF SendIceCandidate, program
  <1>5. CASE DataChannelClosed
    BY <1>5, QuitEnds DEF DataChannelClosed
  <1> QED
    BY <1>1, <1>2, <1>3, <1>4, <1>5 DEF Callback

LEMMA PageEnds ==
  ASSUME JointInv, Page
  PROVE  Negotiates
  <1>0. /\ Inv /\ (session => Alive) /\ Sides = {"program", "page"} /\ UNCHANGED <<session, bin>>
        /\ first["page"] = Head1("page")
        /\ first["page"] # "nothing" => first["page"] \in kinds["page"]
    BY Boxes DEF JointInv, Inv, SafeInv, Stage, Sides, Page, PageRequested, PageSdp, PageIce,
                 PageStalls, PageDescribes, PageCandidate, PageClosed, program, service
  <1>1. CASE PageRequested
    BY <1>0, <1>1, BothEnds, StillEnds DEF PageRequested, EndValues
  <1>2. CASE PageSdp
    <2>1. /\ session /\ first["page"] = "offer" => bin = "offered" /\ page = "none"
          /\ session /\ first["page"] = "answer" => bin = "connected" /\ page = "offered"
      BY <1>0 DEF JointInv, Joint, Inv, TypeOK, SafeInv, Stage, Before, Requested, Offered,
                  Negotiated, Only
    <2> QED
      BY <1>0, <1>2, <2>1, SideEnds, SameEnds DEF PageSdp, PageReceives
  <1>3. CASE PageIce
    <2>1. page' = page
      BY <1>0, <1>3 DEF PageIce, PageReceives, Inv, SafeInv, IceLast
    <2> QED
      BY <1>0, <2>1, SameEnds
  <1>4. CASE PageDescribes
    <2>1. session => /\ page = "requested" => bin = "requested"
                     /\ page = "called" => bin = "offered"
      BY <1>0 DEF Inv, TypeOK, SafeInv, Stage, Before, Requested, Offered, Negotiated
    <2> QED
      BY <1>0, <1>4, <2>1, SideEnds DEF PageDescribes
  <1>5. CASE PageCandidate
    BY <1>0, <1>5, SameEnds DEF PageCandidate
  <1>6. CASE PageClosed
    <2>1. ~session
      BY <1>0, <1>6 DEF PageClosed, PageReceives, Inv, SafeInv, Connected
    <2> QED
      BY <1>0, <2>1, NoSessionEnds
  <1>7. CASE PageStalls
    BY <1>0, <1>7, SameEnds DEF PageStalls
  <1> QED
    BY <1>1, <1>2, <1>3, <1>4, <1>5, <1>6, <1>7 DEF Page

LEMMA HandshakeStep ==
  ASSUME JointInv, [Next]_vars
  PROVE  [Negotiation!Next]_<<IF session THEN Sides ELSE {}, Ends>>
  <1> SUFFICES Negotiates
    BY DEF Negotiates, Present
  <1>1. ASSUME NEW s \in Sides, Drop(s) PROVE Negotiates
    BY <1>1, NoSessionEnds DEF Drop, HangUp
  <1>2. Stop => Negotiates
    BY ExitEnds DEF Stop
  <1>3. CASE UNCHANGED vars
    BY <1>3, SameEnds DEF vars, program, service
  <1> QED
    BY <1>1, <1>2, <1>3, MainLoopEnds, CallbackEnds, PageEnds DEF Next

-----------------------------------------------------------------------------
(* The theorems.                                                           *)

\* Every variable keeps its range: no message is taken from an empty inbox, and
\* cleanup_and_quit_loop leaves app_state a value of the enumeration.
THEOREM TypeCorrect == Spec => []TypeOK
  <1>1. Inv => TypeOK
    BY DEF Inv
  <1> QED
    BY <1>1, Invariance, PTL

\* The assertions on app_state (l.264, l.501, l.640) and the tests of l.569 and
\* l.583 find the state they expect while the program runs, whichever side
\* offers and whenever connections are dropped.
THEOREM StateExpectedHolds == Spec => []StateExpected
  <1>1. Inv => StateExpected
    <2> SUFFICES ASSUME Inv, life = "running" PROVE StateExpected
      BY DEF StateExpected
    <2>1. first["program"] = Head1("program")
          /\ (first["program"] # "nothing" => first["program"] \in kinds["program"])
      BY Boxes DEF Inv, Sides
    <2>2. Receives("offer") \/ Receives("answer") => bin \in {"requested", "offered"}
      BY <2>1 DEF Inv, SafeInv, Stage, Before, Negotiated, Only, Receives, Alive, TypeOK
    <2> QED
      BY <2>1, <2>2 DEF Inv, SafeInv, Phase, StateExpected, Receives
  <1> QED
    BY <1>1, Invariance, PTL

\* However many candidates there are, none overtakes the description it belongs
\* to, on either side (webrtc.js l.301, webrtc-sendrecv.c l.692).
THEOREM IceAfterSdpHolds == Spec => []IceAfterSdp
  <1>1. Inv => IceAfterSdp
    <2> SUFFICES ASSUME Inv PROVE IceAfterSdp
      OBVIOUS
    <2>1. /\ first["program"] = Head1("program") /\ first["page"] = Head1("page")
          /\ first["program"] # "nothing" => first["program"] \in kinds["program"]
      BY Boxes DEF Inv, Sides
    <2>2. PageReceives("ice") => page # "none"
      BY <2>1 DEF Inv, SafeInv, IceLast, PageReceives
    <2>3. Receives("ice") => bin \in {"answering", "connected"}
      BY <2>1 DEF Inv, SafeInv, IceLast, Waits, Stage, Before, Only, Receives, Alive, TypeOK
    <2> QED
      BY <2>2, <2>3 DEF IceAfterSdp
  <1> QED
    BY <1>1, Invariance, PTL

\* Whichever side offers, and whenever connections are dropped or the program
\* fails, the two negotiate as Handshake says: an SDP is taken up only while
\* the other side stands for it (l.663; webrtc.js l.78).
THEOREM HandshakeRefined == Spec => HandshakeSpec
  <1>1. Init => Negotiation!Init
    BY DEF Init, Negotiation!Init, Ends
  <1>2. JointInv /\ [Next]_vars => [Negotiation!Next]_<<IF session THEN Sides ELSE {}, Ends>>
    BY HandshakeStep
  <1> QED
    BY <1>1, <1>2, JointInvariance, PTL DEF Spec, HandshakeSpec, Negotiation!Spec

\* Before both ends are up, and unless the page has stalled, the main loop,
\* webrtcbin or the page has something to do: a request, an offer or an answer
\* that is waited for is on its way.
THEOREM NobodyWaitsHolds == Spec => []NobodyWaits
  <1>1. JointInv => NobodyWaits
    <2> SUFFICES ASSUME JointInv, session, ~stalled, ~ToDo
                 PROVE  bin = "connected" /\ page = "connected"
      BY DEF NobodyWaits
    <2>1. /\ Inv /\ kinds["program"] = {} /\ kinds["page"] = {} /\ Sides = {"program", "page"}
          /\ first["program"] = "nothing" /\ first["page"] = "nothing"
      BY Boxes DEF JointInv, Inv, ToDo, Sides
    <2>2. life = "running" /\ Alive
      BY <2>1 DEF Inv, SafeInv, Stage, Alive, ToDo
    <2>3. ws = "open"
      BY <2>1, <2>2 DEF JointInv, Joint, Inv, SafeInv, Phase, Connected
    <2>4. bin \in {"requested", "offered", "connected"}
      BY <2>1, <2>2 DEF JointInv, Joint, Inv, TypeOK, ToDo
    <2>5. page # "none"
      BY <2>1, <2>2, <2>3, <2>4 DEF Inv, SafeInv, IceLast, Waits
    <2>6. bin \in {"requested", "offered"} => page \notin {"offered", "connected"}
      BY <2>1, <2>2, <2>4 DEF Inv, SafeInv, IceLast, Waits
    <2>7. bin = "connected" => page # "offered"
      BY <2>1, <2>3 DEF JointInv, Joint
    <2> QED
      BY <2>1, <2>4, <2>5, <2>6, <2>7 DEF Inv, TypeOK, ToDo
  <1> QED
    BY <1>1, JointInvariance, PTL
=============================================================================
