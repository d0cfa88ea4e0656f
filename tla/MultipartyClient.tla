-------------------------- MODULE MultipartyClient --------------------------
(***************************************************************************)
(* The members of a room that run                                          *)
(* src/multiparty-sendrecv/gst/mp-webrtc-sendrecv.c.  Each has one         *)
(* webrtcbin for each other member and one app_state for all of them.      *)
(* Its main loop handles the messages of the server one at a time; the     *)
(* callbacks of a webrtcbin run on the thread of that webrtcbin.  Nothing  *)
(* is locked, so an action is what one thread does between two accesses to *)
(* app_state that another thread can tell apart.                           *)
(*                                                                         *)
(* The signalling server is the room service of simple_server.py with      *)
(* handlers that do not suspend: a message is handled when it is sent, and *)
(* waits in the inbox of the client it is for.                             *)
(***************************************************************************)
EXTENDS Naturals, Sequences, FiniteSets

CONSTANTS
  Clients,   \* the programs, and their ids at the server
  Gatherers, \* the programs whose webrtcbins gather candidates
  MaxIce,    \* bound: candidates the webrtcbins of one program gather
  Unstable,  \* the programs that may fail to connect or to start the
             \* pipeline, or whose connection may be closed
  MaxDrops,  \* bound: connections closed in this way
  None

ASSUME ClientsAssumption ==
  /\ Gatherers \subseteq Clients /\ MaxIce \in Nat
  /\ Unstable \subseteq Clients /\ MaxDrops \in Nat
  /\ None \notin Clients

\* enum AppState: the values another step can find in app_state.
ERROR == 1
SERVER_CONNECTING == 1000
SERVER_CONNECTION_ERROR == 1001
SERVER_CONNECTED == 1002
SERVER_REGISTERING == 2000
SERVER_REGISTRATION_ERROR == 2001
SERVER_CLOSED == 2003
ROOM_JOINING == 3000
ROOM_JOIN_ERROR == 3001
ROOM_JOINED == 3002
ROOM_CALL_OFFERING == 4001
ROOM_CALL_ANSWERING == 4002
ROOM_CALL_STARTED == 4003
ROOM_CALL_ERROR == 4006

AppStates ==
  {ERROR, SERVER_CONNECTING, SERVER_CONNECTION_ERROR, SERVER_CONNECTED,
   SERVER_REGISTERING, SERVER_REGISTRATION_ERROR, SERVER_CLOSED,
   ROOM_JOINING, ROOM_JOIN_ERROR, ROOM_JOINED, ROOM_CALL_OFFERING,
   ROOM_CALL_ANSWERING, ROOM_CALL_STARTED, ROOM_CALL_ERROR}

VARIABLES
  app,     \* app[c]: app_state
  life,    \* "running", "quitting" (main loop over), "ended" or "aborted"
  peers,   \* peers[c]: the list of members of the room
  bin,     \* bin[c][p]: what the webrtcbin for p has done so far
  ice,     \* ice[c]: candidates its webrtcbins have still to announce
  busy,    \* busy[c]: whose offer the main loop is handling (l.726-728)
  inbox,   \* inbox[c]: messages from the server, in order
  online,  \* server: connections that are registered
  room,    \* server: members of the room
  drops    \* connections closed so far

client  == <<app, life, peers, bin, ice, busy>>
service == <<inbox, online, room>>
vars    == <<client, service, drops>>

\* A webrtcbin that offers goes from "new" to "creating" (the offer) and
\* "offered"; one that answers from "called" to "answering" and "answered".
Stages == {"none", "new", "creating", "offered",
           "called", "answering", "answered", "connected"}

Kinds == {"hello", "room_ok", "joined", "left", "offer", "answer", "ice",
          "error", "closed"}
Message == [kind : Kinds, from : Clients \cup {None}, members : SUBSET Clients]
Msg(kind, from) == [kind |-> kind, from |-> from, members |-> {}]
RoomOk(members) == [kind |-> "room_ok", from |-> None, members |-> members]

TypeOK ==
  /\ app \in [Clients -> AppStates]
  /\ life \in [Clients -> {"running", "quitting", "ended", "aborted"}]
  /\ peers \in [Clients -> SUBSET Clients]
  /\ bin \in [Clients -> [Clients -> Stages]]
  /\ ice \in [Clients -> 0..MaxIce]
  /\ busy \in [Clients -> Clients \cup {None}]
  /\ inbox \in [Clients -> Seq(Message)]
  /\ online \subseteq Clients
  /\ room \subseteq Clients
  /\ drops \in 0..MaxDrops

NoBins == [p \in Clients |-> "none"]
AllIce(c) == IF c \in Gatherers THEN MaxIce ELSE 0

Init ==
  /\ app = [c \in Clients |-> SERVER_CONNECTING]
  /\ life = [c \in Clients |-> "running"]
  /\ peers = [c \in Clients |-> {}]
  /\ bin = [c \in Clients |-> NoBins]
  /\ ice = [c \in Clients |-> AllIce(c)]
  /\ busy = [c \in Clients |-> None]
  /\ inbox = [c \in Clients |-> <<>>]
  /\ online = {}
  /\ room = {}
  /\ drops = 0

-----------------------------------------------------------------------------
(* The server.  Each operator gives the inboxes after box.                 *)

Put(box, c, m) == [box EXCEPT ![c] = Append(@, m)]
PutAll(box, S, m) == [c \in Clients |-> IF c \in S THEN Append(box[c], m) ELSE box[c]]

\* ROOM_PEER_MSG: relayed to a member, refused for anyone else.
Relay(box, c, p, kind) ==
  IF c \notin online THEN box
  ELSE IF p \in room THEN Put(box, p, Msg(kind, c))
  ELSE Put(box, c, Msg("error", None))

\* ROOM: the members are listed to the newcomer, who is announced to them.
EnterRoom(box, c) ==
  IF c \in online
  THEN /\ room' = room \cup {c}
       /\ inbox' = Put(PutAll(box, room, Msg("joined", c)), c, RoomOk(room))
  ELSE /\ inbox' = box
       /\ UNCHANGED room

\* The connection is over: the others are told that a member has left.
Gone(box, c) ==
  /\ online' = online \ {c}
  /\ room' = room \ {c}
  /\ inbox' = IF c \in room THEN PutAll(box, room \ {c}, Msg("left", c)) ELSE box

Drop(c) ==
  /\ drops < MaxDrops
  /\ c \in online \cap Unstable
  /\ drops' = drops + 1
  /\ Gone(Put(inbox, c, Msg("closed", None)), c)
  /\ UNCHANGED client

-----------------------------------------------------------------------------
(* How a client ends.                                                      *)

Unread(box, c) == [box EXCEPT ![c] = <<>>]

\* cleanup_and_quit_loop: the websocket is closed and main() returns from
\* the loop; callbacks of the pipeline may run until it has been stopped.
Quit(c, state) ==
  /\ app' = [app EXCEPT ![c] = state]
  /\ life' = [life EXCEPT ![c] = "quitting"]
  /\ Gone(Unread(inbox, c), c)

\* The process is over and its memory gone.
Exit(c, how) ==
  /\ life' = [life EXCEPT ![c] = how]
  /\ app' = [app EXCEPT ![c] = SERVER_CONNECTING]
  /\ peers' = [peers EXCEPT ![c] = {}]
  /\ bin' = [bin EXCEPT ![c] = NoBins]
  /\ ice' = [ice EXCEPT ![c] = AllIce(c)]
  /\ busy' = [busy EXCEPT ![c] = None]

\* main() sets the pipeline to NULL, which stops the webrtcbins.
Stop(c) ==
  /\ life[c] = "quitting"
  /\ Exit(c, "ended")
  /\ UNCHANGED <<service, drops>>

\* A failed assertion, or a NULL pointer followed: the kernel closes the socket.
Abort(c) ==
  /\ Exit(c, "aborted")
  /\ Gone(Unread(inbox, c), c)

\* handle_error_message
ErrorState(state) ==
  IF state = SERVER_CONNECTING THEN SERVER_CONNECTION_ERROR
  ELSE IF state = SERVER_REGISTERING THEN SERVER_REGISTRATION_ERROR
  ELSE IF state = ROOM_JOINING THEN ROOM_JOIN_ERROR
  ELSE IF state \in ROOM_JOINED..ROOM_CALL_ERROR THEN ROOM_CALL_ERROR
  ELSE ERROR

-----------------------------------------------------------------------------
(* The main loop, on_server_connected and on_server_message.               *)

Idle(c) == life[c] = "running" /\ busy[c] = None
Receives(c, kind) == Idle(c) /\ inbox[c] # <<>> /\ Head(inbox[c]).kind = kind
From(c) == Head(inbox[c]).from
Rest(c) == [inbox EXCEPT ![c] = Tail(@)]

\* find_peer_from_list and gst_bin_get_by_name find p.  A peer that has left
\* is in neither the list nor the pipeline; its webrtcbin was not stopped.
Listed(c, p) == p \in peers[c]
InPipeline(c, p) == p \in peers[c] /\ bin[c][p] # "none"

SetApp(c, state) == app' = [app EXCEPT ![c] = state]
SetBin(c, p, stage) == bin' = [bin EXCEPT ![c][p] = stage]

\* HELLO is sent, and answered, unless the socket has been closed already.
ServerConnected(c) ==
  /\ Idle(c) /\ app[c] = SERVER_CONNECTING
  /\ \/ /\ SetApp(c, SERVER_REGISTERING)
        /\ online' = online \cup {c}
        /\ inbox' = Put(inbox, c, Msg("hello", None))
        /\ UNCHANGED drops
     \/ /\ drops < MaxDrops /\ c \in Unstable
        /\ drops' = drops + 1
        /\ SetApp(c, SERVER_CONNECTED)
        /\ inbox' = Put(inbox, c, Msg("closed", None))
        /\ UNCHANGED online
  /\ UNCHANGED <<life, peers, bin, ice, busy, room>>

ConnectFails(c) ==
  /\ Idle(c) /\ app[c] = SERVER_CONNECTING /\ c \in Unstable
  /\ Quit(c, SERVER_CONNECTION_ERROR)
  /\ UNCHANGED <<peers, bin, ice, busy, drops>>

\* HELLO: the room is asked for, if the socket is still open.
DoRegistration(c) ==
  /\ Receives(c, "hello")
  /\ IF app[c] # SERVER_REGISTERING
     THEN Quit(c, ERROR)
     ELSE \/ /\ SetApp(c, ROOM_JOINING)
             /\ EnterRoom(Rest(c), c)
             /\ UNCHANGED <<life, online>>
          \/ /\ c \notin online
             /\ Quit(c, ROOM_CALL_ERROR)
  /\ UNCHANGED <<peers, bin, ice, busy, drops>>

\* ROOM_OK: every member is called and listed.  Each definition comes after a
\* variant that a plausible slip would leave.
StateOnJoinNegotiating(members) == IF members = {} THEN ROOM_JOINED ELSE 4000
StateOnJoin(members) == IF members = {} THEN ROOM_JOINED ELSE ROOM_CALL_OFFERING

CallButOne(bins, members) ==
  [p \in Clients |->
    IF p \in members /\ p # CHOOSE q \in members : TRUE THEN "new" ELSE bins[p]]
Call(bins, members) == [p \in Clients |-> IF p \in members THEN "new" ELSE bins[p]]

ListLast(list, members) == IF members = {} THEN list ELSE {CHOOSE p \in members : TRUE}
List(list, members) == list \cup members

DoJoinRoom(c) ==
  /\ Receives(c, "room_ok")
  /\ IF app[c] # ROOM_JOINING
     THEN Quit(c, ROOM_JOIN_ERROR) /\ UNCHANGED <<peers, bin>>
     ELSE /\ SetApp(c, StateOnJoin(Head(inbox[c]).members))
          /\ bin' = [bin EXCEPT ![c] = Call(@, Head(inbox[c]).members)]
          /\ peers' = [peers EXCEPT ![c] = List(@, Head(inbox[c]).members)]
          /\ inbox' = Rest(c)
          /\ UNCHANGED <<life, online, room>>
  /\ UNCHANGED <<ice, busy, drops>>

\* ROOM_OK, and the pipeline cannot be started.
PipelineFails(c) ==
  /\ Receives(c, "room_ok") /\ app[c] = ROOM_JOINING /\ c \in Unstable
  /\ Quit(c, ROOM_CALL_ERROR)
  /\ UNCHANGED <<peers, bin, ice, busy, drops>>

PeerJoinedCalls(c) ==
  /\ Receives(c, "joined")
  /\ peers' = [peers EXCEPT ![c] = @ \cup {From(c)}]
  /\ SetBin(c, From(c), "new")
  /\ inbox' = Rest(c)
  /\ UNCHANGED <<app, life, ice, busy, online, room, drops>>

\* ROOM_PEER_JOINED: the newcomer will call.
PeerJoined(c) ==
  /\ Receives(c, "joined")
  /\ peers' = [peers EXCEPT ![c] = @ \cup {From(c)}]
  /\ inbox' = Rest(c)
  /\ UNCHANGED <<app, life, bin, ice, busy, online, room, drops>>

\* ROOM_PEER_LEFT.  Here and below the search for an unlisted peer returns
\* NULL, which find_peer_from_list follows.
PeerLeft(c) ==
  /\ Receives(c, "left")
  /\ IF Listed(c, From(c))
     THEN /\ peers' = [peers EXCEPT ![c] = @ \ {From(c)}]
          /\ inbox' = Rest(c)
          /\ UNCHANGED <<app, life, bin, ice, busy, online, room>>
     ELSE Abort(c)
  /\ UNCHANGED drops

\* An offer: app_state is set and a webrtcbin added ...
PeerOffer(c) ==
  /\ Receives(c, "offer")
  /\ IF Listed(c, From(c)) /\ app[c] >= ROOM_JOINED
     THEN /\ SetApp(c, ROOM_CALL_ANSWERING)
          /\ SetBin(c, From(c), "called")
          /\ busy' = [busy EXCEPT ![c] = From(c)]
          /\ inbox' = Rest(c)
          /\ UNCHANGED <<life, peers, ice, online, room>>
     ELSE Abort(c)
  /\ UNCHANGED drops

\* ... and app_state asserted, before the answer is created.
HandleSdpOffer(c) ==
  /\ life[c] = "running" /\ busy[c] # None
  /\ IF app[c] = ROOM_CALL_ANSWERING
     THEN /\ SetBin(c, busy[c], "answering")
          /\ busy' = [busy EXCEPT ![c] = None]
          /\ UNCHANGED <<app, life, peers, ice, service>>
     ELSE Abort(c)
  /\ UNCHANGED drops

PeerAnswer(c) ==
  /\ Receives(c, "answer")
  /\ IF app[c] >= ROOM_CALL_OFFERING /\ InPipeline(c, From(c))
     THEN /\ SetApp(c, ROOM_CALL_STARTED)
          /\ SetBin(c, From(c), "connected")
          /\ inbox' = Rest(c)
          /\ UNCHANGED <<life, peers, ice, busy, online, room>>
     ELSE Abort(c)
  /\ UNCHANGED drops

PeerIce(c) ==
  /\ Receives(c, "ice")
  /\ IF InPipeline(c, From(c))
     THEN inbox' = Rest(c) /\ UNCHANGED <<client, online, room>>
     ELSE Abort(c)
  /\ UNCHANGED drops

HandleError(c) ==
  /\ Receives(c, "error")
  /\ Quit(c, ErrorState(app[c]))
  /\ UNCHANGED <<peers, bin, ice, busy, drops>>

ServerClosed(c) ==
  /\ Receives(c, "closed")
  /\ Quit(c, SERVER_CLOSED)
  /\ UNCHANGED <<peers, bin, ice, busy, drops>>

MainLoop(c) ==
  \/ ServerConnected(c) \/ ConnectFails(c)
  \/ DoRegistration(c) \/ DoJoinRoom(c) \/ PipelineFails(c)
  \/ PeerJoined(c) \/ PeerLeft(c)
  \/ PeerOffer(c) \/ HandleSdpOffer(c) \/ PeerAnswer(c) \/ PeerIce(c)
  \/ HandleError(c) \/ ServerClosed(c)

-----------------------------------------------------------------------------
(* The thread of the webrtcbin that c has for p.                           *)

Alive(c) == life[c] \in {"running", "quitting"}

NegotiationNeeded(c, p) ==
  /\ Alive(c) /\ bin[c][p] = "new"
  /\ SetApp(c, ROOM_CALL_OFFERING)
  /\ SetBin(c, p, "creating")
  /\ UNCHANGED <<life, peers, ice, busy, service, drops>>

\* The local description is set first: candidates follow the offer.
OfferCreated(c, p) ==
  /\ Alive(c) /\ bin[c][p] = "creating"
  /\ IF app[c] = ROOM_CALL_OFFERING /\ InPipeline(c, p)
     THEN /\ inbox' = Relay(inbox, c, p, "offer")
          /\ SetBin(c, p, "offered")
          /\ UNCHANGED <<app, life, peers, ice, busy, online, room>>
     ELSE Abort(c)
  /\ UNCHANGED drops

AnswerCreated(c, p) ==
  /\ Alive(c) /\ bin[c][p] = "answering"
  /\ IF app[c] = ROOM_CALL_ANSWERING /\ InPipeline(c, p)
     THEN /\ inbox' = Relay(inbox, c, p, "answer")
          /\ SetBin(c, p, "answered")
          /\ UNCHANGED <<app, life, peers, ice, busy, online, room>>
     ELSE Abort(c)
  /\ UNCHANGED drops

CallStarted(c, p) ==
  /\ Alive(c) /\ bin[c][p] = "answered"
  /\ SetApp(c, ROOM_CALL_STARTED)
  /\ SetBin(c, p, "connected")
  /\ UNCHANGED <<life, peers, ice, busy, service, drops>>

GatheringEarly == {"creating", "offered", "connected"}
Gathering == {"offered", "connected"}

SendIceCandidate(c, p) ==
  /\ Alive(c) /\ bin[c][p] \in Gathering /\ ice[c] > 0
  /\ ice' = [ice EXCEPT ![c] = @ - 1]
  /\ IF app[c] < ROOM_CALL_OFFERING
     THEN Quit(c, ERROR)
     ELSE /\ inbox' = Relay(inbox, c, p, "ice")
          /\ UNCHANGED <<app, life, online, room>>
  /\ UNCHANGED <<peers, bin, busy, drops>>

Callback(c, p) ==
  \/ NegotiationNeeded(c, p) \/ OfferCreated(c, p)
  \/ AnswerCreated(c, p) \/ CallStarted(c, p)
  \/ SendIceCandidate(c, p)

Callbacks(c) == \E p \in Clients \ {c} : Callback(c, p)

Next ==
  \E c \in Clients : Drop(c) \/ Stop(c) \/ MainLoop(c) \/ Callbacks(c)

Spec == Init /\ [][Next]_vars

\* The operating system runs the threads of a program: its main loop, and
\* some webrtcbin while any has a callback to make.
Fairness ==
  \A c \in Clients : WF_vars(MainLoop(c)) /\ WF_vars(Callbacks(c))

FairSpec == Spec /\ Fairness

-----------------------------------------------------------------------------
(* Properties                                                              *)

\* Whoever a message is about is in the list (l.74 follows the result of the
\* search), so neither a departure nor a message overtakes a ROOM_OK or JOINED.
SenderListed ==
  \A c \in Clients : \A kind \in {"left", "offer", "answer", "ice"} :
    Receives(c, kind) => Listed(c, From(c))

\* The newcomer calls and the members answer: an offer finds no webrtcbin of
\* its sender, whose name a second one would take (l.345), and an answer finds
\* the one that offered (l.678).
OneCaller ==
  \A c \in Clients :
    /\ Receives(c, "offer") => bin[c][From(c)] = "none"
    /\ Receives(c, "answer") => bin[c][From(c)] = "offered"

\* A candidate finds the webrtcbin of its sender (l.748).
CandidateFindsBin ==
  \A c \in Clients : Receives(c, "ice") => InPipeline(c, From(c))

\* app_state is what the assertions of on_offer_created (l.267),
\* handle_sdp_offer (l.622) and on_answer_created (l.591) say: these may run at
\* any time once they are due.
OfferState == \A c, p \in Clients :
  life[c] = "running" /\ bin[c][p] = "creating" => app[c] = ROOM_CALL_OFFERING
AnswerState == \A c, p \in Clients :
  life[c] = "running" /\ bin[c][p] \in {"called", "answering"} => app[c] = ROOM_CALL_ANSWERING
AssertionsHold == OfferState /\ AnswerState

\* Whoever fails, and whenever, those that stay in the room are all connected
\* to each other in the end: a failure does not leave two of the others
\* without their call (do_join_room calls each member, l.541).
MembersConnect ==
  []<>(\A c, p \in room : c # p => bin[c][p] = "connected")

\* What MembersConnect rests on: of two members that are not connected one has a
\* message to handle or a callback to make.  They never wait for each other, and
\* neither takes the other for connected while it is not even called.
ToDo(c, p) ==
  \/ inbox[c] # <<>> \/ busy[c] = p
  \/ bin[c][p] \in {"new", "creating", "answering", "answered"}
NobodyWaits ==
  \A c, p \in room : c # p /\ bin[c][p] # "connected" => ToDo(c, p) \/ ToDo(p, c)

\* What two members have come to as seen by one of them: an answer counts as
\* soon as it is sent.  Where the other is no member there is no call.
EndOf(stage) ==
  IF stage = "offered" THEN "calling"
  ELSE IF stage \in {"called", "answering"} THEN "called"
  ELSE IF stage \in {"answered", "connected"} THEN "up"
  ELSE "idle"

Ends == [c \in Clients |-> [p \in Clients |->
          IF c \in room /\ p \in room /\ c # p THEN EndOf(bin[c][p]) ELSE "idle"]]

\* Each two members negotiate as Handshake says, whoever else enters, leaves or
\* fails: they never offer to each other both, an offer is taken up while it
\* stands, and an answer settles the offer that it is for (l.541, l.606, l.667).
Negotiation == INSTANCE Handshake WITH
  Parties <- Clients, members <- room, end <- Ends
HandshakeSpec == Negotiation!Spec
=============================================================================
