----------------------------- MODULE CallClient -----------------------------
(***************************************************************************)
(* A call between src/sendrecv/gst/webrtc-sendrecv.c and the page of       *)
(* src/sendrecv/js/webrtc.js, through a session of the signalling server.  *)
(*                                                                         *)
(* The program's main loop handles the messages of the server; webrtcbin's *)
(* thread runs the callbacks.  Both write app_state and both may end the   *)
(* program, without a lock.  The page is single threaded, and waits for    *)
(* promises between an SDP and its own.  Either side may be the offerer.   *)
(* The program sends HELLO and SESSION once; the page reconnects after a   *)
(* call, under another id, which the program no longer sees.               *)
(***************************************************************************)
EXTENDS Naturals, Sequences, FiniteSets

CONSTANTS
  MaxIce,   \* bound: candidates each side gathers
  MaxDrops  \* bound: connections closed by the server or the network

ASSUME BoundsAssumption == MaxIce \in Nat /\ MaxDrops \in Nat

\* enum AppState: the values another step can find in app_state.
ERROR == 1
SERVER_CONNECTING == 1000
SERVER_CONNECTION_ERROR == 1001
SERVER_CONNECTED == 1002
SERVER_REGISTERING == 2000
SERVER_REGISTRATION_ERROR == 2001
SERVER_CLOSED == 2003
PEER_CONNECTING == 3000
PEER_CONNECTION_ERROR == 3001
PEER_CONNECTED == 3002
PEER_CALL_NEGOTIATING == 4000
PEER_CALL_STARTED == 4001
PEER_CALL_ERROR == 4004

AppStates ==
  {ERROR, SERVER_CONNECTING, SERVER_CONNECTION_ERROR, SERVER_CONNECTED,
   SERVER_REGISTERING, SERVER_REGISTRATION_ERROR, SERVER_CLOSED,
   PEER_CONNECTING, PEER_CONNECTION_ERROR, PEER_CONNECTED,
   PEER_CALL_NEGOTIATING, PEER_CALL_STARTED, PEER_CALL_ERROR}

Sides == {"program", "page"}

VARIABLES
  remote_is_offerer, \* the command line option
  app,     \* app_state
  life,    \* "running", "quitting" (main loop over), "ended" or "aborted"
  ws,      \* ws_conn: "none", "open", "closing" or "freed"
  bin,     \* what webrtc1 has done so far
  channels, \* data channels not closed yet: one is made by each side
  page,    \* what the page's peer_connection has done so far
  stalled, \* it will go no further: a promise was rejected, or never settles
  ice,     \* ice[s]: candidates a side has still to announce
  inbox,   \* inbox[s]: messages from the server, in order
  online,  \* server: the sides that are registered
  session, \* server: the two are in a session
  drops    \* connections closed so far

program == <<app, life, ws, bin>>
service == <<inbox, online, session>>
vars    == <<remote_is_offerer, stalled, channels, program, page, ice, service, drops>>

Kinds == {"hello", "session_ok", "error", "request", "offer", "answer", "ice", "closed"}

TypeOK ==
  /\ remote_is_offerer \in BOOLEAN
  /\ app \in AppStates
  /\ life \in {"running", "quitting", "ended", "aborted"}
  /\ ws \in {"none", "open", "closing", "freed"}
  /\ bin \in {"none", "new", "creating", "offered", "requested", "answering", "connected"}
  /\ channels \in 0..2
  /\ page \in {"none", "requested", "called", "offered", "connected"}
  /\ stalled \in BOOLEAN
  /\ ice \in [Sides -> 0..MaxIce]
  /\ inbox \in [Sides -> Seq(Kinds)]
  /\ online \subseteq Sides
  /\ session \in BOOLEAN
  /\ drops \in 0..MaxDrops

Init ==
  /\ remote_is_offerer \in BOOLEAN
  /\ app = SERVER_CONNECTING
  /\ life = "running"
  /\ ws = "none"
  /\ bin = "none"
  /\ channels = 2
  /\ page = "none"
  /\ stalled = FALSE
  /\ ice = [s \in Sides |-> MaxIce]
  /\ inbox = [s \in Sides |-> <<>>]
  /\ online = {"page"}
  /\ session = FALSE
  /\ drops = 0

-----------------------------------------------------------------------------
(* The server.  Each operator gives the inboxes after box.                 *)

Put(box, s, kind) == [box EXCEPT ![s] = Append(@, kind)]

\* A message is relayed within a session, ignored before, lost afterwards.
Relay(box, s, kind) ==
  IF session THEN Put(box, CHOOSE t \in Sides : t # s, kind) ELSE box

\* A connection is over, and with it the other one of a session.
EndedAlone(s) == {s}
Ended(s) == IF session THEN Sides ELSE {s}
HangUp(box, s) ==
  /\ inbox' = [t \in Sides |->
                IF t \in online \cap Ended(s) THEN Append(box[t], "closed") ELSE box[t]]
  /\ online' = online \ Ended(s)
  /\ session' = FALSE

Drop(s) ==
  /\ drops < MaxDrops /\ s \in online
  /\ drops' = drops + 1
  /\ HangUp(inbox, s)
  /\ UNCHANGED <<remote_is_offerer, stalled, channels, program, page, ice>>

-----------------------------------------------------------------------------
(* How the program ends.                                                   *)

\* The process is over: the kernel closes its socket.
Exit(how) ==
  /\ life' = how
  /\ app' = SERVER_CONNECTING
  /\ ws' = "none"
  /\ bin' = "none"
  /\ HangUp([inbox EXCEPT !["program"] = <<>>], "program")

\* The program may have noticed that the other end has closed the connection.
ClosedAlready == IF "program" \in online THEN {} ELSE {"freed"}

StateAfterAlways(state) == state
StateAfter(state) == IF state > 0 THEN state ELSE app

\* cleanup_and_quit_loop: an open connection is closed, any other unreferenced,
\* and one that was unreferenced before is no longer memory of the program.
\* What the server has sent will not be read.  state 0 leaves app_state alone.
QuitLoop(state) ==
  IF ws = "freed"
  THEN Exit("aborted")
  ELSE /\ app' = StateAfter(state)
       /\ life' = "quitting"
       /\ ws' \in IF ws = "none" THEN {"none"}
                  ELSE IF ws = "open" THEN {"closing"} \cup ClosedAlready
                  ELSE {"freed"}
       /\ UNCHANGED <<bin, service>>

\* main() stops the pipeline, with it the callbacks, and returns.
Stop ==
  /\ life = "quitting"
  /\ Exit("ended")
  /\ UNCHANGED <<remote_is_offerer, stalled, channels, page, ice, drops>>

\* The states of the switch on ERROR.
ErrorState ==
  IF app = SERVER_CONNECTING THEN SERVER_CONNECTION_ERROR
  ELSE IF app = SERVER_REGISTERING THEN SERVER_REGISTRATION_ERROR
  ELSE IF app = PEER_CONNECTING THEN PEER_CONNECTION_ERROR
  ELSE IF app \in {PEER_CONNECTED, PEER_CALL_NEGOTIATING} THEN PEER_CALL_ERROR
  ELSE ERROR

-----------------------------------------------------------------------------
(* The main loop, on_server_connected and on_server_message.               *)

Head1(s) == IF inbox[s] = <<>> THEN "nothing" ELSE Head(inbox[s])
Receives(kind) == life = "running" /\ Head1("program") = kind
Rest(s) == [inbox EXCEPT ![s] = Tail(@)]

ServerConnected ==
  /\ life = "running" /\ app = SERVER_CONNECTING
  /\ ws' = "open"
  /\ \/ /\ app' = SERVER_REGISTERING
        /\ online' = online \cup {"program"}
        /\ inbox' = Put(inbox, "program", "hello")
        /\ UNCHANGED drops
     \/ /\ drops < MaxDrops   \* closed before HELLO was sent
        /\ drops' = drops + 1
        /\ app' = SERVER_CONNECTED
        /\ inbox' = Put(inbox, "program", "closed")
        /\ UNCHANGED online
  /\ UNCHANGED <<remote_is_offerer, stalled, channels, life, bin, page, ice, session>>

ConnectFails ==
  /\ life = "running" /\ app = SERVER_CONNECTING
  /\ QuitLoop(SERVER_CONNECTION_ERROR)
  /\ UNCHANGED <<remote_is_offerer, stalled, channels, page, ice, drops>>

\* HELLO: the peer is asked for, if the socket is still open.
SetupCall ==
  /\ Receives("hello")
  /\ IF app # SERVER_REGISTERING
     THEN QuitLoop(ERROR)
     ELSE \/ /\ app' = PEER_CONNECTING
             /\ session' = (online = Sides)
             /\ inbox' = IF online = Sides THEN Put(Rest("program"), "program", "session_ok")
                           ELSE IF online = {"program"} THEN Put(Rest("program"), "program", "error")
                           ELSE Rest("program")
             /\ UNCHANGED <<life, ws, bin, online>>
          \/ /\ "program" \notin online
             /\ QuitLoop(PEER_CALL_ERROR)
  /\ UNCHANGED <<remote_is_offerer, stalled, channels, page, ice, drops>>

\* SESSION_OK: the pipeline starts, or fails to.
StartPipeline ==
  /\ Receives("session_ok")
  /\ IF app # PEER_CONNECTING
     THEN QuitLoop(PEER_CONNECTION_ERROR)
     ELSE \/ /\ app' = PEER_CONNECTED
             /\ bin' = "new"
             /\ inbox' = Rest("program")
             /\ UNCHANGED <<life, ws, online, session>>
          \/ QuitLoop(PEER_CALL_ERROR)
  /\ UNCHANGED <<remote_is_offerer, stalled, channels, page, ice, drops>>

\* An SDP aborts the program in any other state than NEGOTIATING.
SdpAnswer ==
  /\ Receives("answer")
  /\ IF app = PEER_CALL_NEGOTIATING
     THEN /\ app' = PEER_CALL_STARTED
          /\ bin' = "connected"
          /\ inbox' = Rest("program")
          /\ UNCHANGED <<life, ws, online, session>>
     ELSE Exit("aborted")
  /\ UNCHANGED <<remote_is_offerer, stalled, channels, page, ice, drops>>

SdpOffer ==
  /\ Receives("offer")
  /\ IF app = PEER_CALL_NEGOTIATING
     THEN /\ bin' = "answering"
          /\ inbox' = Rest("program")
          /\ UNCHANGED <<app, life, ws, online, session>>
     ELSE Exit("aborted")
  /\ UNCHANGED <<remote_is_offerer, stalled, channels, page, ice, drops>>

AddIceCandidate ==
  /\ Receives("ice")
  /\ IF bin # "none"
     THEN inbox' = Rest("program") /\ UNCHANGED <<program, online, session>>
     ELSE Exit("aborted")
  /\ UNCHANGED <<remote_is_offerer, stalled, channels, page, ice, drops>>

ServerError ==
  /\ Receives("error")
  /\ QuitLoop(ErrorState)
  /\ UNCHANGED <<remote_is_offerer, stalled, channels, page, ice, drops>>

\* The connection is closed, so that QuitLoop drops the reference to it.
ServerClosed ==
  /\ Receives("closed")
  /\ app' = SERVER_CLOSED
  /\ life' = "quitting"
  /\ ws' = "freed"
  /\ UNCHANGED <<remote_is_offerer, stalled, channels, bin, page, ice, service, drops>>

MainLoop ==
  \/ ServerConnected \/ ConnectFails
  \/ SetupCall \/ StartPipeline
  \/ SdpAnswer \/ SdpOffer \/ AddIceCandidate
  \/ ServerError \/ ServerClosed

-----------------------------------------------------------------------------
(* The thread of webrtcbin, which runs until main() stops the pipeline.    *)

Alive == life \in {"running", "quitting"}

\* What is sent on a connection that is not open is lost.
Send(kind) == inbox' = IF ws = "open" THEN Relay(inbox, "program", kind) ELSE inbox

NegotiationNeededUnset ==
  /\ Alive /\ bin = "new"
  /\ IF remote_is_offerer
     THEN bin' = "requested" /\ Send("request") /\ UNCHANGED app
     ELSE bin' = "creating" /\ app' = PEER_CALL_NEGOTIATING /\ UNCHANGED inbox
  /\ UNCHANGED <<remote_is_offerer, stalled, channels, life, ws, page, ice, online, session, drops>>

NegotiationNeededTwice ==
  /\ Alive /\ bin = "new"
  /\ app' = PEER_CALL_NEGOTIATING
  /\ bin' = "creating"
  /\ IF remote_is_offerer THEN Send("request") ELSE UNCHANGED inbox
  /\ UNCHANGED <<remote_is_offerer, stalled, channels, life, ws, page, ice, online, session, drops>>

NegotiationNeeded ==
  /\ Alive /\ bin = "new"
  /\ app' = PEER_CALL_NEGOTIATING
  /\ IF remote_is_offerer
     THEN bin' = "requested" /\ Send("request")
     ELSE bin' = "creating" /\ UNCHANGED inbox
  /\ UNCHANGED <<remote_is_offerer, stalled, channels, life, ws, page, ice, online, session, drops>>

\* on_offer_created and on_answer_created: the local description is set, whose
\* candidates follow it, and sent.
SdpCreated(stage, kind, next) ==
  /\ Alive /\ bin = stage
  /\ IF app = PEER_CALL_NEGOTIATING /\ ws # "freed"
     THEN /\ bin' = next
          /\ Send(kind)
          /\ UNCHANGED <<app, life, ws, online, session>>
     ELSE Exit("aborted")
  /\ UNCHANGED <<remote_is_offerer, stalled, channels, page, ice, drops>>

OfferCreated == SdpCreated("creating", "offer", "offered")
AnswerCreated == SdpCreated("answering", "answer", "connected")

GatheringEarly == {"creating", "offered", "answering", "connected"}
Gathering == {"offered", "connected"}

SendIceCandidate ==
  /\ Alive /\ bin \in Gathering /\ ice["program"] > 0
  /\ ice' = [ice EXCEPT !["program"] = @ - 1]
  /\ IF app < PEER_CALL_NEGOTIATING
     THEN QuitLoop(ERROR)
     ELSE IF ws = "freed"
          THEN Exit("aborted")
          ELSE Send("ice") /\ UNCHANGED <<program, online, session>>
  /\ UNCHANGED <<remote_is_offerer, stalled, channels, page, drops>>

\* The page's end of the data channels is closed with its peer_connection.
DataChannelClosed ==
  /\ Alive /\ bin = "connected" /\ page = "none" /\ channels > 0
  /\ channels' = channels - 1
  /\ QuitLoop(0)
  /\ UNCHANGED <<remote_is_offerer, stalled, page, ice, drops>>

Callback ==
  \/ NegotiationNeeded \/ OfferCreated \/ AnswerCreated
  \/ SendIceCandidate \/ DataChannelClosed

-----------------------------------------------------------------------------
(* The page.                                                               *)

PageReceives(kind) == Head1("page") = kind
PageSends(box, kind) == IF "page" \in online THEN Relay(box, "page", kind) ELSE box

PageRequestedIgnored ==
  /\ PageReceives("request")
  /\ inbox' = Rest("page")
  /\ UNCHANGED <<remote_is_offerer, stalled, channels, program, page, ice, online, session, drops>>

\* onServerMessage: OFFER_REQUEST creates a call unless there is one.
PageRequested ==
  /\ PageReceives("request")
  /\ page' = IF page = "none" THEN "requested" ELSE page
  /\ inbox' = Rest("page")
  /\ UNCHANGED <<remote_is_offerer, stalled, channels, program, ice, online, session, drops>>

\* JSON creates a call if there is none.  Nothing but an SDP should.  An answer
\* may be refused (l.89): the page stays with the offer it has made.
PageSdp ==
  /\ \/ PageReceives("offer") /\ page' = "called" /\ UNCHANGED stalled
     \/ PageReceives("answer") /\ page' = "connected" /\ UNCHANGED stalled
     \/ PageReceives("answer") /\ stalled' = TRUE /\ UNCHANGED page
  /\ inbox' = Rest("page")
  /\ UNCHANGED <<remote_is_offerer, channels, program, ice, online, session, drops>>

PageIce ==
  /\ PageReceives("ice")
  /\ page' = IF page = "none" THEN "called" ELSE page
  /\ inbox' = Rest("page")
  /\ UNCHANGED <<remote_is_offerer, stalled, channels, program, ice, online, session, drops>>

\* createCall has thrown, a description was refused (setError, l.87-89, l.103), or
\* the user never answers the request for the camera: the page says nothing of
\* it and stays in the session, with a peer_connection that is never described.
PageStalls ==
  /\ page \in {"requested", "called"} /\ ~stalled
  /\ stalled' = TRUE
  /\ UNCHANGED <<remote_is_offerer, channels, program, page, ice, service, drops>>

\* The local stream is there, or was denied, and the description: it is sent.
PageDescribes ==
  /\ page \in {"requested", "called"} /\ ~stalled
  /\ \/ page = "requested" /\ page' = "offered" /\ inbox' = PageSends(inbox, "offer")
     \/ page = "called" /\ page' = "connected" /\ inbox' = PageSends(inbox, "answer")
  /\ UNCHANGED <<remote_is_offerer, stalled, channels, program, ice, online, session, drops>>

PageCandidate ==
  /\ page \in {"offered", "connected"} /\ ice["page"] > 0
  /\ ice' = [ice EXCEPT !["page"] = @ - 1]
  /\ inbox' = PageSends(inbox, "ice")
  /\ UNCHANGED <<remote_is_offerer, stalled, channels, program, page, online, session, drops>>

\* onServerClose
PageClosed ==
  /\ PageReceives("closed")
  /\ page' = "none"
  /\ stalled' = FALSE
  /\ inbox' = Rest("page")
  /\ UNCHANGED <<remote_is_offerer, channels, program, ice, online, session, drops>>

Page ==
  \/ PageRequested \/ PageSdp \/ PageIce
  \/ PageStalls \/ PageDescribes \/ PageCandidate \/ PageClosed

Next == (\E s \in Sides : Drop(s)) \/ Stop \/ MainLoop \/ Callback \/ Page

Spec == Init /\ [][Next]_vars

\* The threads of the program are scheduled, main() returns from its loop, and
\* the page's event loop turns.  A promise of the page that settles, whether or
\* not its user has answered, does so in the end; one that does not has stalled.
Fairness == WF_vars(MainLoop) /\ WF_vars(Callback) /\ WF_vars(Stop) /\ WF_vars(Page)

FairSpec == Spec /\ Fairness

-----------------------------------------------------------------------------
(* Properties                                                              *)

\* Whenever app_state is asserted it is what the assertion says, whichever
\* thread has written it last and whoever offers: l.264 and l.501 by webrtcbin's
\* thread, l.640 by the main loop; and HELLO and SESSION_OK arrive in the state
\* that expects them (l.569, l.583).
StateExpected ==
  life = "running" =>
    /\ bin \in {"creating", "answering"} => app = PEER_CALL_NEGOTIATING
    /\ Receives("offer") \/ Receives("answer") => app = PEER_CALL_NEGOTIATING
    /\ Receives("hello") => app = SERVER_REGISTERING
    /\ Receives("session_ok") => app = PEER_CONNECTING

\* Candidates never overtake the description they belong to: the page's first
\* JSON is an SDP (webrtc.js l.301 warns otherwise), and the program has a
\* pipeline, and in it the page's description, to add a candidate to (l.692).
IceAfterSdp ==
  /\ PageReceives("ice") => page # "none"
  /\ Receives("ice") => bin \in {"answering", "connected"}

\* A session becomes a call that both ends have negotiated, or is over, unless
\* the page has stalled: then the program waits in the session, as nobody tells
\* it.  Nothing else makes one wait for what the other will not send.
SessionConnects ==
  session ~> (bin = "connected" /\ page = "connected") \/ ~session \/ stalled

\* What SessionConnects rests on: until both ends are up, somebody has a message
\* to handle, a description to make or a program to end, or the page has stalled.
\* Two that go on never wait for each other, whoever is to offer and whatever
\* one of them has not seen yet.
ToDo ==
  \/ inbox["program"] # <<>> \/ bin \in {"new", "creating", "answering"} \/ life = "quitting"
  \/ inbox["page"] # <<>> \/ (page \in {"requested", "called"} /\ ~stalled)
NobodyWaits ==
  session /\ ~stalled /\ ~(bin = "connected" /\ page = "connected") => ToDo

\* When one of the two is gone the other does not stay in the call.
NoHalfCall ==
  /\ life \in {"ended", "aborted"} ~> page = "none"
  /\ page = "connected" /\ "page" \notin online ~> life \in {"ended", "aborted"}

\* The two ends of the call while the session lasts.  An answer counts as soon
\* as it is sent; a request for an offer is not an offer.
ProgramEnd ==
  IF bin = "offered" THEN "calling"
  ELSE IF bin = "answering" THEN "called"
  ELSE IF bin = "connected" THEN "up"
  ELSE "idle"
PageEnd ==
  IF page = "offered" THEN "calling"
  ELSE IF page = "called" THEN "called"
  ELSE IF page = "connected" THEN "up"
  ELSE "idle"

Ends == [s \in Sides |-> [t \in Sides |->
          IF ~session \/ s = t THEN "idle"
          ELSE IF s = "program" THEN ProgramEnd ELSE PageEnd]]

\* Program and page negotiate as Handshake says, whichever is the offerer: one
\* offers, and what each takes up is what the other stands for at that moment
\* (webrtc-sendrecv.c l.663; webrtc.js l.78), until the session ends for both.
Negotiation == INSTANCE Handshake WITH
  Parties <- Sides, members <- IF session THEN Sides ELSE {}, end <- Ends
HandshakeSpec == Negotiation!Spec
=============================================================================
