# A verification project for gstwebrtc-demos

TLA+ models of the programs of this repository, TLC configurations that check
them on small instances, and theorems about them that TLAPS checks for all
values of the constants. All paths below are relative to the repository's root
as `src/`.

## 1. The system

The repository is a set of WebRTC demos: a signalling server, clients in
several languages that use it to set up calls between two peers or among the
members of a room, servers that only send or only receive, a client of the
Janus gateway, and a framework that validates calls between a GStreamer client
and a browser. Clients and server exchange text messages over websockets
(`src/signalling/Protocol.md`); media goes between the peers and is none of
this project's business.

| component | state | operations | hard parts |
|---|---|---|---|
| signalling server, `signalling/simple_server.py` | `peers`, `sessions`, `rooms`; the locals of one coroutine per connection | HELLO, SESSION, ROOM, relaying, ROOM_PEER_MSG, ROOM_PEER_LIST, cleanup, restart on a new certificate | coroutines interleave at every `await`; cleanup awaits other peers' sockets; exceptions leave it half done |
| multiparty client, `multiparty-sendrecv/gst/mp-webrtc-sendrecv.c` | `app_state`, `peers`, the pipeline | join a room, offer to the members, answer newcomers, ICE, peers leaving | one `app_state` for all peers, written by the main loop and by webrtcbin's threads |
| call client, `sendrecv/gst/webrtc-sendrecv.c` (also Python, Rust, Java, C#) | `app_state`, the pipeline | connect, register, call or be called, offer or answer, ICE | the same races for one peer; assertions on `app_state` |
| multiparty client, `multiparty-sendrecv/gst-rust/src/main.rs` | peers behind a mutex, the mixer | as in C | asynchronous removal, the layout of the mixer |
| browser client, `sendrecv/js/webrtc.js` | connection, attempts, peer connection | connect, reconnect, answer | two events schedule a reconnection each |
| Android client, `android/app/src/main/jni/webrtc.c` | `loop`, `thread`, lock and condition | call, end call, remote close | handshake of the Java thread with the call thread |
| `sendonly/*.c` | table of receivers | connection, offer, answer, close | an entry is freed while a promise still refers to it |
| `janus/janusvideoroom.py` | transactions | attach, join, publish, keepalive | answers matched by assertion; two loops |
| `check/validate/` | state histories, the signalling thread | wait for a state, send, stop | waiting across threads without a timeout |

The server is the centre: every client depends on what it promises. It promises
that a uid designates one peer at a time, that messages of a session go to the
partner and to nobody else, that a call ends on both sides, and that the members
of a room learn of each other.

## 2. Modules

| module | what it is |
|---|---|
| `SignallingServer` | the server, one action for each piece of code between two awaits |
| `PeerRegistry` | the abstract specification of uids: claimed by one open connection, released with its closing |
| `MCSignallingServer` | who connects under which uid and may ask for what, for TLC |
| `SignallingServerProofs`, `SignallingCallProofs`, `SignallingRoomProofs` | theorems about the server: its registry; calls; rooms |
| `MultipartyClient` | the members of a room that run `mp-webrtc-sendrecv.c`, and the room service they use |
| `MultipartyClientProofs`, `MultipartyCallProofs` | theorems about them: who is listed; who calls |
| `CallClient` | a call between `webrtc-sendrecv.c` and the page of `webrtc.js`, through a session of the server |
| `CallClientProofs` | theorems about it |
| `Handshake` | the abstract specification of two ends of a call: one offers, the other answers, whoever leaves takes its half along; `MultipartyClient` and `CallClient` implement it |
| `AndroidClient` | the calls of one WebRTC object of the Android client: activity, call threads, webrtcbin threads |
| `AndroidClientProofs` | theorems about it |
| `ReceiverTable` | the two stand-alone servers of `src/sendonly`: receiver entries, connections, callbacks |
| `PageLease` | the abstract specification of the table: what each page is promised; `ReceiverTable` implements it |
| `ReceiverTableProofs` | theorems about `ReceiverTable` |

### SignallingServer and the code

asyncio runs one coroutine at a time and switches only at an `await`, so a step
of the model is what a handler does from the completion of one await to the
next. `pc[c]` names the await the handler of connection `c` is suspended in:

| `pc` | await | lines of simple_server.py |
|---|---|---|
| `hello` | `ws.recv()` in `hello_peer` | 217 |
| `greet` | `ws.send('HELLO')` | 226 |
| `recv` | `recv_msg_ping` | 123 |
| `reply` | a relayed message, a room message or an error | 134, 141-160, 168, 188 |
| `session_ok` | `SESSION_OK` | 173 |
| `room_ok` | `ROOM_OK` | 198 |
| `joined` | `ROOM_PEER_JOINED`, in its loop | 208 |
| `closing` | `wso.close()` in `cleanup_session` | 90 |
| `left` | `ROOM_PEER_LEFT`, in its loop | 101 |
| `new`, `done` | before the connection and after the handler | |

- `peers`, `sessions`, `rooms` are the dictionaries. A missing key is `None`
  (`{}` for a room: the code never deletes a room). Remote addresses are left
  out.
- `roomId`, `callee`, `mine` are the Python locals that are used after an await:
  `room_id` (which the code reads at l.145 even when it was never set), `callee_id`
  and the `ws` of `remove_peer`. `snap` and `seen` are the state of a `for` over
  a set that changes while the loop is suspended: an iteration after the size
  has changed raises RuntimeError, as in CPython; a set whose size is the same
  again goes on, and an element that replaced another may or may not be visited,
  so it is a choice when the members not yet visited are all new ones.
- An exception is what the code does on it: anywhere in `connection_handler` it
  runs the `finally` of l.268, so `Quit` runs `remove_peer`; in `remove_peer`
  itself it ends the handler and leaves the rest undone (`Abandon`).
- A send is written when it is called and may suspend. `dest[c]` is the
  connection of the pending send. It completes (`Sent`) or raises (`Refused`)
  when the socket closes before it has drained: both may happen to a send whose
  socket has closed meanwhile. A send to a socket that was closed always raises.
- The final `await ws.close()` of l.110 and those of l.220 and l.223 end the
  handler without touching the state, and are merged with the step before them.
- Commands a client has sent are received even after its socket has closed
  (the websockets library buffers them), as long as it had any left.
- `known[c]` is history: what the client of `c` has been told of its room.
- `Stop` and `Restart` are the certificate check: all connections are closed,
  `wait_closed` waits for the handlers, and `run` is called again on the same
  object.

Clients are not trusted to follow the protocol. Which uids a client may call
and which rooms it may name are constants, so that one module gives instances
with calls only, with rooms only, with both, with or without reconnection.

`GreetSuspends` says whether the await of the HELLO reply may suspend: with the
websockets library it does when the write buffer is over its high-water mark or
the keepalive holds the lock. When it does, the test of l.222 and the
registration of l.119 are not atomic.

ROOM_PEER_LIST is modelled as what l.153 does: `peer_id` is no name of that
function, NameError ends the handler, and so the connection, although
Protocol.md:52 promises a list.

### MultipartyClient and the code

`mp-webrtc-sendrecv.c` keeps one `app_state` for the program and one webrtcbin
for each other member of the room. Messages of the server are handled on the main
loop, one at a time; the callbacks of a webrtcbin (`on_negotiation_needed`,
`on_offer_created`, `on_answer_created`, `send_ice_candidate_message`) run on the
thread of that webrtcbin. There is no lock. An action is what one thread does
between two accesses to `app_state` whose order with another thread's matters:

- handling an offer is two steps of the main loop: `PeerOffer` sets
  `app_state` and adds the webrtcbin (l.726-727), `HandleSdpOffer` asserts it
  (l.622) and asks for the answer; `busy` is between them;
- `on_answer_created` is two steps: `AnswerCreated` asserts (l.591) and sends,
  `CallStarted` sets `app_state` (l.610);
- handling an answer is one step: its assertions only ask for a value that
  never decreases below ROOM_CALL_OFFERING while the program runs.

`bin[c][p]` is how far the webrtcbin of `c` for `p` has come. A failed assertion,
and a search whose NULL result is followed (l.74), end the process (`Abort`);
`Quit` is `cleanup_and_quit_loop`, after which callbacks may still run until
`main` has stopped the pipeline (`Stop`). A peer that leaves is taken out of the
list and of the pipeline, but its webrtcbin is not stopped: its callbacks go on,
and their assertions fail because no element has the name. The freed string
that the callbacks hold is taken to name nobody, so that a message to it is
refused by the server.

The values SERVER_REGISTERED and SERVER_CONNECTED (on an open socket) are
overwritten before another step can see them; ROOM_CALL_NEGOTIATING, STOPPING and
STOPPED are never assigned.

The server is `Relay`, `EnterRoom` and `Gone`: the room commands of
`simple_server.py` with handlers that do not suspend, so that a message is
handled when it is sent and waits in the inbox of its receiver. What suspension
adds is the subject of `SignallingServer` (`doc_joined_guaranteed`): two members
one of which does not know the other are outside this model, and there a
`ROOM_PEER_LEFT` of an unknown peer follows the NULL pointer of l.74.

### CallClient and the code

`webrtc-sendrecv.c` has one call and one webrtcbin, which is why its `app_state`
suffices where that of the multiparty client does not. As there, the main loop
and webrtcbin's thread write it without a lock, and both may run
`cleanup_and_quit_loop` (`QuitLoop`), after which callbacks go on until `main` has
stopped the pipeline (`Stop`).

| variable | code |
|---|---|
| `app` | `app_state`; values that no other step can see are left out |
| `life` | whether `g_main_loop_run` is running, has returned, or the process is over |
| `ws` | `ws_conn`; "freed" after the unreference of l.78, or of the one in `on_server_closed` |
| `bin` | `webrtc1`: how far the negotiation has come |
| `channels` | the data channels whose closing has not yet been noticed |
| `page` | the page's `peer_connection` |
| `stalled` | whether the page will send no description: one of its promises was rejected, or never settles |
| `inbox` | messages under way from the server, to either side |

- The page is modelled as far as this call goes: OFFER_REQUEST, descriptions,
  candidates, the end. It is single threaded; between an event and the promise it
  waits for (`PageDescribes`) other messages are handled.
- The page reports its failures to its user and to nobody else (`setError`,
  webrtc.js l.87-89, l.103; `createCall` throws at l.294 without `getUserMedia`;
  the user may never answer the request for the camera): it keeps its
  `peer_connection` and the session, and never sends the description that is due.
  `PageStalls` is any of these, and an answer may be refused when it is read
  (`PageSdp`). The program is not told.
- The session of the server is one fact, `session`; a connection that ends ends
  the other side's too (`HangUp`), which is what `SignallingServer` shows
  (`LivePartner`). A connection may be dropped at any moment (`Drop`), also
  between the handshake and HELLO.
- A failed `g_assert`, and the use of a connection after it was freed, is
  `Exit("aborted")`. Cleaning up twice unreferences the connection twice; the
  model has that, and claims nothing of it.
- `on_negotiation_needed` is taken to be emitted once: the program adds its streams
  before it starts the pipeline.

### AndroidClient and the code

`android/app/src/main/jni/webrtc.c` is `webrtc-sendrecv.c` in a library. A call
runs on a thread and in a main loop of its own, several calls follow one another,
and the activity may end a call while it is being set up. A mutex and a
condition hand `webrtc->loop` over between `native_call_other_party`,
`native_end_call` and `_call_thread`; `cleanup_and_quit_loop` takes neither.

- `java` is where the activity's thread is: `create` and `ending` before, `cleaning`
  inside, `joining` after the part of `native_end_call` that holds the lock,
  `checking` and `waiting` in the loop of l.765. `after` is what follows the end of
  the call: nothing, the next call (`native_call_other_party` ends the one before),
  or `native_free`.
- `pc[t]` is where the thread of call `t` is. `loop`, `ws`, `pipe`, `thread` are the
  fields of the structure, named after the call they belong to.
- `clean[a]` is what thread `a` has left of `cleanup_and_quit_loop`: the test of
  the loop and its quitting (`CleanQuit`), the assignment of NULL (`CleanClear`), stopping
  the pipeline (`CleanStop`, which waits for the thread of its webrtcbin), dropping it
  (`CleanDrop`). Any other thread may run between these steps.
- `ws_conn` is never reset; after its unreference it dangles, and its next use is
  `Crash`. So is a failed assertion.
- A connection may be shut by the time the program uses it, before its handler is
  told: `register_with_server` (l.410) then does nothing and leaves `app_state` at
  SERVER_CONNECTED, `setup_call` (l.389) ends the call with PEER_CALL_ERROR. `conn[t]` is
  "shut" until `ServerClosed`, which may never come.
- `on_offer_created` is two steps, because other threads write `app_state` between its
  assertion (l.284, `OfferCreated`) and the test of `send_sdp_offer` (l.255, `SendSdpOffer`).
- A callback that meets a state without a call runs the cleanup on webrtcbin's
  own thread (`BinGivesUp`), which then waits for itself. There are two such tests, in
  `send_sdp_offer` (l.255) and in `send_ice_candidate_message` (l.232).
- `on_server_closed` for a connection the client closed itself is not an action:
  the loop of its call has been quit in the same function. The comment of l.97
  ("This will call us again") is thus not what happens.

### ReceiverTable and the code

`webrtc-unidirectional-h264.c` and `webrtc-recvonly-h264.c` are servers of their
own: a page that opens a websocket gets a `ReceiverEntry` with a pipeline. The
main loop accepts, reads and closes; callbacks run on the threads of the
pipelines, with a bare pointer to the entry.

- `at` and `main` are how far the main thread is in accepting or destroying an entry:
  in the table but still referenced by libsoup (`accepted`), out of the table
  (`closed`), pipeline stopped (`stopped`).
- `uses[c]` is the callback that is running with the entry of `c`. Stopping a
  pipeline waits for it (`DestroyStop`).
- `refs[c]` counts the references to the connection, which is also the key of the
  table: the address is used again only when it is 0.
- A pipeline that cannot start (l.208 ignores the result: the camera of l.181 is missing, or
  in use by the pipeline of another page) leaves an entry whose webrtcbin never has anything
  to offer: its stage is "mute".
- `Playing` says which of the two programs it is: with it the decoded stream of
  the page is linked (`OnIncomingStream`), once for a connection.
- An offer that is being created when its pipeline stops is dropped, or its
  callback finds none and follows NULL (l.257): both are possible, `DestroyStop`.
- A message the program does not understand ends it, as `g_error` aborts even
  where the text says "ignoring" (l.458); pages that send one are left out.

## 3. Runs

The constants named `a1, a2, b1, ...` are connections, `A, B, ...` uids. All
runs say `CHECK_DEADLOCK FALSE`: each connection is accepted once, each program
runs once, the number of calls is bounded, and when all are over the system
rightly stops.

| run | instance | checks |
|---|---|---|
| `mixed` | 3 peers, 1 room, calls and rooms, fairness | `TypeOK`, `NoZombie`, `SessionLookup`, `HandlersEnd` |
| `calls_reconnect` | A twice and B, calls to anyone, themselves included, 1 restart, HELLO atomic | `NoGhost`, `RegistrySpec` |
| `calls_pairs` | two pairs that call each other, 1 restart | `Bidirectional`, `LivePartner`, `CleanRestart`, `CallEndsForBoth` |
| `rooms` | 3 peers, 1 room, two commands each | `MembersListed`, `OneKnowsOther` |
| `conference` | 3 clients, any order of joining; c1 gathers one candidate for each peer and may lose its connection; fairness | `TypeOK`, `SenderListed`, `OneCaller`, `CandidateFindsBin`, `NobodyWaits`, `MembersConnect`, `HandshakeSpec` |
| `call` | either side offers, two candidates each, one dropped connection, fairness | `TypeOK`, `StateExpected`, `IceAfterSdp`, `NobodyWaits`, `SessionConnects`, `NoHalfCall`, `HandshakeSpec` |
| `android` | two calls of one object, fairness | `TypeOK`, `LoopReachable`, `EndedIsEnded`, `JoinEnds`, `WakeUpComes`, `EndReturns`, `CallReturns` |
| `receivers` | two addresses, three pages, playing, one candidate, fairness | `TypeOK`, `EntryAlive`, `ConnectionAlive`, `CleanExit`, `EntryFreed`, `Offered`, `LeaseSpec` |

What the properties say is written beside them in the module. They hold where
the code's own assumptions hold, and the instances state these: uids are not
shared, a callee is not called by a third peer, calls and rooms are not mixed,
rooms do not see reconnections. The next runs show what happens otherwise.

| run | what the repository says | what TLC finds |
|---|---|---|
| `doc_bidirectional` | l.30-32 "Bidirectional mapping between the two peers" | the busy test of l.170 looks at the caller: a peer in a session can be called, two peers map to it |
| `doc_reconnect` | Protocol.md:41 "You may reconnect again whenever you wish." | an exception in `cleanup_room` leaves the uid registered for ever |
| `doc_joined_guaranteed` | Protocol.md:54 "guaranteed to receive JOINED and LEFT messages for all peers" | two peers that join at once: one is never told of the other (`OneKnowsOther`, which holds, is what remains: one was told, by `ROOM_PEER_JOINED`; as only a newcomer offers, to those in its `ROOM_OK` (Protocol.md:49), neither of the two calls the other) |
| `doc_state_assertions` | mp-webrtc-sendrecv.c:267 `g_assert_cmpint (app_state, ==, ROOM_CALL_OFFERING)` | a third member's offer sets `app_state` between `on_negotiation_needed` and `on_offer_created`, and the program aborts; the assertions of l.591 and l.622 fail the same way |

Where a uid is used again before the handler of its old connection has cleaned
up, and the HELLO reply may suspend, that handler removes the entry of the newer
connection (l.105 deletes by uid) and the newer one is served unregistered. This
is why `calls_reconnect` and the theorems on reconnection take HELLO as atomic.

What the passing properties of the clients except, because the code does not
provide for it:

- `HandlersEnd`: a handler that waits for ever for one other peer, which stays connected
  and does not read. The sends of l.101, l.134 and l.208 have no timeout. When that peer goes the
  wait is over.
- `SessionConnects`, `NobodyWaits`: a page that has stalled. The program waits in the session,
  in PEER_CALL_NEGOTIATING, until one of the two disconnects.
- `Offered`: a page whose pipeline has failed to start (l.208).
- `LoopReachable`, `EndedIsEnded`, `JoinEnds`, `WakeUpComes`, `EndReturns`, `CallReturns`: the
  cleanup by webrtcbin's thread (`CleanedByBin`; `send_ice_candidate_message`, l.233, and
  `send_sdp_offer`, l.256). It stops its own pipeline and never returns, nor does a thread that
  stops that pipeline after it.
- `CallReturns` and `WakeUpComes`: a call that is over before the Java thread looks at the loop
  (the connection is refused at once, l.765): `loop` is NULL again and nobody will
  signal the condition.
- `EntryFreed`: the abort at l.257. `StateExpected` is about a running
  program: when the server closes while an offer is created, the assertion of
  l.264 fails in a program that was about to end.
- Nothing is claimed of what an old Android call leaves behind: its thread may
  clear `webrtc->pipe` of the next call (l.111), and a pipeline that is created
  after `native_end_call` has cleaned up is never stopped.

**Bounds.** `MaxMsgs` bounds the commands of one connection (1 or 2),
`MaxRestarts` the restarts. Three handlers are enough for every conflict of the
code: the one that acts, the partner or the member it acts on, and a third that
interferes at the await; reconnection needs a second connection of one user. A
second command is needed for a message in a session after it was set up by
oneself, and for a message in a room; a peer that is called needs only one.

Three clients are the least for two calls of one program, which is what the
shared `app_state` needs; two do not reach the assertions from another call. The
clients of `conference` are alike except that only `c1` gathers candidates
(`Gatherers`) and loses its connection (`Unstable`): `c1` may be the first, the
second or the last to join, so every role is covered, and with all three the
instance has ten times the states. Any client may fail to connect or to start
its pipeline, and may abort; to the others that is a departure at any moment.

In `call`, two candidates let one overtake or follow a description on each side,
and a second drop would meet a session that is already over. In `android`, two
calls are an old one and its successor; a third thread is known to nobody but
itself, as `native_end_call` joins the second before (the invariants were also
checked with three calls, 4.6 million states, and are proved for any number). In
`receivers`, three pages on two addresses use one address twice while the other
is in any state.

**Fairness.** Schedulers are fair, users, networks and peers are not:

- `mixed`: a handler whose await has completed is run again (`WF` of `Resume(c)` for
  each connection unless it `Waits`, and of the end of a handshake on a closed socket): the
  asyncio loop serves its ready queue in order. Clients need not send, read or close, and a
  handler need not receive a message: a send to a peer that is connected may take for ever.
  It rests on two facts of the library: a send to a closed socket raises, and `close()`
  (l.90) is bounded by its own timeout.
- `conference`: a program's main loop runs when it has a message (`WF` of
  `MainLoop(c)`), and some webrtcbin thread runs when one has a callback (`WF` of
  `Callbacks(c)`), which the operating system gives; each thread has finitely many
  callbacks, so none starves. A member that aborts leaves the room, and then
  nothing is claimed of it.
- `call`: the same for the main loop, the callbacks, the end of `main` and the
  page's event loop. A promise of the page need not be fulfilled, nor settle: `WF(Page)`
  only says that the page goes on or has stalled. Drops are free.
- `android`: every thread goes on (`JavaStep`, `CallStep`), also a webrtcbin's that is within
  `on_offer_created` or the cleanup.
  Messages of the server, callbacks and what the user asks for are free to never
  happen, and the mutex need not be fair.
- `receivers`: the main thread and the threads of the pipelines that have started go on; no
  pipeline has to start, and pages are free to do nothing, also to never answer an offer.

## 4. Proofs

`SignallingServerProofs` (the first five), `SignallingCallProofs` (the next four) and
`SignallingRoomProofs` prove, for any number of connections, uids, rooms, commands and
restarts:

| theorem | assumption | property |
|---|---|---|
| `TypeCorrect` | none | `TypeOK` |
| `NoZombieHolds` | uids are not shared, or calls only and HELLO atomic | `NoZombie` |
| `NoGhostHolds` | calls only | `NoGhost` |
| `SessionLookupHolds` | uids are not shared | `SessionLookup` |
| `RegistryRefined` | calls only and HELLO atomic | `RegistrySpec` |
| `BidirectionalHolds` | couples | `Bidirectional` |
| `LivePartnerHolds` | couples, calls only, uids are not shared | `LivePartner` |
| `CleanRestartHolds` | couples, calls only, uids are not shared | `CleanRestart` |
| `CallEndsForBothHolds` | couples, uids are not shared | `CallEndsForBoth` |
| `MembersListedHolds` | rooms only, uids are not shared | `MembersListed` |
| `OneKnowsOtherHolds` | rooms only, uids are not shared | `OneKnowsOther` |

besides `ConstantsAssumption`. Calls only means `Joins[c] = {}` for each
connection, rooms only `Callees[c] = {}`; couples, that there is a pairing of the
users such that nobody calls anyone but the partner (`Couples`). Most of the
assumptions are needed: `doc_bidirectional` shows a server whose users do not form
couples, `doc_reconnect` one with shared uids.

The argument. `TypeOK` is not inductive: a handler in `room_ok`, `joined` or
`left` reads its `room_id` and one in `session_ok` its `callee_id`, so `TypeInv`
adds that these are set (`RoomIdSet`, `CalleeSet`). The handler has some thirty
actions, but seen from `peers`, `pc` and `sock` there are five kinds of step:
it registers (`Enters`), is still in the handshake (`Preludes`), serves without
changing who is registered (`Serves`), raises into `remove_peer` (`Raises`) or is
within it (`Leaves`). `HandlerStep` proves that each action is one of these, and
every safety proof is a case split on them. `BaseInv` collects what the theorems
share: `Listed`, an entry is under the uid of its connection; without rooms no
status is a room; without a suspension no handler is in `greet`. `NoZombie` and
`SessionLookup` are then inductive; `NoGhost` needs `Owners`, that a registered
connection has a running handler. For the refinement each step is shown to be
an `Open`, `Leave`, `Claim` or `Release` of `PeerRegistry`, or a stutter, under
the mapping `holder[u] = peers[u].ws`.

`SignallingCallProofs` looks at the same steps from `sessions` (`SessionsKept`,
`SessionEnds`, `SessionBegins`). `Coupled`, that an entry names the partner and is
answered by the partner's, is inductive once `Dialled` says that `callee_id` is one the
client may name; neither rooms nor shared uids matter. That a call has somebody
served at both ends (`Attended`) could only fail when a call begins with a partner
that is registered but within `remove_peer`. Without rooms such a handler waits at
l.90, and `HungUp` says what it has done before: the one it hung up on is unregistered
and has no way back, and that one is the caller. `CallEndsForBoth` holds with rooms too.
A handler that takes a call away does so on its way into `remove_peer`, and drops the
partner from `peers` in the same step (`EndsSessionGone`); `Coupled` says that the two
entries that go are those of one pair; and `NoZombie`, that whoever is served on an open
socket is registered, of which the partner no longer is anything.

`SignallingRoomProofs` looks at them from `rooms` (`Stays`, `Enrols`, `Departs`). `Members`
ties an entry of a room to the registration, to the status and to a handler that
is past `ROOM_OK`; `Acquainted` says that of two members one was told of the other,
can no longer be told, or is yet to be told by a loop that runs: it is in the set
the loop started on and was not visited (`Informed`). The one that enters last
starts its loop on all who are there (`Tells`), and a loop either goes on, or ends
with nobody left to tell, or raises, and then its member leaves. `CallInv` was
checked on the instance of `calls_pairs` and `RoomInv` on that of `rooms` before
they were proved.

`CallClientProofs` proves `TypeOK`, `StateExpected` and `IceAfterSdp` for any number of
candidates and of dropped connections, from `BoundsAssumption`. Both are about the
first message of an inbox, so the invariant has to say what may be under way at
each stage of the negotiation. It sees an inbox as the set of the kinds in it
(`kinds`) and the kind of the first (`first`), after lemmas about appending and taking
(`PutStep`, `TakeStep`) have dealt with the sequence: everything but candidates and the
end comes first (`Ordered`). `Stage` is a table from `bin` to what the page's state and
the two inboxes may be (`Before`, `Requested`, `Offered`, `Negotiated`); `Phase` ties `app_state` to
`bin` while the program runs; `IceLast` says that a side that gathers has a description
ahead of its candidates, or has lost it together with the session. `DropSafe`,
`ExitSafe` and `QuitSafe` show that every way of ending keeps the invariant; the other
steps send one message or take one.

`NobodyWaitsHolds` and `HandshakeRefined` are about both ends at once, which `Inv` does not
relate in every stage: `Joint` adds that an offer or an answer under way belongs to the
side that stands at it, that a program without a webrtcbin has SESSION_OK before it, and that
an answer which the page still waits for is under way unless the connection is lost or the
page has stalled. The
refinement mapping takes the two ends from the stages of the webrtcbin and of the page
(`ProgramEnd`, `PageEnd`), and makes both idle at once when the session ends. A lemma for
each action shows that it is a step of `Handshake` or a stutter; a page that offers is
the abstract `calling` only from the moment its offer is sent, which is why the other end
can be `called` by it.

`AndroidClientProofs` proves `TypeOK`, `LoopReachable`, `EndedIsEnded`, `JoinEnds` and
`WakeUpComes` for any number of calls, from `CallsAssumption` alone. `TypeInv` adds to the types that a call which is
to start can (`Room`). `SafeInv` is the argument that the mutex is enough although
the cleanup does not take it:

- `LockInv`: the mutex is held by the Java thread exactly in the middle of
  `native_end_call`, and by a call's thread exactly until its loop runs;
- `JavaInv`: the thread to be joined is one whose loop has been quit, and outside
  of a call there is no loop, and no thread but one that has ended or is `Retired`;
  while Java looks for the loop of a call there is a thread, and while it waits no loop;
- `LoopInv`: `loop`, when set, is that of `thread`, and only its thread runs;
- `ThreadInv`: a thread is `Active` (designated by `thread`, or being joined) or `Retired`:
  its loop is quit, its connection is done, so that no message makes it clean up
  again, and its cleanup is past the loop. So only an active thread quits or
  clears the loop, and that loop is its own.

The invariant of `Spec` is `SafeInv`, or a crash that keeps `LoopReachable`, or
`CleanedByBin`, which is for ever because a pipeline is started once (`BinInv`).
Each action has a lemma, and each lemma a step for each of the four parts. `JoinEnds` is
what `JavaInv` says of `joining`. `WakeUpComes` follows from `JavaInv`, by which there is a
thread and no loop while Java waits, and `LoopInv`: the thread of a call without a loop has not
yet published it, or has quit it, because taking the lock and publishing are one step (l.734-738).

`ReceiverTableProofs` proves `TypeOK`, `EntryAlive`, `ConnectionAlive` and `CleanExit` for
any finite set of addresses, any number of pages and candidates and both
programs, from `ConnsAssumption`. The main thread is dealing with one connection at
a time (`Place`); an entry exists exactly for the addresses in the table and the one
being destroyed (`Entries`); references are one for an entry and one for libsoup
while it is being accepted (`References`); a pipeline that has been stopped has
no callback (`Pipelines`); and a program that has ended has emptied the table
(`Emptied`). `EntryAlive` follows because the entry is freed after its pipeline
was stopped, in the one place where both happen. `LeaseRefined` shows that the table
implements `PageLease`. The mapping reads the stage of a page off the references and the
stage of its pipeline (`StageOf`), and takes a thread to use the page while its callback runs.
`Pipelines` had to be strengthened for it: a thread in `on_offer_created` has a pipeline
that is creating the offer, and one that links a stream has an answer. The callbacks
`UseLease` and `DoneLease`, the main thread's `GrantLease`, `StopLease` and `FreeLease`, and
`EndLease` are the cases of `LeaseStep`.

`MultipartyClientProofs` proves `TypeOK` and `SenderListed`, and `MultipartyCallProofs` proves
`OneCaller` and `CandidateFindsBin`, for any set of members, any number of candidates and any
number of dropped connections, from `ClientsAssumption` (the gatherers and those whose
connection may be lost are members, and `None` is not one). Nothing is assumed of how
the threads are scheduled: a main loop and the webrtcbins of every member interleave.

The first module follows one member p through the inbox of another, c. `Follows`: before
a message about p the inbox announces p, or c lists it already, and nothing before
it says that p has left. `WillList`: while both are in the room p is listed or announced.
For p to enter the room with `WillList` nobody may have been told before that it left:
`Unheard` says so of whoever has not asked for the room (`Fresh`), and `Registered` ties
that to `app_state`, the inbox and the server's tables. Four lemmas cover every action:
`EndStep` (a program ends, or its connection), `ReadStep` (a message is read), `RelayStep`
and `LocalStep` (something is sent, or only set).

The second module adds what two members have done for each other. `Tells` relates the
inbox of c to the stage of its webrtcbin for p, also when p has left: one offer at
most, and it finds no webrtcbin; an answer finds one that offered; candidates wait behind
the offer. `Agree` relates the two stages while both are in the room: one of the two calls
(`Invited`, by ROOM_OK), and the other has no webrtcbin until it reads the offer.
`Unknown` is why who calls is settled: nobody has heard of a member that has not
entered. `ReadCalls` and `WriteCalls` show that a step leaves all pairs alone but the one
it deals with, which is then looked at in a lemma for each kind of message.
`HandshakeRefined` maps the webrtcbins of two members to their ends (`EndOf`): `CallInv`
already says that an offer which is read finds an end that offers and none on this side,
and an answer one that has answered. `NobodyWaitsHolds` needs the opposite direction, that
nothing is missing, which is `Meet`: one of two members has a webrtcbin for the other or is
to make one, an offerer whose partner has answered has the answer in its inbox, and an end
that has answered has been called by the other's. `Inv` and `CallInv` were checked on the instance of `conference` before they were proved.

Definitions that a proof expands choose with IF, not with CASE: the translation of CASE
to the SMT solver in version 1.4.5 of the prover can make a false goal provable when two
guards are alike, so none is left where a theorem depends on it.

Only model-checked: the liveness properties (`HandlersEnd`, `MembersConnect`,
`SessionConnects`, `NoHalfCall`, `EndReturns`, `CallReturns`, `EntryFreed`, `Offered`), which are
out of the prover's reach. What can be proved about them is the safety they rest on:
`NobodyWaits` says that whenever `MembersConnect` or `SessionConnects` still has something to
bring about somebody can take a step towards it, `JoinEnds` that the thread for which
`EndReturns` waits is on its way out, `WakeUpComes` that the signal for which `CallReturns`
waits is still to come. Every safety property of a passing run is proved, under
the assumptions of its theorem; what holds of the server when calls and rooms mix
is `TypeOK`, `NoZombie`, `SessionLookup` and `Bidirectional`.

## 5. Not modelled

In the server: the health check and TLS set-up (no state), texts of messages and
log output, message payloads, the queue limit of 16 messages (back-pressure on
the client's TCP connection). A uid with white space and an invalid protocol are
one rejection. Build files, Gradle, NuGet scripts, HTML and the playground pages
are not modelled. For `SignallingServer` clients are an arbitrary environment. In
the clients and the stand-alone servers the media pipeline, the contents of
descriptions and candidates, the reference counts of elements, TLS, command line
options and malformed messages are left out: the server sends none that the
client does not know, and peers run the same program or the page.

`CallClient` has one page and one call. The page's reconnection and its timers
are not modelled; neither is a second native client as the callee, which the
code does not support: the page's offer is awaited after SESSION_OK, and a callee
that gets none aborts on the offer (l.640). With reconnections a promise of an
earlier call may answer the offer of the next one.

`AndroidClient` leaves out the setters (the surface, the server, the id), which do not
touch what a call is controlled by, and JNI attachment of threads.

Not modelled at all: the Python, Rust, Java and C# clients of `sendrecv` (the same
protocol with less state, or with the state behind a mutex), the Rust multiparty
client, the Janus client, the example clients of the server, and the validation
framework.

## 6. Plan

Done: `SignallingServer`, `PeerRegistry` and their proofs; `MultipartyClient`, `CallClient`,
the abstract `Handshake` of both and their proofs; `AndroidClient` and its proofs;
`ReceiverTable`, `PageLease` and their proofs.

What is left, in this order:

1. More of the server without the assumption that uids are not shared (`LivePartner` when
   HELLO is atomic), and of calls together with rooms; an abstract specification of a call
   slot that `AndroidClient` implements outside of `CleanedByBin`.
2. `StateObserver` and `SignallingThread` of the validation framework: what
   `wait_for` returns and when it never does.
3. `BrowserClient`: reconnection with its limit; at most one connection; then
   `CallClient` with a page that reconnects.
4. `JanusSession`; the mixer layout of the Rust client as a function with its
   capacity; the Python client as a variant of `CallClient`.
