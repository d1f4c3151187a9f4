# Verification of LibreOffice Impress Remote

TLA+ models of the remote, checked with TLC on small instances, and theorems
about them proved with TLAPS for every value of their constants. Paths below are
relative to the repository.

## 1. The system

A LibreOffice extension lets a phone's browser drive a slide show. The phone
opens a link (QR code) with a session id and secrets and reaches the plugin
directly over HTTP (local network or IPv6), through a LocalTunnel, or through a
relay server that forwards encrypted websocket messages.

```
 phone page (app.js) --HTTP--> local_server.py --callback queue--> office thread (controller.py)
      |                              ^   |
      |  (tunnel: localtunnel_client.py) |  starts and stops
      +--websocket--> relay/relay.py <---+-- relay_client.py (thread) --- protocol.py (codec)
```

| Component | State | Operations | Talks to |
|---|---|---|---|
| Office callback queue, `local_server.py` 98-162 | table of pending callbacks (at most 8), per call: started, cancelled, finished | call, notify | HTTP workers and the relay thread on one side, the office's main thread on the other |
| Secure codec, `protocol.py` | offered hellos, key sets (at most 3) in order, active key, rotation counter, replay cache per key | rotate, apply a phone's hello, encode, decode | relay client, direct session |
| Direct session and HTTP API, `local_server.py` | a codec and its current hello, client seen, server sockets | handshake, state, slide, command, start, stop, update_config | phone page, controller through the queue, relay and tunnel clients |
| Relay client, `relay_client.py` | thread, websocket, codec, last state sent, status | start, stop, the thread's loop | relay server, controller through the queue |
| Relay server, `relay/relay.py` | sessions (plugin, phones, last hello, cached frames, token), counters | join, replace, replay, validate, forward, reject, leave, expire | plugin and phones |
| Phone page, `shared/webui/app.js` | phase, socket, codec, timers, poll state | connect, derive keys, decrypt, command, poll, retry | relay or HTTP API |
| Presentation controller, `controller.py` | slide show and document of the office, PNG cache | commands, state, images | UNO |
| UNO component, `component.py` | one server, listeners, termination flag | dispatch, start, stop, terminate | server, dialogs |
| Tunnel client, `localtunnel_client.py` | status, URL, sockets, workers | start, stop, workers | LocalTunnel service, HTTP API |
| Configuration, `config.py` | settings in the office or in a JSON file | load, save, merge, build URLs | dialogs, server |
| Office dialogs, `office_ui.py` | pairing dialog with its monitor thread and QR images, settings dialog | show, close, save | server, tunnel status, configuration |

Also there, and not modelled: QR codes (`qr.py`), cryptographic primitives
(`crypto.py`), address discovery (`network.py`), texts and paths, the relay's
command line, scripts and tools. `PROJECT.json` has the reason for each.

### What is hard in it

* HTTP workers, the relay thread and the office's main thread meet in the
  callback queue; the office may not answer for as long as a dialog is open, and
  a caller that has given up races the callback it gave up on.
* Plugin and phone agree on keys through messages that are lost, late, repeated
  or answered by another phone; the plugin rotates its key while frames are in
  flight.
* The relay is one event loop whose handlers suspend in the middle of joining,
  replacing, replaying and forwarding.
* Plugin thread and page both reconnect on their own; either may see an end of
  the connection that the other has not noticed.
* Starting, stopping and reconfiguring the remote runs from the user interface
  and LibreOffice's termination, with threads that take seconds to stop and may
  go on when nobody waits for them any longer.
* The pairing dialog, the thread that watches for a phone, the tunnel's threads
  and those that pipe its bytes all look at flags the others set.

`PROJECT.json` lists these as hazards, each at the line where it bites.

### What makes each part correct

* Queue: a callback runs at most once and never after its caller has taken it
  back; a call returns what its callback returned, or an error; no slot of the
  table is lost; every call is answered.
* Codec: one key set per key id for ever; a rotation keeps the previous key
  readable; a frame is accepted at most once within the replay window.
* Relay: what a phone is replayed and forwarded comes under the hello it was
  given, once and in order; the slots and limits of a session hold.
* Link: both ends hold the same key for a key id; what one sends the other can
  read; the phone that joins gets to see the slides.
* Direct session: whatever order hellos, answers and frames take, the page can read
  what it is sent and the plugin what it is commanded; Retry brings a page back.
* Controller and slide images: an image fits the revision it is asked for and
  shown under; the page ends up with the image of the current slide; the next
  slide that is announced is the one the next command leads to, although a show
  numbers its slides differently from the document.
* Life cycle: a relay thread that was not told to stop is the server's; a remote
  runs with the settings that are saved; a URL on offer leads somewhere; saving
  starts nothing; termination leaves nothing behind.
* Configuration: the settings in force are those a restart brings back.
* Tunnel and pairing: the dialog shows the QR code that is on offer and closes
  for a phone, no image with a secret is left on disk, the first phone starts the
  show if there is one to start, and the tunnel's threads end.
* Page's connection manager with its Retry button: see the plan.

## 2. The modules

| Module | Models |
|---|---|
| `OfficeCalls` | abstract specification: what callers of the queue are promised |
| `UnoQueue` | `LibreOfficeCallbackQueue`, and that it implements `OfficeCalls` |
| `UnoQueueProofs` | proofs about `UnoQueue` |
| `SecureCodec` | `SecureRelayCodec` in the plugin's role |
| `MCSecureCodec` | the codec with frames and hellos from anyone, bounded |
| `SecureCodecProofs` | proofs about `SecureCodec` |
| `Relay` | the relay server |
| `RelayClients` | the relay with plugins and phones that follow the protocol |
| `MCRelay` | the same, bounded by scenes |
| `RelayProofs` | proofs about `Relay` with any clients, and about `RelayClients` |
| `RelayLink` | relay thread, codec, relay and phone pages composed |
| `MCRelayLink` | its instance |
| `RelayLinkProofs` | proofs about `RelayLink`, on top of `RelayProofs` and `SecureCodecProofs` |
| `DirectSession` | the direct modes: `SecureDirectSession`, its HTTP handlers and phone pages, on top of `SecureCodec` |
| `MCDirectSession` | its instance |
| `DirectSessionProofs` | proofs about `DirectSession`, on top of `SecureCodecProofs` |
| `SlideShow` | the presentation controller over an office, the slide images it serves or pushes, and a page that shows them |
| `MCSlideShow` | its instance |
| `SlideShowProofs` | proofs about `SlideShow` |
| `Settings` | the settings, their normalisation and their two stores |
| `RemoteServer` | the life of the remote: start, stop, settings, relay clients' threads, termination, on top of `Settings` |
| `MCRemoteServer` | its instance |
| `RemoteServerProofs` | proofs about `RemoteServer` |
| `Pairing` | one session over a tunnel from Start Remote to the first phone: tunnel client, pairing dialog, first call to the office |
| `PairingProofs` | proofs about `Pairing` |

### UnoQueue and OfficeCalls

A call is a thread in `call()`. `CallWithoutOffice`, `CallInPlace`, `Refuse`,
`Insert`, `Post`, `PostFails`, `ReturnResult`, `WaitExpires` and `Abandon` are
the paths through 127-150, cut where another thread can come between:
at the lock, at `addCallback`, at the wait and between the wait and the
`pop` of its `finally`. `Execute`, `RunCallback` and `SetCompleted` are the same
for `_execute` on the office thread. The table is `pending`; the native queue of
posted callbacks is not bounded by it, which is modelled. A timeout may come at
any time.

`OfficeCalls` knows only the phase of each call; `UnoQueue!ImplementsOfficeCalls`
maps the queue's state to it and says that a caller gets the outcome of its own
callback, at most one execution happens, and none starts after the call was
given up. What it does allow, because the code does: a call that gives up while
its callback is running (the phone gets an error for a command that takes
effect).

### SecureCodec

A hello is its key id, numbered in the order in which they are made. A key set
is the ephemeral key (`peer`) of the phone whose hello made it: two ends share
it exactly if they agree on that ephemeral, since the derivation
(`protocol.py` 424-480) takes it and the plugin's own key. Encryption is
perfect: a frame decrypts under the key set that made it and no other; the
nonce is what the replay cache remembers. `pending` holds the hellos offered
and unanswered, which the code never prunes. `EncodeFrame` counts frames
without a limit, since it does not ask whether a rotation is due: its callers do
(`ShouldRotateSendKey`). `RotateSendKey` offers a hello and starts the count again
(`protocol.py` 189), whether or not a phone will answer, and `ApplyPhoneHello`
starts it again when one does, installs the key set and drops the oldest beyond
`MaxKeySets`. `MCSecureCodec` adds what its properties look back on: the nonces
accepted under each key, the frames encoded and the hellos made when one was due.
Its `OffersArePaced` says that the resets in their various orders never make a
rotation fall due twice within `Rotation` frames, or on every frame while a hello
waits; that rotations do not stop either is `KeysRotate` of `DirectSession`. The
codec's type invariant is checked where the codec is used, as the first part of
`LinkTypeOK` and `DirectTypeOK`.

### Relay

The server is one asyncio loop; an action is the code between two suspensions.
The header of the module lists them. Session objects are numbered apart from
their ids, since a handler keeps using its object after the table has dropped
it. `ConnectToSession`, `ConnectToNewSession` and `ConnectRefused` run to the
first suspension of `websocket_handler`; `ReplacePlugin` is what follows
`await session.plugin.close()`, `ReplayNext` an iteration of the replay loop,
`Receive` is `relay_message` up to its sends, `Forward`, `ForwardFails` and
`CloseFailed` are the sends, `Reject` is `_reject_protocol`, `Finish` the
finally block with its `cleanup()`. Messages are envelopes whose encrypted
part is `body`. A connection is used once. The rate limit is a `Reject` of any
message; `send_timeout_seconds` and the heartbeat are `ForwardFails` and
`HeartbeatFails`, possible only for clients that are gone.

A session caches the states, assets and errors under a key that its plugin sends
(`ReplayableKinds`, `relay.py` 31 and 642-661); an error envelope, which has no
key, is forwarded only. The plugin of this repository has the function for an
error under a key (`protocol.py` 231) and does not call it; the relay takes it
from any plugin, so the clients of the model send it.

`RelayClients` adds the clients: `owner` is the plugin that made a key, `frames`
counts what plugins have sent and numbers it. `MCRelay` bounds them. A
behaviour belongs to one of four scenes: `Traffic`
(two plugins that replace each other, hellos and frames), `Answered` (the phones
answer, and their answers are forwarded or refused), `Losses` (a client vanishes
while it is replayed or sent to) and `Crowd` (more phones and ids than there is
room for, and a client with another token). In the first two a frame is a state or
an error, so that errors fill the cache, evict and are replayed; in `Losses` the
only kind is the error. Assets are treated as states by every line of the relay.

### RelayLink

The relay thread is cut at its suspensions: down, greeting (connected, hello not
sent), receiving, publishing. `ThreadRotates` and `ThreadSendsState` are the two
sends of one iteration. A page is the functions named in the map; the keys of a
hello are derived over several awaits, so they arrive in a step of their own
(`PageDerives`) and meet whatever socket and codec the page has by then. Frames
carry the ephemeral they were encrypted with. A connection, and with it the
ephemeral made for the one hello a page answers on it, is used once.
What a message carries is in its `body`: the ephemeral of an answer, that and
the nonce of a command, and for a state the ephemeral of the keys it was
encrypted with.
`OfficeRefuses` is a callback queue that is full or late: the exception leaves
the loop and closes the connection (`relay_client.py` 364-377, 429-453).

`CommandsReadable` excepts commands under a key that is `OutOfReach`: an answer
that was on its way when a connection of the thread ended never arrives, so its
hello stays pending and the plugin ignores every tap under its key
(`relay_client.py` 421-427) until the page is sent a newer hello; and a key set
is dropped after `MaxKeySets` newer ones. Neither happens within the bounds of a
run, both came up in the proof.

### DirectSession

The codec is `SecureCodec`'s, driven by handler threads of the HTTP server.
`Respond` is the body of `state_response` and `asset_response`, one critical
section of the session's lock: rotate if needed, then encode under the old key
(`CountOfNextFrame`: the frame after a rotation is the first of a new count).
A page is one load of `app.js`. Its event stream is the page's end (`stream`),
the serving thread (`handler`) and what is written but not read (`events`); a
thread whose page has closed the stream may write once more before it notices
(`orphans`), and a hello it writes then is lost. `StreamStarts`, `StreamWrites`
and `StreamFails` are `_event_stream_secure`, `PageReceives` the listeners of
`connectSecureDirectEvents`. The awaits of the page are where it can be
overtaken: between a hello and its derived keys (`Derive`), between the keys and
the accepted answer (`PostHandshake`), between the encryption of a command and
the frame (`PostCommand`, which reads the active key id again). A request is
handled and answered in one step, since nothing the page does depends on a
request that is still unanswered. `Goes` is what follows an accepted answer.
What can fail is in `Faults`: `drop` breaks a stream, `busy` is the office queue
refusing or timing out (503 for a request, an error event in a stream), `lost` is
an answer to a hello that does not reach the server.

`FramesReadable` and `NegotiatedCommandsReadable` speak of keys one page alone
has answered for, once (`SoleAnswer`). A page can be given one hello twice: it
asks for the handshake, the stream starts before its answer has come and sends
the hello again (`local_server.py` 1380-1399), and it makes another pair of keys
for it. Whichever answer the server takes second is refused, and when that is
the one whose keys the page kept, it cannot read what it is sent until the next
rotation. Likewise a key set is dropped after `MaxKeySets` newer ones, with
whatever is still on its way under it (`StillKept`).

### SlideShow

The controller only runs in callbacks on the office thread, so each of its
operations is one step: `Command` is `command` with all its branches, `State`
is `state`, `ServeImage` is `_slide_bytes` with its validation and the image
cache. `Running`, `HasController`, `SlideCount`, `CurrentIndex`, `NextIndex`
and `SlideAt` are its helpers, each with its fallbacks: `isRunning` is answered
by the presentation also while a show is starting and has no controller yet, an
index outside the show (its end screen) falls back to the editor's page, and
indices are of the show with a controller and of the document without. The
office (`OfficeNext`, `OfficePrevious`, `StartPosition`, and what its user does:
`EditText`, `Browse`, `Focus`, `UserStarts`, `UserMoves`, `ShowEnds`) is
modelled from how the controller uses it. The page is `ReceiveState`
(`renderState` with the start of `updateSlideImage` and `preloadNextSlide`) and
`ReceiveImage` (what follows the await).

Over the relay (`way = "relay"`) nothing is requested: an iteration of the relay
thread is `PushState` and one `PushAsset` for each slot, each a call of its own
to the office, so that the slide may change between them; an image that is not
that of the state any more is left for a later iteration. The page
(`ReceivePushed`) keeps what it was pushed in `assets` and shows it once it
fits the state.

Abstracted: a render token is the tuple of what is digested, so digests do not
collide, and title and preview are one value; equal requests at a time are one
request; the answer to a preload is received in the step that serves it. A
deck does not gain or lose slides, and an export does not fail. Encryption is
left to `DirectSession` and `RelayLink`.

### Settings and RemoteServer

`Settings` has the three settings a user can change. `registry` and `file` are
the two stores; what they hold may have been typed by hand, so loading
normalises it (`FromDict`). `Save` writes the registry, whose properties take
effect together, or the file when that fails; `Load` takes a registry full of
defaults for one that was never written and moves the file's settings into it.

`RemoteServer` cuts `start`, `stop`, `update_config` (as the settings dialog calls
it) and `_save_settings` where another thread can come between. Everything runs
on the office's thread but the shutdown: `notifyTermination` and `disposing`
are delivered on the office's thread, and start a thread that runs `stop`
(`Notify`). So `stop` is cut into `Halt`, `CheckRelay` (`_stop_relay_client` looks
at `relay_client`), `SignalRelay` (uses it), `JoinRelay` (two seconds later
forgets it) and `Close`; a thread that finds nothing to stop where it has just
looked would be `"crashed"`. `Start`, `StartFails` and `SaveSettings` do what comes
before the relay client, `SyncRelay` is `_sync_relay_client`, `Finish` what comes
after it, the stop that a start without transports or a save with changed
settings ends in included. Each relay client has a thread (`Connect`, `Greet`,
`Serve`, `OfficeAnswers`, `Closing`) which looks at its stop event between
connections and messages only: a thread nobody waits for any longer may still
connect, and then the relay closes the plugin in the slot. The current client
loses the slot and takes it back, while the other thread ends
(`CurrentClientConnects`). `Restart` is the process ending at any point,
and the settings being loaded again.

A few things about the code that the model made plain, and no document
contradicts: the second branch of `_start_http_servers` (1027-1038) is never
reached; a save that fell back to the file is lost at the next start when the
registry has settings of its own, and a reset to the defaults is undone when the
file has some (the two exceptions of `SettingsComeBack`).

### Pairing

One session whose URL comes late, over a tunnel: `bridge` is `_run` of the
tunnel client, `worker` its socket threads, `pipe` the threads that pipe from the
tunnel and mark client activity. `Reads` reads `first_client_connection`, `Marks`
sets `client_connected`, `StartsShow` is the call to the office: the three can
interleave over several threads. `office` and `monitor` are the two threads of
`RemotePairingDialog.show`: the monitor takes a snapshot (`MonitorAsks`),
refreshes URL, image and message from it (`MonitorPairs`, `MonitorDraws`,
`MonitorIsRead`) and ends the dialog (`MonitorCloses`), while the phone, the user
and the stop of the server come at any point; the office's thread waits one
second for the monitor and then removes the image (`CleansUp`).

What it shows of the code: a worker's failed connection sets the status to
"error", which hides the URL although the other workers serve it, until the
service is asked again; a thread that was already reading may mark a client
connected after the stop; `client_connected` is set before the office is called,
so that an office that gives no answer to the first phone's call never gets
another; and a QR image that could not be written is not tried again, nor is its
error shown (`office_ui.py` 1141-1149).

`OfficeStartsShow` is `_start_presentation_for_client`, in whatever state the
presenter has left the documents by then: it returns when the current document is
no Impress document or has no slides and when its show runs (951), and swallows
an exception of the command (953-956). So `docs/user-guide.md` 52, "When the phone
connects, LibreOffice starts the slideshow from the first slide", holds only if
a presentation with slides is current at that moment, no show runs yet, the call
gets through and the command succeeds; otherwise nothing is started, nothing is
said and nobody tries again. `FirstPhoneStartsShow` names these cases
(`outcome`). What it excludes is a remote that counts a phone as connected
although nobody has called the office at all: the flag is read and set without a
lock by several threads, and a stop forgets it in between. That a show is running
by the time its command returns is taken for granted.

## 3. The runs

| Run | Instance | Shows |
|---|---|---|
| `UnoQueue` | four calls, two slots | type and slot invariants, the bound of the table, refinement of `OfficeCalls`, every call is answered |
| `SecureCodec` | four hellos, two phones, three nonces, four frames sent and four accepted, rotation after 2, cache of 2 | key table, replay window, rotations that keep their distance, key sets that survive them and are final |
| `Relay` | four scenes of up to two plugins, three phones, a stranger, two ids, two keys and two frames (states or errors), room for one session and two phones | what phones are replayed and forwarded, limits and slots |
| `RelayLink` | two plugin connections, two page connections, one page, one connection that drops or one call the office refuses, rotation after every frame | the link end to end, safety and liveness |
| `DirectSession` | one page, three hellos, rotation after 2, one command, one failure of any kind | what a page is sent it can read, keys stay usable across rotations, Retry recovers, the key rotates |
| `DirectReconnect` | one page, two hellos, one broken stream | counterexample: see findings |
| `SlideShow` | three slides, one hidden, two texts, a cache of two images, two moves of user or phone, images requested or pushed | type correctness, images fit revisions, no page loses its image to a late answer, the next command goes where announced, the image catches up |
| `SlideImages` | the same with three moves and requested images | counterexample: see findings |
| `RemoteServer` | three commands, one of them saving settings, two relay clients, two threads for the end of the desktop, two ports, two relays, one failure | ownership of transports, URLs that lead somewhere, settings that come back, saving starts nothing, the current client gets the slot, termination cleans up |
| `Pairing` | one session with one tunnel worker, two phones' connections, two images, one failure anywhere | images are removed, somebody starts the show for the first phone, the open dialog is right, the tunnel ends |
| `RelayRotation`, `RelayRejoin` | small | counterexamples: see findings |

Bounds. Four calls on two slots let one call be refused, one time out, one run
and one wait at once. Four hellos exceed the three key sets kept, so that one is
dropped; three nonces exceed the replay cache of two, and four frames sent let two
rotations fall due, with other hellos and answers in between. The scenes of `MCRelay` are
each large in one dimension: two plugins let one replace the other, two frames
exceed a frame cache of one, three phones and two ids exceed the room there is,
one client that vanishes may do so anywhere. Two connections of each kind let
plugin and page reconnect once each. Three hellos let an answer come in after the next
rotation; the last one stands for all later ones and is offered again when it is
lost (`LastIsLost`), so that the bound never stops the rotation. In `DirectSession` a page
derives keys for a hello at most twice and two key sets are kept, so that an old
one is dropped while a page may still use it. A stream holds
two events unread: a hello and its state. A hidden slide between two others makes
the numbers of the show and of the document differ; two moves change the slide
or its text between a state, a request and its answer, and go back again; a
page may have an image on its way when it reads the next state. Three commands
are a start, a save and a stop, or a stop and a second start while the thread of
the first client is still connecting; two clients let a former one meet its
successor. One worker suffices for the tunnel's end and its "error", since workers share
nothing but that status; two connections of phones race for being the first. One
failure at a time finds what a single failure can do; two at once are left to
the theorems, which have no such bound. The
counters that bound a model (`MaxHellos`, `MaxCommands`, `MaxObjects`,
`MaxAccepted`, `MaxFrames`, `MaxDerivations`, `MaxOrphans`, `MaxEvents`, `MaxFaults`,
`MaxMoves`, `MaxUnread`, `MaxAsked`, `MaxSaves`, `MaxMishaps`, and the fields of a
scene) are constants and appear in guards; the limits of the code (`MaxPending`, `MaxKeySets`,
`Rotation`, `CacheSize`, `MaxSessions`, `MaxPhones`, `MaxCached`, `CacheLimit`) are scaled
down. `MCRelay` hides with a VIEW what was sent to clients whose handler has
ended, on which nothing depends, and is symmetric in plugins and in the two
phones that come in every scene.

`CHECK_DEADLOCK FALSE` is given where the bounds let the model stop: all
connections used up, all messages sent, all commands given, the dialog gone and
the tunnel down. `UnoQueue` is checked for deadlock.

Fairness. `UnoQueue` assumes that callers' threads run and that a wait with a
timeout ends; nothing is assumed of the office thread, which a modal dialog can
stop. `RelayLink` assumes that the relay's tasks, the relay thread and the
pages' event loops run and deliver messages. Sending the state has strong
fairness: the thread's clock makes it send once a second however many of its
iterations find nothing to send (`relay_client.py` 356-363). `DirectSession`
assumes that requests and events get through unless they fail as above, that
handler threads run, and that the state goes on changing (the timer of a running
show changes it every second); `RetryRecovers` also assumes that the user presses
Retry when it is offered. In `DirectReconnect` the user does not. `SlideShow`
assumes that a show that starts gets its controller, that the stream's thread
runs, and that states, requests and answers get through. In a show the elapsed
time makes every state a new one (`elapsed_seconds`), so that states keep
coming; in the editor they do not, and an image that was refused because the
office was ahead for less than the 0.35 seconds between two looks is not asked
for again, which is why `ImageCatchesUp` speaks of shows. Over the relay it assumes the same of
the relay thread's iterations and of what they push. `RemoteServer` assumes that
the office's thread ends what it has begun, and that the threads of the shutdown
and of the relay clients run; the wait of two seconds for a relay thread always
ends. `Pairing` assumes that the tunnel's threads, the threads that report a
phone and the monitor run, that the user closes the monitor's messages, that the
office's thread cleans up once the dialog has ended, and that a stop that has
begun with the tunnel goes on to the server. Nobody has to
connect a page, press a button, give a command or lose a connection.

## 4. Findings

* `RelayRotation`: the first rotation of the send key ends the relay connection,
  because the next state goes out under the old key. The same happens when the
  thread reconnects and no phone has answered its hello within a tenth of a
  second.
* `RelayRejoin`: a second phone, or a reloaded page, cannot decrypt what it is
  replayed: the hello it gets has been used up.
* `DirectReconnect`: a page in direct mode closes its event stream for good at the
  first connection error, since its listener for the server's error events takes
  the browser's for one.
* `SlideImages`: slides with equal texts, or none, share a revision when they have
  the same number, so the cached image of another slide is served.

A fifth disagreement, met while modelling and without a run of its own: section 2,
`Pairing`, says when the show that `docs/user-guide.md` 52 promises is not started.

## 5. The proofs

All take the constants' assumptions only (named ASSUMEs of the modules, which
the runs evaluate). Every safety invariant and every action property that a
passing run checks is stated by a theorem. The larger invariants were given to
TLC as invariants of their runs before they were proved inductive.

* `UnoQueueProofs`. `NoSlotLeak` and `CapacityRespected` are not inductive:
  that a slot is given back follows only from where caller and office thread
  are. `IInv` adds `SlotInv`, which ties the table, the native queue and the
  program counters; `Inductive` proves it step by step, and `TypeCorrect`,
  `SlotsAreNotLost` and `TableIsBounded` follow. `QueueImplementsOfficeCalls`
  is the refinement: each step maps to a step of `OfficeCalls` or a stutter.
* `SecureCodecProofs`. `CodecInv` adds to the type invariant that key ids offered
  and key ids installed are disjoint and that the order of key sets lists each
  once; `CodecTypeCorrect`, `KeyTableIsConsistent`, `HellosAreUsedOnce` and,
  as action properties, `RotationKeepsPreviousKey` and `KeySetsNeverChange`
  follow. The types bound neither the counter of frames, which has no bound, nor
  the number of key sets, which `KeyTableConsistent` does. `RotationIsPaced` rests
  on nothing but that the counts are numbers: a rotation that is due gives up the
  `Rotation` frames its own count stands for. `NoFrameIsReplayed` is
  about the history of accepted frames that
  `MCSecureCodec` keeps, without its bounds (`HistorySpec`, which
  `BoundedHistory` shows to allow every step of the run): the cache holds the
  newest of the accepted nonces in their order, as many as it has room for
  (`HistoryInv`), and a key set that is installed is a new one with no history.
* `RelayProofs`, in four parts.
  1. The relay with clients that send anything at any time (`OpenSpec`). The
     limit on phones is not inductive: `HasRoom` counts the phones listed in the
     session, the property the sockets that are connected, so `RelayInv` adds that
     a connected phone is listed in the session object its handler holds, that the
     listed phones with an open socket are within the limit, and that unused
     objects are fresh. Every handler step touches one object (`ObjectStep`) or
     none (`QuietStep`); these two lemmas carry the invariant. `RelayTypeCorrect`,
     `CacheIsOfOneHello`, `PhonesAreBounded` and, as an action property,
     `SlotsAreReleasedByOwners` follow.
  2. `HelloBeforeFrames` for plugins that send no frame under a key whose hello
     another is still sending (`HonestSpec`). Without that it is false from three
     plugins on: one that comes while another waits for the old one to close
     enters at once, both are then open, and a frame of one under the other's key
     may overtake the hello. The invariant `KInv` says that each phone of a
     session with an open socket has been sent its hello, or that it is on its way
     from a plugin that can send nothing else before it has, or has failed and is
     about to close the phone (`PhonesInv`); then what is replayed (`ReplayInv`)
     and forwarded (`LiveInv`) may be sent at any time. Every step keeps what has
     been announced (`Grows`), so each part is kept by a lemma of its own.
  3. `NoMessageTwice` for plugins that send what the relay holds no copy of
     (`FreshSpec`). The invariant `ApartInv` says that what a phone has been sent,
     what is left to replay to it and what each plugin is sending it are different
     messages, and that the cache and the hello of a session, which a joining phone
     gets, are too. A phone that joins while a frame is being forwarded is not
     among its receivers and finds it in the cache, and nothing but that moment
     decides which of the two it is.
  4. The clients of `RelayClients` meet both conditions (`ClientsAreHonestAndFresh`),
     so that `PhonesCanFollow` states both properties of them; a step of `MCRelay`
     is one of theirs. The relay makes no message of its own (`ServerHands`,
     `ReceiveHands`), so whatever it holds a plugin has made (`KnownInv`), and a
     new key or number is new everywhere.
* `RelayLinkProofs`, the composition end to end with any number of devices,
  connections, hellos, commands and failures. It rests on `RelayInv` and
  `CodecInv`, whose lemmas apply since a step of the link is one of the relay
  (`OpenNext`), of the codec, or of neither. `AgreeInv` has the types
  (`TypesInv`, which says for each leg of the way who says what there) and two
  things `KeyAgreement` needs: a connection is used once, so that the
  ephemeral of an answer names the page that gave it (`UsedOnce`), and every
  answer on its way, at the page, the relay or the plugin, names a connection
  whose page, if it is still on it, has its keys (`AnswersOK`). `LinkTypeCorrect`
  and `KeysAgree` follow from `AgreeInductive`. `LinkInv` adds what
  `CommandsReadable` needs. As long as the thread has had one connection
  (`OnlyPlugin`: that connection holds the slot of its session) an answer is
  ahead of the commands under its key on every leg: from the page
  (`KeysFollow`, `CommandsFollow`), while the relay forwards it
  (`SendingFollows`) and in what has reached the plugin (`ArrivalsFollow`). The
  nonces of a connection's commands grow along the way and those in the replay
  cache are behind them (`NoncesOK`), so that no command is taken for a replay.
  `CommandsAreReadable` follows from `LinkInductive`.
* `DirectSessionProofs`. `DirectInv` has the types, the codec's invariant, and
  where things come from: a page holds keys for a hello only if the hello was
  made, every ephemeral on its way or installed is one some page has made for
  that hello, and the nonces of commands on their way have not been used.
  `KeptUntilFull` of the codec (a key set leaves the table only when the table
  is full) carries the rest. `DirectTypeCorrect`, `FramesAreReadable` and
  `NegotiatedCommandsAreReadable` follow from `DirectInductive`.
* `SlideShowProofs`. Four of the five properties of `SlideShow`, for any deck,
  show order, cache size and bounds. `ImagesMatchRevision` is not inductive: what
  is shown next may be an image that was pushed ahead of its state, so `TextInv`
  speaks of those, too. For `ShownOrOnItsWay`, that the thread takes an image for
  sent has to mean that it is the *last* image of its slot on its way, or has
  arrived (`PushedInv`); that it is on its way somewhere is not enough, since an
  older image behind it would replace it. `RememberedIsGood` is what the cache
  does, `ImageForType` why an image rendered or taken from the cache fits. `TypeCorrect`,
  `ImagesFit`, `PageIsNotForgotten` and, as an action property,
  `NextGoesAsReported` follow.
* `PairingProofs`. That every image on disk is the one the dialog knows needs that
  none is there while the monitor is about to draw one (`QrInv`). That somebody has
  called the office for a connected phone needs that a thread which saw
  `client_connected` set before it (`"later"`) exists only after one that did not
  (`PhoneInv`).
* `RemoteServerProofs`. `TransportsAreOwned` rests on where the threads are:
  one thread at a time stops the remote, and the office's thread is idle when the
  desktop terminates (`ExclusiveInv`); a thread that is stopping a relay client has
  one (`ClientInv`), and a thread that makes one finds one to make (`SupplyInv`);
  whatever an unwanted remote still has, a thread is about to take (`WantedInv`).
  `SettingsSurvive` needs only that what the stores hold can be loaded
  (`StoreInv`).
  `UrlsAreBacked` and, as an action property, `SavingStartsNothing` need what a
  remote has between the steps of a command, too: at rest (`SteadyInv`), while
  settings are saved (`SavingInv`) and while it is stopped (`StoppingInv`).

Two properties had held in their runs because of the bounds only, as the proofs
showed, and are now stated with their exceptions (`SoleAnswer` and `StillKept` in
`DirectSession`, `OutOfReach` in `RelayLink`; section 2 says what the code does
there).

Only model-checked: all liveness (`EveryCallAnswered`, `FirstPhoneGoesLive`,
`RetryRecovers`, `KeysRotate`, `ImageCatchesUp`, `CurrentClientConnects`,
`TerminationCleansUp`, `OpenDialogIsRight`, `TunnelEnds`), since fairness and
ENABLED are beyond the prover. No module uses recursion.

## 6. Not modelled, and abstractions

Cryptography is perfect. Channels are reliable until the connection ends and
carry whole messages. In the code a timeout inside a message ends the connection,
which is a step of the models; one inside the header of a websocket frame loses
the bytes read so far (`relay_client.py` 131-161) and is not modelled.
`decryptRelayFrame` and `sendRelayCommand` are single steps. The keys of an old
hello are derived (some milliseconds) before the page reconnects (1.5 seconds
later). Asset frames are frames like state frames and are not sent separately in
`RelayLink`; which images they carry is in `SlideShow`. Presence probes and
statuses shown to the user are left out.

Of the relay: a plugin that replaces another while no phone is connected is left
in a session object that is no longer in the table (`relay/relay.py` 497-504,
556-573). The model has these steps; no property says that the peers of one id
always meet, because they do not.

Of the life cycle: `update_config(restart_runtime=True)` and `apply_config` are
called by tests only. The feature flags (tunnel, IPv6, relay) are taken as
enabled. Whether the tunnel is ready is left to `Pairing`, which in turn has one
session and no other route. Status listeners, menus and message texts are left
out.

Not modelled at all: the QR encoder is a vendored pure algorithm on bit matrices;
the cryptographic primitives work on integers far beyond TLC; address discovery,
texts and paths have no state that changes; the relay's command line, scripts and
type stubs are not part of the running program.

## 7. Plan

Done: the queue, the codec, the relay, the link, the direct session with one page,
controller and images in both modes, settings and life cycle, tunnel and pairing,
and the proofs of section 5. Left, in this order:

1. `PhonePage`: the page's connection manager with the Retry button and its
   timeouts (`closeSocket`, `scheduleReconnect`, `connectRelay`), where a socket
   that is replaced still has its close listener. Properties: one live socket, a
   page that can connect ends up connected.
2. `DirectSession`: the polling of browsers without EventSource, the plaintext
   fallback, and a second page or a reload, which gets a hello that has been used
   up and waits for a rotation.
3. The framing of the websocket with its timeouts.
4. Proofs: what follows from the modules above; that the relay between thread
   and pages of `RelayLink` keeps `HelloBeforeFrames` and `NoMessageTwice` with the
   clients composed there.
