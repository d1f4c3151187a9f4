---------------------------- MODULE DirectSession ----------------------------
(***************************************************************************)
(* The encrypted session over HTTP: SecureDirectSession and its request    *)
(* handlers (extension/python/local_server.py, 275-350, 1043-1111,         *)
(* 1312-1420) with phone pages in the direct modes (shared/webui/app.js,   *)
(* 551-612, 800-855, 1136-1371).                                           *)
(*                                                                         *)
(* A page is one load of app.js; a reload is another page.  A page has an  *)
(* event stream, served by a handler thread, and sends requests that are   *)
(* handled in any order.  A request is handled and answered in one step:   *)
(* what else the page and the server do before the answer arrives they     *)
(* may as well do before the request does.  The j-th key pair a page makes *)
(* for a key id is the ephemeral <<page, j>>.  A nonce stands for the      *)
(* command encrypted with it.                                              *)
(***************************************************************************)
EXTENDS SecureCodec

CONSTANTS
  Pages,           \* loads of the page that have the pairing link
  MaxDerivations,  \* bound of the model: key pairs a page makes for one key id
  MaxOrphans,      \* bound of the model: threads that still write to a page that has gone
  MaxEvents,       \* bound of the model: events on their way in a stream
  Faults,          \* failures considered: "drop", "busy", "lost"
  MaxFaults        \* bound of the model: how many of them happen

ASSUME DirectAssumption ==
  /\ Ephemerals = Pages \X (1..MaxDerivations)
  /\ MaxHellos > 0
  /\ MaxDerivations \in Nat /\ MaxOrphans \in Nat

VARIABLES
  phase,       \* connectionPhase of each page
  wasLive,     \* hasEverConnected
  keyring,     \* codec.keys: the ephemeral made for each key id
  using,       \* codec.activeKeyId, 0 as long as there is no codec
  deriving,    \* hellos keys are being derived for, each with what comes then
  encrypting,  \* commands being encrypted
  stream,      \* does the page have an eventSource
  handler,     \* the thread that serves it
  events,      \* what the thread has written and the page has not read
  asked,       \* requests of each page to be handled
  posts,       \* phone hellos to be handled
  commands,    \* command frames to be handled
  tapped,      \* commands there have been
  orphans,     \* handler threads whose page has gone
  greeted,     \* client_connected
  faults       \* failures so far

pageVars == <<phase, wasLive, keyring, using, deriving, encrypting, asked>>
streamVars == <<stream, handler, events, orphans>>
sentVars == <<posts, commands, tapped>>
directVars == <<codecVars, pageVars, streamVars, sentVars, greeted, faults>>

NoKeys == [k \in Keys |-> NoPeer]

\* What a page does once its answer to a hello is accepted: open the stream,
\* nothing, or read the frame that came with the hello.
Then(what, k, e) == [what |-> what, key |-> k, eph |-> e]
Connect == Then("connect", 0, NoPeer)
Continue == Then("stream", 0, NoPeer)

HelloEvent(k) == [type |-> "hello", key |-> k, eph |-> NoPeer]
StateEvent(k, e) == [type |-> "state", key |-> k, eph |-> e]
Opened == [type |-> "open", key |-> 0, eph |-> NoPeer]
\* The stream ends, or an error event closes it.
Ended == [type |-> "end", key |-> 0, eph |-> NoPeer]

\* SecureDirectSession.__init__ offers the first key.
DirectInit ==
  /\ offered = 1 /\ pending = {1}
  /\ peer = NoKeys /\ order = <<>> /\ active = 0 /\ sent = 0
  /\ replay = [k \in Keys |-> <<>>]
  /\ phase = [p \in Pages |-> "unloaded"]
  /\ wasLive = [p \in Pages |-> FALSE]
  /\ keyring = [p \in Pages |-> NoKeys]
  /\ using = [p \in Pages |-> 0]
  /\ deriving = [p \in Pages |-> {}]
  /\ encrypting = [p \in Pages |-> {}]
  /\ stream = [p \in Pages |-> "none"]
  /\ handler = [p \in Pages |-> "none"]
  /\ events = [p \in Pages |-> <<>>]
  /\ asked = [p \in Pages |-> {}]
  /\ posts = {} /\ commands = {} /\ tapped = {}
  /\ orphans = 0
  /\ greeted = FALSE
  /\ faults = 0

Fault(f) == f \in Faults /\ faults < MaxFaults /\ faults' = faults + 1

-----------------------------------------------------------------------------
(* The codec behind the handlers.                                          *)

\* The last hello stands for all later ones: once lost, it is offered again.
LastIsLost ==
  /\ offered = MaxHellos /\ MaxHellos \in pending
  /\ \A p \in Pages :
       /\ keyring[p][MaxHellos] = NoPeer
       /\ \A d \in deriving[p] : d.key # MaxHellos
       /\ \A i \in DOMAIN events[p] : events[p][i] # HelloEvent(MaxHellos)

Rotates == ShouldRotateSendKey /\ (offered < MaxHellos \/ LastIsLost)

NextHello == IF offered < MaxHellos THEN offered + 1 ELSE MaxHellos

\* A rotation that is due starts the count again before the frame is encoded,
\* also one for which the last hello, still on its way, stands.
CountOfNextFrame == IF ShouldRotateSendKey THEN 1 ELSE sent + 1

\* Variant that takes back the hellos that were not answered in time.
RespondForgettingOffers ==
  /\ Ready
  /\ IF Rotates
     THEN offered' = NextHello /\ pending' = {NextHello}
     ELSE UNCHANGED <<offered, pending>>
  /\ sent' = CountOfNextFrame
  /\ UNCHANGED <<peer, order, active, replay>>

\* Variant that sends with the new key before the page has answered.
RespondSwitchingAtOnce ==
  /\ Ready
  /\ IF Rotates
     THEN offered' = NextHello /\ pending' = pending \cup {NextHello} /\ active' = NextHello
     ELSE UNCHANGED <<offered, pending, active>>
  /\ sent' = CountOfNextFrame
  /\ UNCHANGED <<peer, order, replay>>

\* state_response and asset_response: rotate if needed, then encode a frame,
\* which is still under the old key.
Respond ==
  /\ Ready
  /\ IF Rotates
     THEN offered' = NextHello /\ pending' = pending \cup {NextHello}
     ELSE UNCHANGED <<offered, pending>>
  /\ sent' = CountOfNextFrame
  /\ UNCHANGED <<peer, order, active, replay>>

-----------------------------------------------------------------------------
(* Phases of a page and its stream.                                        *)

Loaded(p) == phase[p] # "unloaded"

Becomes(p, x) == phase' = [phase EXCEPT ![p] = x]

\* showTransportError
GoesOffline(p) == Becomes(p, "offline") /\ UNCHANGED wasLive

GoesLive(p) == Becomes(p, "live") /\ wasLive' = [wasLive EXCEPT ![p] = TRUE]

\* The thread of the page's stream, if it has one, finds out at its next write.
Abandoned(p) ==
  orphans' = IF handler[p] = "none" \/ orphans = MaxOrphans THEN orphans ELSE orphans + 1

\* new EventSource, after the old one has been closed.
OpenStream(p) ==
  /\ stream' = [stream EXCEPT ![p] = "open"]
  /\ handler' = [handler EXCEPT ![p] = "start"]
  /\ events' = [events EXCEPT ![p] = <<>>]
  /\ Abandoned(p)

\* Variant whose server thread outlives the stream as if it had a reader.
CloseStreamOnPage(p) ==
  /\ stream' = [stream EXCEPT ![p] = "none"]
  /\ events' = [events EXCEPT ![p] = <<>>]
  /\ UNCHANGED <<handler, orphans>>

CloseStream(p) ==
  /\ stream' = [stream EXCEPT ![p] = "none"]
  /\ handler' = [handler EXCEPT ![p] = "none"]
  /\ events' = [events EXCEPT ![p] = <<>>]
  /\ Abandoned(p)

\* A frame reaches the page.  A state is rendered, and may ask for an image.
Reads(p, what, k, e, rest) ==
  \/ /\ keyring[p][k] = e /\ what = "state"
     /\ GoesLive(p)
     /\ \E more \in SUBSET {"image"} : asked' = [asked EXCEPT ![p] = rest \cup more]
  \/ /\ keyring[p][k] = e /\ what = "image"
     /\ asked' = [asked EXCEPT ![p] = rest]
     /\ UNCHANGED <<phase, wasLive>>
  \/ /\ keyring[p][k] # e
     /\ asked' = [asked EXCEPT ![p] = rest]
     /\ GoesOffline(p)

-----------------------------------------------------------------------------
(* Connecting.                                                             *)

\* bootstrap and connectSecureDirectEvents: the page asks for the hello.
Load(p) ==
  /\ phase[p] = "unloaded"
  /\ Becomes(p, "connecting")
  /\ asked' = [asked EXCEPT ![p] = {"handshake"}]
  /\ UNCHANGED <<codecVars, wasLive, keyring, using, deriving, encrypting, streamVars,
                 sentVars, greeted, faults>>

\* GET handshake: the last hello made, whether answered or not.
GetHandshake(p) ==
  /\ "handshake" \in asked[p]
  /\ asked' = [asked EXCEPT ![p] = @ \ {"handshake"}]
  /\ deriving' = [deriving EXCEPT ![p] = @ \cup {[key |-> offered, next |-> Connect]}]
  /\ UNCHANGED <<codecVars, phase, wasLive, keyring, using, encrypting, streamVars,
                 sentVars, greeted, faults>>

Made(p, k) == IF keyring[p][k] = NoPeer THEN 0 ELSE keyring[p][k][2]

\* applySecureHelloPayload: the derived keys are stored and used at once, and
\* the page's public key is posted.
Derive(p, d) ==
  /\ d \in deriving[p]
  /\ Made(p, d.key) < MaxDerivations
  /\ LET e == <<p, Made(p, d.key) + 1>>
     IN /\ keyring' = [keyring EXCEPT ![p][d.key] = e]
        /\ posts' = posts \cup {[page |-> p, key |-> d.key, eph |-> e, next |-> d.next]}
  /\ using' = [using EXCEPT ![p] = d.key]
  /\ deriving' = [deriving EXCEPT ![p] = @ \ {d}]
  /\ UNCHANGED <<codecVars, phase, wasLive, encrypting, asked, streamVars, commands, tapped,
                 greeted, faults>>

\* The page's continuation when its answer was accepted.
Goes(p, next) ==
  \/ /\ next.what = "connect"
     /\ OpenStream(p)
     /\ UNCHANGED <<phase, wasLive, asked>>
  \/ /\ next.what = "stream"
     /\ wasLive' = [wasLive EXCEPT ![p] = TRUE]
     /\ Becomes(p, IF phase[p] = "offline" THEN "offline" ELSE "live")
     /\ UNCHANGED <<asked, streamVars>>
  \/ /\ next.what \in {"state", "image"}
     /\ Reads(p, next.what, next.key, next.eph, asked[p])
     /\ UNCHANGED streamVars

\* POST handshake.  The first client also starts the presentation, for which
\* the office may be too busy: the hello is applied, the answer is 503.
PostHandshake(m) ==
  /\ m \in posts
  /\ posts' = posts \ {m}
  /\ \/ /\ ApplyPhoneHello(m.key, m.eph)
        /\ greeted' = TRUE
        /\ \/ Goes(m.page, m.next) /\ UNCHANGED faults
           \/ ~greeted /\ Fault("busy") /\ GoesOffline(m.page) /\ UNCHANGED <<asked, streamVars>>
     \/ /\ m.key \notin pending
        /\ GoesOffline(m.page)
        /\ UNCHANGED <<codecVars, greeted, faults, asked, streamVars>>
  /\ UNCHANGED <<keyring, using, deriving, encrypting, commands, tapped>>

\* The request never gets to the server; the model's last answer does.
PostLost(m) ==
  /\ m \in posts
  /\ m.key < MaxHellos
  /\ Fault("lost")
  /\ posts' = posts \ {m}
  /\ GoesOffline(m.page)
  /\ UNCHANGED <<codecVars, keyring, using, deriving, encrypting, asked, streamVars,
                 commands, tapped, greeted>>

\* The Retry button.
Retry(p) ==
  /\ phase[p] = "offline"
  /\ Becomes(p, IF wasLive[p] THEN "reconnecting" ELSE "connecting")
  /\ IF using[p] # 0
     THEN OpenStream(p) /\ UNCHANGED asked
     ELSE CloseStream(p) /\ asked' = [asked EXCEPT ![p] = @ \cup {"handshake"}]
  /\ UNCHANGED <<codecVars, wasLive, keyring, using, deriving, encrypting, sentVars,
                 greeted, faults>>
-----------------------------------------------------------------------------
(* The event stream (_event_stream_secure) and its events on the page.     *)

Writes(p, s) ==
  /\ Len(events[p]) + Len(s) <= MaxEvents
  /\ events' = [events EXCEPT ![p] = @ \o s]

\* Variant that sends none.
StreamStartsSilently(p) ==
  /\ handler[p] = "start"
  /\ Writes(p, <<Opened>>)
  /\ handler' = [handler EXCEPT ![p] = "running"]
  /\ greeted' = TRUE
  /\ UNCHANGED <<codecVars, pageVars, stream, orphans, sentVars, faults>>

\* The response starts; a hello follows if no phone has answered one yet.
StreamStarts(p) ==
  /\ handler[p] = "start"
  /\ Writes(p, <<Opened>> \o IF Ready THEN <<>> ELSE <<HelloEvent(offered)>>)
  /\ handler' = [handler EXCEPT ![p] = "running"]
  /\ greeted' = TRUE
  /\ UNCHANGED <<codecVars, pageVars, stream, orphans, sentVars, faults>>

\* Variant that keeps the hello of a rotation to itself.
StreamWritesFrameOnly(p) ==
  /\ handler[p] = "running"
  /\ Respond
  /\ Writes(p, <<StateEvent(active, peer[active])>>)
  /\ UNCHANGED <<pageVars, stream, handler, orphans, sentVars, greeted, faults>>

\* The state has changed: it is written, behind the hello of a rotation.
StreamWrites(p) ==
  /\ handler[p] = "running"
  /\ Respond
  /\ Writes(p, (IF Rotates THEN <<HelloEvent(NextHello)>> ELSE <<>>)
                 \o <<StateEvent(active, peer[active])>>)
  /\ UNCHANGED <<pageVars, stream, handler, orphans, sentVars, greeted, faults>>

\* Without a key the thread fails at its first state, and so it does when the
\* office is too busy to tell the state or to start for the first client.
StreamFails(p) ==
  /\ \/ handler[p] = "running" /\ ~Ready /\ UNCHANGED faults
     \/ handler[p] = "running" /\ Ready /\ Fault("busy")
     \/ handler[p] = "start" /\ ~greeted /\ Fault("busy")
  /\ Writes(p, <<Ended>>)
  /\ handler' = [handler EXCEPT ![p] = "none"]
  /\ greeted' = TRUE
  /\ UNCHANGED <<codecVars, pageVars, stream, orphans, sentVars>>

\* A thread writes one state more to a page that has gone, or notices before.
OrphanEnds ==
  /\ orphans > 0
  /\ orphans' = orphans - 1
  /\ Respond \/ UNCHANGED codecVars
  /\ UNCHANGED <<pageVars, stream, handler, events, sentVars, greeted, faults>>

\* The connection breaks.  The page's own "error" listener takes the browser's
\* error event for one of the server's, closes the stream and gives up.
StreamDrops(p) ==
  /\ stream[p] = "open"
  /\ Fault("drop")
  /\ CloseStream(p)
  /\ GoesOffline(p)
  /\ UNCHANGED <<codecVars, keyring, using, deriving, encrypting, asked, sentVars, greeted>>

PageReceives(p) ==
  /\ stream[p] = "open"
  /\ events[p] # <<>>
  /\ LET m == Head(events[p])
         taken == /\ events' = [events EXCEPT ![p] = Tail(@)]
                  /\ UNCHANGED <<stream, handler, orphans>>
     IN \/ /\ m.type = "open" /\ taken
           /\ Becomes(p, IF wasLive[p] THEN "live" ELSE "connecting")
           /\ UNCHANGED <<wasLive, deriving, asked>>
        \/ /\ m.type = "hello" /\ taken
           /\ deriving' = [deriving EXCEPT ![p] = @ \cup {[key |-> m.key, next |-> Continue]}]
           /\ UNCHANGED <<phase, wasLive, asked>>
        \/ /\ m.type = "state" /\ taken
           /\ \/ keyring[p][m.key] # NoPeer /\ Reads(p, "state", m.key, m.eph, asked[p])
              \/ keyring[p][m.key] = NoPeer /\ UNCHANGED <<phase, wasLive, asked>>
           /\ UNCHANGED deriving
        \/ /\ m.type = "end"
           /\ CloseStream(p)
           /\ GoesOffline(p)
           /\ UNCHANGED <<deriving, asked>>
  /\ UNCHANGED <<codecVars, keyring, using, encrypting, sentVars, greeted, faults>>

-----------------------------------------------------------------------------
(* Slide images, state snapshots and commands.                             *)

\* The response may bring a hello, whose keys are derived and whose answer is
\* accepted before the frame is read.
ServeFetch(p, what) ==
  /\ what \in asked[p] \cap {"image", "state"}
  /\ Respond
  /\ IF Rotates
     THEN /\ deriving' = [deriving EXCEPT ![p] = @ \cup
               {[key |-> NextHello, next |-> Then(what, active, peer[active])]}]
          /\ asked' = [asked EXCEPT ![p] = @ \ {what}]
          /\ UNCHANGED <<phase, wasLive>>
     ELSE Reads(p, what, active, peer[active], asked[p] \ {what}) /\ UNCHANGED deriving
  /\ UNCHANGED <<keyring, using, encrypting, streamVars, sentVars, greeted, faults>>

\* 409 for an image that is out of date, an error without a key, 503 when the
\* office is busy.
RefuseFetch(p, what) ==
  /\ what \in asked[p] \cap {"image", "state"}
  /\ \/ (what = "image" \/ ~Ready) /\ UNCHANGED faults
     \/ Fault("busy")
  /\ asked' = [asked EXCEPT ![p] = @ \ {what}]
  /\ GoesOffline(p)
  /\ UNCHANGED <<codecVars, keyring, using, deriving, encrypting, streamVars, sentVars, greeted>>

\* buildSecureCommandFrame up to its await.
Tap(p, n) ==
  /\ phase[p] = "live"
  /\ using[p] # 0
  /\ n \notin tapped
  /\ tapped' = tapped \cup {n}
  /\ encrypting' = [encrypting EXCEPT ![p] = @ \cup
       {[nonce |-> n, key |-> using[p], eph |-> keyring[p][using[p]]]}]
  /\ UNCHANGED <<codecVars, phase, wasLive, keyring, using, deriving, asked, streamVars,
                 posts, commands, greeted, faults>>

\* The frame names the key in use after the await, not the one it is
\* encrypted with.
PostCommand(p, c) ==
  /\ c \in encrypting[p]
  /\ encrypting' = [encrypting EXCEPT ![p] = @ \ {c}]
  /\ commands' = commands \cup
       {[page |-> p, nonce |-> c.nonce, named |-> using[p], key |-> c.key, eph |-> c.eph]}
  /\ UNCHANGED <<codecVars, phase, wasLive, keyring, using, deriving, asked, streamVars,
                 posts, tapped, greeted, faults>>

Accepted(c) == c.named = c.key /\ DecodeResult(c.key, c.eph, c.nonce) = "accepted"

\* POST command.  A page without a stream asks for the state afterwards.
ServeCommand(c) ==
  /\ c \in commands
  /\ commands' = commands \ {c}
  /\ \/ /\ Accepted(c)
        /\ DecodeFrame(c.key, c.eph, c.nonce)
        /\ \/ /\ asked' = IF stream[c.page] = "none"
                          THEN [asked EXCEPT ![c.page] = @ \cup {"state"}] ELSE asked
              /\ UNCHANGED <<phase, wasLive, faults>>
           \/ Fault("busy") /\ GoesOffline(c.page) /\ UNCHANGED asked
     \/ ~Accepted(c) /\ GoesOffline(c.page) /\ UNCHANGED <<codecVars, asked, faults>>
  /\ UNCHANGED <<keyring, using, deriving, encrypting, streamVars, posts, tapped, greeted>>

-----------------------------------------------------------------------------
DirectNext ==
  \/ \E p \in Pages :
       \/ Load(p) \/ GetHandshake(p) \/ Retry(p)
       \/ StreamStarts(p) \/ StreamWrites(p) \/ StreamFails(p) \/ StreamDrops(p)
       \/ PageReceives(p)
       \/ \E d \in deriving[p] : Derive(p, d)
       \/ \E what \in {"image", "state"} : ServeFetch(p, what) \/ RefuseFetch(p, what)
       \/ \E n \in Nonces : Tap(p, n)
       \/ \E c \in encrypting[p] : PostCommand(p, c)
  \/ \E m \in posts : PostHandshake(m) \/ PostLost(m)
  \/ \E c \in commands : ServeCommand(c)
  \/ OrphanEnds

\* Requests get through, threads run and the state goes on changing.
Served(p) ==
  /\ WF_directVars(Load(p))
  /\ WF_directVars(GetHandshake(p))
  /\ WF_directVars(\E d \in deriving[p] : Derive(p, d))
  /\ WF_directVars(\E m \in posts : m.page = p /\ PostHandshake(m))
  /\ WF_directVars(StreamStarts(p))
  /\ WF_directVars(StreamWrites(p))
  /\ WF_directVars(handler[p] = "running" /\ ~Ready /\ StreamFails(p))
  /\ WF_directVars(PageReceives(p))

AutomaticSpec == DirectInit /\ [][DirectNext]_directVars /\ \A p \in Pages : Served(p)

\* The user presses Retry when the page offers it.
DirectSpec == AutomaticSpec /\ \A p \in Pages : WF_directVars(Retry(p))

-----------------------------------------------------------------------------
DirectTypeOK ==
  /\ CodecTypeOK
  /\ \A p \in Pages :
       /\ phase[p] \in {"unloaded", "connecting", "live", "reconnecting", "offline"}
       /\ keyring[p] \in [Keys -> {NoPeer} \cup ({p} \X (1..MaxDerivations))]
       /\ using[p] # 0 => keyring[p][using[p]] # NoPeer
       /\ asked[p] \subseteq {"handshake", "image", "state"}
       /\ \A c \in encrypting[p] : c.nonce \in tapped
       /\ handler[p] # "none" => stream[p] = "open"
       /\ stream[p] = "none" => events[p] = <<>>
  /\ \A c \in commands : c.nonce \in tapped
  /\ tapped \subseteq Nonces
  /\ orphans \in 0..MaxOrphans

\* Nobody but page p has made keys for key id k, and p has done so once.
SoleAnswer(p, k) == \A q \in Pages : Made(q, k) = IF q = p THEN 1 ELSE 0

(***************************************************************************)
(* A page reads the state frames it is sent: the server encrypts with the  *)
(* keys the page holds for the key id (local_server 308-312, app.js        *)
(* 1136-1157), unless another page has answered the key's hello, or the    *)
(* page itself was given that hello again and answered it twice.           *)
(***************************************************************************)
FramesReadable ==
  \A p \in Pages : \A i \in DOMAIN events[p] :
    LET m == events[p][i]
    IN (m.type = "state" /\ SoleAnswer(p, m.key)) => keyring[p][m.key] = m.eph

\* The key set of an answered hello k has not had to make room for newer ones.
StillKept(k) == k \notin pending /\ (k \in Table \/ Len(order) < MaxKeySets)

(***************************************************************************)
(* A command named for the key it is encrypted with is accepted if that    *)
(* key's hello waits for no answer any more, and none but this page has    *)
(* answered it: neither answers in another order nor further rotations,    *)
(* until MaxKeySets keys are newer, take the key away while the command is *)
(* on its way (local_server.py 336-350, protocol.py 344-422).              *)
(***************************************************************************)
NegotiatedCommandsReadable ==
  \A c \in commands :
    (c.named = c.key /\ StillKept(c.key) /\ SoleAnswer(c.page, c.key)) => Accepted(c)

(***************************************************************************)
(* A page that has gone offline is live again sooner or later if its user  *)
(* presses Retry (app.js 831-855).                                         *)
(***************************************************************************)
RetryRecovers == \A p \in Pages : (phase[p] = "offline") ~> (phase[p] = "live")

(***************************************************************************)
(* The first key does not stay in use for good if a page keeps a stream in *)
(* the end: the hello of a rotation gets to it, is answered, and the       *)
(* answer takes effect, whatever hellos were lost with earlier streams     *)
(* (local_server.py 345-350).                                              *)
(***************************************************************************)
KeysRotate ==
  \A p \in Pages :
    <>[](stream[p] = "open" /\ phase[p] # "offline") => <>(active > 1)

(***************************************************************************)
(* "Upgraded the local browser remote ... to server-push updates with      *)
(* reconnect and offline handling" (CHANGELOG.md 674): a page whose stream *)
(* breaks opens another by itself (app.js 1270-1285).                      *)
(***************************************************************************)
StreamReconnects ==
  \A p \in Pages : (wasLive[p] /\ stream[p] = "none") ~> (stream[p] = "open")
=============================================================================
