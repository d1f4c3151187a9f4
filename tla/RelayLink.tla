------------------------------ MODULE RelayLink ------------------------------
(***************************************************************************)
(* The encrypted link over the relay, end to end: the plugin's relay       *)
(* thread (extension/python/relay_client.py, 314-431) with its codec, the  *)
(* relay server, and phone pages in relay mode (shared/webui/app.js,       *)
(* 976-984, 1136-1141, 1373-1576), joined by FIFO channels.                *)
(*                                                                         *)
(* A websocket connection is a member of Plugins or Phones and is used     *)
(* once; reconnecting takes another.  A phone page makes a new ephemeral   *)
(* for every hello it answers, and gets a hello at most once per           *)
(* connection, so the connection names the ephemeral.  The body of a frame *)
(* is the ephemeral of the key set that encrypted it: whoever holds        *)
(* another one for the same key id cannot decrypt it.  That of the         *)
(* plugin's hello is its own key, which plays no further part.             *)
(*                                                                         *)
(* The thread waits for the office in the middle of an iteration, for the  *)
(* state, an image or a command; when the office's queue is full, or the   *)
(* office takes too long, the connection is the price (OfficeRefuses).     *)
(***************************************************************************)
EXTENDS Relay, SecureCodec

CONSTANTS
  Session,      \* the one session id in use
  Devices,      \* phone pages that have the pairing link
  MaxCommands,  \* bound of the model: commands the phones send
  Fragile,      \* bound of the model: connections the network may drop
  MaxFaults     \* bound of the model: dropped connections and refusals of the office

ASSUME LinkAssumption ==
  /\ Ids = {Session} /\ KeyIds = Keys /\ Ephemerals = Phones
  /\ Bodies = {NoPeer} \cup Phones \cup [peer : Phones, nonce : Nonces]
  /\ MaxCommands \in Nat /\ 1..MaxCommands \subseteq Nonces
  /\ MaxFaults \in Nat /\ IsFiniteSet(Fragile)

VARIABLES
  thread,       \* where the relay thread is
  socket,       \* its websocket
  resend,       \* last_state_message was cleared: the state must be sent again
  page,         \* the websocket of each page
  phase,        \* connectionPhase of each page ("reconnecting" is "connecting")
  keyring,      \* codec.keys of each page: the ephemeral it used for each key id
  using,        \* codec.activeKeyId of each page
  deriving,     \* hellos each page has received and not yet derived keys for
  toRelay,      \* messages on their way to the relay
  gone,         \* connections their client has closed
  commands,     \* commands the phones have sent
  refusals      \* calls the office has not answered

clientVars == <<thread, socket, resend, page, phase, keyring, using, deriving, gone, commands, refusals>>

linkVars == <<relayVars, codecVars, toRelay, clientVars>>

NoKeys == [k \in Keys |-> NoPeer]

Init ==
  /\ RelayInit
  /\ CodecInit
  /\ thread = "down"
  /\ socket = NoConn
  /\ resend = FALSE
  /\ page = [d \in Devices |-> NoConn]
  /\ phase = [d \in Devices |-> "connecting"]
  /\ keyring = [d \in Devices |-> NoKeys]
  /\ using = [d \in Devices |-> 0]
  /\ deriving = [d \in Devices |-> {}]
  /\ toRelay = [c \in Conns |-> <<>>]
  /\ gone = {}
  /\ commands = 0
  /\ refusals = 0

-----------------------------------------------------------------------------
(* The relay.                                                              *)

Reads(c) ==
  /\ toRelay[c] # <<>>
  /\ Receive(c, Head(toRelay[c])) \/ RejectInvalid(c, Head(toRelay[c]))
  /\ toRelay' = [toRelay EXCEPT ![c] = Tail(@)]
  /\ UNCHANGED <<codecVars, clientVars>>

\* The read loop ends when the socket is closed, by whichever end.
Ends(c) ==
  /\ c \in shut \cup lost \/ (c \in gone /\ toRelay[c] = <<>>)
  /\ Finish(c)
  /\ UNCHANGED <<codecVars, toRelay, clientVars>>

RelayInside(c) ==
  /\ \/ ReplacePlugin(c) \/ ReplayNext(c) \/ ReplayFails(c) \/ CloseFailed(c)
     \/ HeartbeatFails(c)
     \/ \E t \in Conns : Forward(c, t) \/ ForwardFails(c, t)
  /\ UNCHANGED <<codecVars, toRelay, clientVars>>

Faults == refusals + Cardinality(lost)

Drops(c) ==
  /\ c \in Fragile \ gone
  /\ Faults < MaxFaults
  /\ ClientVanish(c)
  /\ UNCHANGED <<codecVars, toRelay, clientVars>>

Connects(c) == ConnectToSession(c, Session) \/ ConnectToNewSession(c, Session)

-----------------------------------------------------------------------------
(* The plugin's relay thread.                                              *)

pageVars == <<page, phase, keyring, using, deriving>>

Send(c, m) == toRelay' = [toRelay EXCEPT ![c] = Append(@, m)]

\* Nothing more will come from the relay on connection c.
Ended(c) == c \in lost \/ (c \in shut /\ outbox[c] = <<>>)

\* _preflight_relay and connect.
ThreadConnects(c) ==
  /\ thread = "down"
  /\ c \in Plugins
  /\ Connects(c)
  /\ thread' = "greeting"
  /\ socket' = c
  /\ UNCHANGED <<codecVars, toRelay, resend, pageVars, gone, commands, refusals>>

ThreadGreets ==
  /\ thread = "greeting"
  /\ RotateSendKey
  /\ Send(socket, Hello(offered + 1, NoPeer))
  /\ resend' = TRUE
  /\ thread' = "receiving"
  /\ UNCHANGED <<relayVars, socket, pageVars, gone, commands, refusals>>

\* What _handle_message does to the codec.
HandleHello(m) ==
  \/ m.key \in pending /\ ApplyPhoneHello(m.key, m.body)
  \/ m.key \notin pending /\ UNCHANGED codecVars

HandleCommand(m) ==
  \/ DecodeFrame(m.key, m.body.peer, m.body.nonce)
  \/ /\ DecodeResult(m.key, m.body.peer, m.body.nonce) # "accepted"
     /\ UNCHANGED codecVars

ThreadReceives ==
  /\ thread = "receiving"
  /\ socket \notin lost
  /\ outbox[socket] # <<>>
  /\ LET m == Head(outbox[socket])
     IN /\ \/ m.type = "hello" /\ HandleHello(m)
           \/ m.type = "frame" /\ HandleCommand(m)
           \/ m.type = "rejected" /\ UNCHANGED codecVars
        /\ resend' = (resend \/ m.type = "hello")
  /\ outbox' = [outbox EXCEPT ![socket] = Tail(@)]
  /\ thread' = "publishing"
  /\ UNCHANGED <<sessions, made, session, idle, pc, at, old, backlog, sending, shut, lost>>
  /\ UNCHANGED <<toRelay, socket, pageVars, gone, commands, refusals>>

\* receive_text times out after 0.1 seconds.
ThreadHearsNothing ==
  /\ thread = "receiving"
  /\ ~Ended(socket)
  /\ outbox[socket] = <<>>
  /\ thread' = "publishing"
  /\ UNCHANGED <<relayVars, codecVars, toRelay, socket, resend, pageVars, gone, commands, refusals>>

ThreadRotates ==
  /\ thread = "publishing"
  /\ ShouldRotateSendKey
  /\ RotateSendKey
  /\ Send(socket, Hello(offered + 1, NoPeer))
  /\ resend' = TRUE
  /\ UNCHANGED <<relayVars, thread, socket, pageVars, gone, commands, refusals>>

\* The state has changed, or a second has passed, or it must be sent again.
ThreadSendsState ==
  /\ thread = "publishing"
  /\ ~ShouldRotateSendKey
  /\ EncodeFrame
  /\ Send(socket, Frame(active, "state", peer[active]))
  /\ resend' = FALSE
  /\ thread' = "receiving"
  /\ UNCHANGED <<relayVars, socket, pageVars, gone, commands, refusals>>

ThreadSendsNothing ==
  /\ thread = "publishing"
  /\ ~Ready \/ (~ShouldRotateSendKey /\ ~resend)
  /\ thread' = "receiving"
  /\ UNCHANGED <<relayVars, codecVars, toRelay, socket, resend, pageVars, gone, commands, refusals>>

\* The except and finally blocks; after two seconds the thread tries again.
ThreadCloses ==
  /\ gone' = gone \cup {socket}
  /\ socket' = NoConn
  /\ thread' = "down"
  /\ UNCHANGED <<relayVars, codecVars, toRelay, resend, pageVars, commands>>

\* The connection is found closed.
ThreadFails ==
  /\ thread \in {"greeting", "receiving", "publishing"}
  /\ Ended(socket)
  /\ ThreadCloses
  /\ UNCHANGED refusals

\* A call to the office raises: its queue is full, or it took too long.
OfficeRefuses ==
  /\ thread = "publishing" /\ Ready
  /\ Faults < MaxFaults
  /\ refusals' = refusals + 1
  /\ ThreadCloses

-----------------------------------------------------------------------------
(* The phone pages.                                                        *)

threadVars == <<thread, socket, resend>>

\* Variant that reconnects while the keys of an earlier hello are derived.
PageConnectsAtOnce(d, c) ==
  /\ page[d] = NoConn
  /\ phase[d] # "offline"
  /\ c \in Phones
  /\ Connects(c)
  /\ page' = [page EXCEPT ![d] = c]
  /\ keyring' = [keyring EXCEPT ![d] = NoKeys]
  /\ using' = [using EXCEPT ![d] = 0]
  /\ UNCHANGED <<codecVars, toRelay, threadVars, phase, deriving, gone, commands, refusals>>

\* connectRelay, at first and 1.5 seconds after a close: by then the keys of
\* an earlier hello, some milliseconds of work, have been derived.
PageConnects(d, c) ==
  /\ page[d] = NoConn
  /\ deriving[d] = {}
  /\ phase[d] # "offline"
  /\ c \in Phones
  /\ Connects(c)
  /\ page' = [page EXCEPT ![d] = c]
  /\ keyring' = [keyring EXCEPT ![d] = NoKeys]
  /\ using' = [using EXCEPT ![d] = 0]
  /\ UNCHANGED <<codecVars, toRelay, threadVars, phase, deriving, gone, commands, refusals>>

\* decryptRelayFrame and what becomes of its result: a frame before any keys
\* is an error, one under an unknown key id is ignored.
PhaseAfterFrame(d, m) ==
  CASE using[d] = 0 -> "offline"
    [] using[d] # 0 /\ keyring[d][m.key] = NoPeer -> phase[d]
    [] keyring[d][m.key] = m.body -> "live"
    [] OTHER -> "offline"

\* handleIncoming, up to the first await for a hello.
PageReceives(d) ==
  /\ page[d] # NoConn
  /\ page[d] \notin lost
  /\ outbox[page[d]] # <<>>
  /\ LET m == Head(outbox[page[d]])
     IN \/ /\ m.type = "hello"
           /\ deriving' = [deriving EXCEPT ![d] = @ \cup {[key |-> m.key, conn |-> page[d]]}]
           /\ UNCHANGED phase
        \/ /\ m.type = "frame"
           /\ phase' = [phase EXCEPT ![d] = PhaseAfterFrame(d, m)]
           /\ UNCHANGED deriving
        \/ /\ m.type = "rejected"
           /\ phase' = [phase EXCEPT ![d] = "offline"]
           /\ UNCHANGED deriving
  /\ outbox' = [outbox EXCEPT ![page[d]] = Tail(@)]
  /\ UNCHANGED <<sessions, made, session, idle, pc, at, old, backlog, sending, shut, lost>>
  /\ UNCHANGED <<codecVars, toRelay, threadVars, page, keyring, using, gone, commands, refusals>>

\* Variant that keeps its answer to itself.
PageDerivesSilently(d) ==
  \E h \in deriving[d] :
    /\ deriving' = [deriving EXCEPT ![d] = @ \ {h}]
    /\ keyring' = [keyring EXCEPT ![d][h.key] = h.conn]
    /\ using' = [using EXCEPT ![d] = h.key]
    /\ UNCHANGED <<relayVars, codecVars, toRelay, threadVars, page, phase, gone, commands, refusals>>

\* Variant that answers only the first hello it gets keys from.
PageDerivesAnsweringOnce(d) ==
  \E h \in deriving[d] :
    /\ deriving' = [deriving EXCEPT ![d] = @ \ {h}]
    /\ keyring' = [keyring EXCEPT ![d][h.key] = h.conn]
    /\ using' = [using EXCEPT ![d] = h.key]
    /\ IF using[d] = 0 /\ page[d] # NoConn /\ page[d] \notin shut \cup lost
       THEN Send(page[d], Hello(h.key, h.conn)) ELSE UNCHANGED toRelay
    /\ UNCHANGED <<relayVars, codecVars, threadVars, page, phase, gone, commands, refusals>>

\* deriveRelayCodec is done: the keys are stored in whatever codec the page
\* has by now and the answer goes to whatever socket it has.
PageDerives(d) ==
  \E h \in deriving[d] :
    /\ deriving' = [deriving EXCEPT ![d] = @ \ {h}]
    /\ keyring' = [keyring EXCEPT ![d][h.key] = h.conn]
    /\ using' = [using EXCEPT ![d] = h.key]
    /\ IF page[d] # NoConn /\ page[d] \notin shut \cup lost
       THEN Send(page[d], Hello(h.key, h.conn)) ELSE UNCHANGED toRelay
    /\ UNCHANGED <<relayVars, codecVars, threadVars, page, phase, gone, commands, refusals>>

\* sendRelayCommand, when a button is pressed: enabled only while live.
PageCommands(d) ==
  /\ commands < MaxCommands
  /\ phase[d] = "live"
  /\ page[d] # NoConn /\ page[d] \notin shut \cup lost
  /\ using[d] # 0
  /\ commands' = commands + 1
  /\ Send(page[d], Frame(using[d], "command",
                         [peer |-> keyring[d][using[d]], nonce |-> commands + 1]))
  /\ UNCHANGED <<relayVars, codecVars, threadVars, pageVars, gone, refusals>>

\* An abnormal end may raise an error event before the close event.
PhasesAfterClose(d) ==
  IF phase[d] = "offline" THEN {"offline"}
  ELSE {"connecting"} \cup {p \in {"offline"} : page[d] \in lost}

\* Variant that forgets the keys but not which of them was active.
PageClosesKeepingActive(d) ==
  /\ page[d] # NoConn
  /\ Ended(page[d])
  /\ gone' = gone \cup {page[d]}
  /\ page' = [page EXCEPT ![d] = NoConn]
  /\ keyring' = [keyring EXCEPT ![d] = NoKeys]
  /\ phase' \in {[phase EXCEPT ![d] = p] : p \in PhasesAfterClose(d)}
  /\ UNCHANGED <<relayVars, codecVars, toRelay, threadVars, using, deriving, commands, refusals>>

\* The close event: an offline page stays so, another schedules a reconnect.
PageCloses(d) ==
  /\ page[d] # NoConn
  /\ Ended(page[d])
  /\ gone' = gone \cup {page[d]}
  /\ page' = [page EXCEPT ![d] = NoConn]
  /\ keyring' = [keyring EXCEPT ![d] = NoKeys]
  /\ using' = [using EXCEPT ![d] = 0]
  /\ phase' \in {[phase EXCEPT ![d] = p] : p \in PhasesAfterClose(d)}
  /\ UNCHANGED <<relayVars, codecVars, toRelay, threadVars, deriving, commands, refusals>>

-----------------------------------------------------------------------------
ThreadNext ==
  \/ \E c \in Plugins : ThreadConnects(c)
  \/ ThreadGreets \/ ThreadReceives \/ ThreadHearsNothing
  \/ ThreadRotates \/ ThreadSendsState \/ ThreadSendsNothing
  \/ ThreadFails \/ OfficeRefuses

PageNext(d) ==
  \/ \E c \in Phones : PageConnects(d, c)
  \/ PageReceives(d) \/ PageDerives(d) \/ PageCommands(d) \/ PageCloses(d)

RelayNext == \E c \in Conns : Reads(c) \/ Ends(c) \/ RelayInside(c)

Next ==
  \/ RelayNext
  \/ ThreadNext
  \/ \E d \in Devices : PageNext(d)
  \/ \E c \in Conns : Drops(c)

Spec == Init /\ [][Next]_linkVars

(***************************************************************************)
(* The relay's tasks, the relay thread and the pages' event loops run on,  *)
(* and messages are delivered.  The thread's timer makes it send the state *)
(* once a second (relay_client.py 356-363), however many iterations find   *)
(* nothing to send: strong fairness.  Nobody has to open a page, press a   *)
(* button or lose a connection.                                            *)
(***************************************************************************)
Fairness ==
  /\ \A c \in Conns : WF_linkVars(Reads(c)) /\ WF_linkVars(Ends(c)) /\ WF_linkVars(RelayInside(c))
  /\ WF_linkVars(ThreadNext) /\ SF_linkVars(ThreadSendsState)
  /\ \A d \in Devices :
       WF_linkVars(PageReceives(d)) /\ WF_linkVars(PageDerives(d)) /\ WF_linkVars(PageCloses(d))

FairSpec == Spec /\ Fairness

-----------------------------------------------------------------------------
LinkTypeOK ==
  /\ CodecTypeOK
  /\ thread \in {"down", "greeting", "receiving", "publishing"}
  /\ socket \in Plugins \cup {NoConn}
  /\ page \in [Devices -> Phones \cup {NoConn}]
  /\ phase \in [Devices -> {"connecting", "live", "offline"}]
  /\ keyring \in [Devices -> [Keys -> Phones \cup {NoPeer}]]
  /\ \A d \in Devices : using[d] # 0 => keyring[d][using[d]] # NoPeer
  /\ commands \in 0..MaxCommands /\ refusals \in 0..MaxFaults

(***************************************************************************)
(* The two ends never hold different keys for one key id while the page    *)
(* whose answer the plugin accepted is still on that connection            *)
(* (protocol.py 389-422, app.js 1136-1141, 1447-1461).                     *)
(***************************************************************************)
KeyAgreement ==
  \A k \in Keys, d \in Devices :
    (peer[k] # NoPeer /\ page[d] = peer[k]) => keyring[d][k] = peer[k]

\* Either the answer to hello k is still to come, perhaps lost with an earlier
\* connection of the thread, or the key has made room for newer ones.
OutOfReach(k) ==
  IF k \in pending THEN gone \cap Plugins # {} ELSE k \notin Table /\ Len(order) = MaxKeySets

(***************************************************************************)
(* A command that reaches the plugin decrypts there, or will once the      *)
(* answer before it has been read, so that a tap on a live page is not     *)
(* silently ignored: unless another page's answer was first, or the key is *)
(* out of the plugin's reach (relay_client.py 421-431, app.js 1487-1513).  *)
(***************************************************************************)
CommandsReadable ==
  socket # NoConn =>
    \A n \in DOMAIN outbox[socket] :
      LET m == outbox[socket][n]
          earlier == {outbox[socket][j] : j \in 1..(n - 1)}
      IN (m.type = "frame" /\ peer[m.key] \in {NoPeer, m.body.peer}) =>
           \/ DecodeResult(m.key, m.body.peer, m.body.nonce) = "accepted"
           \/ \E h \in earlier : h.type = "hello" /\ h.key = m.key /\ h.body = m.body.peer
           \/ OutOfReach(m.key)

(***************************************************************************)
(* A page that joins while the plugin's first hello is current shows the   *)
(* slides, unless the network drops a connection or the office refuses a   *)
(* call.  The plugin that comes back after that still has the key of       *)
(* before: when the page has not answered its new hello within 0.1 seconds *)
(* it sends the state under the old key, and the relay closes it again, as *)
(* in PluginMessagesAccepted.                                              *)
(***************************************************************************)
FirstPhoneGoesLive ==
  \A d \in Devices :
    (page[d] # NoConn /\ offered <= 1) ~> (phase[d] = "live" \/ lost # {} \/ refusals > 0)

(***************************************************************************)
(* "Plugin send keys rotate during longer sessions"                        *)
(* (docs/technical-reference.md 135): the relay accepts what the plugin    *)
(* sends, before, while and after it rotates its key.                      *)
(***************************************************************************)
PluginMessagesAccepted ==
  \A c \in Plugins : (Awaiting(c) /\ toRelay[c] # <<>>) => Valid(c, Head(toRelay[c]))

(***************************************************************************)
(* "secure relay state replay for newly joined phones during an active     *)
(* session" (CHANGELOG.md 619): a state frame that reaches a page that     *)
(* holds keys for its key id can be decrypted by that page.                *)
(***************************************************************************)
JoiningPhoneCanRead ==
  \A d \in Devices :
    (page[d] # NoConn /\ outbox[page[d]] # <<>>) =>
      LET m == Head(outbox[page[d]])
      IN m.type = "frame" => keyring[d][m.key] \in {NoPeer, m.body}
=============================================================================
