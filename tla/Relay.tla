-------------------------------- MODULE Relay --------------------------------
(***************************************************************************)
(* The relay server (relay/relay.py): sessions in memory, one plugin and a *)
(* few phones per session, and opaque messages between them.               *)
(*                                                                         *)
(* The server is one asyncio loop: a handler runs without interruption     *)
(* from one suspension to the next.  websocket_handler suspends while it   *)
(* closes the plugin it replaces, between the cached frames it replays to  *)
(* a phone, while it waits for a message and while relay_message waits for *)
(* its sends.  It does not suspend in ws.prepare or in the first send of a *)
(* new connection: no prepare signal is registered and the write buffer is *)
(* still empty, so the two return at once.                                 *)
(*                                                                         *)
(* A session object outlives its entry in the table as long as handlers    *)
(* hold it, so objects are numbered apart from the ids they serve.         *)
(***************************************************************************)
EXTENDS Integers, Sequences, FiniteSets

CONSTANTS
  Ids,              \* session ids
  Plugins,          \* connections with role=plugin
  Phones,           \* connections with role=phone
  NoConn,           \* no connection
  KeyIds,           \* key ids of plugin hellos, positive numbers
  Admission,        \* the admission token each connection presents, "" for none
  Bodies,           \* what an envelope carries that the relay does not read
  MaxObjects,       \* bound of the model: session objects created
  MaxSessions,      \* RelayState.max_sessions
  MaxPhones,        \* RelayState.max_phones_per_session
  MaxCached         \* RelayState.max_cached_plugin_frames

Conns == Plugins \cup Phones

ASSUME RolesAssumption  == Plugins \cap Phones = {} /\ NoConn \notin Conns
ASSUME KeyIdsAssumption == KeyIds \subseteq Nat \ {0}
ASSUME PhonesAssumption == IsFiniteSet(Phones)
ASSUME LimitsAssumption == MaxObjects \in Nat /\ MaxSessions \in Nat /\ MaxPhones \in Nat
                           /\ MaxCached \in Nat \ {0}

VARIABLES
  sessions,   \* RelayState.sessions: the object registered for each id, 0 if none
  made,       \* session objects created so far
  session,    \* the session objects
  idle,       \* objects nobody has touched for session_ttl seconds
  pc,         \* where the handler of each connection is
  at,         \* the session object each handler works on
  old,        \* the plugin a new plugin is waiting to see closed
  backlog,    \* cached frames a joining phone has yet to be sent
  sending,    \* the message being forwarded and the peers yet to get it
  shut,       \* connections whose server-side socket is closed
  lost,       \* connections whose client vanished without a word
  outbox      \* messages sent to each client

relayVars == <<sessions, made, session, idle, pc, at, old, backlog, sending,
               shut, lost, outbox>>

Objects == 1..MaxObjects

Hello(k, b)    == [type |-> "hello", key |-> k, kind |-> "none", body |-> b]
Error(b)       == [type |-> "error", key |-> 0, kind |-> "none", body |-> b]
Frame(k, d, b) == [type |-> "frame", key |-> k, kind |-> d, body |-> b]

PluginKinds     == {"state", "error", "asset"}
PhoneKinds      == {"command"}
ReplayableKinds == {"state", "asset", "error"}

\* The error _reject_protocol sends before it closes.
Rejection      == [type |-> "rejected", key |-> 0, kind |-> "none", body |-> 0]

NoHello == [type |-> "none", key |-> 0, kind |-> "none"]

NewSession(i) ==
  [id |-> i, token |-> "", plugin |-> NoConn, phones |-> {}, hello |-> NoHello, cached |-> <<>>]

NothingToSend == [msg |-> NoHello, to |-> {}, failed |-> {}]

RelayInit ==
  /\ sessions = [i \in Ids |-> 0]
  /\ made = 0
  /\ session = [o \in Objects |-> NewSession(NoConn)]
  /\ idle = {}
  /\ pc = [c \in Conns |-> "new"]
  /\ at = [c \in Conns |-> 0]
  /\ old = [c \in Conns |-> NoConn]
  /\ backlog = [c \in Conns |-> <<>>]
  /\ sending = [c \in Conns |-> NothingToSend]
  /\ shut = {}
  /\ lost = {}
  /\ outbox = [c \in Conns |-> <<>>]

-----------------------------------------------------------------------------
(* Sessions.                                                               *)

Empty(s) == s.plugin = NoConn /\ s.phones = {}

\* RelayState.cleanup on table t, with the session objects as in ss.
Cleaned(t, ss) ==
  [i \in Ids |-> IF t[i] # 0 /\ (Empty(ss[t[i]]) \/ t[i] \in idle) THEN 0 ELSE t[i]]

Registered(t) == {i \in Ids : t[i] # 0}

\* phone_count: the phones whose socket is not closed.
PhoneCount(s) == Cardinality(s.phones \ shut)

\* authorize: the first token presented to a session is the one it keeps.
Authorized(s, c) == Admission[c] # "" /\ s.token \in {"", Admission[c]}

Admit(s, c) == [s EXCEPT !.token = Admission[c]]

ClearCached(s) == [s EXCEPT !.hello = NoHello, !.cached = <<>>]

(***************************************************************************)
(* websocket_handler up to its first suspension, on session object         *)
(* o = ss[o].  Closing a plugin whose socket is closed already returns at  *)
(* once, even if its handler has not ended.                                *)
(***************************************************************************)
EnterAsPlugin(c, o, ss) ==
  /\ c \in Plugins
  /\ UNCHANGED <<backlog, outbox>>
  /\ \/ /\ ss[o].plugin \in shut \cup {NoConn}
        /\ session' = [ss EXCEPT ![o] = ClearCached([@ EXCEPT !.plugin = c])]
        /\ pc' = [pc EXCEPT ![c] = "open"]
        /\ UNCHANGED <<old, shut>>
     \/ /\ ss[o].plugin \notin shut \cup {NoConn}
        /\ old' = [old EXCEPT ![c] = ss[o].plugin]
        /\ shut' = shut \cup {ss[o].plugin}
        /\ session' = ss
        /\ pc' = [pc EXCEPT ![c] = "replacing"]

\* Variants of the test below: off by one, and blind to the role.
HasRoomForOneMore(c, s) == c \in Phones /\ PhoneCount(s) <= MaxPhones
HasRoomForAnyone(c, s)  == PhoneCount(s) < MaxPhones

HasRoom(c, s) == c \in Phones /\ PhoneCount(s) < MaxPhones

EnterAsPhone(c, o, ss) ==
  /\ HasRoom(c, ss[o])
  /\ session' = [ss EXCEPT ![o].phones = @ \cup {c}]
  /\ outbox' = IF ss[o].hello = NoHello THEN outbox
               ELSE [outbox EXCEPT ![c] = Append(@, ss[o].hello)]
  /\ backlog' = [backlog EXCEPT ![c] = ss[o].cached]
  /\ pc' = [pc EXCEPT ![c] = "replaying"]
  /\ UNCHANGED <<old, shut>>

Enter(c, o, ss) ==
  /\ Authorized(ss[o], c)
  /\ LET admitted == [ss EXCEPT ![o] = Admit(@, c)]
     IN EnterAsPlugin(c, o, admitted) \/ EnterAsPhone(c, o, admitted)
  /\ at' = [at EXCEPT ![c] = o]

\* The session object for id i exists: state.get returns it.
ConnectToSession(c, i) ==
  /\ pc[c] = "new"
  /\ sessions[i] # 0
  /\ Enter(c, sessions[i], session)
  /\ idle' = idle \ {sessions[i]}
  /\ UNCHANGED <<sessions, made, sending, lost>>

\* state.get creates it, after a cleanup, even for one it then turns away.
ConnectToNewSession(c, i) ==
  /\ pc[c] = "new"
  /\ sessions[i] = 0
  /\ made < MaxObjects
  /\ LET kept == Cleaned(sessions, session)
         o == made + 1
         ss == [session EXCEPT ![o] = NewSession(i)]
     IN /\ Cardinality(Registered(kept)) < MaxSessions
        /\ sessions' = [kept EXCEPT ![i] = o]
        /\ made' = o
        /\ \/ Enter(c, o, ss)
           \/ /\ ~Authorized(ss[o], c)
              /\ session' = ss
              /\ pc' = [pc EXCEPT ![c] = "done"]
              /\ UNCHANGED <<at, old, backlog, shut, outbox>>
  /\ UNCHANGED <<idle, sending, lost>>

\* Turned away: no room for another session, a wrong token, or no room for
\* another phone.
ConnectRefused(c, i) ==
  /\ pc[c] = "new"
  /\ \/ /\ sessions[i] = 0
        /\ sessions' = Cleaned(sessions, session)
        /\ Cardinality(Registered(sessions')) >= MaxSessions
        /\ UNCHANGED <<session, idle>>
     \/ /\ sessions[i] # 0
        /\ ~Authorized(session[sessions[i]], c)
        /\ idle' = idle \ {sessions[i]}
        /\ UNCHANGED <<sessions, session>>
     \/ /\ sessions[i] # 0
        /\ Authorized(session[sessions[i]], c)
        /\ c \in Phones
        /\ ~HasRoom(c, session[sessions[i]])
        /\ session' = [session EXCEPT ![sessions[i]] = Admit(@, c)]
        /\ idle' = idle \ {sessions[i]}
        /\ UNCHANGED sessions
  /\ pc' = [pc EXCEPT ![c] = "done"]
  /\ UNCHANGED <<made, at, old, backlog, sending, shut, lost, outbox>>

\* relay_message waits for its sends.
Busy(c) == sending[c].to # {} \/ sending[c].failed # {}

(***************************************************************************)
(* `await session.plugin.close()` returns: close first breaks the old      *)
(* handler's receive, so an old handler that was waiting for a message has *)
(* run to its end by then; one that is still sending has not.              *)
(***************************************************************************)
ReplacePlugin(c) ==
  /\ pc[c] = "replacing"
  /\ pc[old[c]] = "done" \/ Busy(old[c])
  /\ session' = [session EXCEPT ![at[c]] = ClearCached([@ EXCEPT !.plugin = c])]
  /\ pc' = [pc EXCEPT ![c] = "open"]
  /\ old' = [old EXCEPT ![c] = NoConn]
  /\ UNCHANGED <<sessions, made, idle, at, backlog, sending, shut, lost, outbox>>

\* Variant that replays from the live cache instead of the tuple taken before.
ReplayNewest(c) ==
  /\ pc[c] = "replaying"
  /\ c \notin shut
  /\ LET cached == session[at[c]].cached
     IN IF backlog[c] # <<>> /\ cached # <<>>
        THEN /\ outbox' = [outbox EXCEPT ![c] = Append(@, cached[Len(cached)])]
             /\ backlog' = [backlog EXCEPT ![c] = Tail(@)]
             /\ UNCHANGED pc
        ELSE pc' = [pc EXCEPT ![c] = "open"] /\ UNCHANGED <<backlog, outbox>>
  /\ UNCHANGED <<sessions, made, session, idle, at, old, sending, shut, lost>>

\* The loop over replayable_plugin_frames(), one awaited send at a time.
ReplayNext(c) ==
  /\ pc[c] = "replaying"
  /\ \/ /\ backlog[c] # <<>>
        /\ c \notin shut
        /\ outbox' = [outbox EXCEPT ![c] = Append(@, Head(backlog[c]))]
        /\ backlog' = [backlog EXCEPT ![c] = Tail(@)]
        /\ UNCHANGED pc
     \/ /\ backlog[c] = <<>>
        /\ pc' = [pc EXCEPT ![c] = "open"]
        /\ UNCHANGED <<backlog, outbox>>
  /\ UNCHANGED <<sessions, made, session, idle, at, old, sending, shut, lost>>

\* A replay send raises: the handler ends before its try block, so that the
\* phone stays in session.phones with a socket that does not count as closed.
ReplayFails(c) ==
  /\ pc[c] = "replaying"
  /\ c \in shut \cup lost
  /\ backlog[c] # <<>>
  /\ pc' = [pc EXCEPT ![c] = "done"]
  /\ backlog' = [backlog EXCEPT ![c] = <<>>]
  /\ UNCHANGED <<sessions, made, session, idle, at, old, sending, shut, lost, outbox>>

-----------------------------------------------------------------------------
(* Messages.                                                               *)

\* _validate_protocol_message.
Valid(c, m) ==
  LET latest == session[at[c]].hello
  IN CASE m.type = "hello" /\ c \in Plugins -> TRUE
       [] m.type = "hello" /\ c \in Phones  -> latest # NoHello /\ m.key = latest.key
       [] m.type = "frame" /\ c \in Plugins -> /\ m.kind \in PluginKinds
                                              /\ latest # NoHello /\ m.key = latest.key
       [] m.type = "frame" /\ c \in Phones  -> m.kind \in PhoneKinds /\ latest # NoHello
       [] m.type = "error" -> c \in Plugins

\* Variant of the trimming that lets one frame too many stay.
CachedOneTooMany(s, m) ==
  LET longer == Append(s, m) IN IF Len(longer) > MaxCached + 1 THEN Tail(longer) ELSE longer

\* cache_plugin_frame.
Cached(s, m) ==
  LET longer == Append(s, m) IN IF Len(longer) > MaxCached THEN Tail(longer) ELSE longer

\* Variant that keeps the frames cached under the previous hello.
MetadataKeepingFrames(s, c, m) ==
  IF c \notin Plugins THEN s
  ELSE IF m.type = "hello" THEN [s EXCEPT !.hello = m]
  ELSE IF m.kind \in ReplayableKinds THEN [s EXCEPT !.cached = Cached(@, m)]
  ELSE s

\* _record_plugin_metadata.
Metadata(s, c, m) ==
  IF c \notin Plugins THEN s
  ELSE IF m.type = "hello" THEN [s EXCEPT !.hello = m, !.cached = <<>>]
  ELSE IF m.kind \in ReplayableKinds THEN [s EXCEPT !.cached = Cached(@, m)]
  ELSE s

Targets(s, c) ==
  IF c \in Plugins THEN s.phones \ shut
  ELSE IF s.plugin # NoConn /\ s.plugin \notin shut THEN {s.plugin} ELSE {}

\* The read loop of an open socket waits for a message.
Awaiting(c) == pc[c] = "open" /\ ~Busy(c) /\ c \notin shut \cup lost

\* relay_message up to the sends.
Receive(c, m) ==
  /\ Awaiting(c)
  /\ Valid(c, m)
  /\ LET s == session[at[c]]
     IN /\ session' = [session EXCEPT ![at[c]] = Metadata(s, c, m)]
        /\ sending' = IF Targets(s, c) = {} THEN sending
                      ELSE [sending EXCEPT ![c] = [msg |-> m, to |-> Targets(s, c), failed |-> {}]]
  /\ idle' = idle \ {at[c]}
  /\ UNCHANGED <<sessions, made, pc, at, old, backlog, shut, lost, outbox>>

\* An invalid message, or any message beyond the rate limit: an error goes
\* back, the socket is closed and the read loop left.
Reject(c, m) ==
  /\ Awaiting(c)
  /\ outbox' = [outbox EXCEPT ![c] = Append(@, Rejection)]
  /\ shut' = shut \cup {c}
  /\ idle' = idle \ {at[c]}
  /\ UNCHANGED <<sessions, made, session, pc, at, old, backlog, sending, lost>>

RejectInvalid(c, m) == ~Valid(c, m) /\ Reject(c, m)

\* One of the gathered sends completes.
Forward(c, t) ==
  /\ t \in sending[c].to \ shut
  /\ outbox' = [outbox EXCEPT ![t] = Append(@, sending[c].msg)]
  /\ sending' = [sending EXCEPT ![c] =
       IF @.to = {t} /\ @.failed = {} THEN NothingToSend
       ELSE [sending[c] EXCEPT !.to = @ \ {t}]]
  /\ UNCHANGED <<sessions, made, session, idle, pc, at, old, backlog, shut, lost>>

\* One of them raises, or takes longer than send_timeout_seconds.
ForwardFails(c, t) ==
  /\ t \in sending[c].to
  /\ t \in shut \cup lost
  /\ sending' = [sending EXCEPT ![c] =
       [sending[c] EXCEPT !.to = @ \ {t}, !.failed = @ \cup {t}]]
  /\ UNCHANGED <<sessions, made, session, idle, pc, at, old, backlog, shut, lost, outbox>>

\* When all have ended, the peers whose send failed are closed.
CloseFailed(c) ==
  /\ sending[c].to = {}
  /\ sending[c].failed # {}
  /\ shut' = shut \cup sending[c].failed
  /\ sending' = [sending EXCEPT ![c] = NothingToSend]
  /\ UNCHANGED <<sessions, made, session, idle, pc, at, old, backlog, lost, outbox>>

-----------------------------------------------------------------------------
(* Leaving.                                                                *)

\* Variant of the finally block that clears the slot whoever holds it.
LeaveAlways(c, s) ==
  IF c \in Plugins THEN ClearCached([s EXCEPT !.plugin = NoConn])
  ELSE [s EXCEPT !.phones = @ \ {c}]

\* What the finally block does to the session.
Leave(c, s) ==
  IF c \in Plugins THEN IF s.plugin = c THEN ClearCached([s EXCEPT !.plugin = NoConn]) ELSE s
  ELSE [s EXCEPT !.phones = @ \ {c}]

(***************************************************************************)
(* The read loop is over: the relay closed the socket, the client did, or  *)
(* the heartbeat noticed that it vanished.  The finally block, cleanup     *)
(* included.                                                               *)
(***************************************************************************)
Finish(c) ==
  /\ pc[c] = "open"
  /\ ~Busy(c)
  /\ session' = [session EXCEPT ![at[c]] = Leave(c, @)]
  /\ sessions' = Cleaned(sessions, session')
  /\ pc' = [pc EXCEPT ![c] = "done"]
  /\ shut' = shut \cup {c}
  /\ UNCHANGED <<made, idle, at, old, backlog, sending, lost, outbox>>

\* GET /health and /api/session run cleanup; the latter touches its session.
Sweep ==
  /\ sessions' = Cleaned(sessions, session)
  /\ sessions' # sessions
  /\ UNCHANGED <<made, session, idle, pc, at, old, backlog, sending, shut, lost, outbox>>

\* session_ttl seconds pass.  A plugin asks for its session's status every
\* second, so this happens to sessions without one.
GrowIdle(o) ==
  /\ \E i \in Ids : sessions[i] = o
  /\ session[o].plugin = NoConn
  /\ o \notin idle
  /\ idle' = idle \cup {o}
  /\ UNCHANGED <<sessions, made, session, pc, at, old, backlog, sending, shut, lost, outbox>>

-----------------------------------------------------------------------------
\* The network goes away under a client.
ClientVanish(c) ==
  /\ pc[c] \in {"replacing", "replaying", "open"}
  /\ c \notin shut \cup lost
  /\ lost' = lost \cup {c}
  /\ UNCHANGED <<sessions, made, session, idle, pc, at, old, backlog, sending, shut, outbox>>

\* The heartbeat gets no answer: the socket counts as closed.
HeartbeatFails(c) ==
  /\ c \in lost \ shut
  /\ shut' = shut \cup {c}
  /\ UNCHANGED <<sessions, made, session, idle, pc, at, old, backlog, sending, lost, outbox>>

\* What the server does without a message from a client.
Server ==
  \/ \E c \in Conns, i \in Ids :
       ConnectToSession(c, i) \/ ConnectToNewSession(c, i) \/ ConnectRefused(c, i)
  \/ \E c \in Conns :
       ReplacePlugin(c) \/ ReplayNext(c) \/ ReplayFails(c) \/ CloseFailed(c)
       \/ HeartbeatFails(c) \/ Finish(c)
  \/ \E c, t \in Conns : Forward(c, t) \/ ForwardFails(c, t)
  \/ Sweep
  \/ \E o \in Objects : GrowIdle(o)

-----------------------------------------------------------------------------
Messages ==
  [type : {"hello", "frame", "error"}, key : KeyIds \cup {0}, body : Bodies,
   kind : PluginKinds \cup PhoneKinds \cup {"none"}]

Places == {"new", "replacing", "replaying", "open", "done"}

RelayTypeOK ==
  /\ sessions \in [Ids -> 0..made]
  /\ made \in 0..MaxObjects
  /\ \A o \in Objects :
       /\ session[o].id \in (IF o <= made THEN Ids ELSE {NoConn})
       /\ session[o].plugin \in Plugins \cup {NoConn}
       /\ session[o].phones \subseteq Phones
       /\ session[o].hello \in Messages \cup {NoHello}
       /\ \A n \in DOMAIN session[o].cached : session[o].cached[n] \in Messages
  /\ idle \subseteq Objects
  /\ pc \in [Conns -> Places]
  /\ at \in [Conns -> 0..made]
  /\ old \in [Conns -> Plugins \cup {NoConn}]
  /\ shut \subseteq Conns /\ lost \subseteq Conns

(***************************************************************************)
(* The frames a joining phone is replayed were all sent under the hello it *)
(* is given first, and there are none without a hello (relay.py 497-509,   *)
(* 577-661): the cache never mixes two keys or two plugins.                *)
(***************************************************************************)
CacheBelongsToHello ==
  \A o \in Objects :
    /\ Len(session[o].cached) <= MaxCached
    /\ \A n \in DOMAIN session[o].cached :
         /\ session[o].hello # NoHello
         /\ session[o].cached[n].key = session[o].hello.key

(***************************************************************************)
(* A phone learns of a key before it gets a frame encrypted under it,      *)
(* however its replay and the live traffic interleave (relay.py 505-509,  *)
(* 606-619).                                                               *)
(***************************************************************************)
HelloBeforeFrames ==
  \A c \in Phones : \A n \in DOMAIN outbox[c] :
    outbox[c][n].type = "frame" =>
      \E m \in 1..(n - 1) :
        outbox[c][m].type = "hello" /\ outbox[c][m].key = outbox[c][n].key

(***************************************************************************)
(* No phone is sent the same plugin message twice: what is replayed to it  *)
(* was recorded before it joined, what is forwarded to it after.  The      *)
(* phone treats a repeated nonce as a replay and goes offline.             *)
(***************************************************************************)
NoMessageTwice ==
  \A c \in Phones : \A m, n \in DOMAIN outbox[c] :
    (m # n /\ outbox[c][m].type # "rejected") => outbox[c][m] # outbox[c][n]

\* Connections with a handler and an open socket.
Connected(c) == pc[c] \in {"replaying", "open"} /\ c \notin shut

(***************************************************************************)
(* However phones come, go, fail or are left behind by their handlers, a   *)
(* session object never serves more than max_phones_per_session of them    *)
(* (relay.py 216-219, 489-508, 561-562).                                   *)
(***************************************************************************)
PhonesBounded ==
  \A o \in Objects : Cardinality({c \in Phones : Connected(c) /\ at[c] = o}) <= MaxPhones

(***************************************************************************)
(* The plugin slot is emptied only when its own handler ends; the end of a *)
(* replaced plugin's handler leaves the newcomer alone (relay.py 557).     *)
(***************************************************************************)
SlotReleasedByOwner ==
  [][\A o \in Objects :
       (session[o].plugin # NoConn /\ session'[o].plugin = NoConn)
         => pc'[session[o].plugin] = "done"]_relayVars
=============================================================================
