-------------------------- MODULE RelayLinkProofs --------------------------
(***************************************************************************)
(* Proofs about RelayLink for any number of devices, connections, hellos,  *)
(* commands and failures, over a relay that does all that Relay lets it    *)
(* do: types, the agreement of the two ends on what a key id stands for,   *)
(* and that a command comes behind the answer that makes it readable.      *)
(***************************************************************************)
EXTENDS RelayLink, RelayProofs, SecureCodecProofs

-----------------------------------------------------------------------------
(* Who sends and gets what.                                                *)

Hellos == 1..offered

\* What phone c sends: its answers name it, its commands are encrypted by it.
PhoneMessages(c) ==
  [type : {"hello"}, key : Hellos, kind : {"none"}, body : {c}]
    \cup [type : {"frame"}, key : Hellos, kind : {"command"},
          body : [peer : {c}, nonce : 1..commands]]

PluginMessages ==
  [type : {"hello"}, key : Hellos, kind : {"none"}, body : {NoPeer}]
    \cup [type : {"frame"}, key : Hellos, kind : {"state"}, body : Phones]

SaidBy(c) == IF c \in Phones THEN PhoneMessages(c) ELSE PluginMessages

HeardBy(c) ==
  {Rejection} \cup (IF c \in Phones THEN PluginMessages ELSE UNION {PhoneMessages(f) : f \in Phones})

Opposite(c) == IF c \in Phones THEN Plugins ELSE Phones

\* f is a function on the connections.
PerConn(f) == f = [c \in Conns |-> f[c]]

RecordedOK ==
  \A o \in Objects : /\ session[o].hello \in PluginMessages \cup {NoHello}
                     /\ session[o].cached \in Seq(PluginMessages)

BacklogOK ==
  /\ PerConn(backlog)
  /\ \A c \in Conns : backlog[c] \in Seq(PluginMessages)
  /\ \A c \in Plugins : backlog[c] = <<>>

ToRelayOK == PerConn(toRelay) /\ \A c \in Conns : toRelay[c] \in Seq(SaidBy(c))

SendingOK ==
  \A c \in Conns : /\ sending[c].to \subseteq Opposite(c)
                   /\ sending[c].to # {} => sending[c].msg \in SaidBy(c)

OutboxOK == PerConn(outbox) /\ \A c \in Conns : outbox[c] \in Seq(HeardBy(c))

ThreadOK ==
  /\ thread \in {"down", "greeting", "receiving", "publishing"}
  /\ socket \in Plugins \cup {NoConn}
  /\ thread = "down" <=> socket = NoConn

PagesOK ==
  /\ page \in [Devices -> Phones \cup {NoConn}]
  /\ phase \in [Devices -> {"connecting", "live", "offline"}]
  /\ keyring \in [Devices -> [Keys -> Phones \cup {NoPeer}]]
  /\ using \in [Devices -> 0..MaxHellos]
  /\ \A d \in Devices : using[d] # 0 => keyring[d][using[d]] # NoPeer
  /\ \A d \in Devices, k \in Keys : keyring[d][k] # NoPeer => k \in Hellos
  /\ deriving \in [Devices -> SUBSET [key : Hellos, conn : Phones]]

CountsOK ==
  /\ gone \subseteq Conns
  /\ commands \in 0..MaxCommands
  /\ refusals \in 0..MaxFaults
  /\ lost \subseteq Fragile
  /\ Faults <= MaxFaults

CodecOK == CodecInv /\ KeptUntilFull

TypesInv ==
  /\ RelayInv /\ CodecOK
  /\ RecordedOK /\ BacklogOK /\ ToRelayOK /\ SendingOK /\ OutboxOK
  /\ ThreadOK /\ PagesOK /\ CountsOK

-----------------------------------------------------------------------------
(* A connection is used once, and what a phone answers over it names it.   *)

UsedOnce ==
  /\ socket # NoConn => pc[socket] # "new"
  /\ \A d \in Devices :
       /\ page[d] # NoConn => pc[page[d]] # "new"
       /\ \A e \in Devices : page[d] = page[e] /\ page[d] # NoConn => d = e
       /\ \A h \in deriving[d] : page[d] \in {NoConn, h.conn} /\ pc[h.conn] # "new"
       /\ \A k \in Keys : page[d] # NoConn /\ keyring[d][k] # NoPeer => keyring[d][k] = page[d]

\* Whoever answered hello k over connection c and is still there has its keys.
Answered(k, c) ==
  pc[c] # "new" /\ \A d \in Devices : page[d] = c => keyring[d][k] = c

IsAnswer(m) == m.type = "hello" => Answered(m.key, m.body)

AnswersOK ==
  /\ \A c \in Phones :
       /\ \A n \in DOMAIN toRelay[c] : IsAnswer(toRelay[c][n])
       /\ sending[c].to # {} => IsAnswer(sending[c].msg)
  /\ \A p \in Plugins : \A n \in DOMAIN outbox[p] : IsAnswer(outbox[p][n])
  /\ \A k \in Table : Answered(k, peer[k])

-----------------------------------------------------------------------------
(* The order of answers and commands, on the thread's first connection.    *)

FirstLink == gone \cap Plugins = {}

SlotsOK ==
  /\ \A o \in Objects : session[o].plugin # NoConn => pc[session[o].plugin] # "new"
  /\ \A c \in Phones : /\ \A t \in sending[c].to : pc[t] # "new"
                       /\ \A t, u \in sending[c].to : t = u
                       /\ sending[c].to \cap sending[c].failed = {}
  /\ \A p \in Plugins : pc[p] = "new" => outbox[p] = <<>>

OnlyPlugin ==
  FirstLink =>
    /\ socket = NoConn => offered = 0
    /\ \A p \in Plugins : pc[p] # "new" => p = socket /\ pc[p] \in {"open", "done"}
    /\ \A o \in Objects : session[o].hello # NoHello => session[o].plugin # NoConn
    /\ \A p \in Plugins : pc[p] = "open" => session[at[p]].plugin = p

\* The answer to hello k over c has got to the plugin, as far as it can.
Arrived(c, k) ==
  \/ k \notin pending
  \/ Holds(outbox[socket], Hello(k, c))
  \/ socket \in shut
  \/ socket \in sending[c].failed

Going(c, k) == (sending[c].to # {} /\ sending[c].msg = Hello(k, c)) \/ Arrived(c, k)

\* It is on its way, or has arrived, for every key of a page still connected.
KeysFollow ==
  \A d \in Devices, k \in Keys :
    (page[d] # NoConn /\ page[d] \notin shut \cup lost /\ keyring[d][k] # NoPeer)
      => Holds(toRelay[page[d]], Hello(k, page[d])) \/ Going(page[d], k)

\* It is ahead of the commands under its key, all the way.
CommandsFollow ==
  \A c \in Phones : \A n \in DOMAIN toRelay[c] :
    (c \notin shut /\ toRelay[c][n].type = "frame")
      => \/ \E j \in 1..(n - 1) : toRelay[c][j] = Hello(toRelay[c][n].key, c)
         \/ Going(c, toRelay[c][n].key)

SendingFollows ==
  \A c \in Phones :
    (sending[c].to # {} /\ sending[c].msg.type = "frame") => Arrived(c, sending[c].msg.key)

ArrivalsFollow ==
  socket # NoConn =>
    \A n \in DOMAIN outbox[socket] : outbox[socket][n].type = "frame" =>
      \/ outbox[socket][n].key \notin pending
      \/ \E j \in 1..(n - 1) :
           outbox[socket][j] = Hello(outbox[socket][n].key, outbox[socket][n].body.peer)

OrderOK == FirstLink => KeysFollow /\ CommandsFollow /\ SendingFollows /\ ArrivalsFollow

-----------------------------------------------------------------------------
(* Nonces grow along the way of a connection's commands.                   *)

\* Command x of connection c is ahead of all that the relay has not sent on.
Ahead(c, x) ==
  /\ \A n \in DOMAIN toRelay[c] : toRelay[c][n].type = "frame" => x < toRelay[c][n].body.nonce
  /\ (sending[c].to # {} /\ sending[c].msg.type = "frame") => x < sending[c].msg.body.nonce

NoncesGrow ==
  \A c \in Phones :
    /\ \A n \in DOMAIN toRelay[c] : toRelay[c][n].type = "frame" =>
         \A j \in 1..(n - 1) : toRelay[c][j].type = "frame" =>
           toRelay[c][j].body.nonce < toRelay[c][n].body.nonce
    /\ (sending[c].to # {} /\ sending[c].msg.type = "frame") =>
         \A n \in DOMAIN toRelay[c] : toRelay[c][n].type = "frame" =>
           sending[c].msg.body.nonce < toRelay[c][n].body.nonce

ArrivedGrow ==
  \A p \in Plugins : \A n \in DOMAIN outbox[p] : outbox[p][n].type = "frame" =>
    /\ Ahead(outbox[p][n].body.peer, outbox[p][n].body.nonce)
    /\ \A j \in 1..(n - 1) :
         (outbox[p][j].type = "frame" /\ outbox[p][j].body.peer = outbox[p][n].body.peer)
           => outbox[p][j].body.nonce < outbox[p][n].body.nonce

RememberedPast ==
  \A k \in Table : \A x \in NoncesIn(replay[k]) :
    /\ x \in 1..commands
    /\ Ahead(peer[k], x)
    /\ socket # NoConn =>
         \A n \in DOMAIN outbox[socket] :
           (outbox[socket][n].type = "frame" /\ outbox[socket][n].body.peer = peer[k])
             => x < outbox[socket][n].body.nonce

NoncesOK == NoncesGrow /\ ArrivedGrow /\ RememberedPast

LinkInv == TypesInv /\ UsedOnce /\ AnswersOK /\ SlotsOK /\ OnlyPlugin /\ OrderOK /\ NoncesOK

-----------------------------------------------------------------------------
(* Sequences and messages.                                                 *)

\* The entries of a sequence stay when another is appended.
LEMMA AppendEntries ==
  ASSUME NEW S, NEW s \in Seq(S), NEW x \in S
  PROVE  /\ Append(s, x) \in Seq(S) /\ Len(Append(s, x)) = Len(s) + 1
         /\ DOMAIN Append(s, x) = 1..(Len(s) + 1) /\ DOMAIN s = 1..Len(s) /\ Len(s) \in Nat
         /\ \A n \in 1..Len(s) : Append(s, x)[n] = s[n]
         /\ Append(s, x)[Len(s) + 1] = x
  OBVIOUS

\* Taking the head shifts the other entries.
LEMMA TailEntries ==
  ASSUME NEW S, NEW s \in Seq(S), s # <<>>
  PROVE  /\ Tail(s) \in Seq(S) /\ Len(Tail(s)) = Len(s) - 1 /\ Len(s) \in Nat \ {0}
         /\ DOMAIN Tail(s) = 1..(Len(s) - 1) /\ DOMAIN s = 1..Len(s)
         /\ \A n \in 1..(Len(s) - 1) : Tail(s)[n] = s[n + 1]
         /\ Head(s) = s[1] /\ Head(s) \in S
  OBVIOUS

\* A sequence over some set is one over any larger set.
LEMMA WiderSeq ==
  ASSUME NEW S, NEW T, S \subseteq T, NEW s \in Seq(S)
  PROVE  s \in Seq(T)
  OBVIOUS

\* What may be said grows with the hellos and the commands made.
LEMMA MoreMessages ==
  ASSUME offered \in Nat, offered' \in Nat, offered <= offered',
         commands \in Nat, commands' \in Nat, commands <= commands'
  PROVE  /\ Hellos \subseteq Hellos' /\ PluginMessages \subseteq PluginMessages'
         /\ \A c : /\ PhoneMessages(c) \subseteq PhoneMessages(c)'
                   /\ SaidBy(c) \subseteq SaidBy(c)' /\ HeardBy(c) \subseteq HeardBy(c)'
<1>1. Hellos \subseteq Hellos' /\ 1..commands \subseteq (1..commands)'
  BY DEF Hellos
<1>2. PluginMessages \subseteq PluginMessages'
  BY <1>1 DEF PluginMessages
<1>3. ASSUME NEW c PROVE PhoneMessages(c) \subseteq PhoneMessages(c)'
  BY <1>1 DEF PhoneMessages
<1> QED BY <1>1, <1>2, <1>3 DEF SaidBy, HeardBy

\* Hellos and commands are numbered within the bounds of the constants.
LEMMA Numbers ==
  ASSUME TypesInv
  PROVE  /\ offered \in Nat /\ Hellos \subseteq Keys /\ Hellos \subseteq KeyIds
         /\ 0 \notin Hellos /\ Hellos \subseteq Nat
         /\ commands \in Nat /\ 1..commands \subseteq Nonces
<1>1. offered \in 0..MaxHellos /\ commands \in 0..MaxCommands
  BY DEF TypesInv, CodecOK, CodecInv, CodecTypeOK, CountsOK
<1> QED BY <1>1, MaxHellosAssumption, LinkAssumption DEF Hellos, Keys

\* All that is said is something the relay can read, of a known shape.
LEMMA SaidFits ==
  ASSUME TypesInv, NEW c \in Conns, NEW m \in SaidBy(c)
  PROVE  /\ m \in Envelopes /\ m \in Messages /\ m.key \in Hellos
         /\ m # NoHello /\ m.type \in {"hello", "frame"}
         /\ c \in Phones => m \in PhoneMessages(c)
         /\ c \in Plugins => m \in PluginMessages
<1>1. c \in Phones => m \in PhoneMessages(c)
  BY DEF SaidBy
<1>2. c \in Plugins => m \in PluginMessages
  BY RolesAssumption DEF SaidBy
<1>3. /\ NoPeer \in Bodies /\ Phones \subseteq Bodies
      /\ [peer : Phones, nonce : 1..commands] \subseteq Bodies
  BY LinkAssumption, Numbers
<1>4. ASSUME NEW k \in Hellos, NEW b \in Bodies,
             \/ m = [type |-> "hello", key |-> k, kind |-> "none", body |-> b]
             \/ \E d \in {"state", "command"} :
                  m = [type |-> "frame", key |-> k, kind |-> d, body |-> b]
      PROVE  /\ m \in Messages /\ m \in Envelopes /\ m.key \in Hellos
             /\ m # NoHello /\ m.type \in {"hello", "frame"}
  <2>1. k \in KeyIds \cup {0}
    BY Numbers
  <2>2. m \in Messages
    BY <1>4, <2>1 DEF Messages, PluginKinds, PhoneKinds
  <2>3. m.type = "hello" => m.kind = "none"
    BY <1>4
  <2>4. m # NoHello /\ m.key = k /\ m.type \in {"hello", "frame"}
    BY <1>4 DEF NoHello
  <2> QED BY <2>2, <2>3, <2>4 DEF Envelopes
<1>5. CASE c \in Phones
  <2>1. PICK k \in Hellos :
          \/ m = [type |-> "hello", key |-> k, kind |-> "none", body |-> c]
          \/ \E b \in [peer : {c}, nonce : 1..commands] :
               m = [type |-> "frame", key |-> k, kind |-> "command", body |-> b]
    BY <1>1, <1>5 DEF PhoneMessages
  <2> QED BY <1>1, <1>2, <1>3, <1>4, <1>5, <2>1
<1>6. CASE c \in Plugins
  <2>1. PICK k \in Hellos :
          \/ m = [type |-> "hello", key |-> k, kind |-> "none", body |-> NoPeer]
          \/ \E b \in Phones :
               m = [type |-> "frame", key |-> k, kind |-> "state", body |-> b]
    BY <1>2, <1>6 DEF PluginMessages
  <2> QED BY <1>1, <1>2, <1>3, <1>4, <2>1
<1> QED BY <1>5, <1>6 DEF Conns

\* What has come for the plugin is a rejection, an answer or a command.
LEMMA PluginHears ==
  ASSUME TypesInv, NEW p \in Plugins, NEW m \in HeardBy(p)
  PROVE  \/ m = Rejection
         \/ \E k \in Hellos, f \in Phones : m = Hello(k, f)
         \/ \E k \in Hellos, f \in Phones, n \in 1..commands :
              m = Frame(k, "command", [peer |-> f, nonce |-> n])
<1>1. m = Rejection \/ \E f \in Phones : m \in PhoneMessages(f)
  BY RolesAssumption DEF HeardBy
<1>2. ASSUME NEW f \in Phones, m \in PhoneMessages(f)
      PROVE  \/ \E k \in Hellos : m = Hello(k, f)
             \/ \E k \in Hellos, n \in 1..commands :
                  m = Frame(k, "command", [peer |-> f, nonce |-> n])
  BY <1>2 DEF PhoneMessages, Hello, Frame
<1> QED BY <1>1, <1>2

\* What has come for a phone is a rejection, a hello or a state.
LEMMA PhoneHears ==
  ASSUME TypesInv, NEW c \in Phones, NEW m \in HeardBy(c)
  PROVE  \/ m = Rejection
         \/ m.type \in {"hello", "frame"} /\ m.key \in Hellos
  BY DEF HeardBy, PluginMessages

-----------------------------------------------------------------------------
(* The codec.                                                              *)

\* A step uses the codec as the codec is used.
LEMMA CodecUsed ==
  ASSUME TypesInv, [Next]_linkVars
  PROVE  [CodecNext]_codecVars
<1>1. CASE UNCHANGED linkVars
  BY <1>1 DEF linkVars
<1>2. CASE RelayNext \/ \E c \in Conns : Drops(c)
  BY <1>2 DEF RelayNext, Reads, Ends, RelayInside, Drops
<1>3. ASSUME NEW d \in Devices, PageNext(d) PROVE UNCHANGED codecVars
  BY <1>3 DEF PageNext, PageConnects, PageReceives, PageDerives, PageCommands, PageCloses
<1>4. CASE ThreadGreets \/ ThreadRotates \/ ThreadSendsState
  BY <1>4 DEF ThreadGreets, ThreadRotates, ThreadSendsState, CodecNext
<1>5. CASE ThreadReceives
  <2> DEFINE m == Head(outbox[socket])
  <2>1. socket \in Plugins /\ outbox[socket] # <<>>
    BY <1>5 DEF ThreadReceives, TypesInv, ThreadOK
  <2>2. m \in HeardBy(socket)
    BY <2>1, TailEntries DEF TypesInv, OutboxOK, Conns
  <2>3. \/ m.type = "hello" /\ HandleHello(m)
        \/ m.type = "frame" /\ HandleCommand(m)
        \/ UNCHANGED codecVars
    BY <1>5 DEF ThreadReceives
  <2> HIDE DEF m
  <2>4. CASE m.type = "hello" /\ HandleHello(m)
    <3>1. m.key \in Keys /\ m.body \in Ephemerals
      BY <2>1, <2>2, <2>4, PluginHears, Numbers, LinkAssumption DEF Rejection, Hello, Frame
    <3> QED BY <2>4, <3>1 DEF HandleHello, CodecNext
  <2>5. CASE m.type = "frame" /\ HandleCommand(m)
    <3>1. m.key \in Keys /\ m.body.peer \in Ephemerals /\ m.body.nonce \in Nonces
      BY <2>1, <2>2, <2>5, PluginHears, Numbers, LinkAssumption DEF Rejection, Hello, Frame
    <3> QED BY <2>5, <3>1 DEF HandleCommand, CodecNext
  <2> QED BY <2>3, <2>4, <2>5
<1>6. CASE \/ \E c \in Plugins : ThreadConnects(c)
           \/ ThreadHearsNothing \/ ThreadSendsNothing \/ ThreadFails \/ OfficeRefuses
  BY <1>6 DEF ThreadConnects, ThreadHearsNothing, ThreadSendsNothing, ThreadFails,
              OfficeRefuses, ThreadCloses
<1> QED BY <1>1, <1>2, <1>3, <1>4, <1>5, <1>6 DEF Next, ThreadNext

\* So the codec stays in order, and no hello is taken back.
LEMMA CodecKept ==
  ASSUME TypesInv, [Next]_linkVars
  PROVE  CodecOK' /\ offered \in Nat /\ offered' \in Nat /\ offered <= offered'
<1>1. [CodecNext]_codecVars
  BY CodecUsed
<1>2. CodecOK'
  BY <1>1, CodecStep, KeptStep DEF TypesInv, CodecOK
<1>3. offered \in Nat /\ offered' \in Nat
  BY <1>2 DEF TypesInv, CodecOK, CodecInv, CodecTypeOK
<1>4. offered' = offered \/ offered' = offered + 1
  BY <1>1 DEF CodecNext, RotateSendKey, ApplyPhoneHello, EncodeFrame, DecodeFrame, codecVars
<1> QED BY <1>2, <1>3, <1>4

-----------------------------------------------------------------------------
(* The counts.                                                             *)

\* Commands, faults and closed connections are counted within their bounds.
LEMMA CountsKept ==
  ASSUME TypesInv, [Next]_linkVars
  PROVE  CountsOK' /\ commands <= commands' /\ gone \subseteq gone'
<1> USE LinkAssumption
<1>1. IsFiniteSet(lost) /\ Cardinality(lost) \in Nat
  BY FS_Subset, FS_CardinalityType DEF TypesInv, CountsOK
<1>2. CountsOK
  BY DEF TypesInv
<1>3. ASSUME UNCHANGED <<gone, commands, refusals, lost>> PROVE CountsOK'
  BY <1>2, <1>3 DEF CountsOK, Faults
<1>4. ASSUME NEW c \in Conns, Drops(c) PROVE CountsOK'
  <2>1. /\ lost' = lost \cup {c} /\ c \notin lost /\ c \in Fragile /\ Faults < MaxFaults
        /\ UNCHANGED <<gone, commands, refusals>>
    BY <1>4 DEF Drops, ClientVanish, clientVars
  <2>2. Cardinality(lost') = Cardinality(lost) + 1
    BY <1>1, <2>1, FS_AddElement
  <2> QED BY <1>1, <1>2, <2>1, <2>2 DEF CountsOK, Faults
<1>5. ASSUME RelayNext PROVE UNCHANGED <<gone, commands, refusals, lost>>
  BY <1>5 DEF RelayNext, Reads, Ends, RelayInside, clientVars, Receive, RejectInvalid, Reject,
     Finish, ReplacePlugin, ReplayNext, ReplayFails, CloseFailed, HeartbeatFails, Forward,
     ForwardFails
<1>6. ASSUME NEW d \in Devices, PageNext(d)
      PROVE  CountsOK' /\ commands <= commands' /\ gone \subseteq gone'
  <2>1. UNCHANGED <<refusals, lost>>
    BY <1>6 DEF PageNext, PageConnects, PageReceives, PageDerives, PageCommands, PageCloses,
       Connects, ConnectToSession, ConnectToNewSession, relayVars
  <2>2. \/ gone' = gone
        \/ page[d] \in Conns /\ gone' = gone \cup {page[d]}
    BY <1>6 DEF PageNext, PageConnects, PageReceives, PageDerives, PageCommands, PageCloses,
       TypesInv, PagesOK, Conns
  <2>3. commands' \in 0..MaxCommands /\ commands <= commands'
    BY <1>2, <1>6 DEF CountsOK, PageNext, PageConnects, PageReceives, PageDerives, PageCommands,
       PageCloses
  <2> QED BY <1>2, <2>1, <2>2, <2>3 DEF CountsOK, Faults
<1>7. ASSUME ThreadNext
      PROVE  CountsOK' /\ commands <= commands' /\ gone \subseteq gone'
  <2>1. UNCHANGED <<commands, lost>>
    BY <1>7 DEF ThreadNext, ThreadConnects, ThreadGreets, ThreadReceives, ThreadHearsNothing,
       ThreadRotates, ThreadSendsState, ThreadSendsNothing, ThreadFails, OfficeRefuses,
       ThreadCloses, Connects, ConnectToSession, ConnectToNewSession, relayVars
  <2>2. \/ gone' = gone
        \/ socket \in Conns /\ gone' = gone \cup {socket}
    BY <1>7 DEF ThreadNext, ThreadConnects, ThreadGreets, ThreadReceives, ThreadHearsNothing,
       ThreadRotates, ThreadSendsState, ThreadSendsNothing, ThreadFails, OfficeRefuses,
       ThreadCloses, TypesInv, ThreadOK, Conns
  <2>3. \/ refusals' = refusals
        \/ refusals' = refusals + 1 /\ Faults < MaxFaults
    BY <1>7 DEF ThreadNext, ThreadConnects, ThreadGreets, ThreadReceives, ThreadHearsNothing,
       ThreadRotates, ThreadSendsState, ThreadSendsNothing, ThreadFails, OfficeRefuses,
       ThreadCloses
  <2> QED BY <1>1, <1>2, <2>1, <2>2, <2>3 DEF CountsOK, Faults
<1>8. commands <= commands
  BY <1>2 DEF CountsOK
<1>9. CASE UNCHANGED linkVars
  BY <1>3, <1>8, <1>9 DEF linkVars, clientVars, relayVars
<1>10. CASE RelayNext
  BY <1>3, <1>5, <1>8, <1>10
<1>11. CASE \E c \in Conns : Drops(c)
  BY <1>4, <1>8, <1>11 DEF Drops, clientVars
<1> QED BY <1>6, <1>7, <1>9, <1>10, <1>11 DEF Next

-----------------------------------------------------------------------------
(* The relay.                                                              *)

\* A step is the relay's own, or takes what has come for a client, or leaves
\* the relay alone.
LEMMA RelayUsed ==
  ASSUME TypesInv, [Next]_linkVars
  PROVE  \/ [OpenNext]_relayVars
         \/ UNCHANGED <<sessions, made, session, idle, pc, at, old, backlog, sending, shut, lost>>
<1>1. CASE UNCHANGED linkVars
  BY <1>1 DEF linkVars
<1>2. ASSUME NEW c \in Conns, Reads(c) PROVE OpenNext
  <2> DEFINE m == Head(toRelay[c])
  <2>1. m \in SaidBy(c)
    BY <1>2, TailEntries DEF Reads, TypesInv, ToRelayOK
  <2>2. m \in Envelopes
    BY <2>1, SaidFits
  <2>3. Receive(c, m) \/ Reject(c, m)
    BY <1>2 DEF Reads, RejectInvalid
  <2> QED BY <2>2, <2>3 DEF OpenNext, Clients
<1>3. ASSUME NEW c \in Conns, Ends(c) \/ RelayInside(c) PROVE OpenNext
  BY <1>3 DEF Ends, RelayInside, OpenNext, Server
<1>4. ASSUME NEW c \in Conns, Drops(c) PROVE OpenNext
  BY <1>4 DEF Drops, OpenNext, Clients
<1>5. ASSUME NEW c \in Conns, Connects(c) PROVE OpenNext
  <2>1. Session \in Ids
    BY LinkAssumption
  <2> QED BY <1>5, <2>1 DEF Connects, OpenNext, Server
<1>6. ASSUME NEW d \in Devices, PageNext(d)
      PROVE  \/ OpenNext
             \/ UNCHANGED relayVars
             \/ UNCHANGED <<sessions, made, session, idle, pc, at, old, backlog, sending, shut, lost>>
  <2>1. ASSUME NEW c \in Phones, PageConnects(d, c) PROVE OpenNext
    BY <1>5, <2>1 DEF PageConnects, Conns
  <2>2. CASE PageReceives(d)
    BY <2>2 DEF PageReceives
  <2>3. CASE PageDerives(d) \/ PageCommands(d) \/ PageCloses(d)
    BY <2>3 DEF PageDerives, PageCommands, PageCloses
  <2> QED BY <1>6, <2>1, <2>2, <2>3 DEF PageNext
<1>7. ASSUME ThreadNext
      PROVE  \/ OpenNext
             \/ UNCHANGED relayVars
             \/ UNCHANGED <<sessions, made, session, idle, pc, at, old, backlog, sending, shut, lost>>
  <2>1. ASSUME NEW c \in Plugins, ThreadConnects(c) PROVE OpenNext
    BY <1>5, <2>1 DEF ThreadConnects, Conns
  <2>2. CASE ThreadReceives
    BY <2>2 DEF ThreadReceives
  <2>3. CASE \/ ThreadGreets \/ ThreadHearsNothing \/ ThreadRotates \/ ThreadSendsState
             \/ ThreadSendsNothing \/ ThreadFails \/ OfficeRefuses
    BY <2>3 DEF ThreadGreets, ThreadHearsNothing, ThreadRotates, ThreadSendsState,
                ThreadSendsNothing, ThreadFails, OfficeRefuses, ThreadCloses
  <2> QED BY <1>7, <2>1, <2>2, <2>3 DEF ThreadNext
<1> QED BY <1>1, <1>2, <1>3, <1>4, <1>6, <1>7 DEF Next, RelayNext

\* So the relay stays in order.
LEMMA RelayKept ==
  ASSUME TypesInv, [Next]_linkVars
  PROVE  RelayInv'
<1>1. CASE [OpenNext]_relayVars
  BY <1>1, RelayStep DEF TypesInv
<1>2. CASE UNCHANGED <<sessions, made, session, idle, pc, at, old, backlog, sending, shut, lost>>
  <2>1. \A d \in Conns : Onward(d)
    BY <1>2 DEF Onward
  <2> QED BY <1>2, <2>1, Typed, QuietStep DEF TypesInv
<1> QED BY <1>1, <1>2, RelayUsed

\* A connection that has been used stays used, and closed sockets stay closed.
LEMMA UsedStays ==
  ASSUME TypesInv, [Next]_linkVars
  PROVE  /\ \A c \in Conns : pc[c] # "new" => pc'[c] # "new"
         /\ shut \subseteq shut' /\ lost \subseteq lost'
<1>0. pc \in [Conns -> Places] /\ RelayInv
  BY Typed DEF TypesInv
<1>1. ASSUME NEW c \in Conns, NEW i \in Ids,
             ConnectToSession(c, i) \/ ConnectToNewSession(c, i) \/ ConnectRefused(c, i)
      PROVE  /\ \E p \in {"open", "replacing", "replaying", "done"} : pc' = [pc EXCEPT ![c] = p]
             /\ shut \subseteq shut' /\ lost \subseteq lost'
  BY <1>1 DEF ConnectToSession, ConnectToNewSession, ConnectRefused, Enter, EnterAsPlugin,
              EnterAsPhone
<1>2. ASSUME NEW c \in Conns,
             ReplacePlugin(c) \/ ReplayNext(c) \/ ReplayFails(c) \/ Finish(c)
      PROVE  /\ pc' = pc \/ \E p \in {"open", "done"} : pc' = [pc EXCEPT ![c] = p]
             /\ shut \subseteq shut' /\ lost \subseteq lost'
  BY <1>2 DEF ReplacePlugin, ReplayNext, ReplayFails, Finish
<1>3. ASSUME NEW c \in Conns,
             \/ CloseFailed(c) \/ HeartbeatFails(c) \/ ClientVanish(c)
             \/ \E t \in Conns : Forward(c, t) \/ ForwardFails(c, t)
             \/ \E m \in Envelopes : Receive(c, m) \/ Reject(c, m)
      PROVE  pc' = pc /\ shut \subseteq shut' /\ lost \subseteq lost'
  BY <1>3 DEF CloseFailed, HeartbeatFails, ClientVanish, Forward, ForwardFails, Receive, Reject
<1>4. ASSUME Sweep \/ \E o \in Objects : GrowIdle(o)
      PROVE  pc' = pc /\ shut \subseteq shut' /\ lost \subseteq lost'
  BY <1>4 DEF Sweep, GrowIdle
<1>5. CASE UNCHANGED <<pc, shut, lost>>
  BY <1>5
<1>6. CASE OpenNext
  <2>1. \/ pc' = pc
        \/ \E c \in Conns, p \in {"open", "replacing", "replaying", "done"} :
             pc' = [pc EXCEPT ![c] = p]
    BY <1>1, <1>2, <1>3, <1>4, <1>6 DEF OpenNext, Server, Clients
  <2>2. shut \subseteq shut' /\ lost \subseteq lost'
    BY <1>1, <1>2, <1>3, <1>4, <1>6 DEF OpenNext, Server, Clients
  <2> QED BY <1>0, <2>1, <2>2
<1> QED BY <1>5, <1>6, RelayUsed DEF relayVars

-----------------------------------------------------------------------------
(* Connecting to the relay.                                                *)

\* Session object x keeps its plugin and what it has recorded of it.
Same(x) == /\ session'[x].hello = session[x].hello
           /\ session'[x].cached = session[x].cached
           /\ session'[x].plugin = session[x].plugin

\* Session object x is plugin c's from now on, with nothing recorded.
Taken(x, c) == /\ session'[x].hello = NoHello
               /\ session'[x].cached = <<>>
               /\ session'[x].plugin = c

\* A plugin that enters takes a free slot, and a phone is given the hello and
\* the cache of the session it enters.
LEMMA EnterEffect ==
  ASSUME RelayInv, NEW c \in Conns, NEW o \in Objects, NEW ss \in [Objects -> Sessions],
         \A x \in Objects : /\ ss[x].hello = session[x].hello
                            /\ ss[x].cached = session[x].cached
                            /\ ss[x].plugin = session[x].plugin,
         Enter(c, o, ss)
  PROVE  /\ at' = [at EXCEPT ![c] = o]
         /\ \A x \in Objects : x # o => Same(x)
         /\ c \in Plugins =>
              /\ UNCHANGED <<backlog, outbox>>
              /\ \/ pc' = [pc EXCEPT ![c] = "open"] /\ Taken(o, c)
                 \/ /\ pc' = [pc EXCEPT ![c] = "replacing"] /\ Same(o)
                    /\ session[o].plugin # NoConn
         /\ c \in Phones =>
              /\ pc' = [pc EXCEPT ![c] = "replaying"] /\ Same(o)
              /\ backlog' = [backlog EXCEPT ![c] = session[o].cached]
              /\ \/ outbox' = outbox
                 \/ /\ session[o].hello # NoHello
                    /\ outbox' = [outbox EXCEPT ![c] = Append(@, session[o].hello)]
<1> DEFINE a == Admit(ss[o], c)
           tt == [ss EXCEPT ![o] = Admit(@, c)]
<1>1. /\ a \in Sessions /\ a.hello = ss[o].hello /\ a.cached = ss[o].cached
      /\ a.plugin = ss[o].plugin
  BY DEF Admit, Sessions, Tokens
<1>2. tt[o] = a /\ tt \in [Objects -> Sessions] /\ \A x \in Objects : x # o => tt[x] = ss[x]
  BY <1>1
<1>3. at' = [at EXCEPT ![c] = o] /\ (EnterAsPlugin(c, o, tt) \/ EnterAsPhone(c, o, tt))
  BY DEF Enter
<1> HIDE DEF a, tt
<1>4. CASE EnterAsPlugin(c, o, tt)
  <2>1. c \in Plugins /\ c \notin Phones /\ UNCHANGED <<backlog, outbox>>
    BY <1>4, RolesAssumption DEF EnterAsPlugin
  <2>2. CASE tt[o].plugin \in shut \cup {NoConn}
    <3>1. /\ session' = [tt EXCEPT ![o] = ClearCached([@ EXCEPT !.plugin = c])]
          /\ pc' = [pc EXCEPT ![c] = "open"]
      BY <1>4, <2>2 DEF EnterAsPlugin
    <3>2. LET r == ClearCached([a EXCEPT !.plugin = c])
          IN r.hello = NoHello /\ r.cached = <<>> /\ r.plugin = c
      BY <1>1 DEF ClearCached, Sessions
    <3>3. Taken(o, c)
      BY <1>2, <3>1, <3>2 DEF Taken
    <3>4. \A x \in Objects : x # o => Same(x)
      BY <1>2, <3>1 DEF Same
    <3> QED BY <1>3, <2>1, <3>1, <3>3, <3>4
  <2>3. CASE tt[o].plugin \notin shut \cup {NoConn}
    <3>1. session' = tt /\ pc' = [pc EXCEPT ![c] = "replacing"]
      BY <1>4, <2>3 DEF EnterAsPlugin
    <3>2. \A x \in Objects : Same(x)
      BY <1>1, <1>2, <3>1 DEF Same
    <3>3. session[o].plugin # NoConn
      BY <1>1, <1>2, <2>3
    <3> QED BY <1>3, <2>1, <3>1, <3>2, <3>3
  <2> QED BY <2>2, <2>3
<1>5. CASE EnterAsPhone(c, o, tt)
  <2>1. /\ c \in Phones /\ c \notin Plugins
        /\ session' = [tt EXCEPT ![o].phones = @ \cup {c}]
        /\ outbox' = IF tt[o].hello = NoHello THEN outbox
                     ELSE [outbox EXCEPT ![c] = Append(@, tt[o].hello)]
        /\ backlog' = [backlog EXCEPT ![c] = tt[o].cached]
        /\ pc' = [pc EXCEPT ![c] = "replaying"]
    BY <1>5, RolesAssumption DEF EnterAsPhone, HasRoom
  <2>2. tt[o].hello = session[o].hello /\ tt[o].cached = session[o].cached
        /\ tt[o].plugin = session[o].plugin
    BY <1>1, <1>2
  <2>3. LET r == [a EXCEPT !.phones = @ \cup {c}]
        IN r.hello = a.hello /\ r.cached = a.cached /\ r.plugin = a.plugin
    BY <1>1 DEF Sessions
  <2>4. session'[o] = [a EXCEPT !.phones = @ \cup {c}] /\ \A x \in Objects : x # o => session'[x] = tt[x]
    BY <1>2, <2>1
  <2>5. /\ session'[o].hello = session[o].hello
        /\ session'[o].cached = session[o].cached
        /\ session'[o].plugin = session[o].plugin
    BY <1>1, <2>3, <2>4
  <2>6. \A x \in Objects : x # o => session'[x] = ss[x]
    BY <1>2, <2>4
  <2>7. \A x \in Objects : Same(x)
    BY <2>5, <2>6 DEF Same
  <2> QED BY <1>3, <2>1, <2>2, <2>7
<1> QED BY <1>3, <1>4, <1>5

(***************************************************************************)
(* What connecting does: the connection is used from then on; a plugin     *)
(* takes a free slot, or waits for one that is taken, or is turned away.   *)
(***************************************************************************)
LEMMA ConnectsEffect ==
  ASSUME RelayInv, NEW c \in Conns, Connects(c)
  PROVE  /\ pc[c] = "new" /\ UNCHANGED <<sending, lost>>
         /\ \E o \in Objects :
              /\ at' = at \/ at' = [at EXCEPT ![c] = o]
              /\ \A x \in Objects : x # o => Same(x)
              /\ c \in Plugins =>
                   /\ UNCHANGED <<backlog, outbox>>
                   /\ \/ /\ pc' = [pc EXCEPT ![c] = "open"] /\ Taken(o, c)
                         /\ at' = [at EXCEPT ![c] = o]
                      \/ /\ pc' = [pc EXCEPT ![c] = "replacing"] /\ Same(o)
                         /\ session[o].plugin # NoConn
                      \/ pc' = [pc EXCEPT ![c] = "done"] /\ Same(o)
              /\ c \in Phones =>
                   /\ \E p \in {"replaying", "done"} : pc' = [pc EXCEPT ![c] = p]
                   /\ Same(o)
                   /\ backlog' = backlog \/ backlog' = [backlog EXCEPT ![c] = session[o].cached]
                   /\ \/ outbox' = outbox
                      \/ /\ session[o].hello # NoHello
                         /\ outbox' = [outbox EXCEPT ![c] = Append(@, session[o].hello)]
<1>1. session \in [Objects -> Sessions] /\ made \in 0..MaxObjects /\ MaxObjects \in Nat
      /\ Session \in Ids
  BY Bounds, LinkAssumption DEF RelayInv, SessionsOK
<1>2. CASE ConnectToSession(c, Session)
  <2> DEFINE o == sessions[Session]
  <2>1. o \in Objects
    BY <1>1, <1>2 DEF ConnectToSession, RelayInv, SessionsOK, Objects
  <2>2. pc[c] = "new" /\ UNCHANGED <<sending, lost>> /\ Enter(c, o, session)
    BY <1>2 DEF ConnectToSession
  <2> HIDE DEF o
  <2> QED BY <1>1, <2>1, <2>2, EnterEffect
<1>3. CASE ConnectToNewSession(c, Session)
  <2> DEFINE o == made + 1
             ss == [session EXCEPT ![o] = NewSession(Session)]
  <2>1. o \in Objects
    BY <1>1, <1>3 DEF ConnectToNewSession, Objects
  <2>2. session[o] = NewSession(NoConn)
    BY <1>1, <2>1 DEF RelayInv, SessionsOK
  <2>3. NewSession(Session) \in Sessions /\ ss[o] = NewSession(Session)
    BY <1>1, <2>1, NewFits
  <2>4. ss \in [Objects -> Sessions] /\ \A x \in Objects : x # o => ss[x] = session[x]
    BY <1>1, <2>3
  <2>5. /\ NewSession(Session).hello = NewSession(NoConn).hello
        /\ NewSession(Session).cached = NewSession(NoConn).cached
        /\ NewSession(Session).plugin = NewSession(NoConn).plugin
    BY DEF NewSession
  <2>6. /\ pc[c] = "new" /\ UNCHANGED <<sending, lost>>
        /\ \/ Enter(c, o, ss)
           \/ session' = ss /\ pc' = [pc EXCEPT ![c] = "done"] /\ UNCHANGED <<at, old, backlog, shut, outbox>>
    BY <1>3 DEF ConnectToNewSession
  <2> HIDE DEF o, ss
  <2>7. \A x \in Objects : /\ ss[x].hello = session[x].hello
                           /\ ss[x].cached = session[x].cached
                           /\ ss[x].plugin = session[x].plugin
    BY <2>2, <2>3, <2>4, <2>5
  <2>8. CASE Enter(c, o, ss)
    BY <2>1, <2>4, <2>6, <2>7, <2>8, EnterEffect
  <2>9. CASE session' = ss /\ pc' = [pc EXCEPT ![c] = "done"] /\ UNCHANGED <<at, old, backlog, shut, outbox>>
    BY <2>1, <2>6, <2>7, <2>9 DEF Same
  <2> QED BY <2>6, <2>8, <2>9
<1> QED BY <1>2, <1>3 DEF Connects

-----------------------------------------------------------------------------
(* What the relay has recorded and what it is about to send.               *)

\* The steps of the relay that read nothing and admit nobody.
RelayOwn(c) ==
  \/ Finish(c) \/ ReplacePlugin(c) \/ ReplayNext(c) \/ ReplayFails(c) \/ CloseFailed(c)
  \/ HeartbeatFails(c) \/ ClientVanish(c)
  \/ \E t \in Conns : Forward(c, t) \/ ForwardFails(c, t)

\* Which part of the relay a step is of.
LEMMA RelayParts ==
  ASSUME [Next]_linkVars
  PROVE  \/ UNCHANGED relayVars
         \/ \E c \in Conns : /\ Connects(c) /\ UNCHANGED toRelay
                             /\ c \in Plugins => thread = "down" /\ socket' = c
         \/ \E c \in Conns : Reads(c)
         \/ \E c \in Conns : RelayOwn(c) /\ UNCHANGED <<toRelay, codecVars, clientVars>>
         \/ ThreadReceives
         \/ \E d \in Devices : PageReceives(d)
<1>1. CASE UNCHANGED linkVars
  BY <1>1 DEF linkVars
<1>2. CASE RelayNext \/ \E c \in Conns : Drops(c)
  BY <1>2 DEF RelayNext, Ends, RelayInside, RelayOwn, Drops
<1>3. CASE ThreadNext
  BY <1>3 DEF ThreadNext, ThreadConnects, ThreadGreets, ThreadHearsNothing, ThreadRotates,
              ThreadSendsState, ThreadSendsNothing, ThreadFails, OfficeRefuses, ThreadCloses,
              Conns
<1>4. ASSUME NEW d \in Devices, PageNext(d)
      PROVE  \/ UNCHANGED relayVars
             \/ \E c \in Conns : Connects(c) /\ UNCHANGED toRelay /\ c \notin Plugins
             \/ PageReceives(d)
  BY <1>4, RolesAssumption DEF PageNext, PageConnects, PageDerives, PageCommands, PageCloses, Conns
<1> QED BY <1>1, <1>2, <1>3, <1>4 DEF Next

\* What a client of the relay does leaves its sessions and sends alone.
LEMMA TakingIsQuiet ==
  ASSUME ThreadReceives \/ \E d \in Devices : PageReceives(d)
  PROVE  UNCHANGED <<sessions, made, session, idle, pc, at, old, backlog, sending, shut, lost>>
  BY DEF ThreadReceives, PageReceives

\* A session object records what its plugin says, or forgets all of it.
LEMMA RecordedMoves ==
  ASSUME TypesInv, [Next]_linkVars, NEW x \in Objects
  PROVE  \/ /\ session'[x].hello = session[x].hello
            /\ session'[x].cached = session[x].cached
         \/ session'[x].hello = NoHello /\ session'[x].cached = <<>>
         \/ \E c \in Plugins :
              /\ toRelay[c] # <<>> /\ Awaiting(c) /\ at[c] = x
              /\ session'[x] = Metadata(session[x], c, Head(toRelay[c]))
<1>0. session \in [Objects -> Sessions]
  BY DEF TypesInv, RelayInv, SessionsOK
<1>1. CASE UNCHANGED session
  BY <1>1
<1>2. ASSUME NEW c \in Conns, Connects(c)
      PROVE  \/ /\ session'[x].hello = session[x].hello
                /\ session'[x].cached = session[x].cached
             \/ session'[x].hello = NoHello /\ session'[x].cached = <<>>
  BY <1>2, ConnectsEffect DEF TypesInv, Same, Taken, Conns
<1>3. ASSUME NEW c \in Conns, Reads(c), ~UNCHANGED session
      PROVE  \/ session'[x] = session[x]
             \/ /\ c \in Plugins /\ toRelay[c] # <<>> /\ Awaiting(c) /\ at[c] = x
                /\ session'[x] = Metadata(session[x], c, Head(toRelay[c]))
  <2>1. /\ toRelay[c] # <<>> /\ Awaiting(c)
        /\ session' = [session EXCEPT ![at[c]] = Metadata(session[at[c]], c, Head(toRelay[c]))]
    BY <1>3 DEF Reads, RejectInvalid, Reject, Receive
  <2>2. c \notin Plugins => Metadata(session[at[c]], c, Head(toRelay[c])) = session[at[c]]
    BY DEF Metadata
  <2> QED BY <1>0, <2>1, <2>2
<1>4. ASSUME NEW c \in Conns, RelayOwn(c), ~UNCHANGED session
      PROVE  \/ /\ session'[x].hello = session[x].hello
                /\ session'[x].cached = session[x].cached
             \/ session'[x].hello = NoHello /\ session'[x].cached = <<>>
  <2>1. \/ session' = [session EXCEPT ![at[c]] = Leave(c, @)]
        \/ session' = [session EXCEPT ![at[c]] = ClearCached([@ EXCEPT !.plugin = c])]
    BY <1>4 DEF RelayOwn, Finish, ReplacePlugin, ReplayNext, ReplayFails, CloseFailed,
                HeartbeatFails, ClientVanish, Forward, ForwardFails
  <2>2. ASSUME NEW s \in Sessions
        PROVE  /\ ClearCached([s EXCEPT !.plugin = c]).hello = NoHello
               /\ ClearCached([s EXCEPT !.plugin = c]).cached = <<>>
               /\ \/ Leave(c, s).hello = s.hello /\ Leave(c, s).cached = s.cached
                  \/ Leave(c, s).hello = NoHello /\ Leave(c, s).cached = <<>>
    BY DEF ClearCached, Leave, Sessions
  <2>3. session[x] \in Sessions
    BY <1>0
  <2>4. /\ x # at[c] => session'[x] = session[x]
        /\ x = at[c] => \/ session'[x] = Leave(c, session[x])
                        \/ session'[x] = ClearCached([session[x] EXCEPT !.plugin = c])
    BY <1>0, <2>1
  <2> QED BY <2>2, <2>3, <2>4
<1> QED BY <1>1, <1>2, <1>3, <1>4, RelayParts, TakingIsQuiet DEF relayVars

\* What is recorded was said by a plugin.
LEMMA RecordedKept ==
  ASSUME TypesInv, [Next]_linkVars
  PROVE  RecordedOK'
<1>1. PluginMessages \subseteq PluginMessages'
  BY CodecKept, CountsKept, Numbers, MoreMessages DEF CountsOK
<1>2. ASSUME NEW x \in Objects
      PROVE  /\ session'[x].hello \in PluginMessages \cup {NoHello}
             /\ session'[x].cached \in Seq(PluginMessages)
  <2>1. /\ session[x].hello \in PluginMessages \cup {NoHello}
        /\ session[x].cached \in Seq(PluginMessages) /\ session[x] \in Sessions
    BY DEF TypesInv, RecordedOK, RelayInv, SessionsOK
  <2>2. CASE session'[x].hello = NoHello /\ session'[x].cached = <<>>
    BY <2>2
  <2>3. ASSUME NEW c \in Plugins, toRelay[c] # <<>>,
               session'[x] = Metadata(session[x], c, Head(toRelay[c]))
        PROVE  /\ session'[x].hello \in PluginMessages \cup {NoHello}
               /\ session'[x].cached \in Seq(PluginMessages)
    <3> DEFINE m == Head(toRelay[c])
               s == session[x]
    <3>1. m \in PluginMessages
      <4>1. toRelay[c] \in Seq(SaidBy(c)) /\ SaidBy(c) = PluginMessages
        BY RolesAssumption DEF TypesInv, ToRelayOK, SaidBy, Conns
      <4> QED BY <2>3, <4>1, TailEntries
    <3> HIDE DEF m
    <3>2. Cached(s.cached, m) \in Seq(PluginMessages)
      <4>1. Append(s.cached, m) \in Seq(PluginMessages) /\ Append(s.cached, m) # <<>>
        BY <2>1, <3>1, AppendEntries
      <4>2. Tail(Append(s.cached, m)) \in Seq(PluginMessages)
        BY <4>1, TailEntries
      <4> QED BY <4>1, <4>2 DEF Cached
    <3>3. /\ Metadata(s, c, m).hello \in {s.hello, m}
          /\ Metadata(s, c, m).cached \in {s.cached, <<>>, Cached(s.cached, m)}
      BY <2>1 DEF Metadata, Sessions
    <3>4. session'[x] = Metadata(s, c, m)
      BY <2>3 DEF m
    <3> HIDE DEF s
    <3>5. <<>> \in Seq(PluginMessages)
      OBVIOUS
    <3> QED BY <2>1, <3>1, <3>2, <3>3, <3>4, <3>5 DEF s
  <2> QED BY <2>1, <2>2, <2>3, RecordedMoves
<1>3. ASSUME NEW x \in Objects PROVE session'[x].cached \in Seq(PluginMessages')
  BY <1>1, <1>2, WiderSeq
<1> QED BY <1>1, <1>2, <1>3 DEF RecordedOK

\* A joining phone's backlog is part of what some session has cached.
LEMMA BacklogKept ==
  ASSUME TypesInv, [Next]_linkVars
  PROVE  BacklogOK'
<1>0. BacklogOK /\ \A o \in Objects : session[o].cached \in Seq(PluginMessages)
  BY DEF TypesInv, RecordedOK
<1>1. PluginMessages \subseteq PluginMessages'
  BY CodecKept, CountsKept, Numbers, MoreMessages DEF CountsOK
<1>2. \/ backlog' = backlog
      \/ \E c \in Conns, s \in Seq(PluginMessages) :
           backlog' = [backlog EXCEPT ![c] = s] /\ (c \in Plugins => s = <<>>)
  <2> DEFINE Goal == \/ backlog' = backlog
                     \/ \E c \in Conns, s \in Seq(PluginMessages) :
                          backlog' = [backlog EXCEPT ![c] = s] /\ (c \in Plugins => s = <<>>)
  <2>1. ASSUME NEW c \in Conns, Connects(c) PROVE Goal
    <3>1. \/ backlog' = backlog
          \/ \E o \in Objects : c \in Phones /\ backlog' = [backlog EXCEPT ![c] = session[o].cached]
      BY <2>1, ConnectsEffect DEF TypesInv, Conns
    <3> QED BY <1>0, <3>1, RolesAssumption
  <2>2. ASSUME NEW c \in Conns, RelayOwn(c) PROVE Goal
    <3>1. \/ backlog' = backlog
          \/ backlog' = [backlog EXCEPT ![c] = <<>>]
          \/ backlog[c] # <<>> /\ backlog' = [backlog EXCEPT ![c] = Tail(@)]
      BY <2>2 DEF RelayOwn, Finish, ReplacePlugin, ReplayNext, ReplayFails, CloseFailed,
                  HeartbeatFails, ClientVanish, Forward, ForwardFails
    <3>2. backlog[c] # <<>> => Tail(backlog[c]) \in Seq(PluginMessages) /\ c \notin Plugins
      BY <1>0, TailEntries DEF BacklogOK
    <3>3. <<>> \in Seq(PluginMessages)
      OBVIOUS
    <3>4. backlog' = [backlog EXCEPT ![c] = Tail(@)] => backlog' = [backlog EXCEPT ![c] = Tail(backlog[c])]
      OBVIOUS
    <3> QED BY <3>1, <3>2, <3>3, <3>4
  <2>3. ASSUME NEW c \in Conns, Reads(c) PROVE Goal
    BY <2>3 DEF Reads, RejectInvalid, Reject, Receive
  <2> QED BY <2>1, <2>2, <2>3, RelayParts, TakingIsQuiet DEF relayVars
<1>3. /\ PerConn(backlog) /\ \A c \in Conns : backlog[c] \in Seq(PluginMessages)
      /\ \A c \in Plugins : backlog[c] = <<>>
  BY <1>0 DEF BacklogOK
<1>4. /\ PerConn(backlog)' /\ \A c \in Conns : backlog'[c] \in Seq(PluginMessages)
      /\ \A c \in Plugins : backlog'[c] = <<>>
  BY <1>2, <1>3 DEF PerConn, Conns
<1>5. \A c \in Conns : backlog'[c] \in Seq(PluginMessages')
  BY <1>1, <1>4, WiderSeq
<1> QED BY <1>4, <1>5 DEF BacklogOK

\* What a page says over connection c, and why it can.
PageSays(d, c, m) ==
  /\ page[d] = c /\ c \in Phones /\ c \notin shut \cup lost
  /\ \/ PageDerives(d) /\ \E k \in Hellos : m = Hello(k, c) /\ keyring'[d][k] = c
     \/ /\ PageCommands(d)
        /\ \E k \in Hellos :
             /\ keyring[d][k] = c
             /\ m = Frame(k, "command", [peer |-> c, nonce |-> commands + 1])

\* A client says what it may, one message at a time.
LEMMA Says ==
  ASSUME TypesInv, UsedOnce, [Next]_linkVars
  PROVE  \/ toRelay' = toRelay
         \/ \E c \in Conns : Reads(c)
         \/ \E c \in Conns : \E m \in SaidBy(c)' :
              /\ toRelay' = [toRelay EXCEPT ![c] = Append(@, m)] /\ UNCHANGED relayVars
              /\ c = socket \/ \E d \in Devices : PageSays(d, c, m)
<1> DEFINE Said == \E c \in Conns : \E m \in SaidBy(c)' :
              /\ toRelay' = [toRelay EXCEPT ![c] = Append(@, m)] /\ UNCHANGED relayVars
              /\ c = socket \/ \E d \in Devices : PageSays(d, c, m)
<1>0. /\ offered \in Nat /\ offered' \in Nat /\ Hellos \subseteq Hellos'
      /\ commands \in Nat /\ commands' \in Nat /\ commands <= commands'
  BY CodecKept, CountsKept, Numbers, MoreMessages DEF CountsOK
<1>1. ASSUME ThreadGreets \/ ThreadRotates PROVE Said
  <2>1. PICK p \in Plugins : p = socket
    BY <1>1 DEF ThreadGreets, ThreadRotates, TypesInv, ThreadOK
  <2>2. /\ offered + 1 \in Hellos' /\ UNCHANGED relayVars
        /\ toRelay' = [toRelay EXCEPT ![p] = Append(@, Hello(offered + 1, NoPeer))]
    BY <1>0, <1>1, <2>1 DEF ThreadGreets, ThreadRotates, RotateSendKey, Send, Hellos
  <2>3. PICK m : m = Hello(offered + 1, NoPeer)
    OBVIOUS
  <2>4. m \in PluginMessages'
    BY <2>2, <2>3 DEF Hello, PluginMessages
  <2>5. p \in Conns /\ m \in SaidBy(p)'
    BY <2>4, RolesAssumption DEF SaidBy, Conns
  <2> QED BY <2>1, <2>2, <2>3, <2>5
<1>2. ASSUME ThreadSendsState PROVE Said
  <2>1. PICK p \in Plugins : p = socket
    BY <1>2 DEF ThreadSendsState, TypesInv, ThreadOK
  <2>2. /\ UNCHANGED relayVars /\ Ready
        /\ toRelay' = [toRelay EXCEPT ![p] = Append(@, Frame(active, "state", peer[active]))]
    BY <1>2, <2>1 DEF ThreadSendsState, Send, EncodeFrame
  <2>3. active \in Hellos /\ peer[active] \in Phones
    <3>1. active \in Table
      BY <2>2 DEF TypesInv, CodecOK, CodecInv, CodecTypeOK, KeyTableConsistent
    <3>2. peer[active] \in Ephemerals
      BY <3>1 DEF Table, TypesInv, CodecOK, CodecInv, CodecTypeOK
    <3> QED BY <2>2, <3>2, LinkAssumption
            DEF TypesInv, CodecOK, CodecInv, CodecTypeOK, Ready, Hellos
  <2>4. PICK m : m = Frame(active, "state", peer[active])
    OBVIOUS
  <2>5. m \in PluginMessages'
    BY <1>0, <2>3, <2>4 DEF Frame, PluginMessages
  <2>6. p \in Conns /\ m \in SaidBy(p)'
    BY <2>5, RolesAssumption DEF SaidBy, Conns
  <2> QED BY <2>1, <2>2, <2>4, <2>6
<1>3. ASSUME NEW d \in Devices, PageDerives(d), ~UNCHANGED toRelay PROVE Said
  <2>1. PICK h \in deriving[d] :
          /\ keyring' = [keyring EXCEPT ![d][h.key] = h.conn]
          /\ page[d] # NoConn /\ page[d] \notin shut \cup lost
          /\ toRelay' = [toRelay EXCEPT ![page[d]] = Append(@, Hello(h.key, h.conn))]
          /\ UNCHANGED relayVars
    BY <1>3 DEF PageDerives, Send
  <2>2. page[d] = h.conn /\ h.conn \in Phones /\ h.key \in Hellos /\ h.conn \in Conns
    <3>1. h \in [key : Hellos, conn : Phones]
      BY DEF TypesInv, PagesOK
    <3>2. page[d] \in {NoConn, h.conn}
      BY DEF UsedOnce
    <3> QED BY <2>1, <3>1, <3>2 DEF Conns
  <2>3. keyring'[d][h.key] = h.conn
    BY <2>1, <2>2, Numbers DEF TypesInv, PagesOK
  <2>4. Hello(h.key, h.conn) \in PhoneMessages(h.conn)'
    BY <1>0, <2>2 DEF Hello, PhoneMessages
  <2>5. Hello(h.key, h.conn) \in SaidBy(h.conn)'
    BY <2>2, <2>4 DEF SaidBy
  <2>6. PageSays(d, h.conn, Hello(h.key, h.conn))
    BY <1>3, <2>1, <2>2, <2>3 DEF PageSays
  <2>7. toRelay' = [toRelay EXCEPT ![h.conn] = Append(@, Hello(h.key, h.conn))]
    BY <2>1, <2>2
  <2> QED BY <2>1, <2>2, <2>5, <2>6, <2>7
<1>4. ASSUME NEW d \in Devices, PageCommands(d) PROVE Said
  <2>1. PICK c \in Phones : c = page[d]
    BY <1>4 DEF PageCommands, TypesInv, PagesOK
  <2>2. PICK k \in Keys : k = using[d]
    BY <1>4, MaxHellosAssumption DEF PageCommands, TypesInv, PagesOK, Keys
  <2>3. /\ c # NoConn /\ c \notin shut \cup lost /\ k # 0 /\ commands' = commands + 1
        /\ toRelay' = [toRelay EXCEPT ![c] = Append(@, Frame(k, "command",
                         [peer |-> keyring[d][k], nonce |-> commands + 1]))]
        /\ UNCHANGED relayVars
    BY <1>4, <2>1, <2>2 DEF PageCommands, Send
  <2>4. keyring[d][k] = c /\ k \in Hellos
    BY <2>1, <2>2, <2>3 DEF UsedOnce, TypesInv, PagesOK, PageCommands
  <2>5. PICK m : m = Frame(k, "command", [peer |-> c, nonce |-> commands + 1])
    OBVIOUS
  <2>6. toRelay' = [toRelay EXCEPT ![c] = Append(@, m)]
    BY <2>3, <2>4, <2>5
  <2>7. m \in PhoneMessages(c)'
    BY <1>0, <2>3, <2>4, <2>5 DEF Frame, PhoneMessages
  <2>8. c \in Conns /\ m \in SaidBy(c)'
    BY <2>7 DEF SaidBy, Conns
  <2>9. PageSays(d, c, m)
    BY <1>4, <2>1, <2>3, <2>4, <2>5 DEF PageSays
  <2> QED BY <2>3, <2>6, <2>8, <2>9
<1>5. ASSUME NEW d \in Devices, PageNext(d), ~PageDerives(d), ~PageCommands(d)
      PROVE  UNCHANGED toRelay
  BY <1>5 DEF PageNext, PageConnects, PageReceives, PageCloses
<1>6. ASSUME ThreadNext, ~ThreadGreets, ~ThreadRotates, ~ThreadSendsState
      PROVE  UNCHANGED toRelay
  BY <1>6 DEF ThreadNext, ThreadConnects, ThreadReceives, ThreadHearsNothing,
              ThreadSendsNothing, ThreadFails, OfficeRefuses, ThreadCloses
<1>7. CASE RelayNext \/ \E c \in Conns : Drops(c)
  BY <1>7 DEF RelayNext, Ends, RelayInside, Drops
<1>8. CASE UNCHANGED linkVars
  BY <1>8 DEF linkVars
<1> QED BY <1>1, <1>2, <1>3, <1>4, <1>5, <1>6, <1>7, <1>8 DEF Next

\* What is on its way to the relay was said by who it comes from.
LEMMA ToRelayKept ==
  ASSUME TypesInv, UsedOnce, [Next]_linkVars
  PROVE  ToRelayOK'
<1>0. PerConn(toRelay) /\ \A c \in Conns : toRelay[c] \in Seq(SaidBy(c))
  BY DEF TypesInv, ToRelayOK
<1>1. \A c \in Conns : toRelay[c] \in Seq(SaidBy(c)')
  <2> SUFFICES ASSUME NEW c \in Conns PROVE toRelay[c] \in Seq(SaidBy(c)')
    OBVIOUS
  <2>1. SaidBy(c) \subseteq SaidBy(c)'
    BY CodecKept, CountsKept, Numbers, MoreMessages DEF CountsOK
  <2> QED BY <1>0, <2>1, WiderSeq
<1>2. CASE toRelay' = toRelay
  BY <1>0, <1>1, <1>2 DEF ToRelayOK, PerConn
<1>3. ASSUME NEW c \in Conns, Reads(c) PROVE ToRelayOK'
  <2>1. toRelay[c] # <<>> /\ toRelay' = [toRelay EXCEPT ![c] = Tail(toRelay[c])]
    BY <1>3 DEF Reads
  <2>2. Tail(toRelay[c]) \in Seq(SaidBy(c)')
    BY <1>1, <2>1, TailEntries
  <2> QED BY <1>0, <1>1, <2>1, <2>2 DEF ToRelayOK, PerConn
<1>4. ASSUME NEW c \in Conns, NEW m \in SaidBy(c)',
             toRelay' = [toRelay EXCEPT ![c] = Append(@, m)]
      PROVE  ToRelayOK'
  <2>1. toRelay' = [toRelay EXCEPT ![c] = Append(toRelay[c], m)]
    BY <1>4
  <2>2. Append(toRelay[c], m) \in Seq(SaidBy(c)')
    BY <1>1, AppendEntries
  <2> QED BY <1>0, <1>1, <2>1, <2>2 DEF ToRelayOK, PerConn
<1> QED BY <1>2, <1>3, <1>4, Says

(***************************************************************************)
(* What a connection has to send on: a message it has just read, or less   *)
(* than before.                                                            *)
(***************************************************************************)
LEMMA SendingMoves ==
  ASSUME TypesInv, [Next]_linkVars
  PROVE  \/ sending' = sending
         \/ \E c \in Conns :
              /\ Reads(c) /\ Receive(c, Head(toRelay[c])) /\ toRelay[c] # <<>>
              /\ sending' = [sending EXCEPT ![c] =
                   [msg |-> Head(toRelay[c]), to |-> Targets(session[at[c]], c), failed |-> {}]]
         \/ \E c \in Conns : \E r \in Deliveries :
              /\ sending' = [sending EXCEPT ![c] = r]
              /\ r.to \subseteq sending[c].to
              /\ r.to # {} => r.msg = sending[c].msg
              /\ \/ \E t \in Conns : Forward(c, t) /\ t \notin r.to /\ r.failed \subseteq sending[c].failed
                 \/ \E t \in Conns : /\ ForwardFails(c, t) /\ t \notin r.to
                                     /\ r.failed = sending[c].failed \cup {t}
                 \/ CloseFailed(c) /\ r.to = {} /\ r.failed = {}
<1> DEFINE Less(c) == \E r \in Deliveries :
              /\ sending' = [sending EXCEPT ![c] = r]
              /\ r.to \subseteq sending[c].to
              /\ r.to # {} => r.msg = sending[c].msg
              /\ \/ \E t \in Conns : Forward(c, t) /\ t \notin r.to /\ r.failed \subseteq sending[c].failed
                 \/ \E t \in Conns : /\ ForwardFails(c, t) /\ t \notin r.to
                                     /\ r.failed = sending[c].failed \cup {t}
                 \/ CloseFailed(c) /\ r.to = {} /\ r.failed = {}
<1>0. /\ sending \in [Conns -> Deliveries] /\ NothingToSend \in Deliveries
      /\ NothingToSend.to = {} /\ NothingToSend.failed = {}
  BY DEF TypesInv, RelayInv, HandlersOK, NothingToSend, Deliveries
<1>1. ASSUME NEW c \in Conns, Connects(c) PROVE sending' = sending
  BY <1>1, ConnectsEffect DEF TypesInv
<1>2. ASSUME NEW c \in Conns, Reads(c)
      PROVE  \/ sending' = sending
             \/ /\ Receive(c, Head(toRelay[c])) /\ toRelay[c] # <<>>
                /\ sending' = [sending EXCEPT ![c] =
                     [msg |-> Head(toRelay[c]), to |-> Targets(session[at[c]], c), failed |-> {}]]
  BY <1>2 DEF Reads, RejectInvalid, Reject, Receive
<1>3. ASSUME NEW c \in Conns, NEW t \in Conns, Forward(c, t) PROVE Less(c)
  <2> DEFINE s == sending[c]
             r == IF s.to = {t} /\ s.failed = {} THEN NothingToSend ELSE [s EXCEPT !.to = @ \ {t}]
  <2>1. s \in Deliveries
    BY <1>0
  <2>2. sending' = [sending EXCEPT ![c] = r]
    BY <1>3 DEF Forward
  <2>3. /\ r \in Deliveries /\ r.to \subseteq s.to /\ t \notin r.to /\ r.failed \subseteq s.failed
        /\ r.to # {} => r.msg = s.msg
    BY <1>0, <2>1 DEF Deliveries
  <2> HIDE DEF r
  <2> QED BY <1>3, <2>2, <2>3
<1>4. ASSUME NEW c \in Conns, NEW t \in Conns, ForwardFails(c, t) PROVE Less(c)
  <2> DEFINE s == sending[c]
             r == [s EXCEPT !.to = @ \ {t}, !.failed = @ \cup {t}]
  <2>1. s \in Deliveries
    BY <1>0
  <2>2. sending' = [sending EXCEPT ![c] = r]
    BY <1>4 DEF ForwardFails
  <2>3. /\ r \in Deliveries /\ r.to \subseteq s.to /\ t \notin r.to /\ r.failed = s.failed \cup {t}
        /\ r.msg = s.msg
    BY <2>1 DEF Deliveries
  <2> HIDE DEF r
  <2> QED BY <1>4, <2>2, <2>3
<1>5. ASSUME NEW c \in Conns, CloseFailed(c) PROVE Less(c)
  BY <1>0, <1>5 DEF CloseFailed
<1>6. ASSUME NEW c \in Conns, RelayOwn(c) PROVE sending' = sending \/ Less(c)
  <2> HIDE DEF Less
  <2>1. CASE CloseFailed(c) \/ \E t \in Conns : Forward(c, t) \/ ForwardFails(c, t)
    BY <1>3, <1>4, <1>5, <2>1
  <2>2. CASE \/ Finish(c) \/ ReplacePlugin(c) \/ ReplayNext(c) \/ ReplayFails(c)
             \/ HeartbeatFails(c) \/ ClientVanish(c)
    BY <2>2 DEF Finish, ReplacePlugin, ReplayNext, ReplayFails, HeartbeatFails, ClientVanish
  <2> QED BY <1>6, <2>1, <2>2 DEF RelayOwn
<1>7. \/ sending' = sending
      \/ \E c \in Conns : Reads(c)
      \/ \E c \in Conns : Less(c)
  <2> HIDE DEF Less
  <2> QED BY <1>1, <1>6, RelayParts, TakingIsQuiet DEF relayVars
<1> QED BY <1>2, <1>7

\* A message goes from one role to the other.
LEMMA TargetsOpposite ==
  ASSUME TypesInv, NEW c \in Conns, at[c] \in Objects
  PROVE  Targets(session[at[c]], c) \subseteq Opposite(c)
<1>1. session[at[c]] \in Sessions
  BY DEF TypesInv, RelayInv, SessionsOK
<1> QED BY <1>1, RolesAssumption DEF Targets, Opposite, Sessions, Conns

\* What is to be sent on was said by who it comes from.
LEMMA SendingKept ==
  ASSUME TypesInv, [Next]_linkVars
  PROVE  SendingOK'
<1>0. SendingOK /\ sending \in [Conns -> Deliveries]
  BY DEF TypesInv, RelayInv, HandlersOK
<1>1. \A c \in Conns : SaidBy(c) \subseteq SaidBy(c)'
  BY CodecKept, CountsKept, Numbers, MoreMessages DEF CountsOK
<1> SUFFICES ASSUME NEW c \in Conns
             PROVE  /\ sending'[c].to \subseteq Opposite(c)
                    /\ sending'[c].to # {} => sending'[c].msg \in SaidBy(c)
  BY <1>1 DEF SendingOK, Opposite
<1>2. /\ sending[c].to \subseteq Opposite(c)
      /\ sending[c].to # {} => sending[c].msg \in SaidBy(c)
  BY <1>0 DEF SendingOK
<1>3. ASSUME NEW e \in Conns, Receive(e, Head(toRelay[e])), toRelay[e] # <<>>,
             sending' = [sending EXCEPT ![e] =
               [msg |-> Head(toRelay[e]), to |-> Targets(session[at[e]], e), failed |-> {}]]
      PROVE  /\ sending'[c].to \subseteq Opposite(c)
             /\ sending'[c].to # {} => sending'[c].msg \in SaidBy(c)
  <2>1. CASE c = e
    <3>1. /\ sending'[c].to = Targets(session[at[c]], c)
          /\ sending'[c].msg = Head(toRelay[c])
      BY <1>0, <1>3, <2>1
    <3>2. Head(toRelay[c]) \in SaidBy(c)
      BY <1>3, <2>1, TailEntries DEF TypesInv, ToRelayOK
    <3>3. at[c] \in Objects
      BY <1>3, <2>1, AtWork DEF Receive, Awaiting, TypesInv
    <3> QED BY <3>1, <3>2, <3>3, TargetsOpposite
  <2>2. CASE c # e
    BY <1>0, <1>2, <1>3, <2>2
  <2> QED BY <2>1, <2>2
<1>4. ASSUME NEW e \in Conns, NEW r \in Deliveries, sending' = [sending EXCEPT ![e] = r],
             r.to \subseteq sending[e].to, r.to # {} => r.msg = sending[e].msg
      PROVE  /\ sending'[c].to \subseteq Opposite(c)
             /\ sending'[c].to # {} => sending'[c].msg \in SaidBy(c)
  BY <1>0, <1>2, <1>4
<1> QED BY <1>2, <1>3, <1>4, SendingMoves

\* What comes for a connection is a rejection, something that is sent on to it,
\* or for a phone something recorded; it takes them in order.
LEMMA Hears ==
  ASSUME TypesInv, [Next]_linkVars
  PROVE  \/ outbox' = outbox
         \/ \E c \in Conns : \E m \in HeardBy(c) :
              /\ outbox' = [outbox EXCEPT ![c] = Append(@, m)]
              /\ c \in Plugins =>
                   \/ m = Rejection /\ pc[c] # "new"
                   \/ \E e \in Phones : Forward(e, c) /\ m = sending[e].msg
         \/ \E c \in Conns :
              /\ outbox[c] # <<>> /\ outbox' = [outbox EXCEPT ![c] = Tail(@)]
              /\ c \in Plugins => c = socket /\ ThreadReceives
<1> DEFINE More(c) == \E m \in HeardBy(c) :
              /\ outbox' = [outbox EXCEPT ![c] = Append(@, m)]
              /\ c \in Plugins =>
                   \/ m = Rejection /\ pc[c] # "new"
                   \/ \E e \in Phones : Forward(e, c) /\ m = sending[e].msg
<1>0. /\ \A o \in Objects : session[o].hello \in PluginMessages \cup {NoHello}
      /\ \A c \in Conns : backlog[c] \in Seq(PluginMessages)
      /\ \A c \in Plugins : backlog[c] = <<>>
      /\ \A c \in Phones : c \notin Plugins /\ PluginMessages \subseteq HeardBy(c)
  BY RolesAssumption DEF TypesInv, RecordedOK, BacklogOK, HeardBy
<1>1. ASSUME NEW c \in Conns, Connects(c) PROVE outbox' = outbox \/ More(c)
  <2>1. \/ outbox' = outbox
        \/ \E o \in Objects : /\ session[o].hello # NoHello /\ c \in Phones
                              /\ outbox' = [outbox EXCEPT ![c] = Append(@, session[o].hello)]
    BY <1>1, ConnectsEffect DEF TypesInv, Conns
  <2> QED BY <1>0, <2>1
<1>2. ASSUME NEW c \in Conns, Reads(c) PROVE outbox' = outbox \/ More(c)
  <2>1. \/ outbox' = outbox
        \/ outbox' = [outbox EXCEPT ![c] = Append(@, Rejection)] /\ pc[c] = "open"
    BY <1>2 DEF Reads, RejectInvalid, Reject, Receive, Awaiting
  <2>2. Rejection \in HeardBy(c)
    BY DEF HeardBy
  <2> QED BY <2>1, <2>2
<1>3. ASSUME NEW c \in Conns, NEW t \in Conns, Forward(c, t) PROVE More(t)
  <2> DEFINE m == sending[c].msg
  <2>1. outbox' = [outbox EXCEPT ![t] = Append(@, m)] /\ t \in sending[c].to
    BY <1>3 DEF Forward
  <2>2. m \in SaidBy(c) /\ t \in Opposite(c)
    BY <2>1 DEF TypesInv, SendingOK
  <2>3. m \in HeardBy(t) /\ (t \in Plugins => c \in Phones)
    BY <2>2, RolesAssumption DEF SaidBy, HeardBy, Opposite, Conns
  <2> QED BY <1>3, <2>1, <2>3
<1>4. ASSUME NEW c \in Conns, ReplayNext(c) PROVE outbox' = outbox \/ More(c)
  <2>1. \/ outbox' = outbox
        \/ backlog[c] # <<>> /\ outbox' = [outbox EXCEPT ![c] = Append(@, Head(backlog[c]))]
    BY <1>4 DEF ReplayNext
  <2>2. backlog[c] # <<>> => Head(backlog[c]) \in PluginMessages /\ c \in Phones
    BY <1>0, TailEntries DEF Conns
  <2> QED BY <1>0, <2>1, <2>2
<1>5. ASSUME NEW c \in Conns, RelayOwn(c) PROVE outbox' = outbox \/ \E t \in Conns : More(t)
  <2> HIDE DEF More
  <2>1. CASE \E t \in Conns : Forward(c, t)
    BY <1>3, <2>1
  <2>2. CASE ReplayNext(c)
    BY <1>4, <2>2
  <2>3. CASE \/ Finish(c) \/ ReplacePlugin(c) \/ ReplayFails(c) \/ HeartbeatFails(c)
             \/ ClientVanish(c) \/ CloseFailed(c) \/ \E t \in Conns : ForwardFails(c, t)
    BY <2>3 DEF Finish, ReplacePlugin, ReplayFails, HeartbeatFails, ClientVanish, CloseFailed,
                ForwardFails
  <2> QED BY <1>5, <2>1, <2>2, <2>3 DEF RelayOwn
<1>6. ASSUME ThreadReceives
      PROVE  /\ socket \in Conns /\ outbox[socket] # <<>>
             /\ outbox' = [outbox EXCEPT ![socket] = Tail(@)]
  BY <1>6 DEF ThreadReceives, TypesInv, ThreadOK, Conns
<1>7. ASSUME NEW d \in Devices, PageReceives(d)
      PROVE  /\ page[d] \in Conns /\ page[d] \notin Plugins /\ outbox[page[d]] # <<>>
             /\ outbox' = [outbox EXCEPT ![page[d]] = Tail(@)]
  BY <1>7, RolesAssumption DEF PageReceives, TypesInv, PagesOK, Conns
<1>8. \/ outbox' = outbox
      \/ \E c \in Conns : More(c)
      \/ ThreadReceives
      \/ \E d \in Devices : PageReceives(d)
  <2> HIDE DEF More
  <2> QED BY <1>1, <1>2, <1>5, RelayParts DEF relayVars
<1> QED BY <1>6, <1>7, <1>8

\* What has come for a connection is something it may hear.
LEMMA OutboxKept ==
  ASSUME TypesInv, [Next]_linkVars
  PROVE  OutboxOK'
<1>0. PerConn(outbox) /\ \A c \in Conns : outbox[c] \in Seq(HeardBy(c))
  BY DEF TypesInv, OutboxOK
<1>1. \A c \in Conns : outbox'[c] \in Seq(HeardBy(c))
  <2>1. ASSUME NEW c \in Conns, NEW m \in HeardBy(c), outbox' = [outbox EXCEPT ![c] = Append(@, m)]
        PROVE  \A x \in Conns : outbox'[x] \in Seq(HeardBy(x))
    <3>1. Append(outbox[c], m) \in Seq(HeardBy(c))
      BY <1>0, <2>1, AppendEntries
    <3>2. \A x \in Conns : outbox'[x] = IF x = c THEN Append(outbox[c], m) ELSE outbox[x]
      BY <1>0, <2>1 DEF PerConn
    <3> QED BY <1>0, <3>1, <3>2
  <2>2. ASSUME NEW c \in Conns, outbox[c] # <<>>, outbox' = [outbox EXCEPT ![c] = Tail(@)]
        PROVE  \A x \in Conns : outbox'[x] \in Seq(HeardBy(x))
    <3>1. Tail(outbox[c]) \in Seq(HeardBy(c))
      BY <1>0, <2>2, TailEntries
    <3>2. \A x \in Conns : outbox'[x] = IF x = c THEN Tail(outbox[c]) ELSE outbox[x]
      BY <1>0, <2>2 DEF PerConn
    <3> QED BY <1>0, <3>1, <3>2
  <2> QED BY <1>0, <2>1, <2>2, Hears
<1>2. PerConn(outbox)'
  BY <1>0, Hears DEF PerConn
<1>3. ASSUME NEW c \in Conns PROVE outbox'[c] \in Seq(HeardBy(c)')
  <2>1. HeardBy(c) \subseteq HeardBy(c)'
    BY CodecKept, CountsKept, Numbers, MoreMessages DEF CountsOK
  <2> QED BY <1>1, <2>1, WiderSeq
<1> QED BY <1>2, <1>3 DEF OutboxOK

-----------------------------------------------------------------------------
(* The thread and the pages.                                               *)

\* The thread has a socket whenever it is not down.
LEMMA ThreadKept ==
  ASSUME TypesInv, [Next]_linkVars
  PROVE  ThreadOK'
<1>0. ThreadOK
  BY DEF TypesInv
<1>1. CASE UNCHANGED <<thread, socket>>
  BY <1>0, <1>1 DEF ThreadOK
<1>2. CASE ThreadNext
  BY <1>0, <1>2, RolesAssumption
  DEF ThreadOK, ThreadNext, ThreadConnects, ThreadGreets, ThreadReceives, ThreadHearsNothing,
      ThreadRotates, ThreadSendsState, ThreadSendsNothing, ThreadFails, OfficeRefuses,
      ThreadCloses, Conns
<1>3. ASSUME RelayNext \/ \E c \in Conns : Drops(c) PROVE UNCHANGED <<thread, socket>>
  BY <1>3 DEF RelayNext, Reads, Ends, RelayInside, Drops, clientVars
<1>4. ASSUME NEW d \in Devices, PageNext(d) PROVE UNCHANGED <<thread, socket>>
  BY <1>4 DEF PageNext, PageConnects, PageReceives, PageDerives, PageCommands, PageCloses,
              threadVars
<1>5. CASE UNCHANGED linkVars
  BY <1>1, <1>5 DEF linkVars, clientVars
<1> QED BY <1>1, <1>2, <1>3, <1>4, <1>5 DEF Next

\* What a page takes off the socket, when it is a hello, names a key.
LEMMA PageTakes ==
  ASSUME TypesInv, NEW d \in Devices, PageReceives(d)
  PROVE  /\ page[d] \in Phones
         /\ \/ /\ UNCHANGED phase
               /\ \E k \in Hellos :
                    deriving' = [deriving EXCEPT ![d] = @ \cup {[key |-> k, conn |-> page[d]]}]
            \/ /\ UNCHANGED deriving
               /\ \E p \in {"connecting", "live", "offline"} : phase' = [phase EXCEPT ![d] = p]
<1> DEFINE m == Head(outbox[page[d]])
<1>1. page[d] \in Phones /\ page[d] \in Conns /\ outbox[page[d]] # <<>>
  BY DEF PageReceives, TypesInv, PagesOK, Conns
<1>2. m \in HeardBy(page[d])
  BY <1>1, TailEntries DEF TypesInv, OutboxOK
<1>3. \/ /\ m.type = "hello" /\ UNCHANGED phase
         /\ deriving' = [deriving EXCEPT ![d] = @ \cup {[key |-> m.key, conn |-> page[d]]}]
      \/ /\ m.type = "frame" /\ UNCHANGED deriving
         /\ phase' = [phase EXCEPT ![d] = PhaseAfterFrame(d, m)]
      \/ UNCHANGED deriving /\ phase' = [phase EXCEPT ![d] = "offline"]
  BY DEF PageReceives
<1> HIDE DEF m
<1>4. m.type = "hello" => m.key \in Hellos
  BY <1>1, <1>2, PhoneHears DEF Rejection
<1>5. PhaseAfterFrame(d, m) \in {"connecting", "live", "offline"}
  BY DEF PhaseAfterFrame, TypesInv, PagesOK
<1> QED BY <1>1, <1>3, <1>4, <1>5

\* The pages' keys, phases and connections stay well typed.
LEMMA PagesKept ==
  ASSUME TypesInv, [Next]_linkVars
  PROVE  PagesOK'
<1>0. PagesOK /\ Hellos \subseteq Hellos' /\ Hellos \subseteq Keys /\ 0 \notin Hellos /\ Keys \subseteq 0..MaxHellos
  BY CodecKept, CountsKept, Numbers, MoreMessages, MaxHellosAssumption DEF CountsOK, TypesInv, Keys
<1>1. /\ page \in [Devices -> Phones \cup {NoConn}]
      /\ phase \in [Devices -> {"connecting", "live", "offline"}]
      /\ keyring \in [Devices -> [Keys -> Phones \cup {NoPeer}]]
      /\ using \in [Devices -> 0..MaxHellos]
      /\ \A d \in Devices : using[d] # 0 => keyring[d][using[d]] # NoPeer
      /\ \A d \in Devices, k \in Keys : keyring[d][k] # NoPeer => k \in Hellos'
      /\ deriving \in [Devices -> SUBSET [key : Hellos', conn : Phones]]
  <2>1. deriving \in [Devices -> SUBSET [key : Hellos, conn : Phones]]
    BY <1>0 DEF PagesOK
  <2>2. [key : Hellos, conn : Phones] \subseteq [key : Hellos', conn : Phones]
    BY <1>0
  <2>3. \A d \in Devices, k \in Keys : keyring[d][k] # NoPeer => k \in Hellos'
    BY <1>0 DEF PagesOK
  <2> QED BY <1>0, <2>1, <2>2, <2>3 DEF PagesOK
<1>2. NoKeys \in [Keys -> Phones \cup {NoPeer}] /\ \A k \in Keys : NoKeys[k] = NoPeer
  BY DEF NoKeys
<1>2a. ASSUME NEW d \in Devices, NEW c \in Phones \cup {NoConn},
              page' = [page EXCEPT ![d] = c], keyring' = [keyring EXCEPT ![d] = NoKeys],
              using' = [using EXCEPT ![d] = 0], UNCHANGED deriving,
              phase' \in [Devices -> {"connecting", "live", "offline"}]
       PROVE  PagesOK'
  <2>1. /\ page' \in [Devices -> Phones \cup {NoConn}]
        /\ keyring' \in [Devices -> [Keys -> Phones \cup {NoPeer}]]
        /\ using' \in [Devices -> 0..MaxHellos]
    BY <1>1, <1>2, <1>2a, MaxHellosAssumption
  <2>2. \A e \in Devices : /\ using'[e] = IF e = d THEN 0 ELSE using[e]
                           /\ keyring'[e] = IF e = d THEN NoKeys ELSE keyring[e]
    BY <1>1, <1>2a
  <2>3. \A e \in Devices : using'[e] # 0 => keyring'[e][using'[e]] # NoPeer
    BY <1>1, <2>2
  <2>4. \A e \in Devices, k \in Keys : keyring'[e][k] # NoPeer => k \in Hellos'
    BY <1>1, <1>2, <2>2
  <2> QED BY <1>1, <1>2a, <2>1, <2>3, <2>4 DEF PagesOK
<1>3. ASSUME NEW d \in Devices, NEW c \in Phones, PageConnects(d, c) PROVE PagesOK'
  <2>1. /\ page' = [page EXCEPT ![d] = c] /\ keyring' = [keyring EXCEPT ![d] = NoKeys]
        /\ using' = [using EXCEPT ![d] = 0] /\ UNCHANGED <<phase, deriving>>
    BY <1>3 DEF PageConnects
  <2> QED BY <1>1, <1>2a, <2>1
<1>4. ASSUME NEW d \in Devices, PageReceives(d) PROVE PagesOK'
  <2>1. UNCHANGED <<page, keyring, using>>
    BY <1>4 DEF PageReceives
  <2>2. \/ UNCHANGED phase
        \/ \E p \in {"connecting", "live", "offline"} : phase' = [phase EXCEPT ![d] = p]
    BY <1>4, PageTakes
  <2>3. \/ UNCHANGED deriving
        \/ \E h \in [key : Hellos', conn : Phones] : deriving' = [deriving EXCEPT ![d] = @ \cup {h}]
    BY <1>0, <1>4, PageTakes
  <2>4. phase' \in [Devices -> {"connecting", "live", "offline"}]
    BY <1>1, <2>2
  <2>5. deriving' \in [Devices -> SUBSET [key : Hellos', conn : Phones]]
    BY <1>1, <2>3
  <2> QED BY <1>1, <2>1, <2>4, <2>5 DEF PagesOK
<1>5. ASSUME NEW d \in Devices, PageDerives(d) PROVE PagesOK'
  <2>1. PICK h \in deriving[d] :
          /\ deriving' = [deriving EXCEPT ![d] = @ \ {h}]
          /\ keyring' = [keyring EXCEPT ![d][h.key] = h.conn]
          /\ using' = [using EXCEPT ![d] = h.key]
          /\ UNCHANGED <<page, phase>>
    BY <1>5 DEF PageDerives
  <2>2. h.key \in Hellos /\ h.key \in Keys /\ h.key \in Hellos' /\ h.conn \in Phones /\ h.conn # NoPeer
        /\ h.key \in 0..MaxHellos
    <3>1. h \in [key : Hellos, conn : Phones]
      BY <1>0 DEF PagesOK
    <3> QED BY <1>0, <3>1, NoPeerAssumption, LinkAssumption
  <2>3. /\ keyring' \in [Devices -> [Keys -> Phones \cup {NoPeer}]]
        /\ \A e \in Devices, k \in Keys :
             keyring'[e][k] = IF e = d /\ k = h.key THEN h.conn ELSE keyring[e][k]
    BY <1>1, <2>1, <2>2
  <2>4. \A e \in Devices, k \in Keys : keyring'[e][k] # NoPeer => k \in Hellos'
    BY <1>1, <2>2, <2>3
  <2>5. \A e \in Devices : using'[e] # 0 => keyring'[e][using'[e]] # NoPeer
    <3> SUFFICES ASSUME NEW e \in Devices, using'[e] # 0 PROVE keyring'[e][using'[e]] # NoPeer
      OBVIOUS
    <3>1. using'[e] \in Keys /\ (e # d => using'[e] = using[e]) /\ (e = d => using'[e] = h.key)
      BY <1>1, <2>1, <2>2, MaxHellosAssumption DEF Keys
    <3> QED BY <1>1, <2>2, <2>3, <3>1
  <2>6. /\ using' \in [Devices -> 0..MaxHellos]
        /\ deriving' \in [Devices -> SUBSET [key : Hellos', conn : Phones]]
    BY <1>1, <2>1, <2>2
  <2> QED BY <1>1, <2>1, <2>3, <2>4, <2>5, <2>6 DEF PagesOK
<1>6. ASSUME NEW d \in Devices, PageCloses(d) PROVE PagesOK'
  <2>1. /\ page' = [page EXCEPT ![d] = NoConn] /\ keyring' = [keyring EXCEPT ![d] = NoKeys]
        /\ using' = [using EXCEPT ![d] = 0] /\ UNCHANGED deriving
    BY <1>6 DEF PageCloses
  <2>2. \E p \in {"connecting", "live", "offline"} : phase' = [phase EXCEPT ![d] = p]
    BY <1>6 DEF PageCloses, PhasesAfterClose
  <2>3. phase' \in [Devices -> {"connecting", "live", "offline"}]
    BY <1>1, <2>2
  <2> QED BY <1>2a, <2>1, <2>3
<1>7. CASE UNCHANGED pageVars
  BY <1>1, <1>7 DEF PagesOK, pageVars
<1>8. ASSUME RelayNext \/ \E c \in Conns : Drops(c) PROVE UNCHANGED pageVars
  BY <1>8 DEF RelayNext, Reads, Ends, RelayInside, Drops, clientVars, pageVars
<1>9. ASSUME ThreadNext PROVE UNCHANGED pageVars
  BY <1>9 DEF ThreadNext, ThreadConnects, ThreadGreets, ThreadReceives, ThreadHearsNothing,
      ThreadRotates, ThreadSendsState, ThreadSendsNothing, ThreadFails, OfficeRefuses,
      ThreadCloses
<1>10. ASSUME NEW d \in Devices, PageCommands(d) PROVE UNCHANGED pageVars
  BY <1>10 DEF PageCommands
<1>11. CASE UNCHANGED linkVars
  BY <1>7, <1>11 DEF linkVars, clientVars, pageVars
<1> QED BY <1>3, <1>4, <1>5, <1>6, <1>7, <1>8, <1>9, <1>10, <1>11 DEF Next, PageNext

\* Every step keeps the types, as long as connections are used once.
LEMMA TypesKept ==
  ASSUME TypesInv, UsedOnce, [Next]_linkVars
  PROVE  TypesInv'
  BY RelayKept, CodecKept, RecordedKept, BacklogKept, ToRelayKept, SendingKept, OutboxKept,
     ThreadKept, PagesKept, CountsKept DEF TypesInv

-----------------------------------------------------------------------------
(* Connections are used once.                                              *)

\* A connection that is made is new, and is used from then on.
LEMMA FreshConnection ==
  ASSUME TypesInv, NEW c \in Conns, Connects(c)
  PROVE  pc[c] = "new" /\ pc'[c] # "new"
<1>1. pc \in [Conns -> Places]
  BY Typed DEF TypesInv
<1> QED BY <1>1, RolesAssumption, ConnectsEffect DEF TypesInv, Conns

\* A page stays on its connection, where new keys are that connection's, or
\* leaves it, or goes on a new one with no keys.
LEMMA PageMoves ==
  ASSUME TypesInv, UsedOnce, [Next]_linkVars, NEW d \in Devices
  PROVE  \/ /\ page'[d] = page[d]
            /\ \A k \in Keys : \/ keyring'[d][k] = keyring[d][k]
                               \/ keyring'[d][k] = page[d]
                               \/ page[d] = NoConn
         \/ page'[d] = NoConn
         \/ /\ pc[page'[d]] = "new" /\ page'[d] \in Phones
            /\ \A e \in Devices : e # d => page'[e] = page[e]
            /\ \A k \in Keys : keyring'[d][k] = NoPeer
<1>0. /\ page \in [Devices -> Phones \cup {NoConn}]
      /\ keyring \in [Devices -> [Keys -> Phones \cup {NoPeer}]]
      /\ deriving \in [Devices -> SUBSET [key : Hellos, conn : Phones]]
  BY DEF TypesInv, PagesOK
<1>1. CASE UNCHANGED <<page, keyring>>
  BY <1>1
<1>2. ASSUME NEW e \in Devices, NEW c \in Phones, PageConnects(e, c)
      PROVE  /\ e # d => page'[d] = page[d] /\ keyring'[d] = keyring[d]
             /\ e = d => /\ pc[page'[d]] = "new" /\ page'[d] \in Phones
                         /\ \A x \in Devices : x # d => page'[x] = page[x]
                         /\ \A k \in Keys : keyring'[d][k] = NoPeer
  <2>1. pc[c] = "new"
    BY <1>2, FreshConnection DEF PageConnects, Conns
  <2> QED BY <1>0, <1>2, <2>1 DEF PageConnects, NoKeys
<1>3. ASSUME NEW e \in Devices, PageDerives(e)
      PROVE  /\ page'[d] = page[d]
             /\ \A k \in Keys : \/ keyring'[d][k] = keyring[d][k]
                                \/ keyring'[d][k] = page[d]
                                \/ page[d] = NoConn
  <2>1. PICK h \in deriving[e] :
          keyring' = [keyring EXCEPT ![e][h.key] = h.conn] /\ UNCHANGED page
    BY <1>3 DEF PageDerives
  <2>2. page[e] \in {NoConn, h.conn}
    BY <2>1 DEF UsedOnce
  <2> QED BY <1>0, <2>1, <2>2
<1>4. ASSUME NEW e \in Devices, PageCloses(e)
      PROVE  /\ e # d => page'[d] = page[d] /\ keyring'[d] = keyring[d]
             /\ e = d => page'[d] = NoConn
  BY <1>0, <1>4 DEF PageCloses
<1>5. ASSUME NEW e \in Devices, PageReceives(e) \/ PageCommands(e)
      PROVE  UNCHANGED <<page, keyring>>
  BY <1>5 DEF PageReceives, PageCommands, pageVars
<1>6. ASSUME RelayNext \/ ThreadNext \/ (\E c \in Conns : Drops(c)) \/ UNCHANGED linkVars
      PROVE  UNCHANGED <<page, keyring>>
  BY <1>6 DEF RelayNext, Reads, Ends, RelayInside, Drops, clientVars, linkVars, pageVars,
     ThreadNext, ThreadConnects, ThreadGreets, ThreadReceives, ThreadHearsNothing,
     ThreadRotates, ThreadSendsState, ThreadSendsNothing, ThreadFails, OfficeRefuses,
     ThreadCloses
<1>7. CASE \E e \in Devices : PageNext(e)
  <2>1. PICK e \in Devices : PageNext(e)
    BY <1>7
  <2>2. CASE \E c \in Phones : PageConnects(e, c)
    BY <1>2, <2>2
  <2>3. CASE PageDerives(e)
    BY <1>3, <2>3
  <2>4. CASE PageCloses(e)
    BY <1>4, <2>4
  <2>5. CASE PageReceives(e) \/ PageCommands(e)
    BY <1>1, <1>5, <2>5
  <2> QED BY <2>1, <2>2, <2>3, <2>4, <2>5 DEF PageNext
<1> QED BY <1>1, <1>6, <1>7 DEF Next

\* No step uses a connection again.
LEMMA UsedOnceKept ==
  ASSUME TypesInv, UsedOnce, [Next]_linkVars
  PROVE  UsedOnce'
<1> USE RolesAssumption DEF Conns
<1>0. /\ \A c \in Conns : pc[c] # "new" => pc'[c] # "new"
      /\ socket \in Plugins \cup {NoConn}
      /\ page \in [Devices -> Phones \cup {NoConn}]
      /\ keyring \in [Devices -> [Keys -> Phones \cup {NoPeer}]]
      /\ deriving \in [Devices -> SUBSET [key : Hellos, conn : Phones]]
  BY UsedStays DEF TypesInv, ThreadOK, PagesOK
<1>1. socket' # NoConn => pc'[socket'] # "new"
  <2>1. CASE socket' \in {socket, NoConn}
    BY <1>0, <2>1 DEF UsedOnce
  <2>2. CASE \E c \in Plugins : Connects(c) /\ socket' = c
    BY <2>2, FreshConnection
  <2>3. ASSUME RelayNext \/ \E c \in Conns : Drops(c) PROVE socket' = socket
    BY <2>3 DEF RelayNext, Reads, Ends, RelayInside, Drops, clientVars
  <2>4. ASSUME NEW d \in Devices, PageNext(d) PROVE socket' = socket
    BY <2>4 DEF PageNext, PageConnects, PageReceives, PageDerives, PageCommands, PageCloses,
                threadVars
  <2>5. CASE ThreadNext
    BY <2>1, <2>2, <2>5 DEF ThreadNext, ThreadConnects, ThreadGreets, ThreadReceives,
       ThreadHearsNothing, ThreadRotates, ThreadSendsState, ThreadSendsNothing, ThreadFails,
       OfficeRefuses, ThreadCloses
  <2>6. CASE UNCHANGED linkVars
    BY <2>1, <2>6 DEF linkVars, clientVars
  <2> QED BY <2>1, <2>3, <2>4, <2>5, <2>6 DEF Next
<1> DEFINE Good(d) ==
             /\ page'[d] # NoConn => pc'[page'[d]] # "new"
             /\ \A h \in deriving'[d] : page'[d] \in {NoConn, h.conn} /\ pc'[h.conn] # "new"
             /\ \A k \in Keys : page'[d] # NoConn /\ keyring'[d][k] # NoPeer => keyring'[d][k] = page'[d]
<1>2. ASSUME NEW d \in Devices, page'[d] = page[d], deriving'[d] = deriving[d],
             keyring'[d] = keyring[d]
      PROVE  Good(d)
  <2>1. \A h \in deriving[d] : h.conn \in Phones
    BY <1>0
  <2> QED BY <1>0, <1>2, <2>1 DEF UsedOnce
<1>3. ASSUME NEW d \in Devices, NEW c \in Phones, PageConnects(d, c) PROVE Good(d)
  <2>1. page'[d] = c /\ deriving'[d] = {} /\ \A k \in Keys : keyring'[d][k] = NoPeer
    BY <1>0, <1>3 DEF PageConnects, NoKeys
  <2>2. pc'[c] # "new"
    BY <1>3, FreshConnection DEF PageConnects
  <2> QED BY <2>1, <2>2
<1>4. ASSUME NEW d \in Devices, PageReceives(d) PROVE Good(d)
  <2>1. page'[d] = page[d] /\ keyring'[d] = keyring[d] /\ page[d] \in Phones
    BY <1>4, PageTakes DEF PageReceives
  <2>2. \A h \in deriving'[d] : h \in deriving[d] \/ h.conn = page[d]
    BY <1>0, <1>4, PageTakes
  <2>3. \A h \in deriving[d] : h.conn \in Phones
    BY <1>0
  <2> QED BY <1>0, <2>1, <2>2, <2>3 DEF UsedOnce
<1>5. ASSUME NEW d \in Devices, PageDerives(d) PROVE Good(d)
  <2>1. PICK h \in deriving[d] :
          /\ deriving' = [deriving EXCEPT ![d] = @ \ {h}]
          /\ keyring' = [keyring EXCEPT ![d][h.key] = h.conn]
          /\ UNCHANGED page
    BY <1>5 DEF PageDerives
  <2>2. page[d] \in {NoConn, h.conn} /\ h.conn \in Phones /\ deriving'[d] \subseteq deriving[d]
    BY <1>0, <2>1 DEF UsedOnce
  <2>3. \A k \in Keys : keyring'[d][k] \in {keyring[d][k], h.conn}
    BY <1>0, <2>1
  <2>4. \A g \in deriving[d] : g.conn \in Phones
    BY <1>0
  <2> QED BY <1>0, <2>1, <2>2, <2>3, <2>4 DEF UsedOnce
<1>6. ASSUME NEW d \in Devices, PageCloses(d) PROVE Good(d)
  <2>1. page'[d] = NoConn /\ deriving'[d] = deriving[d]
    BY <1>0, <1>6 DEF PageCloses
  <2>2. \A h \in deriving[d] : h.conn \in Phones
    BY <1>0
  <2> QED BY <1>0, <2>1, <2>2 DEF UsedOnce
<1>7. ASSUME NEW d \in Devices PROVE Good(d)
  <2>1. ASSUME NEW e \in Devices, PageNext(e), e # d
        PROVE  page'[d] = page[d] /\ deriving'[d] = deriving[d] /\ keyring'[d] = keyring[d]
    <3>1. ASSUME PageReceives(e) PROVE deriving'[d] = deriving[d]
      BY <1>0, <2>1, <3>1, PageTakes
    <3>2. CASE PageReceives(e)
      BY <3>1, <3>2 DEF PageReceives
    <3>3. CASE PageDerives(e)
      BY <1>0, <2>1, <3>3 DEF PageDerives
    <3>4. CASE PageCommands(e) \/ PageCloses(e) \/ \E c \in Phones : PageConnects(e, c)
      BY <1>0, <2>1, <3>4 DEF PageCommands, PageCloses, PageConnects, pageVars
    <3> QED BY <2>1, <3>2, <3>3, <3>4 DEF PageNext
  <2>2. ASSUME RelayNext \/ ThreadNext \/ (\E c \in Conns : Drops(c)) \/ UNCHANGED linkVars
        PROVE  UNCHANGED <<page, deriving, keyring>>
    BY <2>2 DEF RelayNext, Reads, Ends, RelayInside, Drops, clientVars, linkVars, pageVars,
       ThreadNext, ThreadConnects, ThreadGreets, ThreadReceives, ThreadHearsNothing,
       ThreadRotates, ThreadSendsState, ThreadSendsNothing, ThreadFails, OfficeRefuses,
       ThreadCloses
  <2>3. ASSUME PageCommands(d) PROVE UNCHANGED <<page, deriving, keyring>>
    BY <2>3 DEF PageCommands, pageVars
  <2> HIDE DEF Good
  <2>4. CASE PageNext(d)
    BY <1>2, <1>3, <1>4, <1>5, <1>6, <2>3, <2>4 DEF PageNext
  <2> QED BY <1>2, <2>1, <2>2, <2>4 DEF Next
<1>8. \A d, e \in Devices : page'[d] = page'[e] /\ page'[d] # NoConn => d = e
  <2> SUFFICES ASSUME NEW d \in Devices, NEW e \in Devices, page'[d] = page'[e],
                      page'[d] # NoConn, d # e
               PROVE  FALSE
    OBVIOUS
  <2>1. /\ page[d] # NoConn => pc[page[d]] # "new"
        /\ page[e] # NoConn => pc[page[e]] # "new"
        /\ page[d] = page[e] /\ page[d] # NoConn => d = e
    BY DEF UsedOnce
  <2>2. \/ page'[d] = page[d]
        \/ /\ pc[page'[d]] = "new" /\ page'[d] \in Phones
           /\ \A x \in Devices : x # d => page'[x] = page[x]
    BY PageMoves
  <2>3. \/ page'[e] = page[e]
        \/ /\ pc[page'[e]] = "new" /\ page'[e] \in Phones
           /\ \A x \in Devices : x # e => page'[x] = page[x]
    BY PageMoves
  <2> QED BY <2>1, <2>2, <2>3
<1> HIDE DEF Good
<1>9. \A d \in Devices : /\ page'[d] # NoConn => pc'[page'[d]] # "new"
                         /\ \A h \in deriving'[d] : page'[d] \in {NoConn, h.conn} /\ pc'[h.conn] # "new"
                         /\ \A k \in Keys : page'[d] # NoConn /\ keyring'[d][k] # NoPeer => keyring'[d][k] = page'[d]
  BY <1>7 DEF Good
<1> QED BY <1>1, <1>8, <1>9 DEF UsedOnce

-----------------------------------------------------------------------------
(* Answers name the keys of who gave them.                                 *)

\* Whoever has answered a hello over a connection keeps its keys while there.
LEMMA AnsweredStays ==
  ASSUME TypesInv, UsedOnce, [Next]_linkVars, NEW k \in Keys, NEW c \in Phones, Answered(k, c)
  PROVE  Answered(k, c)'
<1>1. c \in Conns /\ c # NoConn /\ pc'[c] # "new"
  BY UsedStays, RolesAssumption DEF Answered, Conns
<1>2. ASSUME NEW d \in Devices, page'[d] = c PROVE keyring'[d][k] = c
  <2>1. pc[c] # "new" /\ (page[d] = c => keyring[d][k] = c)
    BY DEF Answered
  <2> QED BY <1>1, <1>2, <2>1, PageMoves
<1> QED BY <1>1, <1>2 DEF Answered

\* A step that takes a hello off the plugin's socket stores keys for it.
LEMMA TableMoves ==
  ASSUME TypesInv, [Next]_linkVars
  PROVE  \/ /\ Table' \subseteq Table /\ \A k \in Table' : peer'[k] = peer[k]
         \/ \E k \in Hellos, f \in Phones :
              /\ ThreadReceives /\ Head(outbox[socket]) = Hello(k, f)
              /\ socket \in Plugins /\ outbox[socket] # <<>>
              /\ ApplyPhoneHello(k, f)
<1>1. ASSUME ThreadReceives
      PROVE  \/ UNCHANGED peer
             \/ \E k \in Hellos, f \in Phones :
                  /\ Head(outbox[socket]) = Hello(k, f)
                  /\ socket \in Plugins /\ outbox[socket] # <<>>
                  /\ ApplyPhoneHello(k, f)
  <2> DEFINE m == Head(outbox[socket])
  <2>1. socket \in Plugins /\ outbox[socket] # <<>>
    BY <1>1 DEF ThreadReceives, TypesInv, ThreadOK
  <2>2. m \in HeardBy(socket)
    BY <2>1, TailEntries DEF TypesInv, OutboxOK, Conns
  <2>3. \/ m.type = "hello" /\ ApplyPhoneHello(m.key, m.body)
        \/ UNCHANGED peer
    BY <1>1 DEF ThreadReceives, HandleHello, HandleCommand, DecodeFrame, codecVars
  <2>4. m.type = "hello" => \E k \in Hellos, f \in Phones : m = Hello(k, f)
    BY <2>1, <2>2, PluginHears DEF Rejection, Frame
  <2>5. \A k, f : Hello(k, f).key = k /\ Hello(k, f).body = f
    BY DEF Hello
  <2> QED BY <2>1, <2>3, <2>4, <2>5
<1>2. ASSUME ThreadNext, ~ThreadReceives PROVE UNCHANGED peer
  BY <1>2 DEF ThreadNext, ThreadConnects, ThreadGreets, ThreadHearsNothing, ThreadRotates,
     ThreadSendsState, ThreadSendsNothing, ThreadFails, OfficeRefuses, ThreadCloses,
     RotateSendKey, EncodeFrame, codecVars
<1>3. ASSUME NEW d \in Devices, PageNext(d) PROVE UNCHANGED peer
  BY <1>3 DEF PageNext, PageConnects, PageReceives, PageDerives, PageCommands, PageCloses, codecVars
<1>4. ASSUME RelayNext \/ (\E c \in Conns : Drops(c)) \/ UNCHANGED linkVars PROVE UNCHANGED peer
  BY <1>4 DEF RelayNext, Reads, Ends, RelayInside, Drops, linkVars, codecVars
<1> QED BY <1>1, <1>2, <1>3, <1>4 DEF Next, Table

\* Every answer, wherever it is, stays one that names its sender's keys.
LEMMA AnswersKept ==
  ASSUME TypesInv, UsedOnce, AnswersOK, [Next]_linkVars
  PROVE  AnswersOK'
<1> USE DEF Conns
<1>0. /\ PerConn(toRelay) /\ PerConn(outbox) /\ Hellos \subseteq Keys
      /\ \A c \in Phones : toRelay[c] \in Seq(SaidBy(c)) /\ c \notin Plugins
      /\ \A p \in Plugins : outbox[p] \in Seq(HeardBy(p))
  BY Numbers, RolesAssumption DEF TypesInv, ToRelayOK, OutboxOK
<1>1. \A k \in Keys, c \in Phones : Answered(k, c) => Answered(k, c)'
  BY AnsweredStays
<1>2. ASSUME NEW c \in Phones, NEW m \in SaidBy(c), IsAnswer(m) PROVE IsAnswer(m)'
  <2>1. m.key \in Keys /\ (m.type = "hello" => m.body = c)
    <3>1. m \in PhoneMessages(c) /\ m.key \in Hellos
      BY SaidFits
    <3> QED BY <1>0, <3>1 DEF PhoneMessages
  <2> QED BY <1>1, <1>2, <2>1 DEF IsAnswer
<1>3. ASSUME NEW p \in Plugins, NEW m \in HeardBy(p), IsAnswer(m) PROVE IsAnswer(m)'
  <2>1. m.type = "hello" => m.key \in Keys /\ m.body \in Phones
    BY <1>0, PluginHears DEF Rejection, Hello, Frame
  <2> QED BY <1>1, <1>3, <2>1 DEF IsAnswer
<1>4. ASSUME NEW c \in Phones, NEW n \in DOMAIN toRelay'[c], NEW m, m = toRelay'[c][n]
      PROVE  IsAnswer(m)'
  <2>1. ASSUME NEW i \in DOMAIN toRelay[c], m = toRelay[c][i] PROVE IsAnswer(m)'
    <3>1. m \in SaidBy(c) /\ IsAnswer(m)
      BY <1>0, <2>1 DEF AnswersOK
    <3> QED BY <1>2, <3>1
  <2>2. ASSUME NEW d \in Devices, PageSays(d, c, m) PROVE IsAnswer(m)'
    <3>1. CASE m.type = "hello"
      <4>1. PICK k \in Hellos : m = Hello(k, c) /\ keyring'[d][k] = c /\ PageDerives(d) /\ page[d] = c
        BY <2>2, <3>1 DEF PageSays, Frame
      <4>2. page' = page /\ pc'[c] # "new"
        BY <4>1, UsedStays, RolesAssumption DEF PageDerives, UsedOnce
      <4>3. \A e \in Devices : page[e] = c => e = d
        BY <4>1, RolesAssumption DEF UsedOnce
      <4>4. Answered(k, c)'
        BY <4>1, <4>2, <4>3 DEF Answered
      <4> QED BY <4>1, <4>4 DEF IsAnswer, Hello
    <3> QED BY <3>1 DEF IsAnswer
  <2>3. CASE toRelay' = toRelay
    BY <1>4, <2>1, <2>3
  <2>4. ASSUME NEW e \in Conns, toRelay[e] # <<>>, toRelay' = [toRelay EXCEPT ![e] = Tail(@)]
        PROVE  IsAnswer(m)'
    <3>1. toRelay'[c] = IF c = e THEN Tail(toRelay[c]) ELSE toRelay[c]
      BY <1>0, <2>4 DEF PerConn
    <3>2. CASE c = e
      <4>1. toRelay[c] \in Seq(SaidBy(c)) /\ toRelay[c] # <<>> /\ n \in DOMAIN Tail(toRelay[c]) /\ m = Tail(toRelay[c])[n]
        BY <1>0, <1>4, <2>4, <3>1, <3>2
      <4>2. n \in 1..(Len(toRelay[c]) - 1) /\ DOMAIN toRelay[c] = 1..Len(toRelay[c]) /\ Len(toRelay[c]) \in Nat
        BY <4>1, TailEntries
      <4>3. n + 1 \in DOMAIN toRelay[c] /\ m = toRelay[c][n + 1]
        BY <4>1, <4>2, TailEntries
      <4> QED BY <2>1, <4>3
    <3> QED BY <1>4, <2>1, <3>1, <3>2
  <2>5. ASSUME NEW e \in Conns, NEW x, toRelay' = [toRelay EXCEPT ![e] = Append(@, x)],
               e = socket \/ \E d \in Devices : PageSays(d, e, x)
        PROVE  IsAnswer(m)'
    <3>1. toRelay'[c] = IF c = e THEN Append(toRelay[c], x) ELSE toRelay[c]
      BY <1>0, <2>5 DEF PerConn
    <3>2. CASE c = e
      <4>1. c # socket
        BY RolesAssumption DEF TypesInv, ThreadOK
      <4>2. (n \in DOMAIN toRelay[c] /\ m = toRelay[c][n]) \/ m = x
        BY <1>0, <1>4, <3>1, <3>2
      <4> QED BY <2>1, <2>2, <2>5, <3>2, <4>1, <4>2
    <3> QED BY <1>4, <2>1, <3>1, <3>2
  <2>6. ASSUME NEW e \in Conns, Reads(e)
        PROVE  toRelay[e] # <<>> /\ toRelay' = [toRelay EXCEPT ![e] = Tail(@)]
    BY <2>6 DEF Reads
  <2> QED BY <2>3, <2>4, <2>5, <2>6, Says
<1>5. ASSUME NEW c \in Phones, NEW m, m = sending'[c].msg, sending'[c].to # {} PROVE IsAnswer(m)'
  <2>0. sending \in [Conns -> Deliveries]
    BY DEF TypesInv, RelayInv, HandlersOK
  <2>1. ASSUME sending[c].to # {}, m = sending[c].msg PROVE IsAnswer(m)'
    <3>1. m \in SaidBy(c) /\ IsAnswer(m)
      BY <2>1 DEF AnswersOK, TypesInv, SendingOK
    <3> QED BY <1>2, <3>1
  <2>2. ASSUME toRelay[c] # <<>>, m = Head(toRelay[c]) PROVE IsAnswer(m)'
    <3>1. m \in SaidBy(c) /\ 1 \in DOMAIN toRelay[c] /\ m = toRelay[c][1]
      BY <1>0, <2>2, TailEntries
    <3>2. IsAnswer(m)
      BY <3>1 DEF AnswersOK
    <3> QED BY <1>2, <3>1, <3>2
  <2>3. \/ sending[c].to # {} /\ m = sending[c].msg
        \/ toRelay[c] # <<>> /\ m = Head(toRelay[c])
    <3>1. CASE sending' = sending
      BY <1>5, <3>1
    <3>2. ASSUME NEW e \in Conns, toRelay[e] # <<>>,
                 sending' = [sending EXCEPT ![e] =
                   [msg |-> Head(toRelay[e]), to |-> Targets(session[at[e]], e), failed |-> {}]]
          PROVE  \/ sending[c].to # {} /\ m = sending[c].msg
                 \/ toRelay[c] # <<>> /\ m = Head(toRelay[c])
      BY <1>5, <2>0, <3>2
    <3>3. ASSUME NEW e \in Conns, NEW r \in Deliveries, sending' = [sending EXCEPT ![e] = r],
                 r.to \subseteq sending[e].to, r.to # {} => r.msg = sending[e].msg
          PROVE  \/ sending[c].to # {} /\ m = sending[c].msg
                 \/ toRelay[c] # <<>> /\ m = Head(toRelay[c])
      BY <1>5, <2>0, <3>3
    <3> QED BY <3>1, <3>2, <3>3, SendingMoves
  <2> QED BY <2>1, <2>2, <2>3
<1>6. ASSUME NEW p \in Plugins, NEW n \in DOMAIN outbox'[p], NEW m, m = outbox'[p][n]
      PROVE  IsAnswer(m)'
  <2>1. ASSUME NEW i \in DOMAIN outbox[p], m = outbox[p][i] PROVE IsAnswer(m)'
    <3>1. m \in HeardBy(p) /\ IsAnswer(m)
      BY <1>0, <2>1 DEF AnswersOK
    <3> QED BY <1>3, <3>1
  <2>2. CASE outbox' = outbox
    BY <1>6, <2>1, <2>2
  <2>3. ASSUME NEW e \in Conns, outbox[e] # <<>>, outbox' = [outbox EXCEPT ![e] = Tail(@)]
        PROVE  IsAnswer(m)'
    <3>1. outbox'[p] = IF p = e THEN Tail(outbox[p]) ELSE outbox[p]
      BY <1>0, <2>3 DEF PerConn
    <3>2. CASE p = e
      <4>1. outbox[p] \in Seq(HeardBy(p)) /\ outbox[p] # <<>> /\ n \in DOMAIN Tail(outbox[p]) /\ m = Tail(outbox[p])[n]
        BY <1>0, <1>6, <2>3, <3>1, <3>2
      <4>2. n \in 1..(Len(outbox[p]) - 1) /\ DOMAIN outbox[p] = 1..Len(outbox[p]) /\ Len(outbox[p]) \in Nat
        BY <4>1, TailEntries
      <4>3. n + 1 \in DOMAIN outbox[p] /\ m = outbox[p][n + 1]
        BY <4>1, <4>2, TailEntries
      <4> QED BY <2>1, <4>3
    <3> QED BY <1>6, <2>1, <3>1, <3>2
  <2>4. ASSUME NEW e \in Conns, NEW x, outbox' = [outbox EXCEPT ![e] = Append(@, x)],
               e \in Plugins => \/ x = Rejection
                                \/ \E c \in Phones : Forward(c, e) /\ x = sending[c].msg
        PROVE  IsAnswer(m)'
    <3>1. outbox'[p] = IF p = e THEN Append(outbox[p], x) ELSE outbox[p]
      BY <1>0, <2>4 DEF PerConn
    <3>2. CASE p = e
      <4>1. (n \in DOMAIN outbox[p] /\ m = outbox[p][n]) \/ m = x
        BY <1>0, <1>6, <3>1, <3>2
      <4>2. ASSUME NEW c \in Phones, Forward(c, e), m = sending[c].msg PROVE IsAnswer(m)'
        <5>1. sending[c].to # {}
          BY <4>2 DEF Forward
        <5>2. m \in SaidBy(c) /\ IsAnswer(m)
          BY <4>2, <5>1 DEF AnswersOK, TypesInv, SendingOK
        <5> QED BY <1>2, <5>2
      <4>3. m = Rejection => IsAnswer(m)'
        BY DEF IsAnswer, Rejection
      <4> QED BY <2>1, <2>4, <3>2, <4>1, <4>2, <4>3
    <3> QED BY <1>6, <2>1, <3>1, <3>2
  <2> QED BY <2>2, <2>3, <2>4, Hears
<1>7. ASSUME NEW k \in Table' PROVE Answered(k, peer[k])'
  <2>0. /\ k \in Keys /\ \A x \in Table : peer[x] \in Phones /\ x \in Keys
    BY LinkAssumption DEF Table, TypesInv, CodecOK, CodecInv, CodecTypeOK
  <2>1. ASSUME NEW c \in Phones, Answered(k, c), peer'[k] = c PROVE Answered(k, peer[k])'
    <3>1. Answered(k, c)'
      BY <1>1, <2>0, <2>1
    <3> QED BY <2>1, <3>1 DEF Answered
  <2>2. CASE k \in Table /\ peer'[k] = peer[k]
    BY <2>0, <2>1, <2>2 DEF AnswersOK
  <2>3. ASSUME NEW i \in Hellos, NEW f \in Phones, Head(outbox[socket]) = Hello(i, f),
               socket \in Plugins, outbox[socket] # <<>>, ApplyPhoneHello(i, f)
        PROVE  Answered(k, peer[k])'
    <3>1. Table' \subseteq Table \cup {i} /\ peer'[i] = f /\ \A x \in Table' : x # i => peer'[x] = peer[x]
      BY <1>0, <2>3, AnswerStep, LinkAssumption DEF TypesInv, CodecOK
    <3>2. CASE k = i
      <4>1. 1 \in DOMAIN outbox[socket] /\ outbox[socket][1] = Hello(i, f)
        BY <1>0, <2>3, TailEntries
      <4>2. IsAnswer(Hello(i, f))
        BY <2>3, <4>1 DEF AnswersOK
      <4>3. Answered(i, f)
        BY <4>2 DEF IsAnswer, Hello
      <4> QED BY <2>1, <3>1, <3>2, <4>3
    <3> QED BY <2>2, <3>1, <3>2
  <2> QED BY <2>2, <2>3, TableMoves
<1>8. /\ \A c \in Phones : \A n \in DOMAIN toRelay'[c] : IsAnswer(toRelay[c][n])'
      /\ \A c \in Phones : sending'[c].to # {} => IsAnswer(sending[c].msg)'
      /\ \A p \in Plugins : \A n \in DOMAIN outbox'[p] : IsAnswer(outbox[p][n])'
  BY <1>4, <1>5, <1>6 DEF IsAnswer, Answered
<1> QED BY <1>7, <1>8 DEF AnswersOK

-----------------------------------------------------------------------------
(* Types and the agreement on keys.                                        *)

AgreeInv == TypesInv /\ UsedOnce /\ AnswersOK

\* At first nobody has connected and nothing has been said.
LEMMA AgreeInit == Init => AgreeInv
<1> SUFFICES ASSUME Init PROVE AgreeInv
  OBVIOUS
<1> USE DEF Conns
<1>1. RelayInit /\ CodecInit
  BY DEF Init
<1>1a. \A S : <<>> \in Seq(S)
  OBVIOUS
<1>2. RelayInv
  BY <1>1, RelayInitInv
<1>3. CodecOK
  BY <1>1, CodecInitInv DEF CodecOK, KeptUntilFull, CodecInit
<1>4. RecordedOK
  <2>1. \A o \in Objects : session[o].hello = NoHello /\ session[o].cached = <<>>
    BY <1>1 DEF RelayInit, NewSession
  <2>2. <<>> \in Seq(PluginMessages)
    OBVIOUS
  <2> QED BY <2>1, <2>2 DEF RecordedOK
<1>5. BacklogOK
  <2>1. \A c \in Conns : backlog[c] = <<>>
    BY <1>1 DEF RelayInit, PerConn
  <2>2. PerConn(backlog)
    BY <1>1 DEF RelayInit, PerConn
  <2> QED BY <1>1a, <2>1, <2>2 DEF BacklogOK
<1>6. ToRelayOK
  <2>1. \A c \in Conns : toRelay[c] = <<>>
    BY DEF Init
  <2>2. PerConn(toRelay)
    BY DEF Init, PerConn
  <2> QED BY <1>1a, <2>1, <2>2 DEF ToRelayOK
<1>7. OutboxOK
  <2>1. \A c \in Conns : outbox[c] = <<>>
    BY <1>1 DEF RelayInit
  <2>2. PerConn(outbox)
    BY <1>1 DEF RelayInit, PerConn
  <2> QED BY <1>1a, <2>1, <2>2 DEF OutboxOK
<1>8. \A c \in Conns : sending[c].to = {} /\ sending[c].failed = {}
  BY <1>1 DEF RelayInit, NothingToSend
<1>9. SendingOK
  BY <1>8 DEF SendingOK
<1>10. ThreadOK
  BY RolesAssumption DEF Init, ThreadOK
<1>11. PagesOK
  BY MaxHellosAssumption DEF Init, PagesOK, NoKeys, Hellos
<1>12. CountsOK
  <2>1. Cardinality(lost) = 0 /\ lost = {}
    BY <1>1, FS_EmptySet DEF RelayInit
  <2> QED BY <2>1, LinkAssumption DEF Init, CountsOK, Faults
<1>13. UsedOnce
  BY DEF Init, UsedOnce
<1>14. AnswersOK
  <2>1. \A c \in Conns : toRelay[c] = <<>> /\ outbox[c] = <<>>
    BY <1>1 DEF Init, RelayInit
  <2>2. Table = {}
    BY <1>1 DEF CodecInit, Table
  <2>3. DOMAIN <<>> = {}
    OBVIOUS
  <2> QED BY <1>8, <2>1, <2>2, <2>3 DEF AnswersOK
<1> QED BY <1>2, <1>3, <1>4, <1>5, <1>6, <1>7, <1>9, <1>10, <1>11, <1>12, <1>13, <1>14
        DEF AgreeInv, TypesInv

\* AgreeInv is an invariant.
THEOREM AgreeInductive == Spec => []AgreeInv
<1>1. AgreeInv /\ [Next]_linkVars => AgreeInv'
  BY TypesKept, UsedOnceKept, AnswersKept DEF AgreeInv
<1> QED BY <1>1, AgreeInit, PTL DEF Spec

(***************************************************************************)
(* Type correctness of the whole link: both ends, the relay between them   *)
(* and what is on its way.                                                 *)
(***************************************************************************)
THEOREM LinkTypeCorrect == Spec => []LinkTypeOK
<1>1. AgreeInv => LinkTypeOK
  BY DEF AgreeInv, TypesInv, CodecOK, CodecInv, ThreadOK, PagesOK, CountsOK, LinkTypeOK
<1> QED BY <1>1, AgreeInductive, PTL

(***************************************************************************)
(* However often the relay, the plugin and the pages reconnect and whatever*)
(* is lost, late or answered twice, the plugin never holds other keys for  *)
(* a key id than the page whose answer it accepted, while that page is     *)
(* still on the connection of its answer (protocol.py 389-422,             *)
(* app.js 1136-1141, 1447-1461).                                           *)
(***************************************************************************)
THEOREM KeysAgree == Spec => []KeyAgreement
<1>1. AgreeInv => KeyAgreement
  BY DEF AgreeInv, AnswersOK, Table, Answered, KeyAgreement
<1> QED BY <1>1, AgreeInductive, PTL

-----------------------------------------------------------------------------
(* One phone's way to the plugin, a step at a time.                        *)

\* What a phone has on its way to the relay: the same, all but the first
\* message, or one more that its page says.
LEMMA WayMoves ==
  ASSUME TypesInv, UsedOnce, [Next]_linkVars, NEW c \in Phones
  PROVE  /\ toRelay[c] \in Seq(PhoneMessages(c))
         /\ \/ toRelay'[c] = toRelay[c]
            \/ Reads(c) /\ toRelay[c] # <<>> /\ toRelay'[c] = Tail(toRelay[c])
            \/ \E d \in Devices : \E m \in SaidBy(c)' :
                 PageSays(d, c, m) /\ toRelay'[c] = Append(toRelay[c], m)
<1>0. /\ PerConn(toRelay) /\ toRelay[c] \in Seq(PhoneMessages(c)) /\ c \in Conns /\ c # socket
  BY RolesAssumption DEF TypesInv, ToRelayOK, SaidBy, ThreadOK, Conns
<1>1. ASSUME NEW e \in Conns, Reads(e)
      PROVE  \/ toRelay'[c] = toRelay[c]
             \/ Reads(c) /\ toRelay[c] # <<>> /\ toRelay'[c] = Tail(toRelay[c])
  <2>1. toRelay[e] # <<>> /\ toRelay' = [toRelay EXCEPT ![e] = Tail(@)]
    BY <1>1 DEF Reads
  <2>2. toRelay'[c] = IF c = e THEN Tail(toRelay[c]) ELSE toRelay[c]
    BY <1>0, <2>1 DEF PerConn
  <2> QED BY <1>1, <2>1, <2>2
<1>2. ASSUME NEW e \in Conns, NEW m \in SaidBy(e)', toRelay' = [toRelay EXCEPT ![e] = Append(@, m)],
             e = socket \/ \E d \in Devices : PageSays(d, e, m)
      PROVE  \/ toRelay'[c] = toRelay[c]
             \/ \E d \in Devices : \E x \in SaidBy(c)' :
                  PageSays(d, c, x) /\ toRelay'[c] = Append(toRelay[c], x)
  <2>1. toRelay'[c] = IF c = e THEN Append(toRelay[c], m) ELSE toRelay[c]
    BY <1>0, <1>2 DEF PerConn
  <2> QED BY <1>0, <1>2, <2>1
<1> QED BY <1>0, <1>1, <1>2, Says

\* What the relay has of a phone to send on: the same, the message it has just
\* read, or less of the message it had.
LEMMA TurnMoves ==
  ASSUME TypesInv, [Next]_linkVars, NEW c \in Conns
  PROVE  \/ sending'[c] = sending[c]
         \/ /\ Reads(c) /\ toRelay[c] # <<>> /\ Receive(c, Head(toRelay[c]))
            /\ sending'[c].msg = Head(toRelay[c]) /\ sending'[c].failed = {}
            /\ sending'[c].to = Targets(session[at[c]], c)
         \/ /\ sending'[c].to \subseteq sending[c].to
            /\ sending'[c].to # {} => sending'[c].msg = sending[c].msg
            /\ \/ \E t \in Conns : /\ Forward(c, t) /\ t \in sending[c].to \ sending'[c].to
                                   /\ sending'[c].failed \subseteq sending[c].failed
               \/ \E t \in Conns : /\ ForwardFails(c, t) /\ t \in sending[c].to \ sending'[c].to
                                   /\ sending'[c].failed = sending[c].failed \cup {t}
               \/ CloseFailed(c) /\ sending'[c].to = {} /\ sending'[c].failed = {}
<1>0. sending \in [Conns -> Deliveries]
  BY DEF TypesInv, RelayInv, HandlersOK
<1>1. ASSUME NEW e \in Conns, Reads(e), Receive(e, Head(toRelay[e])), toRelay[e] # <<>>,
             sending' = [sending EXCEPT ![e] =
               [msg |-> Head(toRelay[e]), to |-> Targets(session[at[e]], e), failed |-> {}]]
      PROVE  \/ sending'[c] = sending[c]
             \/ /\ Reads(c) /\ toRelay[c] # <<>> /\ Receive(c, Head(toRelay[c]))
                /\ sending'[c].msg = Head(toRelay[c]) /\ sending'[c].failed = {}
                /\ sending'[c].to = Targets(session[at[c]], c)
  <2>1. CASE c = e
    <3>1. sending'[c] = [msg |-> Head(toRelay[c]), to |-> Targets(session[at[c]], c), failed |-> {}]
      BY <1>0, <1>1, <2>1
    <3> QED BY <1>1, <2>1, <3>1
  <2>2. CASE c # e
    BY <1>0, <1>1, <2>2
  <2> QED BY <2>1, <2>2
<1>2. ASSUME NEW e \in Conns, NEW r \in Deliveries, sending' = [sending EXCEPT ![e] = r],
             r.to \subseteq sending[e].to, r.to # {} => r.msg = sending[e].msg,
             \/ \E t \in Conns : Forward(e, t) /\ t \notin r.to /\ r.failed \subseteq sending[e].failed
             \/ \E t \in Conns : /\ ForwardFails(e, t) /\ t \notin r.to
                                 /\ r.failed = sending[e].failed \cup {t}
             \/ CloseFailed(e) /\ r.to = {} /\ r.failed = {}
      PROVE  \/ sending'[c] = sending[c]
             \/ /\ sending'[c].to \subseteq sending[c].to
                /\ sending'[c].to # {} => sending'[c].msg = sending[c].msg
                /\ \/ \E t \in Conns : /\ Forward(c, t) /\ t \in sending[c].to \ sending'[c].to
                                       /\ sending'[c].failed \subseteq sending[c].failed
                   \/ \E t \in Conns : /\ ForwardFails(c, t) /\ t \in sending[c].to \ sending'[c].to
                                       /\ sending'[c].failed = sending[c].failed \cup {t}
                   \/ CloseFailed(c) /\ sending'[c].to = {} /\ sending'[c].failed = {}
  <2>1. CASE c = e
    <3>1. sending'[c] = r
      BY <1>0, <1>2, <2>1
    <3>2. \A t \in Conns : Forward(c, t) \/ ForwardFails(c, t) => t \in sending[c].to
      BY DEF Forward, ForwardFails
    <3> QED BY <1>2, <2>1, <3>1, <3>2
  <2>2. CASE c # e
    BY <1>0, <1>2, <2>2
  <2> QED BY <2>1, <2>2
<1> QED BY <1>1, <1>2, SendingMoves

\* What has come for a plugin: the same, all but the first message, which the
\* thread has taken, or one more.
LEMMA ArrivalMoves ==
  ASSUME TypesInv, [Next]_linkVars, NEW p \in Plugins
  PROVE  /\ outbox[p] \in Seq(HeardBy(p))
         /\ \/ outbox'[p] = outbox[p]
            \/ /\ p = socket /\ ThreadReceives /\ outbox[p] # <<>>
               /\ outbox'[p] = Tail(outbox[p])
            \/ \E m \in HeardBy(p) :
                 /\ outbox'[p] = Append(outbox[p], m)
                 /\ \/ m = Rejection /\ pc[p] # "new"
                    \/ \E e \in Phones : Forward(e, p) /\ m = sending[e].msg
<1>0. PerConn(outbox) /\ outbox[p] \in Seq(HeardBy(p)) /\ p \in Conns
  BY DEF TypesInv, OutboxOK, Conns
<1>1. ASSUME NEW e \in Conns, NEW m \in HeardBy(e), outbox' = [outbox EXCEPT ![e] = Append(@, m)],
             e \in Plugins => \/ m = Rejection /\ pc[e] # "new"
                              \/ \E x \in Phones : Forward(x, e) /\ m = sending[x].msg
      PROVE  \/ outbox'[p] = outbox[p]
             \/ \E y \in HeardBy(p) :
                  /\ outbox'[p] = Append(outbox[p], y)
                  /\ \/ y = Rejection /\ pc[p] # "new"
                     \/ \E x \in Phones : Forward(x, p) /\ y = sending[x].msg
  <2>1. outbox'[p] = IF p = e THEN Append(outbox[p], m) ELSE outbox[p]
    BY <1>0, <1>1 DEF PerConn
  <2> QED BY <1>1, <2>1
<1>2. ASSUME NEW e \in Conns, outbox[e] # <<>>, outbox' = [outbox EXCEPT ![e] = Tail(@)],
             e \in Plugins => e = socket /\ ThreadReceives
      PROVE  \/ outbox'[p] = outbox[p]
             \/ /\ p = socket /\ ThreadReceives /\ outbox[p] # <<>>
                /\ outbox'[p] = Tail(outbox[p])
  <2>1. outbox'[p] = IF p = e THEN Tail(outbox[p]) ELSE outbox[p]
    BY <1>0, <1>2 DEF PerConn
  <2> QED BY <1>2, <2>1
<1> QED BY <1>0, <1>1, <1>2, Hears

-----------------------------------------------------------------------------
(* Slots.                                                                  *)

\* A session's plugin is the one it had, or one whose handler has begun.
LEMMA SlotMoves ==
  ASSUME TypesInv, [Next]_linkVars, NEW x \in Objects, session'[x].plugin # NoConn
  PROVE  session'[x].plugin = session[x].plugin \/ pc'[session'[x].plugin] # "new"
<1>0. session \in [Objects -> Sessions] /\ pc \in [Conns -> Places]
  BY Typed DEF TypesInv, RelayInv, SessionsOK
<1>1. ASSUME NEW c \in Conns, Connects(c)
      PROVE  session'[x].plugin = session[x].plugin \/ pc'[session'[x].plugin] # "new"
  <2>1. \/ Same(x)
        \/ Taken(x, c) /\ pc' = [pc EXCEPT ![c] = "open"]
    BY <1>1, ConnectsEffect, RolesAssumption DEF TypesInv, Conns
  <2> QED BY <1>0, <2>1 DEF Same, Taken
<1>2. ASSUME NEW c \in Conns, Reads(c) PROVE session'[x].plugin = session[x].plugin
  <2>1. \/ session' = session
        \/ session' = [session EXCEPT ![at[c]] = Metadata(session[at[c]], c, Head(toRelay[c]))]
    BY <1>2 DEF Reads, RejectInvalid, Reject, Receive
  <2>2. \A s \in Sessions : Metadata(s, c, Head(toRelay[c])).plugin = s.plugin
    BY DEF Metadata, Sessions
  <2> QED BY <1>0, <2>1, <2>2
<1>3. ASSUME NEW c \in Conns, RelayOwn(c), ~UNCHANGED session
      PROVE  session'[x].plugin = session[x].plugin \/ pc'[session'[x].plugin] # "new"
  <2>1. \/ session' = [session EXCEPT ![at[c]] = Leave(c, @)]
        \/ /\ session' = [session EXCEPT ![at[c]] = ClearCached([@ EXCEPT !.plugin = c])]
           /\ pc' = [pc EXCEPT ![c] = "open"]
    BY <1>3 DEF RelayOwn, Finish, ReplacePlugin, ReplayNext, ReplayFails, CloseFailed,
                HeartbeatFails, ClientVanish, Forward, ForwardFails
  <2>2. \A s \in Sessions : /\ ClearCached([s EXCEPT !.plugin = c]).plugin = c
                            /\ Leave(c, s).plugin \in {s.plugin, NoConn}
    BY DEF ClearCached, Leave, Sessions
  <2>3. session[x] \in Sessions
    BY <1>0
  <2>4. x # at[c] => session'[x] = session[x]
    BY <1>0, <2>1
  <2>5. CASE session' = [session EXCEPT ![at[c]] = Leave(c, @)]
    BY <1>0, <2>2, <2>3, <2>4, <2>5
  <2>6. CASE /\ session' = [session EXCEPT ![at[c]] = ClearCached([@ EXCEPT !.plugin = c])]
             /\ pc' = [pc EXCEPT ![c] = "open"]
    <3>1. x = at[c] => session'[x].plugin = c
      BY <1>0, <2>2, <2>3, <2>6
    <3>2. pc'[c] # "new"
      BY <1>0, <2>6
    <3> QED BY <2>4, <3>1, <3>2
  <2> QED BY <2>1, <2>5, <2>6
<1> QED BY <1>1, <1>2, <1>3, RelayParts, TakingIsQuiet DEF relayVars

\* Only connections that are used hold slots, are sent to or are written to,
\* and a phone's message has one plugin to go to.
LEMMA SlotsKept ==
  ASSUME TypesInv, SlotsOK, [Next]_linkVars
  PROVE  SlotsOK'
<1>0. /\ \A c \in Conns : pc[c] # "new" => pc'[c] # "new"
      /\ \A o \in Objects : session[o] \in Sessions
  BY UsedStays DEF TypesInv, RelayInv, SessionsOK
<1>1. ASSUME NEW o \in Objects, session'[o].plugin # NoConn PROVE pc'[session'[o].plugin] # "new"
  <2>1. session[o].plugin \in Plugins \cup {NoConn}
    BY <1>0 DEF Sessions
  <2> QED BY <1>0, <1>1, <2>1, SlotMoves DEF SlotsOK, Conns
<1>2. ASSUME NEW c \in Phones
      PROVE  /\ \A t \in sending'[c].to : pc'[t] # "new"
             /\ \A t, u \in sending'[c].to : t = u
             /\ sending'[c].to \cap sending'[c].failed = {}
  <2>1. /\ \A t \in sending[c].to : pc[t] # "new" /\ t \in Conns
        /\ \A t, u \in sending[c].to : t = u
        /\ sending[c].to \cap sending[c].failed = {}
    BY RolesAssumption DEF SlotsOK, TypesInv, RelayInv, HandlersOK, Deliveries, Conns
  <2>2. ASSUME NEW m, Receive(c, m),
               sending'[c].to = Targets(session[at[c]], c), sending'[c].failed = {}
        PROVE  /\ \A t \in sending'[c].to : pc'[t] # "new"
               /\ \A t, u \in sending'[c].to : t = u
               /\ sending'[c].to \cap sending'[c].failed = {}
    <3>1. at[c] \in Objects
      BY <2>2, AtWork DEF Receive, Awaiting, TypesInv, Conns
    <3>2. Targets(session[at[c]], c) \subseteq {session[at[c]].plugin} \ {NoConn}
      BY RolesAssumption DEF Targets
    <3>3. session[at[c]].plugin # NoConn => pc[session[at[c]].plugin] # "new"
      BY <3>1 DEF SlotsOK
    <3>4. pc' = pc
      BY <2>2 DEF Receive
    <3> QED BY <2>2, <3>2, <3>3, <3>4
  <2>3. ASSUME sending'[c].to \subseteq sending[c].to,
               \/ sending'[c].failed \subseteq sending[c].failed
               \/ \E t \in sending[c].to \ sending'[c].to :
                    sending'[c].failed = sending[c].failed \cup {t}
        PROVE  /\ \A t \in sending'[c].to : pc'[t] # "new"
               /\ \A t, u \in sending'[c].to : t = u
               /\ sending'[c].to \cap sending'[c].failed = {}
    BY <1>0, <2>1, <2>3
  <2> QED BY <2>2, <2>3, TurnMoves DEF Conns
<1>3. ASSUME NEW p \in Plugins, pc'[p] = "new" PROVE outbox'[p] = <<>>
  <2>1. pc[p] = "new" /\ outbox[p] = <<>>
    BY <1>0, <1>3 DEF SlotsOK, Conns
  <2>2. ~\E e \in Phones : Forward(e, p)
    BY <2>1 DEF Forward, SlotsOK
  <2> QED BY <2>1, <2>2, ArrivalMoves
<1> QED BY <1>1, <1>2, <1>3 DEF SlotsOK

\* As long as the thread is on its first connection, it keeps its socket; it
\* makes no hello before it has one.
LEMMA FirstStep ==
  ASSUME TypesInv, [Next]_linkVars, FirstLink'
  PROVE  /\ FirstLink
         /\ socket' = socket \/ (socket = NoConn /\ socket' \in Plugins /\ offered' = offered)
         /\ offered' # offered => socket \in Plugins
<1>0. ThreadOK
  BY DEF TypesInv
<1>1. FirstLink
  BY CountsKept DEF FirstLink
<1>2. CASE ThreadNext
  <2>1. ASSUME ThreadCloses, thread # "down" PROVE FALSE
    BY <1>0, <2>1, RolesAssumption DEF ThreadCloses, FirstLink, ThreadOK
  <2>2. CASE ThreadFails \/ OfficeRefuses
    BY <2>1, <2>2 DEF ThreadFails, OfficeRefuses
  <2>3. CASE \E c \in Plugins : ThreadConnects(c)
    BY <1>0, <1>1, <2>3 DEF ThreadConnects, ThreadOK, codecVars
  <2>4. ASSUME \/ ThreadGreets \/ ThreadReceives \/ ThreadHearsNothing \/ ThreadRotates
               \/ ThreadSendsState \/ ThreadSendsNothing
        PROVE  socket' = socket /\ thread # "down"
    BY <2>4 DEF ThreadGreets, ThreadReceives, ThreadHearsNothing, ThreadRotates,
                ThreadSendsState, ThreadSendsNothing
  <2> QED BY <1>0, <1>1, <1>2, <2>2, <2>3, <2>4 DEF ThreadNext, ThreadOK
<1>3. ASSUME RelayNext \/ \E c \in Conns : Drops(c) PROVE UNCHANGED <<socket, offered>>
  BY <1>3 DEF RelayNext, Reads, Ends, RelayInside, Drops, clientVars, codecVars
<1>4. ASSUME NEW d \in Devices, PageNext(d) PROVE UNCHANGED <<socket, offered>>
  BY <1>4 DEF PageNext, PageConnects, PageReceives, PageDerives, PageCommands, PageCloses,
              threadVars, codecVars
<1>5. ASSUME UNCHANGED linkVars PROVE UNCHANGED <<socket, offered>>
  BY <1>5 DEF linkVars, clientVars, codecVars
<1> QED BY <1>1, <1>2, <1>3, <1>4, <1>5 DEF Next

\* The thread's first connection is the only one a plugin has used, it has
\* its session's slot while its handler runs, and a hello is recorded only
\* where a plugin is.
LEMMA OnlyPluginKept ==
  ASSUME TypesInv, UsedOnce, SlotsOK, OnlyPlugin, [Next]_linkVars
  PROVE  OnlyPlugin'
<1> SUFFICES ASSUME FirstLink'
             PROVE  /\ socket' = NoConn => offered' = 0
                    /\ \A p \in Plugins : pc'[p] # "new" => p = socket' /\ pc'[p] \in {"open", "done"}
                    /\ \A o \in Objects : session'[o].hello # NoHello => session'[o].plugin # NoConn
                    /\ \A p \in Plugins : pc'[p] = "open" => session'[at'[p]].plugin = p
  BY DEF OnlyPlugin
<1> USE RolesAssumption DEF Conns
<1>0. /\ RelayInv /\ session \in [Objects -> Sessions] /\ pc \in [Conns -> Places]
      /\ at \in [Conns -> 0..made] /\ \A o \in Objects : session[o] \in Sessions
  BY Typed DEF TypesInv, RelayInv, SessionsOK, HandlersOK
<1>1. /\ socket = NoConn => offered = 0
      /\ \A p \in Plugins : pc[p] # "new" => p = socket /\ pc[p] \in {"open", "done"}
      /\ \A o \in Objects : session[o].hello # NoHello => session[o].plugin # NoConn
      /\ \A p \in Plugins : pc[p] = "open" => session[at[p]].plugin = p /\ at[p] \in Objects
  BY FirstStep, <1>0, AtWork DEF OnlyPlugin
<1>2. /\ socket' = socket \/ (socket = NoConn /\ socket' \in Plugins /\ offered' = offered)
      /\ offered' # offered => socket \in Plugins
  BY FirstStep
<1>3. socket' = NoConn => offered' = 0
  BY <1>1, <1>2
<1> DEFINE Good == /\ \A p \in Plugins : pc'[p] # "new" => p = socket' /\ pc'[p] \in {"open", "done"}
                   /\ \A o \in Objects : session'[o].hello # NoHello => session'[o].plugin # NoConn
                   /\ \A p \in Plugins : pc'[p] = "open" => session'[at'[p]].plugin = p
<1>3a. \A p \in Plugins : pc[p] # "new" => p = socket'
  BY <1>1, <1>2
<1>4. ASSUME UNCHANGED <<session, pc, at>> PROVE Good
  BY <1>1, <1>3a, <1>4
<1>5. ASSUME NEW c \in Phones, Connects(c) PROVE Good
  <2>1. /\ \E p \in Places : pc' = [pc EXCEPT ![c] = p]
        /\ \A x \in Objects : Same(x)
        /\ at' = at \/ \E o \in Objects : at' = [at EXCEPT ![c] = o]
    BY <1>0, <1>5, ConnectsEffect DEF Places
  <2>2. \A p \in Plugins : pc'[p] = pc[p] /\ at'[p] = at[p]
    BY <1>0, <2>1
  <2> QED BY <1>1, <1>3a, <2>1, <2>2 DEF Same
<1>6. ASSUME NEW c \in Plugins, Connects(c), socket = NoConn, socket' = c PROVE Good
  <2>1. \A p \in Plugins : pc[p] = "new"
    BY <1>1, <1>6
  <2>2. \A o \in Objects : session[o].plugin = NoConn /\ session[o].hello = NoHello
    <3>1. ASSUME NEW o \in Objects, session[o].plugin # NoConn PROVE FALSE
      BY <1>0, <2>1, <3>1 DEF Sessions, SlotsOK
    <3> QED BY <1>1, <3>1
  <2>3. PICK o \in Objects :
          /\ \A x \in Objects : x # o => Same(x)
          /\ \/ pc' = [pc EXCEPT ![c] = "open"] /\ Taken(o, c) /\ at' = [at EXCEPT ![c] = o]
             \/ pc' = [pc EXCEPT ![c] = "done"] /\ Same(o)
    BY <1>0, <1>6, <2>2, ConnectsEffect
  <2>4. \A p \in Plugins : p # c => pc'[p] = "new"
    BY <1>0, <2>1, <2>3
  <2>5. pc'[c] \in {"open", "done"}
    BY <1>0, <2>3
  <2>6. pc'[c] = "open" => session'[at'[c]].plugin = c
    <3>1. CASE pc' = [pc EXCEPT ![c] = "open"] /\ Taken(o, c) /\ at' = [at EXCEPT ![c] = o]
      BY <1>0, <3>1 DEF Taken
    <3>2. CASE pc' = [pc EXCEPT ![c] = "done"]
      BY <1>0, <3>2
    <3> QED BY <2>3, <3>1, <3>2
  <2>7. \A x \in Objects : session'[x].hello = NoHello
    BY <2>2, <2>3 DEF Same, Taken
  <2> QED BY <1>6, <2>4, <2>5, <2>6, <2>7
<1>7. ASSUME NEW c \in Conns, Reads(c) PROVE Good
  <2>1. /\ UNCHANGED <<pc, at>>
        /\ \/ session' = session
           \/ /\ session' = [session EXCEPT ![at[c]] = Metadata(session[at[c]], c, Head(toRelay[c]))]
              /\ pc[c] = "open"
    BY <1>7 DEF Reads, RejectInvalid, Reject, Receive, Awaiting
  <2>2. CASE session' = session
    BY <1>4, <2>1, <2>2
  <2>3. CASE /\ session' = [session EXCEPT ![at[c]] = Metadata(session[at[c]], c, Head(toRelay[c]))]
             /\ pc[c] = "open"
    <3>1. at[c] \in Objects
      BY <1>0, <2>3, AtWork
    <3>2. \A s \in Sessions : /\ Metadata(s, c, Head(toRelay[c])).plugin = s.plugin
                              /\ c \notin Plugins => Metadata(s, c, Head(toRelay[c])) = s
      BY DEF Metadata, Sessions
    <3>3. \A x \in Objects : /\ session'[x].plugin = session[x].plugin
                             /\ x # at[c] \/ c \notin Plugins => session'[x] = session[x]
      BY <1>0, <2>3, <3>1, <3>2
    <3>4. c \in Plugins => session[at[c]].plugin = c
      BY <1>1, <2>3
    <3> QED BY <1>1, <1>3a, <2>1, <3>3, <3>4
  <2> QED BY <2>1, <2>2, <2>3
<1>8. ASSUME NEW c \in Conns, RelayOwn(c) PROVE Good
  <2>1. ~ReplacePlugin(c)
    BY <1>0, <1>1 DEF ReplacePlugin, RelayInv, HandlersOK
  <2>2. CASE Finish(c)
    <3>1. /\ pc[c] = "open" /\ pc' = [pc EXCEPT ![c] = "done"] /\ at' = at
          /\ session' = [session EXCEPT ![at[c]] = Leave(c, @)]
      BY <2>2 DEF Finish
    <3>2. at[c] \in Objects
      BY <1>0, <3>1, AtWork
    <3>3. \A s \in Sessions :
            \/ Leave(c, s).plugin = s.plugin /\ Leave(c, s).hello = s.hello
            \/ Leave(c, s).hello = NoHello /\ c \in Plugins
      BY DEF Leave, ClearCached, Sessions
    <3>4. \A x \in Objects :
            \/ session'[x].plugin = session[x].plugin /\ session'[x].hello = session[x].hello
            \/ session'[x].hello = NoHello /\ c \in Plugins
      BY <1>0, <3>1, <3>2, <3>3
    <3>5. \A p \in Plugins : pc'[p] # "new" => pc[p] # "new" /\ pc'[p] \in {"open", "done"}
      BY <1>0, <1>1, <3>1
    <3>6. ASSUME NEW p \in Plugins, pc'[p] = "open" PROVE session'[at'[p]].plugin = p
      <4>1. p # c /\ pc[p] = "open"
        BY <1>0, <3>1, <3>6
      <4>2. c \notin Plugins
        BY <1>1, <3>1, <4>1
      <4> QED BY <1>1, <3>1, <3>4, <4>1, <4>2
    <3> QED BY <1>1, <1>3a, <3>4, <3>5, <3>6
  <2>3. CASE ReplayNext(c) \/ ReplayFails(c)
    <3>1. /\ pc[c] = "replaying" /\ UNCHANGED <<session, at>>
          /\ \E p \in Places : pc' = [pc EXCEPT ![c] = p]
      BY <1>0, <2>3 DEF ReplayNext, ReplayFails, Places
    <3>2. c \notin Plugins
      BY <1>1, <3>1
    <3>3. \A p \in Plugins : pc'[p] = pc[p]
      BY <1>0, <3>1, <3>2
    <3> QED BY <1>1, <1>3a, <3>1, <3>3
  <2>4. CASE \/ CloseFailed(c) \/ HeartbeatFails(c) \/ ClientVanish(c)
             \/ \E t \in Conns : Forward(c, t) \/ ForwardFails(c, t)
    <3>1. UNCHANGED <<session, pc, at>>
      BY <2>4 DEF CloseFailed, HeartbeatFails, ClientVanish, Forward, ForwardFails
    <3> QED BY <1>4, <3>1
  <2> HIDE DEF Good
  <2> QED BY <1>8, <2>1, <2>2, <2>3, <2>4 DEF RelayOwn
<1> HIDE DEF Good
<1>9. thread = "down" => socket = NoConn
  BY DEF TypesInv, ThreadOK
<1>10. Good
  BY <1>4, <1>5, <1>6, <1>7, <1>8, <1>9, RelayParts, TakingIsQuiet DEF relayVars
<1> QED BY <1>3, <1>10 DEF Good

-----------------------------------------------------------------------------
(* An answer, once with the plugin or lost for good, stays so.             *)

\* A peer whose send failed is closed when the sends have ended.
LEMMA FailedStays ==
  ASSUME TypesInv, [Next]_linkVars, NEW c \in Conns
  PROVE  sending[c].failed \subseteq sending'[c].failed \cup shut'
<1>0. sending \in [Conns -> Deliveries] /\ NothingToSend.failed = {}
  BY DEF TypesInv, RelayInv, HandlersOK, NothingToSend
<1>1. ASSUME NEW m, Receive(c, m) PROVE sending[c].failed = {}
  BY <1>1 DEF Receive, Awaiting, Busy
<1>2. ASSUME NEW t \in Conns, Forward(c, t) PROVE sending[c].failed \subseteq sending'[c].failed
  <2>1. sending[c] \in Deliveries
    BY <1>0
  <2>2. sending'[c] = IF sending[c].to = {t} /\ sending[c].failed = {} THEN NothingToSend
                      ELSE [sending[c] EXCEPT !.to = @ \ {t}]
    BY <1>0, <1>2 DEF Forward
  <2> QED BY <2>1, <2>2 DEF Deliveries
<1>3. CloseFailed(c) => sending[c].failed \subseteq shut'
  BY DEF CloseFailed
<1> QED BY <1>1, <1>2, <1>3, TurnMoves

\* A hello the thread takes off its socket is no longer on offer.
LEMMA TakenHello ==
  ASSUME ThreadReceives, NEW k, NEW f, Head(outbox[socket]) = Hello(k, f)
  PROVE  k \notin pending'
<1>1. Hello(k, f).type = "hello" /\ Hello(k, f).key = k
  BY DEF Hello
<1>2. HandleHello(Hello(k, f))
  BY <1>1 DEF ThreadReceives
<1> QED BY <1>1, <1>2 DEF HandleHello, ApplyPhoneHello, codecVars

\* What was offered and is no longer will not be again.
LEMMA OfferGone ==
  ASSUME TypesInv, [Next]_linkVars, NEW k \in Hellos, k \notin pending
  PROVE  k \notin pending'
<1>1. k \in Nat /\ k <= offered /\ offered \in Nat
  BY Numbers DEF Hellos
<1> QED BY <1>1, CodecUsed DEF CodecNext, RotateSendKey, ApplyPhoneHello, EncodeFrame, DecodeFrame,
                               codecVars

\* On its first connection the thread keeps its socket while it has hellos out.
LEMMA SameSocket ==
  ASSUME TypesInv, OnlyPlugin, [Next]_linkVars, FirstLink', Hellos # {}
  PROVE  /\ FirstLink /\ socket \in Plugins /\ socket' = socket
         /\ \A p \in Plugins : pc[p] # "new" => p = socket
         /\ \A o \in Objects : session[o].hello # NoHello => session[o].plugin # NoConn
<1>1. FirstLink /\ socket \in Plugins \cup {NoConn}
  BY FirstStep DEF TypesInv, ThreadOK
<1>2. socket # NoConn
  BY <1>1 DEF OnlyPlugin, Hellos
<1> QED BY <1>1, <1>2, FirstStep DEF OnlyPlugin

\* An answer that has got to the plugin, or cannot any more, stays so.
LEMMA ArrivedStays ==
  ASSUME TypesInv, OnlyPlugin, [Next]_linkVars, FirstLink',
         NEW c \in Phones, NEW k \in Hellos, Arrived(c, k)
  PROVE  Arrived(c, k)'
<1>1. PICK p \in Plugins : p = socket /\ socket' = p
  BY SameSocket
<1>2. k \notin pending => k \notin pending'
  BY OfferGone
<1>3. ASSUME Holds(outbox[p], Hello(k, c))
      PROVE  k \notin pending' \/ Holds(outbox'[p], Hello(k, c))
  <2>0. PICK n \in DOMAIN outbox[p] : outbox[p][n] = Hello(k, c)
    BY <1>3 DEF Holds
  <2>1. outbox[p] \in Seq(HeardBy(p))
    BY ArrivalMoves
  <2>2. CASE outbox'[p] = outbox[p]
    BY <1>3, <2>2
  <2>3. CASE p = socket /\ ThreadReceives /\ outbox[p] # <<>> /\ outbox'[p] = Tail(outbox[p])
    <3>1. CASE n = 1
      <4>1. Head(outbox[socket]) = Hello(k, c)
        BY <2>0, <2>1, <2>3, <3>1, TailEntries
      <4> QED BY <2>3, <4>1, TakenHello
    <3>2. CASE n # 1
      <4>1. DOMAIN outbox[p] = 1..Len(outbox[p]) /\ Len(outbox[p]) \in Nat
        BY <2>1
      <4>2. n - 1 \in 1..(Len(outbox[p]) - 1) /\ (n - 1) + 1 = n
        BY <2>0, <3>2, <4>1
      <4>3. n - 1 \in DOMAIN Tail(outbox[p]) /\ Tail(outbox[p])[n - 1] = Hello(k, c)
        BY <2>0, <2>1, <2>3, <4>2, TailEntries
      <4> QED BY <2>3, <4>3 DEF Holds
    <3> QED BY <3>1, <3>2
  <2>4. ASSUME NEW m \in HeardBy(p), outbox'[p] = Append(outbox[p], m)
        PROVE  Holds(outbox'[p], Hello(k, c))
    <3>1. n \in DOMAIN Append(outbox[p], m) /\ Append(outbox[p], m)[n] = Hello(k, c)
      BY <2>0, <2>1
    <3> QED BY <2>4, <3>1 DEF Holds
  <2> QED BY <2>2, <2>3, <2>4, ArrivalMoves
<1>4. p \in shut => p \in shut'
  BY UsedStays
<1>5. p \in sending[c].failed => p \in sending'[c].failed \cup shut'
  BY FailedStays DEF Conns
<1>6. \/ k \notin pending'
      \/ Holds(outbox'[p], Hello(k, c))
      \/ p \in shut'
      \/ p \in sending'[c].failed
  BY <1>1, <1>2, <1>3, <1>4, <1>5 DEF Arrived
<1> QED BY <1>1, <1>6 DEF Arrived

\* An answer the relay is sending on gets there, or cannot any more.
LEMMA GoingStays ==
  ASSUME TypesInv, SlotsOK, OnlyPlugin, [Next]_linkVars, FirstLink',
         NEW c \in Phones, NEW k \in Hellos, Going(c, k)
  PROVE  Going(c, k)'
<1>0. CASE Arrived(c, k)
  BY <1>0, ArrivedStays DEF Going
<1>1. PICK p \in Plugins : p = socket /\ socket' = p
  BY SameSocket
<1>2. CASE sending[c].to # {} /\ sending[c].msg = Hello(k, c)
  <2>0. c \in Conns /\ p \in Conns
    BY DEF Conns
  <2>1. \A t \in sending[c].to : t = p
    <3>1. \A t \in sending[c].to : t \in Plugins /\ pc[t] # "new"
      BY <2>0 DEF TypesInv, SendingOK, Opposite, SlotsOK
    <3> QED BY <1>1, <3>1, SameSocket
  <2>2. CASE sending'[c] = sending[c]
    BY <1>2, <2>2 DEF Going
  <2>3. ASSUME NEW m, Receive(c, m) PROVE FALSE
    BY <1>2, <2>3 DEF Receive, Awaiting, Busy
  <2>4. ASSUME Forward(c, p) PROVE Arrived(c, k)'
    <3>1. outbox' = [outbox EXCEPT ![p] = Append(@, Hello(k, c))]
      BY <1>2, <2>4 DEF Forward
    <3>2. outbox'[p] = Append(outbox[p], Hello(k, c)) /\ outbox[p] \in Seq(HeardBy(p))
      BY <2>0, <3>1, ArrivalMoves DEF TypesInv, OutboxOK, PerConn
    <3>3. Len(outbox[p]) + 1 \in DOMAIN outbox'[p] /\ outbox'[p][Len(outbox[p]) + 1] = Hello(k, c)
      BY <3>2
    <3>4. Holds(outbox'[p], Hello(k, c))
      BY <3>3 DEF Holds
    <3> QED BY <1>1, <3>4 DEF Arrived
  <2>5. ASSUME p \in sending'[c].failed PROVE Arrived(c, k)'
    BY <1>1, <2>5 DEF Arrived
  <2>6. ~CloseFailed(c)
    BY <1>2 DEF CloseFailed
  <2> QED BY <1>2, <2>0, <2>1, <2>2, <2>3, <2>4, <2>5, <2>6, TurnMoves DEF Going
<1> QED BY <1>0, <1>2 DEF Going

\* An answer the relay reads is sent on to the plugin, or the page's connection
\* is over.
LEMMA ReadHello ==
  ASSUME TypesInv, SlotsOK, OnlyPlugin, [Next]_linkVars, FirstLink',
         NEW c \in Phones, NEW k \in Hellos, Reads(c), Head(toRelay[c]) = Hello(k, c)
  PROVE  Going(c, k)' \/ c \in shut'
<1>1. PICK p \in Plugins : p = socket /\ socket' = p
  BY SameSocket
<1>2. CASE Reject(c, Hello(k, c))
  BY <1>2 DEF Reject
<1>3. CASE Receive(c, Hello(k, c))
  <2>0. c \in Conns /\ c \notin Plugins /\ sending \in [Conns -> Deliveries]
    BY RolesAssumption DEF TypesInv, RelayInv, HandlersOK, Conns
  <2>1. PICK o \in Objects : o = at[c]
    BY <1>3, <2>0, AtWork DEF Receive, Awaiting, TypesInv
  <2>2. session[o].hello # NoHello
    BY <1>3, <2>0, <2>1 DEF Receive, Valid, Hello
  <2>3. session[o].plugin = p
    <3>1. session[o].plugin \in Plugins /\ session[o].plugin # NoConn
      BY <2>2, SameSocket DEF TypesInv, RelayInv, SessionsOK, Sessions
    <3>2. pc[session[o].plugin] # "new"
      BY <3>1 DEF SlotsOK
    <3> QED BY <1>1, <3>1, <3>2, SameSocket
  <2>4. CASE p \in shut
    <3>1. p \in shut'
      BY <2>4, UsedStays
    <3> QED BY <1>1, <3>1 DEF Going, Arrived
  <2>5. CASE p \notin shut
    <3>1. Targets(session[o], c) = {p}
      BY <2>0, <2>3, <2>5, RolesAssumption DEF Targets, Conns
    <3>2. sending' = [sending EXCEPT ![c] = [msg |-> Hello(k, c), to |-> {p}, failed |-> {}]]
      BY <1>3, <2>1, <3>1 DEF Receive
    <3>3. sending'[c] = [msg |-> Hello(k, c), to |-> {p}, failed |-> {}]
      BY <2>0, <3>2
    <3>4. sending'[c].to = {p} /\ sending'[c].msg = Hello(k, c)
      BY <3>3
    <3> QED BY <3>4 DEF Going
  <2> QED BY <2>4, <2>5
<1> QED BY <1>2, <1>3 DEF Reads, RejectInvalid

-----------------------------------------------------------------------------
(* Answers stay ahead of commands.                                         *)

\* What a sequence holds when another entry is appended or its head is taken.
LEMMA HoldsMoves ==
  ASSUME NEW S, NEW s \in Seq(S), NEW m \in S, NEW x
  PROVE  /\ Holds(s, x) => Holds(Append(s, m), x)
         /\ Holds(Append(s, m), m)
         /\ Holds(s, x) /\ s # <<>> => Head(s) = x \/ Holds(Tail(s), x)
<1>1. /\ DOMAIN s = 1..Len(s) /\ Len(s) \in Nat /\ DOMAIN Append(s, m) = 1..(Len(s) + 1)
      /\ \A n \in 1..Len(s) : Append(s, m)[n] = s[n]
      /\ Append(s, m)[Len(s) + 1] = m
  BY AppendEntries
<1>2. ASSUME NEW n \in DOMAIN s, s[n] = x, s # <<>> PROVE Head(s) = x \/ Holds(Tail(s), x)
  <2>1. CASE n = 1
    BY <1>2, <2>1, TailEntries
  <2>2. CASE n # 1
    <3>1. n - 1 \in 1..(Len(s) - 1) /\ (n - 1) + 1 = n
      BY <1>1, <1>2, <2>2
    <3>2. n - 1 \in DOMAIN Tail(s) /\ Tail(s)[n - 1] = x
      BY <1>2, <3>1, TailEntries
    <3> QED BY <3>2 DEF Holds
  <2> QED BY <2>1, <2>2
<1>3. Holds(s, x) => Holds(Append(s, m), x)
  BY <1>1 DEF Holds
<1>4. Holds(Append(s, m), m)
  <2>1. Len(s) + 1 \in DOMAIN Append(s, m)
    BY <1>1
  <2> QED BY <1>1, <2>1 DEF Holds
<1> QED BY <1>2, <1>3, <1>4 DEF Holds

\* A page has had a key on its connection, or says at once that it has it now.
LEMMA KeyringMoves ==
  ASSUME TypesInv, UsedOnce, [Next]_linkVars, NEW d \in Devices, NEW c \in Phones,
         page'[d] = c, c \notin shut \cup lost, NEW k \in Keys, keyring'[d][k] # NoPeer
  PROVE  \/ page[d] = c /\ keyring[d][k] # NoPeer /\ k \in Hellos
         \/ /\ k \in Hellos /\ Hello(k, c) \in PhoneMessages(c)
            /\ toRelay'[c] = Append(toRelay[c], Hello(k, c))
<1>0. /\ keyring \in [Devices -> [Keys -> Phones \cup {NoPeer}]] /\ c # NoConn
      /\ \A x \in Keys : keyring[d][x] # NoPeer => x \in Hellos
  BY RolesAssumption DEF TypesInv, PagesOK, Conns
<1>1. page[d] = c
  BY <1>0, PageMoves DEF UsedOnce
<1>2. CASE keyring'[d] = keyring[d]
  BY <1>0, <1>1, <1>2
<1>3. CASE PageDerives(d)
  <2>1. PICK h \in deriving[d] :
          /\ keyring' = [keyring EXCEPT ![d][h.key] = h.conn]
          /\ toRelay' = [toRelay EXCEPT ![c] = Append(@, Hello(h.key, h.conn))]
    BY <1>1, <1>0, <1>3 DEF PageDerives, Send
  <2>2. h.conn = c /\ h.key \in Hellos
    <3>1. h \in [key : Hellos, conn : Phones]
      BY DEF TypesInv, PagesOK
    <3>2. c \in {NoConn, h.conn}
      BY <1>1 DEF UsedOnce
    <3> QED BY <1>0, <3>1, <3>2
  <2>3. CASE k = h.key
    <3>1. toRelay'[c] = Append(toRelay[c], Hello(k, c))
      BY <2>1, <2>2, <2>3 DEF TypesInv, ToRelayOK, PerConn, Conns
    <3>2. Hello(k, c) \in PhoneMessages(c)
      BY <2>2, <2>3 DEF PhoneMessages, Hello
    <3> QED BY <2>2, <2>3, <3>1, <3>2
  <2>4. CASE k # h.key
    BY <1>0, <1>1, <2>1, <2>4
  <2> QED BY <2>3, <2>4
<1>4. ASSUME NEW f \in Phones, PageConnects(d, f) PROVE FALSE
  BY <1>0, <1>1, <1>4 DEF PageConnects
<1>5. ~PageCloses(d)
  BY <1>0 DEF PageCloses, TypesInv, PagesOK
<1>6. ASSUME NEW e \in Devices, PageNext(e), e # d PROVE keyring'[d] = keyring[d]
  BY <1>0, <1>6 DEF PageNext, PageConnects, PageReceives, PageDerives, PageCommands, PageCloses,
                    pageVars
<1>7. ASSUME RelayNext \/ ThreadNext \/ (\E e \in Conns : Drops(e)) \/ UNCHANGED linkVars
      PROVE  UNCHANGED keyring
  BY <1>7 DEF RelayNext, Reads, Ends, RelayInside, Drops, clientVars, linkVars, pageVars,
     ThreadNext, ThreadConnects, ThreadGreets, ThreadReceives, ThreadHearsNothing,
     ThreadRotates, ThreadSendsState, ThreadSendsNothing, ThreadFails, OfficeRefuses,
     ThreadCloses
<1>8. ASSUME PageReceives(d) \/ PageCommands(d) PROVE UNCHANGED keyring
  BY <1>8 DEF PageReceives, PageCommands, pageVars
<1> QED BY <1>2, <1>3, <1>4, <1>5, <1>6, <1>7, <1>8 DEF Next, PageNext

\* A page's answer is still on its way, or has arrived as far as it can.
LEMMA KeysFollowKept ==
  ASSUME TypesInv, UsedOnce, SlotsOK, OnlyPlugin, KeysFollow, [Next]_linkVars, FirstLink'
  PROVE  KeysFollow'
<1> SUFFICES ASSUME NEW d \in Devices, NEW k \in Keys, page'[d] # NoConn,
                    page'[d] \notin shut' \cup lost', keyring'[d][k] # NoPeer
             PROVE  Holds(toRelay'[page'[d]], Hello(k, page'[d])) \/ Going(page[d], k)'
  BY DEF KeysFollow
<1>1. PICK c \in Phones : c = page'[d]
  BY TypesKept DEF TypesInv, PagesOK
<1>2. c \notin shut \cup lost
  BY <1>1, UsedStays
<1>3. toRelay[c] \in Seq(PhoneMessages(c))
  BY WayMoves
<1>4. CASE /\ k \in Hellos /\ Hello(k, c) \in PhoneMessages(c)
           /\ toRelay'[c] = Append(toRelay[c], Hello(k, c))
  BY <1>1, <1>3, <1>4, HoldsMoves
<1>5. CASE page[d] = c /\ keyring[d][k] # NoPeer /\ k \in Hellos
  <2>1. Holds(toRelay[c], Hello(k, c)) \/ Going(c, k)
    BY <1>1, <1>2, <1>5 DEF KeysFollow
  <2>2. Going(c, k) => Going(c, k)'
    BY <1>5, GoingStays
  <2>3. ASSUME Holds(toRelay[c], Hello(k, c))
        PROVE  Holds(toRelay'[c], Hello(k, c)) \/ Going(c, k)'
    <3>1. ASSUME Reads(c), toRelay[c] # <<>>, toRelay'[c] = Tail(toRelay[c])
          PROVE  Holds(toRelay'[c], Hello(k, c)) \/ Going(c, k)'
      <4>1. Head(toRelay[c]) \in PhoneMessages(c)
        BY <1>3, <3>1, TailEntries
      <4>2. Head(toRelay[c]) = Hello(k, c) \/ Holds(Tail(toRelay[c]), Hello(k, c))
        BY <1>3, <2>3, <3>1, <4>1, HoldsMoves
      <4> QED BY <1>1, <1>5, <3>1, <4>2, ReadHello
    <3>2. ASSUME NEW m \in SaidBy(c)', toRelay'[c] = Append(toRelay[c], m)
          PROVE  Holds(toRelay'[c], Hello(k, c))
      <4>1. SaidBy(c) \subseteq SaidBy(c)' /\ SaidBy(c) = PhoneMessages(c)
        BY CodecKept, CountsKept, Numbers, MoreMessages DEF CountsOK, SaidBy
      <4>2. toRelay[c] \in Seq(SaidBy(c)')
        BY <1>3, <4>1, WiderSeq
      <4> QED BY <2>3, <3>2, <4>2, HoldsMoves
    <3> QED BY <2>3, <3>1, <3>2, WayMoves
  <2>4. Holds(toRelay'[c], Hello(k, c)) \/ Going(c, k)'
    BY <2>1, <2>2, <2>3
  <2> QED BY <1>1, <2>4 DEF Going, Arrived
<1> QED BY <1>1, <1>2, <1>4, <1>5, KeyringMoves

\* A command stays behind the answer that made its key.
LEMMA CommandsFollowKept ==
  ASSUME TypesInv, UsedOnce, SlotsOK, OnlyPlugin, KeysFollow, CommandsFollow,
         [Next]_linkVars, FirstLink'
  PROVE  CommandsFollow'
<1> SUFFICES ASSUME NEW c \in Phones, NEW n \in DOMAIN toRelay'[c], NEW m, m = toRelay'[c][n],
                    c \notin shut', m.type = "frame"
             PROVE  \/ \E j \in 1..(n - 1) : toRelay'[c][j] = Hello(m.key, c)
                    \/ Going(c, m.key)'
  BY DEF CommandsFollow, Going, Arrived
<1>1. c \notin shut
  BY UsedStays
<1>2. /\ toRelay[c] \in Seq(PhoneMessages(c)) /\ DOMAIN toRelay[c] = 1..Len(toRelay[c])
      /\ Len(toRelay[c]) \in Nat
  BY WayMoves, AppendEntries
<1>3. ASSUME NEW i \in DOMAIN toRelay[c], m = toRelay[c][i]
      PROVE  /\ m.key \in Hellos
             /\ \/ \E j \in 1..(i - 1) : toRelay[c][j] = Hello(m.key, c)
                \/ Going(c, m.key)'
  <2>1. m \in PhoneMessages(c)
    BY <1>2, <1>3
  <2>2. m.key \in Hellos
    BY <2>1 DEF PhoneMessages
  <2>3. \/ \E j \in 1..(i - 1) : toRelay[c][j] = Hello(m.key, c)
        \/ Going(c, m.key)
    BY <1>1, <1>3 DEF CommandsFollow
  <2>4. PICK k \in Hellos : k = m.key
    BY <2>2
  <2>5. Going(c, k) => Going(c, k)'
    BY GoingStays
  <2> QED BY <2>2, <2>3, <2>4, <2>5
<1>4. CASE toRelay'[c] = toRelay[c]
  BY <1>3, <1>4
<1>5. ASSUME Reads(c), toRelay[c] # <<>>, toRelay'[c] = Tail(toRelay[c])
      PROVE  \/ \E j \in 1..(n - 1) : toRelay'[c][j] = Hello(m.key, c)
             \/ Going(c, m.key)'
  <2>0. n \in 1..(Len(toRelay[c]) - 1) /\ \A i \in 1..(Len(toRelay[c]) - 1) : toRelay'[c][i] = toRelay[c][i + 1]
    BY <1>2, <1>5, TailEntries
  <2>1. n + 1 \in DOMAIN toRelay[c] /\ m = toRelay[c][n + 1]
    BY <1>2, <2>0
  <2>2. ASSUME NEW j \in 1..n, toRelay[c][j] = Hello(m.key, c)
        PROVE  \/ \E i \in 1..(n - 1) : toRelay'[c][i] = Hello(m.key, c)
               \/ Going(c, m.key)'
    <3>1. CASE j = 1
      <4>1. Head(toRelay[c]) = Hello(m.key, c)
        BY <1>2, <1>5, <2>2, <3>1, TailEntries
      <4> QED BY <1>3, <1>5, <2>1, <4>1, ReadHello
    <3>2. CASE j # 1
      <4>1. j - 1 \in 1..(n - 1) /\ j - 1 \in 1..(Len(toRelay[c]) - 1) /\ (j - 1) + 1 = j
        BY <1>2, <2>0, <2>2, <3>2
      <4>2. toRelay'[c][j - 1] = Hello(m.key, c)
        BY <2>0, <2>2, <4>1
      <4> QED BY <4>1, <4>2
    <3> QED BY <3>1, <3>2
  <2>3. (n + 1) - 1 = n
    BY <2>0
  <2> QED BY <1>3, <2>1, <2>2, <2>3
<1>6. ASSUME NEW d \in Devices, NEW x \in SaidBy(c)', PageSays(d, c, x), toRelay'[c] = Append(toRelay[c], x)
      PROVE  \/ \E j \in 1..(n - 1) : toRelay'[c][j] = Hello(m.key, c)
             \/ Going(c, m.key)'
  <2>0. /\ n \in 1..(Len(toRelay[c]) + 1) /\ toRelay'[c][Len(toRelay[c]) + 1] = x
        /\ \A i \in 1..Len(toRelay[c]) : toRelay'[c][i] = toRelay[c][i]
    BY <1>2, <1>6
  <2>1. CASE n \in 1..Len(toRelay[c])
    <3>1. n \in DOMAIN toRelay[c] /\ m = toRelay[c][n] /\ 1..(n - 1) \subseteq 1..Len(toRelay[c])
      BY <1>2, <2>0, <2>1
    <3> QED BY <1>3, <2>0, <3>1
  <2>2. CASE n = Len(toRelay[c]) + 1
    <3>1. PICK k \in Hellos : keyring[d][k] = c /\ m = Frame(k, "command", [peer |-> c, nonce |-> commands + 1])
      BY <1>6, <2>0, <2>2 DEF PageSays, Hello
    <3>2. m.key = k
      BY <3>1 DEF Frame
    <3>3. page[d] = c /\ c \notin shut \cup lost /\ c # NoConn /\ c # NoPeer /\ k \in Keys
      BY <1>6, Numbers, RolesAssumption, NoPeerAssumption, LinkAssumption DEF PageSays, Conns
    <3>4. Holds(toRelay[c], Hello(k, c)) \/ Going(c, k)
      BY <3>1, <3>3 DEF KeysFollow
    <3>5. Going(c, k) => Going(c, k)'
      BY GoingStays
    <3>6. ASSUME NEW j \in DOMAIN toRelay[c], toRelay[c][j] = Hello(k, c)
          PROVE  j \in 1..(n - 1) /\ toRelay'[c][j] = Hello(k, c)
      BY <1>2, <2>0, <2>2, <3>6
    <3> QED BY <3>2, <3>4, <3>5, <3>6 DEF Holds
  <2> QED BY <1>2, <2>0, <2>1, <2>2
<1> QED BY <1>4, <1>5, <1>6, WayMoves

\* A command the relay is sending on comes after its answer.
LEMMA SendingFollowsKept ==
  ASSUME TypesInv, OnlyPlugin, CommandsFollow, SendingFollows, [Next]_linkVars, FirstLink'
  PROVE  SendingFollows'
<1> SUFFICES ASSUME NEW c \in Phones, sending'[c].to # {}, NEW m, m = sending'[c].msg, m.type = "frame"
             PROVE  Arrived(c, m.key)'
  BY DEF SendingFollows, Arrived
<1>0. c \in Conns /\ c \notin Plugins
  BY RolesAssumption DEF Conns
<1>1. ASSUME sending[c].to # {}, m = sending[c].msg PROVE Arrived(c, m.key)'
  <2>1. m.key \in Hellos
    BY <1>0, <1>1, SaidFits DEF TypesInv, SendingOK
  <2>2. Arrived(c, m.key)
    BY <1>1 DEF SendingFollows
  <2> QED BY <2>1, <2>2, ArrivedStays
<1>2. ASSUME toRelay[c] # <<>>, Receive(c, m), m = Head(toRelay[c]) PROVE Arrived(c, m.key)'
  <2>1. 1 \in DOMAIN toRelay[c] /\ toRelay[c][1] = m /\ m \in SaidBy(c)
    BY <1>0, <1>2, TailEntries DEF TypesInv, ToRelayOK
  <2>2. c \notin shut /\ sending[c].to = {}
    BY <1>2 DEF Receive, Awaiting, Busy
  <2>3. \/ \E j \in 1..(1 - 1) : toRelay[c][j] = Hello(m.key, c)
        \/ Going(c, m.key)
    BY <2>1, <2>2 DEF CommandsFollow
  <2>4. Arrived(c, m.key)
    BY <2>2, <2>3 DEF Going
  <2>5. m.key \in Hellos
    BY <1>0, <2>1, SaidFits
  <2> QED BY <2>4, <2>5, ArrivedStays
<1> QED BY <1>0, <1>1, <1>2, TurnMoves

\* Nothing has come for a plugin that connects only now.
LEMMA NothingYet ==
  ASSUME TypesInv, SlotsOK, [Next]_linkVars, NEW p \in Plugins, pc[p] = "new"
  PROVE  outbox[p] = <<>> /\ outbox'[p] = <<>>
<1>1. outbox[p] = <<>>
  BY DEF SlotsOK
<1>2. ~\E e \in Phones : Forward(e, p)
  BY DEF Forward, SlotsOK
<1> QED BY <1>1, <1>2, ArrivalMoves

\* A command that has come for the thread comes behind its answer.
LEMMA ArrivalsFollowKept ==
  ASSUME TypesInv, SlotsOK, OnlyPlugin, SendingFollows, ArrivalsFollow, [Next]_linkVars, FirstLink'
  PROVE  ArrivalsFollow'
<1> SUFFICES ASSUME socket' # NoConn, NEW n \in DOMAIN outbox'[socket'],
                    NEW m, m = outbox'[socket'][n], m.type = "frame"
             PROVE  \/ m.key \notin pending'
                    \/ \E j \in 1..(n - 1) : outbox'[socket'][j] = Hello(m.key, m.body.peer)
  BY DEF ArrivalsFollow
<1>1. PICK p \in Plugins : p = socket'
  BY FirstStep DEF TypesInv, ThreadOK
<1>2. ASSUME socket = NoConn PROVE FALSE
  <2>1. \A q \in Plugins : pc[q] = "new"
    BY <1>2, FirstStep, RolesAssumption DEF OnlyPlugin, Conns
  <2>2. outbox'[p] = <<>>
    BY <2>1, NothingYet
  <2> QED BY <1>1, <2>2
<1>3. socket = p
  BY <1>1, <1>2, FirstStep
<1>4. /\ outbox[p] \in Seq(HeardBy(p)) /\ DOMAIN outbox[p] = 1..Len(outbox[p])
      /\ Len(outbox[p]) \in Nat
  BY ArrivalMoves, AppendEntries
<1>5. ASSUME NEW x \in HeardBy(p), x.type = "frame", x.key \notin pending PROVE x.key \notin pending'
  <2>1. x.key \in Hellos
    BY <1>5, PluginHears DEF Rejection, Hello, Frame
  <2> QED BY <1>5, <2>1, OfferGone
<1>6. ASSUME NEW i \in DOMAIN outbox[p], m = outbox[p][i]
      PROVE  \/ m.key \notin pending'
             \/ \E j \in 1..(i - 1) : outbox[p][j] = Hello(m.key, m.body.peer)
  <2>1. m \in HeardBy(p)
    BY <1>4, <1>6
  <2>2. socket # NoConn
    BY <1>2
  <2> QED BY <1>3, <1>5, <1>6, <2>1, <2>2 DEF ArrivalsFollow
<1>7. CASE outbox'[p] = outbox[p]
  BY <1>1, <1>6, <1>7
<1>8. CASE ThreadReceives /\ outbox[p] # <<>> /\ outbox'[p] = Tail(outbox[p])
  <2>0. n \in 1..(Len(outbox[p]) - 1) /\ \A i \in 1..(Len(outbox[p]) - 1) : outbox'[p][i] = outbox[p][i + 1]
    BY <1>1, <1>4, <1>8, TailEntries
  <2>1. n + 1 \in DOMAIN outbox[p] /\ m = outbox[p][n + 1] /\ (n + 1) - 1 = n
    BY <1>1, <1>4, <2>0
  <2>2. ASSUME NEW j \in 1..n, outbox[p][j] = Hello(m.key, m.body.peer)
        PROVE  \/ m.key \notin pending'
               \/ \E i \in 1..(n - 1) : outbox'[p][i] = Hello(m.key, m.body.peer)
    <3>1. CASE j = 1
      <4>1. Head(outbox[socket]) = Hello(m.key, m.body.peer)
        BY <1>3, <1>4, <1>8, <2>2, <3>1, TailEntries
      <4> QED BY <1>8, <4>1, TakenHello
    <3>2. CASE j # 1
      <4>1. j - 1 \in 1..(n - 1) /\ j - 1 \in 1..(Len(outbox[p]) - 1) /\ (j - 1) + 1 = j
        BY <1>4, <2>0, <2>2, <3>2
      <4>2. outbox'[p][j - 1] = Hello(m.key, m.body.peer)
        BY <2>0, <2>2, <4>1
      <4> QED BY <4>1, <4>2
    <3> QED BY <3>1, <3>2
  <2> QED BY <1>1, <1>6, <2>1, <2>2
<1>9. ASSUME NEW x \in HeardBy(p), outbox'[p] = Append(outbox[p], x),
             x = Rejection \/ \E e \in Phones : Forward(e, p) /\ x = sending[e].msg
      PROVE  \/ m.key \notin pending'
             \/ \E j \in 1..(n - 1) : outbox'[p][j] = Hello(m.key, m.body.peer)
  <2>0. /\ n \in 1..(Len(outbox[p]) + 1) /\ outbox'[p][Len(outbox[p]) + 1] = x
        /\ \A i \in 1..Len(outbox[p]) : outbox'[p][i] = outbox[p][i]
    BY <1>1, <1>4, <1>9
  <2>1. CASE n \in 1..Len(outbox[p])
    <3>1. n \in DOMAIN outbox[p] /\ m = outbox[p][n] /\ 1..(n - 1) \subseteq 1..Len(outbox[p])
      BY <1>1, <1>4, <2>0, <2>1
    <3> QED BY <1>6, <2>0, <3>1
  <2>2. CASE n = Len(outbox[p]) + 1
    <3>1. m = x /\ x # Rejection
      BY <1>1, <2>0, <2>2 DEF Rejection
    <3>2. PICK e \in Phones : Forward(e, p) /\ m = sending[e].msg
      BY <1>9, <3>1
    <3>3. e \in Conns /\ p \in sending[e].to \ shut
      BY <3>2 DEF Forward, Conns
    <3>4. m \in PhoneMessages(e)
      BY <3>2, <3>3, SaidFits DEF TypesInv, SendingOK
    <3>5. m.body.peer = e
      BY <3>4 DEF PhoneMessages
    <3>6. Arrived(e, m.key) /\ p \notin sending[e].failed
      BY <3>2, <3>3 DEF SendingFollows, SlotsOK
    <3>7. CASE m.key \notin pending
      BY <1>5, <1>9, <3>1, <3>7
    <3>8. CASE Holds(outbox[p], Hello(m.key, e))
      <4>1. PICK j \in DOMAIN outbox[p] : outbox[p][j] = Hello(m.key, e)
        BY <3>8 DEF Holds
      <4>2. j \in 1..(n - 1) /\ outbox'[p][j] = Hello(m.key, e)
        BY <1>4, <2>0, <2>2, <4>1
      <4> QED BY <1>1, <3>5, <4>2
    <3> QED BY <1>3, <3>3, <3>6, <3>7, <3>8 DEF Arrived
  <2> QED BY <1>4, <2>0, <2>1, <2>2
<1>10. \/ m.key \notin pending'
       \/ \E j \in 1..(n - 1) : outbox'[p][j] = Hello(m.key, m.body.peer)
  BY <1>1, <1>7, <1>8, <1>9, ArrivalMoves
<1> QED BY <1>1, <1>10

\* The order of answers and commands is kept.
LEMMA OrderKept ==
  ASSUME TypesInv, UsedOnce, SlotsOK, OnlyPlugin, OrderOK, [Next]_linkVars
  PROVE  OrderOK'
<1> SUFFICES ASSUME FirstLink' PROVE (KeysFollow /\ CommandsFollow /\ SendingFollows /\ ArrivalsFollow)'
  BY DEF OrderOK
<1>1. KeysFollow /\ CommandsFollow /\ SendingFollows /\ ArrivalsFollow
  BY FirstStep DEF OrderOK
<1> QED BY <1>1, KeysFollowKept, CommandsFollowKept, SendingFollowsKept, ArrivalsFollowKept

-----------------------------------------------------------------------------
(* Nonces grow.                                                            *)

\* What a command carries.
LEMMA CommandFits ==
  ASSUME TypesInv, NEW c \in Phones, NEW m \in PhoneMessages(c), m.type = "frame"
  PROVE  m.key \in Hellos /\ m.body.peer = c /\ m.body.nonce \in 1..commands
  BY DEF PhoneMessages

\* A page's next command is numbered after all before it.
LEMMA NextCommand ==
  ASSUME TypesInv, NEW c \in Phones, NEW d, NEW m, PageSays(d, c, m), m.type = "frame"
  PROVE  m.body.nonce = commands + 1
  BY DEF PageSays, Hello, Frame

\* A command that is behind stays behind.
LEMMA AheadStays ==
  ASSUME TypesInv, UsedOnce, [Next]_linkVars, NEW c \in Phones, NEW x \in 1..commands, Ahead(c, x)
  PROVE  Ahead(c, x)'
<1>1. commands \in Nat
  BY Numbers
<1>2. /\ toRelay[c] \in Seq(PhoneMessages(c)) /\ DOMAIN toRelay[c] = 1..Len(toRelay[c])
      /\ Len(toRelay[c]) \in Nat
  BY WayMoves, AppendEntries
<1>3. ASSUME NEW n \in DOMAIN toRelay'[c], toRelay'[c][n].type = "frame"
      PROVE  x < toRelay'[c][n].body.nonce
  <2>1. CASE toRelay'[c] = toRelay[c]
    BY <1>3, <2>1 DEF Ahead
  <2>2. CASE toRelay[c] # <<>> /\ toRelay'[c] = Tail(toRelay[c])
    <3>1. n + 1 \in DOMAIN toRelay[c] /\ toRelay'[c][n] = toRelay[c][n + 1]
      BY <1>2, <1>3, <2>2, TailEntries
    <3> QED BY <1>3, <3>1 DEF Ahead
  <2>3. ASSUME NEW d, NEW m, NEW S, m \in S, PageSays(d, c, m),
               toRelay'[c] = Append(toRelay[c], m)
        PROVE  x < toRelay'[c][n].body.nonce
    <3>1. \/ n \in DOMAIN toRelay[c] /\ toRelay'[c][n] = toRelay[c][n]
          \/ toRelay'[c][n] = m
      BY <1>2, <1>3, <2>3
    <3>2. toRelay'[c][n] = m => x < toRelay'[c][n].body.nonce
      BY <1>1, <1>3, <2>3, NextCommand
    <3> QED BY <1>3, <3>1, <3>2 DEF Ahead
  <2> QED BY <2>1, <2>2, <2>3, WayMoves
<1>4. ASSUME sending'[c].to # {}, sending'[c].msg.type = "frame"
      PROVE  x < sending'[c].msg.body.nonce
  <2>1. CASE sending[c].to # {} /\ sending'[c].msg = sending[c].msg
    BY <1>4, <2>1 DEF Ahead
  <2>2. CASE toRelay[c] # <<>> /\ sending'[c].msg = Head(toRelay[c])
    <3>1. 1 \in DOMAIN toRelay[c] /\ Head(toRelay[c]) = toRelay[c][1]
      BY <1>2, <2>2, TailEntries
    <3> QED BY <1>4, <2>2, <3>1 DEF Ahead
  <2> QED BY <1>4, <2>1, <2>2, TurnMoves DEF Conns
<1> QED BY <1>3, <1>4 DEF Ahead

\* The commands of a phone that are still to be sent on are in their order.
LEMMA NoncesGrowKept ==
  ASSUME TypesInv, UsedOnce, NoncesGrow, [Next]_linkVars
  PROVE  NoncesGrow'
<1> SUFFICES ASSUME NEW c \in Phones
             PROVE  /\ \A n \in DOMAIN toRelay'[c] : toRelay'[c][n].type = "frame" =>
                         \A j \in 1..(n - 1) : toRelay'[c][j].type = "frame" =>
                           toRelay'[c][j].body.nonce < toRelay'[c][n].body.nonce
                    /\ (sending'[c].to # {} /\ sending'[c].msg.type = "frame") =>
                         \A n \in DOMAIN toRelay'[c] : toRelay'[c][n].type = "frame" =>
                           sending'[c].msg.body.nonce < toRelay'[c][n].body.nonce
  BY DEF NoncesGrow
<1>0. commands \in Nat /\ c \in Conns
  BY Numbers DEF Conns
<1>1. /\ toRelay[c] \in Seq(PhoneMessages(c)) /\ DOMAIN toRelay[c] = 1..Len(toRelay[c])
      /\ Len(toRelay[c]) \in Nat
  BY WayMoves, AppendEntries
<1>2. \A n, j \in DOMAIN toRelay[c] :
        (toRelay[c][n].type = "frame" /\ toRelay[c][j].type = "frame" /\ j < n)
          => toRelay[c][j].body.nonce < toRelay[c][n].body.nonce
  <2> SUFFICES ASSUME NEW n \in DOMAIN toRelay[c], NEW j \in DOMAIN toRelay[c],
                      toRelay[c][n].type = "frame", toRelay[c][j].type = "frame", j < n
               PROVE  toRelay[c][j].body.nonce < toRelay[c][n].body.nonce
    OBVIOUS
  <2>1. j \in 1..(n - 1)
    BY <1>1
  <2> QED BY <2>1 DEF NoncesGrow
<1>3. \A n \in DOMAIN toRelay[c] : toRelay[c][n].type = "frame" =>
        toRelay[c][n].body.nonce \in 1..commands
  BY <1>1, CommandFits
<1>4. ASSUME sending[c].to # {}, sending[c].msg.type = "frame"
      PROVE  sending[c].msg.body.nonce \in 1..commands
  <2>1. sending[c].msg \in PhoneMessages(c)
    BY <1>0, <1>4 DEF TypesInv, SendingOK, SaidBy
  <2> QED BY <1>4, <2>1, CommandFits
<1>5. CASE toRelay'[c] = toRelay[c]
  <2>1. \A n \in DOMAIN toRelay'[c] : \A j \in 1..(n - 1) : j \in DOMAIN toRelay[c] /\ j < n
    BY <1>1, <1>5
  <2>2. ASSUME Reads(c), toRelay[c] # <<>> PROVE FALSE
    <3>1. toRelay'[c] = Tail(toRelay[c])
      BY <1>0, <2>2 DEF Reads, TypesInv, ToRelayOK, PerConn
    <3>2. Len(Tail(toRelay[c])) = Len(toRelay[c]) - 1
      BY <1>1, <2>2, TailEntries
    <3>3. Len(toRelay'[c]) = Len(toRelay[c]) - 1
      BY <3>1, <3>2
    <3>4. Len(toRelay'[c]) = Len(toRelay[c])
      BY <1>5
    <3> QED BY <1>1, <3>3, <3>4
  <2>3. sending'[c].to # {} => sending[c].to # {} /\ sending'[c].msg = sending[c].msg
    BY <1>0, <2>2, TurnMoves
  <2> QED BY <1>2, <1>5, <2>1, <2>3 DEF NoncesGrow
<1>6. CASE Reads(c) /\ toRelay[c] # <<>> /\ toRelay'[c] = Tail(toRelay[c])
  <2>1. /\ DOMAIN toRelay'[c] = 1..(Len(toRelay[c]) - 1)
        /\ \A n \in 1..(Len(toRelay[c]) - 1) : toRelay'[c][n] = toRelay[c][n + 1]
        /\ Head(toRelay[c]) = toRelay[c][1] /\ Len(toRelay[c]) # 0
    BY <1>1, <1>6, TailEntries
  <2>2. \A n \in DOMAIN toRelay'[c] : /\ n + 1 \in DOMAIN toRelay[c] /\ 1 \in DOMAIN toRelay[c] /\ 1 < n + 1
                                      /\ \A j \in 1..(n - 1) : /\ j \in DOMAIN toRelay'[c]
                                                               /\ j + 1 \in DOMAIN toRelay[c] /\ j + 1 < n + 1
    BY <1>1, <2>1
  <2>3. \/ sending'[c].to # {} => sending[c].to # {} /\ sending'[c].msg = sending[c].msg
        \/ sending'[c].msg = toRelay[c][1]
    BY <1>0, <2>1, TurnMoves
  <2>4. ASSUME NEW n \in DOMAIN toRelay'[c], toRelay'[c][n].type = "frame",
               NEW j \in 1..(n - 1), toRelay'[c][j].type = "frame"
        PROVE  toRelay'[c][j].body.nonce < toRelay'[c][n].body.nonce
    BY <1>2, <2>1, <2>2, <2>4
  <2>5. ASSUME NEW n \in DOMAIN toRelay'[c], toRelay'[c][n].type = "frame",
               sending'[c].to # {}, sending'[c].msg.type = "frame"
        PROVE  sending'[c].msg.body.nonce < toRelay'[c][n].body.nonce
    <3>1. toRelay'[c][n] = toRelay[c][n + 1] /\ n + 1 \in DOMAIN toRelay[c]
      BY <2>1, <2>2, <2>5
    <3>2. CASE sending[c].to # {} /\ sending'[c].msg = sending[c].msg
      BY <2>5, <3>1, <3>2 DEF NoncesGrow
    <3>3. CASE sending'[c].msg = toRelay[c][1]
      BY <1>2, <2>2, <2>5, <3>1, <3>3
    <3> QED BY <2>3, <2>5, <3>2, <3>3
  <2> QED BY <2>4, <2>5
<1>7. ASSUME NEW d \in Devices, NEW m \in SaidBy(c)', PageSays(d, c, m),
             toRelay'[c] = Append(toRelay[c], m)
      PROVE  /\ \A n \in DOMAIN toRelay'[c] : toRelay'[c][n].type = "frame" =>
                  \A j \in 1..(n - 1) : toRelay'[c][j].type = "frame" =>
                    toRelay'[c][j].body.nonce < toRelay'[c][n].body.nonce
             /\ (sending'[c].to # {} /\ sending'[c].msg.type = "frame") =>
                  \A n \in DOMAIN toRelay'[c] : toRelay'[c][n].type = "frame" =>
                    sending'[c].msg.body.nonce < toRelay'[c][n].body.nonce
  <2>1. /\ DOMAIN toRelay'[c] = 1..(Len(toRelay[c]) + 1) /\ toRelay'[c][Len(toRelay[c]) + 1] = m
        /\ \A i \in 1..Len(toRelay[c]) : toRelay'[c][i] = toRelay[c][i]
    BY <1>1, <1>7
  <2>2. m.type = "frame" => m.body.nonce = commands + 1
    BY <1>7, NextCommand
  <2>3. \A n \in DOMAIN toRelay'[c] : \/ n \in DOMAIN toRelay[c] /\ toRelay'[c][n] = toRelay[c][n]
                                      \/ n = Len(toRelay[c]) + 1 /\ toRelay'[c][n] = m
    BY <1>1, <2>1
  <2>4. ASSUME NEW n \in DOMAIN toRelay'[c], NEW j \in 1..(n - 1)
        PROVE  j \in DOMAIN toRelay[c] /\ j < n /\ toRelay'[c][j] = toRelay[c][j]
    BY <1>1, <2>1, <2>4
  <2>5. ASSUME NEW n \in DOMAIN toRelay'[c], toRelay'[c][n].type = "frame",
               NEW j \in 1..(n - 1), toRelay'[c][j].type = "frame"
        PROVE  toRelay'[c][j].body.nonce < toRelay'[c][n].body.nonce
    <3>1. j \in DOMAIN toRelay[c] /\ j < n /\ toRelay'[c][j] = toRelay[c][j]
      BY <2>4
    <3>2. toRelay[c][j].body.nonce \in 1..commands
      BY <1>3, <2>5, <3>1
    <3>3. CASE n \in DOMAIN toRelay[c] /\ toRelay'[c][n] = toRelay[c][n]
      BY <1>2, <2>5, <3>1, <3>3
    <3>4. CASE toRelay'[c][n] = m
      <4>1. m.body.nonce = commands + 1
        BY <2>2, <2>5, <3>4
      <4>2. toRelay[c][j].body.nonce < commands + 1
        BY <1>0, <3>2
      <4> QED BY <3>1, <3>4, <4>1, <4>2
    <3> QED BY <2>3, <3>3, <3>4
  <2>6. ~(Reads(c) /\ toRelay[c] # <<>>)
    <3>1. ASSUME Reads(c) PROVE toRelay'[c] = Tail(toRelay[c])
      BY <1>0, <3>1 DEF Reads, TypesInv, ToRelayOK, PerConn
    <3>2. toRelay[c] # <<>> => Len(Tail(toRelay[c])) = Len(toRelay[c]) - 1
      BY <1>1, TailEntries
    <3>3. Len(toRelay'[c]) = Len(toRelay[c]) + 1
      BY <1>1, <1>7
    <3>4. ASSUME Reads(c), toRelay[c] # <<>> PROVE Len(toRelay'[c]) = Len(toRelay[c]) - 1
      BY <3>1, <3>2, <3>4
    <3> QED BY <1>1, <3>3, <3>4
  <2>7. sending'[c].to # {} => sending[c].to # {} /\ sending'[c].msg = sending[c].msg
    BY <1>0, <2>6, TurnMoves
  <2>8. ASSUME NEW n \in DOMAIN toRelay'[c], toRelay'[c][n].type = "frame",
               sending'[c].to # {}, sending'[c].msg.type = "frame"
        PROVE  sending'[c].msg.body.nonce < toRelay'[c][n].body.nonce
    <3>1. CASE n \in DOMAIN toRelay[c] /\ toRelay'[c][n] = toRelay[c][n]
      BY <2>7, <2>8, <3>1 DEF NoncesGrow
    <3>2. CASE toRelay'[c][n] = m
      <4>1. m.body.nonce = commands + 1
        BY <2>2, <2>8, <3>2
      <4>2. sending'[c].msg.body.nonce \in 1..commands
        BY <1>4, <2>7, <2>8
      <4>3. sending'[c].msg.body.nonce < commands + 1
        BY <1>0, <4>2
      <4> QED BY <3>2, <4>1, <4>3
    <3> QED BY <2>3, <3>1, <3>2
  <2> QED BY <2>5, <2>8
<1> QED BY <1>5, <1>6, <1>7, WayMoves

\* What the relay has just sent on to the plugin is behind the phone's others.
LEMMA ForwardedBehind ==
  ASSUME TypesInv, UsedOnce, SlotsOK, NoncesGrow, [Next]_linkVars,
         NEW p \in Plugins, NEW e \in Phones, Forward(e, p), sending[e].msg.type = "frame"
  PROVE  /\ sending[e].to # {} /\ sending[e].msg \in PhoneMessages(e)
         /\ \E x \in 1..commands : x = sending[e].msg.body.nonce /\ Ahead(e, x)'
<1>0. e \in Conns /\ sending \in [Conns -> Deliveries] /\ NothingToSend.to = {} /\ commands \in Nat
  BY Numbers DEF TypesInv, RelayInv, HandlersOK, NothingToSend, Conns
<1>1. p \in sending[e].to
  BY DEF Forward
<1>2. sending[e].msg \in PhoneMessages(e)
  BY <1>0, <1>1 DEF TypesInv, SendingOK, SaidBy
<1>3. PICK x \in 1..commands : x = sending[e].msg.body.nonce
  BY <1>2, CommandFits
<1>4. sending'[e].to = {}
  <2>1. sending'[e] = IF sending[e].to = {p} /\ sending[e].failed = {} THEN NothingToSend
                      ELSE [sending[e] EXCEPT !.to = @ \ {p}]
    BY <1>0 DEF Forward
  <2>2. sending[e].to = {p}
    BY <1>1 DEF SlotsOK
  <2>3. sending[e] \in Deliveries
    BY <1>0
  <2> QED BY <1>0, <2>1, <2>2, <2>3 DEF Deliveries
<1>5. ASSUME NEW n \in DOMAIN toRelay'[e], toRelay'[e][n].type = "frame"
      PROVE  x < toRelay'[e][n].body.nonce
  <2>0. ~Reads(e)
    BY <1>1 DEF Reads, Receive, RejectInvalid, Reject, Awaiting, Busy
  <2>1. ASSUME NEW i \in DOMAIN toRelay[e], toRelay'[e][n] = toRelay[e][i]
        PROVE  x < toRelay'[e][n].body.nonce
    BY <1>1, <1>3, <1>5, <2>1 DEF NoncesGrow
  <2>2. CASE toRelay'[e] = toRelay[e]
    BY <1>5, <2>1, <2>2
  <2>3. ASSUME NEW d, NEW m, NEW S, m \in S, PageSays(d, e, m),
               toRelay'[e] = Append(toRelay[e], m)
        PROVE  x < toRelay'[e][n].body.nonce
    <3>1. toRelay[e] \in Seq(PhoneMessages(e))
      BY WayMoves
    <3>2. \/ n \in DOMAIN toRelay[e] /\ toRelay'[e][n] = toRelay[e][n]
          \/ toRelay'[e][n] = m
      BY <1>5, <2>3, <3>1
    <3>3. toRelay'[e][n] = m => x < toRelay'[e][n].body.nonce
      BY <1>0, <1>3, <1>5, <2>3, NextCommand
    <3> QED BY <2>1, <3>2, <3>3
  <2> QED BY <2>0, <2>2, <2>3, WayMoves
<1>6. Ahead(e, x)'
  BY <1>4, <1>5 DEF Ahead
<1> QED BY <1>1, <1>2, <1>3, <1>6

\* The commands that have come for a plugin are in their phones' order, ahead
\* of those still to be sent on.
LEMMA ArrivedGrowKept ==
  ASSUME TypesInv, UsedOnce, SlotsOK, NoncesGrow, ArrivedGrow, [Next]_linkVars
  PROVE  ArrivedGrow'
<1> SUFFICES ASSUME NEW p \in Plugins, NEW n \in DOMAIN outbox'[p], NEW m, m = outbox'[p][n],
                    m.type = "frame"
             PROVE  /\ Ahead(m.body.peer, m.body.nonce)'
                    /\ \A j \in 1..(n - 1) :
                         (outbox'[p][j].type = "frame" /\ outbox'[p][j].body.peer = m.body.peer)
                           => outbox'[p][j].body.nonce < m.body.nonce
  BY DEF ArrivedGrow, Ahead
<1>1. /\ outbox[p] \in Seq(HeardBy(p)) /\ DOMAIN outbox[p] = 1..Len(outbox[p])
      /\ Len(outbox[p]) \in Nat
  BY ArrivalMoves, AppendEntries
<1>2. ASSUME NEW i \in DOMAIN outbox[p], outbox[p][i].type = "frame"
      PROVE  /\ outbox[p][i].body.peer \in Phones /\ outbox[p][i].body.nonce \in 1..commands
             /\ Ahead(outbox[p][i].body.peer, outbox[p][i].body.nonce)
  <2>1. outbox[p][i] \in HeardBy(p)
    BY <1>1
  <2>2. \E f \in Phones, x \in 1..commands : outbox[p][i].body = [peer |-> f, nonce |-> x]
    BY <1>2, <2>1, PluginHears DEF Rejection, Hello, Frame
  <2> QED BY <1>2, <2>2 DEF ArrivedGrow
<1>3. ASSUME NEW i \in DOMAIN outbox[p], m = outbox[p][i]
      PROVE  /\ Ahead(m.body.peer, m.body.nonce)'
             /\ \A j \in 1..(i - 1) : (outbox[p][j].type = "frame" /\ outbox[p][j].body.peer = m.body.peer)
                                        => outbox[p][j].body.nonce < m.body.nonce
  <2>1. PICK f \in Phones, x \in 1..commands : f = m.body.peer /\ x = m.body.nonce /\ Ahead(f, x)
    BY <1>2, <1>3
  <2>2. Ahead(f, x)'
    BY <2>1, AheadStays
  <2> QED BY <1>3, <2>1, <2>2 DEF ArrivedGrow
<1>4. CASE outbox'[p] = outbox[p]
  BY <1>3, <1>4
<1>5. CASE outbox[p] # <<>> /\ outbox'[p] = Tail(outbox[p])
  <2>1. n \in 1..(Len(outbox[p]) - 1) /\ \A i \in 1..(Len(outbox[p]) - 1) : outbox'[p][i] = outbox[p][i + 1]
    BY <1>1, <1>5, TailEntries
  <2>2. n + 1 \in DOMAIN outbox[p] /\ m = outbox[p][n + 1]
    BY <1>1, <2>1
  <2>3. \A j \in 1..(n - 1) : /\ j \in 1..(Len(outbox[p]) - 1)
                              /\ j + 1 \in 1..((n + 1) - 1)
    BY <1>1, <2>1
  <2> QED BY <1>3, <2>1, <2>2, <2>3
<1>6. ASSUME NEW y, NEW S, y \in S, outbox'[p] = Append(outbox[p], y),
             y = Rejection \/ \E e \in Phones : Forward(e, p) /\ y = sending[e].msg
      PROVE  /\ Ahead(m.body.peer, m.body.nonce)'
             /\ \A j \in 1..(n - 1) :
                  (outbox'[p][j].type = "frame" /\ outbox'[p][j].body.peer = m.body.peer)
                    => outbox'[p][j].body.nonce < m.body.nonce
  <2>0. /\ n \in 1..(Len(outbox[p]) + 1) /\ outbox'[p][Len(outbox[p]) + 1] = y
        /\ \A i \in 1..Len(outbox[p]) : outbox'[p][i] = outbox[p][i]
    BY <1>1, <1>6
  <2>1. CASE n \in 1..Len(outbox[p])
    <3>1. n \in DOMAIN outbox[p] /\ m = outbox[p][n] /\ 1..(n - 1) \subseteq 1..Len(outbox[p])
      BY <1>1, <2>0, <2>1
    <3> QED BY <1>3, <2>0, <3>1
  <2>2. CASE n = Len(outbox[p]) + 1
    <3>1. m = y /\ y # Rejection
      BY <2>0, <2>2 DEF Rejection
    <3>2. PICK e \in Phones : Forward(e, p) /\ m = sending[e].msg
      BY <1>6, <3>1
    <3>3. sending[e].to # {} /\ m \in PhoneMessages(e) /\ m.body.peer = e
      BY <3>2, ForwardedBehind, CommandFits
    <3>4. PICK x \in 1..commands : x = m.body.nonce /\ Ahead(e, x)'
      BY <3>2, ForwardedBehind
    <3>5. ASSUME NEW j \in 1..(n - 1), outbox'[p][j].type = "frame", outbox'[p][j].body.peer = e
          PROVE  outbox'[p][j].body.nonce < x
      <4>1. j \in DOMAIN outbox[p] /\ outbox'[p][j] = outbox[p][j]
        BY <1>1, <2>0, <2>2
      <4>2. Ahead(e, outbox[p][j].body.nonce)
        BY <1>2, <3>5, <4>1
      <4> QED BY <3>2, <3>3, <3>4, <4>1, <4>2 DEF Ahead
    <3>6. Ahead(m.body.peer, m.body.nonce)'
      BY <3>3, <3>4
    <3> QED BY <3>3, <3>4, <3>5, <3>6
  <2> QED BY <1>1, <2>0, <2>1, <2>2
<1> QED BY <1>4, <1>5, <1>6, ArrivalMoves

\* A nonce is remembered when its command is taken off the thread's socket.
LEMMA ReplayMoves ==
  ASSUME TypesInv, [Next]_linkVars, NEW k \in Table', NEW y \in NoncesIn(replay'[k])
  PROVE  /\ k \in Table /\ peer'[k] = peer[k]
         /\ \/ y \in NoncesIn(replay[k])
            \/ /\ ThreadReceives /\ socket \in Plugins /\ outbox[socket] # <<>>
               /\ Head(outbox[socket]) = Frame(k, "command", [peer |-> peer[k], nonce |-> y])
<1>0. /\ CodecInv /\ KeptUntilFull /\ replay \in [Keys -> Seq(Nonces)] /\ k \in Keys
  BY DEF TypesInv, CodecOK, CodecInv, CodecTypeOK, Table
<1>1. CASE UNCHANGED <<peer, replay>>
  BY <1>1 DEF Table
<1>2. CASE ThreadReceives
  <2> DEFINE m == Head(outbox[socket])
  <2>1. socket \in Plugins /\ outbox[socket] # <<>>
    BY <1>2 DEF ThreadReceives, TypesInv, ThreadOK
  <2>2. m \in HeardBy(socket)
    BY <2>1, TailEntries DEF TypesInv, OutboxOK, Conns
  <2>3. \/ m.type = "hello" /\ ApplyPhoneHello(m.key, m.body)
        \/ m.type = "frame" /\ DecodeFrame(m.key, m.body.peer, m.body.nonce)
        \/ UNCHANGED <<peer, replay>>
    BY <1>2 DEF ThreadReceives, HandleHello, HandleCommand, codecVars
  <2>4. ASSUME NEW i \in Hellos, NEW f \in Phones, ApplyPhoneHello(i, f)
        PROVE  k \in Table /\ peer'[k] = peer[k] /\ y \in NoncesIn(replay[k])
    <3>1. /\ Table' \subseteq Table \cup {i} /\ \A x \in Table' : x # i => peer'[x] = peer[x]
          /\ replay' = [replay EXCEPT ![i] = <<>>]
      BY <1>0, <2>4, AnswerStep, Numbers, LinkAssumption
    <3>2. k # i
      BY <1>0, <3>1 DEF NoncesIn
    <3> QED BY <1>0, <3>1, <3>2
  <2>5. ASSUME NEW i \in Hellos, NEW f \in Phones, NEW x \in 1..commands, DecodeFrame(i, f, x)
        PROVE  /\ k \in Table /\ peer'[k] = peer[k]
               /\ y \in NoncesIn(replay[k]) \/ (k = i /\ y = x /\ f = peer[k])
    <3>1. /\ replay' = [replay EXCEPT ![i] = Remembered(@, x)] /\ UNCHANGED peer
          /\ peer[i] = f
      BY <2>5 DEF DecodeFrame, DecodeResult
    <3>2. CASE k # i
      BY <1>0, <3>1, <3>2 DEF Table
    <3>3. CASE k = i
      <4>1. replay'[k] = Remembered(replay[k], x)
        BY <1>0, <3>1, <3>3
      <4>2. PICK n \in DOMAIN Remembered(replay[k], x) : y = Remembered(replay[k], x)[n]
        BY <4>1 DEF NoncesIn
      <4>3. PICK s \in Seq(Nonces) : s = replay[k]
        BY <1>0
      <4>4. x \in Nonces
        BY Numbers
      <4>5. CASE Len(s) < CacheSize
        <5>1. n \in DOMAIN Append(s, x) /\ y = Append(s, x)[n]
          BY <4>2, <4>3, <4>5 DEF Remembered
        <5>2. (n \in DOMAIN s /\ y = s[n]) \/ y = x
          BY <5>1
        <5> QED BY <3>1, <3>3, <4>3, <5>2 DEF NoncesIn, Table
      <4>6. CASE ~(Len(s) < CacheSize)
        <5>1. s # <<>>
          BY <4>6, CacheSizeAssumption
        <5>2. n \in DOMAIN Append(Tail(s), x) /\ y = Append(Tail(s), x)[n]
          BY <4>2, <4>3, <4>6 DEF Remembered
        <5>3. PICK t \in Seq(Nonces) : t = Tail(s)
          BY <5>1, TailEntries
        <5>4. (n \in DOMAIN t /\ y = t[n]) \/ y = x
          BY <5>2, <5>3
        <5>5. n \in DOMAIN t => n + 1 \in DOMAIN s /\ t[n] = s[n + 1]
          BY <5>1, <5>3, TailEntries
        <5> QED BY <3>1, <3>3, <4>3, <5>4, <5>5 DEF NoncesIn, Table
      <4> QED BY <4>5, <4>6
    <3> QED BY <3>2, <3>3
  <2>6. \/ m = Rejection
        \/ \E i \in Hellos, f \in Phones : m = Hello(i, f)
        \/ \E i \in Hellos, f \in Phones, x \in 1..commands :
             m = Frame(i, "command", [peer |-> f, nonce |-> x])
    BY <2>1, <2>2, PluginHears
  <2>7. /\ \A i, f : Hello(i, f).type = "hello" /\ Hello(i, f).key = i /\ Hello(i, f).body = f
        /\ Rejection.type = "rejected"
        /\ \A i, f, x : LET c == Frame(i, "command", [peer |-> f, nonce |-> x])
                        IN c.type = "frame" /\ c.key = i /\ c.body.peer = f /\ c.body.nonce = x
    BY DEF Hello, Frame, Rejection
  <2> HIDE DEF m
  <2>8. ASSUME NEW i \in Hellos, NEW f \in Phones, m = Hello(i, f)
        PROVE  k \in Table /\ peer'[k] = peer[k] /\ y \in NoncesIn(replay[k])
    <3>1. ApplyPhoneHello(i, f) \/ UNCHANGED <<peer, replay>>
      BY <2>3, <2>7, <2>8
    <3> QED BY <1>1, <2>4, <3>1 DEF Table
  <2>9. ASSUME NEW i \in Hellos, NEW f \in Phones, NEW x \in 1..commands,
               m = Frame(i, "command", [peer |-> f, nonce |-> x])
        PROVE  /\ k \in Table /\ peer'[k] = peer[k]
               /\ y \in NoncesIn(replay[k]) \/ m = Frame(k, "command", [peer |-> peer[k], nonce |-> y])
    <3>1. m.type = "frame" /\ m.key = i /\ m.body.peer = f /\ m.body.nonce = x
      BY <2>7, <2>9
    <3>2. DecodeFrame(i, f, x) \/ UNCHANGED <<peer, replay>>
      BY <2>3, <3>1
    <3> QED BY <2>5, <2>9, <3>2 DEF Table
  <2>10. m = Rejection => UNCHANGED <<peer, replay>>
    BY <2>3, <2>7
  <2> QED BY <1>1, <1>2, <2>1, <2>6, <2>8, <2>9, <2>10 DEF m
<1>3. ASSUME ThreadNext, ~ThreadReceives PROVE UNCHANGED <<peer, replay>>
  BY <1>3 DEF ThreadNext, ThreadConnects, ThreadGreets, ThreadHearsNothing, ThreadRotates,
     ThreadSendsState, ThreadSendsNothing, ThreadFails, OfficeRefuses, ThreadCloses,
     RotateSendKey, EncodeFrame, codecVars
<1>4. ASSUME NEW d \in Devices, PageNext(d) PROVE UNCHANGED <<peer, replay>>
  BY <1>4 DEF PageNext, PageConnects, PageReceives, PageDerives, PageCommands, PageCloses, codecVars
<1>5. ASSUME RelayNext \/ (\E c \in Conns : Drops(c)) \/ UNCHANGED linkVars
      PROVE  UNCHANGED <<peer, replay>>
  BY <1>5 DEF RelayNext, Reads, Ends, RelayInside, Drops, linkVars, codecVars
<1> QED BY <1>1, <1>2, <1>3, <1>4, <1>5 DEF Next

\* The thread keeps its socket, drops it, or takes a connection nobody has used.
LEMMA SocketMoves ==
  ASSUME TypesInv, [Next]_linkVars
  PROVE  /\ socket' \in {socket, NoConn} \/ (socket' \in Plugins /\ pc[socket'] = "new")
         /\ ThreadReceives => socket' = socket
<1>1. ASSUME ThreadNext
      PROVE  socket' \in {socket, NoConn} \/ (socket' \in Plugins /\ pc[socket'] = "new")
  <2>1. ASSUME NEW c \in Plugins, ThreadConnects(c) PROVE socket' \in Plugins /\ pc[socket'] = "new"
    BY <2>1, FreshConnection DEF ThreadConnects, Conns
  <2> QED BY <1>1, <2>1 DEF ThreadNext, ThreadGreets, ThreadReceives, ThreadHearsNothing,
             ThreadRotates, ThreadSendsState, ThreadSendsNothing, ThreadFails, OfficeRefuses,
             ThreadCloses
<1>2. ASSUME RelayNext \/ \E c \in Conns : Drops(c) PROVE UNCHANGED socket
  BY <1>2 DEF RelayNext, Reads, Ends, RelayInside, Drops, clientVars
<1>3. ASSUME NEW d \in Devices, PageNext(d) PROVE UNCHANGED socket
  BY <1>3 DEF PageNext, PageConnects, PageReceives, PageDerives, PageCommands, PageCloses,
              threadVars
<1>4. ASSUME UNCHANGED linkVars PROVE UNCHANGED socket
  BY <1>4 DEF linkVars, clientVars
<1>5. ThreadReceives => socket' = socket
  BY DEF ThreadReceives
<1> QED BY <1>1, <1>2, <1>3, <1>4, <1>5 DEF Next

\* What has been accepted from a phone is behind all that is still to come.
LEMMA RememberedPastKept ==
  ASSUME TypesInv, UsedOnce, SlotsOK, ArrivedGrow, RememberedPast, [Next]_linkVars
  PROVE  RememberedPast'
<1> SUFFICES ASSUME NEW k \in Table', NEW y \in NoncesIn(replay'[k])
             PROVE  /\ y \in 1..commands'
                    /\ Ahead(peer[k], y)'
                    /\ socket' # NoConn =>
                         \A n \in DOMAIN outbox'[socket'] :
                           (outbox'[socket'][n].type = "frame" /\ outbox'[socket'][n].body.peer = peer'[k])
                             => y < outbox'[socket'][n].body.nonce
  BY DEF RememberedPast, Ahead
<1>1. PICK f \in Phones : f = peer[k] /\ f = peer'[k] /\ k \in Table
  BY ReplayMoves, LinkAssumption DEF Table, TypesInv, CodecOK, CodecInv, CodecTypeOK
<1>2. commands \in Nat /\ commands' \in Nat /\ commands <= commands'
  BY Numbers, CountsKept DEF CountsOK
<1>3. \/ y \in NoncesIn(replay[k])
      \/ /\ ThreadReceives /\ socket \in Plugins /\ outbox[socket] # <<>>
         /\ Head(outbox[socket]) = Frame(k, "command", [peer |-> f, nonce |-> y])
  BY <1>1, ReplayMoves
<1>4. CASE y \in NoncesIn(replay[k])
  <2>1. /\ y \in 1..commands /\ Ahead(f, y)
        /\ socket # NoConn =>
             \A n \in DOMAIN outbox[socket] :
               (outbox[socket][n].type = "frame" /\ outbox[socket][n].body.peer = f)
                 => y < outbox[socket][n].body.nonce
    BY <1>1, <1>4 DEF RememberedPast
  <2>2. Ahead(f, y)'
    BY <2>1, AheadStays
  <2>3. ASSUME socket' # NoConn, NEW n \in DOMAIN outbox'[socket'],
               outbox'[socket'][n].type = "frame", outbox'[socket'][n].body.peer = f
        PROVE  y < outbox'[socket'][n].body.nonce
    <3>1. PICK p \in Plugins : p = socket'
      BY <2>3, SocketMoves DEF TypesInv, ThreadOK
    <3>2. CASE pc[p] = "new"
      <4>1. outbox'[p] = <<>>
        BY <3>2, NothingYet
      <4> QED BY <2>3, <3>1, <4>1
    <3>3. CASE socket = p
      <4>0. outbox[p] \in Seq(HeardBy(p)) /\ p # NoConn
        BY <2>3, <3>1, ArrivalMoves
      <4>1. ASSUME NEW i \in DOMAIN outbox[p], outbox'[p][n] = outbox[p][i]
            PROVE  y < outbox'[p][n].body.nonce
        <5>1. PICK m : m = outbox[p][i]
          OBVIOUS
        <5>2. m.type = "frame" /\ m.body.peer = f
          BY <2>3, <3>1, <4>1, <5>1
        <5>3. y < m.body.nonce
          BY <2>1, <3>3, <4>0, <5>1, <5>2
        <5> QED BY <4>1, <5>1, <5>3
      <4>2. CASE outbox'[p] = outbox[p]
        BY <2>3, <3>1, <4>1, <4>2
      <4>3. CASE outbox[p] # <<>> /\ outbox'[p] = Tail(outbox[p])
        <5>1. n \in 1..(Len(outbox[p]) - 1) /\ DOMAIN outbox[p] = 1..Len(outbox[p]) /\ Len(outbox[p]) \in Nat
          BY <2>3, <3>1, <4>0, <4>3, TailEntries
        <5>2. n + 1 \in DOMAIN outbox[p] /\ outbox'[p][n] = outbox[p][n + 1]
          BY <4>0, <4>3, <5>1, TailEntries
        <5> QED BY <2>3, <3>1, <4>1, <5>1, <5>2
      <4>4. ASSUME NEW m \in HeardBy(p), outbox'[p] = Append(outbox[p], m),
                   m = Rejection \/ \E e \in Phones : Forward(e, p) /\ m = sending[e].msg
            PROVE  y < outbox'[p][n].body.nonce
        <5>1. \/ n \in DOMAIN outbox[p] /\ outbox'[p][n] = outbox[p][n]
              \/ outbox'[p][n] = m
          BY <2>3, <3>1, <4>0, <4>4
        <5>2. ASSUME outbox'[p][n] = m PROVE y < m.body.nonce
          <6>1. m.type = "frame" /\ m.body.peer = f /\ m # Rejection
            BY <2>3, <3>1, <5>2 DEF Rejection
          <6>2. PICK e \in Phones : Forward(e, p) /\ m = sending[e].msg
            BY <4>4, <6>1
          <6>3. sending[e].to # {}
            BY <6>2 DEF Forward
          <6>4. m \in PhoneMessages(e)
            BY <6>2, <6>3 DEF TypesInv, SendingOK, SaidBy, Conns
          <6>5. e = f
            BY <6>1, <6>4, CommandFits
          <6> QED BY <2>1, <6>1, <6>2, <6>3, <6>5 DEF Ahead
        <5> QED BY <4>1, <5>1, <5>2
      <4> QED BY <2>3, <3>1, <4>2, <4>3, <4>4, ArrivalMoves
    <3> QED BY <2>3, <3>1, <3>2, <3>3, SocketMoves
  <2> QED BY <1>1, <1>2, <2>1, <2>2, <2>3 DEF Ahead
<1>5. CASE /\ ThreadReceives /\ socket \in Plugins /\ outbox[socket] # <<>>
           /\ Head(outbox[socket]) = Frame(k, "command", [peer |-> f, nonce |-> y])
  <2>1. PICK p \in Plugins : p = socket /\ socket' = p /\ p # NoConn
    BY <1>5, SocketMoves, RolesAssumption DEF Conns
  <2>2. PICK m : m = Frame(k, "command", [peer |-> f, nonce |-> y])
    OBVIOUS
  <2>3. m.type = "frame" /\ m.body.peer = f /\ m.body.nonce = y
    BY <2>2 DEF Frame
  <2>4. /\ outbox[p] \in Seq(HeardBy(p)) /\ 1 \in DOMAIN outbox[p] /\ outbox[p][1] = m
        /\ m \in HeardBy(p) /\ DOMAIN outbox[p] = 1..Len(outbox[p]) /\ Len(outbox[p]) \in Nat
    <3>1. outbox[p] \in Seq(HeardBy(p)) /\ outbox[p] # <<>> /\ Head(outbox[p]) = m
      BY <1>5, <2>1, <2>2, ArrivalMoves
    <3> QED BY <3>1, TailEntries
  <2>5. y \in 1..commands
    BY <2>3, <2>4, PluginHears DEF Rejection, Hello, Frame
  <2>6. Ahead(f, y)
    BY <2>3, <2>4 DEF ArrivedGrow
  <2>7. Ahead(f, y)'
    BY <2>5, <2>6, AheadStays
  <2>8. outbox'[p] = Tail(outbox[p]) /\ outbox[p] # <<>>
    BY <1>5, <2>1 DEF ThreadReceives, TypesInv, OutboxOK, PerConn, Conns
  <2>9. ASSUME NEW n \in DOMAIN outbox'[p], outbox'[p][n].type = "frame",
               outbox'[p][n].body.peer = f
        PROVE  y < outbox'[p][n].body.nonce
    <3>1. n \in 1..(Len(outbox[p]) - 1)
      BY <2>4, <2>8, <2>9, TailEntries
    <3>2. n + 1 \in DOMAIN outbox[p] /\ 1 \in 1..((n + 1) - 1) /\ outbox'[p][n] = outbox[p][n + 1]
      BY <2>4, <2>8, <3>1, TailEntries
    <3> QED BY <2>3, <2>4, <2>9, <3>2 DEF ArrivedGrow
  <2> QED BY <1>1, <1>2, <2>1, <2>5, <2>7, <2>9 DEF Ahead
<1> QED BY <1>3, <1>4, <1>5

-----------------------------------------------------------------------------
(* Commands can be read.                                                   *)

\* At first no command has been sent and no hello answered.
LEMMA LinkInitInv == Init => LinkInv
<1> SUFFICES ASSUME Init PROVE LinkInv
  OBVIOUS
<1> USE DEF Conns
<1>1. AgreeInv
  BY AgreeInit
<1>2. /\ \A c \in Conns : /\ pc[c] = "new" /\ outbox[c] = <<>> /\ toRelay[c] = <<>>
                          /\ sending[c].to = {} /\ sending[c].failed = {}
      /\ \A o \in Objects : session[o].plugin = NoConn /\ session[o].hello = NoHello
      /\ socket = NoConn /\ \A d \in Devices : page[d] = NoConn
  BY DEF Init, RelayInit, NothingToSend, NewSession
<1>3. offered = 0 /\ Table = {}
  BY DEF Init, CodecInit, Table
<1>4. DOMAIN <<>> = {}
  OBVIOUS
<1>5. SlotsOK
  BY <1>2 DEF SlotsOK
<1>6. OnlyPlugin
  BY <1>2, <1>3 DEF OnlyPlugin
<1>7. OrderOK
  BY <1>2, <1>4 DEF OrderOK, KeysFollow, CommandsFollow, SendingFollows, ArrivalsFollow
<1>8. NoncesOK
  BY <1>2, <1>3, <1>4 DEF NoncesOK, NoncesGrow, ArrivedGrow, RememberedPast
<1> QED BY <1>1, <1>5, <1>6, <1>7, <1>8 DEF AgreeInv, LinkInv

\* LinkInv is an invariant.
THEOREM LinkInductive == Spec => []LinkInv
<1>1. LinkInv /\ [Next]_linkVars => LinkInv'
  BY TypesKept, UsedOnceKept, AnswersKept, SlotsKept, OnlyPluginKept, OrderKept,
     NoncesGrowKept, ArrivedGrowKept, RememberedPastKept DEF LinkInv, NoncesOK
<1> QED BY <1>1, LinkInitInv, PTL DEF Spec

\* Every command that has come for the thread can be read, or will be once the
\* answer before it has been.
LEMMA LinkInvReadable == LinkInv => CommandsReadable
<1> SUFFICES ASSUME LinkInv, socket # NoConn, NEW n \in DOMAIN outbox[socket],
                    NEW m, m = outbox[socket][n], m.type = "frame",
                    peer[m.key] \in {NoPeer, m.body.peer}
             PROVE  \/ DecodeResult(m.key, m.body.peer, m.body.nonce) = "accepted"
                    \/ \E j \in 1..(n - 1) :
                         /\ outbox[socket][j].type = "hello" /\ outbox[socket][j].key = m.key
                         /\ outbox[socket][j].body = m.body.peer
                    \/ OutOfReach(m.key)
  BY DEF CommandsReadable
<1>1. TypesInv /\ OrderOK /\ RememberedPast
  BY DEF LinkInv, NoncesOK
<1>2. socket \in Plugins /\ m \in HeardBy(socket)
  <2>1. socket \in Plugins
    BY <1>1 DEF TypesInv, ThreadOK
  <2>2. outbox[socket] \in Seq(HeardBy(socket))
    BY <1>1, <2>1 DEF TypesInv, OutboxOK, Conns
  <2> QED BY <2>1, <2>2
<1>3. m.key \in Hellos /\ m.body.peer \in Phones
  BY <1>1, <1>2, PluginHears DEF Rejection, Hello, Frame
<1>4. CASE m.key \in pending /\ ~FirstLink
  BY <1>4 DEF OutOfReach, FirstLink
<1>5. CASE m.key \in pending /\ FirstLink
  <2>1. PICK j \in 1..(n - 1) : outbox[socket][j] = Hello(m.key, m.body.peer)
    BY <1>1, <1>5 DEF OrderOK, ArrivalsFollow
  <2> QED BY <2>1 DEF Hello
<1>6. CASE m.key \notin pending /\ m.key \notin Table
  <2>1. KeptUntilFull /\ Len(order) <= MaxKeySets /\ Len(order) \in Nat
    BY <1>1 DEF TypesInv, CodecOK, CodecInv, CodecTypeOK, KeyTableConsistent
  <2>2. Len(order) = MaxKeySets
    BY <1>3, <1>6, <2>1, MaxKeySetsAssumption DEF KeptUntilFull, Hellos
  <2> QED BY <1>6, <2>2 DEF OutOfReach
<1>7. CASE m.key \in Table
  <2>1. peer[m.key] = m.body.peer
    BY <1>7 DEF Table
  <2>2. ASSUME m.body.nonce \in NoncesIn(replay[m.key]) PROVE FALSE
    <3>1. m.body.nonce \in 1..commands /\ m.body.nonce < m.body.nonce
      BY <1>1, <1>7, <2>1, <2>2 DEF RememberedPast
    <3>2. commands \in Nat
      BY <1>1, Numbers
    <3> QED BY <3>1, <3>2
  <2> QED BY <1>7, <2>1, <2>2 DEF DecodeResult
<1> QED BY <1>4, <1>5, <1>6, <1>7

(***************************************************************************)
(* A command that reaches the plugin decrypts there, or will once the      *)
(* answer before it has been read, however the relay's sends, the pages'   *)
(* derivations, the rotations and the reconnects interleave: unless        *)
(* another page's answer was first, an earlier connection of the thread    *)
(* may have taken the answer with it, or newer keys have taken the key's   *)
(* place (relay_client.py 421-431, protocol.py 357-422,                    *)
(* app.js 1447-1461, 1487-1513).                                           *)
(***************************************************************************)
THEOREM CommandsAreReadable == Spec => []CommandsReadable
  BY LinkInductive, LinkInvReadable, PTL
=============================================================================
