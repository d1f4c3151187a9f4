------------------------ MODULE DirectSessionProofs ------------------------
(***************************************************************************)
(* Proofs about DirectSession for any number of pages, hellos, key pairs a *)
(* page makes for one hello, commands and failures.                        *)
(***************************************************************************)
EXTENDS DirectSession, SecureCodecProofs

-----------------------------------------------------------------------------
(* The inductive invariant.                                                *)

Thens == [what : {"connect", "stream", "state", "image"}, key : 0..MaxHellos,
          eph : Ephemerals \cup {NoPeer}]
Derivations == [key : Keys, next : Thens]
Frames == [nonce : Nonces, key : Keys, eph : Ephemerals]
Posts == [page : Pages, key : Keys, eph : Ephemerals, next : Thens]
Commands == [page : Pages, nonce : Nonces, named : 0..MaxHellos, key : Keys, eph : Ephemerals]
StreamEvents == [type : {"hello", "state", "open", "end"}, key : 0..MaxHellos,
                 eph : Ephemerals \cup {NoPeer}]

PageTypes ==
  /\ phase \in [Pages -> {"unloaded", "connecting", "live", "reconnecting", "offline"}]
  /\ wasLive \in [Pages -> BOOLEAN]
  /\ keyring \in [Pages -> [Keys -> Ephemerals \cup {NoPeer}]]
  /\ \A p \in Pages, k \in Keys : keyring[p][k] # NoPeer => keyring[p][k][1] = p
  /\ using \in [Pages -> 0..MaxHellos]
  /\ \A p \in Pages : using[p] # 0 => keyring[p][using[p]] # NoPeer
  /\ deriving \in [Pages -> SUBSET Derivations]
  /\ encrypting \in [Pages -> SUBSET Frames]
  /\ asked \in [Pages -> SUBSET {"handshake", "image", "state"}]

StreamTypes ==
  /\ stream \in [Pages -> {"none", "open"}]
  /\ handler \in [Pages -> {"none", "start", "running"}]
  /\ events \in [Pages -> Seq(StreamEvents)]
  /\ orphans \in 0..MaxOrphans
  /\ \A p \in Pages : (handler[p] # "none" => stream[p] = "open")
                      /\ (stream[p] = "none" => events[p] = <<>>)

SentTypes ==
  /\ posts \subseteq Posts
  /\ commands \subseteq Commands
  /\ tapped \subseteq Nonces

\* The hellos that pages derive keys for have been made.
HellosMade ==
  /\ offered # 0
  /\ \A p \in Pages : \A d \in deriving[p] : d.key <= offered
  /\ \A p \in Pages : \A i \in DOMAIN events[p] :
       events[p][i].type = "hello" => events[p][i].key \in 1..offered
  /\ \A p \in Pages, k \in Keys : keyring[p][k] # NoPeer => k <= offered

\* Ephemeral e is one its page has made for key id k.
Known(k, e) == e \in Ephemerals /\ e[2] <= Made(e[1], k)

\* So is every ephemeral something is, or will be, encrypted with.
EphemeralsKnown ==
  /\ \A k \in Table : Known(k, peer[k])
  /\ \A m \in posts : Known(m.key, m.eph) /\ m.eph[1] = m.page
  /\ \A p \in Pages : \A i \in DOMAIN events[p] :
       events[p][i].type = "state" => /\ events[p][i].key \in Keys
                                      /\ Known(events[p][i].key, events[p][i].eph)
  /\ \A p \in Pages : \A c \in encrypting[p] : Known(c.key, c.eph) /\ c.eph[1] = p
  /\ \A c \in commands : Known(c.key, c.eph) /\ c.eph[1] = c.page

\* A command on its way is the only one with its nonce, and was not accepted yet.
NoncesFresh ==
  /\ \A p \in Pages : \A c \in encrypting[p] :
       /\ c.nonce \in tapped
       /\ \A k \in Keys : c.nonce \notin NoncesIn(replay[k])
       /\ \A q \in Pages : \A d \in encrypting[q] : c.nonce = d.nonce => p = q /\ c = d
       /\ \A d \in commands : c.nonce # d.nonce
  /\ \A c \in commands :
       /\ c.nonce \in tapped
       /\ \A k \in Keys : c.nonce \notin NoncesIn(replay[k])
       /\ \A d \in commands : c.nonce = d.nonce => c = d
  /\ \A k \in Keys : NoncesIn(replay[k]) \subseteq tapped

DirectInv ==
  /\ CodecInv /\ KeptUntilFull
  /\ PageTypes /\ StreamTypes /\ SentTypes
  /\ HellosMade /\ EphemeralsKnown /\ NoncesFresh

\* The first states have the invariant.
LEMMA DirectInitInv == DirectInit => DirectInv
<1> SUFFICES ASSUME DirectInit PROVE DirectInv
  OBVIOUS
<1> USE DirectAssumption, MaxHellosAssumption, NoPeerAssumption DEF DirectInit
<1>0. peer = [k \in Keys |-> NoPeer] /\ Table = {} /\ 1 \in Keys
  BY DEF NoKeys, Table, Keys
<1>1. CodecInv
  BY <1>0, MaxKeySetsAssumption, RotationAssumption
  DEF CodecInv, CodecTypeOK, KeyTableConsistent, OfferedOnce, Ready
<1>2. KeptUntilFull
  BY DEF KeptUntilFull
<1>3. PageTypes
  BY DEF PageTypes, NoKeys, Derivations, Frames
<1>4. StreamTypes /\ SentTypes
  BY DEF StreamTypes, SentTypes
<1>5. HellosMade
  BY DEF HellosMade, NoKeys
<1>6. EphemeralsKnown
  BY <1>0 DEF EphemeralsKnown
<1>7. NoncesFresh
  BY DEF NoncesFresh, NoncesIn
<1> QED BY <1>1, <1>2, <1>3, <1>4, <1>5, <1>6, <1>7 DEF DirectInv

-----------------------------------------------------------------------------
(* What a step does to the codec.                                          *)

\* A page has made between none and MaxDerivations keys for a key id.
LEMMA MadeType ==
  ASSUME PageTypes, NEW p \in Pages, NEW k \in Keys
  PROVE  /\ Made(p, k) \in 0..MaxDerivations
         /\ keyring[p][k] # NoPeer =>
              keyring[p][k] = <<p, Made(p, k)>> /\ Made(p, k) \in 1..MaxDerivations
         /\ Made(p, k) = 0 <=> keyring[p][k] = NoPeer
<1>1. keyring[p][k] \in Ephemerals \cup {NoPeer}
  BY DEF PageTypes
<1>2. CASE keyring[p][k] = NoPeer
  BY <1>2, DirectAssumption DEF Made
<1>3. CASE keyring[p][k] # NoPeer
  <2>1. PICK j \in 1..MaxDerivations : keyring[p][k] = <<p, j>>
    BY <1>1, <1>3, DirectAssumption DEF PageTypes
  <2>2. Made(p, k) = j
    BY <1>3, <2>1 DEF Made
  <2> QED BY <1>3, <2>1, <2>2, DirectAssumption
<1> QED BY <1>2, <1>3

\* A response offers a further hello, or the last one again.
LEMMA RespondStep ==
  ASSUME CodecInv, KeptUntilFull, Respond
  PROVE  /\ CodecInv' /\ KeptUntilFull'
         /\ UNCHANGED <<peer, order, active, replay>>
         /\ offered <= offered' /\ Table' = Table
         /\ active \in Table
         /\ Rotates => NextHello \in 1..offered' /\ NextHello \in Keys
<1> USE MaxHellosAssumption, RotationAssumption, DirectAssumption
<1>0. sent' \in Nat
  BY DEF Respond, CountOfNextFrame, CodecInv, CodecTypeOK
<1>1. /\ UNCHANGED <<peer, order, active, replay>> /\ Table' = Table
      /\ active # 0 /\ active \in Table
  BY DEF Respond, Table, CodecInv, KeyTableConsistent, Ready
<1>2. CASE Rotates
  <2>1. /\ NextHello \in 1..MaxHellos /\ offered <= NextHello
        /\ offered' = NextHello /\ pending' = pending \cup {NextHello}
        /\ (NextHello = offered + 1) \/ (NextHello = offered /\ NextHello \in pending)
    BY <1>2 DEF Respond, Rotates, LastIsLost, NextHello, CodecInv, CodecTypeOK
  <2>2. order' \in Seq(1..offered')
    BY <1>1, <2>1 DEF CodecInv, CodecTypeOK
  <2>3. NextHello \notin Table
    BY <2>1, <1>1 DEF CodecInv, OfferedOnce, CodecTypeOK, KeyTableConsistent
  <2>4. CodecTypeOK'
    BY <1>0, <1>1, <2>1, <2>2 DEF CodecInv, CodecTypeOK
  <2>5. KeyTableConsistent' /\ OfferedOnce'
    BY <1>1, <2>1, <2>3 DEF CodecInv, KeyTableConsistent, OfferedOnce, Ready
  <2>6. KeptUntilFull'
    BY <1>1, <2>1 DEF KeptUntilFull, CodecInv, CodecTypeOK
  <2> QED BY <1>1, <2>1, <2>4, <2>5, <2>6 DEF CodecInv, Keys
<1>3. CASE ~Rotates
  <2>1. UNCHANGED <<offered, pending>>
    BY <1>3 DEF Respond
  <2> QED BY <1>0, <1>1, <1>3, <2>1
          DEF CodecInv, CodecTypeOK, KeyTableConsistent, OfferedOnce, KeptUntilFull, Ready
<1> QED BY <1>2, <1>3

\* A step uses the codec in one of three ways, or not at all.
LEMMA CodecMoves ==
  ASSUME [DirectNext]_directVars
  PROVE  \/ UNCHANGED codecVars
         \/ Respond
         \/ \E m \in posts : ApplyPhoneHello(m.key, m.eph)
         \/ \E c \in commands : ServeCommand(c) /\ DecodeFrame(c.key, c.eph, c.nonce)
<1>1. CASE UNCHANGED directVars
  BY <1>1 DEF directVars
<1>2. ASSUME NEW p \in Pages,
             \/ Load(p) \/ GetHandshake(p) \/ Retry(p)
             \/ StreamStarts(p) \/ StreamFails(p) \/ StreamDrops(p)
             \/ PageReceives(p)
             \/ \E d \in deriving[p] : Derive(p, d)
             \/ \E what \in {"image", "state"} : RefuseFetch(p, what)
             \/ \E n \in Nonces : Tap(p, n)
             \/ \E c \in encrypting[p] : PostCommand(p, c)
      PROVE  UNCHANGED codecVars
  BY <1>2 DEF Load, GetHandshake, Retry, StreamStarts, StreamFails, StreamDrops, PageReceives,
              Derive, RefuseFetch, Tap, PostCommand
<1>3. ASSUME NEW p \in Pages,
             StreamWrites(p) \/ \E what \in {"image", "state"} : ServeFetch(p, what)
      PROVE  Respond
  BY <1>3 DEF StreamWrites, ServeFetch
<1>4. ASSUME NEW m \in posts, PostHandshake(m) \/ PostLost(m)
      PROVE  UNCHANGED codecVars \/ ApplyPhoneHello(m.key, m.eph)
  BY <1>4 DEF PostHandshake, PostLost
<1>5. ASSUME NEW c \in commands, ServeCommand(c)
      PROVE  UNCHANGED codecVars \/ DecodeFrame(c.key, c.eph, c.nonce)
  BY <1>5 DEF ServeCommand
<1>6. ASSUME OrphanEnds PROVE Respond \/ UNCHANGED codecVars
  BY <1>6 DEF OrphanEnds
<1> QED BY <1>1, <1>2, <1>3, <1>4, <1>5, <1>6 DEF DirectNext

\* Whatever a step does, it leaves the codec in order and takes no hello back,
\* and a key set it stores is the one of an answer that had arrived.
LEMMA CodecKept ==
  ASSUME DirectInv, [DirectNext]_directVars
  PROVE  /\ CodecInv' /\ KeptUntilFull' /\ offered <= offered'
         /\ \A k \in Table' :
              \/ k \in Table /\ peer'[k] = peer[k]
              \/ \E m \in posts : m.key = k /\ m.eph = peer'[k]
<1> DEFINE Goal == /\ CodecInv' /\ KeptUntilFull' /\ offered <= offered'
                   /\ \A k \in Table' :
                        \/ k \in Table /\ peer'[k] = peer[k]
                        \/ \E m \in posts : m.key = k /\ m.eph = peer'[k]
<1> USE DEF DirectInv
<1>0. offered <= offered
  BY DEF CodecInv, CodecTypeOK
<1>1. ASSUME UNCHANGED codecVars PROVE Goal
  <2>1. CodecInv'
    BY <1>1, CodecStep
  <2> QED BY <1>0, <1>1, <2>1 DEF codecVars, KeptUntilFull, Table
<1>2. ASSUME Respond PROVE Goal
  BY <1>2, RespondStep
<1>3. ASSUME NEW m \in posts, ApplyPhoneHello(m.key, m.eph) PROVE Goal
  <2>1. m.key \in Keys /\ m.eph \in Ephemerals
    BY DEF SentTypes, Posts
  <2>2. /\ CodecInv' /\ KeptUntilFull'
        /\ offered' = offered /\ Table' \subseteq Table \cup {m.key}
        /\ peer'[m.key] = m.eph
        /\ \A x \in Table' : x # m.key => peer'[x] = peer[x]
    BY <1>3, <2>1, AnswerStep
  <2> QED BY <1>0, <2>2
<1>4. ASSUME NEW c \in commands, DecodeFrame(c.key, c.eph, c.nonce) PROVE Goal
  <2>1. c.key \in Keys /\ c.eph \in Ephemerals /\ c.nonce \in Nonces
    BY DEF SentTypes, Commands
  <2>2. CodecInv'
    BY <1>4, <2>1, CodecStep DEF CodecNext
  <2> QED BY <1>0, <1>4, <2>2 DEF DecodeFrame, KeptUntilFull, Table
<1> HIDE DEF Goal
<1>5. Goal
  BY <1>1, <1>2, <1>3, <1>4, CodecMoves
<1> QED BY <1>5 DEF Goal

-----------------------------------------------------------------------------
(* The pages and their streams.                                            *)

\* Reading a frame leaves the page's phase and requests well typed.
LEMMA ReadsTypes ==
  ASSUME PageTypes, NEW p \in Pages, NEW what, NEW k, NEW e,
         NEW rest \in SUBSET {"handshake", "image", "state"}, Reads(p, what, k, e, rest)
  PROVE  /\ phase' \in [Pages -> {"unloaded", "connecting", "live", "reconnecting", "offline"}]
         /\ wasLive' \in [Pages -> BOOLEAN]
         /\ asked' \in [Pages -> SUBSET {"handshake", "image", "state"}]
<1> DEFINE R == {"handshake", "image", "state"}
<1>1. /\ phase \in [Pages -> {"unloaded", "connecting", "live", "reconnecting", "offline"}]
      /\ wasLive \in [Pages -> BOOLEAN] /\ asked \in [Pages -> SUBSET R]
  BY DEF PageTypes
<1>2. PICK r \in SUBSET R : asked' = [asked EXCEPT ![p] = r]
  <2>1. \A more \in SUBSET {"image"} : rest \cup more \in SUBSET R
    OBVIOUS
  <2> QED BY <2>1 DEF Reads
<1>3. GoesLive(p) \/ GoesOffline(p) \/ UNCHANGED <<phase, wasLive>>
  BY DEF Reads
<1> HIDE DEF R
<1>4. asked' \in [Pages -> SUBSET R]
  BY <1>1, <1>2
<1>5. /\ phase' \in [Pages -> {"unloaded", "connecting", "live", "reconnecting", "offline"}]
      /\ wasLive' \in [Pages -> BOOLEAN]
  BY <1>1, <1>3 DEF GoesLive, GoesOffline, Becomes
<1> QED BY <1>4, <1>5 DEF R

\* So does what the page goes on with once its answer is accepted.
LEMMA GoesTypes ==
  ASSUME PageTypes, NEW p \in Pages, NEW next, Goes(p, next)
  PROVE  /\ phase' \in [Pages -> {"unloaded", "connecting", "live", "reconnecting", "offline"}]
         /\ wasLive' \in [Pages -> BOOLEAN]
         /\ asked' \in [Pages -> SUBSET {"handshake", "image", "state"}]
<1>1. CASE next.what = "connect" /\ UNCHANGED <<phase, wasLive, asked>>
  BY <1>1 DEF PageTypes
<1>2. CASE /\ wasLive' = [wasLive EXCEPT ![p] = TRUE]
           /\ Becomes(p, IF phase[p] = "offline" THEN "offline" ELSE "live")
           /\ UNCHANGED asked
  BY <1>2 DEF PageTypes, Becomes
<1>3. CASE Reads(p, next.what, next.key, next.eph, asked[p])
  <2>1. asked[p] \in SUBSET {"handshake", "image", "state"}
    BY DEF PageTypes
  <2> QED BY <1>3, <2>1, ReadsTypes
<1> QED BY <1>1, <1>2, <1>3 DEF Goes

\* The phase, requests and keys of a page stay well typed.
LEMMA PageTypesKept ==
  ASSUME DirectInv, [DirectNext]_directVars
  PROVE  PageTypes'
<1> USE DEF DirectInv
<1>1. CASE UNCHANGED pageVars
  BY <1>1 DEF pageVars, PageTypes
<1>2. ASSUME NEW p \in Pages, Load(p) PROVE PageTypes'
  BY <1>2 DEF Load, PageTypes, Becomes
<1>3. ASSUME NEW p \in Pages, GetHandshake(p) PROVE PageTypes'
  <2>1. offered \in Keys
    BY DEF CodecInv, CodecTypeOK, HellosMade, Keys
  <2>2. [key |-> offered, next |-> Connect] \in Derivations
    BY <2>1, MaxHellosAssumption DEF Derivations, Connect, Then, Thens
  <2> QED BY <1>3, <2>2 DEF GetHandshake, PageTypes
<1>4. ASSUME NEW p \in Pages, NEW d \in deriving[p], Derive(p, d) PROVE PageTypes'
  <2>1. d \in Derivations /\ d.key \in Keys /\ d.key \in 0..MaxHellos /\ d.key # 0
    BY MaxHellosAssumption DEF PageTypes, Derivations, Keys
  <2>2. PICK j \in 1..MaxDerivations : keyring' = [keyring EXCEPT ![p][d.key] = <<p, j>>]
    <3>1. Made(p, d.key) + 1 \in 1..MaxDerivations
      BY <1>4, <2>1, MadeType, DirectAssumption DEF Derive
    <3>2. keyring' = [keyring EXCEPT ![p][d.key] = <<p, Made(p, d.key) + 1>>]
      BY <1>4 DEF Derive
    <3> QED BY <3>1, <3>2
  <2>3. <<p, j>> \in Ephemerals /\ <<p, j>> # NoPeer /\ <<p, j>>[1] = p
    BY DirectAssumption, NoPeerAssumption
  <2>4. /\ using' = [using EXCEPT ![p] = d.key]
        /\ deriving' = [deriving EXCEPT ![p] = @ \ {d}]
        /\ UNCHANGED <<phase, wasLive, encrypting, asked>>
    BY <1>4 DEF Derive
  <2>5. /\ keyring' \in [Pages -> [Keys -> Ephemerals \cup {NoPeer}]]
        /\ \A q \in Pages, k \in Keys :
             keyring'[q][k] = IF q = p /\ k = d.key THEN <<p, j>> ELSE keyring[q][k]
    BY <2>1, <2>2, <2>3 DEF PageTypes
  <2>6. \A q \in Pages, k \in Keys : keyring'[q][k] # NoPeer => keyring'[q][k][1] = q
    BY <2>3, <2>5 DEF PageTypes
  <2>7. \A q \in Pages : using'[q] # 0 => keyring'[q][using'[q]] # NoPeer
    <3> SUFFICES ASSUME NEW q \in Pages, using'[q] # 0 PROVE keyring'[q][using'[q]] # NoPeer
      OBVIOUS
    <3>1. using'[q] \in Keys /\ (q # p => using'[q] = using[q]) /\ (q = p => using'[q] = d.key)
      BY <2>1, <2>4, MaxHellosAssumption DEF PageTypes, Keys
    <3> QED BY <2>3, <2>5, <3>1 DEF PageTypes
  <2> QED BY <2>1, <2>4, <2>5, <2>6, <2>7 DEF PageTypes
<1>5. ASSUME NEW m \in posts, PostHandshake(m) PROVE PageTypes'
  <2>1. m.page \in Pages
    BY DEF SentTypes, Posts
  <2>2. CASE Goes(m.page, m.next)
    BY <1>5, <2>1, <2>2, GoesTypes DEF PostHandshake, PageTypes
  <2>3. CASE GoesOffline(m.page) /\ UNCHANGED asked
    BY <1>5, <2>1, <2>3 DEF PostHandshake, PageTypes, GoesOffline, Becomes
  <2> QED BY <1>5, <2>2, <2>3 DEF PostHandshake
<1>6. ASSUME NEW m \in posts, PostLost(m) PROVE PageTypes'
  <2>1. m.page \in Pages
    BY DEF SentTypes, Posts
  <2> QED BY <1>6, <2>1 DEF PostLost, PageTypes, GoesOffline, Becomes
<1>7. ASSUME NEW p \in Pages, Retry(p) PROVE PageTypes'
  BY <1>7 DEF Retry, PageTypes, Becomes
<1>8. ASSUME NEW p \in Pages, StreamDrops(p) PROVE PageTypes'
  BY <1>8 DEF StreamDrops, PageTypes, GoesOffline, Becomes
<1>9. ASSUME NEW p \in Pages, PageReceives(p) PROVE PageTypes'
  <2> DEFINE m == Head(events[p])
  <2>1. m \in StreamEvents /\ (m.type = "hello" => m.key \in Keys)
    <3>1. events[p] \in Seq(StreamEvents) /\ events[p] # <<>>
      BY <1>9 DEF PageReceives, StreamTypes
    <3>2. m \in StreamEvents /\ m = events[p][1] /\ 1 \in DOMAIN events[p]
      BY <3>1
    <3>3. m.type = "hello" => m.key \in 1..offered
      BY <3>2 DEF HellosMade
    <3>4. 1..offered \subseteq Keys
      BY MaxHellosAssumption DEF CodecInv, CodecTypeOK, Keys
    <3> QED BY <3>2, <3>3, <3>4
  <2>2. UNCHANGED <<keyring, using, encrypting>>
    BY <1>9 DEF PageReceives
  <2>3. CASE m.type = "open"
    BY <1>9, <2>2, <2>3, SMTT(30) DEF PageReceives, PageTypes, Becomes
  <2>4. CASE m.type = "hello"
    <3>1. [key |-> m.key, next |-> Continue] \in Derivations
      BY <2>1, <2>4, MaxHellosAssumption DEF Derivations, Continue, Then, Thens
    <3>2. /\ deriving' = [deriving EXCEPT ![p] = @ \cup {[key |-> m.key, next |-> Continue]}]
          /\ UNCHANGED <<phase, wasLive, asked>>
      BY <1>9, <2>4 DEF PageReceives
    <3> HIDE DEF m
    <3> QED BY <2>2, <3>1, <3>2 DEF PageTypes
  <2>5. CASE m.type = "state"
    <3>1. /\ UNCHANGED deriving
          /\ \/ Reads(p, "state", m.key, m.eph, asked[p])
             \/ UNCHANGED <<phase, wasLive, asked>>
      BY <1>9, <2>5 DEF PageReceives
    <3>2. asked[p] \in SUBSET {"handshake", "image", "state"}
      BY DEF PageTypes
    <3> HIDE DEF m
    <3>3. CASE Reads(p, "state", m.key, m.eph, asked[p])
      <4>1. /\ phase' \in [Pages -> {"unloaded", "connecting", "live", "reconnecting", "offline"}]
            /\ wasLive' \in [Pages -> BOOLEAN]
            /\ asked' \in [Pages -> SUBSET {"handshake", "image", "state"}]
        BY <3>2, <3>3, ReadsTypes
      <4>2. UNCHANGED deriving
        BY <3>1
      <4> QED BY <2>2, <4>1, <4>2 DEF PageTypes
    <3>4. CASE UNCHANGED <<phase, wasLive, asked>>
      BY <2>2, <3>1, <3>4 DEF PageTypes
    <3> QED BY <3>1, <3>3, <3>4
  <2>6. CASE m.type = "end"
    <3>1. GoesOffline(p) /\ UNCHANGED <<deriving, asked>>
      BY <1>9, <2>6 DEF PageReceives
    <3> HIDE DEF m
    <3> QED BY <2>2, <3>1 DEF PageTypes, GoesOffline, Becomes
  <2> QED BY <2>1, <2>3, <2>4, <2>5, <2>6 DEF StreamEvents
<1>10. ASSUME NEW p \in Pages, NEW what \in {"image", "state"}, ServeFetch(p, what)
       PROVE  PageTypes'
  <2>1. UNCHANGED <<keyring, using, encrypting>>
    BY <1>10 DEF ServeFetch
  <2>2. CASE Rotates
    <3>1. active \in Table /\ NextHello \in Keys
      BY <1>10, <2>2, RespondStep DEF ServeFetch
    <3>2. [key |-> NextHello, next |-> Then(what, active, peer[active])] \in Derivations
      BY <3>1, MaxHellosAssumption DEF Derivations, Then, Thens, Table, Keys, CodecInv, CodecTypeOK
    <3>3. /\ deriving' = [deriving EXCEPT ![p] = @ \cup
                 {[key |-> NextHello, next |-> Then(what, active, peer[active])]}]
          /\ asked' = [asked EXCEPT ![p] = @ \ {what}]
          /\ UNCHANGED <<phase, wasLive>>
      BY <1>10, <2>2 DEF ServeFetch
    <3> QED BY <2>1, <3>2, <3>3 DEF PageTypes
  <2>3. CASE ~Rotates
    <3>1. asked[p] \ {what} \in SUBSET {"handshake", "image", "state"}
      BY DEF PageTypes
    <3>2. /\ Reads(p, what, active, peer[active], asked[p] \ {what})
          /\ UNCHANGED deriving
      BY <1>10, <2>3 DEF ServeFetch
    <3>3. /\ phase' \in [Pages -> {"unloaded", "connecting", "live", "reconnecting", "offline"}]
          /\ wasLive' \in [Pages -> BOOLEAN]
          /\ asked' \in [Pages -> SUBSET {"handshake", "image", "state"}]
      BY <3>1, <3>2, ReadsTypes
    <3>4. UNCHANGED deriving
      BY <3>2
    <3> QED BY <2>1, <3>3, <3>4 DEF PageTypes
  <2> QED BY <2>2, <2>3
<1>11. ASSUME NEW p \in Pages, NEW what \in {"image", "state"}, RefuseFetch(p, what)
       PROVE  PageTypes'
  BY <1>11 DEF RefuseFetch, PageTypes, GoesOffline, Becomes
<1>12. ASSUME NEW p \in Pages, NEW n \in Nonces, Tap(p, n) PROVE PageTypes'
  <2>1. using[p] \in Keys /\ keyring[p][using[p]] \in Ephemerals
    BY <1>12, MaxHellosAssumption DEF Tap, PageTypes, Keys
  <2>2. [nonce |-> n, key |-> using[p], eph |-> keyring[p][using[p]]] \in Frames
    BY <2>1 DEF Frames
  <2> QED BY <1>12, <2>2 DEF Tap, PageTypes
<1>13. ASSUME NEW p \in Pages, NEW c \in encrypting[p], PostCommand(p, c) PROVE PageTypes'
  BY <1>13 DEF PostCommand, PageTypes
<1>14. ASSUME NEW c \in commands, ServeCommand(c) PROVE PageTypes'
  <2>1. c.page \in Pages
    BY DEF SentTypes, Commands
  <2> QED BY <1>14, <2>1 DEF ServeCommand, PageTypes, GoesOffline, Becomes
<1>15. ASSUME NEW p \in Pages, StreamStarts(p) \/ StreamWrites(p) \/ StreamFails(p)
       PROVE  UNCHANGED pageVars
  BY <1>15 DEF StreamStarts, StreamWrites, StreamFails
<1>16. CASE OrphanEnds
  BY <1>1, <1>16 DEF OrphanEnds
<1>17. CASE UNCHANGED directVars
  BY <1>1, <1>17 DEF directVars
<1> QED BY <1>1, <1>2, <1>3, <1>4, <1>5, <1>6, <1>7, <1>8, <1>9, <1>10, <1>11, <1>12, <1>13,
           <1>14, <1>15, <1>16, <1>17 DEF DirectNext

\* Every entry of a concatenation is an entry of one of its parts.
LEMMA ConcatEntries ==
  ASSUME NEW S, NEW s \in Seq(S), NEW t \in Seq(S)
  PROVE  /\ s \o t \in Seq(S)
         /\ \A i \in DOMAIN (s \o t) :
              \/ \E j \in DOMAIN s : (s \o t)[i] = s[j]
              \/ \E j \in DOMAIN t : (s \o t)[i] = t[j]
<1>1. s \o t \in Seq(S) /\ Len(s \o t) = Len(s) + Len(t)
  OBVIOUS
<1>2. ASSUME NEW i \in DOMAIN (s \o t)
      PROVE  \/ \E j \in DOMAIN s : (s \o t)[i] = s[j]
             \/ \E j \in DOMAIN t : (s \o t)[i] = t[j]
  <2>1. CASE i <= Len(s)
    <3>1. i \in DOMAIN s /\ (s \o t)[i] = s[i]
      BY <1>1, <2>1
    <3> QED BY <3>1
  <2>2. CASE ~(i <= Len(s))
    <3>1. i - Len(s) \in DOMAIN t /\ (s \o t)[i] = t[i - Len(s)]
      BY <1>1, <2>2
    <3> QED BY <3>1
  <2> QED BY <2>1, <2>2
<1> QED BY <1>1, <1>2

\* What a thread may write in a step: markers, a hello that has been made, a
\* state under a key of the table.
Written == {Opened, Ended} \cup {HelloEvent(k) : k \in 1..offered'}
             \cup {StateEvent(k, peer[k]) : k \in Table}

\* A write appends such events to a stream.
LEMMA WritesEvents ==
  ASSUME DirectInv, CodecInv', NEW p \in Pages, NEW s \in Seq(Written), Writes(p, s)
  PROVE  /\ events' \in [Pages -> Seq(StreamEvents)]
         /\ \A q \in Pages : q # p => events'[q] = events[q]
         /\ \A i \in DOMAIN events'[p] :
              \/ \E j \in DOMAIN events[p] : events'[p][i] = events[p][j]
              \/ events'[p][i] \in Written
<1>1. events \in [Pages -> Seq(StreamEvents)] /\ events[p] \in Seq(StreamEvents)
  BY DEF DirectInv, StreamTypes
<1>2. Opened \in StreamEvents /\ Ended \in StreamEvents
  BY MaxHellosAssumption DEF Opened, Ended, StreamEvents
<1>3. ASSUME NEW k \in 1..offered' PROVE HelloEvent(k) \in StreamEvents
  BY MaxHellosAssumption DEF HelloEvent, StreamEvents, CodecInv, CodecTypeOK
<1>4. ASSUME NEW k \in Table PROVE StateEvent(k, peer[k]) \in StreamEvents
  BY <1>4, MaxHellosAssumption DEF StateEvent, StreamEvents, Table, DirectInv, CodecInv, CodecTypeOK, Keys
<1>5. Written \subseteq StreamEvents
  BY <1>2, <1>3, <1>4 DEF Written
<1>6. s \in Seq(StreamEvents) /\ \A j \in DOMAIN s : s[j] \in Written
  BY <1>5
<1>7. events' = [events EXCEPT ![p] = events[p] \o s]
  BY DEF Writes
<1>8. events'[p] = events[p] \o s
  BY <1>1, <1>7
<1>9. /\ events[p] \o s \in Seq(StreamEvents)
      /\ \A i \in DOMAIN (events[p] \o s) :
           \/ \E j \in DOMAIN events[p] : (events[p] \o s)[i] = events[p][j]
           \/ \E j \in DOMAIN s : (events[p] \o s)[i] = s[j]
  <2>1. events[p] \in Seq(StreamEvents) /\ s \in Seq(StreamEvents)
    BY <1>1, <1>6
  <2> QED BY <2>1, ConcatEntries, SMTT(60)
<1> QED BY <1>1, <1>6, <1>7, <1>8, <1>9

\* Closing a stream, or opening another, leaves nothing of the old one.
LEMMA OtherStream ==
  ASSUME StreamTypes, NEW p \in Pages,
         OpenStream(p) \/ CloseStream(p) \/ UNCHANGED streamVars
  PROVE  /\ StreamTypes'
         /\ \A q \in Pages : events'[q] = events[q] \/ events'[q] = <<>>
<1> USE DirectAssumption
<1>1. CASE UNCHANGED streamVars
  BY <1>1 DEF streamVars, StreamTypes
<1>2. orphans \in 0..MaxOrphans /\ (Abandoned(p) => orphans' \in 0..MaxOrphans)
  BY DEF StreamTypes, Abandoned
<1>3. CASE OpenStream(p)
  BY <1>2, <1>3 DEF OpenStream, StreamTypes
<1>4. CASE CloseStream(p)
  BY <1>2, <1>4 DEF CloseStream, StreamTypes
<1> QED BY <1>1, <1>3, <1>4

(***************************************************************************)
(* Streams stay well typed, and a page's events are ones it had before or  *)
(* that its thread may write in this step.                                 *)
(***************************************************************************)
LEMMA StreamTypesKept ==
  ASSUME DirectInv, [DirectNext]_directVars
  PROVE  /\ StreamTypes'
         /\ \A q \in Pages : \A i \in DOMAIN events'[q] :
              \/ \E j \in DOMAIN events[q] : events'[q][i] = events[q][j]
              \/ events'[q][i] \in Written
<1> DEFINE Goal == /\ StreamTypes'
                   /\ \A q \in Pages : \A i \in DOMAIN events'[q] :
                        \/ \E j \in DOMAIN events[q] : events'[q][i] = events[q][j]
                        \/ events'[q][i] \in Written
<1>0. StreamTypes /\ CodecInv' /\ offered \in 0..MaxHellos /\ offered # 0
  BY CodecKept DEF DirectInv, HellosMade, CodecInv, CodecTypeOK
<1>1. ASSUME NEW p \in Pages, OpenStream(p) \/ CloseStream(p) \/ UNCHANGED streamVars
      PROVE  Goal
  BY <1>0, <1>1, OtherStream
<1>2. ASSUME NEW p \in Pages, StreamStarts(p) PROVE Goal
  <2>1. /\ handler[p] = "start" /\ stream[p] = "open"
        /\ handler' = [handler EXCEPT ![p] = "running"] /\ UNCHANGED <<stream, orphans, offered>>
        /\ Writes(p, <<Opened>> \o (IF Ready THEN <<>> ELSE <<HelloEvent(offered)>>))
    BY <1>0, <1>2 DEF StreamStarts, StreamTypes, codecVars
  <2>2. PICK s \in Seq(Written) : Writes(p, s)
    <3>1. <<Opened>> \in Seq(Written)
      BY DEF Written
    <3>2. (IF Ready THEN <<>> ELSE <<HelloEvent(offered)>>) \in Seq(Written)
      <4>1. HelloEvent(offered) \in Written
        BY <1>0, <2>1 DEF Written
      <4> QED BY <4>1
    <3>3. <<Opened>> \o (IF Ready THEN <<>> ELSE <<HelloEvent(offered)>>) \in Seq(Written)
      BY <3>1, <3>2, ConcatEntries
    <3> QED BY <2>1, <3>3
  <2>3. /\ events' \in [Pages -> Seq(StreamEvents)]
        /\ \A q \in Pages : q # p => events'[q] = events[q]
        /\ \A i \in DOMAIN events'[p] :
             \/ \E j \in DOMAIN events[p] : events'[p][i] = events[p][j]
             \/ events'[p][i] \in Written
    BY <1>0, <2>2, WritesEvents
  <2> QED BY <1>0, <2>1, <2>3 DEF StreamTypes
<1>3. ASSUME NEW p \in Pages, StreamWrites(p) PROVE Goal
  <2>1. /\ handler[p] = "running" /\ stream[p] = "open" /\ UNCHANGED <<stream, handler, orphans>>
        /\ Respond
        /\ Writes(p, (IF Rotates THEN <<HelloEvent(NextHello)>> ELSE <<>>)
                       \o <<StateEvent(active, peer[active])>>)
    BY <1>0, <1>3 DEF StreamWrites, StreamTypes
  <2>2. active \in Table /\ (Rotates => NextHello \in 1..offered')
    BY <2>1, RespondStep DEF DirectInv
  <2>3. PICK s \in Seq(Written) : Writes(p, s)
    <3>1. <<StateEvent(active, peer[active])>> \in Seq(Written)
      <4>1. StateEvent(active, peer[active]) \in Written
        BY <2>2 DEF Written
      <4> QED BY <4>1
    <3>2. (IF Rotates THEN <<HelloEvent(NextHello)>> ELSE <<>>) \in Seq(Written)
      <4>1. Rotates => HelloEvent(NextHello) \in Written
        BY <2>2 DEF Written
      <4> QED BY <4>1
    <3>3. (IF Rotates THEN <<HelloEvent(NextHello)>> ELSE <<>>)
            \o <<StateEvent(active, peer[active])>> \in Seq(Written)
      BY <3>1, <3>2, ConcatEntries
    <3> QED BY <2>1, <3>3
  <2>4. /\ events' \in [Pages -> Seq(StreamEvents)]
        /\ \A q \in Pages : q # p => events'[q] = events[q]
        /\ \A i \in DOMAIN events'[p] :
             \/ \E j \in DOMAIN events[p] : events'[p][i] = events[p][j]
             \/ events'[p][i] \in Written
    BY <1>0, <2>3, WritesEvents
  <2> QED BY <1>0, <2>1, <2>4 DEF StreamTypes
<1>4. ASSUME NEW p \in Pages, StreamFails(p) PROVE Goal
  <2>1. /\ stream[p] = "open" /\ handler' = [handler EXCEPT ![p] = "none"]
        /\ UNCHANGED <<stream, orphans>> /\ Writes(p, <<Ended>>)
    BY <1>0, <1>4 DEF StreamFails, StreamTypes
  <2>2. /\ events' \in [Pages -> Seq(StreamEvents)]
        /\ \A q \in Pages : q # p => events'[q] = events[q]
        /\ \A i \in DOMAIN events'[p] :
             \/ \E j \in DOMAIN events[p] : events'[p][i] = events[p][j]
             \/ events'[p][i] \in Written
    <3>1. <<Ended>> \in Seq(Written)
      BY DEF Written
    <3> QED BY <1>0, <2>1, <3>1, WritesEvents
  <2> QED BY <1>0, <2>1, <2>2 DEF StreamTypes
<1>5. ASSUME NEW p \in Pages, PageReceives(p) PROVE Goal
  <2>1. \/ CloseStream(p)
        \/ /\ events[p] # <<>> /\ stream[p] = "open" /\ UNCHANGED <<stream, handler, orphans>>
           /\ events' = [events EXCEPT ![p] = Tail(@)]
    BY <1>5 DEF PageReceives
  <2>2. CASE /\ events[p] # <<>> /\ stream[p] = "open" /\ UNCHANGED <<stream, handler, orphans>>
             /\ events' = [events EXCEPT ![p] = Tail(@)]
    <3>1. events[p] \in Seq(StreamEvents) /\ events'[p] = Tail(events[p])
      BY <1>0, <2>2 DEF StreamTypes
    <3>2. /\ Tail(events[p]) \in Seq(StreamEvents)
          /\ \A i \in DOMAIN Tail(events[p]) :
               i + 1 \in DOMAIN events[p] /\ Tail(events[p])[i] = events[p][i + 1]
      BY <2>2, <3>1
    <3>3. \A i \in DOMAIN events'[p] : \E j \in DOMAIN events[p] : events'[p][i] = events[p][j]
      BY <3>1, <3>2
    <3>4. \A q \in Pages : q # p => events'[q] = events[q]
      BY <1>0, <2>2 DEF StreamTypes
    <3>5. StreamTypes'
      BY <1>0, <2>2, <3>1, <3>2 DEF StreamTypes
    <3> QED BY <3>3, <3>4, <3>5
  <2> QED BY <1>1, <2>1, <2>2
<1>6. ASSUME OrphanEnds PROVE Goal
  BY <1>0, <1>6, DirectAssumption DEF OrphanEnds, StreamTypes
<1>7. ASSUME NEW m \in posts, PostHandshake(m) \/ PostLost(m) PROVE Goal
  <2>1. m.page \in Pages
    BY DEF DirectInv, SentTypes, Posts
  <2>2. OpenStream(m.page) \/ UNCHANGED streamVars
    BY <1>7 DEF PostHandshake, PostLost, Goes, streamVars
  <2> QED BY <1>1, <2>1, <2>2
<1>8. ASSUME NEW p \in Pages,
             \/ Load(p) \/ GetHandshake(p) \/ Retry(p) \/ StreamDrops(p)
             \/ \E d \in deriving[p] : Derive(p, d)
             \/ \E what \in {"image", "state"} : ServeFetch(p, what) \/ RefuseFetch(p, what)
             \/ \E n \in Nonces : Tap(p, n)
             \/ \E c \in encrypting[p] : PostCommand(p, c)
      PROVE  OpenStream(p) \/ CloseStream(p) \/ UNCHANGED streamVars
  BY <1>8 DEF Load, GetHandshake, Retry, StreamDrops, Derive, ServeFetch, RefuseFetch, Tap,
              PostCommand
<1>9. ASSUME NEW c \in commands, ServeCommand(c) PROVE Goal
  <2>1. UNCHANGED streamVars
    BY <1>9 DEF ServeCommand
  <2> QED BY <1>0, <2>1 DEF streamVars, StreamTypes
<1>10. ASSUME UNCHANGED directVars PROVE Goal
  BY <1>0, <1>10 DEF directVars, streamVars, StreamTypes
<1> HIDE DEF Goal
<1>11. Goal
  BY <1>1, <1>2, <1>3, <1>4, <1>5, <1>6, <1>7, <1>8, <1>9, <1>10 DEF DirectNext
<1> QED BY <1>11 DEF Goal

-----------------------------------------------------------------------------
(* Keys, answers and commands on their way.                                *)

\* Apart from a page that derives keys, taps, posts a command or has one
\* served, nothing is made that could be sent.
LEMMA Senders ==
  ASSUME [DirectNext]_directVars
  PROVE  \/ \E p \in Pages : \E d \in deriving[p] : Derive(p, d)
         \/ \E p \in Pages : \E n \in Nonces : Tap(p, n)
         \/ \E p \in Pages : \E c \in encrypting[p] : PostCommand(p, c)
         \/ \E c \in commands : ServeCommand(c)
         \/ UNCHANGED <<keyring, encrypting, commands, tapped>> /\ posts' \subseteq posts
<1>1. ASSUME NEW p \in Pages,
             \/ Load(p) \/ GetHandshake(p) \/ Retry(p)
             \/ StreamStarts(p) \/ StreamWrites(p) \/ StreamFails(p) \/ StreamDrops(p)
             \/ PageReceives(p)
             \/ \E what \in {"image", "state"} : ServeFetch(p, what) \/ RefuseFetch(p, what)
      PROVE  UNCHANGED <<keyring, encrypting, commands, tapped, posts>>
  BY <1>1 DEF Load, GetHandshake, Retry, StreamStarts, StreamWrites, StreamFails, StreamDrops,
              PageReceives, ServeFetch, RefuseFetch, sentVars, pageVars
<1>2. ASSUME NEW m \in posts, PostHandshake(m) \/ PostLost(m)
      PROVE  UNCHANGED <<keyring, encrypting, commands, tapped>> /\ posts' \subseteq posts
  BY <1>2 DEF PostHandshake, PostLost
<1>3. ASSUME OrphanEnds \/ UNCHANGED directVars
      PROVE  UNCHANGED <<keyring, encrypting, commands, tapped, posts>>
  BY <1>3 DEF OrphanEnds, directVars, sentVars, pageVars
<1> QED BY <1>1, <1>2, <1>3 DEF DirectNext

\* A page that derives keys makes one more key pair for the hello's key id.
LEMMA DeriveMakes ==
  ASSUME DirectInv, PageTypes', NEW p \in Pages, NEW d \in deriving[p], Derive(p, d)
  PROVE  \E m : /\ m \in Posts /\ posts' = posts \cup {m}
                /\ m.page = p /\ m.key = d.key /\ m.eph = <<p, Made(p, d.key) + 1>>
                /\ Made(p, d.key)' = Made(p, d.key) + 1
                /\ \A q \in Pages, k \in Keys : q # p \/ k # d.key => keyring'[q][k] = keyring[q][k]
<1> DEFINE e == <<p, Made(p, d.key) + 1>>
           m == [page |-> p, key |-> d.key, eph |-> e, next |-> d.next]
<1>1. d.key \in Keys /\ d.next \in Thens
  BY DEF DirectInv, PageTypes, Derivations
<1>2. Made(p, d.key) \in Nat /\ Made(p, d.key) + 1 \in 1..MaxDerivations
  BY <1>1, MadeType, DirectAssumption DEF Derive, DirectInv
<1>3. e \in Ephemerals /\ e # NoPeer
  BY <1>2, DirectAssumption, NoPeerAssumption
<1>4. keyring' = [keyring EXCEPT ![p][d.key] = e] /\ posts' = posts \cup {m}
  BY DEF Derive
<1>5. /\ keyring'[p][d.key] = e
      /\ \A q \in Pages, k \in Keys : q # p \/ k # d.key => keyring'[q][k] = keyring[q][k]
  BY <1>1, <1>4 DEF DirectInv, PageTypes
<1>6. Made(p, d.key)' = Made(p, d.key) + 1
  BY <1>3, <1>5 DEF Made
<1>7. m \in Posts /\ m.page = p /\ m.key = d.key /\ m.eph = e
  BY <1>1, <1>3 DEF Posts
<1> QED BY <1>4, <1>5, <1>6, <1>7

\* A page never has fewer keys for a key id than before.
LEMMA KeysGrow ==
  ASSUME DirectInv, PageTypes', [DirectNext]_directVars, NEW q \in Pages, NEW k \in Keys
  PROVE  /\ Made(q, k) <= Made(q, k)'
         /\ keyring'[q][k] # NoPeer =>
              keyring[q][k] # NoPeer \/ \E d \in deriving[q] : d.key = k
<1>1. Made(q, k) \in Nat
  BY MadeType DEF DirectInv
<1>2. CASE UNCHANGED keyring
  BY <1>1, <1>2 DEF Made
<1>3. ASSUME NEW p \in Pages, NEW d \in deriving[p], Derive(p, d)
      PROVE  /\ Made(q, k) <= Made(q, k)'
             /\ keyring'[q][k] # NoPeer =>
                  keyring[q][k] # NoPeer \/ \E c \in deriving[q] : c.key = k
  <2>1. /\ Made(p, d.key)' = Made(p, d.key) + 1
        /\ q # p \/ k # d.key => keyring'[q][k] = keyring[q][k]
    BY <1>3, DeriveMakes
  <2>2. CASE q = p /\ k = d.key
    BY <1>1, <2>1, <2>2
  <2>3. CASE q # p \/ k # d.key
    BY <1>1, <2>1, <2>3 DEF Made
  <2> QED BY <2>2, <2>3
<1>4. ASSUME NEW p \in Pages,
             \/ \E n \in Nonces : Tap(p, n)
             \/ \E c \in encrypting[p] : PostCommand(p, c)
      PROVE  UNCHANGED keyring
  BY <1>4 DEF Tap, PostCommand
<1>5. ASSUME NEW c \in commands, ServeCommand(c) PROVE UNCHANGED keyring
  BY <1>5 DEF ServeCommand
<1> QED BY <1>2, <1>3, <1>4, <1>5, Senders

\* Answers and commands on their way stay well typed.
LEMMA SentTypesKept ==
  ASSUME DirectInv, PageTypes', [DirectNext]_directVars
  PROVE  SentTypes'
<1> USE DEF DirectInv
<1>1. ASSUME NEW p \in Pages, NEW d \in deriving[p], Derive(p, d) PROVE SentTypes'
  <2>1. PICK m \in Posts : posts' = posts \cup {m}
    BY <1>1, DeriveMakes
  <2> QED BY <1>1, <2>1 DEF Derive, SentTypes
<1>2. ASSUME NEW p \in Pages, NEW n \in Nonces, Tap(p, n) PROVE SentTypes'
  BY <1>2 DEF Tap, SentTypes
<1>3. ASSUME NEW p \in Pages, NEW c \in encrypting[p], PostCommand(p, c) PROVE SentTypes'
  <2>1. c \in Frames /\ using[p] \in 0..MaxHellos
    BY DEF PageTypes
  <2>2. [page |-> p, nonce |-> c.nonce, named |-> using[p], key |-> c.key, eph |-> c.eph] \in Commands
    BY <2>1 DEF Commands, Frames
  <2> QED BY <1>3, <2>2 DEF PostCommand, SentTypes
<1>4. ASSUME NEW c \in commands, ServeCommand(c) PROVE SentTypes'
  BY <1>4 DEF ServeCommand, SentTypes
<1>5. CASE UNCHANGED <<keyring, encrypting, commands, tapped>> /\ posts' \subseteq posts
  BY <1>5 DEF SentTypes
<1> QED BY <1>1, <1>2, <1>3, <1>4, <1>5, Senders

\* What a page derives keys for is a hello that has been made.
LEMMA DerivesMade ==
  ASSUME DirectInv, [DirectNext]_directVars, offered <= offered', offered' \in Nat
  PROVE  \A q \in Pages : \A d \in deriving'[q] : d.key <= offered'
<1> USE DEF DirectInv
<1>0. /\ offered \in Nat /\ deriving \in [Pages -> SUBSET Derivations]
      /\ \A q \in Pages : \A d \in deriving[q] : d.key \in Nat /\ d.key <= offered
  BY DEF CodecInv, CodecTypeOK, PageTypes, HellosMade, Derivations, Keys
<1>1. ASSUME NEW p \in Pages, NEW k \in Nat, NEW next, k <= offered',
             deriving' = [deriving EXCEPT ![p] = @ \cup {[key |-> k, next |-> next]}]
      PROVE  \A q \in Pages : \A d \in deriving'[q] : d.key <= offered'
  BY <1>0, <1>1
<1>2. ASSUME \A q \in Pages : deriving'[q] \subseteq deriving[q]
      PROVE  \A q \in Pages : \A d \in deriving'[q] : d.key <= offered'
  BY <1>0, <1>2
<1>3. ASSUME NEW p \in Pages, GetHandshake(p)
      PROVE  \A q \in Pages : \A d \in deriving'[q] : d.key <= offered'
  BY <1>0, <1>1, <1>3 DEF GetHandshake
<1>4. ASSUME NEW p \in Pages, PageReceives(p)
      PROVE  \A q \in Pages : \A d \in deriving'[q] : d.key <= offered'
  <2>1. PICK m : m = Head(events[p])
    OBVIOUS
  <2>2. \/ UNCHANGED deriving
        \/ /\ m.type = "hello"
           /\ deriving' = [deriving EXCEPT ![p] = @ \cup {[key |-> m.key, next |-> Continue]}]
    BY <1>4, <2>1 DEF PageReceives
  <2>3. m.type = "hello" => m.key \in Nat /\ m.key <= offered'
    <3>1. events[p] \in Seq(StreamEvents) /\ events[p] # <<>>
      BY <1>4 DEF PageReceives, StreamTypes
    <3>2. m = events[p][1] /\ 1 \in DOMAIN events[p]
      BY <2>1, <3>1
    <3>3. m.type = "hello" => m.key \in 1..offered
      BY <3>2 DEF HellosMade
    <3> QED BY <1>0, <3>3
  <2> QED BY <1>1, <1>2, <2>2, <2>3
<1>5. ASSUME NEW p \in Pages, NEW what \in {"image", "state"}, ServeFetch(p, what)
      PROVE  \A q \in Pages : \A d \in deriving'[q] : d.key <= offered'
  <2>1. \/ UNCHANGED deriving
        \/ /\ Rotates
           /\ deriving' = [deriving EXCEPT ![p] = @ \cup
                {[key |-> NextHello, next |-> Then(what, active, peer[active])]}]
    BY <1>5 DEF ServeFetch
  <2>2. Rotates => NextHello \in 1..offered'
    BY <1>5, RespondStep DEF ServeFetch
  <2> QED BY <1>0, <1>1, <1>2, <2>1, <2>2
<1>6. ASSUME NEW p \in Pages,
             \/ Load(p) \/ Retry(p)
             \/ StreamStarts(p) \/ StreamWrites(p) \/ StreamFails(p) \/ StreamDrops(p)
             \/ \E what \in {"image", "state"} : RefuseFetch(p, what)
             \/ \E n \in Nonces : Tap(p, n)
             \/ \E c \in encrypting[p] : PostCommand(p, c)
      PROVE  UNCHANGED deriving
  BY <1>6 DEF Load, Retry, StreamStarts, StreamWrites, StreamFails, StreamDrops, RefuseFetch,
              Tap, PostCommand, pageVars
<1>7. ASSUME NEW p \in Pages, NEW d \in deriving[p], Derive(p, d)
      PROVE  \A q \in Pages : deriving'[q] \subseteq deriving[q]
  BY <1>0, <1>7 DEF Derive
<1>8. ASSUME NEW m \in posts, PostHandshake(m) \/ PostLost(m) PROVE UNCHANGED deriving
  BY <1>8 DEF PostHandshake, PostLost
<1>9. ASSUME NEW c \in commands, ServeCommand(c) PROVE UNCHANGED deriving
  BY <1>9 DEF ServeCommand
<1>10. ASSUME OrphanEnds \/ UNCHANGED directVars PROVE UNCHANGED deriving
  BY <1>10 DEF OrphanEnds, directVars, pageVars
<1> QED BY <1>2, <1>3, <1>4, <1>5, <1>6, <1>7, <1>8, <1>9, <1>10 DEF DirectNext

\* Hellos that a stream carries or that a page has keys for have been made.
LEMMA HellosMadeKept ==
  ASSUME DirectInv, PageTypes', [DirectNext]_directVars
  PROVE  HellosMade'
<1>1. offered <= offered' /\ offered \in 1..MaxHellos /\ offered' \in Nat /\ offered' # 0
  BY CodecKept, MaxHellosAssumption DEF DirectInv, HellosMade, CodecInv, CodecTypeOK
<1>2. \A q \in Pages : \A d \in deriving'[q] : d.key <= offered'
  BY <1>1, DerivesMade
<1>3. ASSUME NEW q \in Pages, NEW i \in DOMAIN events'[q], events'[q][i].type = "hello"
      PROVE  events'[q][i].key \in 1..offered'
  <2>1. CASE \E j \in DOMAIN events[q] : events'[q][i] = events[q][j]
    BY <1>1, <1>3, <2>1 DEF DirectInv, HellosMade
  <2>2. CASE events'[q][i] \in Written
    BY <1>3, <2>2 DEF Written, Opened, Ended, HelloEvent, StateEvent
  <2> QED BY <2>1, <2>2, StreamTypesKept
<1>4. ASSUME NEW q \in Pages, NEW k \in Keys, keyring'[q][k] # NoPeer PROVE k <= offered'
  <2>1. keyring[q][k] # NoPeer \/ \E d \in deriving[q] : d.key = k
    BY <1>4, KeysGrow
  <2>2. k <= offered
    BY <2>1 DEF DirectInv, HellosMade
  <2> QED BY <1>1, <2>2 DEF Keys
<1> QED BY <1>1, <1>2, <1>3, <1>4 DEF HellosMade

\* A page's ephemeral is still one of its own after a step.
LEMMA KnownStays ==
  ASSUME DirectInv, PageTypes', [DirectNext]_directVars, NEW k \in Keys, NEW e, Known(k, e)
  PROVE  Known(k, e)'
<1>1. e \in Ephemerals /\ e[1] \in Pages /\ e[2] \in Nat /\ e[2] <= Made(e[1], k)
  BY DirectAssumption DEF Known
<1>2. PICK q \in Pages : q = e[1]
  BY <1>1
<1>3. Made(q, k) <= Made(q, k)' /\ Made(q, k) \in Nat /\ Made(q, k)' \in Nat
  <2>1. Made(q, k) \in Nat
    BY MadeType DEF DirectInv
  <2>2. Made(q, k)' \in Nat
    <3>1. keyring'[q][k] = NoPeer \/ keyring'[q][k] \in Ephemerals
      BY DEF PageTypes
    <3> QED BY <3>1, DirectAssumption DEF Made
  <2> QED BY <2>1, <2>2, KeysGrow
<1> QED BY <1>1, <1>2, <1>3 DEF Known

\* Everything encrypted is still encrypted with ephemerals of the pages.
LEMMA EphemeralsKnownKept ==
  ASSUME DirectInv, PageTypes', SentTypes', [DirectNext]_directVars
  PROVE  EphemeralsKnown'
<1>1. ASSUME NEW k \in Keys, NEW e, Known(k, e) PROVE Known(k, e)'
  BY <1>1, KnownStays
<1>2. /\ \A m \in posts : m.key \in Keys /\ Known(m.key, m.eph) /\ m.eph[1] = m.page
      /\ \A p \in Pages : \A c \in encrypting[p] :
           c.key \in Keys /\ Known(c.key, c.eph) /\ c.eph[1] = p
      /\ \A c \in commands : c.key \in Keys /\ Known(c.key, c.eph) /\ c.eph[1] = c.page
      /\ \A k \in Table : k \in Keys /\ Known(k, peer[k])
  BY DEF DirectInv, EphemeralsKnown, SentTypes, Posts, Commands, PageTypes, Frames, Table
<1>3. ASSUME NEW k \in Table' PROVE Known(k, peer[k])'
  <2>1. CASE k \in Table /\ peer'[k] = peer[k]
    <3>1. PICK e : e = peer[k]
      OBVIOUS
    <3>2. Known(k, e)'
      BY <1>1, <1>2, <2>1, <3>1
    <3> QED BY <2>1, <3>1, <3>2 DEF Known
  <2>2. ASSUME NEW m \in posts, m.key = k, m.eph = peer'[k] PROVE Known(k, peer[k])'
    <3>1. PICK e : e = m.eph
      OBVIOUS
    <3>2. Known(k, e)'
      BY <1>1, <1>2, <2>2, <3>1
    <3> QED BY <2>2, <3>1, <3>2 DEF Known
  <2> QED BY <2>1, <2>2, CodecKept
<1>4. ASSUME NEW q \in Pages, NEW i \in DOMAIN events'[q], events'[q][i].type = "state"
      PROVE  events'[q][i].key \in Keys /\ Known(events[q][i].key, events[q][i].eph)'
  <2>1. PICK x : x = events'[q][i]
    OBVIOUS
  <2>2. x.key \in Keys /\ Known(x.key, x.eph)
    <3>1. CASE \E j \in DOMAIN events[q] : x = events[q][j]
      BY <1>4, <2>1, <3>1 DEF DirectInv, EphemeralsKnown
    <3>2. CASE x \in Written
      <4>1. \E k \in Table : x = StateEvent(k, peer[k])
        BY <1>4, <2>1, <3>2 DEF Written, Opened, Ended, HelloEvent
      <4> QED BY <1>2, <4>1 DEF StateEvent
    <3> QED BY <2>1, <3>1, <3>2, StreamTypesKept
  <2>3. Known(x.key, x.eph)'
    BY <1>1, <2>2
  <2> QED BY <2>1, <2>2, <2>3 DEF Known
<1>5. /\ \A m \in posts' : Known(m.key, m.eph)' /\ m.eph[1] = m.page
      /\ \A p \in Pages : \A c \in encrypting'[p] : Known(c.key, c.eph)' /\ c.eph[1] = p
      /\ \A c \in commands' : Known(c.key, c.eph)' /\ c.eph[1] = c.page
  <2>1. ASSUME NEW m \in posts PROVE Known(m.key, m.eph)'
    BY <1>1, <1>2
  <2>2. ASSUME NEW p \in Pages, NEW c \in encrypting[p] PROVE Known(c.key, c.eph)'
    BY <1>1, <1>2
  <2>3. ASSUME NEW c \in commands PROVE Known(c.key, c.eph)'
    BY <1>1, <1>2
  <2>4. CASE \E p \in Pages : \E d \in deriving[p] : Derive(p, d)
    <3>0. PICK p \in Pages : \E d \in deriving[p] : Derive(p, d)
      BY <2>4
    <3>1. PICK d \in deriving[p] : Derive(p, d)
      BY <3>0
    <3>2. UNCHANGED <<encrypting, commands>>
      BY <3>1 DEF Derive
    <3>3. PICK m \in Posts : /\ posts' = posts \cup {m}
                             /\ m.page = p /\ m.key = d.key /\ m.eph = <<p, Made(p, d.key) + 1>>
                             /\ Made(p, d.key)' = Made(p, d.key) + 1
      BY <3>1, DeriveMakes
    <3>4. m.eph \in Ephemerals /\ Made(p, d.key) \in Nat
      BY <3>1, MadeType DEF Posts, DirectInv, PageTypes, Derivations
    <3>5. Known(m.key, m.eph)' /\ m.eph[1] = m.page
      <4>1. PICK k : k = d.key
        OBVIOUS
      <4>2. m.eph[1] = p /\ m.eph[2] = Made(p, k)'
        BY <3>3, <4>1
      <4>3. m.eph[2] <= Made(m.eph[1], k)'
        BY <3>3, <3>4, <4>1, <4>2
      <4> QED BY <3>3, <3>4, <4>1, <4>2, <4>3 DEF Known
    <3> QED BY <1>2, <2>1, <2>2, <2>3, <3>2, <3>3, <3>5
  <2>5. CASE \E p \in Pages : \E n \in Nonces : Tap(p, n)
    <3>1. PICK p \in Pages, n \in Nonces : Tap(p, n)
      BY <2>5
    <3>2. PICK k : k = using[p]
      OBVIOUS
    <3>3. /\ k \in Keys /\ keyring[p][k] # NoPeer
          /\ encrypting' = [encrypting EXCEPT ![p] = @ \cup
               {[nonce |-> n, key |-> k, eph |-> keyring[p][k]]}]
          /\ UNCHANGED <<posts, commands>>
      BY <3>1, <3>2, MaxHellosAssumption DEF Tap, DirectInv, PageTypes, Keys
    <3>4. keyring[p][k][1] = p /\ keyring[p][k] \in Ephemerals /\ Known(k, keyring[p][k])
      BY <3>3, MadeType DEF DirectInv, PageTypes, Known, Made
    <3>5. PICK e : e = keyring[p][k]
      OBVIOUS
    <3>6. Known(k, e)' /\ e[1] = p
      BY <1>1, <3>3, <3>4, <3>5
    <3>7. ASSUME NEW q \in Pages, NEW c \in encrypting'[q]
          PROVE  Known(c.key, c.eph)' /\ c.eph[1] = q
      <4>1. c \in encrypting[q] \/ (q = p /\ c.key = k /\ c.eph = e)
        BY <3>3, <3>5 DEF DirectInv, PageTypes
      <4> QED BY <1>2, <2>2, <3>6, <4>1
    <3> QED BY <1>2, <2>1, <2>3, <3>3, <3>7
  <2>6. CASE \E p \in Pages : \E c \in encrypting[p] : PostCommand(p, c)
    <3>0. PICK p \in Pages : \E c \in encrypting[p] : PostCommand(p, c)
      BY <2>6
    <3>1. PICK c \in encrypting[p] : PostCommand(p, c)
      BY <3>0
    <3>2. PICK x : x = [page |-> p, nonce |-> c.nonce, named |-> using[p], key |-> c.key, eph |-> c.eph]
      OBVIOUS
    <3>3. /\ x.page = p /\ x.key = c.key /\ x.eph = c.eph
          /\ commands' = commands \cup {x} /\ UNCHANGED posts
          /\ encrypting' = [encrypting EXCEPT ![p] = @ \ {c}]
      BY <3>1, <3>2 DEF PostCommand
    <3>4. Known(x.key, x.eph)' /\ x.eph[1] = x.page
      BY <1>2, <2>2, <3>3
    <3>5. \A q \in Pages : encrypting'[q] \subseteq encrypting[q]
      BY <3>3 DEF DirectInv, PageTypes
    <3> QED BY <1>2, <2>1, <2>2, <2>3, <3>3, <3>4, <3>5
  <2>7. CASE \E c \in commands : ServeCommand(c)
    <3>1. commands' \subseteq commands /\ UNCHANGED <<posts, encrypting>>
      BY <2>7 DEF ServeCommand
    <3> QED BY <1>2, <2>1, <2>2, <2>3, <3>1
  <2>8. CASE UNCHANGED <<keyring, encrypting, commands, tapped>> /\ posts' \subseteq posts
    BY <1>2, <2>1, <2>2, <2>3, <2>8
  <2> QED BY <2>4, <2>5, <2>6, <2>7, <2>8, Senders
<1> QED BY <1>3, <1>4, <1>5 DEF EphemeralsKnown

\* Remembering a nonce adds no other to the cache.
LEMMA RememberedNonces ==
  ASSUME NEW s \in Seq(Nonces), NEW n \in Nonces
  PROVE  NoncesIn(Remembered(s, n)) \subseteq NoncesIn(s) \cup {n}
<1> USE CacheSizeAssumption
<1>1. CASE Len(s) < CacheSize
  <2>1. Remembered(s, n) = Append(s, n)
    BY <1>1 DEF Remembered
  <2>2. \A i \in DOMAIN Append(s, n) : Append(s, n)[i] = n \/ (i \in DOMAIN s /\ Append(s, n)[i] = s[i])
    OBVIOUS
  <2> QED BY <2>1, <2>2 DEF NoncesIn
<1>2. CASE ~(Len(s) < CacheSize)
  <2>1. s # <<>> /\ Remembered(s, n) = Append(Tail(s), n)
    BY <1>2 DEF Remembered
  <2>2. Tail(s) \in Seq(Nonces) /\ \A i \in DOMAIN Tail(s) : i + 1 \in DOMAIN s /\ Tail(s)[i] = s[i + 1]
    BY <2>1
  <2>3. \A i \in DOMAIN Append(Tail(s), n) :
          Append(Tail(s), n)[i] = n \/ (i \in DOMAIN Tail(s) /\ Append(Tail(s), n)[i] = Tail(s)[i])
    BY <2>2
  <2> QED BY <2>1, <2>2, <2>3 DEF NoncesIn
<1> QED BY <1>1, <1>2

\* A nonce comes to a cache only when the command with it is served.
LEMMA NoncesAccepted ==
  ASSUME DirectInv, [DirectNext]_directVars
  PROVE  \/ \A k \in Keys : NoncesIn(replay'[k]) \subseteq NoncesIn(replay[k])
         \/ \E c \in commands :
              ServeCommand(c)
              /\ \A k \in Keys : NoncesIn(replay'[k]) \subseteq NoncesIn(replay[k]) \cup {c.nonce}
<1>0. replay \in [Keys -> Seq(Nonces)]
  BY DEF DirectInv, CodecInv, CodecTypeOK
<1>1. CASE UNCHANGED codecVars \/ Respond
  BY <1>1 DEF codecVars, Respond
<1>2. ASSUME NEW m \in posts, ApplyPhoneHello(m.key, m.eph)
      PROVE  \A k \in Keys : NoncesIn(replay'[k]) \subseteq NoncesIn(replay[k])
  <2>1. replay' = [replay EXCEPT ![m.key] = <<>>]
    BY <1>2 DEF ApplyPhoneHello
  <2>2. NoncesIn(<<>>) = {}
    BY DEF NoncesIn
  <2> QED BY <1>0, <2>1, <2>2
<1>3. ASSUME NEW c \in commands, DecodeFrame(c.key, c.eph, c.nonce)
      PROVE  \A k \in Keys : NoncesIn(replay'[k]) \subseteq NoncesIn(replay[k]) \cup {c.nonce}
  <2>1. c.key \in Keys /\ c.nonce \in Nonces
    BY DEF DirectInv, SentTypes, Commands
  <2>2. replay' = [replay EXCEPT ![c.key] = Remembered(replay[c.key], c.nonce)]
    BY <1>3 DEF DecodeFrame
  <2>3. NoncesIn(Remembered(replay[c.key], c.nonce)) \subseteq NoncesIn(replay[c.key]) \cup {c.nonce}
    BY <1>0, <2>1, RememberedNonces
  <2> QED BY <1>0, <2>1, <2>2, <2>3
<1> QED BY <1>1, <1>2, <1>3, CodecMoves

\* No two commands on their way have a nonce in common, nor has one of them
\* the nonce of a command that was accepted.
LEMMA NoncesFreshKept ==
  ASSUME DirectInv, [DirectNext]_directVars
  PROVE  NoncesFresh'
<1> USE DEF DirectInv
<1>1. ASSUME NEW c \in commands, ServeCommand(c) PROVE NoncesFresh'
  <2>1. commands' = commands \ {c} /\ UNCHANGED <<encrypting, tapped>>
    BY <1>1 DEF ServeCommand
  <2>2. \A k \in Keys : NoncesIn(replay'[k]) \subseteq NoncesIn(replay[k]) \cup {c.nonce}
    <3>1. replay \in [Keys -> Seq(Nonces)] /\ c.key \in Keys /\ c.nonce \in Nonces
      BY DEF CodecInv, CodecTypeOK, SentTypes, Commands
    <3>2. \/ UNCHANGED replay
          \/ replay' = [replay EXCEPT ![c.key] = Remembered(replay[c.key], c.nonce)]
      BY <1>1 DEF ServeCommand, DecodeFrame, codecVars
    <3>3. NoncesIn(Remembered(replay[c.key], c.nonce)) \subseteq NoncesIn(replay[c.key]) \cup {c.nonce}
      BY <3>1, RememberedNonces
    <3> QED BY <3>1, <3>2, <3>3
  <2>3. c.nonce \in tapped
    BY DEF NoncesFresh
  <2>4. \A d \in commands' : d \in commands /\ d.nonce # c.nonce
    BY <2>1 DEF NoncesFresh
  <2>5. \A p \in Pages : \A d \in encrypting'[p] : d \in encrypting[p] /\ d.nonce # c.nonce
    BY <2>1 DEF NoncesFresh
  <2> QED BY <2>1, <2>2, <2>3, <2>4, <2>5 DEF NoncesFresh
<1>2. ASSUME \A k \in Keys : NoncesIn(replay'[k]) \subseteq NoncesIn(replay[k]) PROVE NoncesFresh'
  <2>1. ASSUME UNCHANGED <<encrypting, commands, tapped>> PROVE NoncesFresh'
    <3>1. encrypting' = encrypting /\ commands' = commands /\ tapped' = tapped
      BY <2>1
    <3>2. ASSUME NEW q \in Pages, NEW c \in encrypting[q]
          PROVE  /\ c.nonce \in tapped
                 /\ \A k \in Keys : c.nonce \notin NoncesIn(replay'[k])
                 /\ \A r \in Pages : \A d \in encrypting[r] : c.nonce = d.nonce => q = r /\ c = d
                 /\ \A d \in commands : c.nonce # d.nonce
      BY <1>2 DEF NoncesFresh
    <3>3. ASSUME NEW c \in commands
          PROVE  /\ c.nonce \in tapped
                 /\ \A k \in Keys : c.nonce \notin NoncesIn(replay'[k])
                 /\ \A d \in commands : c.nonce = d.nonce => c = d
      BY <1>2 DEF NoncesFresh
    <3>4. \A k \in Keys : NoncesIn(replay'[k]) \subseteq tapped
      BY <1>2 DEF NoncesFresh
    <3> QED BY <3>1, <3>2, <3>3, <3>4 DEF NoncesFresh
  <2>2. ASSUME NEW p \in Pages, NEW n \in Nonces, Tap(p, n) PROVE NoncesFresh'
    <3>1. PICK x : x = [nonce |-> n, key |-> using[p], eph |-> keyring[p][using[p]]]
      OBVIOUS
    <3>2. /\ n \notin tapped /\ tapped' = tapped \cup {n} /\ UNCHANGED commands
          /\ encrypting' = [encrypting EXCEPT ![p] = @ \cup {x}] /\ x.nonce = n
      BY <2>2, <3>1 DEF Tap
    <3>3. \A q \in Pages : \A c \in encrypting'[q] : c \in encrypting[q] \/ (q = p /\ c = x)
      BY <3>2 DEF PageTypes
    <3>4. /\ \A k \in Keys : n \notin NoncesIn(replay[k])
          /\ \A q \in Pages : \A c \in encrypting[q] : c.nonce # n
          /\ \A c \in commands : c.nonce # n
      BY <3>2 DEF NoncesFresh
    <3>5. ASSUME NEW q \in Pages, NEW c \in encrypting'[q]
          PROVE  /\ c.nonce \in tapped'
                 /\ \A k \in Keys : c.nonce \notin NoncesIn(replay'[k])
                 /\ \A r \in Pages : \A d \in encrypting'[r] : c.nonce = d.nonce => q = r /\ c = d
                 /\ \A d \in commands' : c.nonce # d.nonce
      <4>1. CASE c \in encrypting[q]
        BY <1>2, <3>2, <3>3, <3>4, <4>1 DEF NoncesFresh
      <4>2. CASE q = p /\ c = x
        BY <1>2, <3>2, <3>3, <3>4, <4>2
      <4> QED BY <3>3, <4>1, <4>2
    <3>6. ASSUME NEW c \in commands'
          PROVE  /\ c.nonce \in tapped'
                 /\ \A k \in Keys : c.nonce \notin NoncesIn(replay'[k])
                 /\ \A d \in commands' : c.nonce = d.nonce => c = d
      BY <1>2, <3>2 DEF NoncesFresh
    <3>7. \A k \in Keys : NoncesIn(replay'[k]) \subseteq tapped'
      BY <1>2, <3>2 DEF NoncesFresh
    <3> QED BY <3>5, <3>6, <3>7 DEF NoncesFresh
  <2>3. ASSUME NEW p \in Pages, NEW c \in encrypting[p], PostCommand(p, c) PROVE NoncesFresh'
    <3>1. PICK x : x = [page |-> p, nonce |-> c.nonce, named |-> using[p], key |-> c.key, eph |-> c.eph]
      OBVIOUS
    <3>2. /\ commands' = commands \cup {x} /\ x.nonce = c.nonce /\ UNCHANGED tapped
          /\ encrypting' = [encrypting EXCEPT ![p] = @ \ {c}]
      BY <2>3, <3>1 DEF PostCommand
    <3>3. \A q \in Pages : \A d \in encrypting'[q] : d \in encrypting[q] /\ (q # p \/ d # c)
      BY <3>2 DEF PageTypes
    <3>4. /\ c.nonce \in tapped
          /\ \A k \in Keys : c.nonce \notin NoncesIn(replay[k])
          /\ \A q \in Pages : \A d \in encrypting[q] : c.nonce = d.nonce => p = q /\ c = d
          /\ \A d \in commands : c.nonce # d.nonce
      BY DEF NoncesFresh
    <3>5. ASSUME NEW q \in Pages, NEW y \in encrypting'[q]
          PROVE  /\ y.nonce \in tapped'
                 /\ \A k \in Keys : y.nonce \notin NoncesIn(replay'[k])
                 /\ \A r \in Pages : \A d \in encrypting'[r] : y.nonce = d.nonce => q = r /\ y = d
                 /\ \A d \in commands' : y.nonce # d.nonce
      BY <1>2, <3>2, <3>3, <3>4 DEF NoncesFresh
    <3>6. ASSUME NEW y \in commands'
          PROVE  /\ y.nonce \in tapped'
                 /\ \A k \in Keys : y.nonce \notin NoncesIn(replay'[k])
                 /\ \A d \in commands' : y.nonce = d.nonce => y = d
      BY <1>2, <3>2, <3>4 DEF NoncesFresh
    <3>7. \A k \in Keys : NoncesIn(replay'[k]) \subseteq tapped'
      BY <1>2, <3>2 DEF NoncesFresh
    <3> QED BY <3>5, <3>6, <3>7 DEF NoncesFresh
  <2>4. ASSUME NEW p \in Pages, NEW d \in deriving[p], Derive(p, d)
        PROVE  UNCHANGED <<encrypting, commands, tapped>>
    BY <2>4 DEF Derive
  <2> QED BY <1>1, <2>1, <2>2, <2>3, <2>4, Senders
<1> QED BY <1>1, <1>2, NoncesAccepted

-----------------------------------------------------------------------------
(* The theorems.                                                           *)

\* Every step keeps the invariant.
LEMMA DirectStep == DirectInv /\ [DirectNext]_directVars => DirectInv'
<1> SUFFICES ASSUME DirectInv, [DirectNext]_directVars PROVE DirectInv'
  OBVIOUS
<1>1. PageTypes' /\ StreamTypes' /\ CodecInv' /\ KeptUntilFull'
  BY PageTypesKept, StreamTypesKept, CodecKept
<1>2. SentTypes'
  BY <1>1, SentTypesKept
<1> QED BY <1>1, <1>2, HellosMadeKept, EphemeralsKnownKept, NoncesFreshKept DEF DirectInv

(***************************************************************************)
(* The inductive invariant of the direct session: types, the codec's own   *)
(* invariant, and where the ephemerals and nonces in use come from.        *)
(***************************************************************************)
THEOREM DirectInductive == DirectSpec => []DirectInv
  BY DirectInitInv, DirectStep, PTL DEF DirectSpec, AutomaticSpec

(***************************************************************************)
(* Pages, streams and the session's codec stay within their types, whatever *)
(* the order of requests, events and failures (local_server.py 275-350,    *)
(* app.js 800-855).                                                        *)
(***************************************************************************)
THEOREM DirectTypeCorrect == DirectSpec => []DirectTypeOK
<1>1. DirectInv => DirectTypeOK
  <2> SUFFICES ASSUME DirectInv PROVE DirectTypeOK
    OBVIOUS
  <2>1. ASSUME NEW p \in Pages PROVE keyring[p] \in [Keys -> {NoPeer} \cup ({p} \X (1..MaxDerivations))]
    <3>1. keyring[p] \in [Keys -> Ephemerals \cup {NoPeer}]
      BY DEF DirectInv, PageTypes
    <3>2. \A k \in Keys : keyring[p][k] \in {NoPeer} \cup ({p} \X (1..MaxDerivations))
      BY MadeType DEF DirectInv
    <3> QED BY <3>1, <3>2
  <2> QED BY <2>1 DEF DirectInv, DirectTypeOK, CodecInv, PageTypes, StreamTypes, SentTypes, NoncesFresh
<1> QED BY DirectInductive, <1>1, PTL

\* If one page alone made keys for a key id, once, a known ephemeral is that one.
LEMMA SoleEphemeral ==
  ASSUME DirectInv, NEW p \in Pages, NEW k \in Keys, NEW e, SoleAnswer(p, k), Known(k, e)
  PROVE  e = keyring[p][k] /\ k \in 1..offered
<1>1. PICK q \in Pages, j \in 1..MaxDerivations : e = <<q, j>>
  BY DirectAssumption DEF Known
<1>2. Made(q, k) \in Nat /\ j <= Made(q, k) /\ Made(p, k) = 1
  BY <1>1, MadeType DEF Known, SoleAnswer, DirectInv
<1>3. q = p /\ j = 1
  BY <1>1, <1>2 DEF SoleAnswer
<1>4. keyring[p][k] # NoPeer /\ keyring[p][k] = <<p, 1>>
  BY <1>2, MadeType DEF DirectInv
<1> QED BY <1>1, <1>3, <1>4 DEF DirectInv, HellosMade, Keys

(***************************************************************************)
(* A page can read the state frames in its stream unless another page has  *)
(* answered the key's hello or it has answered it twice, whatever the      *)
(* number of pages, keys and failures (local_server.py 308-312, app.js     *)
(* 1136-1157).                                                             *)
(***************************************************************************)
THEOREM FramesAreReadable == DirectSpec => []FramesReadable
<1>1. DirectInv => FramesReadable
  <2> SUFFICES ASSUME DirectInv, NEW p \in Pages, NEW i \in DOMAIN events[p],
                      events[p][i].type = "state", SoleAnswer(p, events[p][i].key)
               PROVE  keyring[p][events[p][i].key] = events[p][i].eph
    BY DEF FramesReadable
  <2>1. events[p][i].key \in Keys /\ Known(events[p][i].key, events[p][i].eph)
    BY DEF DirectInv, EphemeralsKnown
  <2> QED BY <2>1, SoleEphemeral
<1> QED BY DirectInductive, <1>1, PTL

(***************************************************************************)
(* A command named for the key it is encrypted with is accepted while that *)
(* key's set is kept, if its page alone has answered the key's hello, once *)
(* (local_server.py 336-350, protocol.py 344-422).                         *)
(***************************************************************************)
THEOREM NegotiatedCommandsAreReadable == DirectSpec => []NegotiatedCommandsReadable
<1>1. DirectInv => NegotiatedCommandsReadable
  <2> SUFFICES ASSUME DirectInv, NEW c \in commands,
                      c.named = c.key, StillKept(c.key), SoleAnswer(c.page, c.key)
               PROVE  Accepted(c)
    BY DEF NegotiatedCommandsReadable
  <2>1. /\ c.page \in Pages /\ c.key \in Keys
        /\ Known(c.key, c.eph) /\ c.nonce \notin NoncesIn(replay[c.key])
    BY DEF DirectInv, SentTypes, Commands, EphemeralsKnown, NoncesFresh
  <2>2. c.eph = keyring[c.page][c.key] /\ c.key \in 1..offered
    BY <2>1, SoleEphemeral
  <2>3. c.key \in Table
    BY <2>2 DEF StillKept, DirectInv, KeptUntilFull
  <2>4. Known(c.key, peer[c.key])
    BY <2>3 DEF DirectInv, EphemeralsKnown
  <2>5. peer[c.key] = c.eph
    BY <2>1, <2>2, <2>4, SoleEphemeral
  <2> QED BY <2>1, <2>3, <2>5 DEF Accepted, DecodeResult
<1> QED BY DirectInductive, <1>1, PTL
=============================================================================
