-------------------------- MODULE SecureCodecProofs --------------------------
(***************************************************************************)
(* Proofs about SecureCodec for any number of hellos, ephemerals and       *)
(* nonces, and any limits.                                                 *)
(***************************************************************************)
EXTENDS MCSecureCodec, TLAPS

CodecInv == CodecTypeOK /\ KeyTableConsistent /\ OfferedOnce

\* A codec that has just been made has the invariant.
LEMMA CodecInitInv == CodecInit => CodecInv
  BY MaxHellosAssumption, MaxKeySetsAssumption, NoPeerAssumption
  DEF CodecInit, CodecInv, CodecTypeOK, KeyTableConsistent, OfferedOnce, Table, Keys, Ready

(***************************************************************************)
(* What a phone hello does to the key table, in a state of the invariant:  *)
(* the answered key goes to the end, and when the table is full the oldest *)
(* key set leaves, which is not the active one.                            *)
(***************************************************************************)
LEMMA StoreKeySet ==
  ASSUME CodecInv, NEW k \in Keys, NEW e \in Ephemerals, ApplyPhoneHello(k, e)
  PROVE  /\ k \notin Table /\ k \in 1..offered
         /\ Len(order) < MaxKeySets =>
              /\ Dropped(k) = {}
              /\ order' = Append(order, k)
         /\ Len(order) = MaxKeySets =>
              /\ order # <<>>
              /\ Dropped(k) = {Head(order)}
              /\ Head(order) # active
              /\ order' = Append(Tail(order), k)
<1> USE MaxKeySetsAssumption
    DEF CodecInv, CodecTypeOK, KeyTableConsistent, OfferedOnce, Ready
<1>1. k \notin Table /\ k \in 1..offered
  BY DEF ApplyPhoneHello, Table
<1>2. ASSUME Len(order) < MaxKeySets
      PROVE  Dropped(k) = {} /\ order' = Append(order, k)
  <2>1. order' = OrderWith(k)
    BY DEF ApplyPhoneHello
  <2>2. Len(Append(order, k)) = Len(order) + 1
    BY <1>1
  <2>3. Len(order) \in Nat
    BY DEF CodecTypeOK
  <2> QED BY <1>1, <1>2, <2>1, <2>2, <2>3 DEF Dropped, OrderWith
<1>3. ASSUME Len(order) = MaxKeySets
      PROVE  /\ order # <<>>
             /\ Dropped(k) = {Head(order)}
             /\ Head(order) # active
             /\ order' = Append(Tail(order), k)
  <2>1. order # <<>> /\ Head(order) = order[1] /\ 1 \in DOMAIN order
        /\ Len(order) \in DOMAIN order /\ Len(order) # 1
    BY <1>3
  <2>2. Head(order) # active
    BY <2>1
  <2>3. Tail(Append(order, k)) = Append(Tail(order), k)
    BY <1>1, <2>1, SMTT(30)
  <2>4. order' = OrderWith(k) /\ Len(Append(order, k)) = Len(order) + 1
    BY <1>1 DEF ApplyPhoneHello
  <2> QED BY <1>1, <1>3, <2>1, <2>2, <2>3, <2>4 DEF Dropped, OrderWith
<1> QED BY <1>1, <1>2, <1>3

\* Answering a phone's hello keeps the invariant.
LEMMA HelloStep ==
  ASSUME CodecInv, NEW k \in Keys, NEW e \in Ephemerals, ApplyPhoneHello(k, e)
  PROVE  CodecInv'
<1> USE MaxKeySetsAssumption, NoPeerAssumption
<1>1. /\ k \notin Table /\ k \in 1..offered
      /\ Len(order) \in Nat /\ Len(order) <= MaxKeySets
  BY StoreKeySet DEF CodecInv, CodecTypeOK, KeyTableConsistent
<1>2. /\ peer' = [x \in Keys |-> IF x = k THEN e
                                 ELSE IF x \in Dropped(k) THEN NoPeer ELSE peer[x]]
      /\ active' = k /\ sent' = 0 /\ pending' = pending \ {k} /\ offered' = offered
      /\ replay' = [replay EXCEPT ![k] = <<>>]
  BY DEF ApplyPhoneHello
<1>3. Table' = (Table \ Dropped(k)) \cup {k}
  BY <1>2 DEF Table
<1>4. /\ order' \in Seq(1..offered) /\ order' # <<>>
      /\ Len(order') <= MaxKeySets
      /\ order'[Len(order')] = k
      /\ {order'[i] : i \in DOMAIN order'} = ({order[i] : i \in DOMAIN order} \ Dropped(k)) \cup {k}
      /\ \A i, j \in DOMAIN order' : i # j => order'[i] # order'[j]
  <2>0. order \in Seq(1..offered)
    BY DEF CodecInv, CodecTypeOK
  <2>1. CASE Len(order) < MaxKeySets
    <3>1. Dropped(k) = {} /\ order' = Append(order, k)
      BY <2>1, StoreKeySet
    <3>2. /\ order' \in Seq(1..offered) /\ Len(order') = Len(order) + 1
          /\ order'[Len(order) + 1] = k
          /\ \A i \in 1..Len(order) : order'[i] = order[i]
      BY <3>1, <1>1, <2>0
    <3>3. {order'[i] : i \in DOMAIN order'} = {order[i] : i \in DOMAIN order} \cup {k}
      BY <3>2, <2>0
    <3>4. \A i, j \in DOMAIN order' : i # j => order'[i] # order'[j]
      BY <3>2, <2>0, <1>1 DEF CodecInv, KeyTableConsistent
    <3> QED BY <3>1, <3>2, <3>3, <3>4, <2>1, <1>1
  <2>2. CASE Len(order) = MaxKeySets
    <3>1. /\ order # <<>> /\ Dropped(k) = {Head(order)}
          /\ order' = Append(Tail(order), k)
      BY <2>2, StoreKeySet
    <3>2. /\ Tail(order) \in Seq(1..offered) /\ Len(Tail(order)) = Len(order) - 1
          /\ \A i \in 1..(Len(order) - 1) : Tail(order)[i] = order[i + 1]
      BY <3>1, <2>0
    <3>3. /\ order' \in Seq(1..offered) /\ Len(order') = Len(order)
          /\ order'[Len(order)] = k
          /\ \A i \in 1..(Len(order) - 1) : order'[i] = order[i + 1]
      BY <3>1, <3>2, <1>1, <2>0
    <3>4. \A i, j \in DOMAIN order : i # j => order[i] # order[j]
      BY DEF CodecInv, KeyTableConsistent
    <3>5. \A i \in DOMAIN order : order[i] # k
      BY <1>1 DEF CodecInv, KeyTableConsistent
    <3>6. {order'[i] : i \in DOMAIN order'} = ({order[i] : i \in DOMAIN order} \ {order[1]}) \cup {k}
      <4>1. ASSUME NEW i \in DOMAIN order'
            PROVE order'[i] \in ({order[j] : j \in DOMAIN order} \ {order[1]}) \cup {k}
        <5>1. CASE i = Len(order)
          BY <5>1, <3>3
        <5>2. CASE i # Len(order)
          <6>1. i \in 1..(Len(order) - 1) /\ i + 1 \in DOMAIN order /\ 1 \in DOMAIN order /\ i + 1 # 1
            BY <5>2, <3>3, <2>0, <3>1
          <6> QED BY <6>1, <3>3, <3>4
        <5> QED BY <5>1, <5>2
      <4>2. ASSUME NEW i \in DOMAIN order, i # 1
            PROVE order[i] \in {order'[j] : j \in DOMAIN order'}
        <5>1. i - 1 \in 1..(Len(order) - 1) /\ i - 1 \in DOMAIN order' /\ i - 1 + 1 = i
          BY <4>2, <3>3, <2>0
        <5>2. order'[i - 1] = order[i]
          BY <5>1, <3>3
        <5> QED BY <5>1, <5>2
      <4>3. k \in {order'[j] : j \in DOMAIN order'}
        <5>1. Len(order) \in DOMAIN order'
          BY <3>3, <3>1, <2>0
        <5> QED BY <5>1, <3>3
      <4> QED BY <4>1, <4>2, <4>3
    <3>7. \A i, j \in DOMAIN order' : i # j => order'[i] # order'[j]
      <4> SUFFICES ASSUME NEW i \in DOMAIN order', NEW j \in DOMAIN order', i < j
                   PROVE order'[i] # order'[j]
        BY <3>3, <2>0
      <4>1. i \in 1..(Len(order) - 1) /\ i + 1 \in DOMAIN order
        BY <3>3, <2>0
      <4>2. CASE j = Len(order)
        BY <4>1, <4>2, <3>3, <3>5
      <4>3. CASE j # Len(order)
        <5>1. j \in 1..(Len(order) - 1) /\ j + 1 \in DOMAIN order /\ i + 1 # j + 1
          BY <4>3, <3>3, <2>0
        <5> QED BY <4>1, <5>1, <3>3, <3>4
      <4> QED BY <4>2, <4>3
    <3>8. Head(order) = order[1] /\ order' # <<>>
      BY <3>1, <3>3, <2>0
    <3> QED BY <3>1, <3>3, <3>6, <3>7, <3>8, <2>2, <1>1
  <2>3. Len(order) < MaxKeySets \/ Len(order) = MaxKeySets
    BY <1>1
  <2> QED BY <2>1, <2>2, <2>3
<1>5. KeyTableConsistent'
  <2>1. Table' = {order'[i] : i \in DOMAIN order'}
    BY <1>3, <1>4 DEF CodecInv, KeyTableConsistent
  <2>2. Ready'
    BY <1>1, <1>2 DEF Ready, CodecInv, CodecTypeOK
  <2> QED BY <1>2, <1>4, <2>1, <2>2 DEF KeyTableConsistent
<1>6. CodecTypeOK'
  <2>1. peer' \in [Keys -> Ephemerals \cup {NoPeer}] /\ replay' \in [Keys -> Seq(Nonces)]
    BY <1>2 DEF CodecInv, CodecTypeOK
  <2>2. pending' \subseteq 1..offered' /\ active' \in 0..offered' /\ sent' \in Nat
    BY <1>1, <1>2 DEF CodecInv, CodecTypeOK
  <2>3. offered' \in 0..MaxHellos /\ order' \in Seq(1..offered')
    BY <1>2, <1>4 DEF CodecInv, CodecTypeOK
  <2> QED BY <2>1, <2>2, <2>3 DEF CodecTypeOK
<1>7. OfferedOnce'
  BY <1>2, <1>3 DEF CodecInv, OfferedOnce
<1> QED BY <1>5, <1>6, <1>7 DEF CodecInv

\* Every step keeps the strengthened invariant.
LEMMA CodecStep == CodecInv /\ [CodecNext]_codecVars => CodecInv'
<1> SUFFICES ASSUME CodecInv, [CodecNext]_codecVars PROVE CodecInv'
  OBVIOUS
<1>1. CASE RotateSendKey
  <2>1. /\ offered' = offered + 1 /\ offered' \in 0..MaxHellos
        /\ UNCHANGED <<peer, order, active, replay>> /\ sent' = 0
        /\ pending' = pending \cup {offered + 1}
    BY <1>1, MaxHellosAssumption DEF RotateSendKey, CodecInv, CodecTypeOK
  <2>2. order' \in Seq(1..offered')
    BY <2>1 DEF CodecInv, CodecTypeOK
  <2>3. offered + 1 \notin Table
    BY <2>1 DEF CodecInv, CodecTypeOK, KeyTableConsistent
  <2>4. CodecTypeOK'
    BY <2>1, <2>2, MaxHellosAssumption DEF CodecInv, CodecTypeOK
  <2> QED BY <2>1, <2>3, <2>4
          DEF CodecInv, KeyTableConsistent, OfferedOnce, Table, Ready
<1>2. ASSUME NEW k \in Keys, NEW e \in Ephemerals, ApplyPhoneHello(k, e) PROVE CodecInv'
  BY <1>2, HelloStep
<1>3. CASE EncodeFrame
  <2>1. sent' \in Nat
    BY <1>3 DEF EncodeFrame, CodecInv, CodecTypeOK
  <2> QED BY <1>3, <2>1
          DEF EncodeFrame, CodecInv, CodecTypeOK, KeyTableConsistent, OfferedOnce, Table, Ready
<1>4. ASSUME NEW k \in Keys, NEW e \in Ephemerals, NEW n \in Nonces, DecodeFrame(k, e, n)
      PROVE CodecInv'
  <2>1. Remembered(replay[k], n) \in Seq(Nonces)
    <3>1. replay[k] \in Seq(Nonces)
      BY DEF CodecInv, CodecTypeOK
    <3>2. CASE Len(replay[k]) < CacheSize
      BY <3>1, <3>2 DEF Remembered
    <3>3. CASE ~(Len(replay[k]) < CacheSize)
      <4>1. replay[k] # <<>>
        BY <3>1, <3>3, CacheSizeAssumption
      <4>2. Tail(replay[k]) \in Seq(Nonces)
        BY <3>1, <4>1
      <4> QED BY <3>3, <4>2 DEF Remembered
    <3> QED BY <3>2, <3>3
  <2>2. replay' \in [Keys -> Seq(Nonces)]
    BY <1>4, <2>1 DEF DecodeFrame, CodecInv, CodecTypeOK
  <2> QED BY <1>4, <2>2
          DEF DecodeFrame, CodecInv, CodecTypeOK, KeyTableConsistent, OfferedOnce, Table, Ready
<1>5. CASE UNCHANGED codecVars
  BY <1>5 DEF codecVars, CodecInv, CodecTypeOK, KeyTableConsistent, OfferedOnce, Table, Ready
<1> QED BY <1>1, <1>2, <1>3, <1>4, <1>5 DEF CodecNext

(***************************************************************************)
(* The codec's inductive invariant: types, a consistent key table, and no  *)
(* key both on offer and negotiated.                                       *)
(***************************************************************************)
THEOREM CodecInductive == CodecSpec => []CodecInv
  BY CodecInitInv, CodecStep, PTL DEF CodecSpec

(***************************************************************************)
(* The key table, its order and the active key agree in every state, so    *)
(* sending never fails on an evicted key.                                  *)
(***************************************************************************)
THEOREM KeyTableIsConsistent == CodecSpec => []KeyTableConsistent
<1>1. CodecInv => KeyTableConsistent
  BY DEF CodecInv
<1> QED BY CodecInductive, <1>1, PTL

(***************************************************************************)
(* A change of the send key keeps the key set used until then.             *)
(***************************************************************************)
THEOREM RotationKeepsPreviousKey == CodecSpec => PreviousKeySurvives
<1>1. CodecInv /\ [CodecNext]_codecVars =>
        [(active' # active /\ Ready) => peer'[active] = peer[active]]_codecVars
  <2> SUFFICES ASSUME CodecInv, CodecNext, active' # active, Ready
               PROVE peer'[active] = peer[active]
    OBVIOUS
  <2>1. PICK k \in Keys, e \in Ephemerals : ApplyPhoneHello(k, e)
    BY DEF CodecNext, RotateSendKey, EncodeFrame, DecodeFrame
  <2>2. active \in Keys /\ active # k
    BY <2>1, MaxHellosAssumption DEF ApplyPhoneHello, CodecInv, CodecTypeOK, Ready, Keys
  <2>3. active \notin Dropped(k)
    BY DEF Dropped
  <2> QED BY <2>1, <2>2, <2>3 DEF ApplyPhoneHello
<1> QED BY CodecInductive, <1>1, PTL DEF CodecSpec, PreviousKeySurvives

(***************************************************************************)
(* What a key id stands for never changes after its negotiation.           *)
(***************************************************************************)
THEOREM KeySetsNeverChange == CodecSpec => KeySetsAreFinal
<1>1. ASSUME CodecInv, CodecNext, NEW k \in Keys,
             peer[k] # NoPeer \/ (k <= offered /\ k \notin pending)
      PROVE  peer'[k] \in {peer[k], NoPeer}
  <2>1. k \notin pending
    BY <1>1 DEF CodecInv, OfferedOnce, Table
  <2> QED BY <1>1, <2>1 DEF CodecNext, RotateSendKey, ApplyPhoneHello, EncodeFrame, DecodeFrame, CodecInv, CodecTypeOK
<1>2. CodecInv /\ [CodecNext]_codecVars =>
        [\A k \in Keys :
           peer[k] # NoPeer \/ (k <= offered /\ k \notin pending)
             => peer'[k] \in {peer[k], NoPeer}]_codecVars
  BY <1>1
<1> QED BY CodecInductive, <1>2, PTL DEF CodecSpec, KeySetsAreFinal

(***************************************************************************)
(* The codec is type correct: whatever is on offer, held, active or in the *)
(* eviction order is the key of a hello that was made (protocol.py         *)
(* 136-190, 315-353).                                                      *)
(***************************************************************************)
THEOREM CodecTypeCorrect == CodecSpec => []CodecTypeOK
<1>1. CodecInv => CodecTypeOK
  BY DEF CodecInv
<1> QED BY CodecInductive, <1>1, PTL

(***************************************************************************)
(* A hello on offer has no key set: no second phone can use it once one    *)
(* has (protocol.py 389-422).                                              *)
(***************************************************************************)
THEOREM HellosAreUsedOnce == CodecSpec => []OfferedOnce
<1>1. CodecInv => OfferedOnce
  BY DEF CodecInv
<1> QED BY CodecInductive, <1>1, PTL

-----------------------------------------------------------------------------
(* Which key sets are held.                                                *)

\* Keys of an answered hello are in the table until it is full.
KeptUntilFull ==
  Len(order) < MaxKeySets => \A k \in 1..offered : k \notin pending => k \in Table

\* An answer to a hello keeps key sets until the table is full.
LEMMA AnswerStep ==
  ASSUME CodecInv, KeptUntilFull, NEW k \in Keys, NEW e \in Ephemerals, ApplyPhoneHello(k, e)
  PROVE  /\ CodecInv' /\ KeptUntilFull'
         /\ offered' = offered /\ Table' \subseteq Table \cup {k}
         /\ peer'[k] = e
         /\ \A x \in Table' : x # k => peer'[x] = peer[x]
         /\ replay' = [replay EXCEPT ![k] = <<>>]
<1> USE MaxKeySetsAssumption, NoPeerAssumption
<1>1. /\ peer' = [x \in Keys |-> IF x = k THEN e
                                 ELSE IF x \in Dropped(k) THEN NoPeer ELSE peer[x]]
      /\ pending' = pending \ {k} /\ offered' = offered
      /\ replay' = [replay EXCEPT ![k] = <<>>]
  BY DEF ApplyPhoneHello
<1>2. CodecInv'
  BY HelloStep
<1>3. Table' = (Table \ Dropped(k)) \cup {k}
  BY <1>1 DEF Table
<1>4. Len(order) \in Nat /\ Len(order) <= MaxKeySets /\ order \in Seq(1..offered)
  BY DEF CodecInv, CodecTypeOK, KeyTableConsistent
<1>5. KeptUntilFull'
  <2>1. CASE Len(order) < MaxKeySets
    <3>1. Dropped(k) = {}
      BY <2>1, StoreKeySet
    <3> QED BY <1>1, <1>3, <2>1, <3>1 DEF KeptUntilFull
  <2>2. CASE Len(order) = MaxKeySets
    <3>1. order # <<>> /\ order' = Append(Tail(order), k) /\ k \in 1..offered
      BY <2>2, StoreKeySet
    <3>2. Tail(order) \in Seq(1..offered) /\ Len(Tail(order)) = Len(order) - 1
      BY <3>1, <1>4
    <3>3. Len(order') = Len(order)
      BY <3>1, <3>2
    <3> QED BY <2>2, <3>3 DEF KeptUntilFull
  <2> QED BY <1>4, <2>1, <2>2
<1> QED BY <1>1, <1>2, <1>3, <1>5 DEF Table

\* So does every other step, as none of them touches the table.
LEMMA KeptStep == CodecInv /\ KeptUntilFull /\ [CodecNext]_codecVars => KeptUntilFull'
<1> SUFFICES ASSUME CodecInv, KeptUntilFull, [CodecNext]_codecVars PROVE KeptUntilFull'
  OBVIOUS
<1>1. CASE RotateSendKey
  BY <1>1, MaxHellosAssumption DEF RotateSendKey, KeptUntilFull, Table, CodecInv, CodecTypeOK
<1>2. ASSUME NEW k \in Keys, NEW e \in Ephemerals, ApplyPhoneHello(k, e) PROVE KeptUntilFull'
  BY <1>2, AnswerStep
<1>3. CASE UNCHANGED <<offered, pending, peer, order>>
  BY <1>3 DEF KeptUntilFull, Table
<1> QED BY <1>1, <1>2, <1>3 DEF CodecNext, EncodeFrame, DecodeFrame, codecVars

-----------------------------------------------------------------------------
(* What is accepted under a key and how often a hello is made, by the      *)
(* histories MCSecureCodec keeps.                                          *)

\* MCNext, with no bound on the frames that are encoded or accepted.
HistoryNext ==
  \/ Offer
  \/ Encode
  \/ \E k \in Keys, e \in Ephemerals : Answer(k, e)
  \/ \E k \in Keys, e \in Ephemerals, n \in Nonces : Accept(k, e, n)

HistorySpec == MCInit /\ [][HistoryNext]_mcVars

\* The cache r holds the newest of the nonces l, as many as it has room for.
HoldsNewest(r, l) ==
  /\ Len(r) = IF Len(l) < CacheSize THEN Len(l) ELSE CacheSize
  /\ \A i \in 1..Len(r) : r[i] = l[Len(l) - Len(r) + i]

\* No nonce comes twice within CacheSize entries of l.
NoRepeat(l) ==
  \A i, j \in DOMAIN l : (i < j /\ j - i <= CacheSize) => l[i] # l[j]

\* Nothing has been accepted under a key that nobody has answered, so that the
\* cache an answer makes empty is empty by right.
HistoryInv ==
  /\ log \in [Keys -> Seq(Nonces)]
  /\ \A k \in Keys : k \in pending \/ k > offered => log[k] = <<>>
  /\ \A k \in Keys : HoldsNewest(replay[k], log[k]) /\ NoRepeat(log[k])

\* Accepting a nonce the cache does not hold keeps the cache the newest of the
\* history, and the history free of repetitions within the cache's size.
LEMMA RememberedIsNewest ==
  ASSUME NEW r \in Seq(Nonces), NEW l \in Seq(Nonces), NEW n \in Nonces,
         HoldsNewest(r, l), NoRepeat(l), n \notin NoncesIn(r)
  PROVE  HoldsNewest(Remembered(r, n), Append(l, n)) /\ NoRepeat(Append(l, n))
<1> USE CacheSizeAssumption
<1> DEFINE m == Append(l, n)
<1>1. /\ Len(m) = Len(l) + 1 /\ Len(l) \in Nat /\ m[Len(l) + 1] = n
      /\ DOMAIN l = 1..Len(l) /\ DOMAIN m = 1..(Len(l) + 1)
      /\ \A i \in 1..Len(l) : m[i] = l[i]
  OBVIOUS
<1>2. Len(r) \in Nat /\ DOMAIN r = 1..Len(r)
  OBVIOUS
<1> HIDE DEF m
<1>3. CASE Len(l) < CacheSize
  <2>1. Len(r) = Len(l) /\ Remembered(r, n) = Append(r, n)
    BY <1>3 DEF HoldsNewest, Remembered
  <2>2. \A i \in 1..Len(r) : r[i] = l[i]
    <3>1. \A i \in 1..Len(r) : Len(l) - Len(r) + i = i
      BY <1>1, <2>1
    <3> QED BY <3>1 DEF HoldsNewest
  <2>3. /\ Len(Append(r, n)) = Len(r) + 1 /\ Append(r, n)[Len(r) + 1] = n
        /\ \A i \in 1..Len(r) : Append(r, n)[i] = r[i]
    OBVIOUS
  <2>4. HoldsNewest(Append(r, n), m)
    BY <1>1, <1>2, <1>3, <2>1, <2>2, <2>3 DEF HoldsNewest
  <2>5. NoRepeat(m)
    <3> SUFFICES ASSUME NEW i \in DOMAIN m, NEW j \in DOMAIN m, i < j, j - i <= CacheSize
                 PROVE  m[i] # m[j]
      BY DEF NoRepeat
    <3>1. i \in 1..Len(l)
      BY <1>1
    <3>2. CASE j = Len(l) + 1
      BY <1>1, <1>2, <2>1, <2>2, <3>1, <3>2 DEF NoncesIn
    <3>3. CASE j # Len(l) + 1
      BY <1>1, <3>1, <3>3 DEF NoRepeat
    <3> QED BY <3>2, <3>3
  <2> QED BY <2>1, <2>4, <2>5 DEF m
<1>4. CASE ~(Len(l) < CacheSize)
  <2>1. /\ Len(r) = CacheSize /\ Remembered(r, n) = Append(Tail(r), n) /\ r # <<>>
    BY <1>1, <1>2, <1>4 DEF HoldsNewest, Remembered
  <2>2. /\ Tail(r) \in Seq(Nonces) /\ Len(Tail(r)) = CacheSize - 1
        /\ \A i \in 1..(CacheSize - 1) : Tail(r)[i] = r[i + 1]
    BY <2>1
  <2>3. /\ Len(Append(Tail(r), n)) = CacheSize /\ Append(Tail(r), n)[CacheSize] = n
        /\ \A i \in 1..(CacheSize - 1) : Append(Tail(r), n)[i] = r[i + 1]
    BY <2>2
  <2>4. \A i \in 1..CacheSize : r[i] = l[Len(l) - CacheSize + i]
    BY <2>1 DEF HoldsNewest
  <2>5. HoldsNewest(Append(Tail(r), n), m)
    <3>1. ASSUME NEW i \in 1..CacheSize
          PROVE  Append(Tail(r), n)[i] = m[Len(m) - CacheSize + i]
      <4>1. CASE i = CacheSize
        BY <1>1, <2>3, <4>1
      <4>2. CASE i # CacheSize
        <5>1. i \in 1..(CacheSize - 1) /\ i + 1 \in 1..CacheSize
          BY <4>2
        <5>2. Append(Tail(r), n)[i] = l[Len(l) - CacheSize + (i + 1)]
          BY <2>3, <2>4, <5>1
        <5>3. /\ Len(l) - CacheSize + (i + 1) \in 1..Len(l)
              /\ Len(l) - CacheSize + (i + 1) = Len(m) - CacheSize + i
          BY <1>1, <1>4, <5>1
        <5> QED BY <1>1, <5>2, <5>3
      <4> QED BY <4>1, <4>2
    <3>2. Len(Append(Tail(r), n)) = IF Len(m) < CacheSize THEN Len(m) ELSE CacheSize
      BY <1>1, <1>4, <2>3
    <3>3. Len(Append(Tail(r), n)) = CacheSize
      BY <2>3
    <3> QED BY <3>1, <3>2, <3>3 DEF HoldsNewest
  <2>6. NoRepeat(m)
    <3> SUFFICES ASSUME NEW i \in DOMAIN m, NEW j \in DOMAIN m, i < j, j - i <= CacheSize
                 PROVE  m[i] # m[j]
      BY DEF NoRepeat
    <3>1. i \in 1..Len(l)
      BY <1>1
    <3>2. CASE j = Len(l) + 1
      <4> DEFINE h == i - (Len(l) - CacheSize)
      <4>1. h \in 1..CacheSize /\ Len(l) - CacheSize + h = i
        BY <1>1, <1>4, <3>1, <3>2
      <4>2. r[h] = l[i] /\ h \in DOMAIN r
        BY <1>2, <2>1, <2>4, <4>1
      <4>3. l[i] # n
        BY <4>2 DEF NoncesIn
      <4> QED BY <1>1, <3>1, <3>2, <4>3
    <3>3. CASE j # Len(l) + 1
      BY <1>1, <3>1, <3>3 DEF NoRepeat
    <3> QED BY <3>2, <3>3
  <2> QED BY <2>1, <2>5, <2>6 DEF m
<1> QED BY <1>3, <1>4

\* With nothing accepted the empty cache is what it should be.
LEMMA EmptyHistory == HoldsNewest(<<>>, <<>>) /\ NoRepeat(<<>>)
  BY CacheSizeAssumption DEF HoldsNewest, NoRepeat

\* Every step keeps the two invariants.
LEMMA HistoryStep ==
  CodecInv /\ HistoryInv /\ [HistoryNext]_mcVars => CodecInv' /\ HistoryInv'
<1> SUFFICES ASSUME CodecInv, HistoryInv, [HistoryNext]_mcVars
             PROVE  CodecInv' /\ HistoryInv'
  OBVIOUS
<1>1. CodecInv'
  BY CodecStep DEF HistoryNext, Offer, Encode, Answer, Accept, mcVars, CodecNext
<1>2. ASSUME UNCHANGED <<replay, log>>,
             \A k \in Keys : k \in pending' \/ k > offered' => k \in pending \/ k > offered
      PROVE  HistoryInv'
  BY <1>2 DEF HistoryInv
<1>3. ASSUME Offer
      PROVE  HistoryInv'
  <2>1. \A k \in Keys : k \in pending' \/ k > offered' => k \in pending \/ k > offered
    BY <1>3, MaxHellosAssumption DEF Offer, RotateSendKey, CodecInv, CodecTypeOK, Keys
  <2> QED BY <1>2, <1>3, <2>1 DEF Offer, RotateSendKey
<1>4. ASSUME Encode \/ UNCHANGED mcVars
      PROVE  HistoryInv'
  BY <1>2, <1>4 DEF Encode, EncodeFrame, mcVars, historyVars, codecVars
<1>5. ASSUME NEW k \in Keys, NEW e \in Ephemerals, Answer(k, e)
      PROVE  HistoryInv'
  <2>0. ApplyPhoneHello(k, e) /\ UNCHANGED log
    BY <1>5 DEF Answer, historyVars
  <2>1. log[k] = <<>> /\ replay' = [replay EXCEPT ![k] = <<>>]
    BY <2>0 DEF ApplyPhoneHello, HistoryInv
  <2>2. \A x \in Keys : replay'[x] = IF x = k THEN <<>> ELSE replay[x]
    BY <2>1 DEF CodecInv, CodecTypeOK
  <2>3. \A x \in Keys : HoldsNewest(replay'[x], log[x]) /\ NoRepeat(log[x])
    BY <2>1, <2>2, EmptyHistory DEF HistoryInv
  <2>4. pending' \subseteq pending /\ UNCHANGED <<offered, log>>
    BY <2>0 DEF ApplyPhoneHello
  <2> QED BY <2>3, <2>4 DEF HistoryInv
<1>6. ASSUME NEW k \in Keys, NEW e \in Ephemerals, NEW n \in Nonces, Accept(k, e, n)
      PROVE  HistoryInv'
  <2>0. log' = [log EXCEPT ![k] = Append(@, n)]
    BY <1>6 DEF Accept
  <2>1. /\ k \in Table /\ n \notin NoncesIn(replay[k])
        /\ replay' = [replay EXCEPT ![k] = Remembered(@, n)]
        /\ UNCHANGED <<offered, pending>>
    BY <1>6 DEF Accept, DecodeFrame, DecodeResult
  <2>2. k \notin pending /\ ~(k > offered)
    <3>1. k \in 1..offered
      BY <2>1 DEF CodecInv, CodecTypeOK, KeyTableConsistent
    <3> QED BY <2>1, <3>1 DEF CodecInv, CodecTypeOK, OfferedOnce
  <2>3. replay[k] \in Seq(Nonces) /\ log[k] \in Seq(Nonces)
    BY DEF CodecInv, CodecTypeOK, HistoryInv
  <2>4. HoldsNewest(Remembered(replay[k], n), Append(log[k], n)) /\ NoRepeat(Append(log[k], n))
    BY <2>1, <2>3, RememberedIsNewest DEF HistoryInv
  <2>5. /\ \A x \in Keys : replay'[x] = IF x = k THEN Remembered(replay[k], n) ELSE replay[x]
        /\ \A x \in Keys : log'[x] = IF x = k THEN Append(log[k], n) ELSE log[x]
    BY <2>0, <2>1 DEF CodecInv, CodecTypeOK, HistoryInv
  <2>6. log' \in [Keys -> Seq(Nonces)]
    <3>1. Append(log[k], n) \in Seq(Nonces)
      BY <2>3
    <3> QED BY <2>0, <3>1 DEF HistoryInv
  <2>7. \A x \in Keys : HoldsNewest(replay'[x], log'[x]) /\ NoRepeat(log'[x])
    BY <2>4, <2>5 DEF HistoryInv
  <2> QED BY <2>1, <2>2, <2>5, <2>6, <2>7 DEF HistoryInv
<1>7. HistoryInv'
  BY <1>3, <1>4, <1>5, <1>6 DEF HistoryNext
<1> QED BY <1>1, <1>7

(***************************************************************************)
(* However many frames are accepted, none is accepted twice under a key    *)
(* within a window of CacheSize accepted frames, whatever hellos come in   *)
(* between (protocol.py 95-111, 281-286, 304, 389-422).                    *)
(***************************************************************************)
THEOREM NoFrameIsReplayed == HistorySpec => []NoReplayWithinWindow
<1>1. MCInit => CodecInv /\ HistoryInv
  <2> SUFFICES ASSUME MCInit PROVE CodecInv /\ HistoryInv
    OBVIOUS
  <2>1. \A k \in Keys : log[k] = <<>> /\ replay[k] = <<>>
    BY DEF MCInit, CodecInit
  <2>2. log \in [Keys -> Seq(Nonces)]
    BY DEF MCInit
  <2> QED BY <2>1, <2>2, CodecInitInv, EmptyHistory DEF MCInit, HistoryInv
<1>2. HistoryInv => NoReplayWithinWindow
  BY DEF HistoryInv, NoRepeat, NoReplayWithinWindow
<1> QED BY <1>1, <1>2, HistoryStep, PTL DEF HistorySpec

\* What makes OffersArePaced inductive: the counts are numbers.
PaceInv ==
  /\ encoded \in Nat /\ rotations \in Nat /\ sent \in Nat
  /\ OffersArePaced

\* Every step keeps it: a rotation that is due pays for itself with the
\* Rotation frames of the count it resets.
LEMMA PaceStep == PaceInv /\ [HistoryNext]_mcVars => PaceInv'
<1> SUFFICES ASSUME PaceInv, [HistoryNext]_mcVars PROVE PaceInv'
  OBVIOUS
<1> DEFINE Paid == rotations * Rotation
<1>1. Paid \in Nat /\ (rotations + 1) * Rotation = Paid + Rotation
  BY RotationAssumption DEF PaceInv
<1>2. Paid + sent <= encoded
  BY DEF PaceInv, OffersArePaced
<1>3. CASE Offer
  <2>1. sent' = 0 /\ encoded' = encoded
    BY <1>3 DEF Offer, RotateSendKey
  <2>2. CASE ShouldRotateSendKey
    <3>1. rotations' = rotations + 1 /\ sent >= Rotation
      BY <1>3, <2>2 DEF Offer, ShouldRotateSendKey
    <3>2. rotations' * Rotation = Paid + Rotation
      BY <1>1, <3>1
    <3>3. Paid + Rotation + 0 <= encoded
      BY <1>1, <1>2, <3>1, RotationAssumption DEF PaceInv
    <3> HIDE DEF Paid
    <3>4. rotations' * Rotation + sent' <= encoded'
      BY <1>1, <2>1, <3>2, <3>3, RotationAssumption
    <3> QED BY <2>1, <3>1, <3>4 DEF PaceInv, OffersArePaced
  <2>3. CASE ~ShouldRotateSendKey
    BY <1>1, <1>2, <1>3, <2>1, <2>3 DEF Offer, PaceInv, OffersArePaced
  <2> QED BY <2>2, <2>3
<1>4. CASE Encode
  <2>1. sent' = sent + 1 /\ encoded' = encoded + 1 /\ rotations' = rotations
    BY <1>4 DEF Encode, EncodeFrame
  <2> QED BY <1>1, <1>2, <2>1 DEF PaceInv, OffersArePaced
<1>5. CASE \E k \in Keys, e \in Ephemerals : Answer(k, e)
  <2>1. sent' = 0 /\ UNCHANGED <<encoded, rotations>>
    BY <1>5 DEF Answer, ApplyPhoneHello, historyVars
  <2> QED BY <1>1, <1>2, <2>1 DEF PaceInv, OffersArePaced
<1>6. CASE \E k \in Keys, e \in Ephemerals, n \in Nonces : Accept(k, e, n)
  BY <1>6 DEF Accept, DecodeFrame, PaceInv, OffersArePaced
<1>7. CASE UNCHANGED mcVars
  BY <1>7 DEF mcVars, codecVars, historyVars, PaceInv, OffersArePaced
<1> QED BY <1>3, <1>4, <1>5, <1>6, <1>7 DEF HistoryNext

(***************************************************************************)
(* However long a phone leaves rotation hellos unanswered, and whatever    *)
(* other hellos are made or answered in between, a rotation falls due at   *)
(* most once in Rotation frames (protocol.py 157-159, 176-190, 315-342).   *)
(***************************************************************************)
THEOREM RotationIsPaced == HistorySpec => []OffersArePaced
<1>1. MCInit => PaceInv
  BY RotationAssumption DEF MCInit, CodecInit, PaceInv, OffersArePaced
<1>2. PaceInv => OffersArePaced
  BY DEF PaceInv
<1> QED BY <1>1, <1>2, PaceStep, PTL DEF HistorySpec

(***************************************************************************)
(* The steps of MCSecureCodec's run are among these, so what is proved     *)
(* holds of it whatever bound it puts on frames.                           *)
(***************************************************************************)
THEOREM BoundedHistory == MCSpec => HistorySpec
<1>1. [MCNext]_mcVars => [HistoryNext]_mcVars
  BY DEF MCNext, HistoryNext
<1> QED BY <1>1, PTL DEF MCSpec, HistorySpec
=============================================================================
