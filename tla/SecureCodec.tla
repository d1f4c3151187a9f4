----------------------------- MODULE SecureCodec -----------------------------
(***************************************************************************)
(* The LibreOffice side of SecureRelayCodec (extension/python/protocol.py, *)
(* lines 95-422), the state both the direct server and the relay client    *)
(* keep for their encrypted session.                                       *)
(*                                                                         *)
(* The plugin offers a key by a hello, some phone answers it with a public *)
(* key of its own, and both derive the same key set.  Hello i offers key   *)
(* id i.  What a phone contributes is an ephemeral: a key set is the pair  *)
(* of a key id and the ephemeral it was negotiated with, and a frame       *)
(* decrypts exactly when both ends hold the same pair.  A frame's nonce    *)
(* text is a member of Nonces.                                             *)
(***************************************************************************)
EXTENDS Integers, Sequences, FiniteSets

CONSTANTS
  MaxHellos,    \* bound of the model: hellos the plugin makes
  Ephemerals,   \* the phones' ephemeral key pairs
  NoPeer,       \* the codec holds no key set for a key id
  Nonces,       \* frame nonces
  MaxKeySets,   \* key sets kept by _store_key_set (3)
  Rotation,     \* key_rotation_messages
  CacheSize     \* replay_cache_size

ASSUME MaxHellosAssumption  == MaxHellos \in Nat
ASSUME NoPeerAssumption     == NoPeer \notin Ephemerals
ASSUME MaxKeySetsAssumption == MaxKeySets \in Nat /\ MaxKeySets >= 2
ASSUME RotationAssumption   == Rotation \in Nat \ {0}
ASSUME CacheSizeAssumption  == CacheSize \in Nat \ {0}

Keys == 1..MaxHellos

VARIABLES
  offered,      \* hellos made so far; the latest one offers key `offered`
  pending,      \* _pending_plugin_hellos: offered keys no phone has answered
  peer,         \* _keys: the ephemeral each held key set was negotiated with
  order,        \* _key_order
  active,       \* _active_key_id, 0 before the first phone hello
  sent,         \* _sent_with_active_key
  replay        \* phone_replay of each key set: accepted nonces, oldest first

codecVars == <<offered, pending, peer, order, active, sent, replay>>

Table == {k \in Keys : peer[k] # NoPeer}

NoncesIn(s) == {s[i] : i \in DOMAIN s}

CodecInit ==
  /\ offered = 0
  /\ pending = {}
  /\ peer = [k \in Keys |-> NoPeer]
  /\ order = <<>>
  /\ active = 0
  /\ sent = 0
  /\ replay = [k \in Keys |-> <<>>]

Ready == active # 0

ShouldRotateSendKey == Ready /\ sent >= Rotation

-----------------------------------------------------------------------------
\* Variant that switches to the offered key before a phone has answered.
RotateSendKeyAtOnce ==
  /\ offered < MaxHellos
  /\ offered' = offered + 1
  /\ pending' = pending \cup {offered + 1}
  /\ active' = IF Ready THEN offered + 1 ELSE active
  /\ sent' = 0
  /\ UNCHANGED <<peer, order, replay>>

\* Variant that goes on counting until the hello is answered.
RotateSendKeyCountingOn ==
  /\ offered < MaxHellos
  /\ offered' = offered + 1
  /\ pending' = pending \cup {offered + 1}
  /\ UNCHANGED <<peer, order, active, sent, replay>>

\* A new hello: the active key stays the one to send with.  The count starts
\* again, whether or not a phone will answer.
RotateSendKey ==
  /\ offered < MaxHellos
  /\ offered' = offered + 1
  /\ pending' = pending \cup {offered + 1}
  /\ sent' = 0
  /\ UNCHANGED <<peer, order, active, replay>>

\* _store_key_set: the key sets and their order once k is negotiated with e.
\* The oldest beyond the limit is dropped unless it is the active one.
OrderWith(k) ==
  IF k \in Table THEN order
  ELSE LET longer == Append(order, k)
       IN IF Len(longer) > MaxKeySets THEN Tail(longer) ELSE longer

\* Variant that makes room by dropping the newest key set instead.
DropNewestWith(k) ==
  IF k \notin Table /\ Len(order) >= MaxKeySets
  THEN {order[Len(order)]}
  ELSE {}

Dropped(k) ==
  IF k \notin Table /\ Len(order) >= MaxKeySets
  THEN {Head(order)} \ {active}
  ELSE {}

\* Variant that keeps an answered hello on offer.
ApplyPhoneHelloKeepingOffer(k, e) ==
  /\ k \in pending
  /\ peer' = [x \in Keys |-> IF x = k THEN e
                             ELSE IF x \in Dropped(k) THEN NoPeer ELSE peer[x]]
  /\ replay' = [replay EXCEPT ![k] = <<>>]
  /\ order' = OrderWith(k)
  /\ active' = k
  /\ sent' = 0
  /\ UNCHANGED <<offered, pending>>

\* A phone answers hello k.  Any other key id is refused ("unknown-key").
ApplyPhoneHello(k, e) ==
  /\ k \in pending
  /\ peer' = [x \in Keys |-> IF x = k THEN e
                             ELSE IF x \in Dropped(k) THEN NoPeer ELSE peer[x]]
  /\ replay' = [replay EXCEPT ![k] = <<>>]
  /\ order' = OrderWith(k)
  /\ active' = k
  /\ sent' = 0
  /\ pending' = pending \ {k}
  /\ UNCHANGED offered

\* _encode_frame: the frame carries the active key id and its key set's peer.
EncodeFrame ==
  /\ Ready
  /\ sent' = sent + 1
  /\ UNCHANGED <<offered, pending, peer, order, active, replay>>

\* What decode_frame makes of a frame encrypted for key k and ephemeral e:
\* the checks in the code's order.
DecodeResult(k, e, n) ==
  CASE k \notin Table              -> "unknown-key"
    [] k \in Table /\ n \in NoncesIn(replay[k])  -> "replay-detected"
    [] k \in Table /\ n \notin NoncesIn(replay[k]) /\ peer[k] # e -> "undecryptable"
    [] OTHER                       -> "accepted"

\* Variant that forgets the nonce it has just accepted once the cache is full.
RememberedIfRoom(s, n) == IF Len(s) < CacheSize THEN Append(s, n) ELSE s

\* _ReplayCache.remember: the oldest nonce makes room.
Remembered(s, n) ==
  IF Len(s) < CacheSize THEN Append(s, n) ELSE Append(Tail(s), n)

\* A frame that is refused changes nothing; an accepted nonce is remembered.
DecodeFrame(k, e, n) ==
  /\ DecodeResult(k, e, n) = "accepted"
  /\ replay' = [replay EXCEPT ![k] = Remembered(@, n)]
  /\ UNCHANGED <<offered, pending, peer, order, active, sent>>

-----------------------------------------------------------------------------
(* The codec by itself: its owner rotates, encodes and applies what the    *)
(* network brings, in any order, including stale hellos and old frames.    *)

CodecNext ==
  \/ RotateSendKey
  \/ \E k \in Keys, e \in Ephemerals : ApplyPhoneHello(k, e)
  \/ EncodeFrame
  \/ \E k \in Keys, e \in Ephemerals, n \in Nonces : DecodeFrame(k, e, n)

CodecSpec == CodecInit /\ [][CodecNext]_codecVars

-----------------------------------------------------------------------------
CodecTypeOK ==
  /\ offered \in 0..MaxHellos
  /\ pending \subseteq 1..offered
  /\ peer \in [Keys -> Ephemerals \cup {NoPeer}]
  /\ order \in Seq(1..offered)
  /\ active \in 0..offered
  /\ sent \in Nat
  /\ replay \in [Keys -> Seq(Nonces)]

(***************************************************************************)
(* The key table and its eviction order agree, hold at most MaxKeySets key *)
(* sets, and the active key is the newest of them: encode_frame never      *)
(* looks up a key that has been evicted (protocol.py 322, 344-353).        *)
(***************************************************************************)
KeyTableConsistent ==
  /\ Len(order) <= MaxKeySets
  /\ Table = {order[i] : i \in DOMAIN order}
  /\ \A i, j \in DOMAIN order : i # j => order[i] # order[j]
  /\ IF Ready THEN order # <<>> /\ active = order[Len(order)] ELSE order = <<>>

(***************************************************************************)
(* A key id is negotiated at most once: what is still on offer has no key  *)
(* set (lines 389-422).                                                    *)
(***************************************************************************)
OfferedOnce == pending \cap Table = {}

(***************************************************************************)
(* Changing the send key keeps the key set in use until then, so frames in *)
(* flight when the phone answers a rotation hello still decrypt (lines     *)
(* 344-353, 419-420).                                                      *)
(***************************************************************************)
PreviousKeySurvives ==
  [][(active' # active /\ Ready) => peer'[active] = peer[active]]_codecVars

(***************************************************************************)
(* A key set, once negotiated, is never replaced by another for the same   *)
(* key id, and one that was dropped never comes back: a late or repeated   *)
(* phone hello cannot change what a key id means (lines 389-395, 419-422). *)
(***************************************************************************)
KeySetsAreFinal ==
  [][\A k \in Keys :
       peer[k] # NoPeer \/ (k <= offered /\ k \notin pending)
         => peer'[k] \in {peer[k], NoPeer}]_codecVars
=============================================================================
