---------------------------- MODULE MCSecureCodec ----------------------------
(* SecureCodec with histories of the nonces accepted under each key and of *)
(* the frames and rotation hellos its owner made.                          *)
EXTENDS SecureCodec, TLC, FiniteSetsExt

CONSTANTS
  MaxAccepted,  \* bound of the model: frames accepted in all
  MaxFrames     \* bound of the model: frames encoded in all

VARIABLES
  log,          \* every nonce accepted under each key, in order
  encoded,      \* frames encoded so far
  rotations     \* hellos made because a rotation was due

historyVars == <<log, encoded, rotations>>
mcVars == <<codecVars, historyVars>>

MCInit ==
  /\ CodecInit
  /\ log = [k \in Keys |-> <<>>]
  /\ encoded = 0
  /\ rotations = 0

\* A hello may also be made when none is due: for a new connection.
Offer ==
  /\ RotateSendKey
  /\ rotations' = IF ShouldRotateSendKey THEN rotations + 1 ELSE rotations
  /\ UNCHANGED <<log, encoded>>

Encode ==
  /\ EncodeFrame
  /\ encoded' = encoded + 1
  /\ UNCHANGED <<log, rotations>>

Answer(k, e) == ApplyPhoneHello(k, e) /\ UNCHANGED historyVars

Accept(k, e, n) ==
  /\ DecodeFrame(k, e, n)
  /\ log' = [log EXCEPT ![k] = Append(@, n)]
  /\ UNCHANGED <<encoded, rotations>>

MCNext ==
  \/ Offer
  \/ encoded < MaxFrames /\ Encode
  \/ \E k \in Keys, e \in Ephemerals : Answer(k, e)
  \/ /\ MapThenSumSet(LAMBDA x : Len(log[x]), Keys) < MaxAccepted
     /\ \E k \in Keys, e \in Ephemerals, n \in Nonces : Accept(k, e, n)

\* The names of ephemerals and nonces play no part.
Symmetry == Permutations(Ephemerals) \cup Permutations(Nonces)

MCSpec == MCInit /\ [][MCNext]_mcVars

(***************************************************************************)
(* No frame is accepted twice under a key within a window of CacheSize     *)
(* accepted frames (protocol.py 95-111, 281-286, 304): beyond the window   *)
(* the cache has forgotten it.                                             *)
(***************************************************************************)
NoReplayWithinWindow ==
  \A k \in Keys : \A i, j \in DOMAIN log[k] :
    (i < j /\ j - i <= CacheSize) => log[k][i] # log[k][j]

(***************************************************************************)
(* A rotation falls due at most once in Rotation frames, although hellos   *)
(* stay unanswered, are answered late or are made for a new connection in  *)
(* between: the owner never makes a key pair and a hello for every frame   *)
(* (protocol.py 157-159, 176-190, 315-342).                                *)
(***************************************************************************)
OffersArePaced == rotations * Rotation + sent <= encoded
=============================================================================
