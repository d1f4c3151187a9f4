----------------------------- MODULE PairingProofs -----------------------------
(***************************************************************************)
(* What Pairing's run checks of the dialog's QR images and of the first    *)
(* phone, for every number of workers, pipes, pictures and mishaps.        *)
(***************************************************************************)
EXTENDS Pairing, TLAPS

PipePlaces == {"reading", "first", "later", "calling", "reported"}

\* What may become of a call.
Outcomes == {"shows", "nothing to show", "failed", "no answer"}

\* The thread that was first has not come to an end.
FirstIsOnItsWay == \E p \in Pipes : pipe[p] \in {"first", "calling"}

\* Not inductive without "later": such a thread sets client_connected again,
\* perhaps after the remote was stopped.
PhoneInv ==
  /\ pipe \in [Pipes -> PipePlaces]
  /\ connected \/ (\E p \in Pipes : pipe[p] = "later") =>
       outcome \in Outcomes \/ FirstIsOnItsWay

\* While the monitor draws there is no picture, and it has ended when the
\* dialog is gone, unless nobody waited for it.
QrInv ==
  /\ outlived \in BOOLEAN
  /\ outlived => office = "gone"
  /\ ~outlived =>
       /\ files \subseteq {qr_path}
       /\ monitor = "drawing" => files = {}
       /\ office = "gone" => monitor = "done" /\ files = {}

IInv == PhoneInv /\ QrInv

\* Initially no call has begun and no picture is on disk.
LEMMA InitInvariant == Init => IInv
BY DEF Init, IInv, PhoneInv, QrInv, PipePlaces, FirstIsOnItsWay

-----------------------------------------------------------------------------
(* The threads that pipe.                                                  *)

\* A thread that finds no phone connected becomes the first, which is on its
\* way.
LEMMA ReadsKeeps ==
  ASSUME PhoneInv, NEW p \in Pipes, Reads(p)
  PROVE  PhoneInv'
<1> USE DEF PhoneInv
<1>1. pipe' \in [Pipes -> PipePlaces]
  BY DEF Reads, PipePlaces
<1>2. CASE connected
  <2>1. outcome \in Outcomes \/ FirstIsOnItsWay
    BY <1>2
  <2>2. FirstIsOnItsWay => FirstIsOnItsWay'
    BY DEF Reads, FirstIsOnItsWay
  <2> QED BY <1>1, <2>1, <2>2 DEF Reads, serverVars
<1>3. CASE ~connected
  <2>1. pipe'[p] = "first"
    BY <1>3 DEF Reads
  <2> QED BY <1>1, <2>1 DEF FirstIsOnItsWay
<1> QED BY <1>2, <1>3

\* Only the first thread marks a phone as connected before any show was
\* tried.
LEMMA MarksKeeps ==
  ASSUME PhoneInv, NEW p \in Pipes, Marks(p)
  PROVE  PhoneInv'
<1> USE DEF PhoneInv
<1>1. pipe' \in [Pipes -> PipePlaces]
  BY DEF Marks, PipePlaces
<1>2. CASE pipe[p] = "first"
  BY <1>1, <1>2 DEF Marks, FirstIsOnItsWay
<1>3. CASE pipe[p] = "later"
  <2>1. outcome \in Outcomes \/ FirstIsOnItsWay
    BY <1>3
  <2>2. FirstIsOnItsWay => FirstIsOnItsWay'
    BY <1>3 DEF Marks, FirstIsOnItsWay
  <2> QED BY <1>1, <2>1, <2>2 DEF Marks
<1> QED BY <1>2, <1>3 DEF Marks

\* A thread whose call ends has learnt what became of it.
LEMMA StartsShowKeeps ==
  ASSUME PhoneInv, NEW p \in Pipes, StartsShow(p)
  PROVE  PhoneInv'
<1> USE DEF PhoneInv
<1>1. pipe' \in [Pipes -> PipePlaces]
  BY DEF StartsShow, PipePlaces
<1>2. outcome' \in Outcomes
  BY DEF StartsShow, OfficeStartsShow, Outcomes
<1> QED BY <1>1, <1>2

\* Nothing else touches what PhoneInv speaks of but the end of the server,
\* which forgets the phone.
LEMMA OthersKeepPhoneInv ==
  ASSUME PhoneInv, UNCHANGED callVars, connected' = connected \/ connected' = FALSE
  PROVE  PhoneInv'
<1>1. pipe' = pipe /\ outcome' = outcome
  BY DEF callVars
<1>2. FirstIsOnItsWay' <=> FirstIsOnItsWay
  BY <1>1 DEF FirstIsOnItsWay
<1> QED BY <1>1, <1>2 DEF PhoneInv

-----------------------------------------------------------------------------
(* The dialog and its monitor.                                             *)

\* The monitor leaves no picture on disk but the one the dialog knows of.
LEMMA MonitorKeepsQrInv ==
  ASSUME QrInv, MonitorStep
  PROVE  QrInv'
<1> USE DEF QrInv
<1>1. CASE MonitorAsks
  BY <1>1 DEF MonitorAsks
<1>2. CASE MonitorPairs
  <2>1. ~outlived => files' \subseteq {qr_path'}
    BY <1>2 DEF MonitorPairs, RemovesPicture
  <2>2. ~outlived => (monitor' = "drawing" => files' = {})
    BY <1>2 DEF MonitorPairs, RemovesPicture
  <2> QED BY <1>2, <2>1, <2>2 DEF MonitorPairs
<1>3. CASE MonitorDraws
  BY <1>3 DEF MonitorDraws
<1>4. CASE MonitorIsRead
  BY <1>4 DEF MonitorIsRead
<1>5. CASE MonitorCloses
  BY <1>5 DEF MonitorCloses
<1> QED BY <1>1, <1>2, <1>3, <1>4, <1>5 DEF MonitorStep

\* Closing the dialog leaves pictures and paths as they are.
LEMMA UserClosesKeepsQrInv ==
  ASSUME QrInv, UserCloses
  PROVE  QrInv'
BY DEF QrInv, UserCloses

\* Cleaning up removes the picture.
LEMMA CleansUpKeepsQrInv ==
  ASSUME QrInv, CleansUp
  PROVE  QrInv'
<1>1. ~outlived /\ files' = {}
  BY DEF QrInv, CleansUp, RemovesPicture
<1> QED BY <1>1 DEF QrInv, CleansUp, RemovesPicture

\* What does not touch the dialog does not touch its picture either.
LEMMA OthersKeepQrInv ==
  ASSUME QrInv, UNCHANGED dialogVars
  PROVE  QrInv'
BY DEF QrInv, dialogVars

-----------------------------------------------------------------------------
\* Every step keeps the strengthened invariant.
LEMMA Inductive == IInv /\ [Next]_vars => IInv'
<1> SUFFICES ASSUME PhoneInv, QrInv, [Next]_vars PROVE PhoneInv' /\ QrInv'
  BY DEF IInv
<1>1. CASE BridgeStep
  <2>1. UNCHANGED <<serverVars, callVars, dialogVars>>
    BY <1>1 DEF BridgeStep, Request, Watch, RetryLater
  <2> QED BY <2>1, OthersKeepPhoneInv, OthersKeepQrInv DEF serverVars
<1>2. CASE \E w \in Workers : WorkerStep(w) \/ PeerCloses(w)
  <2>1. UNCHANGED <<serverVars, callVars, dialogVars>>
    BY <1>2 DEF WorkerStep, WorkerConnects, WorkerIsConnected, PipeEnds, PeerCloses
  <2> QED BY <2>1, OthersKeepPhoneInv, OthersKeepQrInv DEF serverVars
<1>3. CASE \E p \in Pipes : Reads(p) \/ PipeStep(p)
  <2>1. UNCHANGED dialogVars
    BY <1>3 DEF Reads, PipeStep, Marks, StartsShow
  <2>2. PhoneInv'
    BY <1>3, ReadsKeeps, MarksKeeps, StartsShowKeeps DEF PipeStep
  <2> QED BY <2>1, <2>2, OthersKeepQrInv
<1>4. CASE StopTunnel
  BY <1>4, OthersKeepPhoneInv, OthersKeepQrInv DEF StopTunnel, serverVars
<1>5. CASE StopServer
  BY <1>5, OthersKeepPhoneInv, OthersKeepQrInv DEF StopServer
<1>6. CASE MonitorStep
  <2>1. UNCHANGED <<serverVars, callVars>>
    BY <1>6 DEF MonitorStep, MonitorAsks, MonitorPairs, MonitorDraws, MonitorIsRead, MonitorCloses
  <2> QED BY <1>6, <2>1, OthersKeepPhoneInv, MonitorKeepsQrInv DEF serverVars
<1>7. CASE UserCloses
  BY <1>7, OthersKeepPhoneInv, UserClosesKeepsQrInv DEF UserCloses, serverVars
<1>8. CASE CleansUp
  BY <1>8, OthersKeepPhoneInv, CleansUpKeepsQrInv DEF CleansUp, serverVars
<1>9. CASE UNCHANGED vars
  BY <1>9, OthersKeepPhoneInv, OthersKeepQrInv DEF vars, serverVars
<1> QED BY <1>1, <1>2, <1>3, <1>4, <1>5, <1>6, <1>7, <1>8, <1>9 DEF Next

\* The strengthened invariant holds of every behaviour.
LEMMA Invariance == PairingSpec => []IInv
<1>1. Init /\ [][Next]_vars => []IInv
  BY InitInvariant, Inductive, PTL
<1> QED BY <1>1, PTL DEF PairingSpec

\* No QR image, which carries the session's secret, is left on disk by a
\* dialog that has waited for its monitor (office_ui.py, 984-990).
THEOREM ImagesAreRemoved == PairingSpec => []QrImagesAreRemoved
<1>1. IInv => QrImagesAreRemoved
  BY DEF IInv, QrInv, QrImagesAreRemoved
<1> QED BY <1>1, Invariance, PTL

\* However many threads see the first phone at once, a remote that counts it
\* as connected has started the show or found it running, or is about to,
\* unless it found nothing to show, the command failed or the office gave no
\* answer (local_server.py, 933-956).
THEOREM FirstPhoneIsServed == PairingSpec => []FirstPhoneStartsShow
<1>1. IInv => FirstPhoneStartsShow
  BY DEF IInv, PhoneInv, FirstIsOnItsWay, FirstPhoneStartsShow, Outcomes
<1> QED BY <1>1, Invariance, PTL
=============================================================================
