--------------------------- MODULE UnoQueueProofs ---------------------------
(***************************************************************************)
(* Proofs about UnoQueue for any set of calls and any table size.          *)
(*                                                                         *)
(* The inductive invariant is TypeOK with SlotInv, which says of each call *)
(* where its request can be, given where its thread is and whether its     *)
(* callback has run.                                                       *)
(***************************************************************************)
EXTENDS UnoQueue, FiniteSetTheorems, TLAPS

\* The part of the state that the table and the two sides share.
SlotInv ==
  /\ NoSlotLeak
  /\ \A c \in Calls :
       /\ pc[c] = "start" => /\ outcome[c] = "none"
                             /\ c # running
       /\ pc[c] # "done" => answer[c] = "none"
       /\ c \in completed => /\ outcome[c] # "none"
                              /\ c # running
       /\ c = running => answer[c] \in {"none", "unavailable"}

IInv == TypeOK /\ SlotInv

\* A queue that has just been made has the invariant.
LEMMA InitInv == Init => IInv
  BY CallsAssumption DEF Init, IInv, TypeOK, SlotInv, NoSlotLeak, Bridges, Places, Outcomes

\* Every step keeps the types.
LEMMA TypeStep == TypeOK /\ [Next]_vars => TypeOK'
<1> SUFFICES ASSUME TypeOK, [Next]_vars PROVE TypeOK'
  OBVIOUS
<1> USE DEF TypeOK, Places, Outcomes
<1>1. ASSUME NEW c \in Calls, CallWithoutOffice(c) PROVE TypeOK'
  BY <1>1 DEF CallWithoutOffice, Leave
<1>2. ASSUME NEW c \in Calls, CallInPlace(c) PROVE TypeOK'
  BY <1>2 DEF CallInPlace, Leave
<1>3. ASSUME NEW c \in Calls, Refuse(c) PROVE TypeOK'
  BY <1>3 DEF Refuse, Leave
<1>4. ASSUME NEW c \in Calls, Insert(c) PROVE TypeOK'
  BY <1>4 DEF Insert
<1>5. ASSUME NEW c \in Calls, Post(c) PROVE TypeOK'
  BY <1>5 DEF Post
<1>6. ASSUME NEW c \in Calls, PostFails(c) PROVE TypeOK'
  BY <1>6 DEF PostFails, Leave
<1>7. ASSUME NEW c \in Calls, ReturnResult(c) PROVE TypeOK'
  BY <1>7 DEF ReturnResult, Leave
<1>8. ASSUME NEW c \in Calls, WaitExpires(c) PROVE TypeOK'
  BY <1>8 DEF WaitExpires
<1>9. ASSUME NEW c \in Calls, Abandon(c) PROVE TypeOK'
  BY <1>9 DEF Abandon, Leave
<1>10. CASE Execute
  <2>1. posted' \in Seq(Calls) /\ Head(posted) \in Calls
    BY <1>10 DEF Execute
  <2> QED BY <2>1, <1>10 DEF Execute
<1>11. CASE RunCallback
  BY <1>11 DEF RunCallback
<1>12. CASE SetCompleted
  BY <1>12 DEF SetCompleted
<1>13. CASE UNCHANGED vars
  BY <1>13 DEF vars
<1> QED
  BY <1>1, <1>2, <1>3, <1>4, <1>5, <1>6, <1>7, <1>8, <1>9, <1>10, <1>11, <1>12, <1>13
  DEF Next, CallStep, OfficeStep, Finished

\* Every step keeps the table and the two sides in agreement.
LEMMA SlotStep == IInv /\ [Next]_vars => SlotInv'
<1> SUFFICES ASSUME IInv, [Next]_vars PROVE SlotInv'
  OBVIOUS
<1> USE CallsAssumption DEF IInv, TypeOK, SlotInv, NoSlotLeak, Outcomes
<1>1. ASSUME NEW c \in Calls, CallWithoutOffice(c) PROVE SlotInv'
  BY <1>1 DEF CallWithoutOffice, Leave
<1>2. ASSUME NEW c \in Calls, CallInPlace(c) PROVE SlotInv'
  BY <1>2 DEF CallInPlace, Leave
<1>3. ASSUME NEW c \in Calls, Refuse(c) PROVE SlotInv'
  BY <1>3 DEF Refuse, Leave
<1>4. ASSUME NEW c \in Calls, Insert(c) PROVE SlotInv'
  BY <1>4 DEF Insert
<1>5. ASSUME NEW c \in Calls, Post(c) PROVE SlotInv'
  BY <1>5 DEF Post
<1>6. ASSUME NEW c \in Calls, PostFails(c) PROVE SlotInv'
  BY <1>6 DEF PostFails, Leave
<1>7. ASSUME NEW c \in Calls, ReturnResult(c) PROVE SlotInv'
  BY <1>7 DEF ReturnResult, Leave
<1>8. ASSUME NEW c \in Calls, WaitExpires(c) PROVE SlotInv'
  BY <1>8 DEF WaitExpires
<1>9. ASSUME NEW c \in Calls, Abandon(c) PROVE SlotInv'
  BY <1>9 DEF Abandon, Leave
<1>10. CASE Execute
  <2>1. Head(posted) \in Calls
    BY <1>10 DEF Execute
  <2> QED BY <2>1, <1>10 DEF Execute
<1>11. CASE RunCallback
  BY <1>11 DEF RunCallback
<1>12. CASE SetCompleted
  BY <1>12 DEF SetCompleted
<1>13. CASE UNCHANGED vars
  BY <1>13 DEF vars
<1> QED
  BY <1>1, <1>2, <1>3, <1>4, <1>5, <1>6, <1>7, <1>8, <1>9, <1>10, <1>11, <1>12, <1>13
  DEF Next, CallStep, OfficeStep, Finished

(***************************************************************************)
(* Every reachable state satisfies the inductive invariant.                *)
(***************************************************************************)
THEOREM Inductive == Spec => []IInv
<1>1. IInv /\ [Next]_vars => IInv'
  BY TypeStep, SlotStep DEF IInv
<1> QED BY InitInv, <1>1, PTL DEF Spec

(***************************************************************************)
(* Types are kept by every step of the callers and of the office thread.   *)
(***************************************************************************)
THEOREM TypeCorrect == Spec => []TypeOK
<1>1. IInv => TypeOK
  BY DEF IInv
<1> QED BY Inductive, <1>1, PTL

(***************************************************************************)
(* No slot of the request table is ever lost, for any number of callers.   *)
(***************************************************************************)
THEOREM SlotsAreNotLost == Spec => []NoSlotLeak
<1>1. IInv => NoSlotLeak
  BY DEF IInv, SlotInv
<1> QED BY Inductive, <1>1, PTL

-----------------------------------------------------------------------------
\* A finite table within the limit.
Bounded == IsFiniteSet(requests) /\ CapacityRespected

\* Every step keeps the table finite and within its capacity.
LEMMA BoundedStep == Bounded /\ [Next]_vars => Bounded'
<1> SUFFICES ASSUME Bounded, [Next]_vars PROVE Bounded'
  OBVIOUS
<1> USE MaxPendingAssumption DEF Bounded, CapacityRespected
<1>1. ASSUME NEW c, requests' = requests \ {c} PROVE Bounded'
  <2>1. IsFiniteSet(requests') /\ Cardinality(requests') <= Cardinality(requests)
    BY <1>1, FS_Subset
  <2>2. Cardinality(requests) \in Nat /\ Cardinality(requests') \in Nat
    BY <2>1, FS_CardinalityType
  <2> QED BY <2>1, <2>2
<1>2. ASSUME requests' = requests PROVE Bounded'
  BY <1>2
<1>3. ASSUME NEW c, Insert(c) PROVE Bounded'
  <2>1. Cardinality(requests) \in Nat
    BY FS_CardinalityType
  <2>2. /\ IsFiniteSet(requests \cup {c})
        /\ Cardinality(requests \cup {c}) \in {Cardinality(requests), Cardinality(requests) + 1}
    BY <2>1, FS_AddElement
  <2> QED BY <1>3, <2>1, <2>2 DEF Insert
<1>4. CASE Execute
  BY <1>4, <1>1, <1>2 DEF Execute
<1>5. CASE RunCallback \/ SetCompleted \/ Finished \/ UNCHANGED vars
  BY <1>5, <1>2 DEF RunCallback, SetCompleted, Finished, vars
<1>6. ASSUME NEW c \in Calls, CallStep(c) PROVE Bounded'
  BY <1>6, <1>1, <1>2, <1>3
  DEF CallStep, CallWithoutOffice, CallInPlace, Refuse, Post, PostFails, ReturnResult,
      WaitExpires, Abandon
<1> QED
  BY <1>4, <1>5, <1>6 DEF Next, OfficeStep

(***************************************************************************)
(* The table of pending requests stays within _MAX_PENDING_REQUESTS.       *)
(***************************************************************************)
THEOREM TableIsBounded == Spec => []CapacityRespected
<1>1. Init => Bounded
  BY FS_EmptySet, MaxPendingAssumption DEF Init, Bounded, CapacityRespected
<1>2. Bounded => CapacityRespected
  BY DEF Bounded
<1> QED BY <1>1, <1>2, BoundedStep, PTL DEF Spec

-----------------------------------------------------------------------------
(***************************************************************************)
(* Each step of the queue is a step of OfficeCalls or leaves it unchanged. *)
(***************************************************************************)
LEMMA RefinementStep == IInv /\ [Next]_vars => [Office!Next]_(Office!vars)
<1> SUFFICES ASSUME IInv, [Next]_vars PROVE Office!Next \/ UNCHANGED Office!vars
  OBVIOUS
<1> USE CallsAssumption
    DEF IInv, TypeOK, SlotInv, NoSlotLeak, Outcomes, Phase, Office!Next, Office!vars
<1>1. ASSUME NEW c \in Calls,
             \/ CallWithoutOffice(c) \/ Refuse(c) \/ PostFails(c) \/ Abandon(c)
      PROVE Office!GiveUp(c)
  BY <1>1 DEF CallWithoutOffice, Refuse, PostFails, Abandon, Leave, Office!GiveUp
<1>2. ASSUME NEW c \in Calls, CallInPlace(c)
      PROVE \E o \in {"ok", "error"} : Office!RunInPlace(c, o)
  <2>1. PICK o \in {"ok", "error"} : outcome' = [outcome EXCEPT ![c] = o] /\ Leave(c, o)
    BY <1>2 DEF CallInPlace
  <2>2. Phase[c] = "unstarted" /\ answer[c] = "none" /\ running' = running
    BY <1>2 DEF CallInPlace
  <2>3. Phase' = [Phase EXCEPT ![c] = o] /\ answer' = [answer EXCEPT ![c] = o]
    BY <2>1, <2>2 DEF Leave
  <2>4. Office!RunInPlace(c, o)
    BY <2>2, <2>3 DEF Office!RunInPlace
  <2> QED BY <2>1, <2>4
<1>3. ASSUME NEW c \in Calls, Insert(c) \/ Post(c) \/ WaitExpires(c)
      PROVE UNCHANGED Office!vars
  BY <1>3 DEF Insert, Post, WaitExpires
<1>4. ASSUME NEW c \in Calls, ReturnResult(c) PROVE Office!Return(c)
  BY <1>4 DEF ReturnResult, Leave, Office!Return
<1>5. CASE Execute
  <2>1. CASE Head(posted) \in requests /\ running' = Head(posted)
    <3>1. PICK c \in Calls : c \in requests /\ c = Head(posted)
      BY <2>1
    <3>2. Office!Start(c)
      BY <1>5, <2>1, <3>1, ZenonT(30) DEF Execute, Office!Start
    <3> QED BY <3>1, <3>2
  <2>2. CASE UNCHANGED running
    BY <1>5, <2>2 DEF Execute
  <2> QED BY <1>5, <2>1, <2>2 DEF Execute
<1>6. CASE RunCallback
  <2>1. running \in Calls
    BY <1>6 DEF RunCallback
  <2>2. PICK o \in {"ok", "error"} : outcome' = [outcome EXCEPT ![running] = o]
    BY <1>6 DEF RunCallback
  <2>3. /\ running # NoCall /\ outcome[running] = "none"
        /\ UNCHANGED <<running, answer>>
    BY <1>6 DEF RunCallback
  <2>4. Phase[running] = "running"
    BY <2>1, <2>3
  <2>5. Phase' = [Phase EXCEPT ![running] = o]
    BY <2>1, <2>2, <2>3
  <2>6. Office!Finish(running, o)
    BY <2>3, <2>4, <2>5 DEF Office!Finish
  <2> QED BY <2>1, <2>2, <2>6
<1>7. CASE SetCompleted
  BY <1>7 DEF SetCompleted
<1>8. CASE UNCHANGED vars
  BY <1>8 DEF vars
<1> QED
  BY <1>1, <1>2, <1>3, <1>4, <1>5, <1>6, <1>7, <1>8
  DEF Next, CallStep, OfficeStep, Finished

(***************************************************************************)
(* The callback queue implements at-most-once office calls: nothing is run *)
(* twice, nothing is started for a caller that has its answer, and a       *)
(* result is handed only to the call that produced it.                     *)
(***************************************************************************)
THEOREM QueueImplementsOfficeCalls == Spec => ImplementsOfficeCalls
<1>1. Init => Office!Init
  BY CallsAssumption DEF Init, Office!Init, Phase
<1> QED BY <1>1, Inductive, RefinementStep, PTL DEF Spec, ImplementsOfficeCalls, Office!Spec
=============================================================================
