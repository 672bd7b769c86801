------------------------- MODULE ResearchJobsProofs -------------------------
(***************************************************************************)
(* Proofs about ResearchJobs, for any number of jobs and processes.        *)
(***************************************************************************)
EXTENDS ResearchJobs, TLAPS

USE JobSetsAssumption, ProcessesAssumption, BoundsAssumption

(* Every SQL statement of the queue leaves a row with a known status, an   *)
(* amount or none, and Boolean flags.                                      *)
LEMMA QueueOps ==
  ASSUME QueueTypeOK, NEW j \in Jobs, NEW s \in Statuses, NEW c \in Amounts \cup {NoCost},
         \/ Enqueue(j) \/ ClaimSubmission(j) \/ CancelQueuedSubmission(j)
         \/ CancelActiveJob(j) \/ UpdateStatus(j, s) \/ RecordHandle(j)
         \/ UpdateResults(j, c) \/ ClearCleanupMetadata(j) \/ UNCHANGED queueVars
  PROVE  QueueTypeOK'
<1> USE DEF QueueTypeOK, Statuses, Terminal, queueVars
<1>1. CASE Enqueue(j)
  BY <1>1 DEF Enqueue
<1>2. CASE ClaimSubmission(j)
  BY <1>2 DEF ClaimSubmission
<1>3. CASE CancelQueuedSubmission(j)
  BY <1>3 DEF CancelQueuedSubmission
<1>4. CASE CancelActiveJob(j)
  BY <1>4 DEF CancelActiveJob
<1>5. CASE UpdateStatus(j, s)
  BY <1>5 DEF UpdateStatus
<1>6. CASE RecordHandle(j)
  BY <1>6 DEF RecordHandle
<1>7. CASE UpdateResults(j, c)
  BY <1>7 DEF UpdateResults
<1>8. CASE ClearCleanupMetadata(j)
  BY <1>8 DEF ClearCleanupMetadata
<1>9. CASE UNCHANGED queueVars
  BY <1>9
<1> QED BY <1>1, <1>2, <1>3, <1>4, <1>5, <1>6, <1>7, <1>8, <1>9

(* Every operation on holds, ledger and freeze, and every outcome of a     *)
(* settlement, leaves the money state of all jobs well typed.              *)
LEMMA MoneyOps ==
  ASSUME MoneyTypeOK, NEW j \in Jobs, NEW e \in Events,
         \/ Reserve(j) \/ Mark(j) \/ Refund(j) \/ Settle(j, e) \/ SettleTorn(j, e)
         \/ SettleConflict(j, e) \/ SettleUnavailable(e) \/ RecordIntegrityFailure(j)
         \/ RecordUnreserved(j) \/ FreezeOnly \/ ReconcileRows \/ UNCHANGED moneyVars
  PROVE  MoneyTypeOK'
<1> USE DEF MoneyTypeOK, HoldStates, moneyVars
<1>0. ReconciledHolds \in [Jobs -> HoldStates]
  BY DEF ReconciledHolds
<1>1. CASE Reserve(j)
  BY <1>0, <1>1 DEF Reserve
<1>2. CASE Mark(j)
  BY <1>0, <1>2 DEF Mark
<1>3. CASE Refund(j)
  BY <1>3 DEF Refund
<1>4. CASE Settle(j, e)
  BY <1>4 DEF Settle, FreezeIfOver
<1>5. CASE SettleTorn(j, e)
  BY <1>5 DEF SettleTorn, FreezeIfOver
<1>6. CASE SettleConflict(j, e)
  BY <1>6 DEF SettleConflict, FreezeIfOver
<1>7. CASE SettleUnavailable(e)
  BY <1>7 DEF SettleUnavailable, FreezeIfOver
<1>8. CASE RecordIntegrityFailure(j)
  BY <1>8 DEF RecordIntegrityFailure
<1>9. CASE RecordUnreserved(j)
  <2>1. Unreserved \in Events
    BY DEF Unreserved, Event, Events, Writers
  <2> QED BY <1>9, <2>1 DEF RecordUnreserved
<1>10. CASE FreezeOnly
  BY <1>10 DEF FreezeOnly
<1>11. CASE ReconcileRows
  BY <1>0, <1>11 DEF ReconcileRows
<1>12. CASE UNCHANGED moneyVars
  BY <1>12
<1> QED BY <1>1, <1>2, <1>3, <1>4, <1>5, <1>6, <1>7, <1>8, <1>9, <1>10, <1>11, <1>12

(* Provider answers, the clock and the budget of faults stay in range. *)
LEMMA WorldOps ==
  ASSUME WorldTypeOK, NEW j \in Jobs,
         artifact' \in [Jobs -> BOOLEAN], age' \in [Jobs -> 0..2],
         Fault \/ NoFault,
         \/ CancelConfirmed(j) \/ CancelUnconfirmed(j) \/ UNCHANGED provider
         \/ \E p \in ProviderStates : provider' = [provider EXCEPT ![j] = p]
  PROVE  WorldTypeOK'
<1>1. faults' \in Nat
  BY DEF WorldTypeOK, Fault, NoFault
<1>2. provider' \in [Jobs -> ProviderStates]
  BY DEF WorldTypeOK, CancelConfirmed, CancelUnconfirmed, ProviderStates
<1> QED BY <1>1, <1>2 DEF WorldTypeOK

-----------------------------------------------------------------------------
(* Types, one lemma per process. *)

(* A step of a submitting task, its crash included, keeps the types. *)
LEMMA DispatchType ==
  ASSUME TypeOK, NEW j \in Jobs, Dispatches(j)
  PROVE  TypeOK'
<1> USE DEF DispatchStep, DispatchReserve, DispatchPrepare, DispatchEnqueue, DispatchRestore,
        DispatchCheck, DispatchClaim, DispatchMark, DispatchPost, DispatchHandoff,
        DispatchCancelQueued, DispatchRefund, DispatchUndo, DispatchUndoSubmit,
        DispatchFailRefund, DispatchFail, DispatchSettleFail, DispatchAbandon,
        DispatchSettleHandoff, DispatchWebRefund, DispatchWebFail, DispatchWebLast,
        DispatchCrash, Dispatches
<1>1. QueueTypeOK'
  <2>1. \/ Enqueue(j) \/ ClaimSubmission(j) \/ CancelQueuedSubmission(j)
        \/ UpdateStatus(j, "failed") \/ RecordHandle(j) \/ UNCHANGED queueVars
    OBVIOUS
  <2>2. "failed" \in Statuses /\ NoCost \in Amounts \cup {NoCost}
    BY DEF Statuses, Terminal
  <2> QED BY <2>1, <2>2, QueueOps DEF TypeOK
<1>2. MoneyTypeOK'
  <2>1. \/ Reserve(j) \/ Mark(j) \/ Refund(j) \/ UNCHANGED moneyVars
        \/ \E w \in Writers : SettlementEnds(j, Event(w, "ceiling"))
    BY DEF Writers
  <2>2. \A w \in Writers : Event(w, "ceiling") \in Events
    BY DEF Event, Events
  <2>3. CASE \E w \in Writers : SettlementEnds(j, Event(w, "ceiling"))
    BY <2>2, <2>3, MoneyOps DEF SettlementEnds, SettlementRaises, TypeOK
  <2>4. CASE Reserve(j) \/ Mark(j) \/ Refund(j) \/ UNCHANGED moneyVars
    BY <2>2, <2>4, MoneyOps DEF Writers, TypeOK
  <2> QED BY <2>1, <2>3, <2>4
<1>3. WorldTypeOK'
  <2>1. \/ CancelConfirmed(j) \/ CancelUnconfirmed(j) \/ UNCHANGED provider
        \/ \E p \in ProviderStates : provider' = [provider EXCEPT ![j] = p]
    BY DEF ProviderStates
  <2>2. Fault \/ NoFault
    BY DEF SettlementEnds, SettlementRaises, InterruptTo
  <2>3. UNCHANGED <<artifact, age>>
    OBVIOUS
  <2> QED BY <2>1, <2>2, <2>3, WorldOps DEF TypeOK, WorldTypeOK
<1>4. DispatchTypeOK'
  BY DEF TypeOK, DispatchTypeOK, DispatchPCs, To, InterruptTo, Raised
<1> QED
  BY <1>1, <1>2, <1>3, <1>4 DEF TypeOK, CancelTypeOK, FinalTypeOK, ReconcileTypeOK,
     finalVars, reconcileVars

(* A step of a user cancellation, its crash included, keeps the types. *)
LEMMA CancelType ==
  ASSUME TypeOK, NEW j \in Jobs, Cancels(j)
  PROVE  TypeOK'
<1> USE DEF Cancels, CancelRequest, CancelStep, CancelUnclaimed, CancelRefresh, CancelRollback,
        CancelProvider, CancelActive, CancelSettle, CancelClose, CancelIntegrity,
        CancelCleanup, CancelCrash, CancelSettles, CancelRefunds
<1>1. QueueTypeOK'
  <2>1. \/ CancelQueuedSubmission(j) \/ CancelActiveJob(j) \/ ClearCleanupMetadata(j)
        \/ UNCHANGED queueVars
    OBVIOUS
  <2>2. "failed" \in Statuses /\ NoCost \in Amounts \cup {NoCost}
    BY DEF Statuses, Terminal
  <2> QED BY <2>1, <2>2, QueueOps DEF TypeOK
<1>2. MoneyTypeOK'
  <2>1. \/ Refund(j) \/ UNCHANGED moneyVars \/ RecordIntegrityFailure(j)
        \/ \E w \in Writers : \/ Settle(j, Event(w, "ceiling"))
                              \/ SettlementRaises(j, Event(w, "ceiling"))
    BY DEF Writers
  <2>2. \A w \in Writers : Event(w, "ceiling") \in Events
    BY DEF Event, Events
  <2>3. CASE \E w \in Writers : \/ Settle(j, Event(w, "ceiling"))
                                \/ SettlementRaises(j, Event(w, "ceiling"))
    BY <2>2, <2>3, MoneyOps DEF SettlementRaises, TypeOK
  <2>4. CASE Refund(j) \/ UNCHANGED moneyVars
    BY <2>2, <2>4, MoneyOps DEF Writers, TypeOK
  <2>5. CASE RecordIntegrityFailure(j)
    BY <2>2, <2>5, MoneyOps DEF Writers, TypeOK
  <2> QED BY <2>1, <2>3, <2>4, <2>5
<1>3. WorldTypeOK'
  <2>1. CancelConfirmed(j) \/ CancelUnconfirmed(j) \/ UNCHANGED provider
    BY DEF worldVars
  <2>2. Fault \/ NoFault
    BY DEF SettlementRaises, worldVars, NoFault
  <2>3. UNCHANGED <<artifact, age>>
    BY DEF worldVars
  <2> QED BY <2>1, <2>2, <2>3, WorldOps DEF TypeOK, WorldTypeOK
<1>4. CancelTypeOK'
  BY DEF TypeOK, CancelTypeOK, CancelPCs, CTo
<1> QED
  BY <1>1, <1>2, <1>3, <1>4 DEF TypeOK, DispatchTypeOK, FinalTypeOK, ReconcileTypeOK,
     dispatchVars, finalVars, reconcileVars

(* A step of a worker or of a command-line refresh on one job keeps the    *)
(* types.                                                                  *)
LEMMA FinalizeType ==
  ASSUME TypeOK, NEW f \in Finalizers, NEW j \in Jobs, Finalizes(f, j)
  PROVE  TypeOK'
<1> USE DEF Finalizes, FinalPick, FinalStep, FinalQuery, FinalQueryFails, FinalExpire,
        FinalSave, FinalSettle, FinalResults, FinalReconcile, FinalCleanup, FinalPublish,
        FinalFailSettle, FinalFailReconcile, FinalFreeze, FinalFailCleanup
<1>1. QueueTypeOK'
  <2>1. \/ UpdateStatus(j, fin[f][j].goal) \/ UpdateResults(j, Usage(j))
        \/ ClearCleanupMetadata(j) \/ UNCHANGED queueVars
    OBVIOUS
  <2>2. fin[f][j].goal \in Statuses /\ Usage(j) \in Amounts \cup {NoCost}
    BY DEF TypeOK, FinalTypeOK, FinalStates, Statuses, Usage, Amounts
  <2> QED BY <2>1, <2>2, QueueOps DEF TypeOK
<1>2. MoneyTypeOK'
  <2>1. \/ RecordUnreserved(j) \/ FreezeOnly \/ ReconcileRows \/ UNCHANGED moneyVars
        \/ \E w \in Writers, a \in Amounts : \/ Settle(j, Event(w, a))
                                          \/ SettlementRaises(j, Event(w, a))
    BY DEF Writers, Amounts, CompletionEvent, Usage
  <2>2. \A w \in Writers, a \in Amounts : Event(w, a) \in Events
    BY DEF Event, Events, Amounts
  <2>3. CASE \E w \in Writers, a \in Amounts : \/ Settle(j, Event(w, a))
                                             \/ SettlementRaises(j, Event(w, a))
    BY <2>2, <2>3, MoneyOps DEF SettlementRaises, TypeOK
  <2>4. CASE RecordUnreserved(j) \/ FreezeOnly \/ ReconcileRows \/ UNCHANGED moneyVars
    BY <2>2, <2>4, MoneyOps DEF Writers, Amounts, TypeOK
  <2> QED BY <2>1, <2>3, <2>4
<1>3. WorldTypeOK'
  <2>1. CancelConfirmed(j) \/ CancelUnconfirmed(j) \/ UNCHANGED provider
    BY DEF worldVars
  <2>2. Fault \/ NoFault
    BY DEF SettlementRaises, worldVars, NoFault
  <2>3. artifact' \in [Jobs -> BOOLEAN] /\ age' \in [Jobs -> 0..2]
    BY DEF worldVars, TypeOK, WorldTypeOK
  <2> QED BY <2>1, <2>2, <2>3, WorldOps DEF TypeOK
<1>4. FinalTypeOK'
  <2>1. tried' \in [Finalizers -> SUBSET Jobs]
    BY DEF TypeOK, FinalTypeOK, FTo, Rest
  <2>2. \/ \E p \in FinalPCs : fin' = [fin EXCEPT ![f][j].pc = p]
        \/ \E r \in FinalStates : fin' = [fin EXCEPT ![f][j] = r]
    BY DEF FTo, Rest, Plan, Resting, Goal, FinalStates, FinalPCs, Terminal
  <2>3. fin' \in [Finalizers -> [Jobs -> FinalStates]]
    <3>1. ASSUME NEW p \in FinalPCs, fin' = [fin EXCEPT ![f][j].pc = p]
          PROVE  \E r \in FinalStates : fin' = [fin EXCEPT ![f][j] = r]
      <4>0. fin[f][j] \in FinalStates
        BY DEF TypeOK, FinalTypeOK
      <4>1. [fin[f][j] EXCEPT !.pc = p] \in FinalStates
        BY <4>0 DEF FinalStates
      <4> QED BY <3>1, <4>1
    <3>2. \E r \in FinalStates : fin' = [fin EXCEPT ![f][j] = r]
      BY <2>2, <3>1
    <3> QED BY <3>2 DEF TypeOK, FinalTypeOK
  <2> QED BY <2>1, <2>3 DEF FinalTypeOK
<1> QED
  BY <1>1, <1>2, <1>3, <1>4 DEF TypeOK, DispatchTypeOK, CancelTypeOK, ReconcileTypeOK,
     dispatchVars, reconcileVars

(* So does the death of a worker or of a refresh. *)
LEMMA FinalizerDiesType ==
  ASSUME TypeOK, NEW f \in Finalizers, FinalizerDies(f)
  PROVE  TypeOK'
<1>1. FinalTypeOK'
  BY DEF TypeOK, FinalTypeOK, FinalizerDies, FinalCrash, FinalStates, FinalPCs, Resting, Terminal
<1>2. WorldTypeOK'
  BY DEF TypeOK, WorldTypeOK, FinalizerDies, FinalCrash, Fault
<1> QED
  BY <1>1, <1>2 DEF TypeOK, FinalizerDies, FinalCrash, QueueTypeOK, MoneyTypeOK,
     DispatchTypeOK, CancelTypeOK, ReconcileTypeOK, queueVars, moneyVars, dispatchVars,
     reconcileVars

(* A step of a repair keeps the types: its verdict is a call it can make. *)
LEMMA ReconcileType ==
  ASSUME TypeOK, NEW r \in Reconcilers, Reconciles(r)
  PROVE  TypeOK'
<1> DEFINE j == current[r]
<1> USE DEF Reconciles, ReconcileStep, ReconcileSnapshot, ReconcileJudge, ReconcileDone,
        ReconcileCancel, ReconcileFail, ReconcileSettle, ReconcileIntegrity,
        ReconcileRefund, ReconcileCrash
<1>0. j \in Jobs
  BY DEF TypeOK, ReconcileTypeOK
<1>1. QueueTypeOK'
  <2>1. CancelQueuedSubmission(j) \/ UpdateStatus(j, "failed") \/ UNCHANGED queueVars
    OBVIOUS
  <2>2. "failed" \in Statuses /\ NoCost \in Amounts \cup {NoCost}
    BY DEF Statuses, Terminal
  <2> QED BY <1>0, <2>1, <2>2, QueueOps DEF TypeOK
<1>2. MoneyTypeOK'
  <2>1. ReconcileEvent(r) \in Events
    BY DEF ReconcileEvent, Event, Events, Writers, Amounts, NoCost, TypeOK, ReconcileTypeOK
  <2>2. \/ Settle(j, ReconcileEvent(r)) \/ SettlementRaises(j, ReconcileEvent(r))
        \/ RecordIntegrityFailure(j) \/ Refund(j) \/ UNCHANGED moneyVars
    OBVIOUS
  <2> QED BY <1>0, <2>1, <2>2, MoneyOps DEF SettlementRaises, TypeOK
<1>3. WorldTypeOK'
  BY DEF TypeOK, WorldTypeOK, worldVars, Fault, NoFault, SettlementRaises
<1>4. ReconcileTypeOK'
  <2>1. \A k \in Jobs : cost[k] \in Amounts \cup {NoCost}
    BY DEF TypeOK, QueueTypeOK
  <2> QED BY <2>1 DEF TypeOK, ReconcileTypeOK, ReconcilePCs, RTo, RRest, RNext, Verdict
<1> QED
  BY <1>1, <1>2, <1>3, <1>4 DEF TypeOK, DispatchTypeOK, CancelTypeOK, FinalTypeOK,
     dispatchVars, finalVars

(* The provider, the clock and a reader of the exposure keep the types. *)
LEMMA EnvironmentType ==
  ASSUME TypeOK, Environment
  PROVE  TypeOK'
<1> USE DEF Environment, TypeOK, queueVars, moneyVars, worldVars
<1>1. WorldTypeOK'
  BY DEF WorldTypeOK, ProviderStep, ProviderStarts, ProviderEnds, ProviderStates, Tick,
     ReadExposure
<1>2. MoneyTypeOK'
  BY DEF MoneyTypeOK, HoldStates, ProviderStep, Tick, ReadExposure, ReconcileRows,
     ReconciledHolds
<1>3. QueueTypeOK'
  BY DEF QueueTypeOK, ProviderStep, Tick, ReadExposure
<1> QED
  BY <1>1, <1>2, <1>3 DEF DispatchTypeOK, CancelTypeOK, FinalTypeOK, ReconcileTypeOK,
     dispatchVars, finalVars, reconcileVars

(* Every variable keeps its type, whatever the jobs and processes are. *)
THEOREM TypeInvariant == Spec => []TypeOK
<1>1. Init => TypeOK
  <2> SUFFICES ASSUME Init PROVE TypeOK
    OBVIOUS
  <2>1. QueueTypeOK
    BY DEF Init, QueueInit, QueueTypeOK, Statuses
  <2>2. MoneyTypeOK
    BY DEF Init, MoneyInit, MoneyTypeOK, HoldStates
  <2>3. WorldTypeOK
    BY DEF Init, WorldInit, WorldTypeOK, ProviderStates
  <2>4. DispatchTypeOK /\ CancelTypeOK
    BY DEF Init, DispatchInit, DispatchTypeOK, DispatchPCs, CancelInit, CancelTypeOK, CancelPCs
  <2>5. FinalTypeOK
    <3>1. Resting \in FinalStates
      BY DEF Resting, FinalStates, FinalPCs, Terminal
    <3> QED BY <3>1 DEF Init, FinalInit, FinalTypeOK
  <2>6. ReconcileTypeOK
    BY DEF Init, ReconcileInit, ReconcileTypeOK, ReconcilePCs
  <2> QED BY <2>1, <2>2, <2>3, <2>4, <2>5, <2>6 DEF TypeOK
<1>2. TypeOK /\ [Next]_vars => TypeOK'
  <2>1. TypeOK /\ Next => TypeOK'
    BY DispatchType, CancelType, FinalizeType, FinalizerDiesType, ReconcileType,
       EnvironmentType DEF Next
  <2>2. TypeOK /\ UNCHANGED vars => TypeOK'
    BY DEF TypeOK, QueueTypeOK, MoneyTypeOK, WorldTypeOK, DispatchTypeOK, CancelTypeOK,
       FinalTypeOK, ReconcileTypeOK, vars, sharedVars, queueVars, moneyVars, worldVars,
       dispatchVars, finalVars, reconcileVars
  <2> QED BY <2>1, <2>2
<1> QED BY <1>1, <1>2, PTL DEF Spec

-----------------------------------------------------------------------------
(* The protocol invariant, one lemma per process.  The variables of the    *)
(* other processes are untouched by a step, so what has to be shown is     *)
(* that a step on the shared stores leaves their assumptions alone.        *)

(* No step of a submitting task breaks what the others rely on: it refunds *)
(* only unmarked holds, marks only active ones, and hands a row over only  *)
(* after the mark.                                                         *)
LEMMA DispatchKeeps ==
  ASSUME TypeOK, ProtocolInv, NEW j \in Jobs, Dispatches(j)
  PROVE  ProtocolInv'
<1> USE DEF ProtocolInv, JobInv, DispatchInv, HoldInv, RowInv, CancelInv, FinalizeInv,
        BeforeMark, AfterMark, TypeOK, QueueTypeOK, MoneyTypeOK, WorldTypeOK,
        Recorded, queueVars, moneyVars, worldVars, DispatchTypeOK, To, InterruptTo,
        finalVars, Dispatches
<1>1. CASE DispatchReserve(j)
  BY <1>1 DEF DispatchReserve, Reserve, ReconciledHolds
<1>2. CASE DispatchPrepare(j)
  BY <1>2 DEF DispatchPrepare
<1>3. CASE DispatchEnqueue(j)
  BY <1>3 DEF DispatchEnqueue, Enqueue
<1>4. CASE DispatchRestore(j)
  BY <1>4 DEF DispatchRestore
<1>5. CASE DispatchCheck(j)
  BY <1>5 DEF DispatchCheck, UpdateStatus, Open
<1>6. CASE DispatchClaim(j)
  BY <1>6 DEF DispatchClaim, ClaimSubmission, Raised
<1>7. CASE DispatchMark(j)
  BY <1>7 DEF DispatchMark, Mark, Markable, ReconciledHolds
<1>8. CASE DispatchPost(j)
  BY <1>8 DEF DispatchPost
<1>9. CASE DispatchHandoff(j)
  BY <1>9 DEF DispatchHandoff, RecordHandle, Open
<1>10. CASE DispatchCancelQueued(j)
  BY <1>10 DEF DispatchCancelQueued, CancelQueuedSubmission
<1>11. CASE DispatchRefund(j)
  BY <1>11 DEF DispatchRefund, Raised, Refund, Refundable
<1>12. CASE DispatchUndo(j)
  BY <1>12 DEF DispatchUndo, Raised, Refund, Refundable
<1>13. CASE DispatchUndoSubmit(j)
  BY <1>13 DEF DispatchUndoSubmit, Refund, Refundable
<1>14. CASE DispatchFailRefund(j)
  BY <1>14 DEF DispatchFailRefund, UpdateStatus, Open
<1>15. CASE DispatchFail(j)
  BY <1>15 DEF DispatchFail, UpdateStatus, Open, Raised
<1>16. CASE DispatchSettleFail(j)
  BY <1>16 DEF DispatchSettleFail, SettlementEnds, SettlementRaises, Settle,
     SettleTorn, SettleConflict, SettleUnavailable, Matches, Event, NoEntry
<1>17. CASE DispatchAbandon(j)
  BY <1>17 DEF DispatchAbandon, CancelConfirmed, CancelUnconfirmed, Unfinished
<1>18. CASE DispatchSettleHandoff(j)
  BY <1>18 DEF DispatchSettleHandoff, Raised, SettlementEnds, SettlementRaises,
     Settle, SettleTorn, SettleConflict, SettleUnavailable, Matches, Event, NoEntry
<1>19. CASE DispatchWebRefund(j)
  BY <1>19 DEF DispatchWebRefund, Refund, Refundable
<1>20. CASE DispatchWebFail(j)
  BY <1>20 DEF DispatchWebFail, UpdateStatus, Open
<1>21. CASE DispatchWebLast(j)
  BY <1>21 DEF DispatchWebLast, Refund, Refundable
<1>22. CASE DispatchCrash(j)
  BY <1>22 DEF DispatchCrash
<1> QED
  BY <1>1, <1>2, <1>3, <1>4, <1>5, <1>6, <1>7, <1>8, <1>9, <1>10, <1>11, <1>12, <1>13,
     <1>14, <1>15, <1>16, <1>17, <1>18, <1>19, <1>20, <1>21, <1>22 DEF DispatchStep

(* Nor does a cancellation: it cancels a queued row, which is unmarked, or *)
(* one that names its provider job.                                        *)
LEMMA CancelKeeps ==
  ASSUME TypeOK, ProtocolInv, NEW j \in Jobs, Cancels(j)
  PROVE  ProtocolInv'
<1> USE DEF ProtocolInv, JobInv, DispatchInv, HoldInv, RowInv, CancelInv, FinalizeInv,
        BeforeMark, AfterMark, TypeOK, QueueTypeOK, MoneyTypeOK, WorldTypeOK,
        Recorded, queueVars, moneyVars, worldVars, CancelTypeOK, CTo, dispatchVars,
        finalVars, Cancels
<1>1. CASE CancelRequest(j)
  BY <1>1 DEF CancelRequest
<1>2. CASE CancelUnclaimed(j)
  BY <1>2 DEF CancelUnclaimed, CancelQueuedSubmission
<1>3. CASE CancelRefresh(j)
  BY <1>3 DEF CancelRefresh
<1>4. CASE CancelRollback(j)
  BY <1>4 DEF CancelRollback, CancelRefunds, Refund, Refundable, CancelSettles,
     SettlementRaises, Settle, SettleTorn, SettleConflict, SettleUnavailable, Matches,
     Event, NoEntry
<1>5. CASE CancelProvider(j)
  BY <1>5 DEF CancelProvider, CancelConfirmed, CancelUnconfirmed, Unfinished
<1>6. CASE CancelActive(j)
  BY <1>6 DEF CancelActive, CancelActiveJob, Open
<1>7. CASE CancelSettle(j)
  BY <1>7 DEF CancelSettle, CancelSettles, SettlementRaises, Settle, SettleTorn,
     SettleConflict, SettleUnavailable, Matches, Event, NoEntry
<1>8. CASE CancelClose(j)
  BY <1>8 DEF CancelClose, CancelRefunds, Refund, Refundable, CancelSettles,
     SettlementRaises, Settle, SettleTorn, SettleConflict, SettleUnavailable, Matches,
     Event, NoEntry
<1>9. CASE CancelIntegrity(j)
  BY <1>9 DEF CancelIntegrity, RecordIntegrityFailure
<1>10. CASE CancelCleanup(j)
  BY <1>10 DEF CancelCleanup, ClearCleanupMetadata
<1>11. CASE CancelCrash(j)
  BY <1>11 DEF CancelCrash
<1> QED
  BY <1>1, <1>2, <1>3, <1>4, <1>5, <1>6, <1>7, <1>8, <1>9, <1>10, <1>11 DEF CancelStep

(* A finalizer works on one job, whose row names a provider job, and never *)
(* takes that name away.                                                   *)
LEMMA FinalizersHaveHandles ==
  ASSUME TypeOK, ProtocolInv, NEW f \in Finalizers, NEW j \in Jobs, Finalizes(f, j)
  PROVE  handle[j] /\ \A k \in Jobs : FinalizeInv(k)'
<1> USE DEF Finalizes, FinalStep, FinalPick, FinalQuery, FinalQueryFails, FinalExpire,
        FinalSave, FinalSettle, FinalResults, FinalReconcile, FinalCleanup,
        FinalPublish, FinalFailSettle, FinalFailReconcile, FinalFreeze,
        FinalFailCleanup, At
<1>1. handle[j]
  BY DEF ProtocolInv, FinalizeInv
<1>2. handle' = handle
  BY DEF UpdateStatus, UpdateResults, ClearCleanupMetadata, queueVars
<1>3. \/ \E p \in FinalPCs : fin' = [fin EXCEPT ![f][j].pc = p]
      \/ \E r \in FinalStates : fin' = [fin EXCEPT ![f][j] = r]
  BY DEF FTo, Rest, Plan, Resting, Goal, FinalStates, FinalPCs, Terminal
<1>4. fin \in [Finalizers -> [Jobs -> FinalStates]]
  BY DEF TypeOK, FinalTypeOK
<1>5. \A g \in Finalizers, k \in Jobs : ~(g = f /\ k = j) => fin'[g][k] = fin[g][k]
  BY <1>3, <1>4
<1> QED
  BY <1>1, <1>2, <1>5 DEF ProtocolInv, FinalizeInv

(* A finalizer closes holds, writes results and publishes, for jobs that   *)
(* were handed over: their holds are marked, so nothing it does gives      *)
(* money back or reopens a row.                                            *)
LEMMA FinalizeKeeps ==
  ASSUME TypeOK, ProtocolInv, NEW f \in Finalizers, NEW j \in Jobs, Finalizes(f, j)
  PROVE  ProtocolInv'
<1>0. handle[j] /\ \A k \in Jobs : FinalizeInv(k)'
  BY FinalizersHaveHandles
<1> SUFFICES ASSUME NEW k \in Jobs
             PROVE  JobInv(k)'
  BY <1>0 DEF ProtocolInv
<1>j. JobInv(k) /\ handle[j] /\ JobInv(j)
  BY <1>0 DEF ProtocolInv
<1>g. fin[f][j].goal \in Terminal
  BY DEF TypeOK, FinalTypeOK, FinalStates
<1> USE DEF JobInv, DispatchInv, HoldInv, RowInv, CancelInv, BeforeMark, AfterMark,
        TypeOK, QueueTypeOK, MoneyTypeOK, WorldTypeOK, Recorded, queueVars, moneyVars,
        worldVars, Terminal, dispatchVars, Finalizes
<1>1. CASE FinalPick(f, j)
  BY <1>j, <1>1 DEF FinalPick
<1>2. CASE FinalQuery(f, j)
  BY <1>j, <1>2 DEF FinalQuery
<1>3. CASE FinalQueryFails(f, j)
  BY <1>j, <1>3 DEF FinalQueryFails
<1>4. CASE FinalExpire(f, j)
  BY <1>j, <1>4 DEF FinalExpire, CancelConfirmed, CancelUnconfirmed, Unfinished
<1>5. CASE FinalSave(f, j)
  BY <1>j, <1>5 DEF FinalSave
<1>6. CASE FinalSettle(f, j)
  BY <1>j, <1>6 DEF FinalSettle, CompletionEvent, SettlementRaises, Settle,
     SettleTorn, SettleConflict, SettleUnavailable, Matches, Event, NoEntry
<1>7. CASE FinalResults(f, j)
  BY <1>j, <1>7 DEF FinalResults, UpdateResults
<1>8. CASE FinalReconcile(f, j)
  BY <1>j, <1>8 DEF FinalReconcile, ReconcileRows, ReconciledHolds
<1>9. CASE FinalCleanup(f, j)
  BY <1>j, <1>9 DEF FinalCleanup, ClearCleanupMetadata
<1>10. CASE FinalPublish(f, j)
  BY <1>j, <1>g, <1>10 DEF FinalPublish, UpdateStatus, Open
<1>11. CASE FinalFailSettle(f, j)
  BY <1>j, <1>11 DEF FinalFailSettle, SettlementRaises, Settle, SettleTorn,
     SettleConflict, SettleUnavailable, Matches, Event, NoEntry
<1>12. CASE FinalFailReconcile(f, j)
  BY <1>j, <1>12 DEF FinalFailReconcile, ReconcileRows, ReconciledHolds
<1>13. CASE FinalFreeze(f, j)
  BY <1>j, <1>13 DEF FinalFreeze, RecordUnreserved, Unreserved, FreezeOnly, Event,
     NoEntry
<1>14. CASE FinalFailCleanup(f, j)
  BY <1>j, <1>14 DEF FinalFailCleanup, ClearCleanupMetadata
<1> QED
  BY <1>1, <1>2, <1>3, <1>4, <1>5, <1>6, <1>7, <1>8, <1>9, <1>10, <1>11, <1>12, <1>13,
     <1>14 DEF FinalStep

(* A dead finalizer has forgotten everything, which is always allowed. *)
LEMMA FinalizerDiesKeeps ==
  ASSUME TypeOK, ProtocolInv, NEW f \in Finalizers, FinalizerDies(f)
  PROVE  ProtocolInv'
<1>1. \A g \in Finalizers, k \in Jobs : fin'[g][k] = fin[g][k] \/ fin'[g][k].pc = "idle"
  BY DEF FinalizerDies, FinalCrash, Resting, TypeOK, FinalTypeOK
<1> QED
  BY <1>1 DEF FinalizerDies, FinalCrash, ProtocolInv, JobInv, DispatchInv, HoldInv,
     RowInv, CancelInv, FinalizeInv, Recorded, queueVars, moneyVars, dispatchVars

(* A reconciler may act on a snapshot that is long out of date; the guards *)
(* of the stores, not the snapshot, keep the invariant.                    *)
LEMMA ReconcileKeeps ==
  ASSUME TypeOK, ProtocolInv, NEW r \in Reconcilers, Reconciles(r)
  PROVE  ProtocolInv'
<1> USE DEF ProtocolInv, JobInv, DispatchInv, HoldInv, RowInv, CancelInv, FinalizeInv,
        BeforeMark, AfterMark, TypeOK, QueueTypeOK, MoneyTypeOK, WorldTypeOK,
        Recorded, queueVars, moneyVars, worldVars, ReconcileTypeOK, RTo, RRest, RNext,
        dispatchVars, finalVars, Reconciles
<1>1. CASE ReconcileSnapshot(r)
  BY <1>1 DEF ReconcileSnapshot
<1>2. CASE ReconcileJudge(r)
  BY <1>2 DEF ReconcileJudge
<1>3. CASE ReconcileDone(r)
  BY <1>3 DEF ReconcileDone
<1>4. CASE ReconcileCancel(r)
  BY <1>4 DEF ReconcileCancel, CancelQueuedSubmission
<1>5. CASE ReconcileFail(r)
  BY <1>5 DEF ReconcileFail, UpdateStatus, Open
<1>6. CASE ReconcileSettle(r)
  BY <1>6 DEF ReconcileSettle, ReconcileEvent, SettlementRaises, Settle, SettleTorn,
     SettleConflict, SettleUnavailable, Matches, Event, NoEntry
<1>7. CASE ReconcileIntegrity(r)
  BY <1>7 DEF ReconcileIntegrity, RecordIntegrityFailure
<1>8. CASE ReconcileRefund(r)
  BY <1>8 DEF ReconcileRefund, Refund, Refundable
<1>9. CASE ReconcileCrash(r)
  BY <1>9 DEF ReconcileCrash
<1> QED
  BY <1>1, <1>2, <1>3, <1>4, <1>5, <1>6, <1>7, <1>8, <1>9 DEF ReconcileStep

(* The provider works only on what it was given, and a reader of the       *)
(* exposure closes only holds that are booked.                             *)
LEMMA EnvironmentKeeps ==
  ASSUME TypeOK, ProtocolInv, Environment
  PROVE  ProtocolInv'
<1>1. ASSUME NEW j \in Jobs, ProviderStep(j)
      PROVE  ProtocolInv'
  BY <1>1 DEF ProviderStep, ProviderStarts, ProviderEnds, Environment, ProtocolInv,
     JobInv, DispatchInv, HoldInv, RowInv, CancelInv, FinalizeInv, Recorded,
     queueVars, moneyVars, worldVars, dispatchVars, finalVars, TypeOK, WorldTypeOK
<1>2. ASSUME NEW j \in Jobs, Tick(j)
      PROVE  ProtocolInv'
  BY <1>2 DEF Tick, Environment, ProtocolInv, JobInv, DispatchInv, HoldInv, RowInv,
     CancelInv, FinalizeInv, Recorded, queueVars, moneyVars, worldVars, dispatchVars,
     finalVars
<1>3. CASE ReadExposure
  BY <1>3 DEF ReadExposure, ReconcileRows, ReconciledHolds, Environment, ProtocolInv,
     JobInv, DispatchInv, HoldInv, RowInv, CancelInv, FinalizeInv, Recorded,
     queueVars, moneyVars, worldVars, dispatchVars, finalVars, TypeOK, MoneyTypeOK
<1> QED
  BY <1>1, <1>2, <1>3 DEF Environment

(* What the processes rely on between their calls is never broken, by any  *)
(* number of them over any number of jobs, with any number of faults.      *)
THEOREM ProtocolInvariant == Spec => []ProtocolInv
<1>1. Init => ProtocolInv
  <2> SUFFICES ASSUME Init, NEW j \in Jobs
               PROVE  JobInv(j) /\ FinalizeInv(j)
    BY DEF ProtocolInv
  <2>1. JobInv(j)
    BY DEF Init, QueueInit, MoneyInit, WorldInit, DispatchInit, CancelInit, JobInv,
       DispatchInv, HoldInv, RowInv, CancelInv, BeforeMark, AfterMark
  <2>2. FinalizeInv(j)
    BY DEF Init, FinalInit, Resting, FinalizeInv
  <2> QED BY <2>1, <2>2
<1>2. TypeOK /\ ProtocolInv /\ [Next]_vars => ProtocolInv'
  <2>1. TypeOK /\ ProtocolInv /\ Next => ProtocolInv'
    BY DispatchKeeps, CancelKeeps, FinalizeKeeps, FinalizerDiesKeeps, ReconcileKeeps,
       EnvironmentKeeps DEF Next
  <2>2. ProtocolInv /\ UNCHANGED vars => ProtocolInv'
    BY DEF ProtocolInv, JobInv, DispatchInv, HoldInv, RowInv, CancelInv, FinalizeInv,
       Recorded, vars, sharedVars, queueVars, moneyVars, worldVars, dispatchVars,
       finalVars
  <2> QED BY <2>1, <2>2
<1> QED BY <1>1, <1>2, TypeInvariant, PTL DEF Spec

-----------------------------------------------------------------------------
(* The safety properties that follow. *)

(* Whatever the provider has taken stays covered by a marked hold that was *)
(* not given back.                                                         *)
THEOREM ProviderWorkStaysCovered == Spec => []ProviderWorkIsCovered
<1>1. ProtocolInv => ProviderWorkIsCovered
  BY DEF ProtocolInv, JobInv, HoldInv, ProviderWorkIsCovered, ProviderHasWork
<1> QED BY <1>1, ProtocolInvariant, PTL

(* A settlement of dispatched work always meets a hold that matches it.    *)
THEOREM MarkedHoldsMatch == Spec => []MarkedHoldMatches
<1>1. ProtocolInv => MarkedHoldMatches
  BY DEF ProtocolInv, JobInv, HoldInv, MarkedHoldMatches, Matches
<1> QED BY <1>1, ProtocolInvariant, PTL

(* No hold is settled without its completion event in the ledger.          *)
THEOREM SettledHoldsAreBooked == Spec => []SettledIsBooked
<1>1. ProtocolInv => SettledIsBooked
  BY DEF ProtocolInv, JobInv, HoldInv, SettledIsBooked
<1> QED BY <1>1, ProtocolInvariant, PTL

(* A submission cancelled in the queue is never dispatched.                *)
THEOREM QueueCancellationIsFinal == Spec => []CancelledInQueueNeverRuns
<1>1. ProtocolInv => CancelledInQueueNeverRuns
  BY DEF ProtocolInv, JobInv, HoldInv, RowInv, CancelledInQueueNeverRuns
<1> QED BY <1>1, ProtocolInvariant, PTL

(* Neither is one that was never claimed.                                  *)
THEOREM UnclaimedJobsHaveNotRun == Spec => []UnclaimedNeverDispatched
<1>1. ProtocolInv => UnclaimedNeverDispatched
  BY DEF ProtocolInv, JobInv, HoldInv, RowInv, UnclaimedNeverDispatched
<1> QED BY <1>1, ProtocolInvariant, PTL
=============================================================================
