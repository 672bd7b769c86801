----------------------- MODULE ResearchOutcomeProofs -----------------------
(***************************************************************************)
(* What the pipeline achieves, from the invariants of ResearchJobsProofs:  *)
(*   1. it implements SpendLifecycle: every step of every process moves    *)
(*      the money of at most one job, by one step of its life, or leaves   *)
(*      all money as it is;                                                *)
(*   2. a completed research job is complete, and the record of its        *)
(*      provider files goes only after its cost: CompletedIsComplete and   *)
(*      CleanupFollowsMoney, for any number of pollers and refreshes that  *)
(*      finalise the same job, with cancellations and repairs in between.  *)
(***************************************************************************)
EXTENDS ResearchJobsProofs

(* How one step may treat the money of one job. *)
SameSpend(k) ==
  /\ SpendStage(k)' = SpendStage(k)
  /\ entry'[k] = entry[k]
  /\ ProviderHasWork(k)' = ProviderHasWork(k)

SpendMove(k) ==
  \/ /\ entry'[k] = entry[k] /\ ProviderHasWork(k)' = ProviderHasWork(k)
     /\ \/ SpendStage(k) = "unheld" /\ SpendStage(k)' = "held"
        \/ SpendStage(k) = "held" /\ SpendStage(k)' \in {"committed", "released"}
  \/ /\ entry'[k] \in Events /\ ProviderHasWork(k)' = ProviderHasWork(k)
     /\ SpendStage(k) \in {"held", "committed"} /\ SpendStage(k)' = "booked"
  \/ /\ entry'[k] = entry[k] /\ ProviderHasWork(k)' = TRUE
     /\ SpendStage(k) \in {"committed", "booked"} /\ SpendStage(k)' = SpendStage(k)

(* One money operation of CostGate, as the processes use it: the spend of  *)
(* a job without a hold is booked only if the job was dispatched.          *)
MoneyStep(j) ==
  /\ UNCHANGED provider
  /\ \/ Reserve(j) \/ Mark(j) \/ Refund(j)
     \/ \E e \in Events : \/ Settle(j, e) \/ SettleTorn(j, e)
                          \/ SettleConflict(j, e) \/ SettleUnavailable(e)
     \/ RecordIntegrityFailure(j)
     \/ marked[j] /\ RecordUnreserved(j)
     \/ FreezeOnly \/ ReconcileRows \/ UNCHANGED moneyVars

(* One step of the provider, or a request to it: it gets work only for a   *)
(* marked hold.                                                            *)
ProviderMove(j) ==
  /\ UNCHANGED moneyVars
  /\ \/ CancelConfirmed(j) \/ CancelUnconfirmed(j) \/ ProviderStarts(j) \/ ProviderEnds(j)
     \/ /\ marked[j] /\ provider[j] = "none"
        /\ \E p \in ProviderStates : provider' = [provider EXCEPT ![j] = p]

-----------------------------------------------------------------------------
(* A move of one job is a step of the abstract specification. *)
LEMMA MovesAreSpendSteps ==
  ASSUME TypeOK, TypeOK', NEW j \in Jobs,
         \A k \in Jobs : k # j => SameSpend(k),
         SameSpend(j) \/ SpendMove(j)
  PROVE  [Lifecycle!Next]_(Lifecycle!spendVars)
<1> DEFINE spend == [k \in Jobs |-> SpendStage(k)]
           exposed == [k \in Jobs |-> ProviderHasWork(k)]
<1>1. entry \in [Jobs -> Events \cup {NoEntry}] /\ entry' \in [Jobs -> Events \cup {NoEntry}]
  BY DEF TypeOK, MoneyTypeOK
<1>2. CASE SameSpend(j)
  <2>1. entry' = entry
    BY <1>1, <1>2 DEF SameSpend
  <2>2. spend' = spend /\ exposed' = exposed
    BY <1>2 DEF SameSpend
  <2> QED BY <2>1, <2>2 DEF Lifecycle!spendVars
<1>3. CASE SpendMove(j)
  <2>1. spend' = [spend EXCEPT ![j] = SpendStage(j)']
    BY DEF SameSpend
  <2>2. exposed' = [exposed EXCEPT ![j] = ProviderHasWork(j)']
    BY DEF SameSpend
  <2>3. entry' = [entry EXCEPT ![j] = entry'[j]]
    BY <1>1 DEF SameSpend
  <2>4. spend[j] = SpendStage(j) /\ exposed[j] = ProviderHasWork(j)
    OBVIOUS
  <2>5. ProviderHasWork(j)' = ProviderHasWork(j) => exposed' = exposed
    BY <2>2
  <2>6. entry'[j] = entry[j] => entry' = entry
    BY <1>1, <2>3
  <2>7. SpendStage(j)' = SpendStage(j) => spend' = spend
    BY <2>1
  <2> HIDE DEF spend, exposed
  <2>8. Lifecycle!Next
    <3>1. \/ Lifecycle!Hold(j) \/ Lifecycle!Commit(j) \/ Lifecycle!Release(j)
          \/ Lifecycle!Book(j) \/ Lifecycle!Expose(j)
      BY <1>3, <2>1, <2>2, <2>3, <2>4, <2>5, <2>6, <2>7
         DEF SpendMove, spend, exposed, Lifecycle!Hold, Lifecycle!Commit,
         Lifecycle!Release, Lifecycle!Book, Lifecycle!Expose, Lifecycle!Move
    <3> QED BY <3>1 DEF Lifecycle!Next
  <2> QED BY <2>8
<1> QED BY <1>2, <1>3

(* A money operation moves the spend of its job or none; closing holds     *)
(* that the ledger already booked moves nothing.                           *)
LEMMA MoneyStepsMoveOneSpend ==
  ASSUME TypeOK, ProtocolInv, NEW j \in Jobs, MoneyStep(j)
  PROVE  /\ \A k \in Jobs : k # j => SameSpend(k)
         /\ SameSpend(j) \/ SpendMove(j)
<1>1. NoEntry \notin Events
  BY DEF NoEntry, Events, Writers
<1> USE DEF TypeOK, MoneyTypeOK, ProtocolInv, JobInv, HoldInv, SameSpend, SpendMove,
        SpendStage, Recorded, ProviderHasWork
<1>2. CASE UNCHANGED provider /\ Reserve(j)
  BY <1>2 DEF Reserve, ReconciledHolds
<1>3. CASE UNCHANGED provider /\ Mark(j)
  BY <1>3 DEF Mark, Markable, ReconciledHolds
<1>4. CASE UNCHANGED provider /\ Refund(j)
  BY <1>4 DEF Refund, Refundable
<1>5. ASSUME NEW e \in Events, UNCHANGED provider, Settle(j, e) \/ SettleTorn(j, e)
      PROVE  /\ \A k \in Jobs : k # j => SameSpend(k)
             /\ SameSpend(j) \/ SpendMove(j)
  BY <1>1, <1>5 DEF Settle, SettleTorn, Matches, Recordable
<1>6. CASE UNCHANGED provider /\ marked[j] /\ RecordUnreserved(j)
  <2>1. Unreserved \in Events
    BY DEF Unreserved, Event, Events, Writers
  <2> QED BY <1>1, <1>6, <2>1 DEF RecordUnreserved, Recordable
<1>7. CASE UNCHANGED provider /\ ReconcileRows
  BY <1>7 DEF ReconcileRows, ReconciledHolds
<1>8. CASE UNCHANGED <<provider, hold, marked, entry>>
  BY <1>8
<1> QED
  BY <1>2, <1>3, <1>4, <1>5, <1>6, <1>7, <1>8
     DEF MoneyStep, SettleConflict, SettleUnavailable, RecordIntegrityFailure, FreezeOnly,
     moneyVars

(* Provider work begins only under a committed hold, and no answer of the  *)
(* provider ends the exposure.                                             *)
LEMMA ProviderMovesExpose ==
  ASSUME TypeOK, ProtocolInv, NEW j \in Jobs, ProviderMove(j)
  PROVE  /\ \A k \in Jobs : k # j => SameSpend(k)
         /\ SameSpend(j) \/ SpendMove(j)
<1>1. provider \in [Jobs -> ProviderStates]
  BY DEF TypeOK, WorldTypeOK
<1>2. \A k \in Jobs : SpendStage(k)' = SpendStage(k) /\ entry'[k] = entry[k]
  BY DEF ProviderMove, moneyVars, SpendStage, Recorded
<1>3. \A k \in Jobs : k # j => ProviderHasWork(k)' = ProviderHasWork(k)
  BY <1>1 DEF ProviderMove, CancelConfirmed, CancelUnconfirmed, ProviderStarts, ProviderEnds,
     ProviderHasWork
<1>4. CASE marked[j] /\ provider[j] = "none"
  <2>1. SpendStage(j) \in {"committed", "booked"}
    BY <1>4 DEF ProtocolInv, JobInv, HoldInv, SpendStage
  <2>2. ProviderHasWork(j) = FALSE /\ ProviderHasWork(j)' \in BOOLEAN
    BY <1>4 DEF ProviderHasWork
  <2> QED BY <1>2, <1>3, <2>1, <2>2 DEF SameSpend, SpendMove
<1>5. CASE ~(marked[j] /\ provider[j] = "none")
  <2>1. ProviderHasWork(j)' = ProviderHasWork(j)
    BY <1>1, <1>5 DEF ProviderMove, CancelConfirmed, CancelUnconfirmed, ProviderStarts,
       ProviderEnds, ProviderHasWork, Unfinished
  <2> QED BY <1>2, <1>3, <2>1 DEF SameSpend
<1> QED BY <1>4, <1>5

-----------------------------------------------------------------------------
(* Each step of each process is one of the two, for one job. *)

(* A submitting task either leaves the provider alone and does one money   *)
(* operation on its job, or leaves the money alone and asks the provider.  *)
LEMMA DispatchFootprint ==
  ASSUME TypeOK, ProtocolInv, NEW j \in Jobs, Dispatches(j)
  PROVE  MoneyStep(j) \/ ProviderMove(j)
<1> USE DEF Dispatches, DispatchStep, DispatchReserve, DispatchPrepare, DispatchEnqueue,
        DispatchRestore, DispatchCheck, DispatchClaim, DispatchMark, DispatchPost,
        DispatchHandoff, DispatchCancelQueued, DispatchRefund, DispatchUndo,
        DispatchUndoSubmit, DispatchFailRefund, DispatchFail, DispatchSettleFail,
        DispatchAbandon, DispatchSettleHandoff, DispatchWebRefund, DispatchWebFail,
        DispatchWebLast, DispatchCrash
<1>1. CASE DispatchPost(j)
  BY <1>1 DEF ProviderMove, ProviderStates, ProtocolInv, JobInv, DispatchInv, AfterMark
<1>2. CASE DispatchAbandon(j)
  BY <1>2 DEF ProviderMove
<1>3. CASE DispatchSettleFail(j) \/ DispatchSettleHandoff(j)
  <2>1. Event("dispatch.provider_failure", "ceiling") \in Events
        /\ Event("dispatch.handoff", "ceiling") \in Events
    BY DEF Event, Events, Writers
  <2> QED BY <1>3, <2>1 DEF MoneyStep, SettlementEnds, SettlementRaises
<1> QED BY <1>1, <1>2, <1>3 DEF MoneyStep

(* So does a user cancellation: a hold is settled or refunded in one step  *)
(* and the provider asked to stop in another.                              *)
LEMMA CancelFootprint ==
  ASSUME TypeOK, ProtocolInv, NEW j \in Jobs, Cancels(j)
  PROVE  MoneyStep(j) \/ ProviderMove(j)
<1> USE DEF Cancels, CancelRequest, CancelStep, CancelUnclaimed, CancelRefresh, CancelRollback,
        CancelProvider, CancelActive, CancelSettle, CancelClose, CancelIntegrity,
        CancelCleanup, CancelCrash, CancelSettles, CancelRefunds, worldVars
<1>1. CASE CancelProvider(j)
  BY <1>1 DEF ProviderMove
<1>2. \A w \in {"cancel", "cancel.retry", "cancel.queued"} : Event(w, "ceiling") \in Events
  BY DEF Event, Events, Writers
<1>3. CASE CancelRollback(j) \/ CancelSettle(j) \/ CancelClose(j)
  BY <1>2, <1>3 DEF MoneyStep, SettlementRaises
<1> QED BY <1>1, <1>3 DEF MoneyStep

(* Only a poller books without a hold, and only for a job handed to it.    *)
LEMMA FinalizeFootprint ==
  ASSUME TypeOK, ProtocolInv, NEW f \in Finalizers, NEW j \in Jobs, Finalizes(f, j)
  PROVE  MoneyStep(j) \/ ProviderMove(j)
<1> USE DEF Finalizes, FinalPick, FinalStep, FinalQuery, FinalQueryFails, FinalExpire,
        FinalSave, FinalSettle, FinalResults, FinalReconcile, FinalCleanup, FinalPublish,
        FinalFailSettle, FinalFailReconcile, FinalFreeze, FinalFailCleanup, worldVars
<1>1. CASE FinalExpire(f, j)
  BY <1>1 DEF ProviderMove, MoneyStep
<1>2. CompletionEvent(f, j) \in Events /\ Event("poller.failure", "ceiling") \in Events
  BY DEF CompletionEvent, Usage, Event, Events, Writers
<1>3. CASE FinalSettle(f, j) \/ FinalFailSettle(f, j)
  BY <1>2, <1>3 DEF MoneyStep, SettlementRaises
<1>4. CASE FinalFreeze(f, j)
  <2>1. marked[j]
    BY <1>4, FinalizersHaveHandles DEF ProtocolInv, JobInv, DispatchInv
  <2> QED BY <1>4, <2>1 DEF MoneyStep
<1> QED BY <1>1, <1>3, <1>4 DEF MoneyStep

(* A repair never talks to the provider; it settles, refunds or records an *)
(* integrity failure for one job at a time.                                *)
LEMMA ReconcileFootprint ==
  ASSUME TypeOK, ProtocolInv, NEW r \in Reconcilers, Reconciles(r)
  PROVE  MoneyStep(current[r])
<1> USE DEF Reconciles, ReconcileStep, ReconcileSnapshot, ReconcileJudge, ReconcileDone,
        ReconcileCancel, ReconcileFail, ReconcileSettle, ReconcileIntegrity,
        ReconcileRefund, ReconcileCrash, worldVars
<1>1. ReconcileEvent(r) \in Events
  BY DEF ReconcileEvent, Event, Events, Writers, Amounts, NoCost, TypeOK, ReconcileTypeOK
<1>2. CASE ReconcileSettle(r)
  BY <1>1, <1>2 DEF MoneyStep, SettlementRaises
<1> QED BY <1>2 DEF MoneyStep

(* The pipeline keeps the money promise: every behaviour of ResearchJobs   *)
(* is one of SpendLifecycle.                                               *)
THEOREM SpendPromise == Spec => KeepsSpendPromise
<1>1. Init => Lifecycle!Init
  BY DEF Init, QueueInit, MoneyInit, WorldInit, Lifecycle!Init, SpendStage, Recorded,
     ProviderHasWork
<1>2. TypeOK /\ TypeOK' /\ ProtocolInv /\ [Next]_vars
        => [Lifecycle!Next]_(Lifecycle!spendVars)
  <2> SUFFICES ASSUME TypeOK, TypeOK', ProtocolInv, [Next]_vars
               PROVE  [Lifecycle!Next]_(Lifecycle!spendVars)
    OBVIOUS
  <2>1. ASSUME NEW j \in Jobs, MoneyStep(j) \/ ProviderMove(j)
        PROVE  [Lifecycle!Next]_(Lifecycle!spendVars)
    <3>1. /\ \A k \in Jobs : k # j => SameSpend(k)
          /\ SameSpend(j) \/ SpendMove(j)
      BY <2>1, MoneyStepsMoveOneSpend, ProviderMovesExpose
    <3> QED BY <3>1, MovesAreSpendSteps
  <2>2. ASSUME UNCHANGED <<provider, moneyVars>>
        PROVE  [Lifecycle!Next]_(Lifecycle!spendVars)
    BY <2>2 DEF moneyVars, Lifecycle!spendVars, SpendStage, Recorded, ProviderHasWork
  <2>3. ASSUME NEW r \in Reconcilers, Reconciles(r)
        PROVE  [Lifecycle!Next]_(Lifecycle!spendVars)
    <3>1. current[r] \in Jobs
      BY DEF TypeOK, ReconcileTypeOK
    <3> QED BY <2>1, <2>3, <3>1, ReconcileFootprint
  <2>4. ASSUME NEW f \in Finalizers, FinalizerDies(f)
        PROVE  UNCHANGED <<provider, moneyVars>>
    BY <2>4 DEF FinalizerDies, FinalCrash
  <2>5. CASE Environment
    <3>1. ASSUME NEW j \in Jobs, ProviderStep(j) \/ Tick(j)
          PROVE  MoneyStep(j) \/ ProviderMove(j)
      BY <3>1 DEF ProviderStep, Tick, MoneyStep, ProviderMove
    <3>2. CASE ReadExposure
      <4>1. \A j \in Jobs : SpendStage(j)' = SpendStage(j)
        BY <3>2 DEF ReadExposure, ReconcileRows, ReconciledHolds, SpendStage, Recorded
      <4>2. UNCHANGED <<entry, provider>>
        BY <3>2 DEF ReadExposure, ReconcileRows, worldVars
      <4> QED BY <4>1, <4>2 DEF Lifecycle!spendVars, ProviderHasWork
    <3> QED BY <2>1, <2>5, <3>1, <3>2 DEF Environment
  <2>6. CASE UNCHANGED vars
    BY <2>2, <2>6 DEF vars, sharedVars, worldVars
  <2> QED
    BY <2>1, <2>2, <2>3, <2>4, <2>5, <2>6, DispatchFootprint, CancelFootprint,
       FinalizeFootprint DEF Next
<1> QED BY <1>1, <1>2, TypeInvariant, ProtocolInvariant, PTL DEF Spec, KeepsSpendPromise, Lifecycle!Spec

-----------------------------------------------------------------------------

(* What one finalizer has achieved for a job, no other process undoes.     *)
KeptFor(j) ==
  /\ handle[j] => handle'[j]
  /\ artifact[j] => artifact'[j]
  /\ BookedAs(j, Usage(j)) => BookedAs(j, Usage(j))'
  /\ cost[j] = Usage(j) => cost'[j] = Usage(j)
  /\ handle[j] /\ ~uploads[j] => ~uploads'[j]

(* No money operation reopens a settled hold or rewrites a ledger entry.   *)
LEMMA MoneyStepsKeepBookings ==
  ASSUME TypeOK, NEW i \in Jobs, MoneyStep(i), NEW j \in Jobs
  PROVE  BookedAs(j, Usage(j)) => BookedAs(j, Usage(j))'
<1> SUFFICES ASSUME hold[j] = "settled", entry[j] # NoEntry
             PROVE  hold'[j] = "settled" /\ entry'[j] = entry[j]
  BY DEF BookedAs, Recorded, Usage
<1> QED
  BY DEF TypeOK, MoneyTypeOK, MoneyStep, Reserve, ReconciledHolds, Recorded, Mark,
     Refund, Refundable, Settle, SettleTorn, SettleConflict, SettleUnavailable,
     Recordable, RecordIntegrityFailure, RecordUnreserved, FreezeOnly, ReconcileRows,
     moneyVars

(* Nor does anything the provider does. *)
LEMMA OtherStepsKeepBookings ==
  ASSUME TypeOK, NEW i \in Jobs, MoneyStep(i) \/ ProviderMove(i), NEW j \in Jobs
  PROVE  BookedAs(j, Usage(j)) => BookedAs(j, Usage(j))'
<1>1. CASE ProviderMove(i)
  BY <1>1 DEF ProviderMove, moneyVars, BookedAs, Recorded, Usage
<1> QED BY <1>1, MoneyStepsKeepBookings

-----------------------------------------------------------------------------
(* Each process, in turn, keeps what a job has achieved. *)

(* A dispatcher enqueues a row only before it is handed over. *)
LEMMA DispatchKeepsWork ==
  ASSUME TypeOK, ProtocolInv, NEW i \in Jobs, Dispatches(i), NEW j \in Jobs
  PROVE  KeptFor(j) /\ (status'[j] = "completed" => status[j] = "completed")
<1>1. BookedAs(j, Usage(j)) => BookedAs(j, Usage(j))'
  BY DispatchFootprint, OtherStepsKeepBookings
<1>2. artifact' = artifact
  BY DEF Dispatches, DispatchStep, DispatchReserve, DispatchPrepare, DispatchEnqueue,
     DispatchRestore, DispatchCheck, DispatchClaim, DispatchMark, DispatchPost,
     DispatchHandoff, DispatchCancelQueued, DispatchRefund, DispatchUndo,
     DispatchUndoSubmit, DispatchFailRefund, DispatchFail, DispatchSettleFail,
     DispatchAbandon, DispatchSettleHandoff, DispatchWebRefund, DispatchWebFail,
     DispatchWebLast, DispatchCrash
<1>3. dpc[i] = "enqueue" => ~handle[i]
  BY DEF ProtocolInv, JobInv, DispatchInv
<1>4. \/ dpc[i] = "enqueue" /\ Enqueue(i)
      \/ ClaimSubmission(i) \/ CancelQueuedSubmission(i)
      \/ UpdateStatus(i, "failed") \/ RecordHandle(i) \/ UNCHANGED queueVars
  BY DEF Dispatches, DispatchStep, DispatchReserve, DispatchPrepare, DispatchEnqueue,
     DispatchRestore, DispatchCheck, DispatchClaim, DispatchMark, DispatchPost,
     DispatchHandoff, DispatchCancelQueued, DispatchRefund, DispatchUndo,
     DispatchUndoSubmit, DispatchFailRefund, DispatchFail, DispatchSettleFail,
     DispatchAbandon, DispatchSettleHandoff, DispatchWebRefund, DispatchWebFail,
     DispatchWebLast, DispatchCrash
<1>5. /\ handle[j] => handle'[j]
      /\ cost'[j] = cost[j]
      /\ handle[j] /\ ~uploads[j] => ~uploads'[j]
      /\ status'[j] = "completed" => status[j] = "completed"
  BY <1>3, <1>4 DEF TypeOK, QueueTypeOK, Enqueue, ClaimSubmission, CancelQueuedSubmission,
     UpdateStatus, RecordHandle, queueVars
<1> QED BY <1>1, <1>2, <1>5 DEF KeptFor, Usage

(* A cancellation touches no report, no cost and no terminal row. *)
LEMMA CancelKeepsWork ==
  ASSUME TypeOK, ProtocolInv, NEW i \in Jobs, Cancels(i), NEW j \in Jobs
  PROVE  KeptFor(j) /\ (status'[j] = "completed" => status[j] = "completed")
<1>1. BookedAs(j, Usage(j)) => BookedAs(j, Usage(j))'
  BY CancelFootprint, OtherStepsKeepBookings
<1>2. /\ artifact' = artifact
      /\ \/ CancelQueuedSubmission(i) \/ CancelActiveJob(i) \/ ClearCleanupMetadata(i)
         \/ UNCHANGED queueVars
  BY DEF Cancels, CancelRequest, CancelStep, CancelUnclaimed, CancelRefresh,
     CancelRollback, CancelProvider, CancelActive, CancelSettle, CancelClose,
     CancelIntegrity, CancelCleanup, CancelCrash, worldVars
<1>3. /\ handle'[j] = handle[j]
      /\ cost'[j] = cost[j]
      /\ ~uploads[j] => ~uploads'[j]
      /\ status'[j] = "completed" => status[j] = "completed"
  BY <1>2 DEF TypeOK, QueueTypeOK, CancelQueuedSubmission, CancelActiveJob,
     ClearCleanupMetadata, queueVars
<1> QED BY <1>1, <1>2, <1>3 DEF KeptFor, Usage

(* Neither does a repair. *)
LEMMA ReconcileKeepsWork ==
  ASSUME TypeOK, ProtocolInv, NEW r \in Reconcilers, Reconciles(r), NEW j \in Jobs
  PROVE  KeptFor(j) /\ (status'[j] = "completed" => status[j] = "completed")
<1>1. current[r] \in Jobs
  BY DEF TypeOK, ReconcileTypeOK
<1>2. BookedAs(j, Usage(j)) => BookedAs(j, Usage(j))'
  BY <1>1, ReconcileFootprint, OtherStepsKeepBookings
<1>3. /\ artifact' = artifact
      /\ \/ CancelQueuedSubmission(current[r]) \/ UpdateStatus(current[r], "failed")
         \/ UNCHANGED queueVars
  BY DEF Reconciles, ReconcileStep, ReconcileSnapshot, ReconcileJudge, ReconcileDone,
     ReconcileCancel, ReconcileFail, ReconcileSettle, ReconcileIntegrity,
     ReconcileRefund, ReconcileCrash, worldVars
<1>4. /\ handle'[j] = handle[j]
      /\ cost'[j] = cost[j]
      /\ uploads'[j] = uploads[j]
      /\ status'[j] = "completed" => status[j] = "completed"
  BY <1>1, <1>3 DEF TypeOK, QueueTypeOK, CancelQueuedSubmission, UpdateStatus, queueVars
<1> QED BY <1>2, <1>3, <1>4 DEF KeptFor, Usage

(* A finalizer writes the same result as every other finalizer of the job. *)
LEMMA FinalizeKeepsWork ==
  ASSUME TypeOK, ProtocolInv, NEW f \in Finalizers, NEW i \in Jobs, Finalizes(f, i),
         NEW j \in Jobs
  PROVE  KeptFor(j)
<1>1. BookedAs(j, Usage(j)) => BookedAs(j, Usage(j))'
  BY FinalizeFootprint, OtherStepsKeepBookings
<1>2. artifact[j] => artifact'[j]
  BY DEF Finalizes, FinalPick, FinalStep, FinalQuery, FinalQueryFails, FinalExpire,
     FinalSave, FinalSettle, FinalResults, FinalReconcile, FinalCleanup, FinalPublish,
     FinalFailSettle, FinalFailReconcile, FinalFreeze, FinalFailCleanup, worldVars,
     TypeOK, WorldTypeOK
<1>3. \/ UpdateStatus(i, fin[f][i].goal) \/ UpdateResults(i, Usage(i))
      \/ ClearCleanupMetadata(i) \/ UNCHANGED queueVars
  BY DEF Finalizes, FinalPick, FinalStep, FinalQuery, FinalQueryFails, FinalExpire,
     FinalSave, FinalSettle, FinalResults, FinalReconcile, FinalCleanup, FinalPublish,
     FinalFailSettle, FinalFailReconcile, FinalFreeze, FinalFailCleanup
<1>4. /\ handle'[j] = handle[j]
      /\ cost[j] = Usage(j) => cost'[j] = Usage(j)
      /\ ~uploads[j] => ~uploads'[j]
  BY <1>3 DEF TypeOK, QueueTypeOK, UpdateStatus, UpdateResults, ClearCleanupMetadata, queueVars
<1> QED BY <1>1, <1>2, <1>4 DEF KeptFor

-----------------------------------------------------------------------------
(* Finalizers that do not move, and rows that are not published, stay in   *)
(* order when what was achieved is kept.                                   *)
LEMMA UnmovedFinalizer ==
  ASSUME NEW g \in Finalizers, NEW k \in Jobs, FinalizeInv(k), CompletingInv(g, k),
         KeptFor(k), fin'[g][k] = fin[g][k]
  PROVE  CompletingInv(g, k)'
BY DEF FinalizeInv, CompletingInv, KeptFor, Usage

(* A row that was completed before stays complete. *)
LEMMA UnpublishedRow ==
  ASSUME NEW k \in Jobs, CompletedInv(k), KeptFor(k),
         status'[k] = "completed" => status[k] = "completed"
  PROVE  CompletedInv(k)'
BY DEF CompletedInv, KeptFor, Usage

(* What a finalizer's step leaves as its next call and its goal. *)
LEMMA FinalizerMoves ==
  ASSUME TypeOK, NEW f \in Finalizers, NEW j \in Jobs
  PROVE  /\ \A p \in FinalPCs : FTo(f, j, p) =>
              fin'[f][j].pc = p /\ fin'[f][j].goal = fin[f][j].goal
         /\ \A p \in FinalPCs, o \in Terminal, b \in BOOLEAN : Plan(f, j, p, o, b) =>
              fin'[f][j].pc = p /\ fin'[f][j].goal = o
         /\ Rest(f, j) => fin'[f][j].goal = "failed"
<1>1. fin \in [Finalizers -> [Jobs -> FinalStates]]
  BY DEF TypeOK, FinalTypeOK
<1>2. fin[f][j] \in FinalStates
  BY <1>1
<1>3. ASSUME NEW p \in FinalPCs, FTo(f, j, p)
      PROVE  fin'[f][j].pc = p /\ fin'[f][j].goal = fin[f][j].goal
  <2>1. fin'[f][j] = [fin[f][j] EXCEPT !.pc = p]
    BY <1>1, <1>3 DEF FTo
  <2> QED BY <1>2, <2>1 DEF FinalStates
<1>4. ASSUME NEW p \in FinalPCs, NEW o \in Terminal, NEW b \in BOOLEAN, Plan(f, j, p, o, b)
      PROVE  fin'[f][j].pc = p /\ fin'[f][j].goal = o
  BY <1>1, <1>4 DEF Plan
<1>5. ASSUME Rest(f, j) PROVE fin'[f][j].goal = "failed"
  BY <1>1, <1>5 DEF Rest, Resting
<1> QED BY <1>3, <1>4, <1>5

(* Only the path that saved, settled and wrote the results reaches the     *)
(* publication of a completion.                                            *)
LEMMA FinalizeCompletes ==
  ASSUME TypeOK, ProtocolInv, CompletionInv, NEW f \in Finalizers, NEW j \in Jobs,
         Finalizes(f, j)
  PROVE  CompletingInv(f, j)' /\ CompletedInv(j)'
<1> USE DEF At, CompletingInv
<1>1. CompletingInv(f, j) /\ CompletedInv(j)
  BY DEF CompletionInv
<1>2. KeptFor(j) /\ handle[j]
  BY FinalizeKeepsWork, FinalizersHaveHandles
<1>3. /\ \A p \in FinalPCs : FTo(f, j, p) =>
           fin'[f][j].pc = p /\ fin'[f][j].goal = fin[f][j].goal
      /\ \A p \in FinalPCs, o \in Terminal, b \in BOOLEAN : Plan(f, j, p, o, b) =>
           fin'[f][j].pc = p /\ fin'[f][j].goal = o
      /\ Rest(f, j) => fin'[f][j].goal = "failed"
  BY FinalizerMoves
<1>4. CompletingInv(f, j)'
  <2>1. CASE FinalPick(f, j)
    BY <1>1, <1>2, <1>3, <2>1 DEF FinalPick, FinalPCs, KeptFor, Usage
  <2>2. CASE FinalQuery(f, j)
    BY <1>1, <1>2, <1>3, <2>2 DEF FinalQuery, FinalPCs, Goal, Terminal, KeptFor, Usage
  <2>3. CASE FinalQueryFails(f, j)
    BY <1>1, <1>2, <1>3, <2>3 DEF FinalQueryFails, FinalPCs, KeptFor, Usage
  <2>4. CASE FinalExpire(f, j)
    BY <1>1, <1>2, <1>3, <2>4 DEF FinalExpire, FinalPCs, Terminal, KeptFor, Usage
  <2>5. CASE FinalSave(f, j)
    BY <1>1, <1>2, <1>3, <2>5 DEF FinalSave, FinalPCs, TypeOK, WorldTypeOK, KeptFor,
       Usage
  <2>6. CASE FinalSettle(f, j)
    BY <1>1, <1>2, <1>3, <2>6 DEF FinalSettle, FinalPCs, TypeOK, MoneyTypeOK, Settle,
       CompletionEvent, Event, BookedAs, Recorded, NoEntry, Usage, KeptFor
  <2>7. CASE FinalResults(f, j)
    BY <1>1, <1>2, <1>3, <2>7 DEF FinalResults, FinalPCs, UpdateResults, TypeOK,
       QueueTypeOK, KeptFor, Usage
  <2>8. CASE FinalReconcile(f, j)
    BY <1>1, <1>2, <1>3, <2>8 DEF FinalReconcile, FinalPCs, KeptFor, Usage
  <2>9. CASE FinalCleanup(f, j)
    BY <1>1, <1>2, <1>3, <2>9 DEF FinalCleanup, FinalPCs, ClearCleanupMetadata, TypeOK,
       QueueTypeOK, KeptFor, Usage
  <2>10. CASE FinalPublish(f, j)
    BY <1>1, <1>2, <1>3, <2>10 DEF FinalPublish, FinalPCs, KeptFor, Usage
  <2>11. CASE FinalFailSettle(f, j)
    BY <1>1, <1>2, <1>3, <2>11 DEF FinalFailSettle, FinalPCs, KeptFor, Usage
  <2>12. CASE FinalFailReconcile(f, j)
    BY <1>1, <1>2, <1>3, <2>12 DEF FinalFailReconcile, FinalPCs, KeptFor, Usage
  <2>13. CASE FinalFreeze(f, j)
    BY <1>1, <1>2, <1>3, <2>13 DEF FinalFreeze, FinalPCs, KeptFor, Usage
  <2>14. CASE FinalFailCleanup(f, j)
    BY <1>1, <1>2, <1>3, <2>14 DEF FinalFailCleanup, FinalPCs, KeptFor, Usage
  <2> QED
    BY <2>1, <2>2, <2>3, <2>4, <2>5, <2>6, <2>7, <2>8, <2>9, <2>10, <2>11, <2>12, <2>13,
       <2>14 DEF Finalizes, FinalStep
<1>5. CompletedInv(j)'
  <2>1. CASE status'[j] = "completed" => status[j] = "completed"
    BY <1>1, <1>2, <2>1, UnpublishedRow
  <2>2. CASE status'[j] = "completed" /\ status[j] # "completed"
    <3>1. FinalPublish(f, j) /\ fin[f][j].goal = "completed"
      BY <2>2 DEF Finalizes, FinalPick, FinalStep, FinalQuery, FinalQueryFails,
         FinalExpire, FinalSave, FinalSettle, FinalResults, FinalReconcile, FinalCleanup,
         FinalPublish, FinalFailSettle, FinalFailReconcile, FinalFreeze, FinalFailCleanup,
         UpdateStatus, UpdateResults, ClearCleanupMetadata, queueVars, TypeOK, QueueTypeOK
    <3> QED BY <1>1, <1>2, <3>1 DEF FinalPublish, CompletedInv, KeptFor, Usage
  <2> QED BY <2>1, <2>2
<1> QED BY <1>4, <1>5

(* CompletionInv is inductive on top of the protocol invariant. *)
THEOREM CompletionInvariant == Spec => []CompletionInv
<1>1. Init => CompletionInv
  <2> SUFFICES ASSUME Init, NEW j \in Jobs
               PROVE  CompletedInv(j) /\ \A f \in Finalizers : CompletingInv(f, j)
    BY DEF CompletionInv
  <2>1. CompletedInv(j)
    BY DEF Init, QueueInit, CompletedInv
  <2>2. \A f \in Finalizers : fin[f][j].goal = "failed"
    BY DEF Init, FinalInit, Resting
  <2> QED BY <2>1, <2>2 DEF CompletingInv
<1>2. TypeOK /\ ProtocolInv /\ CompletionInv /\ [Next]_vars => CompletionInv'
  <2> SUFFICES ASSUME TypeOK, ProtocolInv, CompletionInv, [Next]_vars
               PROVE  CompletionInv'
    OBVIOUS
  <2>i. \A k \in Jobs : FinalizeInv(k) /\ CompletedInv(k)
                        /\ \A g \in Finalizers : CompletingInv(g, k)
    BY DEF ProtocolInv, CompletionInv
  <2>1. ASSUME \A k \in Jobs : KeptFor(k) /\ (status'[k] = "completed" => status[k] = "completed"),
               fin' = fin
        PROVE  CompletionInv'
    BY <2>i, <2>1, UnmovedFinalizer, UnpublishedRow DEF CompletionInv
  <2>2. ASSUME NEW j \in Jobs, Dispatches(j) \/ Cancels(j)
        PROVE  CompletionInv'
    <3>1. fin' = fin
      BY <2>2 DEF Dispatches, Cancels, finalVars
    <3> QED BY <2>1, <2>2, <3>1, DispatchKeepsWork, CancelKeepsWork
  <2>3. ASSUME NEW r \in Reconcilers, Reconciles(r)
        PROVE  CompletionInv'
    <3>1. fin' = fin
      BY <2>3 DEF Reconciles, finalVars
    <3> QED BY <2>1, <2>3, <3>1, ReconcileKeepsWork
  <2>4. ASSUME NEW f \in Finalizers, NEW j \in Jobs, Finalizes(f, j)
        PROVE  CompletionInv'
    <3>1. \A k \in Jobs : KeptFor(k)
      BY <2>4, FinalizeKeepsWork
    <3>2. \A g \in Finalizers, k \in Jobs : ~(g = f /\ k = j) => fin'[g][k] = fin[g][k]
      BY <2>4 DEF Finalizes, FinalPick, FinalStep, FinalQuery, FinalQueryFails, FinalExpire,
         FinalSave, FinalSettle, FinalResults, FinalReconcile, FinalCleanup, FinalPublish,
         FinalFailSettle, FinalFailReconcile, FinalFreeze, FinalFailCleanup, FTo, Rest, Plan,
         TypeOK, FinalTypeOK
    <3>3. \A k \in Jobs : k # j => status'[k] = status[k]
      BY <2>4 DEF Finalizes, FinalPick, FinalStep, FinalQuery, FinalQueryFails, FinalExpire,
         FinalSave, FinalSettle, FinalResults, FinalReconcile, FinalCleanup, FinalPublish,
         FinalFailSettle, FinalFailReconcile, FinalFreeze, FinalFailCleanup, UpdateStatus,
         UpdateResults, ClearCleanupMetadata, queueVars, TypeOK, QueueTypeOK
    <3> QED
      BY <2>i, <2>4, <3>1, <3>2, <3>3, FinalizeCompletes, UnmovedFinalizer, UnpublishedRow
         DEF CompletionInv
  <2>5. ASSUME NEW f \in Finalizers, FinalizerDies(f)
        PROVE  CompletionInv'
    <3>1. UNCHANGED <<queueVars, moneyVars, artifact>>
      BY <2>5 DEF FinalizerDies, FinalCrash
    <3>2. \A g \in Finalizers, k \in Jobs :
            fin'[g][k] = fin[g][k] \/ fin'[g][k].goal = "failed"
      BY <2>5 DEF FinalizerDies, FinalCrash, Resting, TypeOK, FinalTypeOK
    <3> QED
      BY <2>i, <3>1, <3>2 DEF CompletionInv, CompletedInv, CompletingInv, BookedAs, Recorded,
         Usage, queueVars, moneyVars
  <2>6. CASE Environment \/ UNCHANGED vars
    <3>1. fin' = fin /\ UNCHANGED <<queueVars, entry, artifact>>
      BY <2>6 DEF Environment, ProviderStep, Tick, ReadExposure, ReconcileRows, moneyVars,
         worldVars, finalVars, vars, sharedVars
    <3>2. \A k \in Jobs : hold[k] = "settled" => hold'[k] = "settled"
      BY <2>6 DEF Environment, ProviderStep, Tick, ReadExposure, ReconcileRows,
         ReconciledHolds, moneyVars, vars, sharedVars
    <3> QED
      BY <2>i, <3>1, <3>2 DEF CompletionInv, CompletedInv, CompletingInv, BookedAs, Recorded,
         Usage, queueVars
  <2> QED BY <2>2, <2>3, <2>4, <2>5, <2>6 DEF Next
<1> QED BY <1>1, <1>2, TypeInvariant, ProtocolInvariant, PTL DEF Spec

(* A completed row has its report, its settled hold, its booked amount and *)
(* no provider files, whoever finalised it.                                *)
THEOREM CompletedJobsAreComplete == Spec => []CompletedIsComplete
<1>1. CompletionInv => CompletedIsComplete
  BY DEF CompletionInv, CompletedInv, BookedAs, CompletedIsComplete
<1> QED BY <1>1, CompletionInvariant, PTL

-----------------------------------------------------------------------------
(* The record of the provider files goes only after the money: proof of    *)
(* CleanupFollowsMoney.                                                    *)

(* The cost of the job is booked, or the paid API stopped.                 *)
Accounted(j) == Recorded(j) \/ frozen

(* Whoever has gone past the settlement, and may come to the cleanup, has  *)
(* accounted for the cost.                                                 *)
CleanupInv ==
  \A j \in Jobs :
    /\ j \in WithUploads /\ status[j] # "absent" /\ ~uploads[j] => Accounted(j)
    /\ cpc[j] = "cleanup" => Accounted(j)
    /\ \A f \in Finalizers :
         fin[f][j].pc \in {"results", "reconcile", "fail_reconcile", "fail_cleanup", "cleanup"}
           => Accounted(j)

(* No step unsays it. *)
LEMMA AccountsStay ==
  ASSUME TypeOK, NEW i \in Jobs, MoneyStep(i) \/ ProviderMove(i), NEW j \in Jobs, Accounted(j)
  PROVE  Accounted(j)'
<1>1. NoEntry \notin Events
  BY DEF NoEntry, Events, Writers
<1>2. Unreserved \in Events
  BY DEF Unreserved, Event, Events, Writers
<1> USE DEF Accounted, Recorded, TypeOK, MoneyTypeOK
<1>3. ASSUME NEW e \in Events,
             Settle(i, e) \/ SettleTorn(i, e) \/ SettleConflict(i, e) \/ SettleUnavailable(e)
      PROVE  Accounted(j)'
  BY <1>1, <1>3 DEF Settle, SettleTorn, SettleConflict, SettleUnavailable, FreezeIfOver
<1>4. CASE Reserve(i) \/ Mark(i) \/ Refund(i) \/ ReconcileRows \/ UNCHANGED moneyVars
  BY <1>4 DEF Reserve, Mark, Refund, ReconcileRows, moneyVars
<1>5. CASE RecordIntegrityFailure(i) \/ RecordUnreserved(i) \/ FreezeOnly
  BY <1>5 DEF RecordIntegrityFailure, RecordUnreserved, FreezeOnly
<1> QED BY <1>3, <1>4, <1>5 DEF MoneyStep, ProviderMove

(* A settlement, and a freeze, account for the cost.                       *)
LEMMA SettlingAccounts ==
  ASSUME TypeOK, NEW j \in Jobs, NEW w \in Writers, NEW c \in {"actual", "ceiling", "over"},
         Settle(j, Event(w, c)) \/ RecordUnreserved(j) \/ FreezeOnly
  PROVE  Accounted(j)'
<1>1. Event(w, c) \in Events /\ NoEntry \notin Events
  BY DEF Event, Events, NoEntry, Writers
<1> QED BY <1>1 DEF Settle, RecordUnreserved, FreezeOnly, Accounted, Recorded, TypeOK, MoneyTypeOK

(* The rows of a job that a step of another process leaves in order.       *)
LEMMA RowStaysAccounted ==
  ASSUME NEW j \in Jobs, CleanupInv, Accounted(j) => Accounted(j)',
         \/ status'[j] # "absent" => status[j] # "absent"
         \/ j \in WithUploads => uploads'[j],
         ~uploads'[j] => \/ ~uploads[j] \/ Accounted(j)'
                        \/ status'[j] = "absent" \/ j \notin WithUploads
  PROVE  j \in WithUploads /\ status'[j] # "absent" /\ ~uploads'[j] => Accounted(j)'
BY DEF CleanupInv

(* A dispatcher never drops what another process has accounted for.        *)
LEMMA DispatchAccounts ==
  ASSUME TypeOK, ProtocolInv, CleanupInv, NEW i \in Jobs, Dispatches(i)
  PROVE  CleanupInv'
<1>1. cpc' = cpc /\ fin' = fin
  BY DEF Dispatches, finalVars
<1>2. \A j \in Jobs : Accounted(j) => Accounted(j)'
  BY DispatchFootprint, AccountsStay
<1>3. \/ Enqueue(i) \/ ClaimSubmission(i) \/ CancelQueuedSubmission(i)
      \/ UpdateStatus(i, "failed") \/ RecordHandle(i) \/ UNCHANGED queueVars
  BY DEF Dispatches, DispatchStep, DispatchReserve, DispatchPrepare, DispatchEnqueue,
     DispatchRestore, DispatchCheck, DispatchClaim, DispatchMark, DispatchPost,
     DispatchHandoff, DispatchCancelQueued, DispatchRefund, DispatchUndo,
     DispatchUndoSubmit, DispatchFailRefund, DispatchFail, DispatchSettleFail,
     DispatchAbandon, DispatchSettleHandoff, DispatchWebRefund, DispatchWebFail,
     DispatchWebLast, DispatchCrash
<1>4. ASSUME NEW j \in Jobs
      PROVE  j \in WithUploads /\ status'[j] # "absent" /\ ~uploads'[j] => Accounted(j)'
  <2>1. CASE Enqueue(i) /\ i = j
    BY <2>1 DEF Enqueue, TypeOK, QueueTypeOK
  <2>2. CASE ~(Enqueue(i) /\ i = j)
    <3>1. uploads'[j] = uploads[j] /\ (status'[j] # "absent" => status[j] # "absent")
      BY <1>3, <2>2 DEF Enqueue, ClaimSubmission, CancelQueuedSubmission, UpdateStatus,
         RecordHandle, Open, queueVars, TypeOK, QueueTypeOK
    <3> QED BY <1>2, <3>1, RowStaysAccounted
  <2> QED BY <2>1, <2>2
<1> QED BY <1>1, <1>2, <1>4 DEF CleanupInv

(* A cancellation past its settlement has booked the cost or found the     *)
(* freeze.                                                                 *)
LEMMA CancelAccounts ==
  ASSUME TypeOK, ProtocolInv, CleanupInv, NEW i \in Jobs, Cancels(i)
  PROVE  CleanupInv'
<1>1. fin' = fin
  BY DEF Cancels, finalVars
<1>2. \A j \in Jobs : Accounted(j) => Accounted(j)'
  BY CancelFootprint, AccountsStay
<1>3. \/ CancelQueuedSubmission(i) \/ CancelActiveJob(i) \/ UNCHANGED queueVars
      \/ ClearCleanupMetadata(i) /\ cpc[i] = "cleanup"
  BY DEF Cancels, CancelRequest, CancelStep, CancelUnclaimed, CancelRefresh, CancelRollback,
     CancelProvider, CancelActive, CancelSettle, CancelClose, CancelIntegrity, CancelCleanup,
     CancelCrash, worldVars
<1>4. ASSUME NEW j \in Jobs
      PROVE  j \in WithUploads /\ status'[j] # "absent" /\ ~uploads'[j] => Accounted(j)'
  <2>1. status'[j] # "absent" => status[j] # "absent"
    BY <1>3 DEF CancelQueuedSubmission, CancelActiveJob, ClearCleanupMetadata, Open, queueVars,
       TypeOK, QueueTypeOK
  <2>2. ~uploads'[j] => ~uploads[j] \/ Accounted(j)
    BY <1>3 DEF CancelQueuedSubmission, CancelActiveJob, ClearCleanupMetadata, queueVars,
       TypeOK, QueueTypeOK, CleanupInv
  <2> QED BY <1>2, <2>1, <2>2, RowStaysAccounted
<1>5. ASSUME NEW j \in Jobs, cpc'[j] = "cleanup"
      PROVE  Accounted(j)'
  <2>1. CASE cpc[j] = "cleanup"
    BY <1>2, <2>1 DEF CleanupInv
  <2>2. CASE cpc[j] # "cleanup"
    <3>1. i = j /\ \E w \in {"cancel", "cancel.retry", "cancel.queued"} : Settle(i, Event(w, "ceiling"))
      BY <1>5, <2>2 DEF Cancels, CancelRequest, CancelStep, CancelUnclaimed, CancelRefresh,
         CancelRollback, CancelProvider, CancelActive, CancelSettle, CancelClose,
         CancelIntegrity, CancelCleanup, CancelCrash, CancelSettles, CancelRefunds, CTo,
         TypeOK, CancelTypeOK
    <3> QED BY <3>1, SettlingAccounts DEF Writers
  <2> QED BY <2>1, <2>2
<1> QED BY <1>1, <1>2, <1>4, <1>5 DEF CleanupInv

(* A repair only adds to what is accounted for.                            *)
LEMMA ReconcileAccounts ==
  ASSUME TypeOK, ProtocolInv, CleanupInv, NEW r \in Reconcilers, Reconciles(r)
  PROVE  CleanupInv'
<1>1. cpc' = cpc /\ fin' = fin /\ current[r] \in Jobs
  BY DEF Reconciles, finalVars, TypeOK, ReconcileTypeOK
<1>2. \A j \in Jobs : Accounted(j) => Accounted(j)'
  BY <1>1, ReconcileFootprint, AccountsStay
<1>3. CancelQueuedSubmission(current[r]) \/ UpdateStatus(current[r], "failed") \/ UNCHANGED queueVars
  BY DEF Reconciles, ReconcileStep, ReconcileSnapshot, ReconcileJudge, ReconcileDone,
     ReconcileCancel, ReconcileFail, ReconcileSettle, ReconcileIntegrity, ReconcileRefund,
     ReconcileCrash
<1>4. ASSUME NEW j \in Jobs
      PROVE  j \in WithUploads /\ status'[j] # "absent" /\ ~uploads'[j] => Accounted(j)'
  <2>1. uploads'[j] = uploads[j] /\ (status'[j] # "absent" => status[j] # "absent")
    BY <1>1, <1>3 DEF CancelQueuedSubmission, UpdateStatus, Open, queueVars, TypeOK, QueueTypeOK
  <2> QED BY <1>2, <2>1, RowStaysAccounted
<1> QED BY <1>1, <1>2, <1>4 DEF CleanupInv

(* A finalizer past its settlement has booked the cost or found the        *)
(* freeze.                                                                 *)
LEMMA FinalizeAccounts ==
  ASSUME TypeOK, ProtocolInv, CleanupInv, NEW f \in Finalizers, NEW i \in Jobs, Finalizes(f, i)
  PROVE  CleanupInv'
<1> DEFINE After == {"results", "reconcile", "fail_reconcile", "fail_cleanup", "cleanup"}
<1>1. cpc' = cpc
  BY DEF Finalizes
<1>2. \A j \in Jobs : Accounted(j) => Accounted(j)'
  BY FinalizeFootprint, AccountsStay
<1>3. \/ UpdateStatus(i, fin[f][i].goal) \/ UpdateResults(i, Usage(i)) \/ UNCHANGED queueVars
      \/ ClearCleanupMetadata(i) /\ fin[f][i].pc \in After
  BY DEF Finalizes, FinalPick, FinalStep, FinalQuery, FinalQueryFails, FinalExpire,
     FinalSave, FinalSettle, FinalResults, FinalReconcile, FinalCleanup, FinalPublish,
     FinalFailSettle, FinalFailReconcile, FinalFreeze, FinalFailCleanup, At
<1>4. ASSUME NEW j \in Jobs
      PROVE  j \in WithUploads /\ status'[j] # "absent" /\ ~uploads'[j] => Accounted(j)'
  <2>1. status'[j] # "absent" => status[j] # "absent"
    BY <1>3 DEF UpdateStatus, UpdateResults, ClearCleanupMetadata, Open, queueVars,
       TypeOK, QueueTypeOK
  <2>2. ~uploads'[j] => ~uploads[j] \/ Accounted(j)
    BY <1>3 DEF UpdateStatus, UpdateResults, ClearCleanupMetadata, queueVars,
       TypeOK, QueueTypeOK, CleanupInv
  <2> QED BY <1>2, <2>1, <2>2, RowStaysAccounted
<1>5. ASSUME NEW g \in Finalizers, NEW j \in Jobs, fin'[g][j].pc \in After
      PROVE  Accounted(j)'
  <2>1. CASE fin[g][j].pc \in After
    BY <1>2, <2>1 DEF CleanupInv
  <2>2. CASE fin[g][j].pc \notin After
    <3>1. g = f /\ j = i
      BY <1>5, <2>2 DEF Finalizes, FinalPick, FinalStep, FinalQuery, FinalQueryFails, FinalExpire,
         FinalSave, FinalSettle, FinalResults, FinalReconcile, FinalCleanup, FinalPublish,
         FinalFailSettle, FinalFailReconcile, FinalFreeze, FinalFailCleanup, FTo, Rest, Plan,
         TypeOK, FinalTypeOK
    <3>2. /\ \A p \in FinalPCs : FTo(f, i, p) => fin'[f][i].pc = p
          /\ \A p \in FinalPCs, o \in Terminal, b \in BOOLEAN : Plan(f, i, p, o, b) => fin'[f][i].pc = p
          /\ Rest(f, i) => fin'[f][i].pc = "idle"
      BY FinalizerMoves DEF Rest, Resting, TypeOK, FinalTypeOK
    <3>3. FinalSettle(f, i) \/ FinalFailSettle(f, i) \/ FinalFreeze(f, i)
      BY <1>5, <2>2, <3>1, <3>2 DEF Finalizes, FinalPick, FinalStep, FinalQuery,
         FinalQueryFails, FinalExpire, FinalSave, FinalResults, FinalReconcile, FinalCleanup,
         FinalPublish, FinalFailReconcile, FinalFailCleanup, At, FinalPCs, Goal, Terminal
    <3>4. \/ Settle(i, CompletionEvent(f, i)) \/ Settle(i, Event("poller.failure", "ceiling"))
          \/ RecordUnreserved(i) \/ FreezeOnly
      BY <1>5, <3>1, <3>2, <3>3 DEF FinalSettle, FinalFailSettle, FinalFreeze, FinalPCs
    <3>5. \E w \in Writers, c \in {"actual", "ceiling", "over"} : CompletionEvent(f, i) = Event(w, c)
      BY DEF CompletionEvent, Usage, Writers
    <3> QED BY <3>1, <3>4, <3>5, SettlingAccounts DEF Writers
  <2> QED BY <2>1, <2>2
<1> QED BY <1>1, <1>2, <1>4, <1>5 DEF CleanupInv

(* Whoever is past the settlement of a job has accounted for its cost, and *)
(* no step of any process unsays it.                                       *)
THEOREM CleanupInvariant == Spec => []CleanupInv
<1>1. Init => CleanupInv
  <2> SUFFICES ASSUME Init, NEW j \in Jobs
               PROVE  /\ status[j] = "absent" /\ cpc[j] = "idle"
                      /\ \A f \in Finalizers : fin[f][j].pc = "idle"
    BY DEF CleanupInv
  <2>1. status[j] = "absent" /\ cpc[j] = "idle"
    BY DEF Init, QueueInit, CancelInit
  <2>2. ASSUME NEW f \in Finalizers PROVE fin[f][j].pc = "idle"
    BY DEF Init, FinalInit, Resting
  <2> QED BY <2>1, <2>2
<1>2. TypeOK /\ ProtocolInv /\ CleanupInv /\ [Next]_vars => CleanupInv'
  <2> SUFFICES ASSUME TypeOK, ProtocolInv, CleanupInv, [Next]_vars
               PROVE  CleanupInv'
    OBVIOUS
  <2>1. CASE \E j \in Jobs : Dispatches(j) \/ Cancels(j)
    BY <2>1, DispatchAccounts, CancelAccounts
  <2>2. CASE \E f \in Finalizers, j \in Jobs : Finalizes(f, j)
    BY <2>2, FinalizeAccounts
  <2>3. CASE \E r \in Reconcilers : Reconciles(r)
    BY <2>3, ReconcileAccounts
  <2>4. ASSUME NEW f \in Finalizers, FinalizerDies(f)
        PROVE  CleanupInv'
    <3>1. UNCHANGED <<status, uploads, entry, frozen, cpc>>
      BY <2>4 DEF FinalizerDies, FinalCrash, queueVars, moneyVars
    <3>2. \A g \in Finalizers, k \in Jobs :
            fin'[g][k] = fin[g][k] \/ fin'[g][k].pc = "idle"
      BY <2>4 DEF FinalizerDies, FinalCrash, Resting, TypeOK, FinalTypeOK
    <3> QED BY <3>1, <3>2 DEF CleanupInv, Accounted, Recorded
  <2>5. CASE Environment \/ UNCHANGED vars
    <3>1. UNCHANGED <<status, uploads, entry, frozen, cpc, fin>>
      BY <2>5 DEF Environment, ProviderStep, Tick, ReadExposure, ReconcileRows, queueVars,
         moneyVars, worldVars, finalVars, vars, sharedVars
    <3> QED BY <3>1 DEF CleanupInv, Accounted, Recorded
  <2> QED BY <2>1, <2>2, <2>3, <2>4, <2>5 DEF Next
<1> QED BY <1>1, <1>2, TypeInvariant, ProtocolInvariant, PTL DEF Spec

(* The record of a job's provider files is dropped only after its cost was *)
(* booked, or the paid API frozen: by cancellations, finalizers and their  *)
(* retries alike.                                                          *)
THEOREM CleanupAlwaysFollowsMoney == Spec => []CleanupFollowsMoney
<1>1. WithUploads \subseteq Jobs
  BY JobSetsAssumption
<1>2. CleanupInv => CleanupFollowsMoney
  BY <1>1 DEF CleanupInv, Accounted, CleanupFollowsMoney
<1> QED BY <1>2, CleanupInvariant, PTL
=============================================================================
