----------------------------- MODULE Reconciler -----------------------------
(***************************************************************************)
(* Repair of orphaned holds (services/research_cost_reconciliation.py),    *)
(* run before every new submission.  The active holds are read once, with  *)
(* their marks; each one is then judged against a fresh read of its queue  *)
(* row, so the hold may be closed by somebody else in between.  A          *)
(* settlement that raises ends the pass.                                   *)
(***************************************************************************)
EXTENDS ResearchWorld

VARIABLES
  rpc,           \* the reconciler's next call
  todo,          \* holds of the snapshot still to be judged
  snapMarked,    \* those of them that were marked in the snapshot
  current,       \* the hold being closed
  seenCost       \* the cost in its row when it was judged

reconcileVars == <<rpc, todo, snapMarked, current, seenCost>>

ReconcilePCs == {"idle", "judge", "cancel", "fail", "settle", "refund", "integrity"}

ReconcileTypeOK ==
  /\ rpc \in [Reconcilers -> ReconcilePCs]
  /\ todo \in [Reconcilers -> SUBSET Jobs]
  /\ snapMarked \in [Reconcilers -> SUBSET Jobs]
  /\ current \in [Reconcilers -> Jobs]
  /\ seenCost \in [Reconcilers -> Amounts \cup {NoCost}]

ReconcileInit ==
  /\ rpc = [r \in Reconcilers |-> "idle"]
  /\ todo = [r \in Reconcilers |-> {}]
  /\ snapMarked = [r \in Reconcilers |-> {}]
  /\ current \in [Reconcilers -> Jobs]
  /\ seenCost = [r \in Reconcilers |-> NoCost]

RTo(r, p) ==
  rpc' = [rpc EXCEPT ![r] = p] /\ UNCHANGED <<todo, snapMarked, current, seenCost>>

RNext(r) == RTo(r, "judge")

(* The pass is over, normally or not, and its locals are gone. *)
RRest(r) ==
  /\ rpc' = [rpc EXCEPT ![r] = "idle"]
  /\ todo' = [todo EXCEPT ![r] = {}]
  /\ snapMarked' = [snapMarked EXCEPT ![r] = {}]
  /\ seenCost' = [seenCost EXCEPT ![r] = NoCost]
  /\ UNCHANGED current

(* active_reservations *)
ReconcileSnapshot(r) ==
  /\ rpc[r] = "idle"
  /\ \E j \in Jobs : hold[j] = "active"
  /\ rpc' = [rpc EXCEPT ![r] = "judge"]
  /\ todo' = [todo EXCEPT ![r] = {j \in Jobs : hold[j] = "active"}]
  /\ snapMarked' = [snapMarked EXCEPT ![r] = {j \in Jobs : hold[j] = "active" /\ marked[j]}]
  /\ UNCHANGED <<current, seenCost, queueVars, moneyVars, worldVars>>

(* Deliberately wrong, in two ways: trusts that a failed row was closed by *)
(* whoever failed it, or that a queued row will be claimed some day.       *)
VerdictTrustsFailed(r, j) ==
  CASE status[j] \in {"absent", "failed"} -> "skip"
    [] status[j] = "queued" /\ j \notin snapMarked[r] ->
         IF age[j] >= 1 THEN "cancel" ELSE "skip"
    [] status[j] = "processing" ->
         IF handle[j] \/ age[j] = 0 THEN "skip" ELSE "fail"
    [] status[j] = "cancelled" /\ ~handle[j] /\ j \notin snapMarked[r] -> "refund"
    [] OTHER -> "settle"

VerdictTrustsQueue(r, j) ==
  CASE status[j] \in {"absent", "queued"} -> "skip"
    [] status[j] = "processing" ->
         IF handle[j] \/ age[j] = 0 THEN "skip" ELSE "fail"
    [] status[j] = "cancelled" /\ ~handle[j] /\ j \notin snapMarked[r] -> "refund"
    [] OTHER -> "settle"

(* What the loop decides on the row as it finds it; the age is that of the *)
(* hold.  "skip" covers a missing row, which cannot authorise settlement,  *)
(* work the provider still owns, and everything inside the grace period.   *)
Verdict(r, j) ==
  CASE status[j] = "absent" -> "skip"
    [] status[j] = "queued" /\ j \notin snapMarked[r] ->
         IF age[j] >= 1 THEN "cancel" ELSE "skip"
    [] status[j] = "processing" ->
         IF handle[j] \/ age[j] = 0 THEN "skip" ELSE "fail"
    [] status[j] = "cancelled" /\ ~handle[j] /\ j \notin snapMarked[r] -> "refund"
    [] OTHER -> "settle"

ReconcileJudge(r) ==
  /\ rpc[r] = "judge"
  /\ \E j \in todo[r] :
       /\ todo' = [todo EXCEPT ![r] = @ \ {j}]
       /\ current' = [current EXCEPT ![r] = j]
       /\ seenCost' = [seenCost EXCEPT ![r] = cost[j]]
       /\ rpc' = [rpc EXCEPT ![r] = IF Verdict(r, j) = "skip" THEN "judge" ELSE Verdict(r, j)]
  /\ UNCHANGED <<snapMarked, queueVars, moneyVars, worldVars>>

ReconcileDone(r) ==
  /\ rpc[r] = "judge" /\ todo[r] = {}
  /\ RRest(r)
  /\ UNCHANGED <<queueVars, moneyVars, worldVars>>

(* _refund_stale_queued_reservation: refund only after winning the row. *)
ReconcileCancel(r) ==
  LET j == current[r]
  IN /\ rpc[r] = "cancel"
     /\ \/ CancelQueuedSubmission(j) /\ RTo(r, "refund")
        \/ status[j] # "queued" /\ UNCHANGED queueVars /\ RNext(r)
     /\ UNCHANGED <<moneyVars, worldVars>>

(* A claim whose submission outcome is unknown after the grace period. *)
ReconcileFail(r) ==
  /\ rpc[r] = "fail"
  /\ UpdateStatus(current[r], "failed")
  /\ RTo(r, "settle")
  /\ UNCHANGED <<moneyVars, worldVars>>

(* The settled amount is the cost in the row, or else the ceiling. *)
ReconcileEvent(r) ==
  Event("reconcile", IF seenCost[r] = NoCost THEN "ceiling" ELSE seenCost[r])

ReconcileSettle(r) ==
  LET j == current[r]
      e == ReconcileEvent(r)
  IN /\ rpc[r] = "settle"
     /\ \/ NoFault /\ Settle(j, e) /\ RNext(r)
        \/ NoFault /\ ~Matches(j) /\ UNCHANGED moneyVars /\ RTo(r, "integrity")
        \/ SettlementRaises(j, e) /\ RRest(r)
     /\ UNCHANGED <<queueVars, provider, artifact, age>>

ReconcileIntegrity(r) ==
  /\ rpc[r] = "integrity"
  /\ RecordIntegrityFailure(current[r])
  /\ RRest(r)
  /\ UNCHANGED <<queueVars, worldVars>>

ReconcileRefund(r) ==
  /\ rpc[r] = "refund"
  /\ \/ NoFault /\ Refund(current[r]) /\ RNext(r)
     \/ Fault /\ UNCHANGED moneyVars /\ RRest(r)
  /\ UNCHANGED <<queueVars, provider, artifact, age>>

ReconcileCrash(r) ==
  /\ rpc[r] # "idle"
  /\ RRest(r) /\ Fault
  /\ UNCHANGED <<queueVars, moneyVars, provider, artifact, age>>

ReconcileStep(r) ==
  \/ ReconcileSnapshot(r) \/ ReconcileJudge(r) \/ ReconcileDone(r)
  \/ ReconcileCancel(r) \/ ReconcileFail(r) \/ ReconcileSettle(r)
  \/ ReconcileIntegrity(r) \/ ReconcileRefund(r)
=============================================================================
