------------------------------ MODULE Finalizer ------------------------------
(***************************************************************************)
(* Finalisation of provider work: the worker's poller (worker/poller.py)   *)
(* and the command-line refresh of one job (reconcile_provider_job in      *)
(* services/provider_completion.py).  Both read the provider's status and  *)
(* then save the report, settle the cost, write the results, clean up the  *)
(* provider's files and publish a terminal status, in that order; only the *)
(* poller expires jobs and closes failures without the results.            *)
(*                                                                         *)
(* An exception anywhere leaves the row processing: the next cycle starts  *)
(* over from the provider's status.                                        *)
(***************************************************************************)
EXTENDS ResearchWorld

VARIABLES
  fin,           \* per finalizer and job: next call, goal and force
  tried          \* per poller: jobs whose expiry already asked to cancel

finalVars == <<fin, tried>>

FinalPCs == {"idle", "query", "expire", "save", "settle", "results",
             "reconcile", "fail_settle", "fail_reconcile", "freeze", "fail_cleanup",
             "cleanup", "publish"}

(* force: terminal_on_cleanup_failure, set once a cancellation is confirmed. *)
FinalStates == [pc : FinalPCs, goal : Terminal, force : BOOLEAN]
Resting == [pc |-> "idle", goal |-> "failed", force |-> FALSE]

FinalTypeOK ==
  /\ fin \in [Finalizers -> [Jobs -> FinalStates]]
  /\ tried \in [Finalizers -> SUBSET Jobs]

FinalInit ==
  /\ fin = [f \in Finalizers |-> [j \in Jobs |-> Resting]]
  /\ tried = [f \in Finalizers |-> {}]

At(f, j, p) == fin[f][j].pc = p

FTo(f, j, p) ==
  fin' = [fin EXCEPT ![f][j].pc = p] /\ UNCHANGED tried

Plan(f, j, p, goal, force) ==
  fin' = [fin EXCEPT ![f][j] = [pc |-> p, goal |-> goal, force |-> force]]

Rest(f, j) == fin' = [fin EXCEPT ![f][j] = Resting] /\ UNCHANGED tried

(* The cost authoritative_completion_usage derives from the response. *)
Usage(j) ==
  CASE j \in NoUsage -> "ceiling"
    [] j \in Overrun \ NoUsage -> "over"
    [] OTHER -> "actual"

CompletionEvent(f, j) ==
  Event(IF f \in Pollers THEN "poller.completion" ELSE "cli", Usage(j))

Goal(j) == CASE provider[j] = "done" -> "completed"
             [] provider[j] = "cancelled" -> "cancelled"
             [] OTHER -> "failed"

-----------------------------------------------------------------------------
(* The snapshot: a processing row that has a provider id.  A poller keeps  *)
(* one check per job in flight.                                            *)
FinalPick(f, j) ==
  /\ At(f, j, "idle")
  /\ status[j] = "processing" /\ handle[j]
  /\ FTo(f, j, "query")
  /\ UNCHANGED <<queueVars, moneyVars, worldVars>>

Expired(f, j) ==
  /\ f \in Pollers
  /\ age[j] = 2 \/ (age[j] = 1 /\ provider[j] = "accepted")

(* _check_job_status, reconcile_provider_job *)
FinalQuery(f, j) ==
  /\ At(f, j, "query")
  /\ \/ Expired(f, j) /\ FTo(f, j, "expire")
     \/ ~Expired(f, j) /\ provider[j] \in Unfinished /\ Rest(f, j)
     \/ /\ ~Expired(f, j) /\ provider[j] \in {"done", "empty"}
        /\ Plan(f, j, "save", Goal(j), FALSE) /\ UNCHANGED tried
     \/ /\ ~Expired(f, j) /\ provider[j] \in {"failed", "cancelled"}
        /\ Plan(f, j, IF f \in Pollers THEN "fail_settle" ELSE "settle", Goal(j), FALSE)
        /\ UNCHANGED tried
  /\ NoFault
  /\ UNCHANGED <<queueVars, moneyVars, provider, artifact, age>>

(* get_status raised: nothing is known, nothing is done. *)
FinalQueryFails(f, j) ==
  /\ At(f, j, "query")
  /\ Rest(f, j) /\ Fault
  /\ UNCHANGED <<queueVars, moneyVars, provider, artifact, age>>

(* _expire_provider_reconciliation: one attempt to cancel per process. *)
FinalExpire(f, j) ==
  /\ At(f, j, "expire")
  /\ \/ /\ j \notin tried[f] /\ CancelConfirmed(j)
        /\ Plan(f, j, "fail_settle", "cancelled", TRUE)
     \/ /\ IF j \in tried[f] THEN UNCHANGED provider ELSE CancelUnconfirmed(j)
        /\ Plan(f, j, "fail_settle", "failed", FALSE)
  /\ tried' = [tried EXCEPT ![f] = @ \cup {j}]
  /\ NoFault
  /\ UNCHANGED <<queueVars, moneyVars, artifact, age>>

-----------------------------------------------------------------------------
(* _handle_completion and finalize_provider_*: save, settle, results,      *)
(* reconcile, clean up, publish.                                           *)

FinalSave(f, j) ==
  /\ At(f, j, "save")
  /\ \/ /\ artifact' = [artifact EXCEPT ![j] = @ \/ fin[f][j].goal = "completed"]
        /\ FTo(f, j, "settle") /\ NoFault
     \/ UNCHANGED artifact /\ Rest(f, j) /\ Fault
  /\ UNCHANGED <<queueVars, moneyVars, provider, age>>

(* Settling an overrun raises after it has settled. *)
FinalSettle(f, j) ==
  LET e == CompletionEvent(f, j)
  IN /\ At(f, j, "settle")
     /\ \/ NoFault /\ Settle(j, e) /\ e.amount # "over" /\ FTo(f, j, "results")
        \/ NoFault /\ Settle(j, e) /\ e.amount = "over" /\ Rest(f, j)
        \/ SettlementRaises(j, e) /\ Rest(f, j)
     /\ UNCHANGED <<queueVars, provider, artifact, age>>

FinalResults(f, j) ==
  /\ At(f, j, "results")
  /\ \/ UpdateResults(j, Usage(j)) /\ FTo(f, j, "reconcile") /\ NoFault
     \/ UNCHANGED queueVars /\ Rest(f, j) /\ Fault
  /\ UNCHANGED <<moneyVars, provider, artifact, age>>

(* reconcile_research_cost_from_ledger: the event is there, so the hold is *)
(* closed after the rows were reconciled.                                  *)
FinalReconcile(f, j) ==
  /\ At(f, j, "reconcile")
  /\ \/ ReconcileRows /\ FTo(f, j, "cleanup") /\ NoFault
     \/ UNCHANGED moneyVars /\ Rest(f, j) /\ Fault
  /\ UNCHANGED <<queueVars, provider, artifact, age>>

(* Deliberately wrong: publishes although provider files are left. *)
FinalCleanupBestEffort(f, j) ==
  /\ At(f, j, "cleanup")
  /\ \/ ClearCleanupMetadata(j) /\ NoFault
     \/ uploads[j] /\ UNCHANGED queueVars /\ Fault
  /\ FTo(f, j, "publish")
  /\ UNCHANGED <<moneyVars, provider, artifact, age>>

(* Deleting the provider's files can fail only if there are files. *)
FinalCleanup(f, j) ==
  /\ At(f, j, "cleanup")
  /\ \/ ClearCleanupMetadata(j) /\ FTo(f, j, "publish") /\ NoFault
     \/ uploads[j] /\ UNCHANGED queueVars /\ Rest(f, j) /\ Fault
  /\ UNCHANGED <<moneyVars, provider, artifact, age>>

(* Deliberately wrong: publishes results and forgets failures. *)
FinalPublishResults(f, j) ==
  /\ At(f, j, "publish")
  /\ IF fin[f][j].goal = "completed" THEN UpdateStatus(j, "completed") ELSE UNCHANGED queueVars
  /\ Rest(f, j) /\ NoFault
  /\ UNCHANGED <<moneyVars, provider, artifact, age>>

FinalPublish(f, j) ==
  /\ At(f, j, "publish")
  /\ (UpdateStatus(j, fin[f][j].goal) /\ NoFault) \/ (UNCHANGED queueVars /\ Fault)
  /\ Rest(f, j)
  /\ UNCHANGED <<moneyVars, provider, artifact, age>>

-----------------------------------------------------------------------------
(* _handle_failure of the poller. *)

FinalFailSettle(f, j) ==
  LET e == Event("poller.failure", "ceiling")
  IN /\ At(f, j, "fail_settle")
     /\ \/ NoFault /\ Settle(j, e) /\ FTo(f, j, "fail_reconcile")
        \/ SettlementRaises(j, e) /\ FTo(f, j, "freeze")
     /\ UNCHANGED <<queueVars, provider, artifact, age>>

FinalFailReconcile(f, j) ==
  /\ At(f, j, "fail_reconcile")
  /\ \/ ReconcileRows /\ FTo(f, j, "fail_cleanup") /\ NoFault
     \/ UNCHANGED moneyVars /\ FTo(f, j, "freeze") /\ Fault
  /\ UNCHANGED <<queueVars, provider, artifact, age>>

(* The cost could not be closed: freeze, and record the ceiling if the     *)
(* ledger still can.  Otherwise only a confirmed cancellation goes on.     *)
FinalFreeze(f, j) ==
  /\ At(f, j, "freeze")
  /\ \/ NoFault /\ RecordUnreserved(j) /\ FTo(f, j, "fail_cleanup")
     \/ /\ (NoFault /\ ~Recordable(j, Unreserved)) \/ Fault
        /\ FreezeOnly
        /\ IF fin[f][j].force THEN FTo(f, j, "fail_cleanup") ELSE Rest(f, j)
  /\ UNCHANGED <<queueVars, provider, artifact, age>>

FinalFailCleanup(f, j) ==
  /\ At(f, j, "fail_cleanup")
  /\ \/ ClearCleanupMetadata(j) /\ FTo(f, j, "publish") /\ NoFault
     \/ /\ uploads[j] /\ UNCHANGED queueVars /\ Fault
        /\ IF fin[f][j].force THEN FTo(f, j, "publish") ELSE Rest(f, j)
  /\ UNCHANGED <<moneyVars, provider, artifact, age>>

(* The process dies; a new poller has tried nothing yet. *)
FinalCrash(f) ==
  /\ \E j \in Jobs : fin[f][j] # Resting
  /\ fin' = [fin EXCEPT ![f] = [j \in Jobs |-> Resting]]
  /\ tried' = [tried EXCEPT ![f] = {}]
  /\ Fault
  /\ UNCHANGED <<queueVars, moneyVars, provider, artifact, age>>

FinalStep(f, j) ==
  \/ FinalQuery(f, j) \/ FinalQueryFails(f, j) \/ FinalExpire(f, j)
  \/ FinalSave(f, j) \/ FinalFailReconcile(f, j)
  \/ FinalSettle(f, j) \/ FinalResults(f, j) \/ FinalReconcile(f, j)
  \/ FinalCleanup(f, j) \/ FinalPublish(f, j) \/ FinalFailSettle(f, j)
  \/ FinalFreeze(f, j) \/ FinalFailCleanup(f, j)
=============================================================================
