----------------------------- MODULE Dispatcher -----------------------------
(***************************************************************************)
(* Reserved dispatch of one research job (services/research_submission.py, *)
(* dispatch_reserved_research): reserve, enqueue, restore and check the    *)
(* hold, win the claim, mark the hold, POST, and hand the provider's job   *)
(* id to the queue, with every refund and settlement on the way out.       *)
(*                                                                         *)
(* dpc[j] names the call the submitting task is about to make; every call  *)
(* on the queue, the reservation store, the ledger or the provider is one  *)
(* step, so any other process may run between two of them.                 *)
(***************************************************************************)
EXTENDS ResearchWorld

VARIABLES
  dpc,           \* the dispatcher's next call, per job
  interrupted    \* the caller was cancelled (asyncio.CancelledError)

dispatchVars == <<dpc, interrupted>>

DispatchPCs ==
  {"idle", "prepare", "enqueue", "restore", "check", "claim", "mark", "post",
   "handoff", "cancel_queued", "refund", "undo", "undo_submit", "fail_refund",
   "fail", "settle_fail", "abandon", "settle_handoff",
   "web_refund", "web_fail", "web_last", "done"}

DispatchTypeOK ==
  /\ dpc \in [Jobs -> DispatchPCs]
  /\ interrupted \in [Jobs -> BOOLEAN]

DispatchInit ==
  /\ dpc = [j \in Jobs |-> "idle"]
  /\ interrupted = [j \in Jobs |-> FALSE]

To(j, p) == dpc' = [dpc EXCEPT ![j] = p] /\ UNCHANGED interrupted

(* The caller is cancelled while the call is under way; the call finishes. *)
InterruptTo(j, p) ==
  /\ Fault
  /\ dpc' = [dpc EXCEPT ![j] = p]
  /\ interrupted' = [interrupted EXCEPT ![j] = TRUE]

(* An exception leaves dispatch: the web route refunds and fails the job   *)
(* once more, for other callers and for a cancellation the task is over.   *)
Raised(j) == IF j \in WebJobs /\ ~interrupted[j] THEN "web_refund" ELSE "done"

-----------------------------------------------------------------------------
DispatchReserve(j) ==
  /\ dpc[j] = "idle"
  /\ Reserve(j)
  /\ To(j, "prepare") /\ NoFault
  /\ UNCHANGED <<queueVars, provider, artifact, age>>

(* _prepare_queued_dispatch: an invalid request is refunded before INSERT. *)
DispatchPrepare(j) ==
  /\ dpc[j] = "prepare"
  /\ (To(j, "enqueue") /\ NoFault) \/ (To(j, "refund") /\ Fault)
  /\ UNCHANGED <<queueVars, moneyVars, provider, artifact, age>>

(* _enqueue_reserved_job *)
DispatchEnqueue(j) ==
  /\ dpc[j] = "enqueue"
  /\ \/ Enqueue(j) /\ To(j, "restore") /\ NoFault
     \/ UNCHANGED queueVars /\ To(j, "undo") /\ Fault
     \/ (Enqueue(j) \/ UNCHANGED queueVars) /\ InterruptTo(j, "cancel_queued")
  /\ UNCHANGED <<moneyVars, provider, artifact, age>>

(* restore_active_queued_reservation, the read of the row: a job that left *)
(* the queued state is not dispatched.  Reading may also raise.            *)
DispatchRestore(j) ==
  /\ dpc[j] = "restore"
  /\ \/ status[j] = "queued" /\ To(j, "check") /\ NoFault
     \/ status[j] # "queued" /\ To(j, "refund") /\ NoFault
     \/ status[j] # "queued" /\ InterruptTo(j, "cancel_queued")
     \/ To(j, "undo") /\ Fault
  /\ UNCHANGED <<queueVars, moneyVars, provider, artifact, age>>

(* The same, the read of the hold: an unreadable store leaves the job      *)
(* queued for a later repair, request bounds that changed in the queue     *)
(* undo the submission, and a closed hold fails the job for good.          *)
DispatchCheck(j) ==
  /\ dpc[j] = "check"
  /\ \/ hold[j] = "active" /\ To(j, "claim") /\ NoFault /\ UNCHANGED queueVars
     \/ To(j, "done") /\ Fault /\ UNCHANGED queueVars
     \/ hold[j] = "active" /\ To(j, "undo") /\ Fault /\ UNCHANGED queueVars
     \/ hold[j] # "active" /\ UpdateStatus(j, "failed") /\ To(j, "refund") /\ NoFault
     \/ hold[j] = "active" /\ InterruptTo(j, "cancel_queued") /\ UNCHANGED queueVars
     \/ /\ hold[j] # "active" /\ UpdateStatus(j, "failed")
        /\ InterruptTo(j, "cancel_queued")
  /\ UNCHANGED <<moneyVars, provider, artifact, age>>

(* _claim_reserved_job *)
DispatchClaim(j) ==
  /\ dpc[j] = "claim"
  /\ \/ ClaimSubmission(j) /\ To(j, "mark") /\ NoFault
     \/ status[j] # "queued" /\ UNCHANGED queueVars /\ To(j, "refund") /\ NoFault
     \/ UNCHANGED queueVars /\ To(j, Raised(j)) /\ Fault
     \/ ClaimSubmission(j) /\ InterruptTo(j, "fail_refund")
     \/ status[j] # "queued" /\ UNCHANGED queueVars /\ InterruptTo(j, "refund")
  /\ UNCHANGED <<moneyVars, provider, artifact, age>>

(* Deliberately wrong: posts although the mark was refused. *)
DispatchMarkBestEffort(j) ==
  /\ dpc[j] = "mark"
  /\ \/ Mark(j) /\ To(j, "post") /\ NoFault
     \/ ~Markable(j) /\ UNCHANGED moneyVars /\ To(j, "post") /\ NoFault
  /\ UNCHANGED <<queueVars, provider, artifact, age>>

(* submit_reserved_provider_research up to the durable mark.  A refused or *)
(* failed mark is undone; so is a mark whose caller was cancelled, but the *)
(* store refuses to refund the hold once the mark has landed.              *)
DispatchMark(j) ==
  /\ dpc[j] = "mark"
  /\ \/ Mark(j) /\ To(j, "post") /\ NoFault
     \/ ~Markable(j) /\ UNCHANGED moneyVars /\ To(j, "undo_submit") /\ NoFault
     \/ UNCHANGED moneyVars /\ To(j, "undo_submit") /\ Fault
     \/ Mark(j) /\ InterruptTo(j, "undo_submit")
     \/ UNCHANGED moneyVars /\ InterruptTo(j, "undo_submit")
  /\ UNCHANGED <<queueVars, provider, artifact, age>>

(* The POST itself: an answer with a job id, work accepted without an      *)
(* answer, a definite rejection, or a request that never arrived.          *)
DispatchPost(j) ==
  /\ dpc[j] = "post"
  /\ \/ /\ provider' = [provider EXCEPT ![j] = "accepted"]
        /\ To(j, "handoff") /\ NoFault
     \/ /\ \E p \in {"accepted", "rejected", "none"} :
             provider' = [provider EXCEPT ![j] = p]
        /\ (To(j, "settle_fail") /\ NoFault) \/ InterruptTo(j, "settle_fail")
  /\ UNCHANGED <<queueVars, moneyVars, artifact, age>>

(* _persist_provider_handoff, the queue half. *)
DispatchHandoff(j) ==
  /\ dpc[j] = "handoff"
  /\ \/ RecordHandle(j) /\ To(j, "done") /\ NoFault
     \/ ~Open(j) /\ UNCHANGED queueVars /\ To(j, "abandon") /\ NoFault
     \/ UNCHANGED queueVars /\ To(j, "abandon") /\ Fault
     \/ RecordHandle(j) /\ InterruptTo(j, "done")
     \/ UNCHANGED queueVars /\ InterruptTo(j, "abandon")
  /\ UNCHANGED <<moneyVars, provider, artifact, age>>

-----------------------------------------------------------------------------
(* Exits.  A marked hold always matches its handle (see MarkedHoldMatches  *)
(* in ResearchJobs), so the settlements below never meet a mismatch.       *)

DispatchCancelQueued(j) ==
  /\ dpc[j] = "cancel_queued"
  /\ \/ CancelQueuedSubmission(j) /\ To(j, "refund") /\ NoFault
     \/ status[j] # "queued" /\ UNCHANGED queueVars /\ To(j, "done") /\ NoFault
     \/ UNCHANGED queueVars /\ To(j, "done") /\ Fault
  /\ UNCHANGED <<moneyVars, provider, artifact, age>>

(* _refund_predispatch, the last step of an exit. *)
DispatchRefund(j) ==
  /\ dpc[j] = "refund"
  /\ (Refund(j) /\ NoFault) \/ (UNCHANGED moneyVars /\ Fault)
  /\ To(j, Raised(j))
  /\ UNCHANGED <<queueVars, provider, artifact, age>>

(* Refund, then fail the row: a failed refund raises past the second step. *)
DispatchUndo(j) ==
  /\ dpc[j] = "undo"
  /\ \/ Refund(j) /\ To(j, "fail") /\ NoFault
     \/ UNCHANGED moneyVars /\ To(j, Raised(j)) /\ Fault
     \/ Refund(j) /\ InterruptTo(j, "done")
  /\ UNCHANGED <<queueVars, provider, artifact, age>>

(* The same around submit_reserved_provider_research, whose caller fails   *)
(* the row whatever became of the refund.                                  *)
DispatchUndoSubmit(j) ==
  /\ dpc[j] = "undo_submit"
  /\ (Refund(j) /\ NoFault) \/ (UNCHANGED moneyVars /\ Fault)
  /\ To(j, "fail")
  /\ UNCHANGED <<queueVars, provider, artifact, age>>

(* A claim won by a cancelled caller: fail the row, then refund. *)
DispatchFailRefund(j) ==
  /\ dpc[j] = "fail_refund"
  /\ (UpdateStatus(j, "failed") /\ NoFault) \/ (UNCHANGED queueVars /\ Fault)
  /\ To(j, "refund")
  /\ UNCHANGED <<moneyVars, provider, artifact, age>>

(* _mark_dispatch_failed: best effort. *)
DispatchFail(j) ==
  /\ dpc[j] = "fail"
  /\ (UpdateStatus(j, "failed") /\ NoFault) \/ (UNCHANGED queueVars /\ Fault)
  /\ To(j, Raised(j))
  /\ UNCHANGED <<moneyVars, provider, artifact, age>>

(* _settle_after_provider_error on the full ceiling. *)
DispatchSettleFail(j) ==
  /\ dpc[j] = "settle_fail"
  /\ SettlementEnds(j, Event("dispatch.provider_failure", "ceiling"))
  /\ To(j, "fail")
  /\ UNCHANGED <<queueVars, provider, artifact, age>>

(* _persist_provider_handoff after the queue refused the provider id: stop *)
(* the accepted work if the provider lets us, then settle the ceiling.     *)
DispatchAbandon(j) ==
  /\ dpc[j] = "abandon"
  /\ CancelConfirmed(j) \/ CancelUnconfirmed(j)
  /\ To(j, "settle_handoff") /\ NoFault
  /\ UNCHANGED <<queueVars, moneyVars, artifact, age>>

DispatchSettleHandoff(j) ==
  /\ dpc[j] = "settle_handoff"
  /\ SettlementEnds(j, Event("dispatch.handoff", "ceiling"))
  /\ To(j, Raised(j))
  /\ UNCHANGED <<queueVars, provider, artifact, age>>

(* The web route's own handler: refund_job, then update_status(FAILED); a  *)
(* refund that raises reaches the outer handler, which tries it once more. *)
DispatchWebRefund(j) ==
  /\ dpc[j] = "web_refund"
  /\ \/ Refund(j) /\ To(j, "web_fail") /\ NoFault
     \/ UNCHANGED moneyVars /\ To(j, "web_last") /\ Fault
  /\ UNCHANGED <<queueVars, provider, artifact, age>>

DispatchWebFail(j) ==
  /\ dpc[j] = "web_fail"
  /\ (UpdateStatus(j, "failed") /\ NoFault) \/ (UNCHANGED queueVars /\ Fault)
  /\ To(j, "done")
  /\ UNCHANGED <<moneyVars, provider, artifact, age>>

DispatchWebLast(j) ==
  /\ dpc[j] = "web_last"
  /\ Refund(j) /\ To(j, "done") /\ NoFault
  /\ UNCHANGED <<queueVars, provider, artifact, age>>

(* The submitting process dies between two calls; nothing resumes it. *)
DispatchCrash(j) ==
  /\ dpc[j] \notin {"idle", "done"}
  /\ To(j, "done") /\ Fault
  /\ UNCHANGED <<queueVars, moneyVars, provider, artifact, age>>

DispatchStep(j) ==
  \/ DispatchReserve(j) \/ DispatchPrepare(j) \/ DispatchEnqueue(j)
  \/ DispatchRestore(j) \/ DispatchCheck(j) \/ DispatchClaim(j)
  \/ DispatchMark(j) \/ DispatchPost(j) \/ DispatchHandoff(j)
  \/ DispatchCancelQueued(j) \/ DispatchRefund(j) \/ DispatchUndo(j)
  \/ DispatchUndoSubmit(j) \/ DispatchFailRefund(j) \/ DispatchFail(j)
  \/ DispatchSettleFail(j) \/ DispatchAbandon(j) \/ DispatchSettleHandoff(j)
  \/ DispatchWebRefund(j) \/ DispatchWebFail(j) \/ DispatchWebLast(j)
=============================================================================
