------------------------------ MODULE Canceller ------------------------------
(***************************************************************************)
(* User cancellation of a job (services/research_cancellation.py).  One    *)
(* request at a time per job; it starts from a snapshot of the row and may *)
(* be repeated, also on a job that is already cancelled.                   *)
(***************************************************************************)
EXTENDS ResearchWorld

VARIABLE cpc       \* the canceller's next call, per job

CancelPCs == {"idle", "unclaimed", "refresh", "rollback", "provider",
              "active", "settle", "close", "give_back", "integrity", "cleanup"}

CancelTypeOK == cpc \in [Jobs -> CancelPCs]
CancelInit == cpc = [j \in Jobs |-> "idle"]

CTo(j, p) == cpc' = [cpc EXCEPT ![j] = p]

(* cancel_reserved_research decides on the snapshot: a queued row is       *)
(* contested, an accepted one is cancelled at the provider first, a        *)
(* cancelled one has its cost and cleanup closed again; any other row,     *)
(* in particular a claimed one without a provider id, is refused.          *)
CancelRequest(j) ==
  /\ j \in Cancellable /\ cpc[j] = "idle"
  /\ \/ status[j] = "queued" /\ CTo(j, "unclaimed")
     \/ status[j] = "processing" /\ handle[j] /\ CTo(j, "provider")
     \/ status[j] = "cancelled" /\ (handle[j] \/ uploads[j]) /\ CTo(j, "close")
     \/ status[j] = "cancelled" /\ ~(handle[j] \/ uploads[j]) /\ CTo(j, "give_back")
  /\ UNCHANGED <<queueVars, moneyVars, worldVars>>

(* _cancel_unclaimed_submission: contest the claim, or look again. *)
CancelUnclaimed(j) ==
  /\ cpc[j] = "unclaimed"
  /\ \/ CancelQueuedSubmission(j) /\ CTo(j, "rollback")
     \/ status[j] # "queued" /\ UNCHANGED queueVars /\ CTo(j, "refresh")
  /\ UNCHANGED <<moneyVars, worldVars>>

(* A claimed row without a provider id is refused.  So is, in effect, a    *)
(* terminal one: cancel_active_job loses, though its provider job, if it   *)
(* has one, is asked to stop first.                                        *)
CancelRefresh(j) ==
  /\ cpc[j] = "refresh"
  /\ CTo(j, IF handle[j] THEN "provider" ELSE "idle")
  /\ UNCHANGED <<queueVars, moneyVars, worldVars>>

(* Deliberately wrong: cleans up although the settlement raised. *)
CancelSettlesBestEffort(j, w) ==
  \/ NoFault /\ Settle(j, Event(w, "ceiling")) /\ CTo(j, "cleanup")
  \/ NoFault /\ ~Matches(j) /\ UNCHANGED moneyVars /\ CTo(j, "integrity")
  \/ SettlementRaises(j, Event(w, "ceiling")) /\ CTo(j, "cleanup")

(* Settle the ceiling under writer w; a hold that does not match freezes   *)
(* the paid API next, any other failure ends the request.                  *)
CancelSettles(j, w) ==
  \/ NoFault /\ Settle(j, Event(w, "ceiling")) /\ CTo(j, "cleanup")
  \/ NoFault /\ ~Matches(j) /\ UNCHANGED moneyVars /\ CTo(j, "integrity")
  \/ SettlementRaises(j, Event(w, "ceiling")) /\ CTo(j, "idle")

CancelRefunds(j) ==
  \/ NoFault /\ Refund(j) /\ CTo(j, "idle")
  \/ Fault /\ UNCHANGED moneyVars /\ CTo(j, "idle")

(* rollback_persisted_submission after the queued row was cancelled. *)
CancelRollback(j) ==
  /\ cpc[j] = "rollback"
  /\ \/ uploads[j] /\ CancelSettles(j, "cancel.queued")
     \/ ~uploads[j] /\ CancelRefunds(j)
  /\ UNCHANGED <<queueVars, provider, artifact, age>>

(* Only a confirmed provider cancellation may continue. *)
CancelProvider(j) ==
  /\ cpc[j] = "provider"
  /\ \/ CancelConfirmed(j) /\ CTo(j, "active")
     \/ CancelUnconfirmed(j) /\ CTo(j, "idle")
  /\ NoFault
  /\ UNCHANGED <<queueVars, moneyVars, artifact, age>>

CancelActive(j) ==
  /\ cpc[j] = "active"
  /\ \/ CancelActiveJob(j) /\ CTo(j, "settle")
     \/ ~Open(j) /\ UNCHANGED queueVars /\ CTo(j, "idle")
  /\ UNCHANGED <<moneyVars, worldVars>>

CancelSettle(j) ==
  /\ cpc[j] = "settle"
  /\ CancelSettles(j, "cancel")
  /\ UNCHANGED <<queueVars, provider, artifact, age>>

(* _close_cancelled_snapshot: the snapshot says whether the provider had   *)
(* been given anything, and so whether the hold is settled or refunded.    *)
CancelClose(j) ==
  /\ \/ cpc[j] = "close" /\ CancelSettles(j, "cancel.retry")
     \/ cpc[j] = "give_back" /\ CancelRefunds(j)
  /\ UNCHANGED <<queueVars, provider, artifact, age>>

CancelIntegrity(j) ==
  /\ cpc[j] = "integrity"
  /\ RecordIntegrityFailure(j)
  /\ CTo(j, "idle")
  /\ UNCHANGED <<queueVars, worldVars>>

(* cleanup_persisted_uploads and clear_cleanup_metadata. *)
CancelCleanup(j) ==
  /\ cpc[j] = "cleanup"
  /\ \/ ClearCleanupMetadata(j) /\ NoFault
     \/ uploads[j] /\ UNCHANGED queueVars /\ Fault
  /\ CTo(j, "idle")
  /\ UNCHANGED <<moneyVars, provider, artifact, age>>

CancelCrash(j) ==
  /\ cpc[j] # "idle"
  /\ CTo(j, "idle") /\ Fault
  /\ UNCHANGED <<queueVars, moneyVars, provider, artifact, age>>

CancelStep(j) ==
  \/ CancelUnclaimed(j) \/ CancelRefresh(j) \/ CancelRollback(j)
  \/ CancelProvider(j) \/ CancelActive(j) \/ CancelSettle(j)
  \/ CancelClose(j) \/ CancelIntegrity(j) \/ CancelCleanup(j)
=============================================================================
