------------------------------ MODULE JobQueue ------------------------------
(***************************************************************************)
(* The durable research queue: one SQLite row per job, as SQLiteQueue      *)
(* keeps it (queue/local_queue.py).  Every operator below is one committed *)
(* SQL statement; the WHERE clause of the statement is the guard, and a    *)
(* caller that sees rowcount 0 takes the negation of that guard.           *)
(*                                                                         *)
(* A row is abstracted to what the money and cancellation protocols read:  *)
(* its status, whether the provider's job id has been recorded, the cost   *)
(* written by update_results, and whether the metadata still names         *)
(* provider uploads.                                                       *)
(***************************************************************************)
EXTENDS ResearchConfig

VARIABLES
  status,        \* the status column, "absent" before INSERT
  handle,        \* provider_job_id is set
  cost,          \* the cost column
  uploads        \* the metadata names provider files or a vector store

queueVars == <<status, handle, cost, uploads>>

Terminal == {"completed", "failed", "cancelled"}
Statuses == {"absent", "queued", "processing"} \cup Terminal

Amounts == {"actual", "ceiling", "over"}   \* over: above the reserved ceiling
NoCost  == "none"

QueueTypeOK ==
  /\ status \in [Jobs -> Statuses]
  /\ handle \in [Jobs -> BOOLEAN]
  /\ cost \in [Jobs -> Amounts \cup {NoCost}]
  /\ uploads \in [Jobs -> BOOLEAN]

QueueInit ==
  /\ status = [j \in Jobs |-> "absent"]
  /\ handle = [j \in Jobs |-> FALSE]
  /\ cost = [j \in Jobs |-> NoCost]
  /\ uploads = [j \in Jobs |-> FALSE]

(* A row that update_status and cancel_active_job may still change. *)
Open(j) == status[j] \in {"queued", "processing"}

(* enqueue: INSERT of a queued row with its metadata. *)
Enqueue(j) ==
  /\ status' = [status EXCEPT ![j] = "queued"]
  /\ uploads' = [uploads EXCEPT ![j] = j \in WithUploads]
  /\ UNCHANGED <<handle, cost>>

(* claim_submission: the compare-and-set that a dispatcher must win. *)
ClaimSubmission(j) ==
  /\ status[j] = "queued"
  /\ status' = [status EXCEPT ![j] = "processing"]
  /\ UNCHANGED <<handle, cost, uploads>>

(* Deliberately wrong: cancels a row that was claimed meanwhile. *)
CancelQueuedOrClaimed(j) ==
  /\ Open(j)
  /\ status' = [status EXCEPT ![j] = "cancelled"]
  /\ UNCHANGED <<handle, cost, uploads>>

(* cancel_queued_submission: the compare-and-set on the other side. *)
CancelQueuedSubmission(j) ==
  /\ status[j] = "queued"
  /\ status' = [status EXCEPT ![j] = "cancelled"]
  /\ UNCHANGED <<handle, cost, uploads>>

(* Deliberately wrong: writes a status that no reader knows. *)
CancelActiveJobSoon(j) ==
  /\ Open(j)
  /\ status' = [status EXCEPT ![j] = "cancelling"]
  /\ UNCHANGED <<handle, cost, uploads>>

(* cancel_active_job: any row that is not terminal yet. *)
CancelActiveJob(j) ==
  /\ Open(j)
  /\ status' = [status EXCEPT ![j] = "cancelled"]
  /\ UNCHANGED <<handle, cost, uploads>>

(* update_status without a provider id: terminal and missing rows are left *)
(* alone, which callers that ignore the result never notice.               *)
UpdateStatus(j, s) ==
  /\ status' = [status EXCEPT ![j] = IF Open(j) THEN s ELSE @]
  /\ UNCHANGED <<handle, cost, uploads>>

(* update_status(PROCESSING, provider_job_id): the provider handoff. *)
RecordHandle(j) ==
  /\ Open(j)
  /\ status' = [status EXCEPT ![j] = "processing"]
  /\ handle' = [handle EXCEPT ![j] = TRUE]
  /\ UNCHANGED <<cost, uploads>>

(* update_results: not guarded by status.  The ledger half of it finds the *)
(* completion event already recorded, because every caller settles first,  *)
(* and then writes nothing: the row had no cost, or has this very cost.    *)
UpdateResults(j, c) ==
  /\ cost' = [cost EXCEPT ![j] = c]
  /\ UNCHANGED <<status, handle, uploads>>

(* clear_cleanup_metadata, after the provider confirmed the deletions. *)
ClearCleanupMetadata(j) ==
  /\ uploads' = [uploads EXCEPT ![j] = FALSE]
  /\ UNCHANGED <<status, handle, cost>>
=============================================================================
