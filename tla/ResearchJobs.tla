---------------------------- MODULE ResearchJobs ----------------------------
(***************************************************************************)
(* The research-job pipeline: dispatchers, cancellers, finalizers and      *)
(* reconcilers, each in a process of its own, over one queue, one money    *)
(* state and one provider.  Every step is one call on one of the stores,   *)
(* so the model interleaves the processes exactly where the code may be    *)
(* preempted.                                                              *)
(***************************************************************************)
EXTENDS Dispatcher, Canceller, Finalizer, Reconciler

sharedVars == <<queueVars, moneyVars, worldVars>>
vars == <<sharedVars, dispatchVars, cpc, finalVars, reconcileVars>>

TypeOK ==
  /\ QueueTypeOK
  /\ MoneyTypeOK
  /\ WorldTypeOK
  /\ DispatchTypeOK
  /\ CancelTypeOK
  /\ FinalTypeOK
  /\ ReconcileTypeOK

Init ==
  /\ QueueInit
  /\ MoneyInit
  /\ WorldInit
  /\ DispatchInit
  /\ CancelInit
  /\ FinalInit
  /\ ReconcileInit

Dispatches(j) ==
  /\ DispatchStep(j) \/ DispatchCrash(j)
  /\ UNCHANGED <<cpc, finalVars, reconcileVars>>

Cancels(j) ==
  /\ CancelRequest(j) \/ CancelStep(j) \/ CancelCrash(j)
  /\ UNCHANGED <<dispatchVars, finalVars, reconcileVars>>

Finalizes(f, j) ==
  /\ FinalPick(f, j) \/ FinalStep(f, j)
  /\ UNCHANGED <<dispatchVars, cpc, reconcileVars>>

FinalizerDies(f) ==
  /\ FinalCrash(f)
  /\ UNCHANGED <<dispatchVars, cpc, reconcileVars>>

Reconciles(r) ==
  /\ ReconcileStep(r) \/ ReconcileCrash(r)
  /\ UNCHANGED <<dispatchVars, cpc, finalVars>>

Environment ==
  /\ (\E j \in Jobs : ProviderStep(j) \/ Tick(j)) \/ ReadExposure
  /\ UNCHANGED <<dispatchVars, cpc, finalVars, reconcileVars>>

Next ==
  \/ \E j \in Jobs : Dispatches(j) \/ Cancels(j)
  \/ \E f \in Finalizers, j \in Jobs : Finalizes(f, j)
  \/ \E f \in Finalizers : FinalizerDies(f)
  \/ \E r \in Reconcilers : Reconciles(r)
  \/ Environment

Spec == Init /\ [][Next]_vars

(* A process that has begun a protocol keeps being scheduled, the worker   *)
(* keeps polling, submissions keep coming (each repairs orphaned holds     *)
(* first), the provider ends what it runs, and time passes.  Nothing makes *)
(* a user submit or cancel, or a person refresh a job.                     *)
Fairness ==
  /\ \A j \in Jobs :
       /\ WF_vars(dpc[j] # "idle" /\ DispatchStep(j)
                  /\ UNCHANGED <<cpc, finalVars, reconcileVars>>)
       /\ WF_vars(CancelStep(j) /\ UNCHANGED <<dispatchVars, finalVars, reconcileVars>>)
       /\ WF_vars(ProviderStep(j) /\ UNCHANGED <<dispatchVars, cpc, finalVars, reconcileVars>>)
       /\ WF_vars(Tick(j) /\ UNCHANGED <<dispatchVars, cpc, finalVars, reconcileVars>>)
  /\ \A f \in Finalizers, j \in Jobs :
       WF_vars(FinalStep(f, j) /\ UNCHANGED <<dispatchVars, cpc, reconcileVars>>)
  /\ \A f \in Pollers, j \in Jobs :
       WF_vars(FinalPick(f, j) /\ UNCHANGED <<dispatchVars, cpc, reconcileVars>>)
  /\ \A r \in Reconcilers :
       WF_vars(ReconcileStep(r) /\ UNCHANGED <<dispatchVars, cpc, finalVars>>)
  /\ WF_vars(ReadExposure /\ UNCHANGED <<dispatchVars, cpc, finalVars, reconcileVars>>)

FairSpec == Spec /\ Fairness

-----------------------------------------------------------------------------
(* Safety *)

(* Work the provider has taken is covered: the hold was marked before the  *)
(* request and has not been given back since, so the pending cost is in    *)
(* every later exposure sum or already in the ledger.                      *)
ProviderWorkIsCovered ==
  \A j \in Jobs : ProviderHasWork(j) => marked[j] /\ hold[j] \in {"active", "settled"}

(* A marked hold is open or settled and carries the request digest, so no  *)
(* settlement of dispatched work can end in a mismatch: whatever races     *)
(* for the row, only unmarked holds are refunded.                          *)
MarkedHoldMatches == \A j \in Jobs : marked[j] => Matches(j)

(* A settled hold has its completion event in the ledger: closing a hold   *)
(* never makes a cost disappear from the sum of ledger and active holds.   *)
SettledIsBooked == \A j \in Jobs : hold[j] = "settled" => Recorded(j)

(* A cancellation that won the queued row stops the job for good: nobody   *)
(* dispatches it afterwards, and no provider job may belong to it.         *)
CancelledInQueueNeverRuns ==
  \A j \in Jobs : status[j] = "cancelled" /\ ~handle[j] =>
    ~marked[j] /\ provider[j] = "none"

(* A completed row is complete: the report is stored, the hold is settled, *)
(* the row shows the amount that is in the ledger, and no provider file of *)
(* the job is left, whoever else raced to finalise, expire or repair it.   *)
CompletedIsComplete ==
  \A j \in Jobs : status[j] = "completed" =>
    /\ artifact[j]
    /\ hold[j] = "settled"
    /\ cost[j] = entry[j].amount
    /\ ~uploads[j]

(* The record of the provider files, without which no retry can delete     *)
(* them, is dropped only when the job's cost is booked or the paid API has *)
(* been frozen because it could not be.                                    *)
CleanupFollowsMoney ==
  \A j \in WithUploads : status[j] # "absent" /\ ~uploads[j] => Recorded(j) \/ frozen

(* A row that was never claimed belongs to a job nobody has dispatched, so *)
(* a repair that wins it may give the hold back.                           *)
UnclaimedNeverDispatched ==
  \A j \in Jobs : status[j] \in {"absent", "queued"} => ~marked[j] /\ provider[j] = "none"

-----------------------------------------------------------------------------
(* The inductive invariant: what each process relies on between two of its *)
(* calls, while the others run.                                            *)

(* Where a dispatcher has not marked the hold yet, and where it has.       *)
BeforeMark == {"idle", "prepare", "enqueue", "restore", "check", "claim", "mark"}
AfterMark == {"post", "handoff", "settle_fail", "abandon", "settle_handoff"}

DispatchInv(j) ==
  /\ dpc[j] = "idle" <=> hold[j] = "none"
  /\ dpc[j] \in BeforeMark => ~marked[j]
  /\ dpc[j] = "mark" => status[j] \in {"processing", "failed"}
  /\ dpc[j] \in AfterMark => marked[j]
  /\ dpc[j] = "post" => provider[j] = "none"
  /\ handle[j] => marked[j] /\ dpc[j] = "done"

HoldInv(j) ==
  /\ hold[j] = "none" => entry[j] = NoEntry
  /\ hold[j] = "settled" => Recorded(j)
  /\ marked[j] => bound[j] /\ hold[j] \in {"active", "settled"}
  /\ provider[j] # "none" => marked[j]

RowInv(j) ==
  /\ status[j] \in {"absent", "queued"} => ~marked[j]
  /\ status[j] = "cancelled" /\ ~handle[j] => ~marked[j]

(* Cancellation past the provider, and finalisation at all, is only for    *)
(* rows that name a provider job.                                          *)
CancelInv(j) == cpc[j] \in {"provider", "active"} => handle[j]

FinalizeInv(j) == \A f \in Finalizers : fin[f][j].pc # "idle" => handle[j]

(* What concerns one job apart from its finalizers. *)
JobInv(j) == DispatchInv(j) /\ HoldInv(j) /\ RowInv(j) /\ CancelInv(j)

ProtocolInv == \A j \in Jobs : JobInv(j) /\ FinalizeInv(j)

(* What is true of a job at each call of a finalizer that is going to      *)
(* publish its completion, and after it did.                               *)
BookedAs(j, c) == hold[j] = "settled" /\ Recorded(j) /\ entry[j].amount = c

CompletingInv(f, j) ==
  fin[f][j].goal = "completed" =>
    /\ fin[f][j].pc \in {"save", "settle", "results", "reconcile", "cleanup", "publish"}
    /\ fin[f][j].pc # "save" => artifact[j]
    /\ fin[f][j].pc \in {"results", "reconcile", "cleanup", "publish"} => BookedAs(j, Usage(j))
    /\ fin[f][j].pc \in {"reconcile", "cleanup", "publish"} => cost[j] = Usage(j)
    /\ fin[f][j].pc = "publish" => ~uploads[j]

CompletedInv(j) ==
  status[j] = "completed" =>
    handle[j] /\ artifact[j] /\ BookedAs(j, Usage(j)) /\ cost[j] = Usage(j) /\ ~uploads[j]

CompletionInv ==
  \A j \in Jobs : CompletedInv(j) /\ \A f \in Finalizers : CompletingInv(f, j)

-----------------------------------------------------------------------------
(* Refinement *)

SpendStage(j) ==
  CASE Recorded(j) -> "booked"
    [] ~Recorded(j) /\ hold[j] = "refunded" -> "released"
    [] ~Recorded(j) /\ hold[j] # "refunded" /\ marked[j] -> "committed"
    [] hold[j] = "active" /\ ~Recorded(j) /\ ~marked[j] -> "held"
    [] OTHER -> "unheld"

Lifecycle == INSTANCE SpendLifecycle WITH
  Bookings <- Events,
  NoBooking <- NoEntry,
  spend <- [j \in Jobs |-> SpendStage(j)],
  booked <- entry,
  exposed <- [j \in Jobs |-> ProviderHasWork(j)]

(* The pipeline keeps the money promise: every step of every process is a  *)
(* step of SpendLifecycle or leaves the money of every job as it is.       *)
KeepsSpendPromise == Lifecycle!Spec

-----------------------------------------------------------------------------
(* Liveness *)

(* Once the hold is marked, the cost of the job reaches the ledger, though *)
(* the dispatcher, the canceller, the worker or a store may fail once.     *)
DispatchedSpendIsBooked == \A j \in Jobs : marked[j] ~> Recorded(j)

(* A hold whose job is in the queue does not stay open for ever.           *)
KnownHoldCloses ==
  \A j \in Jobs : hold[j] = "active" /\ status[j] # "absent" ~> hold[j] # "active"

(* A job handed to the worker ends.                                        *)
HandedOffEnds == \A j \in Jobs : handle[j] ~> status[j] \in Terminal

(* The grace interval over, a hold whose job never reached the queue is    *)
(* settled at its maximum: as the design document has it.                  *)
MissingRowIsSettled ==
  \A j \in Jobs :
    hold[j] = "active" /\ status[j] = "absent" /\ dpc[j] = "done" ~> hold[j] # "active"

(* The hold of a job with a terminal row is reconciled, sooner or later,   *)
(* by the repairs that precede every submission.                           *)
TerminalRowIsReconciled ==
  \A j \in Jobs : hold[j] = "active" /\ status[j] \in Terminal ~> hold[j] # "active"

-----------------------------------------------------------------------------
(* Claims of the design document that the runs named after them refute. *)

(* An integrity event stands for money the provider may have spent: a      *)
(* submission refunded before dispatch is never settled as spend.          *)
IntegrityMeansProviderWork == \A j \in Jobs : integrity[j] => marked[j]

(* When the worker and a command-line refresh both settle the completion   *)
(* that the provider reported, the second settlement is a repetition of    *)
(* the first and is accepted.                                              *)
DuplicateSettlementIsIdempotent ==
  \A f \in Finalizers, j \in Jobs :
    /\ At(f, j, "settle")
    /\ entry[j].writer \in {"poller.completion", "cli"}
    => Recordable(j, CompletionEvent(f, j))
=============================================================================
