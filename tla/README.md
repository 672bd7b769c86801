# Deepr in TLA+

TLA+ modules, TLC instances and TLAPS proofs for the parts of Deepr in which an
ordering mistake costs money, loses a report, a belief or an answer, or stops
work for good: the pipeline of a paid research job, the admission of spend, the
expert runtime (conversations, consults, councils, belief stores), and what
stands between remote callers and paid calls.

All paths below are relative to the repository; `deepr/` stands for
`src/deepr/`.

## 1. The system

Deepr runs research requests against model providers that charge money, and
keeps *experts*: stores of beliefs that are consulted, talked to and brought up
to date. The repository holds about 240,000 lines of Python; most of it is
prompt work, provider adapters, evaluation, a command line and a web front end.
What is modelled is the rest: stores that several processes write one after
another, and coroutines and threads that outlive the call they were started for.

### Components, their state and their operations

| Component | Code | State | Operations |
| --- | --- | --- | --- |
| Reservation store | `deepr/experts/research_reservation_store.py` | one SQLite row per hold: state, amount, `provider_work_may_have_run`, identity and request digest | `reserve`, `mark_provider_work_may_have_run`, `refund`, `settle`, `active_reservations`, `exposure_snapshot` |
| Cost gate | `deepr/experts/research_cost_gate.py` | none of its own | reserve, mark, refund, settle, integrity failure, unreserved spend |
| Cost ledger | `deepr/observability/cost_ledger.py` | append-only JSONL of cost events with idempotency keys | `record_event`, `with_locked_accounting_events` |
| Spend policy | `deepr/core/cost_caps.py`, `spend_wallet.py` | caps per window, wallet, freeze | `spend_policy_lock`, `_freeze_paid_api_unlocked`, edits |
| Job queue | `deepr/queue/local_queue.py` | one SQLite row per job: status, provider job id, cost, metadata | enqueue, `claim_submission`, `cancel_queued_submission`, `cancel_active_job`, `update_status`, `update_results`, `clear_cleanup_metadata` |
| Reserved dispatch | `deepr/services/research_submission.py` | the coroutine of a submission | reserve, enqueue, restore, claim, mark, POST, handoff, and every exit |
| Cancellation | `deepr/services/research_cancellation.py` | the coroutine of a request | queued, accepted and repeated cancellation |
| Worker | `deepr/worker/poller.py` | per process: expired jobs already tried | poll, complete, fail, expire |
| Status refresh | `deepr/services/provider_completion.py` | none | completes or fails one job for the command line |
| Hold repair | `deepr/services/research_cost_reconciliation.py` | a snapshot of active holds | one pass before every paid submission |
| Expert conversations | `deepr/experts/conversation/` | one SQLite database: conversation row, turns, attempts with leases, idempotency keys, contents, events | start, continue, resume, finalise, fail, recover leases, close, delete, expire, rebuild |
| Consult transaction | `deepr/experts/consult_transaction.py`, `consult_lifecycle.py` | a coroutine with a work task and a heartbeat loop; its events in a journal and its result in a trace file, both shared by all consults | start, heartbeat, generation, finalise, nine except clauses |
| Task dispatcher | `deepr/mcp/state/async_dispatcher.py` | statuses, completion events, a semaphore, a cancel event | `dispatch`, `dispatch_with_dependencies`, `cancel_all`, timeout |
| Belief store | `deepr/experts/beliefs.py`, `belief_event_wal.py`, `loop_lock.py`, `sync_graph_commit.py`, `investigation/learning_apply.py`, `chat_grounding.py` | `beliefs.json`, a whole-file snapshot; `events.jsonl`; the memory of each process; a lock per expert and verb | load and migrate, record a change, save, roll an apply back |
| A2A task server | `deepr/a2a/task_manager.py`, `server.py`, `consult_tasks.py` | a bounded ordered table of tasks, one asyncio task per consult | create, run, cancel, stop, evict |
| MCP scoped admission | `deepr/mcp/security/scoped_admission.py` | SQLite: settled spend per key, holds, rate window; an audit log | reserve, audit a refusal, settle |
| Parent budgets | `deepr/experts/parent_budget_transaction.py`, `parent_budget_store.py` | memory and a journal | open, admit, mark, settle, overrun, consume, cancel, close, replay |
| Direct command-line submission | `deepr/cli/commands/run.py`, `run_submission.py` | coroutine | second dispatch path with provider fallback |
| Web application | `deepr/web/app.py` | poller thread, cost routes | submission, status, budget edits |
| Batch executor | `deepr/services/batch_executor.py` | dependency order, per-job results | shared dispatch of several jobs |
| Metered calls, cost safety | `deepr/services/metered_call.py`, `deepr/experts/cost_safety.py` | session totals | reserve and settle around one call |
| MCP durable tasks | `deepr/mcp/state/task_durability.py` | task rows and checkpoints | only read in production |
| Provider router, breakers | `deepr/observability/provider_router.py`, `circuit_breaker.py` | rolling statistics | choose, record |
| Plan-quota backends | `deepr/backends/` | quota ledger | admit, record |
| The rest | `agents`, `api`, `evals`, `formatting`, `providers`, `routing`, `security`, `skills`, `storage`, `tools`, `utils`, `web/frontend`, `webhooks` | mostly none shared | I/O, pure computation, request formatting |

`PROJECT.json` lists every component with its status and the reason when it is
not modelled, and under `hazards` the places where this code is hard to test.

### How they interact

*Paid research.* A submission *reserves* the ceiling of a job in the reservation
store, *enqueues* the row, reads both again, *claims* the row by
compare-and-set, *marks* the hold (after which the hold is never refunded),
POSTs, and hands the provider's job id to the queue. From then on the worker, or
a person's status refresh, reads the provider's status and runs save report,
settle, write results, reconcile, clean up, publish status. A cancellation
contests the claim if the row is queued and otherwise asks the provider first.
Before each submission a repair closes orphaned holds. The processes share
nothing but the stores; the stores are written one after another and never
together.

*Experts.* A conversation turn is reserved with a lease, run by a coroutine of
the host and finalised under the condition that its attempt still owns the
turn; hosts recover lapsed leases when they start and whenever they read. A
consult guards set-up and council with an elapsed ceiling and a heartbeat loop,
and writes journal and trace in threads that a cancellation has to wait for. A
council dispatches its experts through the task dispatcher. Verbs that change
beliefs (sync, absorb, reflect, route-gaps, health-check, graph-commit-apply,
investigation-learning-apply) each load the store, work on memory, append an
event per change and write the snapshot; a chat turn opens it only to count
retrievals.

*Remote callers.* The A2A server runs each consult as a task of its own beside
the table that clients poll. MCP servers admit each call against its key's
budget, run it, and settle it together with an audit line. Nested paid calls of
one run are admitted by a parent budget, whose journal must account for them
after a crash.

### What is hard about it

* Any process may run between two calls of another, and decides on rows it read
  before (the repair's snapshot, the canceller's job, the worker's list, the
  belief store a verb has loaded).
* Ledger and reservation row are two stores; so are events and snapshot, trace
  and journal, memory and journal of a budget, audit line and key row. Each pair
  has an order, and a crash in between is repaired, or refused, by whoever reads
  next.
* A lost answer to a POST, a caller cancelled while a commit is under way, a
  store that times out: each must leave the cost covered.
* One mismatch freezes paid work for every job, and several settlers write
  different events under the same idempotency key.
* An attempt may report after its lease was taken over; a thread cannot be
  cancelled; a task that was marked cancelled may return.
* Tasks wait for one another and for slots; tables and budgets are bounded.

What makes each component correct, in the words of the properties below: work at
the provider is covered; a hold is given back only if nothing was sent; an
amount once booked is not rewritten; a cancelled queued job never runs; a
completed job is complete; spend that was started is booked in the end, holds
close, jobs end. An answer is the work of the last attempt, and usage is charged
for lost attempts too; contents go when retention ends. Nothing of a consult
outlives its answer, a payload is on disk, "try again" is said only before a
provider was called, and the consult ends. No task runs before its dependencies,
a dispatch reports what its bodies did and comes back. No load goes on without
an event that is durable. No cancelled task keeps its consult; ended tasks leave
in the order they ended. A key is not overspent, and no audited money is spent
twice; a parent budget's trail replays.

## 2. Modules

```
ResearchConfig        parameters and their assumptions
  JobQueue            the queue rows              (one operator per SQL statement)
  CostGate            holds, ledger events, freeze (one operator per call)
    ResearchWorld     + provider (external), artifacts, clock, faults
      Dispatcher      dispatch_reserved_research
      Canceller       cancel_reserved_research
      Finalizer       worker and status refresh
      Reconciler      hold repair
        ResearchJobs  the composition, its properties, fairness, refinement mapping
          MCResearchJobs          instances
          ResearchJobsProofs      type and protocol invariant, safety theorems
            ResearchOutcomeProofs refinement of SpendLifecycle, completion, clean-up
SpendLifecycle        the abstract money promise (refined by ResearchJobs)
SpendConfig           parameters and arithmetic of admission
  SpendAuthority      abstract: every decision is one step
  SpendAdmission      the locked calls; INSTANCE SpendAuthority (refined)
    MCSpendAdmission       instances
    SpendAdmissionProofs   invariants and refinement, for any callers and holds
ExpertConversations   rows, turns, attempts, hosts       + ExpertConversationsProofs
ConsultTransaction    one consult with its two tasks     + ConsultTransactionProofs
TaskDispatch          one dispatch
BeliefStore           events, snapshot, memories
  MCExperts           instances of these four, one at a time
    ExpertRuntimeProofs    dispatch and store, then all four side by side
A2ATasks              task table and consult runs
ScopedAdmission       remote calls of one key
ParentTransaction     abstract: a parent budget without a journal
  ParentBudget        memory, journal and replay; refines it
  MCRemote            instances of A2ATasks, ScopedAdmission, ParentBudget, one at a time
    RemoteCallersProofs    the three components, then all three side by side
FiniteSums            sums over finite sets, for the proofs about money
```

### Paid research

**JobQueue.** `status`, `handle` (the row has a provider job id), `cost`,
`uploads` (the metadata names provider files). Each operator is one committed
statement with its `WHERE` clause as guard: `ClaimSubmission` and
`CancelQueuedSubmission` are the two sides of the compare-and-set;
`UpdateStatus` leaves a terminal row alone, as the statement does.

**CostGate.** `hold`, `marked`, `bound` (the row carries the request digest),
`entry` (the event under `job:<id>:completion`, with the code path that wrote it
and its amount relative to the ceiling), `integrity`, `frozen`. `Settle`,
`SettleTorn`, `SettleConflict` and `SettleUnavailable` are the outcomes of
settling; `RecordIntegrityFailure` is the separate step after a mismatch;
`ReconciledHolds` is the row repair that reserve, mark and every exposure view
begin with.

**ResearchWorld.** The provider as the code meets it (accept, run, end in
success, emptiness or failure, cancel with or without confirmation), the report
store, a clock of two ticks (over fifteen minutes, over a day), and `faults`, the
budget of crashes, cancelled callers, raising stores and torn writes.

**Dispatcher.** `dpc[j]` is the call the submitting task makes next,
`interrupted[j]` says that its caller was cancelled. One action per call; each
`except` branch is a disjunct. `DispatchCrash` ends the task anywhere.

**Canceller, Finalizer, Reconciler.** The same style: `cpc[j]`; per process and
job `fin[f][j]` (next call, the status to publish, whether a failed clean-up may
be passed over) and `tried[f]`; `rpc`, `todo`, `snapMarked`, `current`,
`seenCost`, the locals of a repair pass that outlive a call.

**ResearchJobs.** Interleaves all of them; a step of one process leaves the
locals of the others alone.

**SpendLifecycle.** The promise: unheld, held, committed, booked or released;
a booking is made once and never changes; the provider may be given work only
when the hold is committed or already booked. `SpendStage` maps a job's hold,
mark and event to a stage.

**SpendAdmission.** Below the grain of `CostGate`: what a single call of the
reservation store does while others run. `limit`, `frozen`, `wallet` are the
budget and wallet files; `row`, `marked`, `tag` (the row's `spend_wallet_id`) the
two reservation databases; `ledger` the set of events, each stamped with the
periods it falls in; `period` the calendar. A process is `call[p]` (operation,
hold, amount, place), `read[p]` (its local variables: authority, clock, identity
index, ledger snapshot, sibling holds) and `held[p]` (its locks).

| Model | Code |
| --- | --- |
| `TakePolicy` | `spend_policy_lock()`, then `_read_spend_authority`, `now`, `_validated_identity_state`; for an overrun, `_freeze_paid_api_unlocked` |
| `TakeDb` | `BEGIN IMMEDIATE` on the database of the hold; a settlement stamps its event here |
| `TakeLedger` | `with_locked_accounting_events`, the snapshot of the ledger |
| `ReadSiblings` | `_sibling_active_reservations`, other databases without their locks |
| `CommitHold`, `CommitMark`, `Refuse` | `commit_hold`, `commit_mark`: repair, expiry, comparison with the limits, commit or rollback |
| `AppendNew`, `AppendAgain`, `AppendConflict`, `CloseRow` | `record()` inside `settle`, then the row |
| `Expose`, `ExposeForCredit`, `ExposeForUnfreeze` | `exposure_snapshot` alone and inside a budget command |
| `SaveCredit`, `SaveUnfreeze`, `SetLimit`, `Freeze`, `ClearWallet` | `deepr budget credits`, `unfreeze`, `set`, `freeze`, `credits clear` |
| `GiveUp`, `Crash` | a lock timeout; a process that dies, whose locks and transaction vanish |

The locks are taken in the order policy, database, ledger. A settlement takes no
policy lock unless it is an overrun, and its wait for the ledger has no timeout
(`cost_ledger.py:record_event` without a limit), so `GiveUp` excludes it.

**SpendAuthority.** The same decisions without locks and without local copies:
`Admit`, `Send`, `Book`, `Release`, `Fund`, `Unfreeze` are single steps judged
against the state of that moment. `DecidesAtomically` is
`SpendAuthority!Spec` under `used` = rows that exist, `open` = active rows
without an event, `sent` = `marked`.

### The expert runtime

**ExpertConversations.** One conversation. `conv`, `turns[t]`, `attempts[a]`,
`idem`, `history` (what the event log says last) and `content` are the database;
`lapsed` and `retentionOver` are the clock as the code reads it; `exec[a]` and
`called` are the coroutine of an attempt. A store call is one immediate
transaction and therefore one action with all its writes:

| Model | Code |
| --- | --- |
| `ReserveStart`, `ReserveContinue`, `ReserveResume` | `reservations.py`: guards, the new turn or attempt with its lease, key, row, event |
| `InvokeExecutor`, `CallModel`, `ReportResult`, `ReportFailure`, `HostDies` | `service.py:_dispatch` with its except branches, `local_executor.py:execute` |
| `FinalizeTurn` | `transitions.py:finalize_turn`: lost ownership, lapsed lease, result within or over the bounds |
| `RecoverExpiredLeases`, `ExpireDue` | `recover_expired_leases`, `expire_due`, at host start and on reads |
| `CloseConversation`, `DeleteContent`, `RebuildProjection` | the operations of the owner and of an operator |

`DerivedProjection` is `_derive_projection`; a rebuild may happen at any time.

**ConsultTransaction.** `consult` holds the locals of
`_execute_started_transaction`: its phase, the error it handles, whether
provider work may have started and whether a cancellation waits for it. `child`
is the guarded work and the heartbeat loop; each is running, has a thread at the
journal, or is over. `journal`, `traces`, `settled` are the files and the ledger.
Every outcome of an append (`ok`, `elapsed`, `transition`, `lock`, `torn`) is a
disjunct of `AppendEvent`, and every except clause is an action
(`SettleElapsed`, `HandleStorage`, `HandleTraceError`, `HandleFailure`).
`ThreadWrites` does not look at `stop`: a thread goes on when its task has been
cancelled.

**TaskDispatch.** Per task its status, the stage of its coroutine, what the
caller's own coroutine did, and the dependencies still to be checked;
`completion` is the set of completion events. `Begin`, `CheckDependency`,
`Acquire`, `EndBody` are `run_task`; `TimeOut`, `Abort`, `CancelAll`, `Finish`
are what happens around the gather.

**BeliefStore.** `log` is `events.jsonl` (which changes, the last timestamp,
whether a line is torn), `snap` is `beliefs.json` (which changes it shows, the
timestamp of its last change record, whether legacy contradictions are still
without edges), `mem[u]` the store object of a process.

| Model | Code |
| --- | --- |
| `Open`, `Migrated`, `EventLogConflictsWithSnapshot` | `_load`: the migration is saved before the change records are read; then `event_log_conflicts_with_snapshot`, which can compare times only |
| `RecordChange`, `RecordRaises`, `ChangeTime` | `add_belief` and its siblings through `_record_change`: memory, a timestamp past the last one, a durable append |
| `Save`, `SaveRaises`, `SaveWithoutEvent` | `_save`, a rename; `record_retrieval` and `add_edge` save without an event |
| `TakeSnapshot`, `HaltApply`, `RestoreSnapshot`, `RestoreLog` | `learning_apply.py`: two files are read, and on a blocked or raising apply put back one after the other |
| `AfterRaise` | a verb ends, an apply rolls back, a sync goes on with the same object (`sync_graph_commit.py:91`) |
| `VerbIsFree` | `expert_verb_lock`, one lock per expert and verb |

### Remote callers

**A2ATasks.** The task table as a sequence, each task's state, and the asyncio
task of its consult. The end of a run and the step of the handler that waits for
it are two actions; a cancel request or the stop of the server may come between.
The stop itself is two steps: `StopBegins` cancels the runs in `_active_runs` and
waits for them with the listener open, `StopClears` forgets all runs. A consult
may be created between the two and after them (`a2aLate` has those created
between); a cancel request stops only a run that `_active_runs` still has.

**ScopedAdmission.** `Reserve` and `SettleCommit` are transactions; the audit
line is written in the middle of a settlement (`SettleAppend`), while `writer`
holds the database. `SettleRaises` and `ServerDies` leave what is on disk.

**ParentTransaction, ParentBudget.** The methods of
`ParentBudgetTransaction` are operators of the abstract module, used by both.
`ParentBudget` changes the object, then appends the event; `Journal` is the
append that succeeds, raises before, inside or after the line, or does not
come back because the process dies at any of these places (`CutOff`). `replayed`
is what `replay_parent_budget` makes of the journal up to where it raises, event
by event with the guards the replay has and without those it has not; `broken`
is a replay that raises, and `torn` says that a line of the file is cut, by this
run or by another one that shares it (`OthersTear`). `TrailIsTransaction`
is the refinement, with `trail` mapped to `replayed`.

**MCExperts, MCRemote.** Their components share no state, so each behaviour of
a suite moves one of them and leaves the others in their initial state. The
state counts add up instead of multiplying, and one run checks the properties of
all.

### Abstractions

*Paid research.* An amount is `actual`, `ceiling` or `over`: the protocol
compares it only with the job's own ceiling and with the event already in the
ledger. A job identity is used once; the caller draws a fresh one. Metadata is
reduced to "names provider files". The handle restored from queue metadata
always carries the request digest, so `Matches` fails for a row that never got
one. The two steps of `RecordIntegrityFailure` (freeze, append) are one: nothing
reads between them but the ledger. A call on a provider adapter is one step.

In admission, costs are small integers, windows are an arbitrary set with one
ceiling each (`Narrow`), taken as explicitly configured: then the calendar
windows are read alike with and without a wallet. `Unattended` and `Unsent` fix
for each hold whether it ignores the wallet and whether its caller ever sends
anything; `Refund` gives an unsent hold back even when marked
(`provider_work_did_not_run`). Only the mark bound to a request is modelled,
which refuses a second time. A settlement is begun for marked holds only; its
mismatch branch is in `CostGate`. Spend without a reservation, the provider
evidence an unfreeze verifies, and the process-local `cost_safety` totals are
left out. An `active_cost` view is an `Expose`.

*Conversations.* Tokens, time and cost are one bounded quantity (`MaxWork`);
model calls are their own. The version an owner passes is the current one:
another version is refused without a change. A turn of the executor makes one
model call. Who owns a conversation, and the artifact's content, are left out.

*Consult.* The council is a caller of the provider and of the progress
callback; a cost is none, within or over the ceiling. Faults hit locks and
files; `MaxFaults` of them. A bad line that another consult leaves in the shared
journal is a fault like its own. Progress phases and remaining budgets in the events
are left out.

*Dispatch.* A body returns, raises, raises fatally or lets a cancellation
through. A dependency on an id that is not in the dispatch is never waited for,
as in the code, so plans range over the tasks themselves.

*Belief store.* A change is a number; what it does to claims, confidences and
edges is content. The change window of the last hundred records is taken as
unbounded (only its last record is looked at), and the mutation audit, written
after the event, as part of the append. The commit lock of a sync covers the
apply but not the load that preceded it, so it excludes nothing here and is left
out. `Apart` restricts the instance and the theorems to one recording verb of an
expert at a time, and to nobody beside an apply that restores files: nothing in
the code keeps them apart, and the property fails otherwise (see below). The
clock may go back, but not to before the last change of a store written before
there were events. Events appended behind a torn line are not counted: no load
gets past it. Nothing is promised once a sync has gone on after its append
raised (`unlogged`).

*Remote callers.* Request parsing, authentication, the agent card and tasks of
skills that external workers run are left out of `A2ATasks`; key issue,
rotation, allow lists and the seeding of the rate window out of
`ScopedAdmission`. The stop of an A2A server does not end its process, whose
event loop would cancel what is left. Of the other runs that share a parent
budget's file only the torn line is there. A record that lacks just its newline
still replays; the next append joins it and spoils both, which is the step
`OthersTear` at that moment.

## 3. Runs

The pipeline runs use `MCResearchJobs`, the admission runs `MCSpendAdmission`.
The last five look for a violation of a sentence of the repository's documents
and find it.

| Run | Instance | Shows |
| --- | --- | --- |
| `JobsSafety` | one web job with uploads, worker, refresh, repair, canceller, 1 fault, 2 ticks | types, protocol invariant, covered work, complete jobs, clean-up after money, refinement of `SpendLifecycle` |
| `JobsLiveness` | a job with uploads whose cost may be over the ceiling, worker, repair, canceller, 1 fault, 1 tick | dispatched spend is booked; holds with a row close |
| `JobsCompletion` | a late-bound job with uploads, worker, refresh, repair, 2 ticks, no fault | the mark binds what settlement checks; a handed-off job ends |
| `AdmissionCaps` | two callers, three unit holds (plain, council, legacy root), day cap 1 and month cap 2, a rollover of either, costs 1 and 2, 1 fault | types, fresh snapshots, no lock circle, every hold counted, refinement of `SpendAuthority` |
| `AdmissionWallet` | two callers, three unit holds (plain, unattended, legacy), limits 1 and 3, two credits, no fault | sent work stays with its wallet; credit, clear and unfreeze are atomic |
| `ExpertRuntime` | two turns, three attempts, two keys, two calls; one consult with a storage fault; three tasks under every dependency map, two slots; a belief store with four users, two changes, two faults | one active turn, answers of the last attempt, bounded usage, agreeing projections, versions, retention; no late writer, durable payloads, safe retries, ends; dependencies first, truthful results, return; no hidden event |
| `RemoteCallers` | three tasks (two consults, sizes 3 and 1), two places, three bytes, one ended task kept; three calls of a key with budget 3 and rate 2; a parent of ceiling 3, two children, one lost append | eviction order, no orphaned run, ended tasks; key budget; trail, also of a torn file, and refinement of `ParentTransaction` |
| `DuplicateSettlement` | worker and refresh, no fault | *violated*: "Duplicate settlement ... idempotent across processes" |
| `StaleSnapshot` | dispatcher and repair, 1 fault | *violated*: a refunded submission is recorded as spend and freezes paid work |
| `MissingRow` | dispatcher and repair, 1 fault, fair | *violated*: "A missing queue record is settled at the held maximum" |
| `TerminalRow` | late-bound hold, 1 fault, fair | *violated*: "A terminal queue record is reconciled before the next paid submission" |
| `ProjectionRebuild` | the conversation alone | *violated*: "a rebuildable conversation projection" |

**Bounds.** `Jobs`: the protocol couples jobs only through `frozen`, the row
repair and the order of a repair pass; one job with all its processes shows the
races of a job, and the coupling of several is in the proofs, which use none of
these bounds. `MaxFaults` 1 puts a process on each of its error paths. `MaxAge`
2: every age comparison of the code is with one of the two thresholds; the
thresholds of ten and fifteen minutes are one tick. Two admission callers hold
or wait for any two of the locks; three holds exhaust the caps, one of them lies
in each database; `MaxFundings` 2 is a wallet, cleared, and another one.
Symmetry of the callers is sound: no property names one of them.

`ExpertRuntime`: three attempts over two turns let an attempt be lost and
resumed while another turn follows, or two be lost in one turn; two keys suffice
for a continue and a resume, or two resumes; two calls put the charge of a lost
attempt at the bound. A consult's journal fails once; a second failure would meet
a run whose answer is decided. Three tasks make chains, forks, joins and circles,
and with two slots one has to wait. Two changes and two faults are an event
without a snapshot, and another death or raise on the way back; `MaxClock` lets
the clock go back past an event. `RemoteCallers`: the big consult fills the byte
limit, the others the number of places, and one kept task forces evictions; once
a cancel request has made room, the other consult fits while a stop still waits;
three calls fill budget and rate limit; estimates, costs and prices include one
that fits, one that does not and one above its estimate. `MaxLostAppends` 1 is
enough for memory and journal to differ.

**Deadlock** is checked in every pipeline and admission run: the clock ends, but
an exposure view is always possible, so TLC's test says only that no action is
undefined. `ExpertRuntime` and `RemoteCallers` turn it off: a consult, a dispatch
and a parent budget do come to an end. What must not stop is stated as liveness.

**Fairness.** *Pipeline*: a process that has begun goes on until it is done or
dies (`WF` on each step of dispatcher, canceller, finalizer and repair); the
worker's loop keeps picking (`poller.py:start` loops for ever); submissions keep
coming and each begins with a repair; the provider ends what it runs; time
passes. No fairness makes a person submit, cancel or refresh, and none makes a
fault happen. `DispatchCrash` and the other crashes end a process for good,
except that a worker and a repair are started again. *Conversations*: leases run
out with the clock, and hosts that start or read recover and expire; no attempt
has to report. *Consult*: the event loop and its threads run and the elapsed
ceiling is reached; nothing makes set-up or council end. *Dispatch*: the event
loop runs what is ready, bodies end, a timeout fires. *A2A*: consults end and
their handlers resume. In the two suites the fair actions of the components that
stand still are disabled in their initial states, so fairness asks nothing of
them.

**What the runs taught.** Pipeline: `HandedOffEnds` holds without faults only.
With one fault it fails: a command-line refresh that settles and dies leaves an
event with its own source, and the worker conflicts with it on every poll. An
overrun raises on every poll after it was booked. Both follow from the same fact
as `DuplicateSettlement`. The document says that cancellation closes "provider
work first, then cost state, then queue state"
(`docs/design/research-cost-reservations.md:108-109`), the code closes the queue
before the cost (`research_cancellation.py:192-199`); it says that a definitive
rejection refunds (`:104`), the shared dispatch settles the ceiling
(`research_submission.py:131-166`).

Conversations: closing, deleting or expiring a conversation clears the pending
request on the row and leaves the turn that asked, from which the projection is
derived (`ProjectionRebuild`). A conversation whose last call was consumed by an
interrupted turn can be neither resumed (no calls left), closed nor deleted (a
turn is current) until its retention ends.

Consult: "any possibly partial write" is said not to be retryable
(`docs/SUPPORTED_SURFACE.md:350-351`), but `_settle_elapsed_limit` answers
retryable before provider work even if its own event was torn; the money is safe
(`RetryIsSafe`), the trace id is not reusable. Cancellation cost is said to be
checkpointed before the terminal event (`:353-354`), but work that has just
returned when the consult is given up leaves its cost off the error
(`_run_with_heartbeats`, `CostIsOnTheError`); with synthesis unmetered at
present that cost is zero. If the heartbeat in flight wrote the elapsed limit,
the caller gets a transition error and not the typed elapsed answer. A cost stop
that is written at or after the elapsed ceiling keeps its own reason
(`consult_lifecycle.py:404-405`), which the reader refuses at that time
(`:499-503`): the journal, shared by all traces, can be read no more.

Dispatch: a plan in a circle without a timeout waits for ever; no caller and no
code checks for it. A2A: a consult that raises leaves its task WORKING. A consult
created while `stop` awaits the others (`server.py:138`, the listener is closed
last) is neither cancelled nor known afterwards; a cancel request then marks its
task CANCELLED and its run goes on. Without its exception for those runs,
`RunsBelongToWorkingTasks` fails in seven steps. Parent budgets: the store is there
"so a crash mid-run leaves an auditable trail" (`parent_budget_store.py:5`),
but a death inside the line leaves half of it, and from then on the replay of
every run of the file raises (`:85`); what the calls have cost is then on no
trail. So `CrashLeavesATrail` stops at `torn`. Scoped
admission: a settlement that fails, or a server that dies, leaves the hold of
its call for good, and a response above its estimate is charged in full, past
the budget.

Belief store: without `Apart`, `LogAndSnapshotAgree` fails within a few steps.
Two verbs of one expert hold different locks; both load, one records and saves,
and the whole-file save of the other drops that change, while the guard compares
last timestamps only (`docs/CHANGELOG.md:41-42` has stores refuse writes when
the log is ahead). A chat that loaded while a learning apply was at work writes
back what the apply rolls back. A sync swallows the exception of a raised append
and goes on with a memory that has the change (`sync_graph_commit.py:91`), so
that a later save shows a change without an event (`docs/EXPERTS.md:1035-1036`:
events record "every change"), and a chat that holds such a memory can hide a
durable event behind its later timestamp. The migration of a legacy store is
saved before its change records are read (`beliefs.py:1428-1431`): the records
are lost from the file (`docs/design/temporal-knowledge-graph.md:91-92`: a
migration "loses nothing"), and if there is an event log already, every load
after that refuses writes.

**Mutants.** Every property of a passing run names a definition and a wrong
variant of it, kept beside the definition and marked "Deliberately wrong", that
the run must refute.

## 4. Proofs

Each theorem below holds for all values of the constants that satisfy the named
assumption of its module: any jobs, processes, callers, tasks, users, bounds and
numbers of faults.

**ResearchJobsProofs** proves `Spec => []ProtocolInv` from the assumptions in
`ResearchConfig`. `ProviderWorkIsCovered` is not inductive: a POST keeps it only
because the dispatcher at `post` has marked the hold, which is true because the
mark succeeded and no other process can refund a marked hold or close it as
anything but settled. `ProtocolInv` says what every process relies on between
two calls:

* `DispatchInv`: where the dispatcher is, whether the hold is marked, whether a
  provider id can be in the row. `dpc = "mark" => status in {processing,
  failed}` is what excludes a cancelled row under a dispatcher that won its claim.
* `HoldInv`: no event without a hold, settled implies booked, marked implies
  bound and not refunded, provider work implies marked.
* `RowInv`: an unclaimed row, or a row cancelled without a provider id, is unmarked.
* `CancelInv`, `FinalizeInv`: past the provider, and in finalisation at all, the
  row names a provider job.

The step lemma has one case per action of each process, and most cases follow
from one lemma about the operator on the hold (`Settle`, `Refund`, ...) and one
about the row. `ProviderWorkIsCovered`, `MarkedHoldMatches`, `SettledIsBooked`,
`CancelledInQueueNeverRuns` and `UnclaimedNeverDispatched` follow from it.

**ResearchOutcomeProofs.** `SpendPromise` is the refinement `Spec =>
KeepsSpendPromise`: initial states map to initial states, and under the two
invariants each step changes the mapped stage of one job by a step of
`SpendLifecycle`, or of several jobs not at all (the row repair settles only
holds whose event is there, which are `booked` already). `CompletionInv` says
for each call of a finalizer what is already true of the job, and yields
`CompletedIsComplete`. `CleanupInv` says that whoever is past the settlement of
a job has accounted for its cost, by an event or by the freeze; a lemma shows
that no step of any process unsays that, and `CleanupFollowsMoney` follows.

**FiniteSums.** The caps, the bill of a conversation, the budget of a key and
the ceiling of a parent budget are sums over finite sets. `MapThenSumSet` folds
with a recursive function over the subsets of its argument, and the induction
theorems of the library cannot be instantiated here; the lemmas take a smallest
counterexample instead (a set of subsets that fail has a minimal one, as strict
inclusion is well-founded on finite sets), first for the existence of the table
the function stands for, then for what it contains. `TotalWith`, `TotalWithout`,
`TotalChanged`, `TotalGrows` and `TotalSplit` are what the money proofs cite.
The eviction order of A2A needs the same for sequences.

**SpendAdmissionProofs** proves `Spec => []AdmInv`. That a decision is made on
current values is not inductive: it needs to know which locks a call holds at
each place (`LocksInv`, from `CallsInv`: which operations come to which place),
that they exclude each other, that the policy, the marks and the admission of
holds change only under the policy lock (`PolicyIsLocked`), that the ledger grows
only under its own (`LedgerIsStill`), and what each call has read (`ReadsInv`). A
budget command saves after it has given the ledger lock back; there the ledger
is still because only marked open holds are settled and the command has found
none. `SnapshotIsCurrent`, `SentHoldsBelongToWallet` and `SomebodyCanGoOn` follow,
the last by freeing the locks from the ledger's backwards. `EveryHoldIsCounted`:
the set of holds a decision compares with the limits contains all that are open
at its commit.

`AdmissionIsAtomic` is the refinement `Spec => DecidesAtomically`. It needs one
more invariant, `PromisesInv`: an overrun has frozen paid work before it books,
the clock a call has read is not ahead of the calendar, an unfreeze saves with
nothing open and room in the month, the ledger is finite and only about marked
holds. A decision counts at least the holds that are open, by a clock that may be
behind; `StillFits` and `StillHasRoom` say that what fits in every window at an
earlier clock beside more holds fits at a later one beside fewer. So each
`CommitHold` is an `Admit`, each `CommitMark` a `Send`, each appended event a
`Book`, each save a `Fund` or `Unfreeze`, and everything else a stutter: there is
one lemma `...Simulated` per action.

**ExpertConversationsProofs.** `OneActiveTurn` needs to know which turn the row
points at (`RowInv`), that only that turn may be active and that turns in use are
the first `started` (`TurnInv`), and that the trace of a turn is its last
attempt, the only one that may run (`TraceInv`). The rebuilt row then has the
same current turn, so a rebuild keeps the invariant. `ArtifactOfLastAttempt`
follows. `UsageInv` adds the bill: the row's calls and work are the sums over its
turns (`BillInv`), what a coroutine may have called is known of each attempt
(`ExecInv`) and charged (`CallInv`), and a running turn has room (`BoundInv`).
It is inductive because a recovery charges a lost attempt in full, and gives
`UsageAlwaysBounded` and `ProjectionAlwaysAgrees`. `ChangesAreVersioned` is an
action property: every action that touches what an owner reads moves the
version, and the others (late reports, recoveries without a lapsed lease,
rebuilds) touch none of it.

**ConsultTransactionProofs.** `QuietInv` names the phases in which the
transaction is alone, because it has waited for both tasks and their threads;
`NoLateWriter` follows. `CostInv`: a cost in the journal is none or what was
settled, and finalising has the settled one; with it `PayloadIsDurable` is
inductive. `RetryInv`: a provider is called only after `started` is set, and a
retry is offered only of a run that never came so far; `RetryIsSafe` follows.

**ExpertRuntimeProofs, the dispatcher.** `WorkInv`: a completed status is a body
that returned. `OverInv`: a completion event stands for a final status.
`WaitInv`: what a waiting task has checked off has returned. `DependenciesFirst`
and `ReportedAsRun` follow, though `cancel_all` and the timeout mark tasks under
their bodies.

**ExpertRuntimeProofs, the belief store.** The types hold without further
assumption; the rest is proved under `Apart`. A snapshot or a memory is `Sound`
for a log if it is not newer than it, has no change without an event, and is
complete unless the log's last time tells that it is not. The one recorder the
load let through is up to date (`MemoryInv`), so the time of its next event is
past everything any file or memory has, and everybody else's incompleteness
shows. What a learning apply found is sound and, if the log has grown since,
older (`FoundInv`), so putting the snapshot back first leaves a pair that a load
refuses. The strengthening is checked by TLC as well.

**ExpertRuntimeProofs, the runtime.** `ExpertsInvariant` puts the invariants of
the four components side by side under the next-state relation of `MCExperts`;
`ExpertTypesAreKept` follows.

**RemoteCallersProofs.** *A2A*: `EndedInOrder` says that the ended tasks still
in the table are, in order, the last ones of the history of ends, `MaxTerminal`
of them or all; `TableForgetsTheFirst` follows. That the table drops just its
first ended task takes the lemmas on `Only` and on moving a task to the end.
`RunsBelongToWorkingTasks` is inductive beside `LateRuns`: while a stop waits, the
runs in `_active_runs` that nobody has cancelled were created since, so those it
forgets are the ones the property excepts.

*Scoped admission*: `CallAccount` says for each stage of a call whether it has a
hold and what the log has of it, and `SettledInv` that the settled amount of the
key is the past spend and the sum of the audited costs of calls without a hold.
A settlement that died between its audit line and its commit still has its hold,
which is at least that cost; `KeyBudgetAlwaysHolds` follows by splitting the sum.
It speaks of runs in which no response was above its estimate, as
`KeyBudgetHolds` does: the code charges such a response in full.

*Parent budgets*: `TrailInv`: until an append is lost or a line is cut the object
does what the replay of its event does, so every step is one of
`ParentTransaction` on the replayed journal, or a stutter if the process died
before or inside the line or the file is torn already
(`TrailImplementsTransaction`). After lost appends object and journal differ,
but agree on the maxima and on what was paid (`KnownAlike`, `PaidAlike`), and a
call is sent only after its mark is on disk: `SentIsOnTheTrail`. What is
committed is a sum over the children; both object and replay admit a child only
into what is left, and a child is never cancelled in the journal alone
(`CancelledAlike`). `BudgetIsAlwaysKept` joins the ceiling, the calls that are
out, and the trail of a crash. `RemoteTypesAreKept` puts the three components
side by side.

**Assumptions.** Those of the modules: finite sets of jobs, holds, callers'
prices and limits that are natural numbers, distinct model values (`"nobody"` is
not a call). That `Holds` is finite is what makes a sum over them meaningful; in
the code they are the rows of two databases. `Fund` gives the wallet any new
positive identity, where the instances need only the next one. `Only` in
`A2ATasks` is the filter the table is rebuilt with; it is written out because the
prover knows no fact about `SelectSeq`.

**Only model-checked.** The liveness properties, as fairness and ENABLED are out
of the prover's reach: `DispatchedSpendIsBooked`, `KnownHoldCloses`,
`HandedOffEnds`, `RetentionIsKept`, `ConsultEnds`, `DispatchReturns`,
`WorkingTaskEnds`. Every other property of a passing run is stated by a theorem.

## 5. Plan

Order of the work that is left, most important first:

1. `CostLedger`: several ledger files locked in one order, torn last lines, fsync,
   the idempotency index and its conflicts.
2. Direct submission (`cli/commands/run.py`, `run_submission.py`): the second
   dispatch path with its fallback between providers, composed with
   `ResearchWorld` in place of `Dispatcher`.
3. Metered calls and cost safety: session totals beside durable holds; composes
   with `SpendAdmission` as one more caller.
4. Batch executor, web poller, loop runs, plan-quota ledger.

Theorems to add: from `SpendAuthority` and the refinement, that a wallet is never
spent past its credit by attended work without overruns, and no window past its
ceiling; the part of `LogAndSnapshotAgree` that survives without `Apart`; from the
two invariants of the pipeline, that only a mismatch or an overrun freezes paid work.

### Not modelled

The map names about 7,200 of some 241,000 lines. The rest is mostly prompt
orchestration, evaluation and benchmarks, command-line and web presentation,
provider adapters, search, formatting and file layout: computation or I/O whose
correctness is not a matter of states and interleavings, and which a
specification could only transcribe. MCP durable tasks have no production
caller that writes them. The provider router and the circuit breakers belong to
one sequential flow per process. What a belief change contains (scores, merges,
contradiction search, graph content) is knowledge engineering above the
protocol that `BeliefStore` models.
