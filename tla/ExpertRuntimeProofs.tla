------------------------ MODULE ExpertRuntimeProofs ------------------------
(***************************************************************************)
(* The expert runtime with any conversation, consult, plan of tasks and    *)
(* users of a belief store: what the council's dispatcher and the belief   *)
(* store promise, and the types of all four components together.           *)
(***************************************************************************)
EXTENDS MCExperts, ConsultTransactionProofs, ExpertConversationsProofs, TLAPS

-----------------------------------------------------------------------------
(* The dispatcher. A dispatch of any tasks, with any dependencies and any  *)
(* number of slots: no body runs before what it depends on, and a result   *)
(* that comes back reports what ran.                                       *)

Terminal == {"completed", "failed", "cancelled"}

(* A body that ended ended its task; a completed status is a body that     *)
(* returned, in every phase of the call.                                   *)
WorkInv ==
  \A t \in Tasks : /\ taskWork[t] # "none" => taskStage[t] = "done"
                   /\ taskStatus[t] = "completed" <=> taskWork[t] = "returned"
                   /\ taskWork[t] = "fatal" => request.fatal

(* Unless everything is being cancelled, a task that is over has a final   *)
(* status, and a set completion event always stands for one.               *)
OverInv ==
  /\ \A t \in Tasks : stopping = "no" /\ taskStage[t] = "done" => taskStatus[t] \in Terminal
  /\ \A t \in completion : taskStage[t] = "done" /\ taskStatus[t] \in Terminal
  /\ stopping = "timeout" => request.timed
  /\ dispatchPhase = "returned" =>
       \A t \in Tasks : taskStatus[t] \in Terminal /\ taskWork[t] # "fatal"

(* What a task that waits has checked has returned.                        *)
WaitInv ==
  /\ dispatchPhase = "idle" =>
       /\ stopping = "no" /\ completion = {}
       /\ \A t \in Tasks : taskStage[t] = "new" /\ taskWork[t] = "none" /\ unchecked[t] = {}
  /\ \A t \in Tasks : taskStage[t] = "new" => unchecked[t] = request.deps[t]
  /\ \A t \in Tasks : taskStage[t] = "waiting" =>
       \A d \in request.deps[t] \ unchecked[t] : taskWork[d] = "returned"
  /\ \A t \in Tasks : taskStage[t] \in {"queued", "running"} \/ taskWork[t] # "none" =>
       \A d \in request.deps[t] : taskWork[d] = "returned"

DispatchInv == DispatchTypeOK /\ WorkInv /\ OverInv /\ WaitInv

-----------------------------------------------------------------------------
(* Requests are what the callers may ask for.                              *)
LEMMA RequestsAreTyped ==
  ASSUME DispatchAssumption, NEW r \in Requests
  PROVE  /\ r.deps \in [Tasks -> SUBSET Tasks]
         /\ r.fatal => ~r.timed
         /\ r.fatal \in BOOLEAN /\ r.timed \in BOOLEAN
BY DEF Requests, DispatchAssumption, NoDeps

(* Before the dispatch no task has a status.                               *)
LEMMA InitIsDispatchInv == ASSUME DispatchAssumption, DispatchInit PROVE DispatchInv
<1>1. request \in Requests /\ request.deps = NoDeps
  BY DEF DispatchInit, Requests
<1>2. DispatchTypeOK
  BY <1>1 DEF DispatchInit, DispatchTypeOK, Statuses, Stages
<1>3. WorkInv
  BY DEF DispatchInit, WorkInv
<1>4. OverInv
  BY DEF DispatchInit, OverInv
<1>5. WaitInv
  BY <1>1 DEF DispatchInit, WaitInv, NoDeps
<1> QED BY <1>2, <1>3, <1>4, <1>5 DEF DispatchInv

(* A dispatch sets every task to wait for its own dependencies.            *)
LEMMA DispatchKeepsInv ==
  ASSUME DispatchAssumption, DispatchInv, NEW r \in Requests, Dispatch(r) PROVE DispatchInv'
<1> USE DEF DispatchInv, Dispatch
<1>1. \A t \in Tasks : r.deps[t] \subseteq Tasks
  BY RequestsAreTyped
<1>2. DispatchTypeOK'
  BY RequestsAreTyped DEF DispatchTypeOK, Statuses
<1>3. WorkInv'
  BY DEF WorkInv, WaitInv, DispatchTypeOK
<1>4. stopping = "no" /\ completion = {}
  BY DEF WaitInv
<1>5. OverInv'
  BY <1>4 DEF OverInv, WaitInv, DispatchTypeOK
<1>6. WaitInv'
  BY <1>1 DEF WaitInv, DispatchTypeOK
<1> QED BY <1>2, <1>3, <1>5, <1>6

(* A task whose coroutine ends before its body, with a status that is not  *)
(* that of a success.                                                      *)
LEMMA OverKeepsInv ==
  ASSUME DispatchAssumption, DispatchInv, NEW t \in Tasks,
         taskStage[t] \in {"new", "waiting", "queued"},
         NEW status \in {"failed", "cancelled"}, TaskOver(t, status),
         unchecked' \in [Tasks -> SUBSET Tasks],
         \A u \in Tasks : u # t => unchecked'[u] = unchecked[u],
         Going,
         UNCHANGED <<request, taskWork, cancelEvent, stopping, dispatchPhase>>
  PROVE  DispatchInv'
<1> USE DEF DispatchInv, TaskOver, Terminal
<1>1. DispatchTypeOK'
  BY DEF DispatchTypeOK, Statuses, Stages
<1>2. WorkInv'
  BY DEF WorkInv, DispatchTypeOK
<1>3. OverInv'
  BY DEF OverInv, DispatchTypeOK, Going
<1>4. WaitInv'
  BY DEF WaitInv, WorkInv, DispatchTypeOK, Going
<1> QED BY <1>1, <1>2, <1>3, <1>4

(* A task that moves on, once what it waits for has returned.              *)
LEMMA MoveKeepsInv ==
  ASSUME DispatchAssumption, DispatchInv, NEW t \in Tasks, NEW stage \in {"waiting", "queued"},
         taskStage[t] \in {"new", "waiting"},
         taskStage' = [taskStage EXCEPT ![t] = stage],
         unchecked' \in [Tasks -> SUBSET Tasks],
         \A u \in Tasks : u # t => unchecked'[u] = unchecked[u],
         \A d \in request.deps[t] \ unchecked'[t] : taskWork[d] = "returned",
         stage = "queued" => unchecked'[t] = {} ,
         Going,
         UNCHANGED <<request, taskStatus, taskWork, completion, cancelEvent, stopping, dispatchPhase>>
  PROVE  DispatchInv'
<1> USE DEF DispatchInv
<1>1. DispatchTypeOK'
  BY DEF DispatchTypeOK, Stages
<1>2. WorkInv'
  BY DEF WorkInv, DispatchTypeOK
<1>3. OverInv'
  BY DEF OverInv, DispatchTypeOK
<1>4. WaitInv'
  BY DEF WaitInv, WorkInv, DispatchTypeOK, Going
<1> QED BY <1>1, <1>2, <1>3, <1>4

(* A task that begins has still to check all it depends on.                *)
LEMMA BeginKeepsInv ==
  ASSUME DispatchAssumption, DispatchInv, NEW t \in Tasks, Begin(t) PROVE DispatchInv'
<1>1. unchecked[t] = request.deps[t] /\ unchecked \in [Tasks -> SUBSET Tasks]
  BY DEF Begin, DispatchInv, WaitInv, DispatchTypeOK
<1>2. CASE TaskOver(t, "cancelled")
  BY <1>1, <1>2, OverKeepsInv DEF Begin
<1>3. CASE MovesTo(t, IF request.deps[t] = {} THEN "queued" ELSE "waiting")
  <2> DEFINE stage == IF request.deps[t] = {} THEN "queued" ELSE "waiting"
  <2>1. stage \in {"waiting", "queued"} /\ (stage = "queued" => unchecked[t] = {})
    BY <1>1
  <2>2. taskStage' = [taskStage EXCEPT ![t] = stage] /\ UNCHANGED <<taskStatus, completion>>
    BY <1>3 DEF MovesTo
  <2> HIDE DEF stage
  <2> QED BY <1>1, <2>1, <2>2, MoveKeepsInv DEF Begin
<1> QED BY <1>2, <1>3 DEF Begin

(* A dependency that ended is checked off if it completed; if not, the     *)
(* task ends with its status.                                              *)
LEMMA CheckKeepsInv ==
  ASSUME DispatchAssumption, DispatchInv, NEW t \in Tasks, NEW d \in Tasks, CheckDependency(t, d)
  PROVE  DispatchInv'
<1>1. /\ unchecked' \in [Tasks -> SUBSET Tasks]
      /\ \A u \in Tasks : u # t => unchecked'[u] = unchecked[u]
      /\ unchecked'[t] = unchecked[t] \ {d}
  BY DEF CheckDependency, DispatchInv, DispatchTypeOK
<1>2. CASE taskStatus[d] \in {"failed", "cancelled"}
  BY <1>1, <1>2, OverKeepsInv DEF CheckDependency
<1>3. CASE taskStatus[d] \notin {"failed", "cancelled"}
  <2>1. taskWork[d] = "returned"
    BY <1>3 DEF CheckDependency, DispatchInv, OverInv, WorkInv, Terminal
  <2>2. \A e \in request.deps[t] \ unchecked'[t] : taskWork[e] = "returned"
    BY <1>1, <2>1 DEF CheckDependency, DispatchInv, WaitInv
  <2>3. CASE unchecked'[t] = {}
    BY <1>1, <1>3, <2>2, <2>3, MoveKeepsInv DEF CheckDependency, MovesTo
  <2>4. CASE unchecked'[t] # {}
    <3>1. taskStage' = [taskStage EXCEPT ![t] = "waiting"]
      BY <1>3, <2>4 DEF CheckDependency, DispatchInv, DispatchTypeOK
    <3> QED BY <1>1, <1>3, <2>2, <2>4, <3>1, MoveKeepsInv DEF CheckDependency
  <2> QED BY <2>3, <2>4
<1> QED BY <1>2, <1>3

(* A body starts in a slot, after all its task depends on.                 *)
LEMMA AcquireKeepsInv ==
  ASSUME DispatchAssumption, DispatchInv, NEW t \in Tasks, Acquire(t) PROVE DispatchInv'
<1>1. CASE TaskOver(t, "cancelled")
  <2>1. unchecked' \in [Tasks -> SUBSET Tasks]
    BY DEF Acquire, DispatchInv, DispatchTypeOK
  <2> QED BY <1>1, <2>1, OverKeepsInv DEF Acquire
<1>2. CASE /\ taskStage' = [taskStage EXCEPT ![t] = "running"]
           /\ taskStatus' = [taskStatus EXCEPT ![t] = "running"]
           /\ UNCHANGED completion
  <2> USE <1>2 DEF Acquire, DispatchInv
  <2>1. taskWork[t] = "none"
    BY DEF WorkInv, DispatchTypeOK
  <2>2. DispatchTypeOK'
    BY DEF DispatchTypeOK, Statuses, Stages
  <2>3. WorkInv'
    BY <2>1 DEF WorkInv, DispatchTypeOK
  <2>4. t \notin completion
    BY DEF OverInv
  <2>5. OverInv'
    BY <2>4 DEF OverInv, DispatchTypeOK, Going
  <2>6. WaitInv'
    BY DEF WaitInv, WorkInv, DispatchTypeOK, Going
  <2> QED BY <2>2, <2>3, <2>5, <2>6
<1> QED BY <1>1, <1>2 DEF Acquire

(* A body that ends sets the status of its task, whatever cancel_all has   *)
(* made of it meanwhile.                                                   *)
LEMMA EndKeepsInv ==
  ASSUME DispatchAssumption, DispatchInv, NEW t \in Tasks, NEW outcome \in Outcomes,
         EndBody(t, outcome)
  PROVE  DispatchInv'
<1> USE DEF DispatchInv, EndBody, TaskOver
<1>1. StatusOf(outcome) \in Terminal
      /\ (StatusOf(outcome) = "completed" <=> outcome = "returned")
  BY DEF StatusOf, Outcomes, Terminal
<1>2. taskWork[t] = "none"
  BY DEF WorkInv, DispatchTypeOK
<1> HIDE DEF DispatchInv
<1>3. DispatchTypeOK'
  BY <1>1 DEF DispatchInv, DispatchTypeOK, Terminal, Statuses, Stages
<1>4. WorkInv'
  BY <1>1 DEF DispatchInv, WorkInv, DispatchTypeOK
<1>5. OverInv'
  BY <1>1 DEF DispatchInv, OverInv, DispatchTypeOK, Going
<1>6. WaitInv'
  BY <1>2 DEF DispatchInv, WaitInv, WorkInv, DispatchTypeOK, Going
<1> QED BY <1>3, <1>4, <1>5, <1>6 DEF DispatchInv

(* A task cancelled before its body ends with a final status.              *)
LEMMA CancelKeepsInv ==
  ASSUME DispatchAssumption, DispatchInv, NEW t \in Tasks, CancelBeforeBody(t) PROVE DispatchInv'
<1>1. CASE taskStage[t] \in {"waiting", "queued"} /\ TaskOver(t, "cancelled")
  <2>1. unchecked' \in [Tasks -> SUBSET Tasks]
    BY DEF CancelBeforeBody, DispatchInv, DispatchTypeOK
  <2> QED BY <1>1, <2>1, OverKeepsInv DEF CancelBeforeBody
<1>2. CASE /\ taskStage[t] = "new" /\ taskStage' = [taskStage EXCEPT ![t] = "done"]
           /\ UNCHANGED <<taskStatus, completion>>
  <2> USE <1>2 DEF CancelBeforeBody, DispatchInv
  <2>1. DispatchTypeOK'
    BY DEF DispatchTypeOK, Stages
  <2>2. WorkInv'
    BY DEF WorkInv, DispatchTypeOK
  <2>3. OverInv'
    BY DEF OverInv, DispatchTypeOK, Going
  <2>4. WaitInv'
    BY DEF WaitInv, WorkInv, DispatchTypeOK, Going
  <2> QED BY <2>1, <2>2, <2>3, <2>4
<1> QED BY <1>1, <1>2 DEF CancelBeforeBody

(* A timeout or an abort only decides that the dispatch stops.             *)
LEMMA StopKeepsInv ==
  ASSUME DispatchAssumption, DispatchInv, TimeOut \/ Abort PROVE DispatchInv'
<1> USE DEF DispatchInv, TimeOut, Abort
<1>1. DispatchTypeOK'
  BY DEF DispatchTypeOK
<1>2. WorkInv'
  BY DEF WorkInv
<1>3. OverInv'
  BY DEF OverInv, Going
<1>4. WaitInv'
  BY DEF WaitInv, Going
<1> QED BY <1>1, <1>2, <1>3, <1>4

(* cancel_all and the end of a timeout mark whatever has no final status.  *)
LEMMA MarkKeepsStatus ==
  ASSUME DispatchTypeOK,
         taskStatus' = [t \in Tasks |-> IF taskStatus[t] \in {"pending", "blocked", "running"}
                                          THEN "cancelled" ELSE taskStatus[t]]
  PROVE  /\ taskStatus' \in [Tasks -> Terminal]
         /\ \A t \in Tasks : taskStatus'[t] = "completed" <=> taskStatus[t] = "completed"
BY DEF DispatchTypeOK, Statuses, Terminal

(* cancel_all marks as cancelled what has no final status, under its body. *)
LEMMA CancelAllKeepsInv ==
  ASSUME DispatchAssumption, DispatchInv, CancelAll PROVE DispatchInv'
<1> USE DEF DispatchInv, CancelAll
<1>1. /\ taskStatus' \in [Tasks -> Terminal]
      /\ \A t \in Tasks : taskStatus'[t] = "completed" <=> taskStatus[t] = "completed"
  BY MarkKeepsStatus
<1>2. DispatchTypeOK'
  BY <1>1 DEF DispatchTypeOK, Statuses, Terminal
<1>3. WorkInv'
  BY <1>1 DEF WorkInv
<1>4. OverInv'
  BY <1>1 DEF OverInv, Going, DispatchTypeOK
<1>5. WaitInv'
  BY DEF WaitInv
<1> QED BY <1>2, <1>3, <1>4, <1>5

(* What a dispatch returns is what the statuses say at its end.            *)
LEMMA FinishKeepsInv ==
  ASSUME DispatchAssumption, DispatchInv, Finish PROVE DispatchInv'
<1> USE DEF DispatchInv
<1>1. CASE stopping = "timeout"
  <2>1. /\ taskStatus' \in [Tasks -> Terminal]
        /\ \A t \in Tasks : taskStatus'[t] = "completed" <=> taskStatus[t] = "completed"
    BY <1>1, MarkKeepsStatus DEF Finish
  <2>2. \A t \in Tasks : taskWork[t] # "fatal"
    BY <1>1, RequestsAreTyped DEF OverInv, WorkInv, DispatchTypeOK
  <2>3. DispatchTypeOK'
    BY <1>1, <2>1 DEF Finish, DispatchTypeOK, Statuses, Terminal
  <2>4. WorkInv'
    BY <2>1 DEF Finish, WorkInv
  <2>5. OverInv'
    BY <2>1, <2>2 DEF Finish, OverInv, DispatchTypeOK
  <2>6. WaitInv'
    BY DEF Finish, WaitInv, Going
  <2> QED BY <2>3, <2>4, <2>5, <2>6
<1>2. CASE stopping # "timeout"
  <2>1. UNCHANGED <<request, taskStatus, taskStage, taskWork, unchecked, completion, stopping, cancelEvent>>
    BY <1>2 DEF Finish
  <2>2. \A t \in Tasks : taskStage[t] = "done"
    BY DEF Finish, Unfinished
  <2>3. DispatchTypeOK'
    BY <2>1 DEF Finish, DispatchTypeOK
  <2>4. WorkInv'
    BY <2>1 DEF WorkInv
  <2>5. OverInv'
    BY <1>2, <2>1, <2>2 DEF Finish, OverInv, DispatchTypeOK
  <2>6. WaitInv'
    BY <2>1 DEF Finish, WaitInv, Going
  <2> QED BY <2>3, <2>4, <2>5, <2>6
<1> QED BY <1>1, <1>2

(* The invariant is about the variables of the dispatch only.              *)
LEMMA StutterKeepsInv == DispatchInv /\ UNCHANGED dispatchVars => DispatchInv'
BY DEF DispatchInv, DispatchTypeOK, WorkInv, OverInv, WaitInv, dispatchVars

(* Every step of a dispatch keeps its invariant.                           *)
LEMMA DispatchStep ==
  ASSUME DispatchAssumption, DispatchInv, [DispatchNext]_dispatchVars PROVE DispatchInv'
<1>1. ASSUME DispatchNext PROVE DispatchInv'
  BY <1>1, DispatchKeepsInv, BeginKeepsInv, CheckKeepsInv, AcquireKeepsInv, EndKeepsInv,
     CancelKeepsInv, StopKeepsInv, CancelAllKeepsInv, FinishKeepsInv DEF DispatchNext
<1> QED BY <1>1, StutterKeepsInv

(* The inductive invariant: what statuses, completion events and checked   *)
(* dependencies say of the bodies while cancel_all and the timeout mark    *)
(* tasks under them.                                                       *)
THEOREM DispatchInvariant == ASSUME DispatchAssumption PROVE DispatchSpec => []DispatchInv
<1>1. DispatchInit => DispatchInv
  BY InitIsDispatchInv
<1>2. DispatchInv /\ [DispatchNext]_dispatchVars => DispatchInv'
  BY DispatchStep
<1> QED BY <1>1, <1>2, PTL DEF DispatchSpec

-----------------------------------------------------------------------------
(* The types of TaskDispatch, for any tasks, plans and slots.              *)
THEOREM DispatchTypeCorrect == ASSUME DispatchAssumption PROVE DispatchSpec => []DispatchTypeOK
<1>1. DispatchInv => DispatchTypeOK
  BY DEF DispatchInv
<1> QED BY <1>1, DispatchInvariant, PTL

(* No failed, cancelled or timed-out dependency is ever taken for a result *)
(* by run_task, whatever plan the caller passes.                           *)
THEOREM DependenciesAlwaysFirst ==
  ASSUME DispatchAssumption PROVE DispatchSpec => []DependenciesFirst
<1>1. DispatchInv => DependenciesFirst
  BY DEF DispatchInv, WaitInv, DependenciesFirst
<1> QED BY <1>1, DispatchInvariant, PTL

(* The result of a dispatch reports what its bodies did, although          *)
(* cancel_all and the timeout mark tasks under them.                       *)
THEOREM AlwaysReportedAsRun ==
  ASSUME DispatchAssumption PROVE DispatchSpec => []ReportedAsRun
<1>1. DispatchInv => ReportedAsRun
  BY DEF DispatchInv, WorkInv, OverInv, ReportedAsRun, Terminal
<1> QED BY <1>1, DispatchInvariant, PTL

-----------------------------------------------------------------------------
(* The belief store. It keeps its events, for any number of processes,     *)
(* changes, faults and clocks that go back, as long as no two verbs that   *)
(* record have the store at once.                                          *)

USE StoreAssumption DEF OldTime, Legacy

ClockIs(t) == t \in OldTime + 1 .. MaxClock

(* The last time a store with this log has seen.                           *)
Newest(l) == IF l.last > OldTime THEN l.last ELSE OldTime

(* What a snapshot or a memory may be, given the log: not ahead of it,     *)
(* without a change of its own, and complete unless the log's last time    *)
(* tells that it is not.                                                   *)
Sound(l, m) ==
  /\ m.latest <= Newest(l)
  /\ m.has \subseteq l.events \cup {Legacy}
  /\ l.last <= m.latest => l.events \subseteq m.has

InUse(u) == mem[u].at \in {"opened", "ready", "saving"}

(* Nobody has the store beside a verb that restores files, and no two      *)
(* verbs that record have it at once.                                      *)
KeptApart ==
  \A u, v \in Users :
    u # v /\ IsOpen(u) /\ IsOpen(v) => ~(Records(u) /\ Records(v)) /\ ~Restores(u) /\ ~Restores(v)

PlaceInv ==
  \A u \in Users :
    /\ mem[u].at \in {"opened", "restoreSnap", "restoreLog"} => Restores(u)
    /\ mem[u].at = "saving" => Records(u) /\ ~mem[u].refused

MemoryInv ==
  \A u \in Users :
    InUse(u) =>
      /\ ~mem[u].refused => Sound(log, mem[u])
      /\ Records(u) /\ ~mem[u].refused => log.last <= mem[u].latest

(* What a learning-apply found it may put back: the log has grown since,   *)
(* and then its last time tells, or it is still the same.                  *)
FoundInv ==
  \A u \in Users :
    mem[u].at \in {"ready", "saving", "restoreSnap", "restoreLog"} /\ Restores(u) =>
      LET f == mem[u].found IN
        /\ Sound(f.log, f.snap)
        /\ f.log.events \subseteq log.events
        /\ \/ f.log.last = log.last /\ f.log.events = log.events
           \/ Newest(f.log) < log.last
        /\ mem[u].at = "restoreLog" => snap = f.snap

(* Only changes that were made have events.                                *)
FreshInv ==
  /\ log.events \subseteq 0 .. made
  /\ \A u \in Users : mem[u].found.log.events \subseteq 0 .. made

StoreInv ==
  /\ StoreTypeOK
  /\ KeptApart
  /\ PlaceInv
  /\ FreshInv
  /\ unlogged = {} => Sound(log, snap) /\ MemoryInv /\ FoundInv

(* A fresh store is sound, and so is a legacy one before its migration.    *)
LEMMA StoreInitInv == StoreInit => StoreInv
<1> SUFFICES ASSUME StoreInit PROVE StoreInv
  OBVIOUS
<1>1. StoreTypeOK
  <2>1. NoLog \in Logs /\ NoSnap \in Snaps /\ OldSnap \in Snaps
    BY DEF NoLog, NoSnap, OldSnap, Logs, Snaps, Changes, Times
  <2>2. NoStore \in Memories
    BY <2>1 DEF NoStore, Memories, Places, Times
  <2> QED
    BY <2>1, <2>2 DEF StoreInit, StoreTypeOK
<1>2. KeptApart /\ PlaceInv /\ FreshInv /\ MemoryInv /\ FoundInv
  BY DEF StoreInit, NoStore, KeptApart, PlaceInv, FreshInv, MemoryInv, FoundInv, InUse, IsOpen, NoLog
<1>3. Sound(log, snap)
  BY DEF StoreInit, Sound, Newest, NoLog, NoSnap, OldSnap
<1> QED
  BY <1>1, <1>2, <1>3 DEF StoreInv

(* What the types of the stores say, field by field.                        *)
LEMMA Fields ==
  ASSUME StoreTypeOK
  PROVE  /\ log.events \subseteq Changes /\ log.last \in Nat
         /\ log.torn \in BOOLEAN
         /\ snap.has \subseteq Changes /\ snap.latest \in Nat
         /\ snap.bare \in BOOLEAN
         /\ \A u \in Users :
              /\ mem[u].has \subseteq Changes
              /\ mem[u].latest \in Nat
              /\ mem[u].refused \in BOOLEAN
              /\ mem[u].found.log \in Logs /\ mem[u].found.snap \in Snaps
              /\ mem[u].found.log.last \in Nat /\ mem[u].found.snap.latest \in Nat
BY DEF StoreTypeOK, Memories, Logs, Snaps, Times

(* A load, and what it migrates, has its type.                             *)
LEMMA OpenTypes == ASSUME StoreTypeOK, NEW u \in Users, Open(u) PROVE StoreTypeOK'
<1>1. snap' \in Snaps
  <2>1. Migrated = snap \/ Migrated = [snap EXCEPT !.bare = FALSE, !.latest = 0]
    BY DEF Migrated
  <2>2. 0 \in Times
    BY DEF Times
  <2> QED BY <2>1, <2>2 DEF StoreTypeOK, Open, Snaps
<1>2. mem' \in [Users -> Memories]
  <2>1. snap.has \subseteq Changes /\ snap.latest \in Times
    BY DEF StoreTypeOK, Snaps
  <2>2. EventLogConflictsWithSnapshot \in BOOLEAN
    BY DEF StoreTypeOK, Logs, EventLogConflictsWithSnapshot
  <2>3. \A at \in Places : [mem[u] EXCEPT !.at = at, !.has = snap.has, !.latest = snap.latest,
                                          !.refused = EventLogConflictsWithSnapshot] \in Memories
    BY <2>1, <2>2 DEF StoreTypeOK, Memories
  <2> QED BY <2>3 DEF StoreTypeOK, Open, Places
<1> QED BY <1>1, <1>2 DEF StoreTypeOK, Open

(* A process that comes to have the store is apart from those that have it. *)
LEMMA OpenStep ==
  ASSUME StoreInv, Apart, NEW u \in Users, Open(u)
  PROVE  StoreInv'
<1> USE DEF StoreInv
<1>1. StoreTypeOK'
  BY OpenTypes
<1>2. KeptApart'
  BY DEF KeptApart, Open, VerbIsFree, Mixes, IsOpen, Restores, Records, StoreTypeOK
<1>3. PlaceInv' /\ FreshInv'
  BY DEF PlaceInv, FreshInv, Open, StoreTypeOK, Memories
<1>4. ASSUME unlogged' = {} PROVE Sound(log, snap)' /\ MemoryInv' /\ FoundInv'
  <2>1. Sound(log, snap) /\ MemoryInv /\ FoundInv
    BY <1>4 DEF Open
  <2>2. Sound(log, snap)'
    BY <2>1 DEF Sound, Newest, Open, Migrated, StoreTypeOK, Snaps, Logs, Times
  <2>3. MemoryInv'
    <3>1. \A v \in Users \ {u} : mem'[v] = mem[v]
      BY DEF Open, StoreTypeOK
    <3>2. mem'[u].latest = snap.latest /\ mem'[u].has = snap.has /\ mem'[u].refused = EventLogConflictsWithSnapshot
      BY DEF Open, StoreTypeOK
    <3>3. ~EventLogConflictsWithSnapshot => log.last <= snap.latest
      BY Fields DEF EventLogConflictsWithSnapshot
    <3>4. Sound(log, mem'[u])
      BY <2>1, <3>2 DEF Sound
    <3> QED
      BY <2>1, <3>1, <3>2, <3>3, <3>4 DEF MemoryInv, InUse, Open, Sound, Newest
  <2>4. FoundInv'
    <3> SUFFICES ASSUME NEW v \in Users,
                        mem'[v].at \in {"ready", "saving", "restoreSnap", "restoreLog"}, Restores(v)
                 PROVE  FALSE \/ (v # u /\ mem'[v] = mem[v] /\ (mem[v].at = "restoreLog" => snap' = snap))
      BY <2>1 DEF FoundInv, Open
    <3>1. v # u /\ mem'[v] = mem[v]
      BY DEF Open, StoreTypeOK
    <3>2. IsOpen(v)
      BY <3>1 DEF IsOpen
    <3>3. VerbOf[u] = VerbOf[v] => ~Open(u)
      BY <3>2 DEF Open, VerbIsFree, Restores, Records
    <3>4. FALSE
      BY <3>2, <3>3 DEF Open, Mixes
    <3> QED
      BY <3>4
  <2> QED
    BY <2>2, <2>3, <2>4
<1> QED
  BY <1>1, <1>2, <1>3, <1>4

(* A process that lets go of the store takes nothing with it but memory.   *)
LEMMA LeaveStep ==
  ASSUME StoreInv, NEW u \in Users, mem' = [mem EXCEPT ![u] = NoStore],
         UNCHANGED <<log, snap, clock, made, unlogged>>, storeFaults' \in 0 .. MaxStoreFaults
  PROVE  StoreInv'
<1> USE DEF StoreInv
<1>1. StoreTypeOK'
  <2>1. NoStore \in Memories
    BY DEF NoStore, Memories, Places, Times, NoLog, NoSnap, Logs, Snaps, Changes
  <2> QED
    BY <2>1 DEF StoreTypeOK
<1>2. mem'[u].at = "away" /\ \A v \in Users \ {u} : mem'[v] = mem[v]
  BY DEF StoreTypeOK, NoStore
<1>3. KeptApart' /\ PlaceInv' /\ FreshInv'
  BY <1>2 DEF KeptApart, PlaceInv, FreshInv, IsOpen, NoStore, NoLog, StoreTypeOK
<1>4. MemoryInv /\ Sound(log, snap) => MemoryInv' /\ Sound(log, snap)'
  BY <1>2 DEF MemoryInv, InUse, Sound, Newest
<1>5. FoundInv => FoundInv'
  BY <1>2 DEF FoundInv, Sound, Newest
<1> QED
  BY <1>1, <1>3, <1>4, <1>5

(* Nor does one that only goes to its next call.                           *)
LEMMA MoveStep ==
  ASSUME StoreInv, NEW u \in Users, NEW q \in {"ready", "restoreSnap"}, mem' = [mem EXCEPT ![u].at = q],
         mem[u].at \in {"ready", "saving"}, q = "restoreSnap" => Restores(u),
         UNCHANGED <<log, snap, clock, made, unlogged>>, storeFaults' \in 0 .. MaxStoreFaults
  PROVE  StoreInv'
<1> USE DEF StoreInv
<1>1. StoreTypeOK'
  BY DEF StoreTypeOK, Memories, Places
<1>2. /\ mem'[u] = [mem[u] EXCEPT !.at = q]
      /\ \A v \in Users \ {u} : mem'[v] = mem[v]
  BY DEF StoreTypeOK
<1>3. /\ mem'[u].at = q /\ mem'[u].has = mem[u].has /\ mem'[u].latest = mem[u].latest
      /\ mem'[u].refused = mem[u].refused /\ mem'[u].found = mem[u].found
  BY <1>2 DEF StoreTypeOK, Memories
<1>4. KeptApart' /\ PlaceInv' /\ FreshInv'
  BY <1>2, <1>3 DEF KeptApart, PlaceInv, FreshInv, IsOpen
<1>5. MemoryInv /\ Sound(log, snap) => MemoryInv' /\ Sound(log, snap)'
  BY <1>2, <1>3 DEF MemoryInv, InUse, Sound, Newest
<1>6. FoundInv => FoundInv'
  BY <1>2, <1>3 DEF FoundInv, Sound, Newest
<1> QED
  BY <1>1, <1>4, <1>5, <1>6

(* What a learning-apply finds is sound, as long as its load accepted it or *)
(* not.                                                                    *)
LEMMA TakeSnapshotStep ==
  ASSUME StoreInv, NEW u \in Users, TakeSnapshot(u)
  PROVE  StoreInv'
<1> USE DEF StoreInv
<1> DEFINE files == [log |-> log, snap |-> snap]
<1>1. StoreTypeOK'
  <2>1. files \in [log : Logs, snap : Snaps]
    BY DEF StoreTypeOK
  <2>2. [mem[u] EXCEPT !.at = "ready", !.found = files] \in Memories
    BY <2>1 DEF StoreTypeOK, Memories, Places
  <2> QED
    BY <2>2 DEF TakeSnapshot, StoreTypeOK
<1>2. \A v \in Users \ {u} : mem'[v] = mem[v]
  BY DEF TakeSnapshot, StoreTypeOK
<1>3. /\ mem'[u].at = "ready" /\ mem'[u].has = mem[u].has /\ mem'[u].latest = mem[u].latest
      /\ mem'[u].refused = mem[u].refused
      /\ mem'[u].found.log = log /\ mem'[u].found.snap = snap
  BY DEF TakeSnapshot, StoreTypeOK, Memories
<1>4. KeptApart' /\ PlaceInv' /\ FreshInv'
  BY <1>2, <1>3 DEF KeptApart, PlaceInv, FreshInv, IsOpen, TakeSnapshot
<1>5. MemoryInv /\ Sound(log, snap) => MemoryInv' /\ Sound(log, snap)'
  BY <1>2, <1>3 DEF MemoryInv, InUse, Sound, Newest, TakeSnapshot
<1>6. FoundInv /\ Sound(log, snap) => FoundInv'
  BY <1>2, <1>3 DEF FoundInv, Sound, Newest, TakeSnapshot
<1> QED
  BY <1>1, <1>4, <1>5, <1>6 DEF TakeSnapshot

(* A memory that was accepted is written: as sound as a snapshot as it was. *)
LEMMA WriteStep ==
  ASSUME StoreInv, NEW u \in Users, mem[u].at \in {"ready", "saving"}, ~mem[u].refused,
         snap' = Memory(u), mem' = [mem EXCEPT ![u].at = "ready"],
         UNCHANGED <<log, clock, made, storeFaults, unlogged>>
  PROVE  StoreInv'
<1> USE DEF StoreInv
<1>1. StoreTypeOK'
  BY DEF StoreTypeOK, Memories, Places, Memory, Snaps
<1>2. \A v \in Users \ {u} : mem'[v] = mem[v]
  BY DEF StoreTypeOK
<1>3. /\ mem'[u].at = "ready" /\ mem'[u].has = mem[u].has /\ mem'[u].latest = mem[u].latest
      /\ mem'[u].refused = mem[u].refused /\ mem'[u].found = mem[u].found
  BY DEF StoreTypeOK, Memories
<1>4. KeptApart' /\ PlaceInv' /\ FreshInv'
  BY <1>2, <1>3 DEF KeptApart, PlaceInv, FreshInv, IsOpen
<1>5. MemoryInv => MemoryInv' /\ Sound(log, snap)'
  BY <1>2, <1>3 DEF MemoryInv, InUse, Sound, Newest, Memory
<1>6. FoundInv => FoundInv'
  <2> SUFFICES ASSUME FoundInv, NEW v \in Users, Restores(v),
                      mem'[v].at \in {"ready", "saving", "restoreSnap", "restoreLog"}
               PROVE  mem'[v].found = mem[v].found /\ mem'[v].at # "restoreLog"
                        /\ mem[v].at \in {"ready", "saving", "restoreSnap", "restoreLog"}
    BY DEF FoundInv, Sound, Newest
  <2>1. v = u
    BY <1>2 DEF KeptApart, IsOpen
  <2> QED
    BY <2>1, <1>3
<1> QED
  BY <1>1, <1>4, <1>5, <1>6

(* The time of a change is past everything the log and the memory have.    *)
LEMMA ChangeTimes ==
  ASSUME StoreTypeOK, NEW u \in Users
  PROVE  ChangeTime(u) \in Nat /\ ChangeTime(u) > mem[u].latest /\ ChangeTime(u) > OldTime
BY Fields DEF ChangeTime, StoreTypeOK

(* An event that reaches the log tells every older snapshot and memory     *)
(* apart, by its time; the memory it comes from has it and all before it.  *)
LEMMA AppendTells ==
  ASSUME StoreTypeOK, NEW u \in Users, MayChange(u), unlogged = {}, MemoryInv,
         log' = Appended(u), NEW m, Sound(log, m), m.latest \in Nat
  PROVE  Sound(log, m)'
BY Fields, ChangeTimes DEF MayChange, MemoryInv, InUse, Sound, Newest, Appended

(* The log and the memory that a change leaves behind have their types.    *)
LEMMA ChangeTypes ==
  ASSUME StoreTypeOK, NEW u \in Users, MayChange(u), NEW q \in Places
  PROVE  /\ made + 1 \in 0 .. MaxChanges
         /\ Appended(u) \in Logs
         /\ Changed(u, q) \in [Users -> Memories]
<1>1. made + 1 \in 0 .. MaxChanges
  BY DEF StoreTypeOK, MayChange
<1>2. Appended(u) \in Logs
  BY <1>1, ChangeTimes DEF StoreTypeOK, Appended, Logs, Times, Changes
<1>3. Changed(u, q) \in [Users -> Memories]
  BY <1>1, ChangeTimes DEF StoreTypeOK, Changed, Memories, Times, Changes
<1> QED
  BY <1>1, <1>2, <1>3

(* The memory after a change, field by field.                              *)
LEMMA ChangedFields ==
  ASSUME StoreTypeOK, NEW u \in Users, NEW q \in Places, mem' = Changed(u, q)
  PROVE  /\ \A v \in Users \ {u} : mem'[v] = mem[v]
         /\ mem'[u].at = q /\ mem'[u].has = mem[u].has \cup {made + 1}
         /\ mem'[u].latest = ChangeTime(u)
         /\ mem'[u].refused = mem[u].refused /\ mem'[u].found = mem[u].found
BY DEF StoreTypeOK, Changed, Memories

(* When an event is appended, the others' memories and the snapshot are    *)
(* older, and what a learning-apply has found is older too.                *)
LEMMA AppendKeeps ==
  ASSUME StoreInv, NEW u \in Users, MayChange(u), unlogged = {}, log' = Appended(u),
         NEW q \in {"saving", "ready", "restoreSnap", "away"}, q = "restoreSnap" => Restores(u),
         q \in {"saving", "ready"} => ~log.torn,
         snap' = snap,
         \A v \in Users \ {u} : mem'[v] = mem[v],
         mem'[u].at = q,
         q # "away" =>
           /\ mem'[u].has = mem[u].has \cup {made + 1} /\ mem'[u].latest = ChangeTime(u)
           /\ mem'[u].refused = mem[u].refused /\ mem'[u].found = mem[u].found
  PROVE  Sound(log, snap)' /\ MemoryInv' /\ FoundInv'
<1> USE DEF StoreInv
<1>1. Sound(log, snap)'
  BY AppendTells, Fields
<1>2. log.last <= mem[u].latest /\ log.events \subseteq mem[u].has /\ mem[u].has \subseteq log.events \cup {Legacy}
  BY DEF MemoryInv, InUse, MayChange, Sound
<1>3. /\ log'.last = ChangeTime(u) /\ log.events \subseteq log'.events
      /\ ~log.torn => log'.events = log.events \cup {made + 1}
  BY DEF Appended
<1>4. MemoryInv'
  <2>1. ASSUME NEW v \in Users \ {u}, InUse(v)'
        PROVE  /\ ~mem'[v].refused => Sound(log', mem'[v])
               /\ ~Records(v)
    <3>1. InUse(v) /\ mem'[v] = mem[v]
      BY <2>1 DEF InUse
    <3>2. ~mem[v].refused => Sound(log, mem[v])
      BY <3>1 DEF MemoryInv
    <3>3. ~mem[v].refused => Sound(log', mem[v])
      BY <3>2, AppendTells, Fields DEF Sound, Newest
    <3>4. ~Records(v)
      BY <3>1 DEF KeptApart, IsOpen, InUse, MayChange
    <3> QED
      BY <3>1, <3>3, <3>4
  <2>2. ASSUME q \in {"saving", "ready"}
        PROVE  Sound(log', mem'[u]) /\ log'.last <= mem'[u].latest
    BY <2>2, <1>2, <1>3, ChangeTimes DEF Sound, Newest
  <2> QED
    BY <2>1, <2>2 DEF MemoryInv, InUse, Sound, Newest
<1>5. FoundInv'
  <2>1. ASSUME NEW v \in Users, Restores(v), mem'[v].at \in {"ready", "saving", "restoreSnap", "restoreLog"}
        PROVE  v = u /\ q # "away"
    BY <2>1 DEF KeptApart, IsOpen, MayChange
  <2>2. ASSUME Restores(u), q # "away"
        PROVE  LET f == mem[u].found IN
                 /\ Sound(f.log, f.snap) /\ f.log.events \subseteq log.events
                 /\ f.log.last \in Nat
                 /\ \/ f.log.last = log.last
                    \/ Newest(f.log) < log.last
    BY <2>2, Fields DEF FoundInv, MayChange
  <2>3. ASSUME Restores(u), q # "away"
        PROVE  Newest(mem[u].found.log) < log'.last /\ mem[u].found.log.events \subseteq log'.events
    BY <2>2, <2>3, <1>2, <1>3, ChangeTimes, Fields DEF Newest
  <2> QED
    BY <2>1, <2>2, <2>3 DEF FoundInv, Sound, Newest
<1> QED
  BY <1>1, <1>4, <1>5

(* A recorded change is the newest of its log and of its memory.           *)
LEMMA RecordChangeStep ==
  ASSUME StoreInv, NEW u \in Users, RecordChange(u)
  PROVE  StoreInv'
<1> USE DEF StoreInv
<1>1. MayChange(u) /\ mem' = Changed(u, "saving") /\ log' = Appended(u)
  BY DEF RecordChange
<1>2. StoreTypeOK'
  BY <1>1, ChangeTypes DEF StoreTypeOK, RecordChange, Places, Changes
<1>3. KeptApart' /\ PlaceInv'
  BY <1>1, ChangedFields DEF KeptApart, PlaceInv, IsOpen, MayChange, Places
<1>5. FreshInv'
  BY <1>1, ChangedFields DEF FreshInv, RecordChange, Appended, Places, StoreTypeOK
<1>4. unlogged' = {} => Sound(log, snap)' /\ MemoryInv' /\ FoundInv'
  <2> SUFFICES ASSUME unlogged' = {} PROVE Sound(log, snap)' /\ MemoryInv' /\ FoundInv'
    OBVIOUS
  <2>1. unlogged = {} /\ ~log.torn
    BY DEF RecordChange
  <2>2. "saving" \in Places
    BY DEF Places
  <2> QED
    BY <1>1, <2>1, <2>2, ChangedFields, AppendKeeps DEF RecordChange
<1> QED
  BY <1>2, <1>3, <1>4, <1>5

(* An append that raises ends the process, or has it restore what it found, *)
(* or it is a sync that goes on: with the event on disk as if nothing had   *)
(* been, or without it, and then nothing is promised any more.              *)
LEMMA RecordRaisesStep ==
  ASSUME StoreInv, NEW u \in Users, RecordRaises(u)
  PROVE  StoreInv'
<1> USE DEF StoreInv
<1> DEFINE q == AfterRaise(u)
<1>1. /\ q \in {"ready", "restoreSnap", "away"} /\ q \in Places
      /\ q = "ready" => GoesOn(u)
      /\ q = "restoreSnap" => Restores(u)
      /\ MayChange(u) /\ storeFaults' \in 0 .. MaxStoreFaults
  BY DEF AfterRaise, RecordRaises, Places, Fault, StoreTypeOK
<1>2. /\ \A v \in Users \ {u} : mem'[v] = mem[v]
      /\ mem'[u].at = q
      /\ q # "away" =>
           /\ mem'[u].has = mem[u].has \cup {made + 1} /\ mem'[u].latest = ChangeTime(u)
           /\ mem'[u].refused = mem[u].refused /\ mem'[u].found = mem[u].found
  <2>1. CASE q = "away"
    BY <2>1 DEF RecordRaises, NoStore, StoreTypeOK
  <2>2. CASE q # "away"
    BY <2>2, <1>1, ChangedFields DEF RecordRaises
  <2> QED
    BY <2>1, <2>2
<1>3. StoreTypeOK'
  <2>1. mem' \in [Users -> Memories]
    <3>1. NoStore \in Memories
      BY DEF NoStore, Memories, Places, Times, NoLog, NoSnap, Logs, Snaps, Changes
    <3> QED
      BY <3>1, <1>1, ChangeTypes DEF RecordRaises, StoreTypeOK
  <2>2. log' \in Logs
    BY <1>1, ChangeTypes DEF RecordRaises, StoreTypeOK, Logs, Places
  <2> QED
    BY <2>1, <2>2, <1>1, ChangeTypes DEF RecordRaises, StoreTypeOK, Places, Changes
<1>4. KeptApart' /\ PlaceInv'
  BY <1>1, <1>2 DEF KeptApart, PlaceInv, IsOpen, MayChange
<1>6. FreshInv'
  <2>1. log'.events \subseteq 0 .. made + 1 /\ made \in Nat /\ made' = made + 1
    BY DEF FreshInv, RecordRaises, Appended, StoreTypeOK, Logs
  <2>2. mem'[u].found.log.events \subseteq 0 .. made + 1
    <3>1. CASE q = "away"
      BY <3>1, <2>1 DEF RecordRaises, NoStore, NoLog, StoreTypeOK
    <3> QED
      BY <3>1, <2>1, <1>2 DEF FreshInv
  <2> QED
    BY <2>1, <2>2, <1>2 DEF FreshInv
<1>5. ASSUME unlogged' = {} PROVE Sound(log, snap)' /\ MemoryInv' /\ FoundInv'
  <2>1. unlogged = {} /\ (q = "ready" => log' = Appended(u) /\ ~log.torn)
    <3>1. q = "ready" => made + 1 \in log'.events
      BY <1>1, <1>5 DEF RecordRaises, AfterRaise
    <3>2. made + 1 \notin log.events
      BY DEF FreshInv, StoreTypeOK
    <3>3. log'.events = log.events \/ (log' = Appended(u) /\ ~log.torn)
      <4>1. [log EXCEPT !.torn = TRUE].events = log.events
        BY DEF StoreTypeOK, Logs
      <4>2. log.torn => Appended(u).events = log.events
        BY DEF StoreTypeOK, Logs, Appended
      <4> QED
        BY <4>1, <4>2 DEF RecordRaises
    <3>4. unlogged = {}
      BY <1>5 DEF RecordRaises
    <3> QED
      BY <3>1, <3>2, <3>3, <3>4
  <2>2. CASE log' = Appended(u)
    BY <2>1, <2>2, <1>1, <1>2, AppendKeeps DEF RecordRaises
  <2>3. CASE log'.last = log.last /\ log'.events = log.events /\ q # "ready"
    <3>1. Sound(log, snap)' /\ \A v \in Users \ {u} : Sound(log, mem[v]) => Sound(log', mem'[v])
      BY <2>1, <2>3, <1>2 DEF Sound, Newest, RecordRaises
    <3>2. MemoryInv'
      BY <2>1, <2>3, <3>1, <1>1, <1>2 DEF MemoryInv, InUse
    <3>3. FoundInv'
      BY <2>1, <2>3, <1>1, <1>2 DEF FoundInv, RecordRaises, MayChange, Sound, Newest
    <3> QED
      BY <3>1, <3>2, <3>3
  <2>4. \/ log' = Appended(u)
        \/ log'.last = log.last /\ log'.events = log.events
    BY DEF RecordRaises, StoreTypeOK, Logs
  <2> QED
    BY <2>1, <2>2, <2>3, <2>4
<1> QED
  BY <1>3, <1>4, <1>5, <1>6

(* Restoring the snapshot first leaves one that is complete or that the    *)
(* log's last time tells apart; nobody else has the store meanwhile.       *)
LEMMA RestoreSnapshotStep ==
  ASSUME StoreInv, NEW u \in Users, RestoreSnapshot(u)
  PROVE  StoreInv'
<1> USE DEF StoreInv
<1>1. StoreTypeOK'
  BY DEF RestoreSnapshot, StoreTypeOK, Memories, Places
<1>2. /\ \A v \in Users \ {u} : mem'[v] = mem[v]
      /\ mem'[u].at = "restoreLog" /\ mem'[u].found = mem[u].found
  BY DEF RestoreSnapshot, StoreTypeOK, Memories
<1>3. Restores(u) /\ \A v \in Users \ {u} : mem[v].at = "away"
  BY DEF RestoreSnapshot, PlaceInv, KeptApart, IsOpen
<1>4. KeptApart' /\ PlaceInv' /\ FreshInv'
  BY <1>2, <1>3 DEF KeptApart, PlaceInv, FreshInv, IsOpen, RestoreSnapshot
<1>5. ASSUME unlogged' = {} PROVE Sound(log, snap)' /\ MemoryInv' /\ FoundInv'
  <2> DEFINE f == mem[u].found
  <2>1. /\ Sound(f.log, f.snap) /\ f.log.events \subseteq log.events
        /\ \/ f.log.last = log.last /\ f.log.events = log.events
           \/ Newest(f.log) < log.last
    BY <1>3, <1>5 DEF RestoreSnapshot, FoundInv
  <2>2. Sound(log, snap)'
    BY <2>1, Fields DEF RestoreSnapshot, Sound, Newest
  <2>3. MemoryInv'
    BY <1>2, <1>3 DEF MemoryInv, InUse
  <2>4. FoundInv'
    BY <2>1, <1>2, <1>3 DEF FoundInv, RestoreSnapshot, Sound, Newest
  <2> QED
    BY <2>2, <2>3, <2>4
<1> QED
  BY <1>1, <1>4, <1>5 DEF RestoreSnapshot

(* Taking the events back brings the log to what the apply had found.      *)
LEMMA RestoreLogStep ==
  ASSUME StoreInv, NEW u \in Users, RestoreLog(u)
  PROVE  StoreInv'
<1> USE DEF StoreInv
<1>1. StoreTypeOK'
  <2>1. NoStore \in Memories
    BY DEF NoStore, Memories, Places, Times, NoLog, NoSnap, Logs, Snaps, Changes
  <2> QED
    BY <2>1, Fields DEF RestoreLog, StoreTypeOK
<1>2. /\ \A v \in Users \ {u} : mem'[v] = mem[v]
      /\ mem'[u] = NoStore
  BY DEF RestoreLog, StoreTypeOK
<1>3. Restores(u) /\ \A v \in Users \ {u} : mem[v].at = "away"
  BY DEF RestoreLog, PlaceInv, KeptApart, IsOpen
<1>4. \A v \in Users : mem'[v].at = "away"
  BY <1>2, <1>3 DEF NoStore
<1>5. KeptApart' /\ PlaceInv' /\ MemoryInv' /\ FoundInv'
  BY <1>4 DEF KeptApart, PlaceInv, MemoryInv, FoundInv, IsOpen, InUse
<1>6. FreshInv'
  BY <1>2 DEF FreshInv, RestoreLog, NoStore, NoLog
<1>7. ASSUME unlogged' = {} PROVE Sound(log, snap)'
  BY <1>3, <1>7 DEF RestoreLog, FoundInv, Sound, Newest
<1> QED
  BY <1>1, <1>5, <1>6, <1>7

(* Every step of verbs that run apart keeps files and memories sound.      *)
LEMMA StoreStep ==
  ASSUME StoreInv, Apart, [StoreNext]_storeVars
  PROVE  StoreInv'
<1>1. CASE UNCHANGED storeVars
  BY <1>1 DEF storeVars, StoreInv, StoreTypeOK, KeptApart, PlaceInv, FreshInv, MemoryInv, FoundInv, Sound, Newest,
              InUse, IsOpen
<1>2. CASE SetClock
  BY <1>2 DEF SetClock, StoreInv, StoreTypeOK, KeptApart, PlaceInv, FreshInv, MemoryInv, FoundInv, Sound, Newest,
              InUse, IsOpen
<1>3. ASSUME NEW u \in Users, Save(u) \/ SaveWithoutEvent(u) PROVE StoreInv'
  <2>1. mem' = [mem EXCEPT ![u].at = "ready"]
    <3>1. CASE Save(u)
      BY <3>1 DEF Save
    <3>2. CASE SaveWithoutEvent(u)
      <4>1. [mem[u] EXCEPT !.at = "ready"] = mem[u]
        BY <3>2 DEF SaveWithoutEvent, StoreInv, StoreTypeOK, Memories
      <4> QED
        BY <3>2, <4>1 DEF SaveWithoutEvent, StoreInv, StoreTypeOK
    <3> QED
      BY <1>3, <3>1, <3>2
  <2>2. ~mem[u].refused
    BY <1>3 DEF Save, SaveWithoutEvent, StoreInv, PlaceInv
  <2> QED
    BY <1>3, <2>1, <2>2, WriteStep DEF Save, SaveWithoutEvent
<1>4. ASSUME NEW u \in Users, SaveRaises(u) PROVE StoreInv'
  <2>1. storeFaults' \in 0 .. MaxStoreFaults
    BY <1>4 DEF SaveRaises, Fault, StoreInv, StoreTypeOK
  <2> QED
    <3>1. CASE AfterRaise(u) = "away"
      BY <1>4, <2>1, <3>1, LeaveStep DEF SaveRaises
    <3>2. CASE AfterRaise(u) # "away"
      <4>1. AfterRaise(u) \in {"ready", "restoreSnap"} /\ (AfterRaise(u) = "restoreSnap" => Restores(u))
        BY <3>2 DEF AfterRaise
      <4>2. mem' = [mem EXCEPT ![u].at = AfterRaise(u)] /\ mem[u].at = "saving"
        BY <1>4, <3>2 DEF SaveRaises
      <4> QED
        BY <1>4, <2>1, <4>1, <4>2, MoveStep DEF SaveRaises
    <3> QED
      BY <3>1, <3>2
<1>5. ASSUME NEW u \in Users, HaltApply(u) PROVE StoreInv'
  <2>1. storeFaults' \in 0 .. MaxStoreFaults
    BY <1>5 DEF HaltApply, StoreInv, StoreTypeOK
  <2> QED
    BY <1>5, <2>1, MoveStep DEF HaltApply
<1>6. ASSUME NEW u \in Users, Close(u) \/ StoreCrash(u) PROVE StoreInv'
  <2>1. storeFaults' \in 0 .. MaxStoreFaults
    BY <1>6 DEF Close, StoreCrash, Fault, StoreInv, StoreTypeOK
  <2> QED
    BY <1>6, <2>1, LeaveStep DEF Close, StoreCrash
<1> QED
  BY <1>1, <1>2, <1>3, <1>4, <1>5, <1>6, OpenStep, TakeSnapshotStep, RecordChangeStep, RecordRaisesStep,
     RestoreSnapshotStep, RestoreLogStep DEF StoreNext

(* The inductive invariant: what is on disk and in every memory in use is  *)
(* complete, or told apart by the log's last time.                         *)
THEOREM StoreInvariant == Apart => (StoreSpec => []StoreInv)
<1> SUFFICES ASSUME Apart PROVE StoreSpec => []StoreInv
  OBVIOUS
<1>1. StoreInv /\ [StoreNext]_storeVars => StoreInv'
  BY StoreStep
<1> QED
  BY StoreInitInv, <1>1, PTL DEF StoreSpec

(* Every step keeps the types, whichever verbs have the store at once.     *)
LEMMA StoreTypeStep == ASSUME StoreTypeOK, [StoreNext]_storeVars PROVE StoreTypeOK'
<1>1. NoStore \in Memories
  BY DEF NoStore, NoLog, NoSnap, Memories, Logs, Snaps, Places, Changes, Times
<1>2. ASSUME NEW u \in Users, Open(u)
      PROVE  StoreTypeOK'
  BY <1>2, OpenTypes
<1>3. ASSUME NEW u \in Users, TakeSnapshot(u)
      PROVE  StoreTypeOK'
  <2>1. [log |-> log, snap |-> snap] \in [log : Logs, snap : Snaps]
    BY DEF StoreTypeOK
  <2>2. [mem[u] EXCEPT !.at = "ready", !.found = [log |-> log, snap |-> snap]] \in Memories
    BY <2>1 DEF StoreTypeOK, Memories, Places
  <2> QED BY <1>3, <2>2 DEF TakeSnapshot, StoreTypeOK
<1>4. ASSUME NEW u \in Users, RecordChange(u)
      PROVE  StoreTypeOK'
  <2>1. MayChange(u) /\ "saving" \in Places
    BY <1>4 DEF RecordChange, Places
  <2>2. made + 1 \in 0 .. MaxChanges /\ Appended(u) \in Logs /\ Changed(u, "saving") \in [Users -> Memories]
    BY <2>1, ChangeTypes
  <2> QED BY <1>4, <2>2 DEF RecordChange, StoreTypeOK, Changes
<1>5. ASSUME NEW u \in Users, RecordRaises(u)
      PROVE  StoreTypeOK'
  <2>1. MayChange(u) /\ AfterRaise(u) \in Places /\ storeFaults' \in 0 .. MaxStoreFaults
    BY <1>5 DEF RecordRaises, AfterRaise, Places, Fault, StoreTypeOK
  <2>2. made + 1 \in 0 .. MaxChanges /\ Appended(u) \in Logs
        /\ Changed(u, AfterRaise(u)) \in [Users -> Memories]
    BY <2>1, ChangeTypes
  <2>3. [log EXCEPT !.torn = TRUE] \in Logs
    BY DEF StoreTypeOK, Logs
  <2>4. log' \in Logs
    BY <1>5, <2>2, <2>3 DEF RecordRaises, StoreTypeOK
  <2>5. mem' \in [Users -> Memories]
    BY <1>1, <1>5, <2>2 DEF RecordRaises, StoreTypeOK
  <2> QED BY <1>5, <2>1, <2>2, <2>4, <2>5 DEF RecordRaises, StoreTypeOK, Changes
<1>6. ASSUME NEW u \in Users, Save(u) \/ SaveWithoutEvent(u)
      PROVE  StoreTypeOK'
  <2>1. Memory(u) \in Snaps
    BY DEF StoreTypeOK, Memory, Memories, Snaps
  <2>2. [mem[u] EXCEPT !.at = "ready"] \in Memories
    BY DEF StoreTypeOK, Memories, Places
  <2> QED BY <1>6, <2>1, <2>2 DEF Save, SaveWithoutEvent, StoreTypeOK
<1>7. ASSUME NEW u \in Users, SaveRaises(u)
      PROVE  StoreTypeOK'
  <2>1. [mem[u] EXCEPT !.at = AfterRaise(u)] \in Memories
    BY DEF StoreTypeOK, Memories, Places, AfterRaise
  <2> QED BY <1>1, <1>7, <2>1 DEF SaveRaises, Fault, StoreTypeOK
<1>8. ASSUME NEW u \in Users, Close(u) \/ StoreCrash(u)
      PROVE  StoreTypeOK'
  BY <1>1, <1>8 DEF Close, StoreCrash, Fault, StoreTypeOK
<1>9. ASSUME NEW u \in Users, HaltApply(u) \/ RestoreSnapshot(u) \/ RestoreLog(u)
      PROVE  StoreTypeOK'
  <2>1. /\ [mem[u] EXCEPT !.at = "restoreSnap"] \in Memories
        /\ [mem[u] EXCEPT !.at = "restoreLog"] \in Memories
    BY DEF StoreTypeOK, Memories, Places
  <2>2. mem[u].found.log \in Logs /\ mem[u].found.snap \in Snaps
    BY Fields
  <2> QED BY <1>1, <1>9, <2>1, <2>2 DEF HaltApply, RestoreSnapshot, RestoreLog, StoreTypeOK
<1>10. CASE SetClock \/ UNCHANGED storeVars
  BY <1>10 DEF SetClock, storeVars, StoreTypeOK
<1> QED BY <1>2, <1>3, <1>4, <1>5, <1>6, <1>7, <1>8, <1>9, <1>10 DEF StoreNext

(* Type correctness of the store, for any processes, verbs, changes and    *)
(* faults, apart or not.                                                   *)
THEOREM StoreTypeCorrect == StoreSpec => []StoreTypeOK
<1>1. StoreInit => StoreTypeOK
  BY StoreInitInv DEF StoreInv
<1>2. StoreTypeOK /\ [StoreNext]_storeVars => StoreTypeOK'
  BY StoreTypeStep
<1> QED BY <1>1, <1>2, PTL DEF StoreSpec

(* No durable event is ignored and no snapshot shows a change without one, *)
(* wherever processes died, though chats write old snapshots and the clock *)
(* goes back.                                                              *)
THEOREM LogAndSnapshotAlwaysAgree == Apart => (StoreSpec => []LogAndSnapshotAgree)
<1> SUFFICES ASSUME Apart PROVE StoreSpec => []LogAndSnapshotAgree
  OBVIOUS
<1>1. StoreSpec => []StoreInv
  BY StoreInvariant
<1>2. StoreInv => LogAndSnapshotAgree
  BY DEF StoreInv, LogAndSnapshotAgree, MemoryInv, InUse, Sound
<1> QED
  BY <1>1, <1>2, PTL

-----------------------------------------------------------------------------
(* The runtime: the four components together *)

RuntimeAssumption == ConversationAssumption /\ ConsultAssumption /\ DispatchAssumption

(* What each component keeps for itself, kept by all of them together.     *)
ExpertsInv ==
  /\ ConvUsageInv /\ RestTyped
  /\ ConsultInv
  /\ DispatchInv
  /\ StoreTypeOK /\ (Apart => StoreInv)

(* A step of the runtime is a step of one component beside three at rest.  *)
LEMMA ExpertsStep ==
  ASSUME RuntimeAssumption, ExpertsInv,
         [ExpertsNext]_<<convVars, consultVars, dispatchVars, storeVars>>
  PROVE  ExpertsInv'
<1> USE DEF RuntimeAssumption, ExpertsInv
<1>1. /\ [ConvNext]_convVars /\ [ConsultNext]_consultVars
      /\ [DispatchNext]_dispatchVars /\ [StoreNext]_storeVars
  BY DEF ExpertsNext, ConversationAlone, ConsultAlone, CouncilAlone, BeliefsAlone
<1>2. ConvUsageInv'
  BY <1>1, UsageStep
<1>3. RestTyped'
  BY <1>1, RestStep DEF ConvUsageInv, ConvIInv
<1>4. ConsultInv'
  BY <1>1, ConsultStep
<1>5. DispatchInv'
  BY <1>1, DispatchStep
<1>6. StoreTypeOK'
  BY <1>1, StoreTypeStep
<1>7. Apart => StoreInv'
  BY <1>1, StoreStep
<1> QED BY <1>2, <1>3, <1>4, <1>5, <1>6, <1>7

(* The four components of the expert runtime keep their invariants side by *)
(* side, whichever of them moves.                                          *)
THEOREM ExpertsInvariant == ASSUME RuntimeAssumption PROVE ExpertsSpec => []ExpertsInv
<1>1. ExpertsInit => ExpertsInv
  <2> SUFFICES ASSUME ExpertsInit PROVE ExpertsInv
    OBVIOUS
  <2>1. ConvUsageInv /\ RestTyped
    BY UsageInit, RestInit DEF ExpertsInit, RuntimeAssumption
  <2>2. ConsultInv /\ DispatchInv
    BY InitIsConsultInv, InitIsDispatchInv DEF ExpertsInit, RuntimeAssumption
  <2>3. StoreTypeOK /\ StoreInv
    BY StoreInitInv DEF ExpertsInit, StoreInv
  <2> QED BY <2>1, <2>2, <2>3 DEF ExpertsInv
<1>2. ExpertsInv /\ [ExpertsNext]_<<convVars, consultVars, dispatchVars, storeVars>> => ExpertsInv'
  BY ExpertsStep
<1> QED BY <1>1, <1>2, PTL DEF ExpertsSpec

(* Whichever component the runtime is busy with, every variable of the     *)
(* four has its type.                                                      *)
THEOREM ExpertTypesAreKept == ASSUME RuntimeAssumption PROVE ExpertsSpec => []ExpertTypesOK
<1>1. ExpertsInv => ExpertTypesOK
  <2> SUFFICES ASSUME ExpertsInv PROVE ExpertTypesOK
    OBVIOUS
  <2>1. ConvTypeOK
    BY LayersGiveTypes DEF ExpertsInv, RuntimeAssumption
  <2>2. ConsultTypeOK
    BY ConsultInvGivesTypes DEF ExpertsInv
  <2>3. DispatchTypeOK /\ StoreTypeOK
    BY DEF ExpertsInv, DispatchInv
  <2> QED BY <2>1, <2>2, <2>3 DEF ExpertTypesOK
<1> QED BY <1>1, ExpertsInvariant, PTL
=============================================================================
