---------------------------- MODULE TaskDispatch ----------------------------
(***************************************************************************)
(* One dispatch of AsyncTaskDispatcher: tasks under a concurrency limit,   *)
(* independent or each after its dependencies, with or without a timeout,  *)
(* with or without exceptions that abort the whole call. A dispatcher is   *)
(* made per call; no caller passes a progress callback.                    *)
(***************************************************************************)
EXTENDS Naturals, FiniteSets

CONSTANTS
  Tasks,
  Plans,     \* the dependency maps callers pass, circular ones included
  Slots      \* max_concurrent

ASSUME DispatchAssumption ==
  /\ IsFiniteSet(Tasks)
  /\ Plans \subseteq [Tasks -> SUBSET Tasks]
  /\ Slots \in Nat \ {0}

VARIABLES
  request,      \* what the caller asked for
  taskStatus,   \* DispatchedTask.status
  taskStage,    \* where the task's coroutine stands
  taskWork,     \* what the caller's own coroutine did
  unchecked,    \* dependencies wait_for_dependencies has not gone through
  completion,   \* tasks whose completion event is set
  cancelEvent,  \* the dispatcher's cancel event
  stopping,     \* why every unfinished task has been cancelled
  dispatchPhase

dispatchVars == <<request, taskStatus, taskStage, taskWork, unchecked, completion,
                  cancelEvent, stopping, dispatchPhase>>

Statuses == {"pending", "blocked", "running", "completed", "failed", "cancelled"}
Stages == {"new", "waiting", "queued", "running", "done"}
Outcomes == {"returned", "failed", "fatal", "cancelled"}

\* a dependency on an id that is no task of the dispatch is never waited for
NoDeps == [t \in Tasks |-> {}]
Requests ==
  {r \in [kind : {"independent", "dependent"}, timed : BOOLEAN, fatal : BOOLEAN,
          deps : Plans \cup {NoDeps}] :
     /\ r.kind = "independent" => r.deps = NoDeps
     /\ r.fatal => r.kind = "independent" /\ ~r.timed}

\* no chain of dependencies comes back to where it started
Acyclic(deps) ==
  ~ \E C \in SUBSET Tasks : C # {} /\ \A t \in C : deps[t] \cap C # {}

Unfinished == {t \in Tasks : taskStage[t] # "done"}
Going == dispatchPhase = "running"

\* Deliberately wrong: a task takes its slot before its dependencies are met
HeldWhileWaiting == {t \in Tasks : taskStage[t] \in {"waiting", "running"}}

\* tasks inside the semaphore
Holding == {t \in Tasks : taskStage[t] = "running"}

DispatchInit ==
  /\ request = [kind |-> "independent", timed |-> FALSE, fatal |-> FALSE, deps |-> NoDeps]
  /\ taskStatus = [t \in Tasks |-> "pending"]
  /\ taskStage = [t \in Tasks |-> "new"]
  /\ taskWork = [t \in Tasks |-> "none"]
  /\ unchecked = [t \in Tasks |-> {}]
  /\ completion = {}
  /\ cancelEvent = FALSE
  /\ stopping = "no"
  /\ dispatchPhase = "idle"

(* dispatch and dispatch_with_dependencies, up to the gather.              *)
Dispatch(r) ==
  /\ dispatchPhase = "idle"
  /\ dispatchPhase' = "running"
  /\ request' = r
  /\ taskStatus' = [t \in Tasks |-> IF r.deps[t] = {} THEN "pending" ELSE "blocked"]
  /\ unchecked' = r.deps
  /\ cancelEvent' = FALSE
  /\ UNCHANGED <<taskStage, taskWork, completion, stopping>>

\* the coroutine of t is over
TaskOver(t, status) ==
  /\ taskStatus' = [taskStatus EXCEPT ![t] = status]
  /\ taskStage' = [taskStage EXCEPT ![t] = "done"]
  /\ completion' = completion \cup {t}

MovesTo(t, stage) ==
  taskStage' = [taskStage EXCEPT ![t] = stage] /\ UNCHANGED <<taskStatus, completion>>

(* run_task starts: a dependent task looks at the cancel event at once,    *)
(* an independent one when it has its slot.                                *)
Begin(t) ==
  /\ Going /\ stopping = "no" /\ taskStage[t] = "new"
  /\ IF request.kind = "dependent" /\ cancelEvent
       THEN TaskOver(t, "cancelled")
       ELSE MovesTo(t, IF request.deps[t] = {} THEN "queued" ELSE "waiting")
  /\ UNCHANGED <<request, taskWork, unchecked, cancelEvent, stopping, dispatchPhase>>

\* Deliberately wrong: a dependency that was cancelled counts as met
CheckFailedOnly(t, d) ==
  /\ Going /\ stopping = "no" /\ taskStage[t] = "waiting"
  /\ d \in unchecked[t] \cap completion
  /\ unchecked' = [unchecked EXCEPT ![t] = @ \ {d}]
  /\ IF taskStatus[d] = "failed" THEN TaskOver(t, taskStatus[d])
     ELSE IF unchecked'[t] = {} THEN MovesTo(t, "queued")
     ELSE UNCHANGED <<taskStatus, taskStage, completion>>
  /\ UNCHANGED <<request, taskWork, cancelEvent, stopping, dispatchPhase>>

(* wait_for_dependencies goes past one dependency: a failed or cancelled   *)
(* one ends the task the same way.                                         *)
CheckDependency(t, d) ==
  /\ Going /\ stopping = "no" /\ taskStage[t] = "waiting"
  /\ d \in unchecked[t] \cap completion
  /\ unchecked' = [unchecked EXCEPT ![t] = @ \ {d}]
  /\ IF taskStatus[d] \in {"failed", "cancelled"} THEN TaskOver(t, taskStatus[d])
     ELSE IF unchecked'[t] = {} THEN MovesTo(t, "queued")
     ELSE UNCHANGED <<taskStatus, taskStage, completion>>
  /\ UNCHANGED <<request, taskWork, cancelEvent, stopping, dispatchPhase>>

(* The semaphore lets the task in. The cancel event ends it there, and so  *)
(* does, for an independent one, a cost checker that refuses.              *)
Acquire(t) ==
  /\ Going /\ stopping = "no" /\ taskStage[t] = "queued"
  /\ Cardinality(Holding) < Slots
  /\ \/ /\ cancelEvent \/ request.kind = "independent"
        /\ TaskOver(t, "cancelled")
     \/ /\ ~cancelEvent
        /\ taskStage' = [taskStage EXCEPT ![t] = "running"]
        /\ taskStatus' = [taskStatus EXCEPT ![t] = "running"]
        /\ UNCHANGED completion
  /\ UNCHANGED <<request, taskWork, unchecked, cancelEvent, stopping, dispatchPhase>>

StatusOf(outcome) ==
  CASE outcome = "returned" -> "completed"
    [] outcome \in {"failed", "fatal"} -> "failed"
    [] outcome = "cancelled" -> "cancelled"

\* Deliberately wrong: a body that ends after cancel_all keeps the cancelled status
EndBodyAsMarked(t, outcome) ==
  /\ Going /\ taskStage[t] = "running"
  /\ outcome = "fatal" => request.fatal
  /\ taskWork' = [taskWork EXCEPT ![t] = outcome]
  /\ TaskOver(t, IF taskStatus[t] = "running" THEN StatusOf(outcome) ELSE taskStatus[t])
  /\ UNCHANGED <<request, unchecked, cancelEvent, stopping, dispatchPhase>>

(* _execute_task_body after the caller's coroutine returned, raised, or    *)
(* let a cancellation through; a cancelled one may also return or raise.   *)
EndBody(t, outcome) ==
  /\ Going /\ taskStage[t] = "running"
  /\ outcome = "fatal" => request.fatal
  /\ taskWork' = [taskWork EXCEPT ![t] = outcome]
  /\ TaskOver(t, StatusOf(outcome))
  /\ UNCHANGED <<request, unchecked, cancelEvent, stopping, dispatchPhase>>

(* A cancellation reaches a task that has no body running: one that never  *)
(* began does nothing at all, the others run _cancel_pending_task.         *)
CancelBeforeBody(t) ==
  /\ Going /\ stopping # "no"
  /\ \/ /\ taskStage[t] = "new"
        /\ taskStage' = [taskStage EXCEPT ![t] = "done"]
        /\ UNCHANGED <<taskStatus, completion>>
     \/ taskStage[t] \in {"waiting", "queued"} /\ TaskOver(t, "cancelled")
  /\ UNCHANGED <<request, taskWork, unchecked, cancelEvent, stopping, dispatchPhase>>

(* The timeout of wait_for, which cancels what is unfinished and waits.    *)
TimeOut ==
  /\ Going /\ request.timed /\ stopping = "no"
  /\ stopping' = "timeout"
  /\ UNCHANGED <<request, taskStatus, taskStage, taskWork, unchecked, completion,
                 cancelEvent, dispatchPhase>>

(* The gather of a fatal dispatch raises: siblings are cancelled.          *)
Abort ==
  /\ Going /\ stopping = "no" /\ \E t \in Tasks : taskWork[t] = "fatal"
  /\ stopping' = "fatal"
  /\ UNCHANGED <<request, taskStatus, taskStage, taskWork, unchecked, completion,
                 cancelEvent, dispatchPhase>>

(* cancel_all: marks what is active, interrupts nothing.                   *)
CancelAll ==
  /\ Going /\ ~cancelEvent
  /\ cancelEvent' = TRUE
  /\ taskStatus' = [t \in Tasks |-> IF taskStatus[t] \in {"running", "pending", "blocked"}
                                      THEN "cancelled" ELSE taskStatus[t]]
  /\ UNCHANGED <<request, taskStage, taskWork, unchecked, completion, stopping, dispatchPhase>>

(* Every task is over: the caller gets its result, after a timeout through *)
(* _timeout_remaining, or the fatal exception.                             *)
Finish ==
  /\ Going /\ Unfinished = {}
  /\ stopping = "no" => \A t \in Tasks : taskWork[t] # "fatal"
  /\ dispatchPhase' = IF stopping = "fatal" THEN "raised" ELSE "returned"
  /\ IF stopping = "timeout"
       THEN /\ cancelEvent' = TRUE
            /\ taskStatus' = [t \in Tasks |->
                                IF taskStatus[t] \in {"pending", "blocked", "running"}
                                  THEN "cancelled" ELSE taskStatus[t]]
       ELSE UNCHANGED <<cancelEvent, taskStatus>>
  /\ UNCHANGED <<request, taskStage, taskWork, unchecked, completion, stopping>>

DispatchNext ==
  \/ \E r \in Requests : Dispatch(r)
  \/ \E t \in Tasks : Begin(t) \/ Acquire(t) \/ CancelBeforeBody(t)
  \/ \E t, d \in Tasks : CheckDependency(t, d)
  \/ \E t \in Tasks, outcome \in Outcomes : EndBody(t, outcome)
  \/ TimeOut \/ Abort \/ CancelAll \/ Finish

DispatchSpec == DispatchInit /\ [][DispatchNext]_dispatchVars

(* The event loop runs what is ready, a body ends, and a timeout fires.    *)
DispatchFairness ==
  /\ \A t \in Tasks : /\ WF_dispatchVars(Begin(t))
                      /\ WF_dispatchVars(Acquire(t))
                      /\ WF_dispatchVars(CancelBeforeBody(t))
                      /\ WF_dispatchVars(\E d \in Tasks : CheckDependency(t, d))
                      /\ WF_dispatchVars(\E outcome \in Outcomes : EndBody(t, outcome))
  /\ WF_dispatchVars(TimeOut) /\ WF_dispatchVars(Abort) /\ WF_dispatchVars(Finish)

DispatchFairSpec == DispatchSpec /\ DispatchFairness

-----------------------------------------------------------------------------
(* Properties *)

(* Every variable has its type.                                            *)
DispatchTypeOK ==
  /\ request \in Requests
  /\ taskStatus \in [Tasks -> Statuses]
  /\ taskStage \in [Tasks -> Stages]
  /\ taskWork \in [Tasks -> {"none"} \cup Outcomes]
  /\ unchecked \in [Tasks -> SUBSET Tasks]
  /\ completion \subseteq Tasks
  /\ cancelEvent \in BOOLEAN
  /\ stopping \in {"no", "timeout", "fatal"}
  /\ dispatchPhase \in {"idle", "running", "returned", "raised"}

(* The body of a task starts only when the body of every task it depends   *)
(* on has returned: neither a failure, a cancellation nor a timeout of a   *)
(* dependency is ever taken for its result (run_task of                    *)
(* dispatch_with_dependencies).                                            *)
DependenciesFirst ==
  \A t \in Tasks : taskStage[t] = "running" \/ taskWork[t] # "none" =>
    \A d \in request.deps[t] : taskWork[d] = "returned"

(* A result that reaches the caller accounts for every task, and reports   *)
(* as completed exactly those whose body returned, whatever cancel_all and *)
(* the timeout marked in between; a fatal failure is never inside one.     *)
ReportedAsRun ==
  dispatchPhase = "returned" =>
    \A t \in Tasks : /\ taskStatus[t] \in {"completed", "failed", "cancelled"}
                     /\ taskStatus[t] = "completed" <=> taskWork[t] = "returned"
                     /\ taskWork[t] # "fatal"

(* A dispatch without circular dependencies, or with a timeout, comes back *)
(* however many tasks wait for one another: run_task waits for its         *)
(* dependencies before it takes one of the slots they need.                *)
DispatchReturns ==
  Going /\ (Acyclic(request.deps) \/ request.timed) ~> ~Going
=============================================================================
