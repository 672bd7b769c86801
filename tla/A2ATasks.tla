------------------------------ MODULE A2ATasks ------------------------------
(***************************************************************************)
(* The A2A server's tasks: TaskManager's bounded table and the consult     *)
(* runs of A2AServer. All of it runs on one event loop; a run is a task of *)
(* its own, which a cancel request or the server's stop may interrupt      *)
(* between the end of its work and the handler that waits for it.          *)
(***************************************************************************)
EXTENDS Naturals, Sequences, SequencesExt, FiniteSetsExt

CONSTANTS
  Ids,           \* the ids create_task draws
  Consults,      \* those whose skill the server runs itself
  Size,          \* bytes of each task's input
  MaxActive, MaxActiveBytes, MaxTerminal

ASSUME A2AAssumption ==
  /\ IsFiniteSet(Ids) /\ Consults \subseteq Ids
  /\ Size \in [Ids -> Nat]
  /\ MaxActive \in Nat \ {0} /\ MaxActiveBytes \in Nat \ {0} /\ MaxTerminal \in Nat \ {0}

VARIABLES
  a2aState,    \* task id -> state; "evicted" once it left the table
  a2aTable,    \* the OrderedDict of TaskManager: ids, oldest first
  a2aRun,      \* task id -> the asyncio task of its consult
  a2aEnded,    \* ids in the order their tasks ended
  a2aActive,   \* the ids in _active_runs
  a2aAwaited,  \* the runs that stop waits for; {} when it does not wait
  a2aLate      \* consults created while a stop waited

stopVars == <<a2aAwaited, a2aLate>>
tableVars == <<a2aState, a2aTable, a2aEnded>>
a2aVars == <<tableVars, a2aRun, a2aActive, stopVars>>

ActiveStates == {"submitted", "working"}
TerminalStates == {"completed", "failed", "cancelled"}
LiveRuns == {"running", "stopping"}
Outcomes2A == {"ok", "notok", "raised", "cancelled"}

ActiveTasks == {t \in Ids : a2aState[t] \in ActiveStates}
ActiveBytes == MapThenSumSet(LAMBDA t : Size[t], ActiveTasks)

\* VALID_TRANSITIONS
MayMove(from, to) ==
  \/ from = "submitted" /\ to \in {"working", "cancelled"}
  \/ from = "working" /\ to \in TerminalStates

A2AInit ==
  /\ a2aState = [t \in Ids |-> "absent"]
  /\ a2aTable = <<>>
  /\ a2aRun = [t \in Ids |-> "none"]
  /\ a2aEnded = <<>>
  /\ a2aActive = {} /\ a2aAwaited = {} /\ a2aLate = {}

(* create_task, and for a consult the transition to WORKING and the start  *)
(* of its run, which happen before anything else runs. A stop does not     *)
(* refuse it: it closes the listener last, and no connection at all.       *)
CreateTask(t) ==
  /\ a2aState[t] = "absent"
  /\ Cardinality(ActiveTasks) < MaxActive
  /\ ActiveBytes + Size[t] <= MaxActiveBytes
  /\ a2aTable' = Append(a2aTable, t)
  /\ IF t \in Consults
       THEN /\ a2aState' = [a2aState EXCEPT ![t] = "working"]
            /\ a2aRun' = [a2aRun EXCEPT ![t] = "running"]
            /\ a2aActive' = a2aActive \cup {t}
            /\ a2aLate' = IF a2aAwaited = {} THEN a2aLate ELSE a2aLate \cup {t}
       ELSE /\ a2aState' = [a2aState EXCEPT ![t] = "submitted"]
            /\ UNCHANGED <<a2aRun, a2aActive, a2aLate>>
  /\ UNCHANGED <<a2aEnded, a2aAwaited>>

\* the tasks of a table that are in P, in its order (a recursive function and
\* no SelectSeq, which is opaque to the provers)
Only(table, P) ==
  LET kept[n \in 0 .. Len(table)] ==
        IF n = 0 THEN <<>>
        ELSE IF table[n] \in P THEN Append(kept[n - 1], table[n]) ELSE kept[n - 1]
  IN kept[Len(table)]

\* Deliberately wrong: the ended task is taken out and not put back
TakenOut(table, t) == Only(table, Ids \ {t})

\* Deliberately wrong: a task that ends keeps its place in the table
LeftInPlace(table, t) == table

MovedToEnd(table, t) == Append(Only(table, Ids \ {t}), t)

\* _evict_old_terminal: the front of the terminal entries above the cap
Evicted(table, state) ==
  LET terminal == Only(table, {t \in Ids : state[t] \in TerminalStates})
  IN IF Len(terminal) > MaxTerminal
       THEN ToSet(SubSeq(terminal, 1, Len(terminal) - MaxTerminal))
       ELSE {}

(* TaskManager.transition to a terminal state, when it is allowed.         *)
EndTask(t, to) ==
  /\ MayMove(a2aState[t], to)
  /\ LET state == [a2aState EXCEPT ![t] = to]
         table == MovedToEnd(a2aTable, t)
         out == Evicted(table, state)
     IN /\ a2aState' = [u \in Ids |-> IF u \in out THEN "evicted" ELSE state[u]]
        /\ a2aTable' = Only(table, Ids \ out)
  /\ a2aEnded' = Append(a2aEnded, t)

(* The consult coroutine ends: with an outcome, an exception, or, once it  *)
(* has been cancelled, possibly in the cancellation.                       *)
RunEnds(t, outcome) ==
  /\ a2aRun[t] \in LiveRuns
  /\ outcome = "cancelled" => a2aRun[t] = "stopping"
  /\ a2aRun' = [a2aRun EXCEPT ![t] = outcome]
  /\ UNCHANGED <<tableVars, a2aActive, stopVars>>

\* Deliberately wrong: the handler leaves a cancelled run's task to the cancel request
HandlerLeavesCancelled(t) ==
  /\ a2aRun[t] \in Outcomes2A
  /\ a2aRun' = [a2aRun EXCEPT ![t] = "over"]
  /\ a2aActive' = a2aActive \ {t}
  /\ UNCHANGED stopVars
  /\ LET to == CASE a2aRun[t] = "ok" -> "completed" [] a2aRun[t] = "notok" -> "failed"
                 [] OTHER -> "none"
     IN \/ EndTask(t, to)
        \/ ~MayMove(a2aState[t], to) /\ UNCHANGED tableVars

(* _execute_consult_task goes on: a transition that is refused, or a task  *)
(* no longer in the table, is an exception or an answer to the client. A   *)
(* run that raised leaves the task as it is.                               *)
HandlerResumes(t) ==
  /\ a2aRun[t] \in Outcomes2A
  /\ a2aRun' = [a2aRun EXCEPT ![t] = "over"]
  /\ a2aActive' = a2aActive \ {t}
  /\ UNCHANGED stopVars
  /\ LET to == CASE a2aRun[t] = "ok" -> "completed"
                 [] a2aRun[t] = "notok" -> "failed"
                 [] a2aRun[t] = "cancelled" -> "cancelled"
                 [] a2aRun[t] = "raised" -> "none"
     IN \/ EndTask(t, to)
        \/ ~MayMove(a2aState[t], to) /\ UNCHANGED tableVars

\* Deliberately wrong: the task is cancelled and its run is left alone
CancelTaskOnly(t) ==
  EndTask(t, "cancelled") /\ UNCHANGED <<a2aRun, a2aActive, stopVars>>

\* run.cancel() of the runs in S that are not done
ToldToStop(S) ==
  [t \in Ids |-> IF t \in S /\ a2aRun[t] = "running" THEN "stopping" ELSE a2aRun[t]]

(* _handle_cancel_task: the run, if _active_runs has one, is told to stop, *)
(* then the task is marked. When the mark is refused the answer is a       *)
(* conflict.                                                               *)
CancelTask(t) ==
  /\ EndTask(t, "cancelled")
  /\ a2aRun' = ToldToStop(a2aActive \cap {t})
  /\ UNCHANGED <<a2aActive, stopVars>>

(* stop, up to its await: the runs of this moment are cancelled; their     *)
(* handlers settle their tasks.                                            *)
StopBegins ==
  /\ a2aAwaited = {} /\ a2aActive # {}
  /\ a2aRun' = ToldToStop(a2aActive)
  /\ a2aAwaited' = a2aActive
  /\ UNCHANGED <<tableVars, a2aActive, a2aLate>>

(* stop, once the runs it cancelled have ended: it forgets every run, also *)
(* those created while it waited, which nobody has cancelled.              *)
StopClears ==
  /\ a2aAwaited # {}
  /\ \A t \in a2aAwaited : a2aRun[t] \notin LiveRuns
  /\ a2aActive' = {} /\ a2aAwaited' = {}
  /\ UNCHANGED <<tableVars, a2aRun, a2aLate>>

A2ANext ==
  \/ StopBegins \/ StopClears
  \/ \E t \in Ids : CreateTask(t) \/ HandlerResumes(t) \/ CancelTask(t)
  \/ \E t \in Ids, outcome \in Outcomes2A : RunEnds(t, outcome)

A2ASpec == A2AInit /\ [][A2ANext]_a2aVars

(* A consult ends and its handler is resumed.                              *)
A2AFairness ==
  \A t \in Ids : /\ WF_a2aVars(\E outcome \in Outcomes2A : RunEnds(t, outcome))
                 /\ WF_a2aVars(HandlerResumes(t))

A2AFairSpec == A2ASpec /\ A2AFairness

-----------------------------------------------------------------------------
(* Properties *)

(* Every variable has its type, and the table holds each task that was     *)
(* created and not evicted once.                                           *)
A2ATypeOK ==
  /\ a2aState \in [Ids -> {"absent", "evicted"} \cup ActiveStates \cup TerminalStates]
  /\ a2aRun \in [Ids -> {"none", "over"} \cup LiveRuns \cup Outcomes2A]
  /\ a2aTable \in Seq(Ids) /\ IsInjective(a2aTable)
  /\ ToSet(a2aTable) = {t \in Ids : a2aState[t] \in ActiveStates \cup TerminalStates}
  /\ a2aEnded \in Seq(Ids)
  /\ a2aActive \subseteq Ids /\ a2aAwaited \subseteq Ids /\ a2aLate \subseteq Ids

(* The table forgets the tasks that ended first, and only tasks that       *)
(* ended: a client that polls a task sees it until MaxTerminal later tasks *)
(* have ended (transition moves an ended task behind the others).          *)
FirstEndedFirstOut ==
  {t \in Ids : a2aState[t] = "evicted"} =
    {a2aEnded[i] : i \in 1 .. (Len(a2aEnded) - MaxTerminal)}

(* A run nobody has told to stop is one that a cancel request or a stop    *)
(* will find, and belongs to a task that is still WORKING: no cancelled or *)
(* forgotten task has its consult go on behind it. The one exception is a  *)
(* run created while a stop waited for others: the stop forgets it uncan-  *)
(* celled, and its task can then be cancelled without it.                  *)
RunsBelongToWorkingTasks ==
  \A t \in Ids : a2aRun[t] = "running" =>
    IF t \in a2aActive THEN a2aState[t] = "working" ELSE t \in a2aLate

(* A task whose consult goes on reaches a terminal state unless the consult *)
(* raises, whatever cancel requests and the server's stop do meanwhile.    *)
WorkingTaskEnds ==
  \A t \in Ids : a2aRun[t] \in LiveRuns ~> a2aState[t] # "working" \/ a2aRun[t] = "raised"
=============================================================================
