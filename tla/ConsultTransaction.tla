------------------------- MODULE ConsultTransaction -------------------------
(***************************************************************************)
(* One consult (execute_consult_transaction): the transaction coroutine,   *)
(* the work it guards (set-up, then the council), the heartbeat loop       *)
(* beside the work, and the lifecycle journal and trace file all of them   *)
(* write in threads that a cancellation waits for. The council counts only *)
(* as a caller of the provider and of the progress callback.               *)
(***************************************************************************)
EXTENDS Naturals

CONSTANT MaxFaults   \* model bound: locks and files that fail

ASSUME ConsultAssumption == MaxFaults \in Nat

VARIABLES
  consult,   \* the locals of the transaction
  child,     \* its two tasks: the guarded work and the heartbeat loop
  journal,   \* the last lifecycle event, and whether a reader meets a bad line
  traces,    \* what the trace file has of the run
  settled,   \* what the ledger has settled for the run
  clockUp,   \* the elapsed ceiling is reached
  answer,    \* what the caller got
  faultsLeft

consultVars == <<consult, child, journal, traces, settled, clockUp, answer, faultsLeft>>

Ended == {"completed", "failed", "cancelled"}
CostsSeen == {"none", "within", "over"}
WriteResults == {"ok", "elapsed", "transition", "lock", "torn"}
ConsultErrors == (WriteResults \ {"ok"})
                 \cup {"none", "deadline", "cancelled", "failed", "trace_lock", "trace_io"}

Resting == [at |-> "off", res |-> "ok", stop |-> FALSE]
Begun == [work |-> [Resting EXCEPT !.at = "running"], beat |-> [Resting EXCEPT !.at = "running"]]

ConsultInit ==
  /\ consult = [phase |-> "idle", error |-> "none", started |-> FALSE, called |-> FALSE,
                traced |-> FALSE, observed |-> "none", cancelled |-> FALSE]
  /\ child = [work |-> Resting, beat |-> Resting]
  /\ journal = [state |-> "none", reason |-> "none", cost |-> "none", torn |-> FALSE]
  /\ traces = {}
  /\ settled = "none"
  /\ clockUp = FALSE
  /\ answer = [kind |-> "none", retryable |-> FALSE]
  /\ faultsLeft = MaxFaults

-----------------------------------------------------------------------------
(* The journal *)

StorageFault == faultsLeft > 0 /\ faultsLeft' = faultsLeft - 1

\* an event, with the progress it carries; "none" carries the last event's
Heartbeat(cost) == [state |-> "running", reason |-> "none", cost |-> cost, stop |-> FALSE]
Final(state, reason, cost) == [state |-> state, reason |-> reason, cost |-> cost, stop |-> FALSE]
ElapsedStop(cost) == [Final("failed", "elapsed_limit", cost) EXCEPT !.stop = TRUE]

\* _apply_observed_stops: a cost or a time over its bound makes an event the last
\* one; a cost stop at the ceiling is an event that the reader takes for a bad line
\* (_normalize_persisted_event asks for elapsed_limit there)
Written(event) ==
  LET cost == IF event.cost = "none" THEN journal.cost ELSE event.cost
  IN CASE cost = "over" ->
            [journal EXCEPT !.state = "failed", !.reason = "cost_bound", !.cost = cost,
                            !.torn = clockUp]
       [] cost # "over" /\ (clockUp \/ event.stop) ->
            [journal EXCEPT !.state = "failed", !.reason = "elapsed_limit", !.cost = cost]
       [] OTHER ->
            [journal EXCEPT !.state = event.state, !.reason = event.reason, !.cost = cost]

(* ConsultLifecycle._append: the lock or the file fails, before or within  *)
(* the line; a torn journal cannot be read; an ended run takes no event    *)
(* but the elapsed stop it already has.                                    *)
AppendEvent(event, res) ==
  \/ res = "lock" /\ StorageFault /\ UNCHANGED journal
  \/ /\ res = "torn"
     /\ \/ journal.torn /\ UNCHANGED faultsLeft
        \/ ~journal.torn /\ StorageFault
     /\ journal' = [journal EXCEPT !.torn = TRUE]
  \/ /\ ~journal.torn /\ journal.state \in Ended
     /\ res = IF event.stop /\ journal.reason = "elapsed_limit" THEN "ok" ELSE "transition"
     /\ UNCHANGED <<journal, faultsLeft>>
  \/ /\ ~journal.torn /\ journal.state = "running"
     /\ journal' = Written(event)
     /\ res = IF clockUp /\ ~event.stop THEN "elapsed" ELSE "ok"
     /\ UNCHANGED faultsLeft

Answered(kind, retryable) ==
  /\ consult' = [consult EXCEPT !.phase = "answered"]
  /\ answer' = [kind |-> kind, retryable |-> retryable]

\* an except clause that waits for a thread: a cancellation that comes meanwhile wins
AnsweredAfterWait(kind, retryable) ==
  IF consult.cancelled THEN Answered("cancelled", FALSE) ELSE Answered(kind, retryable)

(* lifecycle.start, before anything else of the run.                       *)
StartConsult ==
  /\ consult.phase = "idle"
  /\ \/ /\ journal' = [journal EXCEPT !.state = "running"]
        /\ consult' = [consult EXCEPT !.phase = "preflight"]
        /\ child' = Begun
        /\ UNCHANGED <<answer, faultsLeft>>
     \/ /\ StorageFault
        /\ \/ Answered("storage", TRUE) /\ UNCHANGED journal
           \/ Answered("storage", FALSE) /\ journal' = [journal EXCEPT !.torn = TRUE]
        /\ UNCHANGED child
  /\ UNCHANGED <<traces, settled, clockUp>>

-----------------------------------------------------------------------------
(* The guarded work and the heartbeat loop *)

Moves(c, at) == child' = [child EXCEPT ![c].at = at]

(* The loop's interval is over, or the council reports progress: a thread  *)
(* is on its way to the journal.                                           *)
BeginWrite(c) ==
  /\ child[c].at = "running" /\ ~child[c].stop
  /\ c = "work" => consult.started
  /\ Moves(c, "writing")
  /\ UNCHANGED <<consult, journal, traces, settled, clockUp, answer, faultsLeft>>

\* the thread appends its heartbeat, whatever became of the task that waits for it
ThreadWrites(c) ==
  /\ child[c].at = "writing"
  /\ \E res \in WriteResults :
       /\ AppendEvent(Heartbeat("none"), res)
       /\ child' = [child EXCEPT ![c].at = "written", ![c].res = res]
  /\ UNCHANGED <<consult, traces, settled, clockUp, answer>>

(* The task goes on after its thread: an error ends it, and so does a      *)
(* cancellation that had to wait.                                          *)
TaskResumes(c) ==
  /\ child[c].at = "written"
  /\ Moves(c, IF child[c].stop \/ child[c].res # "ok" THEN "over" ELSE "running")
  /\ UNCHANGED <<consult, journal, traces, settled, clockUp, answer, faultsLeft>>

(* A cancelled task ends; the council settles the call it had out, which   *)
(* may fail.                                                               *)
TaskStops(c) ==
  /\ child[c].at = "running" /\ child[c].stop
  /\ Moves(c, "over")
  /\ \/ UNCHANGED settled
     \/ c = "work" /\ consult.called /\ settled = "none" /\ settled' \in {"within", "over"}
  /\ UNCHANGED <<consult, journal, traces, clockUp, answer, faultsLeft>>

Working == child.work.at = "running" /\ ~child.work.stop

CallProvider ==
  /\ Working /\ consult.started /\ ~consult.called
  /\ consult' = [consult EXCEPT !.called = TRUE]
  /\ UNCHANGED <<child, journal, traces, settled, clockUp, answer, faultsLeft>>

SettleCall ==
  /\ Working /\ consult.called /\ settled = "none"
  /\ settled' \in {"within", "over"}
  /\ UNCHANGED <<consult, child, journal, traces, clockUp, answer, faultsLeft>>

\* set-up or council end, with a result or an exception
WorkEnds ==
  /\ Working
  /\ \/ Moves("work", "returned")
     \/ child' = [child EXCEPT !.work.at = "over", !.work.res = "failed"]
  /\ UNCHANGED <<consult, journal, traces, settled, clockUp, answer, faultsLeft>>

-----------------------------------------------------------------------------
(* The transaction *)

Guarding == consult.phase \in {"preflight", "generation", "closing"}

(* Why the guarded work is given up: a client's cancellation, the          *)
(* deadline, a failed heartbeat loop, or its own error.                    *)
GivenUpFor(e) ==
  \/ e = "cancelled" /\ consult.cancelled
  \/ e = "deadline" /\ clockUp
  \/ consult.phase # "closing" /\ child.beat.at = "over" /\ e = child.beat.res
  \/ /\ consult.phase # "closing" /\ child.work.at = "over" /\ child.beat.at # "over"
     /\ e = child.work.res

GiveUp(e) ==
  /\ Guarding /\ e # "ok" /\ GivenUpFor(e)
  /\ consult' = [consult EXCEPT !.phase = "unwinding", !.error = e]
  /\ child' = [c \in DOMAIN child |->
                 [child[c] EXCEPT !.stop = child[c].at \notin {"over", "returned"}]]
  /\ UNCHANGED <<journal, traces, settled, clockUp, answer, faultsLeft>>

\* Deliberately wrong: nobody waits for the thread of a cancelled task
ChildrenOverSoon ==
  child.work.at \in {"over", "returned", "writing"} /\ child.beat.at \in {"over", "writing"}

ChildrenOver == child.work.at \in {"over", "returned"} /\ child.beat.at = "over"

\* the error that is handled carries what the council settled
CostIsOnTheError == child.work.at = "over" /\ (child.work.stop \/ child.work.res = consult.error)

(* The finally of _run_with_heartbeats has waited for both tasks. A        *)
(* cancellation that came meanwhile replaces the error; the cost that the  *)
(* work settled is taken over if it was cancelled or raised the error.     *)
Unwound ==
  /\ consult.phase = "unwinding" /\ ChildrenOver
  /\ consult' = [consult EXCEPT
       !.phase = "handling",
       !.error = IF consult.cancelled THEN "cancelled" ELSE @,
       !.observed = IF CostIsOnTheError THEN settled ELSE @]
  /\ UNCHANGED <<child, journal, traces, settled, clockUp, answer, faultsLeft>>

(* The work returned: the loop is stopped and waited for, its error lost.  *)
CloseWork ==
  /\ consult.phase \in {"preflight", "generation"}
  /\ child.work.at = "returned" /\ child.beat.at # "over"
  /\ consult' = [consult EXCEPT !.phase = "closing"]
  /\ child' = [child EXCEPT !.beat.stop = TRUE]
  /\ UNCHANGED <<journal, traces, settled, clockUp, answer, faultsLeft>>

Fails(e) == [consult EXCEPT !.phase = "handling",
                            !.error = IF consult.cancelled THEN "cancelled" ELSE e]

(* The heartbeat that precedes the council; then provider work may start.  *)
BeginGeneration ==
  /\ consult.phase = "closing" /\ ~consult.started /\ ChildrenOver
  /\ \E res \in WriteResults :
       /\ AppendEvent(Heartbeat("none"), res)
       /\ IF res = "ok" /\ ~consult.cancelled
            THEN /\ consult' = [consult EXCEPT !.phase = "generation", !.started = TRUE]
                 /\ child' = Begun
            ELSE consult' = Fails(res) /\ UNCHANGED child
  /\ UNCHANGED <<traces, settled, clockUp, answer>>

(* _finalize_result, whose thread a cancellation waits for to its end.     *)
BeginFinalize ==
  /\ consult.phase = "closing" /\ consult.started /\ ChildrenOver /\ ~consult.cancelled
  /\ consult' = [consult EXCEPT !.phase = IF settled = "over" THEN "trace" ELSE "final_beat",
                                !.observed = settled]
  /\ UNCHANGED <<child, journal, traces, settled, clockUp, answer, faultsLeft>>

FinalBeat ==
  /\ consult.phase = "final_beat"
  /\ \E res \in WriteResults :
       /\ AppendEvent(Heartbeat(consult.observed), res)
       /\ consult' = IF res = "ok" THEN [consult EXCEPT !.phase = "trace"] ELSE Fails(res)
  /\ UNCHANGED <<child, traces, settled, clockUp, answer>>

\* Deliberately wrong: a trace that cannot be written is passed over
RecordTraceBestEffort ==
  /\ consult.phase = "trace"
  /\ consult' = [consult EXCEPT !.phase = "finish", !.traced = TRUE]
  /\ traces' \in {traces, traces \cup {"result"}}
  /\ UNCHANGED <<child, journal, settled, clockUp, answer, faultsLeft>>

RecordTrace ==
  /\ consult.phase = "trace"
  /\ \/ /\ ~clockUp
        /\ traces' = traces \cup {"result"}
        /\ consult' = [consult EXCEPT !.phase = "finish", !.traced = TRUE]
        /\ UNCHANGED faultsLeft
     \/ clockUp /\ consult' = Fails("trace_lock") /\ UNCHANGED <<traces, faultsLeft>>
     \/ StorageFault /\ consult' \in {Fails("trace_lock"), Fails("trace_io")} /\ UNCHANGED traces
  /\ UNCHANGED <<child, journal, settled, clockUp, answer>>

\* a completed synthesis within its bound completes the run, another one fails it
Endings ==
  {Final("failed", IF consult.observed = "over" THEN "cost_bound" ELSE "incomplete",
         consult.observed)}
  \cup IF consult.observed = "over" THEN {}
       ELSE {Final("completed", "consult_completed", consult.observed)}

FinishRun ==
  /\ consult.phase = "finish"
  /\ \E event \in Endings, res \in WriteResults :
       /\ AppendEvent(event, res)
       /\ IF res = "ok" THEN Answered("payload", FALSE)
                        ELSE consult' = Fails(res) /\ UNCHANGED answer
  /\ UNCHANGED <<child, traces, settled, clockUp>>

-----------------------------------------------------------------------------
(* The except clauses *)

\* the failed trace is best effort
FailureTraced == traces' \in {traces, traces \cup {"failure"}}

(* _settle_elapsed_limit                                                   *)
SettleElapsed ==
  /\ consult.phase = "handling" /\ consult.error \in {"elapsed", "deadline"}
  /\ FailureTraced
  /\ \E res \in WriteResults :
       /\ AppendEvent(ElapsedStop(consult.observed), res)
       /\ IF res = "transition" THEN AnsweredAfterWait("transition", FALSE)
                                ELSE AnsweredAfterWait("elapsed", ~consult.started)
  /\ UNCHANGED <<child, settled, clockUp>>

\* Deliberately wrong: contention is retryable, whenever it happens
HandleContention ==
  /\ consult.phase = "handling" /\ consult.error \in {"lock", "torn"}
  /\ Answered("storage", consult.error = "lock")
  /\ UNCHANGED <<child, journal, traces, settled, clockUp, faultsLeft>>

(* _public_lifecycle_storage_error                                         *)
HandleStorage ==
  /\ consult.phase = "handling" /\ consult.error \in {"lock", "torn"}
  /\ Answered("storage", consult.error = "lock" /\ ~consult.started)
  /\ UNCHANGED <<child, journal, traces, settled, clockUp, faultsLeft>>

(* _settle_trace_lock_timeout and _settle_trace_storage_error              *)
HandleTraceError ==
  /\ consult.phase = "handling" /\ consult.error \in {"trace_lock", "trace_io"}
  /\ \E res \in WriteResults :
       /\ AppendEvent(IF consult.error = "trace_io"
                        THEN Final("failed", "storage_io_error", consult.observed)
                        ELSE IF clockUp THEN ElapsedStop(consult.observed)
                                        ELSE Final("failed", "storage_lock_timeout", "none"),
                      res)
       /\ AnsweredAfterWait(IF res = "transition" THEN "transition" ELSE "storage", FALSE)
  /\ UNCHANGED <<child, traces, settled, clockUp>>

\* Deliberately wrong: a run whose work began is left for somebody else to end
HandleFailureEarly ==
  /\ consult.phase = "handling" /\ consult.error \in {"cancelled", "failed", "transition"}
  /\ \/ /\ consult.traced \/ consult.started
        /\ AnsweredAfterWait(consult.error, FALSE)
        /\ UNCHANGED <<journal, traces, faultsLeft>>
     \/ /\ ~consult.started
        /\ \E res \in WriteResults :
             AppendEvent(Final("failed", consult.error, consult.observed), res)
        /\ FailureTraced
        /\ AnsweredAfterWait(consult.error, FALSE)
  /\ UNCHANGED <<child, settled, clockUp>>

(* _finish_exception, of a cancellation or of any other exception. An      *)
(* elapsed ceiling it finds is settled next; what it cannot write is       *)
(* passed over; a run that has ended already is an error of its own.       *)
HandleFailure ==
  /\ consult.phase = "handling" /\ consult.error \in {"cancelled", "failed", "transition"}
  /\ \/ /\ consult.traced
        /\ AnsweredAfterWait(consult.error, FALSE)
        /\ UNCHANGED <<journal, traces, faultsLeft>>
     \/ /\ ~consult.traced
        /\ \E res \in WriteResults :
             /\ AppendEvent(Final(IF consult.error = "cancelled" THEN "cancelled" ELSE "failed",
                                  consult.error, consult.observed), res)
             /\ CASE res = "elapsed" ->
                       /\ consult' = [consult EXCEPT !.error = "elapsed"]
                       /\ UNCHANGED <<answer, traces>>
                  [] res = "transition" ->
                       AnsweredAfterWait("transition", FALSE) /\ UNCHANGED traces
                  [] OTHER -> AnsweredAfterWait(consult.error, FALSE) /\ FailureTraced
  /\ UNCHANGED <<child, settled, clockUp>>

-----------------------------------------------------------------------------
Cancel ==
  /\ consult.phase \notin {"idle", "answered"} /\ ~consult.cancelled
  /\ consult' = [consult EXCEPT !.cancelled = TRUE]
  /\ UNCHANGED <<child, journal, traces, settled, clockUp, answer, faultsLeft>>

TimeUp ==
  /\ ~clockUp /\ consult.phase # "idle"
  /\ clockUp' = TRUE
  /\ UNCHANGED <<consult, child, journal, traces, settled, answer, faultsLeft>>

TransactionStep ==
  \/ \E e \in ConsultErrors : GiveUp(e)
  \/ Unwound \/ CloseWork \/ BeginGeneration
  \/ BeginFinalize \/ FinalBeat \/ RecordTrace \/ FinishRun
  \/ SettleElapsed \/ HandleStorage \/ HandleTraceError \/ HandleFailure

TaskStep(c) == ThreadWrites(c) \/ TaskResumes(c) \/ TaskStops(c)

ConsultNext ==
  \/ StartConsult \/ TransactionStep \/ Cancel \/ TimeUp
  \/ \E c \in DOMAIN child : TaskStep(c) \/ BeginWrite(c)
  \/ CallProvider \/ SettleCall \/ WorkEnds

ConsultSpec == ConsultInit /\ [][ConsultNext]_consultVars

(* The event loop and its threads run, and the ceiling is reached. Nothing *)
(* makes set-up or council end by themselves.                              *)
ConsultFairness ==
  /\ WF_consultVars(TransactionStep)
  /\ \A c \in {"work", "beat"} : WF_consultVars(TaskStep(c))
  /\ WF_consultVars(TimeUp)

ConsultFairSpec == ConsultSpec /\ ConsultFairness

-----------------------------------------------------------------------------
(* Properties *)

(* Every variable has its type.                                            *)
ConsultTypeOK ==
  /\ consult \in [phase : {"idle", "preflight", "generation", "closing", "unwinding", "final_beat",
                           "trace", "finish", "handling", "answered"},
                  error : ConsultErrors, started : BOOLEAN, called : BOOLEAN,
                  traced : BOOLEAN, observed : CostsSeen, cancelled : BOOLEAN]
  /\ child \in [{"work", "beat"} ->
                  [at : {"off", "running", "writing", "written", "returned", "over"},
                   res : WriteResults \cup {"failed"}, stop : BOOLEAN]]
  /\ journal.state \in {"none", "running"} \cup Ended /\ journal.cost \in CostsSeen
  /\ traces \subseteq {"result", "failure"}
  /\ settled \in CostsSeen /\ clockUp \in BOOLEAN /\ faultsLeft \in 0 .. MaxFaults
  /\ answer.kind \in {"none", "payload", "storage"} \cup ConsultErrors

(* Once the caller has its answer nothing of the run goes on: no task, no  *)
(* provider call and no thread that may still write (_run_with_heartbeats, *)
(* _run_sync_durable).                                                     *)
NoLateWriter ==
  consult.phase = "answered" => \A c \in DOMAIN child : child[c].at \in {"off", "over", "returned"}

(* A payload the caller got is a payload on disk: the trace has the        *)
(* result, and the lifecycle ended as the payload says and with its cost,  *)
(* though the client cancelled or the ceiling was reached meanwhile        *)
(* (_finalize_result and the shield around it).                            *)
PayloadIsDurable ==
  answer.kind = "payload" =>
    /\ "result" \in traces
    /\ journal.state \in {"completed", "failed"}
    /\ journal.cost = settled
    /\ journal.state = "completed" => settled # "over"

(* A caller is told to try again only if no provider was called, whichever *)
(* of its tasks failed first.                                              *)
RetryIsSafe == answer.retryable => ~consult.called

(* Unless the storage fails, a run that was started ends, in the journal   *)
(* and for its caller, whatever its work does.                             *)
ConsultEnds ==
  consult.phase = "preflight" ~>
    consult.phase = "answered" /\ (journal.state \in Ended \/ faultsLeft # MaxFaults)
=============================================================================
