------------------------ MODULE ExpertConversations ------------------------
(***************************************************************************)
(* One durable expert conversation: its row, turns, attempts, idempotency  *)
(* keys, contents and events in one SQLite database, the service coroutine *)
(* that runs each attempt, and the hosts that recover what a dead host     *)
(* left. Every store call is one immediate transaction, hence one action.  *)
(***************************************************************************)
EXTENDS Naturals, FiniteSets, FiniteSetsExt

CONSTANTS
  Keys,          \* idempotency keys an owner draws for continue and resume
  MaxTurns,      \* bounds.max_turns
  MaxCalls,      \* bounds.max_model_calls
  MaxWork,       \* the other bounds (tokens, time, cost) as one quantity
  MaxRetries,    \* MAX_ATTEMPTS_PER_TURN
  MaxAttempts    \* model bound: attempts ever reserved

ASSUME ConversationAssumption ==
  {MaxTurns, MaxCalls, MaxWork, MaxRetries, MaxAttempts} \subseteq Nat \ {0}

VARIABLES
  conv,           \* the conversations row
  turns,          \* turns[t], the row of turn t
  attempts,       \* attempts[a], the row of attempt a
  issued,         \* attempts reserved so far
  idem,           \* idem[k], the attempt recorded under the key, 0 for none
  history,        \* what the event log says last, and whether it says deleted
  content,        \* contents that can still be read
  lapsed,         \* attempts whose lease is over
  retentionOver,  \* the conversation's expires_at is past
  exec,           \* exec[a], the service coroutine of the attempt
  called          \* attempts whose executor has called its model

convVars == <<conv, turns, attempts, issued, idem, history, content, lapsed,
              retentionOver, exec, called>>
convStoreVars == <<conv, turns, attempts, issued, idem, history, content>>
convHostVars == <<lapsed, retentionOver, exec, called>>

Turns == 1..MaxTurns
Attempts == 1..MaxAttempts
CompletedTurns == {"completed", "input_required"}
ActiveTurns == {"running", "waiting_capacity", "interrupted"}
EndedTurns == {"cancelled", "budget_exhausted", "verifier_failed", "failed"}
TerminalConversations == {"closed", "expired", "cancelled", "failed"}
TurnStates == CompletedTurns \cup ActiveTurns \cup EndedTurns
ConversationStates == {"none", "open", "input_required", "waiting_capacity"}
                      \cup TerminalConversations

NewTurn(a) == [state |-> "running", count |-> 1, trace |-> a, calls |-> 0,
               work |-> 0, artifact |-> 0]
NoTurn == [NewTurn(0) EXCEPT !.state = "none", !.count = 0]
NoAttempt == [state |-> "none", turn |-> 0]

ConvInit ==
  /\ conv = [state |-> "none", version |-> 0, started |-> 0, completed |-> 0,
             calls |-> 0, work |-> 0, current |-> 0, pending |-> 0, deleted |-> FALSE]
  /\ turns = [t \in Turns |-> NoTurn]
  /\ attempts = [a \in Attempts |-> NoAttempt]
  /\ issued = 0
  /\ idem = [k \in Keys |-> 0]
  /\ history = [state |-> "none", version |-> 0, deleted |-> FALSE]
  /\ content = {}
  /\ lapsed = {}
  /\ retentionOver = FALSE
  /\ exec = [a \in Attempts |-> "none"]
  /\ called = {}

-----------------------------------------------------------------------------
(* Reservations *)

\* _event: the log entry of this transaction carries the new state and version
Logged == history' = [state |-> conv'.state, version |-> conv'.version,
                      deleted |-> history.deleted \/ conv'.deleted]

\* _require_dispatch_capacity
HasCapacity(newTurn) ==
  /\ newTurn => conv.started < MaxTurns
  /\ conv.calls < MaxCalls
  /\ conv.work < MaxWork

\* an attempt row, leased and running, and the coroutine that holds the lease
Lease(t) ==
  /\ issued < MaxAttempts
  /\ issued' = issued + 1
  /\ attempts' = [attempts EXCEPT ![issued + 1] = [state |-> "running", turn |-> t]]
  /\ exec' = [exec EXCEPT ![issued + 1] = "leased"]
  /\ UNCHANGED <<lapsed, retentionOver, called>>

(* reserve_start. A second start under its key finds the key and reads.    *)
ReserveStart ==
  /\ conv.state = "none"
  /\ Lease(1)
  /\ turns' = [turns EXCEPT ![1] = NewTurn(1)]
  /\ conv' = [conv EXCEPT !.state = "open", !.version = 1, !.started = 1, !.current = 1]
  /\ content' = {<<"snapshot", 0>>, <<"request", 1>>}
  /\ Logged
  /\ UNCHANGED idem

\* Deliberately wrong: a turn is admitted while another one runs
ReserveContinueBusy(k, expected, input) ==
  /\ conv.state = "open" /\ idem[k] = 0 /\ ~retentionOver /\ ~conv.deleted
  /\ expected = conv.version /\ input = 0
  /\ HasCapacity(TRUE)
  /\ LET t == conv.started + 1 IN
       /\ Lease(t)
       /\ turns' = [turns EXCEPT ![t] = NewTurn(issued + 1)]
       /\ conv' = [conv EXCEPT !.version = @ + 1, !.started = t, !.current = t]
       /\ content' = content \cup {<<"request", t>>}
  /\ idem' = [idem EXCEPT ![k] = issued + 1]
  /\ Logged

(* reserve_continue. expected_version is the version the owner has read;   *)
(* another one is refused, and so is every guard below, without a change.  *)
ReserveContinue(k, expected, input) ==
  /\ conv.state # "none"
  /\ idem[k] = 0
  /\ ~retentionOver
  /\ ~conv.deleted
  /\ expected = conv.version
  /\ conv.current = 0
  /\ \/ conv.state = "open" /\ input = 0
     \/ conv.state = "input_required" /\ input = conv.pending
  /\ HasCapacity(TRUE)
  /\ LET t == conv.started + 1 IN
       /\ Lease(t)
       /\ turns' = [turns EXCEPT ![t] = NewTurn(issued + 1)]
       /\ conv' = [conv EXCEPT !.state = "open", !.version = @ + 1, !.started = t,
                               !.current = t, !.pending = 0]
       /\ content' = content \cup {<<"request", t>>}
  /\ idem' = [idem EXCEPT ![k] = issued + 1]
  /\ Logged

(* reserve_resume: a new attempt for the same turn.                        *)
ReserveResume(k, expected) ==
  /\ idem[k] = 0
  /\ conv.current # 0
  /\ ~retentionOver
  /\ expected = conv.version
  /\ turns[conv.current].state \in {"waiting_capacity", "interrupted"}
  /\ turns[conv.current].count < MaxRetries
  /\ ~conv.deleted
  /\ HasCapacity(FALSE)
  /\ <<"request", conv.current>> \in content
  /\ Lease(conv.current)
  /\ turns' = [turns EXCEPT ![conv.current].state = "running",
                            ![conv.current].count = @ + 1,
                            ![conv.current].trace = issued + 1]
  /\ conv' = [conv EXCEPT !.state = "open", !.version = @ + 1]
  /\ idem' = [idem EXCEPT ![k] = issued + 1]
  /\ Logged
  /\ UNCHANGED content

-----------------------------------------------------------------------------
(* Results *)

Usage(c, w) == [calls |-> c, work |-> w]

\* the exact attempt still owns the turn
Owns(a) ==
  LET t == attempts[a].turn IN
    /\ attempts[a].state = "running"
    /\ turns[t].state = "running"
    /\ conv.current = t
    /\ turns[t].trace = a

\* _usage_within_bounds
WithinBounds(state, u) ==
  /\ state = "waiting_capacity" => u = Usage(0, 0)
  /\ conv.calls + u.calls <= MaxCalls
  /\ conv.work + u.work <= MaxWork

Charge(row, u) == [row EXCEPT !.calls = @ + u.calls, !.work = @ + u.work]

\* Deliberately wrong: a turn that ends badly passes its state on
ProjectionCopiesState(state, t) ==
  [state |-> IF state = "completed" THEN "open" ELSE state,
   current |-> IF state = "waiting_capacity" THEN t ELSE 0,
   pending |-> IF state = "input_required" THEN t ELSE 0]

\* _projection_for_result: state, current turn and pending input request
Projection(state, t) ==
  CASE state = "completed" -> [state |-> "open", current |-> 0, pending |-> 0]
    [] state = "input_required" -> [state |-> "input_required", current |-> 0, pending |-> t]
    [] state = "waiting_capacity" -> [state |-> "waiting_capacity", current |-> t, pending |-> 0]
    [] state = "cancelled" -> [state |-> "cancelled", current |-> 0, pending |-> 0]
    [] OTHER -> [state |-> "failed", current |-> 0, pending |-> 0]

\* finalize_turn past its checks
ApplyResult(a, result, u) ==
  LET t == attempts[a].turn
      state == IF WithinBounds(result, u) THEN result ELSE "verifier_failed"
      kept == state \in CompletedTurns
      seen == Projection(state, t)
  IN /\ turns' = [turns EXCEPT ![t] =
          [Charge(@, u) EXCEPT !.state = state, !.artifact = IF kept THEN a ELSE 0]]
     /\ attempts' = [attempts EXCEPT ![a].state = state]
     /\ conv' = [Charge(conv, u) EXCEPT
          !.state = seen.state, !.version = @ + 1, !.current = seen.current,
          !.pending = seen.pending, !.completed = IF kept THEN @ + 1 ELSE @]
     /\ content' = IF kept THEN content \cup {<<"artifact", t>>} ELSE content
     /\ Logged

\* Deliberately wrong: an interrupted attempt is taken to have done nothing
InterruptUncharged(a) ==
  /\ turns' = [turns EXCEPT ![attempts[a].turn].state = "interrupted"]
  /\ attempts' = [attempts EXCEPT ![a].state = "interrupted"]
  /\ conv' = [conv EXCEPT !.state = "waiting_capacity", !.version = @ + 1]
  /\ Logged
  /\ UNCHANGED content

\* Deliberately wrong: recovery does not bump the version
InterruptUnversioned(a) ==
  LET t == attempts[a].turn IN
    /\ turns' = [turns EXCEPT ![t] = [Charge(@, Usage(1, 0)) EXCEPT !.state = "interrupted"]]
    /\ attempts' = [attempts EXCEPT ![a].state = "interrupted"]
    /\ conv' = [Charge(conv, Usage(1, 0)) EXCEPT !.state = "waiting_capacity"]
    /\ Logged
    /\ UNCHANGED content

(* _interrupt_expired_attempt: one call is charged, the model may have run *)
InterruptExpired(a) ==
  LET t == attempts[a].turn IN
    /\ turns' = [turns EXCEPT ![t] = [Charge(@, Usage(1, 0)) EXCEPT !.state = "interrupted"]]
    /\ attempts' = [attempts EXCEPT ![a].state = "interrupted"]
    /\ conv' = [Charge(conv, Usage(1, 0)) EXCEPT !.state = "waiting_capacity", !.version = @ + 1]
    /\ Logged
    /\ UNCHANGED content

\* Deliberately wrong: whichever attempt of a running turn reports first wins
FinalizeAnyAttempt(a, result, u) ==
  /\ IF turns[attempts[a].turn].state = "running" /\ conv.current = attempts[a].turn
       THEN ApplyResult(a, result, u)
       ELSE UNCHANGED <<conv, turns, attempts, history, content>>
  /\ UNCHANGED <<issued, idem>>

\* finalize_turn
FinalizeTurn(a, result, u) ==
  /\ \/ ~Owns(a) /\ UNCHANGED <<conv, turns, attempts, history, content>>
     \/ Owns(a) /\ a \in lapsed /\ InterruptExpired(a)
     \/ Owns(a) /\ a \notin lapsed /\ ApplyResult(a, result, u)
  /\ UNCHANGED <<issued, idem>>

-----------------------------------------------------------------------------
(* The service coroutine of an attempt: _dispatch *)

(* The executor is built: from here a failure is charged as a call.        *)
InvokeExecutor(a) ==
  /\ exec[a] = "leased"
  /\ exec' = [exec EXCEPT ![a] = "invoked"]
  /\ UNCHANGED <<convStoreVars, lapsed, retentionOver, called>>

\* the executor sends its one request to the model
CallModel(a) ==
  /\ exec[a] = "invoked" /\ a \notin called
  /\ called' = called \cup {a}
  /\ UNCHANGED <<convStoreVars, lapsed, retentionOver, exec>>

Ends(a, from) == exec[a] = from /\ exec' = [exec EXCEPT ![a] = "over"]

Work == 0..(MaxWork + 1)

(* A result of the executor: capacity is missing or the prompt too large   *)
(* before the call, or what the call returned.                             *)
ReportResult(a) ==
  /\ Ends(a, "invoked")
  /\ \/ a \notin called /\ \E w \in {0, 1} : FinalizeTurn(a, "waiting_capacity", Usage(0, w))
     \/ a \notin called /\ FinalizeTurn(a, "budget_exhausted", Usage(0, 0))
     \/ a \in called /\ \E r \in CompletedTurns \cup {"verifier_failed"}, w \in Work :
          FinalizeTurn(a, r, Usage(1, w))
  /\ UNCHANGED <<lapsed, retentionOver, called>>

(* asyncio.timeout, an exception, or the cancelled request, before and     *)
(* after the executor is invoked.                                          *)
ReportFailure(a) ==
  /\ \E n \in {0, 1}, r \in {"budget_exhausted", "failed", "cancelled"} :
       /\ Ends(a, IF n = 1 THEN "invoked" ELSE "leased")
       /\ FinalizeTurn(a, r, Usage(n, IF r = "budget_exhausted" THEN MaxWork - conv.work ELSE 0))
  /\ UNCHANGED <<lapsed, retentionOver, called>>

(* The host dies, or loses the lease with the request that asked for it.   *)
HostDies(a) ==
  /\ exec[a] \in {"leased", "invoked"}
  /\ exec' = [exec EXCEPT ![a] = "dead"]
  /\ UNCHANGED <<convStoreVars, lapsed, retentionOver, called>>

-----------------------------------------------------------------------------
(* Owners, hosts and time *)

\* close_conversation
CloseConversation(expected) ==
  /\ expected = conv.version
  /\ conv.state \in {"open", "input_required", "waiting_capacity"}
  /\ conv.current = 0
  /\ conv' = [conv EXCEPT !.state = "closed", !.version = @ + 1, !.pending = 0]
  /\ Logged
  /\ UNCHANGED <<turns, attempts, issued, idem, content, convHostVars>>

\* delete_content
DeleteContent(expected) ==
  /\ conv.state # "none"
  /\ ~conv.deleted
  /\ expected = conv.version
  /\ conv.current = 0
  /\ content' = {}
  /\ conv' = [conv EXCEPT !.state = "closed", !.version = @ + 1, !.pending = 0, !.deleted = TRUE]
  /\ Logged
  /\ UNCHANGED <<turns, attempts, issued, idem, convHostVars>>

(* recover_expired_leases: at host start, on every read, before expiry.    *)
RecoverExpiredLeases ==
  /\ \E a \in lapsed :
       /\ attempts[a].state = "running"
       /\ turns[attempts[a].turn].state = "running"
       /\ conv.current = attempts[a].turn
       /\ InterruptExpired(a)
  /\ UNCHANGED <<issued, idem, convHostVars>>

\* Deliberately wrong: the turn that waited is not cancelled
ExpireKeepingTurn ==
  /\ retentionOver /\ conv.state # "none" /\ ~conv.deleted
  /\ conv.current # 0 => turns[conv.current].state # "running"
  /\ content' = {}
  /\ conv' = [conv EXCEPT !.state = "expired", !.version = @ + 1, !.current = 0,
                          !.pending = 0, !.deleted = TRUE]
  /\ Logged
  /\ UNCHANGED <<turns, attempts, issued, idem, convHostVars>>

\* Deliberately wrong: a conversation that waits for capacity is not due
ExpireIdleOnly ==
  /\ retentionOver /\ conv.state # "none" /\ ~conv.deleted
  /\ conv.current = 0
  /\ content' = {}
  /\ conv' = [conv EXCEPT !.state = "expired", !.version = @ + 1, !.pending = 0, !.deleted = TRUE]
  /\ Logged
  /\ UNCHANGED <<turns, attempts, issued, idem, convHostVars>>

(* expire_due, after its recovery: a running turn is left alone.           *)
ExpireDue ==
  /\ retentionOver
  /\ conv.state # "none"
  /\ ~conv.deleted
  /\ conv.current # 0 => turns[conv.current].state # "running"
  /\ turns' = [t \in Turns |->
       IF t = conv.current THEN [turns[t] EXCEPT !.state = "cancelled"] ELSE turns[t]]
  /\ content' = {}
  /\ conv' = [conv EXCEPT !.state = "expired", !.version = @ + 1, !.current = 0,
                          !.pending = 0, !.deleted = TRUE]
  /\ Logged
  /\ UNCHANGED <<attempts, issued, idem, convHostVars>>

\* _derive_projection: the row as the events and turns have it
UsedTurns == {t \in Turns : turns[t].state # "none"}
LatestTurn == Cardinality(UsedTurns)

DerivedProjection ==
  [state |-> history.state,
   version |-> history.version,
   started |-> LatestTurn,
   completed |-> Cardinality({t \in Turns : turns[t].state \in CompletedTurns}),
   calls |-> MapThenSumSet(LAMBDA t : turns[t].calls, UsedTurns),
   work |-> MapThenSumSet(LAMBDA t : turns[t].work, UsedTurns),
   current |-> IF \E t \in {LatestTurn} \cap Turns : turns[t].state \in ActiveTurns
                 THEN LatestTurn ELSE 0,
   pending |-> IF \E t \in {LatestTurn} \cap Turns : turns[t].state = "input_required"
                 THEN LatestTurn ELSE 0,
   deleted |-> history.deleted]

\* rebuild_projection
RebuildProjection ==
  /\ conv.state # "none"
  /\ conv' = DerivedProjection
  /\ UNCHANGED <<turns, attempts, issued, idem, history, content, convHostVars>>

LeaseLapses(a) ==
  /\ attempts[a].state # "none" /\ a \notin lapsed
  /\ lapsed' = lapsed \cup {a}
  /\ UNCHANGED <<convStoreVars, retentionOver, exec, called>>

RetentionEnds ==
  /\ conv.state # "none" /\ ~retentionOver
  /\ retentionOver' = TRUE
  /\ UNCHANGED <<convStoreVars, lapsed, exec, called>>

-----------------------------------------------------------------------------
ConvNext ==
  \/ ReserveStart
  \/ \E k \in Keys, v \in {conv.version}, input \in {0, conv.pending} :
       ReserveContinue(k, v, input)
  \/ \E k \in Keys, v \in {conv.version} : ReserveResume(k, v)
  \/ \E a \in Attempts :
       InvokeExecutor(a) \/ CallModel(a) \/ ReportResult(a) \/ ReportFailure(a)
       \/ HostDies(a) \/ LeaseLapses(a)
  \/ \E v \in {conv.version} : CloseConversation(v) \/ DeleteContent(v)
  \/ RecoverExpiredLeases
  \/ ExpireDue
  \/ RebuildProjection
  \/ RetentionEnds

(* Leases run out with the clock. A host that starts, and every read of    *)
(* the conversation, recovers leases and then expires what is due.         *)
ConvFairness ==
  /\ \A a \in Attempts : WF_convVars(LeaseLapses(a))
  /\ WF_convVars(RecoverExpiredLeases)
  /\ WF_convVars(ExpireDue)

ConvSpec == ConvInit /\ [][ConvNext]_convVars
ConvFairSpec == ConvSpec /\ ConvFairness

-----------------------------------------------------------------------------
(* Invariants *)

(* Type correctness of the store rows, the hosts and the clocks.           *)
ConvTypeOK ==
  /\ conv \in [state : ConversationStates, version : Nat, started : 0..MaxTurns,
                completed : Nat, calls : Nat, work : Nat, current : 0..MaxTurns,
                pending : 0..MaxTurns, deleted : BOOLEAN]
  /\ turns \in [Turns -> [state : TurnStates \cup {"none"}, count : Nat,
                          trace : 0..MaxAttempts, calls : Nat, work : Nat,
                          artifact : 0..MaxAttempts]]
  /\ attempts \in [Attempts -> [state : TurnStates \cup {"none"}, turn : 0..MaxTurns]]
  /\ issued \in 0..MaxAttempts
  /\ idem \in [Keys -> 0..MaxAttempts]
  /\ history \in [state : ConversationStates, version : Nat, deleted : BOOLEAN]
  /\ content \subseteq {"snapshot", "request", "artifact"} \X (0..MaxTurns)
  /\ lapsed \subseteq Attempts
  /\ retentionOver \in BOOLEAN
  /\ exec \in [Attempts -> {"none", "leased", "invoked", "over", "dead"}]
  /\ called \subseteq Attempts

(* One active turn per conversation: an attempt that is running is the     *)
(* last one reserved, of the latest turn, and a turn that runs has one.    *)
OneActiveTurn ==
  /\ \A a \in Attempts : attempts[a].state = "running" =>
       /\ a = issued
       /\ Owns(a)
       /\ attempts[a].turn = conv.started
  /\ \A t \in Turns : turns[t].state = "running" =>
       t = conv.current /\ attempts[turns[t].trace] = [state |-> "running", turn |-> t]

(* A result is only ever the work of the last attempt of its turn, however *)
(* late those before it report.                                            *)
ArtifactOfLastAttempt ==
  \A t \in Turns :
    /\ turns[t].artifact # 0 <=> turns[t].state \in CompletedTurns
    /\ turns[t].artifact # 0 =>
         /\ turns[t].artifact = turns[t].trace
         /\ \A a \in Attempts : attempts[a].turn = t => a <= turns[t].artifact

\* an attempt that called its model and ended, however, has cost a call
CallsAreCharged ==
  conv.calls >= Cardinality({a \in called : attempts[a].state # "running"})

\* over a bound a conversation takes no turn and no attempt again
BoundsEndTheConversation ==
  /\ conv.calls <= MaxCalls
  /\ conv.work > MaxWork => conv.state \in TerminalConversations /\ conv.current = 0

(* The bounds of a conversation are kept on its real usage: a call of an   *)
(* attempt that failed, was cancelled or lost its lease is charged like    *)
(* any other, so that no sequence of lost hosts and resumed turns gets     *)
(* more calls than the bound, and work over its bound is the last.         *)
UsageIsBounded == CallsAreCharged /\ BoundsEndTheConversation

(* The row is what events and turns say, but for the pending input.        *)
ProjectionAgrees ==
  conv.state # "none" => conv = [DerivedProjection EXCEPT !.pending = conv.pending]

(* The projection can be rebuilt from the event log and the turns, and a   *)
(* row the operations have written needs no repair.                        *)
ProjectionIsRebuildable == conv.state # "none" => conv = DerivedProjection

-----------------------------------------------------------------------------
(* Action and liveness properties *)

(* A version names one state of turns, attempts, contents and row: nothing *)
(* an owner can have read changes without the version.                     *)
EveryChangeIsVersioned ==
  [][<<turns, attempts, content, conv.state, conv.calls, conv.current>>'
       # <<turns, attempts, content, conv.state, conv.calls, conv.current>>
     => conv'.version = conv.version + 1]_convVars

(* Once the retention period is over the contents go and stay away: hosts  *)
(* that die with a turn running delay it, results that arrive late and     *)
(* turns that are resumed bring nothing back.                              *)
RetentionIsKept == retentionOver ~> [](conv.deleted /\ content = {})
=============================================================================
