---------------------- MODULE ConsultTransactionProofs ----------------------
(***************************************************************************)
(* A consult with any number of storage faults: when its caller has an     *)
(* answer nothing of it writes or calls a provider any more, a payload is  *)
(* on disk as the caller got it, and an answer that says "try again" was   *)
(* not paid for.                                                           *)
(***************************************************************************)
EXTENDS ConsultTransaction, TLAPS

Phases == {"idle", "preflight", "generation", "closing", "unwinding", "final_beat",
           "trace", "finish", "handling", "answered"}
Consults == [phase : Phases, error : ConsultErrors, started : BOOLEAN, called : BOOLEAN,
             traced : BOOLEAN, observed : CostsSeen, cancelled : BOOLEAN]
Positions == {"off", "running", "writing", "written", "returned", "over"}
ChildTasks == [at : Positions, res : WriteResults \cup {"failed"}, stop : BOOLEAN]
Reasons == ConsultErrors \cup {"elapsed_limit", "cost_bound", "consult_completed", "incomplete",
                               "storage_io_error", "storage_lock_timeout"}
Journals == [state : {"none", "running"} \cup Ended, reason : Reasons, cost : CostsSeen,
             torn : BOOLEAN]
Answers == [kind : {"none", "payload", "storage"} \cup ConsultErrors, retryable : BOOLEAN]
Events == [state : {"running"} \cup Ended, reason : Reasons, cost : CostsSeen, stop : BOOLEAN]

Typed ==
  /\ consult \in Consults
  /\ child \in [{"work", "beat"} -> ChildTasks]
  /\ journal \in Journals
  /\ traces \subseteq {"result", "failure"}
  /\ settled \in CostsSeen
  /\ clockUp \in BOOLEAN
  /\ answer \in Answers
  /\ faultsLeft \in 0 .. MaxFaults

(* Phases in which the transaction is alone: both tasks have been waited   *)
(* for, their threads with them.                                           *)
Alone == {"idle", "final_beat", "trace", "finish", "handling", "answered"}
Still == {"off", "over", "returned"}

QuietInv == consult.phase \in Alone => child["work"].at \in Still /\ child["beat"].at \in Still

(* A provider is called only once provider work may start, and the caller  *)
(* is told to try again only of a run that never came so far.              *)
RetryInv ==
  /\ consult.called => consult.started
  /\ consult.phase # "answered" => answer.kind = "none" /\ ~answer.retryable
  /\ answer.retryable => ~consult.started

(* The cost on the error, and the cost in the journal, is what has been    *)
(* settled or nothing; finalising, it is what has been settled.            *)
CostInv ==
  /\ consult.observed \in {"none", settled}
  /\ journal.cost \in {"none", settled}
  /\ consult.phase \in {"final_beat", "trace", "finish"} => consult.observed = settled
  /\ consult.phase = "finish" => "result" \in traces

(* A consult nobody started has started nothing.                           *)
IdleInv == consult.phase = "idle" => ~consult.started

ConsultInv == Typed /\ IdleInv /\ QuietInv /\ RetryInv /\ CostInv /\ PayloadIsDurable

-----------------------------------------------------------------------------
(* What one append does to the journal, however it ends.                   *)
LEMMA AppendFacts ==
  ASSUME ConsultAssumption, Typed, NEW event \in Events, NEW res \in WriteResults,
         AppendEvent(event, res)
  PROVE  /\ journal' \in Journals /\ faultsLeft' \in 0 .. MaxFaults
         /\ journal'.cost \in {journal.cost, event.cost}
         /\ res = "ok" /\ ~event.stop =>
              /\ journal'.cost = IF event.cost = "none" THEN journal.cost ELSE event.cost
              /\ journal'.state \in {"failed", event.state}
              /\ journal'.cost = "over" => journal'.state = "failed"
<1> USE DEF Typed, Journals, Events, ConsultAssumption
<1>1. CASE res = "lock" /\ StorageFault /\ UNCHANGED journal
  BY <1>1 DEF StorageFault
<1>2. CASE /\ res = "torn" /\ (UNCHANGED faultsLeft \/ StorageFault)
           /\ journal' = [journal EXCEPT !.torn = TRUE]
  <2>1. journal' \in Journals /\ journal'.cost = journal.cost
    BY <1>2
  <2>2. faultsLeft' \in 0 .. MaxFaults
    BY <1>2 DEF StorageFault
  <2> QED BY <1>2, <2>1, <2>2
<1>3. CASE /\ UNCHANGED <<journal, faultsLeft>>
           /\ res = IF event.stop /\ journal.reason = "elapsed_limit" THEN "ok" ELSE "transition"
  BY <1>3
<1>4. CASE journal' = Written(event) /\ UNCHANGED faultsLeft
  <2> DEFINE cost == IF event.cost = "none" THEN journal.cost ELSE event.cost
  <2>1. /\ journal'.cost = cost
        /\ journal' \in Journals
        /\ journal'.state \in {"failed", event.state}
        /\ cost = "over" => journal'.state = "failed"
    <3>1. CASE cost = "over"
      <4>1. journal' = [journal EXCEPT !.state = "failed", !.reason = "cost_bound", !.cost = cost,
                                       !.torn = clockUp]
        BY <1>4, <3>1 DEF Written
      <4> QED BY <4>1, <3>1 DEF Ended, Reasons, CostsSeen
    <3>2. CASE cost # "over" /\ (clockUp \/ event.stop)
      <4>1. journal' = [journal EXCEPT !.state = "failed", !.reason = "elapsed_limit", !.cost = cost]
        BY <1>4, <3>2 DEF Written
      <4> QED BY <4>1, <3>2 DEF Ended, Reasons, CostsSeen
    <3>3. CASE cost # "over" /\ ~(clockUp \/ event.stop)
      <4>1. journal' = [journal EXCEPT !.state = event.state, !.reason = event.reason, !.cost = cost]
        BY <1>4, <3>3 DEF Written
      <4> QED BY <4>1, <3>3 DEF Ended, Reasons, CostsSeen
    <3> QED BY <3>1, <3>2, <3>3
  <2> QED BY <1>4, <2>1
<1> QED BY <1>1, <1>2, <1>3, <1>4 DEF AppendEvent

(* The events the code writes.                                             *)
LEMMA EventsAreTyped ==
  /\ \A cost \in CostsSeen : Heartbeat(cost) \in Events /\ ElapsedStop(cost) \in Events
  /\ \A state \in Ended, reason \in Reasons, cost \in CostsSeen :
       Final(state, reason, cost) \in Events
BY DEF Heartbeat, ElapsedStop, Final, Events, Ended, Reasons, CostsSeen, ConsultErrors, WriteResults

(* A consult starts alone with the storage, with no cost seen and nothing  *)
(* called.                                                                 *)
LEMMA InitIsConsultInv == ASSUME ConsultAssumption, ConsultInit PROVE ConsultInv
<1> USE DEF ConsultInit, ConsultAssumption
<1>1. Typed
  <2>1. consult \in Consults
    BY DEF Consults, Phases, ConsultErrors, CostsSeen
  <2>2. child \in [{"work", "beat"} -> ChildTasks]
    <3>1. Resting \in ChildTasks
      BY DEF Resting, ChildTasks, Positions, WriteResults
    <3> QED BY <3>1
  <2>3. journal \in Journals /\ answer \in Answers
    BY DEF Journals, Answers, Reasons, ConsultErrors, CostsSeen
  <2>4. settled \in CostsSeen /\ faultsLeft \in 0 .. MaxFaults
    BY DEF CostsSeen
  <2>5. traces \subseteq {"result", "failure"} /\ clockUp \in BOOLEAN
    OBVIOUS
  <2> QED BY <2>1, <2>2, <2>3, <2>4, <2>5 DEF Typed
<1>2. QuietInv
  BY DEF QuietInv, Still, Resting
<1>3. RetryInv /\ CostInv /\ PayloadIsDurable /\ IdleInv
  BY DEF IdleInv, RetryInv, CostInv, PayloadIsDurable
<1> QED BY <1>1, <1>2, <1>3 DEF ConsultInv

-----------------------------------------------------------------------------
(* Steps beside the transaction: of its tasks, their threads and the       *)
(* provider calls. They are made only while it waits for the tasks.        *)
LEMMA BesideKeeps ==
  ASSUME ConsultInv, consult.phase \notin Alone,
         child' \in [{"work", "beat"} -> ChildTasks],
         journal' \in Journals, journal'.cost \in {"none", settled'},
         settled' \in CostsSeen, settled' = settled \/ settled = "none",
         faultsLeft' \in 0 .. MaxFaults,
         UNCHANGED <<consult, traces, clockUp, answer>>
  PROVE  ConsultInv'
<1> USE DEF ConsultInv
<1>1. Typed'
  BY DEF Typed
<1>2. QuietInv' /\ RetryInv' /\ IdleInv'
  BY DEF QuietInv, RetryInv, IdleInv
<1>3. CostInv'
  BY DEF CostInv, Alone
<1>4. PayloadIsDurable'
  BY DEF RetryInv, PayloadIsDurable, Alone
<1> QED BY <1>1, <1>2, <1>3, <1>4

(* A task that stands somewhere is not alone with the transaction.         *)
LEMMA BusyIsNotAlone ==
  ASSUME ConsultInv, NEW c \in {"work", "beat"}, child[c].at \in {"running", "writing", "written"}
  PROVE  consult.phase \notin Alone
BY DEF ConsultInv, QuietInv, Still

(* The steps of the two tasks up to their write: they move while the       *)
(* transaction waits for them, never afterwards.                           *)
LEMMA TaskKeeps ==
  ASSUME ConsultAssumption, ConsultInv, NEW c \in {"work", "beat"}, TaskStep(c) \/ BeginWrite(c)
  PROVE  ConsultInv'
<1>1. Typed /\ journal.cost \in {"none", settled}
  BY DEF ConsultInv, CostInv
<1>2. CASE BeginWrite(c)
  <2>1. child' \in [{"work", "beat"} -> ChildTasks]
    BY <1>1, <1>2 DEF BeginWrite, Moves, Typed, ChildTasks, Positions
  <2> QED BY <1>1, <1>2, <2>1, BusyIsNotAlone, BesideKeeps DEF BeginWrite, Typed
<1>3. CASE ThreadWrites(c)
  <2>1. PICK res \in WriteResults :
          /\ AppendEvent(Heartbeat("none"), res)
          /\ child' = [child EXCEPT ![c].at = "written", ![c].res = res]
    BY <1>3 DEF ThreadWrites
  <2>2. child' \in [{"work", "beat"} -> ChildTasks]
    <3> DEFINE k == [child EXCEPT ![c].at = "written"]
    <3>1. k \in [{"work", "beat"} -> ChildTasks]
      BY <1>1 DEF Typed, ChildTasks, Positions
    <3>2. child' = [k EXCEPT ![c].res = res]
      BY <2>1
    <3> HIDE DEF k
    <3> QED BY <3>1, <3>2 DEF ChildTasks
  <2>3. Heartbeat("none") \in Events /\ Heartbeat("none").cost = "none"
    BY EventsAreTyped DEF Heartbeat, CostsSeen
  <2>4. /\ journal' \in Journals /\ faultsLeft' \in 0 .. MaxFaults
        /\ journal'.cost \in {journal.cost, "none"}
    BY <1>1, <2>1, <2>3, AppendFacts
  <2> QED BY <1>1, <1>3, <2>2, <2>4, BusyIsNotAlone, BesideKeeps DEF ThreadWrites, Typed
<1>4. CASE TaskResumes(c)
  <2>1. child' \in [{"work", "beat"} -> ChildTasks]
    BY <1>1, <1>4 DEF TaskResumes, Moves, Typed, ChildTasks, Positions
  <2> QED BY <1>1, <1>4, <2>1, BusyIsNotAlone, BesideKeeps DEF TaskResumes, Typed
<1>5. CASE TaskStops(c)
  <2>1. child' \in [{"work", "beat"} -> ChildTasks]
    BY <1>1, <1>5 DEF TaskStops, Moves, Typed, ChildTasks, Positions
  <2>2. settled' \in CostsSeen /\ (settled' = settled \/ settled = "none")
    BY <1>1, <1>5 DEF TaskStops, Typed, CostsSeen
  <2> QED BY <1>1, <1>5, <2>1, <2>2, BusyIsNotAlone, BesideKeeps DEF TaskStops, Typed
<1> QED BY <1>2, <1>3, <1>4, <1>5 DEF TaskStep

(* The council calls a provider, settles the call, ends.                   *)
LEMMA WorkKeeps ==
  ASSUME ConsultAssumption, ConsultInv, CallProvider \/ SettleCall \/ WorkEnds
  PROVE  ConsultInv'
<1>1. /\ Typed /\ journal.cost \in {"none", settled}
      /\ child["work"].at = "running" /\ consult.phase \notin Alone
  BY BusyIsNotAlone
     DEF ConsultInv, CostInv, Typed, CallProvider, SettleCall, WorkEnds, Working
<1>2. CASE CallProvider
  <2>1. consult' = [consult EXCEPT !.called = TRUE] /\ consult.started
        /\ UNCHANGED <<child, journal, traces, settled, clockUp, answer, faultsLeft>>
    BY <1>2 DEF CallProvider
  <2>2. Typed'
    BY <1>1, <2>1 DEF Typed, Consults
  <2> QED BY <1>1, <2>1, <2>2
      DEF ConsultInv, QuietInv, RetryInv, CostInv, PayloadIsDurable, IdleInv, Typed, Consults, Alone
<1>3. CASE SettleCall
  <2>1. settled' \in CostsSeen /\ settled = "none"
    BY <1>3 DEF SettleCall, CostsSeen
  <2> QED BY <1>1, <1>3, <2>1, BesideKeeps DEF SettleCall, Typed
<1>4. CASE WorkEnds
  <2>1. child' \in [{"work", "beat"} -> ChildTasks]
    <3>1. CASE Moves("work", "returned")
      BY <1>1, <3>1 DEF Moves, Typed, ChildTasks, Positions
    <3>2. CASE child' = [child EXCEPT !["work"].at = "over", !["work"].res = "failed"]
      <4> DEFINE k == [child EXCEPT !["work"].at = "over"]
      <4>1. k \in [{"work", "beat"} -> ChildTasks]
        BY <1>1 DEF Typed, ChildTasks, Positions
      <4>2. child' = [k EXCEPT !["work"].res = "failed"]
        BY <3>2
      <4> HIDE DEF k
      <4> QED BY <4>1, <4>2 DEF ChildTasks
    <3> QED BY <1>4, <3>1, <3>2 DEF WorkEnds
  <2> QED BY <1>1, <1>4, <2>1, BesideKeeps DEF WorkEnds, Typed
<1> QED BY <1>2, <1>3, <1>4

-----------------------------------------------------------------------------
(* Steps of the transaction before it has an answer: the journal has the   *)
(* cost it had or what is settled, the caller has nothing yet.             *)
LEMMA OnTheWayKeeps ==
  ASSUME ConsultInv,
         consult.phase # "answered", consult' \in Consults, consult'.phase \notin {"idle", "answered"},
         child' \in [{"work", "beat"} -> ChildTasks],
         consult'.phase \in Alone => child'["work"].at \in Still /\ child'["beat"].at \in Still,
         consult'.called => consult'.started,
         journal' \in Journals, journal'.cost \in {"none", settled},
         consult'.observed \in {"none", settled},
         consult'.phase \in {"final_beat", "trace", "finish"} => consult'.observed = settled,
         consult'.phase = "finish" => "result" \in traces',
         traces' \subseteq {"result", "failure"},
         faultsLeft' \in 0 .. MaxFaults,
         UNCHANGED <<settled, clockUp, answer>>
  PROVE  ConsultInv'
<1> USE DEF ConsultInv
<1>1. Typed'
  BY DEF Typed
<1>2. QuietInv' /\ IdleInv'
  BY DEF QuietInv, IdleInv
<1>3. RetryInv'
  BY DEF RetryInv
<1>4. CostInv'
  BY DEF CostInv
<1>5. PayloadIsDurable'
  BY DEF RetryInv, PayloadIsDurable
<1> QED BY <1>1, <1>2, <1>3, <1>4, <1>5

(* A step that gives the caller its answer.                                *)
LEMMA AnswerKeeps ==
  ASSUME ConsultInv, consult.phase \in Alone, consult.phase # "answered",
         NEW kind \in {"payload", "storage"} \cup ConsultErrors, NEW retryable \in BOOLEAN,
         Answered(kind, retryable),
         retryable => ~consult.started,
         journal' \in Journals, journal'.cost \in {"none", settled},
         kind = "payload" =>
           /\ "result" \in traces' /\ journal'.state \in {"completed", "failed"}
           /\ journal'.cost = settled
           /\ journal'.state = "completed" => settled # "over",
         traces' \subseteq {"result", "failure"},
         faultsLeft' \in 0 .. MaxFaults,
         UNCHANGED <<child, settled, clockUp>>
  PROVE  ConsultInv'
<1> USE DEF ConsultInv
<1>1. /\ consult' = [consult EXCEPT !.phase = "answered"]
      /\ answer' = [kind |-> kind, retryable |-> retryable]
  BY DEF Answered
<1>2. Typed'
  BY <1>1 DEF Typed, Consults, Phases, Answers
<1>3. consult'.phase = "answered" /\ consult'.started = consult.started
      /\ consult'.called = consult.called /\ consult'.observed = consult.observed
  BY <1>1 DEF Typed, Consults
<1>4. QuietInv' /\ IdleInv'
  BY <1>3 DEF QuietInv, IdleInv
<1>5. RetryInv'
  BY <1>1, <1>3 DEF RetryInv
<1>6. CostInv'
  BY <1>3 DEF CostInv
<1>7. PayloadIsDurable'
  BY <1>1 DEF PayloadIsDurable
<1> QED BY <1>2, <1>4, <1>5, <1>6, <1>7

(* Starting writes the first event and begins the work, or answers at once *)
(* that the storage failed.                                                *)
LEMMA StartKeeps == ASSUME ConsultAssumption, ConsultInv, StartConsult PROVE ConsultInv'
<1>1. /\ Typed /\ journal.cost \in {"none", settled} /\ consult.phase = "idle"
      /\ consult.observed \in {"none", settled} /\ (consult.called => consult.started)
  BY DEF ConsultInv, CostInv, RetryInv, StartConsult
<1>2. CASE /\ journal' = [journal EXCEPT !.state = "running"]
           /\ consult' = [consult EXCEPT !.phase = "preflight"]
           /\ child' = Begun
           /\ UNCHANGED <<answer, faultsLeft>>
  <2>1. Begun \in [{"work", "beat"} -> ChildTasks]
    <3>1. [Resting EXCEPT !.at = "running"] \in ChildTasks
      BY DEF Resting, ChildTasks, Positions, WriteResults
    <3> QED BY <3>1 DEF Begun
  <2>2. journal' \in Journals /\ journal'.cost = journal.cost
    BY <1>1, <1>2 DEF Typed, Journals
  <2>3. /\ consult' \in Consults /\ consult'.phase = "preflight"
        /\ consult'.observed = consult.observed
        /\ consult'.called = consult.called /\ consult'.started = consult.started
    BY <1>1, <1>2 DEF Typed, Consults, Phases
  <2>4. "preflight" \notin Alone
    BY DEF Alone
  <2> QED BY <1>1, <1>2, <2>1, <2>2, <2>3, <2>4, OnTheWayKeeps DEF StartConsult, Typed
<1>3. CASE /\ StorageFault
           /\ \/ Answered("storage", TRUE) /\ UNCHANGED journal
              \/ Answered("storage", FALSE) /\ journal' = [journal EXCEPT !.torn = TRUE]
           /\ UNCHANGED child
  <2>1. ~consult.started
    BY <1>1 DEF ConsultInv, IdleInv
  <2>2. journal' \in Journals /\ journal'.cost = journal.cost
    BY <1>1, <1>3 DEF Typed, Journals
  <2>3. faultsLeft' \in 0 .. MaxFaults
    BY <1>1, <1>3 DEF StorageFault, Typed, ConsultAssumption
  <2>4. consult.phase \in Alone
    BY <1>1 DEF Alone
  <2> QED BY <1>1, <1>3, <2>1, <2>2, <2>3, <2>4, AnswerKeeps DEF StartConsult, Typed
<1> QED BY <1>2, <1>3 DEF StartConsult

(* Giving up, unwinding and closing: the tasks are stopped and waited for. *)
LEMMA GiveUpKeeps ==
  ASSUME ConsultAssumption, ConsultInv, NEW e \in ConsultErrors, GiveUp(e) PROVE ConsultInv'
<1> USE DEF GiveUp
<1>1. /\ Typed /\ journal.cost \in {"none", settled} /\ consult.phase # "answered"
      /\ consult.observed \in {"none", settled} /\ (consult.called => consult.started)
  BY DEF ConsultInv, CostInv, RetryInv, Guarding
<1>2. /\ consult' \in Consults /\ consult'.phase = "unwinding"
      /\ consult'.observed = consult.observed
      /\ consult'.called = consult.called /\ consult'.started = consult.started
  BY <1>1 DEF Typed, Consults, Phases
<1>3. child' \in [{"work", "beat"} -> ChildTasks]
  BY <1>1 DEF Typed, ChildTasks
<1>4. "unwinding" \notin Alone
  BY DEF Alone
<1> QED BY <1>1, <1>2, <1>3, <1>4, OnTheWayKeeps DEF Typed

(* An error is handled when both tasks and their threads have ended; only  *)
(* then may it carry the settled cost.                                     *)
LEMMA UnwoundKeeps == ASSUME ConsultAssumption, ConsultInv, Unwound PROVE ConsultInv'
<1> USE DEF Unwound
<1>1. /\ Typed /\ journal.cost \in {"none", settled} /\ consult.phase # "answered"
      /\ consult.observed \in {"none", settled} /\ (consult.called => consult.started)
  BY DEF ConsultInv, CostInv, RetryInv
<1>2. /\ consult' \in Consults /\ consult'.phase = "handling"
      /\ consult'.observed \in {consult.observed, settled}
      /\ consult'.called = consult.called /\ consult'.started = consult.started
  BY <1>1 DEF Typed, Consults, Phases, ConsultErrors
<1>3. child["work"].at \in Still /\ child["beat"].at \in Still
  BY DEF ChildrenOver, Still
<1> QED BY <1>1, <1>2, <1>3, OnTheWayKeeps DEF Typed

(* When the work has returned, the heartbeat loop is told to stop.         *)
LEMMA CloseKeeps == ASSUME ConsultAssumption, ConsultInv, CloseWork PROVE ConsultInv'
<1> USE DEF CloseWork
<1>1. /\ Typed /\ journal.cost \in {"none", settled} /\ consult.phase # "answered"
      /\ consult.observed \in {"none", settled} /\ (consult.called => consult.started)
  BY DEF ConsultInv, CostInv, RetryInv
<1>2. /\ consult' \in Consults /\ consult'.phase = "closing"
      /\ consult'.observed = consult.observed
      /\ consult'.called = consult.called /\ consult'.started = consult.started
  BY <1>1 DEF Typed, Consults, Phases
<1>3. child' \in [{"work", "beat"} -> ChildTasks]
  BY <1>1 DEF Typed, ChildTasks
<1>4. "closing" \notin Alone
  BY DEF Alone
<1> QED BY <1>1, <1>2, <1>3, <1>4, OnTheWayKeeps DEF Typed

-----------------------------------------------------------------------------
(* Failing with an error, which a cancellation replaces.                   *)
LEMMA FailsIsConsult ==
  ASSUME consult \in Consults, NEW e \in ConsultErrors
  PROVE  /\ Fails(e) \in Consults /\ Fails(e).phase = "handling"
         /\ Fails(e).called = consult.called /\ Fails(e).started = consult.started
         /\ Fails(e).observed = consult.observed
BY DEF Fails, Consults, Phases, ConsultErrors

(* The heartbeat before the council.                                       *)
LEMMA GenerationKeeps == ASSUME ConsultAssumption, ConsultInv, BeginGeneration PROVE ConsultInv'
<1>1. /\ Typed /\ journal.cost \in {"none", settled} /\ consult.phase = "closing"
      /\ consult.observed \in {"none", settled} /\ (consult.called => consult.started)
      /\ child["work"].at \in Still /\ child["beat"].at \in Still
  BY DEF ConsultInv, CostInv, RetryInv, BeginGeneration, ChildrenOver, Still
<1>2. PICK res \in WriteResults :
        /\ AppendEvent(Heartbeat("none"), res)
        /\ IF res = "ok" /\ ~consult.cancelled
             THEN /\ consult' = [consult EXCEPT !.phase = "generation", !.started = TRUE]
                  /\ child' = Begun
             ELSE consult' = Fails(res) /\ UNCHANGED child
  BY DEF BeginGeneration
<1>3. Heartbeat("none") \in Events /\ Heartbeat("none").cost = "none"
  BY EventsAreTyped DEF Heartbeat, CostsSeen
<1>4. /\ journal' \in Journals /\ faultsLeft' \in 0 .. MaxFaults
      /\ journal'.cost \in {journal.cost, "none"}
  BY <1>1, <1>2, <1>3, AppendFacts
<1>5. CASE res = "ok" /\ ~consult.cancelled
  <2>1. Begun \in [{"work", "beat"} -> ChildTasks]
    <3>1. [Resting EXCEPT !.at = "running"] \in ChildTasks
      BY DEF Resting, ChildTasks, Positions, WriteResults
    <3> QED BY <3>1 DEF Begun
  <2>2. /\ consult' \in Consults /\ consult'.phase = "generation"
        /\ consult'.observed = consult.observed /\ consult'.started
    <3>1. consult' = [consult EXCEPT !.phase = "generation", !.started = TRUE]
      BY <1>2, <1>5
    <3> QED BY ONLY <1>1, <3>1 DEF Typed, Consults, Phases
  <2>3. "generation" \notin Alone
    BY DEF Alone
  <2> QED BY <1>1, <1>2, <1>4, <1>5, <2>1, <2>2, <2>3, OnTheWayKeeps DEF BeginGeneration, Typed
<1>6. CASE ~(res = "ok" /\ ~consult.cancelled)
  <2>1. consult' = Fails(res) /\ UNCHANGED child
    BY <1>2, <1>6
  <2>2. /\ consult' \in Consults /\ consult'.phase = "handling"
        /\ consult'.observed = consult.observed
        /\ consult'.called = consult.called /\ consult'.started = consult.started
    <3>1. CASE consult.cancelled
      BY <1>1, <2>1, <3>1 DEF Fails, Typed, Consults, Phases, ConsultErrors
    <3>2. CASE ~consult.cancelled
      <4>1. res \in ConsultErrors
        BY <1>6, <3>2 DEF ConsultErrors
      <4> QED BY <1>1, <2>1, <4>1, FailsIsConsult DEF Typed
    <3> QED BY <3>1, <3>2
  <2> QED BY <1>1, <1>4, <2>1, <2>2, OnTheWayKeeps DEF BeginGeneration, Typed
<1> QED BY <1>5, <1>6

(* Finalising begins with the settled cost in hand and nobody else at      *)
(* work.                                                                   *)
LEMMA BeginFinalizeKeeps == ASSUME ConsultAssumption, ConsultInv, BeginFinalize PROVE ConsultInv'
<1> USE DEF BeginFinalize
<1>1. /\ Typed /\ journal.cost \in {"none", settled} /\ consult.phase = "closing"
      /\ (consult.called => consult.started)
      /\ child["work"].at \in Still /\ child["beat"].at \in Still
  BY DEF ConsultInv, CostInv, RetryInv, ChildrenOver, Still
<1>2. /\ consult' \in Consults /\ consult'.phase \in {"trace", "final_beat"}
      /\ consult'.observed = settled
      /\ consult'.called = consult.called /\ consult'.started = consult.started
  BY <1>1 DEF Typed, Consults, Phases
<1> QED BY <1>1, <1>2, OnTheWayKeeps DEF Typed

(* What is true while the result is finalised.                             *)
LEMMA FinalizingFacts ==
  ASSUME ConsultInv, consult.phase \in {"final_beat", "trace", "finish"}
  PROVE  /\ Typed /\ journal.cost \in {"none", settled} /\ consult.observed = settled
         /\ (consult.called => consult.started)
         /\ child["work"].at \in Still /\ child["beat"].at \in Still
         /\ consult.phase \in Alone
BY DEF ConsultInv, CostInv, RetryInv, QuietInv, Alone

(* The last heartbeat, with which the settled cost reaches the journal.    *)
LEMMA FinalBeatKeeps == ASSUME ConsultAssumption, ConsultInv, FinalBeat PROVE ConsultInv'
<1>1. consult.phase = "final_beat"
  BY DEF FinalBeat
<1>2. /\ Typed /\ journal.cost \in {"none", settled} /\ consult.observed = settled
      /\ (consult.called => consult.started)
      /\ child["work"].at \in Still /\ child["beat"].at \in Still
  BY <1>1, FinalizingFacts
<1>3. PICK res \in WriteResults :
        /\ AppendEvent(Heartbeat(consult.observed), res)
        /\ consult' = IF res = "ok" THEN [consult EXCEPT !.phase = "trace"] ELSE Fails(res)
  BY DEF FinalBeat
<1>4. Heartbeat(consult.observed) \in Events /\ Heartbeat(consult.observed).cost = settled
  BY <1>2, EventsAreTyped DEF Heartbeat, Typed
<1>5. /\ journal' \in Journals /\ faultsLeft' \in 0 .. MaxFaults
      /\ journal'.cost \in {journal.cost, settled}
  BY <1>2, <1>3, <1>4, AppendFacts
<1>6. /\ consult' \in Consults /\ consult'.phase \in {"trace", "handling"}
      /\ consult'.observed = settled
      /\ consult'.called = consult.called /\ consult'.started = consult.started
  <2>1. CASE res = "ok"
    BY <1>2, <1>3, <2>1 DEF Typed, Consults, Phases
  <2>2. CASE res # "ok"
    <3>1. res \in ConsultErrors
      BY <2>2 DEF ConsultErrors
    <3> QED BY <1>2, <1>3, <2>2, <3>1, FailsIsConsult DEF Typed
  <2> QED BY <2>1, <2>2
<1> QED BY <1>1, <1>2, <1>5, <1>6, OnTheWayKeeps DEF FinalBeat, Typed

(* The trace is written before the terminal event, or the consult ends in  *)
(* a clause.                                                               *)
LEMMA TraceKeeps == ASSUME ConsultAssumption, ConsultInv, RecordTrace PROVE ConsultInv'
<1>1. consult.phase = "trace"
  BY DEF RecordTrace
<1>2. /\ Typed /\ journal.cost \in {"none", settled} /\ consult.observed = settled
      /\ (consult.called => consult.started)
      /\ child["work"].at \in Still /\ child["beat"].at \in Still
  BY <1>1, FinalizingFacts
<1>3. CASE /\ traces' = traces \cup {"result"} /\ UNCHANGED faultsLeft
           /\ consult' = [consult EXCEPT !.phase = "finish", !.traced = TRUE]
  <2>1. /\ consult' \in Consults /\ consult'.phase = "finish"
        /\ consult'.observed = settled
        /\ consult'.called = consult.called /\ consult'.started = consult.started
    BY <1>2, <1>3 DEF Typed, Consults, Phases
  <2>2. "result" \in traces' /\ traces' \subseteq {"result", "failure"}
    BY <1>2, <1>3 DEF Typed
  <2> QED BY <1>1, <1>2, <1>3, <2>1, <2>2, OnTheWayKeeps DEF RecordTrace, Typed
<1>4. CASE /\ consult' \in {Fails("trace_lock"), Fails("trace_io")} /\ UNCHANGED traces
           /\ UNCHANGED faultsLeft \/ StorageFault
  <2>1. /\ consult' \in Consults /\ consult'.phase = "handling"
        /\ consult'.observed = settled
        /\ consult'.called = consult.called /\ consult'.started = consult.started
    <3>1. {"trace_lock", "trace_io"} \subseteq ConsultErrors
      BY DEF ConsultErrors
    <3> QED BY <1>2, <1>4, <3>1, FailsIsConsult DEF Typed
  <2>2. faultsLeft' \in 0 .. MaxFaults
    BY <1>2, <1>4 DEF StorageFault, Typed, ConsultAssumption
  <2> QED BY <1>1, <1>2, <1>4, <2>1, <2>2, OnTheWayKeeps DEF RecordTrace, Typed
<1> QED BY <1>3, <1>4 DEF RecordTrace

(* The last event and the payload.                                         *)
LEMMA FinishKeeps == ASSUME ConsultAssumption, ConsultInv, FinishRun PROVE ConsultInv'
<1>1. consult.phase = "finish"
  BY DEF FinishRun
<1>2. /\ Typed /\ journal.cost \in {"none", settled} /\ consult.observed = settled
      /\ (consult.called => consult.started)
      /\ child["work"].at \in Still /\ child["beat"].at \in Still
      /\ consult.phase \in Alone
  BY <1>1, FinalizingFacts
<1>3. "result" \in traces
  BY <1>1 DEF ConsultInv, CostInv
<1>4. PICK event \in Endings, res \in WriteResults :
        /\ AppendEvent(event, res)
        /\ IF res = "ok" THEN Answered("payload", FALSE)
                         ELSE consult' = Fails(res) /\ UNCHANGED answer
  BY DEF FinishRun
<1>5. /\ event \in Events /\ event.cost = settled /\ ~event.stop
      /\ event.state \in {"completed", "failed"}
      /\ event.state = "completed" => settled # "over"
  <2>1. settled \in CostsSeen
    BY <1>2 DEF Typed
  <2>2. \/ event \in {Final("failed", "cost_bound", settled), Final("failed", "incomplete", settled)}
        \/ settled # "over" /\ event = Final("completed", "consult_completed", settled)
    BY <1>2 DEF Endings
  <2>3. {"completed", "failed"} \subseteq Ended
        /\ {"cost_bound", "incomplete", "consult_completed"} \subseteq Reasons
    BY DEF Ended, Reasons
  <2>4. event \in Events
    BY <2>1, <2>2, <2>3, EventsAreTyped
  <2> QED BY <2>2, <2>4 DEF Final
<1>6. /\ journal' \in Journals /\ faultsLeft' \in 0 .. MaxFaults
      /\ journal'.cost \in {journal.cost, settled}
      /\ res = "ok" =>
           /\ journal'.cost = IF settled = "none" THEN journal.cost ELSE settled
           /\ journal'.state \in {"failed", event.state}
  BY <1>2, <1>4, <1>5, AppendFacts
<1>7. CASE res = "ok"
  <2>1. Answered("payload", FALSE)
    BY <1>4, <1>7
  <2>2. /\ journal'.state \in {"completed", "failed"} /\ journal'.cost = settled
        /\ journal'.state = "completed" => settled # "over"
    BY <1>2, <1>5, <1>6, <1>7
  <2> QED BY <1>1, <1>2, <1>3, <1>6, <2>1, <2>2, AnswerKeeps DEF FinishRun, Typed
<1>8. CASE res # "ok"
  <2>1. /\ consult' \in Consults /\ consult'.phase = "handling"
        /\ consult'.observed = settled
        /\ consult'.called = consult.called /\ consult'.started = consult.started
    <3>1. res \in ConsultErrors
      BY <1>8 DEF ConsultErrors
    <3> QED BY <1>2, <1>4, <1>8, <3>1, FailsIsConsult DEF Typed
  <2> QED BY <1>1, <1>2, <1>4, <1>6, <1>8, <2>1, OnTheWayKeeps DEF FinishRun, Typed
<1> QED BY <1>7, <1>8

-----------------------------------------------------------------------------
(* The except clauses.                                                     *)
LEMMA HandlingFacts ==
  ASSUME ConsultInv, consult.phase = "handling"
  PROVE  /\ Typed /\ journal.cost \in {"none", settled}
         /\ consult.observed \in {"none", settled} /\ consult.observed \in CostsSeen
         /\ (consult.called => consult.started)
         /\ child["work"].at \in Still /\ child["beat"].at \in Still
         /\ consult.phase \in Alone /\ consult.error \in ConsultErrors
BY DEF ConsultInv, CostInv, RetryInv, QuietInv, Alone, Typed, Consults

(* A clause that writes one event and answers.                             *)
LEMMA ClauseKeeps ==
  ASSUME ConsultAssumption, ConsultInv, consult.phase = "handling",
         NEW event \in Events, event.cost \in {"none", consult.observed},
         NEW res \in WriteResults, AppendEvent(event, res),
         NEW kind \in {"storage"} \cup ConsultErrors, NEW retryable \in BOOLEAN,
         retryable => ~consult.started,
         AnsweredAfterWait(kind, retryable),
         traces' \subseteq {"result", "failure"},
         UNCHANGED <<child, settled, clockUp>>
  PROVE  ConsultInv'
<1>1. /\ Typed /\ journal.cost \in {"none", settled} /\ consult.phase \in Alone
      /\ consult.observed \in {"none", settled}
  BY HandlingFacts
<1>2. /\ journal' \in Journals /\ faultsLeft' \in 0 .. MaxFaults
      /\ journal'.cost \in {"none", settled}
  BY <1>1, AppendFacts
<1>3. \E k \in {"storage"} \cup ConsultErrors, r \in BOOLEAN :
        Answered(k, r) /\ (r => ~consult.started)
  <2>1. "cancelled" \in ConsultErrors
    BY DEF ConsultErrors
  <2> QED BY <2>1 DEF AnsweredAfterWait
<1>4. "payload" \notin {"storage"} \cup ConsultErrors
  BY DEF ConsultErrors, WriteResults
<1> QED BY <1>1, <1>2, <1>3, <1>4, AnswerKeeps

(* The clause of the elapsed ceiling: retryable only if no work was        *)
(* started.                                                                *)
LEMMA ElapsedKeeps == ASSUME ConsultAssumption, ConsultInv, SettleElapsed PROVE ConsultInv'
<1>1. consult.phase = "handling" /\ consult.observed \in CostsSeen /\ Typed
  BY HandlingFacts DEF SettleElapsed
<1>2. PICK res \in WriteResults :
        /\ AppendEvent(ElapsedStop(consult.observed), res)
        /\ IF res = "transition" THEN AnsweredAfterWait("transition", FALSE)
                                 ELSE AnsweredAfterWait("elapsed", ~consult.started)
  BY DEF SettleElapsed
<1>3. ElapsedStop(consult.observed) \in Events
      /\ ElapsedStop(consult.observed).cost = consult.observed
  BY <1>1, EventsAreTyped DEF ElapsedStop, Final
<1>4. traces' \subseteq {"result", "failure"}
  BY <1>1 DEF SettleElapsed, FailureTraced, Typed
<1>5. {"transition", "elapsed"} \subseteq ConsultErrors /\ (~consult.started) \in BOOLEAN
  BY <1>1 DEF Typed, Consults, ConsultErrors, WriteResults
<1>6. CASE res = "transition"
  BY <1>1, <1>2, <1>3, <1>4, <1>5, <1>6, ClauseKeeps DEF SettleElapsed
<1>7. CASE res # "transition"
  <2>1. AnsweredAfterWait("elapsed", ~consult.started)
    BY <1>2, <1>7
  <2> QED BY <1>1, <1>2, <1>3, <1>4, <1>5, <2>1, ClauseKeeps DEF SettleElapsed
<1> QED BY <1>6, <1>7

(* The clause of a journal that was locked or torn: a retry is offered     *)
(* only for the lock, and only before the work.                            *)
LEMMA StorageKeeps == ASSUME ConsultAssumption, ConsultInv, HandleStorage PROVE ConsultInv'
<1>1. /\ Typed /\ journal.cost \in {"none", settled} /\ consult.phase \in Alone
      /\ consult.phase = "handling"
  BY HandlingFacts DEF HandleStorage
<1> DEFINE r == consult.error = "lock" /\ ~consult.started
<1>2. r \in BOOLEAN /\ (r => ~consult.started) /\ Answered("storage", r)
  BY DEF HandleStorage
<1> HIDE DEF r
<1> QED BY <1>1, <1>2, AnswerKeeps DEF HandleStorage, Typed

(* The clauses of a trace that could not be written.                       *)
LEMMA TraceErrorKeeps == ASSUME ConsultAssumption, ConsultInv, HandleTraceError PROVE ConsultInv'
<1>1. consult.phase = "handling" /\ consult.observed \in CostsSeen /\ Typed
  BY HandlingFacts DEF HandleTraceError
<1> DEFINE event == IF consult.error = "trace_io"
                      THEN Final("failed", "storage_io_error", consult.observed)
                      ELSE IF clockUp THEN ElapsedStop(consult.observed)
                                      ELSE Final("failed", "storage_lock_timeout", "none")
<1>2. PICK res \in WriteResults :
        /\ AppendEvent(event, res)
        /\ AnsweredAfterWait(IF res = "transition" THEN "transition" ELSE "storage", FALSE)
  BY DEF HandleTraceError
<1>3. event \in Events /\ event.cost \in {"none", consult.observed}
  <2>1. /\ "failed" \in Ended /\ {"storage_io_error", "storage_lock_timeout"} \subseteq Reasons
        /\ "none" \in CostsSeen
    BY DEF Ended, Reasons, CostsSeen
  <2>2. event \in Events
    BY <1>1, <2>1, EventsAreTyped
  <2>3. event.cost \in {"none", consult.observed}
    BY DEF Final, ElapsedStop
  <2> QED BY <2>2, <2>3
<1> HIDE DEF event
<1>4. traces' \subseteq {"result", "failure"}
  BY <1>1 DEF HandleTraceError, Typed
<1>5. (IF res = "transition" THEN "transition" ELSE "storage") \in {"storage"} \cup ConsultErrors
  BY DEF ConsultErrors, WriteResults
<1> QED BY <1>1, <1>2, <1>3, <1>4, <1>5, ClauseKeeps DEF HandleTraceError

(* The clause of a cancellation or any other exception, which tries to end *)
(* the run in the journal before it answers.                               *)
LEMMA FailureKeeps == ASSUME ConsultAssumption, ConsultInv, HandleFailure PROVE ConsultInv'
<1>1. /\ consult.phase = "handling" /\ Typed
      /\ consult.observed \in {"none", settled} /\ consult.observed \in CostsSeen
      /\ journal.cost \in {"none", settled} /\ consult.phase \in Alone
      /\ (consult.called => consult.started)
      /\ child["work"].at \in Still /\ child["beat"].at \in Still
      /\ consult.error \in ConsultErrors
  BY HandlingFacts DEF HandleFailure
<1>2. CASE consult.traced /\ AnsweredAfterWait(consult.error, FALSE)
           /\ UNCHANGED <<journal, traces, faultsLeft>>
  <2>1. \E k \in ConsultErrors : Answered(k, FALSE)
    <3>1. "cancelled" \in ConsultErrors
      BY DEF ConsultErrors
    <3>2. consult.error \in ConsultErrors /\ AnsweredAfterWait(consult.error, FALSE)
      BY <1>1, <1>2
    <3> QED BY <3>1, <3>2 DEF AnsweredAfterWait
  <2>2. "payload" \notin ConsultErrors
    BY DEF ConsultErrors, WriteResults
  <2> QED BY <1>1, <1>2, <2>1, <2>2, AnswerKeeps DEF HandleFailure, Typed
<1>3. CASE ~consult.traced
  <2> DEFINE event == Final(IF consult.error = "cancelled" THEN "cancelled" ELSE "failed",
                            consult.error, consult.observed)
  <2>1. PICK res \in WriteResults :
          /\ AppendEvent(event, res)
          /\ CASE res = "elapsed" ->
                    consult' = [consult EXCEPT !.error = "elapsed"] /\ UNCHANGED <<answer, traces>>
               [] res = "transition" -> AnsweredAfterWait("transition", FALSE) /\ UNCHANGED traces
               [] OTHER -> AnsweredAfterWait(consult.error, FALSE) /\ FailureTraced
    BY <1>3 DEF HandleFailure
  <2>2. event \in Events /\ event.cost = consult.observed
    <3>1. /\ {"cancelled", "failed"} \subseteq Ended /\ consult.error \in Reasons
      BY <1>1 DEF Ended, Reasons
    <3> QED BY <1>1, <3>1, EventsAreTyped DEF Final
  <2> HIDE DEF event
  <2>3. CASE res = "elapsed"
    <3>1. consult' = [consult EXCEPT !.error = "elapsed"] /\ UNCHANGED <<answer, traces>>
      BY <2>1, <2>3
    <3>2. /\ consult' \in Consults /\ consult'.phase = "handling"
          /\ consult'.observed = consult.observed
          /\ consult'.called = consult.called /\ consult'.started = consult.started
      BY <1>1, <3>1 DEF Typed, Consults, ConsultErrors, WriteResults
    <3>3. /\ journal' \in Journals /\ faultsLeft' \in 0 .. MaxFaults
          /\ journal'.cost \in {"none", settled}
      BY <1>1, <2>1, <2>2, AppendFacts
    <3> QED BY <1>1, <3>1, <3>2, <3>3, OnTheWayKeeps DEF HandleFailure, Typed
  <2>4. CASE res = "transition"
    <3>1. AnsweredAfterWait("transition", FALSE) /\ UNCHANGED traces
      BY <2>1, <2>4
    <3>2. "transition" \in ConsultErrors
      BY DEF ConsultErrors, WriteResults
    <3> QED BY <1>1, <2>1, <2>2, <3>1, <3>2, ClauseKeeps DEF HandleFailure, Typed
  <2>5. CASE res \notin {"elapsed", "transition"}
    <3>1. AnsweredAfterWait(consult.error, FALSE) /\ FailureTraced
      BY <2>1, <2>5
    <3>2. traces' \subseteq {"result", "failure"}
      BY <1>1, <3>1 DEF FailureTraced, Typed
    <3> QED BY <1>1, <2>1, <2>2, <3>1, <3>2, ClauseKeeps DEF HandleFailure
  <2> QED BY <2>3, <2>4, <2>5
<1> QED BY <1>2, <1>3 DEF HandleFailure

(* A cancellation by the client and the passing of time change no store.   *)
LEMMA ClientKeeps == ASSUME ConsultAssumption, ConsultInv, Cancel \/ TimeUp PROVE ConsultInv'
<1> USE DEF ConsultInv
<1>1. CASE Cancel
  <2>1. consult' = [consult EXCEPT !.cancelled = TRUE]
        /\ UNCHANGED <<child, journal, traces, settled, clockUp, answer, faultsLeft>>
    BY <1>1 DEF Cancel
  <2>2. Typed'
    BY <2>1 DEF Typed, Consults
  <2>3. /\ consult'.phase = consult.phase /\ consult'.observed = consult.observed
        /\ consult'.called = consult.called /\ consult'.started = consult.started
    BY <2>1 DEF Typed, Consults
  <2> QED BY <2>1, <2>2, <2>3 DEF QuietInv, RetryInv, CostInv, PayloadIsDurable, IdleInv
<1>2. CASE TimeUp
  BY <1>2 DEF TimeUp, Typed, QuietInv, RetryInv, CostInv, PayloadIsDurable, IdleInv
<1> QED BY <1>1, <1>2

(* The invariant is about the variables of the consult only.               *)
LEMMA StutterKeepsConsult == ConsultInv /\ UNCHANGED consultVars => ConsultInv'
BY DEF ConsultInv, Typed, QuietInv, RetryInv, CostInv, PayloadIsDurable, IdleInv, consultVars

(* Every step of a consult keeps its invariant.                            *)
LEMMA ConsultStep ==
  ASSUME ConsultAssumption, ConsultInv, [ConsultNext]_consultVars PROVE ConsultInv'
<1>1. ASSUME TransactionStep PROVE ConsultInv'
  BY <1>1, GiveUpKeeps, UnwoundKeeps, CloseKeeps, GenerationKeeps, BeginFinalizeKeeps,
     FinalBeatKeeps, TraceKeeps, FinishKeeps, ElapsedKeeps, StorageKeeps, TraceErrorKeeps,
     FailureKeeps DEF TransactionStep
<1>2. ASSUME NEW c \in DOMAIN child, TaskStep(c) \/ BeginWrite(c) PROVE ConsultInv'
  <2>1. c \in {"work", "beat"}
    BY <1>2 DEF ConsultInv, Typed
  <2> QED BY <1>2, <2>1, TaskKeeps
<1>3. ASSUME ConsultNext PROVE ConsultInv'
  BY <1>1, <1>2, <1>3, StartKeeps, WorkKeeps, ClientKeeps DEF ConsultNext
<1> QED BY <1>3, StutterKeepsConsult

(* The inductive invariant: the phases in which the transaction is alone   *)
(* with the storage, the costs the journal may show, and what must not     *)
(* have begun when a retry is offered.                                     *)
THEOREM ConsultInvariant == ASSUME ConsultAssumption PROVE ConsultSpec => []ConsultInv
<1>1. ConsultInit => ConsultInv
  BY InitIsConsultInv
<1>2. ConsultInv /\ [ConsultNext]_consultVars => ConsultInv'
  BY ConsultStep
<1> QED BY <1>1, <1>2, PTL DEF ConsultSpec

-----------------------------------------------------------------------------
(* The invariant has the types of every variable.                          *)
LEMMA ConsultInvGivesTypes == ConsultInv => ConsultTypeOK
BY DEF ConsultInv, Typed, ConsultTypeOK, Consults, Phases, ChildTasks, Positions, Journals, Answers

(* The types of ConsultTransaction, for any number of faults.              *)
THEOREM ConsultTypeCorrect == ASSUME ConsultAssumption PROVE ConsultSpec => []ConsultTypeOK
BY ConsultInvGivesTypes, ConsultInvariant, PTL

(* Nothing of a consult goes on once its caller has an answer, whatever    *)
(* failed and whoever cancelled (_run_with_heartbeats, _run_sync_durable). *)
THEOREM NeverALateWriter == ASSUME ConsultAssumption PROVE ConsultSpec => []NoLateWriter
<1>1. ConsultInv => NoLateWriter
  BY DEF ConsultInv, QuietInv, Typed, NoLateWriter, Alone, Still
<1> QED BY <1>1, ConsultInvariant, PTL

(* A payload the caller got is on disk, and agrees with the lifecycle      *)
(* (_finalize_result).                                                     *)
THEOREM PayloadAlwaysDurable == ASSUME ConsultAssumption PROVE ConsultSpec => []PayloadIsDurable
<1>1. ConsultInv => PayloadIsDurable
  BY DEF ConsultInv
<1> QED BY <1>1, ConsultInvariant, PTL

(* No answer that says "try again" follows a provider call, whichever of   *)
(* the except clauses gave it.                                             *)
THEOREM RetryAlwaysSafe == ASSUME ConsultAssumption PROVE ConsultSpec => []RetryIsSafe
<1>1. ConsultInv => RetryIsSafe
  BY DEF ConsultInv, RetryInv, RetryIsSafe
<1> QED BY <1>1, ConsultInvariant, PTL
=============================================================================
