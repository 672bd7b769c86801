---------------------------- MODULE ResearchWorld ----------------------------
(***************************************************************************)
(* What the processes of the research pipeline share besides the queue and *)
(* the money state: the provider's side of a job (external), the report    *)
(* store, a coarse clock, and a budget of faults.                          *)
(*                                                                         *)
(* A fault is a crash, a caller's cancellation, an operation on a store    *)
(* that raises, or a write torn between two stores.  MaxFaults bounds how  *)
(* many happen in one behaviour.                                           *)
(***************************************************************************)
EXTENDS JobQueue, CostGate

VARIABLES
  provider,      \* the provider's job
  artifact,      \* the report is in storage
  age,           \* 0: fresh, 1: over fifteen minutes, 2: over 24 hours
  faults         \* faults still to come

worldVars == <<provider, artifact, age, faults>>

ProviderStates == {"none", "rejected", "accepted", "running",
                   "done", "empty", "failed", "cancelled"}
Unfinished == {"accepted", "running"}

WorldTypeOK ==
  /\ provider \in [Jobs -> ProviderStates]
  /\ artifact \in [Jobs -> BOOLEAN]
  /\ age \in [Jobs -> 0..2]
  /\ faults \in Nat

WorldInit ==
  /\ provider = [j \in Jobs |-> "none"]
  /\ artifact = [j \in Jobs |-> FALSE]
  /\ age = [j \in Jobs |-> 0]
  /\ faults = MaxFaults

(* The provider took the request, whatever its caller learned of it. *)
ProviderHasWork(j) == provider[j] \notin {"none", "rejected"}

Fault == faults > 0 /\ faults' = faults - 1
NoFault == UNCHANGED faults

(* The outcomes of settling a hold whose identity matches: it closes, the  *)
(* ledger already has a different completion, a store is unavailable, or   *)
(* the process stops between the append and the commit.                    *)
SettlementRaises(j, e) ==
  \/ NoFault /\ SettleConflict(j, e)
  \/ Fault /\ SettleUnavailable(e)
  \/ Fault /\ SettleTorn(j, e)

SettlementEnds(j, e) == (NoFault /\ Settle(j, e)) \/ SettlementRaises(j, e)

-----------------------------------------------------------------------------
(* The provider runs a job it accepted and ends it in one of four ways;    *)
(* "empty" is a completion from which no report text can be extracted.     *)
ProviderStarts(j) ==
  /\ provider[j] = "accepted"
  /\ provider' = [provider EXCEPT ![j] = "running"]

ProviderEnds(j) ==
  /\ provider[j] = "running"
  /\ \E o \in {"done", "empty", "failed"} : provider' = [provider EXCEPT ![j] = o]

ProviderStep(j) ==
  /\ ProviderStarts(j) \/ ProviderEnds(j)
  /\ UNCHANGED <<artifact, age, faults, queueVars, moneyVars>>

(* provider.cancel_job: work in progress may be stopped and confirmed, and *)
(* a cancelled job is confirmed again.                                     *)
CancelConfirmed(j) ==
  /\ provider[j] \in Unfinished \cup {"cancelled"}
  /\ provider' = [provider EXCEPT ![j] = "cancelled"]

(* The answer was negative or never came; the work may have stopped anyway. *)
CancelUnconfirmed(j) ==
  \/ UNCHANGED provider
  \/ /\ provider[j] \in Unfinished
     /\ provider' = [provider EXCEPT ![j] = "cancelled"]

(* Fifteen minutes after the reservation, then 24 hours after the claim.   *)
Tick(j) ==
  /\ hold[j] # "none"
  /\ age[j] < MaxAge
  /\ age[j] = 1 => status[j] = "processing"
  /\ age' = [age EXCEPT ![j] = @ + 1]
  /\ UNCHANGED <<provider, artifact, faults, queueVars, moneyVars>>

(* A budget or exposure view is opened: it settles what the ledger shows. *)
ReadExposure ==
  /\ ReconcileRows
  /\ UNCHANGED <<queueVars, worldVars>>
=============================================================================
