------------------------------ MODULE CostGate ------------------------------
(***************************************************************************)
(* The money state of a research job: its durable hold                     *)
(* (experts/research_reservation_store.py), the canonical completion event *)
(* in the append-only ledger (observability/cost_ledger.py) and the global *)
(* paid-API freeze (core/cost_caps.py), with the operations of             *)
(* experts/research_cost_gate.py on them.                                  *)
(*                                                                         *)
(* Amounts of money are compared only with the job's own ceiling here, so  *)
(* a ledger event carries "actual", "ceiling" or "over".  Two settlements  *)
(* carry the same event only if the same code path wrote the same amount:  *)
(* the ledger compares source, request id and metadata as well as cost.    *)
(***************************************************************************)
EXTENDS ResearchConfig

VARIABLES
  hold,          \* state of the reservation row, "none" before reserve
  marked,        \* provider_work_may_have_run
  bound,         \* request_envelope_sha256 of the row is set
  entry,         \* the ledger event keyed job:<id>:completion
  integrity,     \* a research_settlement_integrity event is in the ledger
  frozen         \* the paid API is frozen: every cap is zero

moneyVars == <<hold, marked, bound, entry, integrity, frozen>>

HoldStates == {"none", "active", "settled", "refunded"}

(* The code paths that may write a completion event. *)
Writers == {"dispatch.provider_failure", "dispatch.handoff",
            "poller.completion", "poller.failure", "poller.unreserved", "cli",
            "cancel", "cancel.retry", "cancel.queued", "reconcile"}

Event(w, c) == [writer |-> w, amount |-> c]
NoEntry == [writer |-> "none", amount |-> "none"]
Events == [writer : Writers, amount : {"actual", "ceiling", "over"}]

MoneyTypeOK ==
  /\ hold \in [Jobs -> HoldStates]
  /\ marked \in [Jobs -> BOOLEAN]
  /\ bound \in [Jobs -> BOOLEAN]
  /\ entry \in [Jobs -> Events \cup {NoEntry}]
  /\ integrity \in [Jobs -> BOOLEAN]
  /\ frozen \in BOOLEAN

MoneyInit ==
  /\ hold = [j \in Jobs |-> "none"]
  /\ marked = [j \in Jobs |-> FALSE]
  /\ bound = [j \in Jobs |-> FALSE]
  /\ entry = [j \in Jobs |-> NoEntry]
  /\ integrity = [j \in Jobs |-> FALSE]
  /\ frozen = FALSE

Recorded(j) == entry[j] # NoEntry

(* Deliberately wrong: closes every active hold without asking the ledger. *)
ReconciledHoldsUnasked ==
  [j \in Jobs |-> IF hold[j] = "active" THEN "settled" ELSE hold[j]]

(* _reconcile_rows: active holds whose completion event is in the ledger   *)
(* become settled.  reserve, mark, active_cost and exposure_snapshot all   *)
(* begin with it, in the transaction that does their own work.             *)
ReconciledHolds ==
  [j \in Jobs |-> IF hold[j] = "active" /\ Recorded(j) THEN "settled" ELSE hold[j]]

(* reserve_research_cost: a frozen policy has caps of zero and admits no hold. *)
Reserve(j) ==
  /\ ~frozen
  /\ hold[j] = "none"
  /\ hold' = [ReconciledHolds EXCEPT ![j] = "active"]
  /\ bound' = [bound EXCEPT ![j] = j \notin LateBound]
  /\ UNCHANGED <<marked, entry, integrity, frozen>>

(* mark_provider_work_may_have_run: authority is read again under the      *)
(* policy lock, the row must still be active and unmarked, and the digest  *)
(* of the request is bound to it.                                          *)
Markable(j) == ~frozen /\ ReconciledHolds[j] = "active" /\ ~marked[j]

(* Deliberately wrong: forgets to bind the request digest. *)
MarkUnbound(j) ==
  /\ Markable(j)
  /\ hold' = ReconciledHolds
  /\ marked' = [marked EXCEPT ![j] = TRUE]
  /\ UNCHANGED <<bound, entry, integrity, frozen>>

Mark(j) ==
  /\ Markable(j)
  /\ hold' = ReconciledHolds
  /\ marked' = [marked EXCEPT ![j] = TRUE]
  /\ bound' = [bound EXCEPT ![j] = TRUE]
  /\ UNCHANGED <<entry, integrity, frozen>>

(* refund_research_cost: a marked or closed row is left alone, silently. *)
Refundable(j) == hold[j] = "active" /\ ~marked[j]

Refund(j) ==
  /\ hold' = [hold EXCEPT ![j] = IF Refundable(j) THEN "refunded" ELSE @]
  /\ UNCHANGED <<marked, bound, entry, integrity, frozen>>

(* settle accepts an active or settled row whose identity is the caller's. *)
(* The handle restored from queue metadata always carries the request      *)
(* digest, so a row whose digest was never bound is not accepted, nor is a *)
(* missing or a refunded one.                                              *)
Matches(j) == hold[j] \in {"active", "settled"} /\ bound[j]

(* Deliberately wrong: a ledger that overwrites under a repeated key. *)
RecordableAlways(j, e) == e \in Events

(* The ledger accepts a new event, or the identical one again. *)
Recordable(j, e) == entry[j] \in {NoEntry, e}

(* A reported cost above the ceiling freezes the paid API first. *)
FreezeIfOver(e) == frozen' = (frozen \/ e.amount = "over")

Settle(j, e) ==
  /\ Matches(j)
  /\ Recordable(j, e)
  /\ hold' = [hold EXCEPT ![j] = "settled"]
  /\ entry' = [entry EXCEPT ![j] = e]
  /\ FreezeIfOver(e)
  /\ UNCHANGED <<marked, bound, integrity>>

(* Deliberately wrong: commits the row before it appends the event. *)
SettleTornRowFirst(j, e) ==
  /\ Matches(j)
  /\ Recordable(j, e)
  /\ hold' = [hold EXCEPT ![j] = "settled"]
  /\ FreezeIfOver(e)
  /\ UNCHANGED <<entry, marked, bound, integrity>>

(* The append reached the ledger, the commit of the row did not. *)
SettleTorn(j, e) ==
  /\ Matches(j)
  /\ Recordable(j, e)
  /\ entry' = [entry EXCEPT ![j] = e]
  /\ FreezeIfOver(e)
  /\ UNCHANGED <<hold, marked, bound, integrity>>

(* The ledger refuses a different event under the same idempotency key. *)
SettleConflict(j, e) ==
  /\ Matches(j)
  /\ ~Recordable(j, e)
  /\ FreezeIfOver(e)
  /\ UNCHANGED <<hold, marked, bound, entry, integrity>>

(* Nothing could be written: a lock timed out or a store was unreadable. *)
SettleUnavailable(e) ==
  /\ FreezeIfOver(e)
  /\ UNCHANGED <<hold, marked, bound, entry, integrity>>

(* What settle_research_cost does after a settlement that did not match:   *)
(* freeze the paid API and append the attempted spend as an event that     *)
(* completes no reservation.                                               *)
RecordIntegrityFailure(j) ==
  /\ frozen' = TRUE
  /\ integrity' = [integrity EXCEPT ![j] = TRUE]
  /\ UNCHANGED <<hold, marked, bound, entry>>

(* record_unreserved_research_cost: freeze, then record the configured     *)
(* ceiling; a different event under the key is a conflict.                 *)
Unreserved == Event("poller.unreserved", "ceiling")

RecordUnreserved(j) ==
  /\ Recordable(j, Unreserved)
  /\ frozen' = TRUE
  /\ entry' = [entry EXCEPT ![j] = Unreserved]
  /\ UNCHANGED <<hold, marked, bound, integrity>>

FreezeOnly ==
  /\ frozen' = TRUE
  /\ UNCHANGED <<hold, marked, bound, entry, integrity>>

(* active_cost and exposure_snapshot: any reader of the exposure repairs rows. *)
ReconcileRows ==
  /\ hold' = ReconciledHolds
  /\ UNCHANGED <<marked, bound, entry, integrity, frozen>>
=============================================================================
