--------------------------- MODULE ScopedAdmission ---------------------------
(***************************************************************************)
(* Remote MCP calls under one scoped key: the admission store (SQLite) and *)
(* the audit log (a file) that several server processes share. A store     *)
(* call is one BEGIN IMMEDIATE transaction, which a second one waits for;  *)
(* the audit line of a settlement is written inside it, before its commit. *)
(***************************************************************************)
EXTENDS Naturals, FiniteSetsExt

CONSTANTS
  Calls,
  KeyLimit,      \* the key's budget
  RateLimit,     \* calls of the key in one window
  Estimates,     \* deterministic cost estimates, 0 for tools that cost nothing
  Costs,         \* costs responses report
  PastSpend      \* what the audit log holds when the store is created

ASSUME ScopedAssumption ==
  /\ IsFiniteSet(Calls) /\ "nobody" \notin Calls
  /\ KeyLimit \in Nat /\ RateLimit \in Nat \ {0} /\ PastSpend \in Nat
  /\ Estimates \subseteq Nat /\ Costs \subseteq Nat

VARIABLES
  keyRow,      \* scoped_keys: [seeded, settled]
  held,        \* calls with a row in admissions
  estimate,    \* the estimate of that row
  inWindow,    \* calls with a row in rate_events
  audited,     \* call -> its audit lines
  auditCost,   \* call -> the cost on them
  callStage,   \* where the call stands in its server process
  reported,    \* the cost its response reports: one number or none
  writer       \* the call whose transaction is open, or "nobody"

scopedStore == <<keyRow, held, estimate, inWindow>>
auditVars == <<audited, auditCost>>
scopedVars == <<keyRow, held, estimate, inWindow, audited, auditCost, callStage, reported, writer>>

ScopedStages == {"arrived", "refused", "admitted", "answered", "failed", "appended",
                 "closed", "lost"}

SumOf(f, S) == MapThenSumSet(LAMBDA c : f[c], S)
AuditTotal == PastSpend + SumOf(auditCost, Calls)
Holds == SumOf(estimate, held)

Committed(settled) == settled + Holds

ScopedInit ==
  /\ keyRow = [seeded |-> FALSE, settled |-> 0]
  /\ held = {} /\ inWindow = {}
  /\ estimate = [c \in Calls |-> 0]
  /\ audited = [c \in Calls |-> 0]
  /\ auditCost = [c \in Calls |-> 0]
  /\ callStage = [c \in Calls |-> "arrived"]
  /\ reported = [c \in Calls |-> {}]
  /\ writer = "nobody"

(* _seed_key: the first transaction of the key takes its spend from the    *)
(* audit log.                                                              *)
Seeded == [seeded |-> TRUE, settled |-> IF keyRow.seeded THEN keyRow.settled ELSE AuditTotal]

(* reserve: a rate slot, then for a tool the budget. A call without a      *)
(* budget argument may be given what is left as its estimate.              *)
Reserve(c) ==
  /\ callStage[c] = "arrived" /\ writer = "nobody"
  /\ keyRow' = Seeded
  /\ LET left == IF Committed(Seeded.settled) < KeyLimit
                   THEN KeyLimit - Committed(Seeded.settled) ELSE 0
     IN \/ /\ Cardinality(inWindow) < RateLimit
           /\ \E e \in {x \in Estimates \cup {left} : x = 0 \/ x <= left} :
                estimate' = [estimate EXCEPT ![c] = e]
           /\ held' = held \cup {c}
           /\ inWindow' = inWindow \cup {c}
           /\ callStage' = [callStage EXCEPT ![c] = "admitted"]
        \/ /\ \/ Cardinality(inWindow) >= RateLimit
              \/ \E e \in Estimates : e > 0 /\ e > left
           /\ callStage' = [callStage EXCEPT ![c] = "refused"]
           /\ UNCHANGED <<held, estimate, inWindow>>
  /\ UNCHANGED <<audited, auditCost, reported, writer>>

(* The window of a call passes: the next reserve deletes its rate event.   *)
RatePasses(c) ==
  /\ c \in inWindow
  /\ inWindow' = inWindow \ {c}
  /\ UNCHANGED <<keyRow, held, estimate, audited, auditCost, callStage, reported, writer>>

(* record_audit of a refused call: a line without a cost.                  *)
AuditRefusal(c) ==
  /\ callStage[c] = "refused" /\ writer = "nobody"
  /\ audited' = [audited EXCEPT ![c] = @ + 1]
  /\ callStage' = [callStage EXCEPT ![c] = "closed"]
  /\ UNCHANGED <<scopedStore, auditCost, reported, writer>>

(* The handler returns, with or without a cost, or raises.                 *)
Answer(c, costs) ==
  /\ callStage[c] = "admitted"
  /\ callStage' = [callStage EXCEPT ![c] = "answered"]
  /\ reported' = [reported EXCEPT ![c] = costs]
  /\ UNCHANGED <<scopedStore, auditVars, writer>>

HandlerFails(c) ==
  /\ callStage[c] = "admitted"
  /\ callStage' = [callStage EXCEPT ![c] = "failed"]
  /\ UNCHANGED <<scopedStore, auditVars, reported, writer>>

\* what settle charges: the reported cost, or without one the estimate
Charge(c) == IF reported[c] = {} THEN estimate[c] ELSE SumSet(reported[c])

\* Deliberately wrong: the hold is given back before the audit line is written
ReleaseThenAppend(c) ==
  /\ callStage[c] \in {"answered", "failed"} /\ writer = "nobody"
  /\ c \in held
  /\ held' = held \ {c}
  /\ audited' = [audited EXCEPT ![c] = @ + 1]
  /\ auditCost' = [auditCost EXCEPT ![c] = @ + Charge(c)]
  /\ callStage' = [callStage EXCEPT ![c] = "appended"]
  /\ writer' = c
  /\ UNCHANGED <<keyRow, estimate, inWindow, reported>>

(* settle, up to the audit line that its recorder appends.                 *)
SettleAppend(c) ==
  /\ callStage[c] \in {"answered", "failed"} /\ writer = "nobody"
  /\ c \in held
  /\ audited' = [audited EXCEPT ![c] = @ + 1]
  /\ auditCost' = [auditCost EXCEPT ![c] = @ + Charge(c)]
  /\ callStage' = [callStage EXCEPT ![c] = "appended"]
  /\ writer' = c
  /\ UNCHANGED <<scopedStore, reported>>

(* The rest of settle and its commit.                                      *)
SettleCommit(c) ==
  /\ callStage[c] = "appended" /\ writer = c
  /\ keyRow' = [keyRow EXCEPT !.settled = @ + Charge(c)]
  /\ held' = held \ {c}
  /\ callStage' = [callStage EXCEPT ![c] = "closed"]
  /\ writer' = "nobody"
  /\ UNCHANGED <<estimate, inWindow, auditVars, reported>>

(* settle raises: the store is locked for too long, the append fails, or   *)
(* the commit does. Nothing is settled and nobody tries again.             *)
SettleRaises(c) ==
  /\ callStage[c] \in {"answered", "failed", "appended"}
  /\ callStage' = [callStage EXCEPT ![c] = "lost"]
  /\ writer' = IF writer = c THEN "nobody" ELSE writer
  /\ UNCHANGED <<scopedStore, auditVars, reported>>

(* The server process of a call dies; an open transaction is rolled back.  *)
ServerDies(c) ==
  /\ callStage[c] \in {"refused", "admitted", "answered", "failed", "appended"}
  /\ callStage' = [callStage EXCEPT ![c] = "lost"]
  /\ writer' = IF writer = c THEN "nobody" ELSE writer
  /\ UNCHANGED <<scopedStore, auditVars, reported>>

ScopedNext ==
  \E c \in Calls :
    \/ Reserve(c) \/ RatePasses(c) \/ AuditRefusal(c) \/ HandlerFails(c)
    \/ \E costs \in {{}} \cup {{cost} : cost \in Costs} : Answer(c, costs)
    \/ SettleAppend(c) \/ SettleCommit(c) \/ SettleRaises(c) \/ ServerDies(c)

ScopedSpec == ScopedInit /\ [][ScopedNext]_scopedVars

-----------------------------------------------------------------------------
(* Properties *)

(* Every variable has its type.                                            *)
ScopedTypeOK ==
  /\ keyRow \in [seeded : BOOLEAN, settled : Nat]
  /\ held \subseteq Calls /\ inWindow \subseteq Calls
  /\ estimate \in [Calls -> Nat]
  /\ audited \in [Calls -> 0 .. 1]
  /\ auditCost \in [Calls -> Nat]
  /\ callStage \in [Calls -> ScopedStages]
  /\ reported \in [Calls -> SUBSET Nat]
  /\ writer \in Calls \cup {"nobody"}

\* no response reported more than the call had been admitted with
NoOverrun == \A c \in Calls : \A cost \in reported[c] : cost <= estimate[c]

(* As long as responses keep to their estimates, what the key has settled  *)
(* and holds never passes its budget, however calls, crashes and failed    *)
(* settlements of several processes interleave (reserve).                  *)
WithinKeyBudget ==
  NoOverrun /\ keyRow.seeded =>
    Committed(keyRow.settled) <= KeyLimit \/ Committed(keyRow.settled) <= PastSpend

(* What the audit log says the key has spent stays committed in the store: *)
(* a settlement that dies or fails between its audit line and its commit   *)
(* leaves the hold, and no later call gets that money (settle).            *)
AuditedSpendStaysCommitted ==
  NoOverrun /\ keyRow.seeded => AuditTotal <= Committed(keyRow.settled)

(* The key's money is safe on both sides: no call is admitted above the    *)
(* budget, and nothing the audit log has is spent a second time.           *)
KeyBudgetHolds == WithinKeyBudget /\ AuditedSpendStaysCommitted
=============================================================================
