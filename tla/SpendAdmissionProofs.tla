------------------------ MODULE SpendAdmissionProofs ------------------------
(***************************************************************************)
(* Proofs about SpendAdmission, for any callers, holds, windows and        *)
(* amounts.                                                                *)
(***************************************************************************)
EXTENDS SpendAdmission, FiniteSums, TLAPS

USE HoldsAssumption, AmountsAssumption, SpendLimitsAssumption, NoHoldAssumption

RowStates == {"none", "active", "settled", "refunded"}

(***************************************************************************)
(* The inductive invariant                                                 *)
(***************************************************************************)

Settling(c) == c.op \in {"settle", "overrun"}
PolicyLock(c) == IF c.op \in {"settle", "expose"} THEN {} ELSE {"policy"}

\* the locks of a call that has come to a given place
LocksOf(c) ==
  CASE c.pc \in {"idle", "policy"} -> {}
    [] c.pc \in {"db", "save"} -> PolicyLock(c)
    [] c.pc \in {"ledger", "close"} -> PolicyLock(c) \cup {Database(c)}
    [] OTHER -> PolicyLock(c) \cup {Database(c), "ledger"}

\* which calls come to which place, and what they are about
CallInv(c) ==
  /\ c.pc = "policy" => c.op \notin {"settle", "expose"}
  /\ c.pc \in {"append", "close"} => Settling(c)
  /\ c.pc \in {"siblings", "commit"} => ~Settling(c)
  /\ c.pc = "save" => c.op \in {"credit", "unfreeze"}
  /\ c.op \in {"reserve", "mark"} \/ Settling(c) => c.hold \in Holds
  /\ c.op \in {"credit", "unfreeze", "expose"} => c.hold = NoHold
  /\ Settling(c) => c.amount \in Charges /\ c.hold \in marked \ Unsent

CallsInv == \A p \in Callers : CallInv(call[p])

(* A call holds exactly the locks of its place, and no two calls hold one. *)
LocksInv ==
  /\ \A p \in Callers : held[p] = LocksOf(call[p])
  /\ \A p, q \in Callers : p # q => held[p] \cap held[q] = {}

(* A hold of sent work is not given back, and closes only when its         *)
(* event is in the ledger; a call past its append has written that event.  *)
HoldsInv ==
  /\ \A h \in marked : row[h] # "none" /\ (row[h] = "refunded" => h \in Unsent)
  /\ \A h \in Holds : row[h] = "settled" => h \in Booked(ledger)
  /\ \A p \in Callers : call[p].pc = "close" => call[p].hold \in Booked(ledger)

\* the open holds of the roots that a call does not lock
Elsewhere(c) == {h \in OpenHolds : Root(h) # Database(c)}

(* What a call under the policy lock has read still covers what is there:  *)
(* an identity found unused is unused, the holds of other roots are among  *)
(* those it counts, and a budget command saves with nothing sent unsettled.*)
ReadsOf(p) ==
  /\ call[p].op = "reserve" /\ Deciding(p) /\ ~read[p].known
       => row[call[p].hold] = "none"
  /\ call[p].pc = "commit" /\ call[p].op # "expose"
       => Elsewhere(call[p]) \subseteq read[p].others
  /\ call[p].pc = "save" => OpenHolds \cap marked = {}

ReadsInv == \A p \in Callers : ReadsOf(p)

AdmInv ==
  /\ AdmTypeOK
  /\ CallsInv
  /\ LocksInv
  /\ HoldsInv
  /\ ReadsInv
  /\ SnapshotIsCurrent
  /\ SentHoldsBelongToWallet

(***************************************************************************)
(* Types                                                                   *)
(***************************************************************************)

(* The ledger only grows, so a baseline stays the spend of an earlier one. *)
LEMMA BaselinesGrow ==
  ASSUME ledger \subseteq ledger'
  PROVE  Baselines \subseteq Baselines'
BY DEF Baselines

(* With the ledger unchanged or grown, what the calls have read keeps its  *)
(* type.                                                                   *)
LEMMA ReadsKeepType ==
  ASSUME NEW r \in ReadRecord, ledger \subseteq ledger'
  PROVE  r \in ReadRecord'
<1>1. Wallets \subseteq Wallets'
  BY BaselinesGrow DEF Wallets
<1> QED BY <1>1 DEF ReadRecord

(* An idle call and what it has read are of their types.                   *)
LEMMA IdleTypes == Idle \in CallRecord /\ NoRead \in ReadRecord /\ NoRead \in ReadRecord'
<1>1. [w \in Windows |-> 0] \in Periods
  BY DEF Periods
<1>2. NoWallet \in Wallets /\ NoWallet \in Wallets'
  BY DEF NoWallet, Wallets, Baselines
<1> QED BY <1>1, <1>2 DEF Idle, NoRead, CallRecord, ReadRecord, Ops, Steps, Waits

(* The locals of a call that returns are idle again.                       *)
LEMMA ReturnTypes ==
  ASSUME AdmTypeOK, NEW p \in Callers, Return(p), ledger' = ledger
  PROVE  /\ call' \in [Callers -> CallRecord]
         /\ read' \in [Callers -> ReadRecord']
         /\ held' \in [Callers -> SUBSET Locks]
<1>1. \A q \in Callers : read[q] \in ReadRecord'
  BY ReadsKeepType DEF AdmTypeOK
<1> QED BY <1>1, IdleTypes DEF AdmTypeOK, Return

(* Going on keeps the type of the calls.                                   *)
LEMMA GotoTypes ==
  ASSUME AdmTypeOK, NEW p \in Callers, NEW pc \in Steps, Goto(p, pc)
  PROVE  call' \in [Callers -> CallRecord]
BY DEF AdmTypeOK, Goto, CallRecord

(* A call that gets a lock keeps its type, and holds locks.                *)
LEMMA AcquireTypes ==
  ASSUME AdmTypeOK, NEW p \in Callers, Acquire(p)
  PROVE  /\ call' \in [Callers -> CallRecord]
         /\ held' \in [Callers -> SUBSET Locks]
<1>1. call[p].pc \in Waits /\ call[p].op \in Ops
  BY DEF Acquire, AdmTypeOK, CallRecord
<1>2. After(call[p].op, call[p].pc) \in Steps
  BY <1>1 DEF After, Waits, Steps
<1>3. Wanted(call[p]) \in Locks
  BY <1>1 DEF Wanted, Database, Root, Locks, Roots, Waits
<1> QED BY <1>2, <1>3, GotoTypes DEF Acquire, AdmTypeOK

(* Repaired rows are rows.                                                 *)
LEMMA RepairTypes ==
  ASSUME AdmTypeOK, NEW p \in Callers, NEW dropped
  PROVE  RepairedRows(p, dropped) \in [Holds -> RowStates]
BY DEF AdmTypeOK, RepairedRows, RowStates

(* The wallet a hold is charged to is a wallet.                            *)
LEMMA WalletForTypes ==
  ASSUME AdmTypeOK, NEW h
  PROVE  WalletFor(wallet, h) \in Wallets
<1>1. NoWallet \in Wallets
  BY DEF NoWallet, Wallets, Baselines
<1> QED BY <1>1 DEF AdmTypeOK, WalletFor

(***************************************************************************)
(* Each kind of step keeps the types                                       *)
(***************************************************************************)

(* Beginning a call keeps the types.                                       *)
LEMMA BeginTypes ==
  ASSUME AdmTypeOK, NEW p \in Callers, BeginStep(p)
  PROVE  AdmTypeOK'
<1>1. PICK op \in Ops, h \in Holds \cup {NoHold}, amount \in Nat : Begin(p, op, h, amount)
  BY DEF BeginStep, BeginReserve, BeginMark, BeginSettle, BeginExpose, BeginUnfreeze,
         BeginCredit, Ops, AdmTypeOK
<1>2. FirstWait(op) \in Steps
  BY DEF FirstWait, Steps, Waits
<1>3. call' \in [Callers -> CallRecord]
  BY <1>1, <1>2 DEF Begin, AdmTypeOK, CallRecord
<1>4. ReadRecord' = ReadRecord /\ Wallets' = Wallets
  BY <1>1 DEF Begin, ReadRecord, Wallets, Baselines
<1> QED BY <1>1, <1>3, <1>4 DEF Begin, AdmTypeOK, policyVars, rowVars, worldVars

(* Getting a lock, with the reads that follow, keeps the types.            *)
LEMMA LockTypes ==
  ASSUME AdmTypeOK, NEW p \in Callers, TakePolicy(p) \/ TakeDb(p) \/ TakeLedger(p)
  PROVE  AdmTypeOK'
<1> USE DEF AdmTypeOK
<1>1. /\ Acquire(p)
      /\ UNCHANGED <<limit, wallet, fundings, rowVars, ledger, worldVars, faults>>
      /\ frozen' \in BOOLEAN
  BY DEF TakePolicy, TakeDb, TakeLedger, policyVars
<1>2. ReadRecord' = ReadRecord /\ Wallets' = Wallets
  BY <1>1 DEF ReadRecord, Wallets, Baselines
<1>3. WalletFor(wallet, call[p].hold) \in Wallets
  BY WalletForTypes
<1>4. AuthorityRead(p) \in ReadRecord
  <2>1. EffectiveLimit \in Nat
    BY DEF EffectiveLimit
  <2>2. (call[p].hold \in UsedHolds) \in BOOLEAN
    OBVIOUS
  <2>3. read[p] \in ReadRecord
    OBVIOUS
  <2> HIDE DEF AdmTypeOK
  <2>4. period \in Periods /\ aged \in SUBSET Holds
    BY DEF AdmTypeOK
  <2> QED BY <1>3, <2>1, <2>2, <2>3, <2>4 DEF AuthorityRead, ReadRecord
<1>5. read[p] \in ReadRecord /\ period \in Periods
  OBVIOUS
<1>6. /\ [read[p] EXCEPT !.now = period] \in ReadRecord
      /\ [read[p] EXCEPT !.seen = ledger] \in ReadRecord
  BY ONLY <1>5 DEF ReadRecord
<1>7. read' \in [Callers -> ReadRecord]
  BY <1>4, <1>6 DEF TakePolicy, TakeDb, TakeLedger
<1> QED BY <1>1, <1>2, <1>7, AcquireTypes DEF rowVars, worldVars

(* Reservations, marks and views keep the types.                           *)
LEMMA DecisionTypes ==
  ASSUME AdmTypeOK, NEW p \in Callers,
         ReadSiblings(p) \/ CommitHold(p) \/ CommitMark(p) \/ Refuse(p) \/ Expose(p)
  PROVE  AdmTypeOK'
<1>1. UNCHANGED <<policyVars, ledger, worldVars, faults>>
  BY DEF ReadSiblings, CommitHold, CommitMark, Refuse, Expose
<1>2. ReadRecord' = ReadRecord /\ Wallets' = Wallets
  BY <1>1 DEF ReadRecord, Wallets, Baselines
<1>3. CASE ReadSiblings(p)
  <2>1. UNION {Unsettled(root, read[p].seen) : root \in Roots \ {Database(call[p])}}
          \in SUBSET Holds
    BY DEF Unsettled, ActiveRows
  <2>2. read' \in [Callers -> ReadRecord]
    BY <1>3, <2>1 DEF ReadSiblings, AdmTypeOK, ReadRecord
  <2>3. call' \in [Callers -> CallRecord]
    BY <1>3, GotoTypes DEF ReadSiblings, Steps
  <2> QED BY <1>1, <1>2, <1>3, <2>2, <2>3 DEF ReadSiblings, AdmTypeOK, policyVars, rowVars, worldVars
<1>4. CASE CommitHold(p)
  <2>1. row' \in [Holds -> RowStates]
    BY <1>4, RepairTypes DEF CommitHold, RowStates
  <2>2. tag' \in [Holds -> Nat]
    BY <1>4 DEF CommitHold, AdmTypeOK, ReadRecord, Wallets
  <2> QED BY <1>1, <1>2, <1>4, <2>1, <2>2, ReturnTypes DEF CommitHold, AdmTypeOK, RowStates, policyVars, worldVars
<1>5. CASE CommitMark(p)
  <2>1. call[p].hold \in Holds
    BY <1>5 DEF CommitMark, CanMark, Own, Unsettled, ActiveRows
  <2> QED BY <1>1, <1>2, <1>5, <2>1, ReturnTypes, RepairTypes DEF CommitMark, AdmTypeOK, RowStates, policyVars, worldVars
<1>6. CASE Refuse(p)
  BY <1>1, <1>2, <1>6, ReturnTypes DEF Refuse, AdmTypeOK, policyVars, rowVars, worldVars
<1>7. CASE Expose(p)
  BY <1>1, <1>2, <1>7, ReturnTypes, RepairTypes DEF Expose, AdmTypeOK, RowStates, policyVars, worldVars
<1> QED BY <1>3, <1>4, <1>5, <1>6, <1>7

(* The budget commands keep the types.                                     *)
LEMMA BudgetCommandTypes ==
  ASSUME AdmTypeOK, NEW p \in Callers,
         ExposeForCredit(p) \/ ExposeForUnfreeze(p) \/ SaveCredit(p) \/ SaveUnfreeze(p)
  PROVE  AdmTypeOK'
<1>1. UNCHANGED <<limit, marked, tag, ledger, worldVars, faults>>
  BY DEF ExposeForCredit, ExposeForUnfreeze, ExposeThen, SaveCredit, SaveUnfreeze, policyVars, rowVars
<1>2. ReadRecord' = ReadRecord /\ Wallets' = Wallets
  BY <1>1 DEF ReadRecord, Wallets, Baselines
<1>3. ASSUME NEW ok \in BOOLEAN, ExposeThen(p, ok)
      PROVE  AdmTypeOK'
  <2>1. CASE ok
    <3>1. call' \in [Callers -> CallRecord]
      BY <1>3, <2>1, GotoTypes DEF ExposeThen, Steps
    <3>2. held' \in [Callers -> SUBSET Locks]
      BY <1>3, <2>1 DEF ExposeThen, AdmTypeOK, Locks
    <3> QED BY <1>1, <1>2, <1>3, <2>1, <3>1, <3>2, RepairTypes
            DEF ExposeThen, AdmTypeOK, RowStates, policyVars, worldVars
  <2>2. CASE ~ok
    BY <1>1, <1>2, <1>3, <2>2, ReturnTypes, RepairTypes
       DEF ExposeThen, AdmTypeOK, RowStates, policyVars, worldVars
  <2> QED BY <2>1, <2>2
<1>4. CASE ExposeForCredit(p)
  BY <1>3, <1>4 DEF ExposeForCredit
<1>5. CASE ExposeForUnfreeze(p)
  BY <1>3, <1>5 DEF ExposeForUnfreeze, CanUnfreeze
<1>6. CASE SaveCredit(p)
  <2>1. Charged(read[p].seen) \in Baselines
    BY DEF AdmTypeOK, ReadRecord, Baselines
  <2>2. call[p].amount \in Nat /\ wallet \in Wallets /\ fundings \in Nat
    BY DEF AdmTypeOK, CallRecord
  <2>3. wallet' \in Wallets
    BY <1>6, <2>1, <2>2 DEF SaveCredit, Wallets
  <2> QED BY <1>1, <1>2, <1>6, <2>2, <2>3, ReturnTypes DEF SaveCredit, AdmTypeOK, rowVars, worldVars
<1>7. CASE SaveUnfreeze(p)
  BY <1>1, <1>2, <1>7, ReturnTypes DEF SaveUnfreeze, AdmTypeOK, rowVars, worldVars
<1> QED BY <1>4, <1>5, <1>6, <1>7

(* The append and the close of a settlement keep the types.                *)
LEMMA SettlementTypes ==
  ASSUME AdmTypeOK, CallsInv, NEW p \in Callers,
         AppendNew(p) \/ AppendAgain(p) \/ AppendConflict(p) \/ CloseRow(p)
  PROVE  AdmTypeOK'
<1>1. UNCHANGED <<policyVars, marked, tag, worldVars, faults>>
  BY DEF AppendNew, AppendAgain, AppendConflict, CloseRow, rowVars
<1>2. ledger \subseteq ledger'
  BY DEF AppendNew, AppendAgain, AppendConflict, CloseRow
<1>3. Wallets \subseteq Wallets'
  BY <1>2, BaselinesGrow DEF Wallets
<1>4. call[p].pc \in {"append", "close"}
  BY DEF AppendNew, AppendAgain, AppendConflict, CloseRow
<1>5. call[p].hold \in Holds /\ call[p].amount \in Charges
  BY <1>4 DEF CallsInv, CallInv, Settling, AdmTypeOK
<1>6. CASE AppendNew(p) \/ AppendAgain(p)
  <2>1. call' \in [Callers -> CallRecord]
    BY <1>6, GotoTypes DEF AppendNew, AppendAgain, Steps
  <2>2. read' \in [Callers -> ReadRecord']
    BY <1>2, <1>6, ReadsKeepType DEF AppendNew, AppendAgain, AdmTypeOK
  <2>3. held' \in [Callers -> SUBSET Locks]
    BY <1>6 DEF AppendNew, AppendAgain, AdmTypeOK
  <2>4. [hold |-> call[p].hold, cost |-> call[p].amount, at |-> read[p].now] \in Events
    BY <1>5 DEF AdmTypeOK, ReadRecord, Events
  <2>5. ledger' \subseteq Events
    BY <1>6, <2>4 DEF AppendNew, AppendAgain, AdmTypeOK
  <2> QED BY <1>1, <1>3, <1>6, <2>1, <2>2, <2>3, <2>5
          DEF AppendNew, AppendAgain, AdmTypeOK, policyVars, rowVars, worldVars
<1>7. CASE AppendConflict(p) \/ CloseRow(p)
  <2>1. ledger' = ledger /\ Return(p)
    BY <1>7 DEF AppendConflict, CloseRow
  <2>2. row' \in [Holds -> RowStates]
    BY <1>7 DEF AppendConflict, CloseRow, AdmTypeOK, rowVars, RowStates
  <2> QED BY <1>1, <1>3, <2>1, <2>2, ReturnTypes
          DEF AdmTypeOK, RowStates, policyVars, worldVars
<1> QED BY <1>6, <1>7

(* Refunds, operator edits and the clock keep the types.                   *)
LEMMA EnvironmentTypes ==
  ASSUME AdmTypeOK, EnvironmentStep
  PROVE  AdmTypeOK'
<1>1. UNCHANGED <<fundings, marked, tag, ledger, localVars, faults>>
  BY DEF EnvironmentStep, Refund, Age, SetLimit, Freeze, ClearWallet, NewPeriod, policyVars, rowVars
<1>2. ReadRecord' = ReadRecord /\ Wallets' = Wallets
  BY <1>1 DEF ReadRecord, Wallets, Baselines
<1>3. limit' \in Nat /\ frozen' \in BOOLEAN /\ wallet' \in Wallets
  <2>1. NoWallet \in Wallets
    BY DEF NoWallet, Wallets, Baselines
  <2> QED BY <2>1 DEF EnvironmentStep, Refund, Age, SetLimit, Freeze, ClearWallet,
                      NewPeriod, policyVars, AdmTypeOK
<1>4. row' \in [Holds -> RowStates]
  BY DEF EnvironmentStep, Refund, Age, SetLimit, Freeze, ClearWallet, NewPeriod,
         rowVars, AdmTypeOK, RowStates
<1>5. period' \in Periods
  <2>1. CASE \E S \in Rollovers : NewPeriod(S)
    BY <2>1 DEF NewPeriod, AdmTypeOK, Periods
  <2>2. CASE period' = period
    BY <2>2 DEF AdmTypeOK
  <2> QED BY <2>1, <2>2 DEF EnvironmentStep, Refund, Age, SetLimit, Freeze, ClearWallet, worldVars
<1>6. aged' \subseteq Holds
  BY DEF EnvironmentStep, Refund, Age, SetLimit, Freeze, ClearWallet, NewPeriod, worldVars, AdmTypeOK
<1> QED BY <1>1, <1>2, <1>3, <1>4, <1>5, <1>6 DEF AdmTypeOK, RowStates, localVars

(* Giving up and dying keep the types.                                     *)
LEMMA FailureTypes ==
  ASSUME AdmTypeOK, NEW p \in Callers, GiveUp(p) \/ Crash(p)
  PROVE  AdmTypeOK'
<1>1. Return(p) /\ UNCHANGED <<policyVars, rowVars, ledger, worldVars>> /\ faults' \in Nat
  BY DEF GiveUp, Crash, AdmTypeOK
<1>2. ReadRecord' = ReadRecord /\ Wallets' = Wallets
  BY <1>1 DEF ReadRecord, Wallets, Baselines
<1> QED BY <1>1, <1>2, ReturnTypes DEF AdmTypeOK, policyVars, rowVars, worldVars

(* Every step keeps the types.                                             *)
LEMMA TypeStep ==
  ASSUME AdmTypeOK, CallsInv, [Next]_vars
  PROVE  AdmTypeOK'
<1>1. CASE UNCHANGED vars
  <2>1. ReadRecord' = ReadRecord /\ Wallets' = Wallets
    BY <1>1 DEF vars, ReadRecord, Wallets, Baselines
  <2> QED BY <1>1, <2>1 DEF vars, policyVars, rowVars, worldVars, localVars, AdmTypeOK
<1>2. CASE EnvironmentStep
  BY <1>2, EnvironmentTypes
<1>3. ASSUME NEW p \in Callers, BeginStep(p) \/ CallStep(p) \/ GiveUp(p) \/ Crash(p)
      PROVE  AdmTypeOK'
  BY <1>3, BeginTypes, LockTypes, DecisionTypes, BudgetCommandTypes, SettlementTypes,
     FailureTypes DEF CallStep
<1> QED BY <1>1, <1>2, <1>3 DEF Next

(***************************************************************************)
(* Calls and locks                                                         *)
(***************************************************************************)

(* No step unmarks a hold.                                                 *)
LEMMA MarksStay ==
  ASSUME [Next]_vars
  PROVE  marked \subseteq marked'
<1>1. CASE UNCHANGED vars
  BY <1>1 DEF vars, rowVars
<1>2. CASE EnvironmentStep
  BY <1>2 DEF EnvironmentStep, Refund, SetLimit, Freeze, ClearWallet, NewPeriod, Age, rowVars
<1>3. ASSUME NEW p \in Callers, BeginStep(p) \/ GiveUp(p) \/ Crash(p)
      PROVE  marked \subseteq marked'
  BY <1>3 DEF BeginStep, BeginReserve, BeginMark, BeginSettle, BeginExpose, BeginUnfreeze,
              BeginCredit, Begin, GiveUp, Crash, rowVars
<1>4. ASSUME NEW p \in Callers, CallStep(p)
      PROVE  marked \subseteq marked'
  BY <1>4 DEF CallStep, TakePolicy, TakeDb, TakeLedger, ReadSiblings, CommitHold, CommitMark,
              Refuse, Expose, ExposeForCredit, ExposeForUnfreeze, ExposeThen, SaveCredit,
              SaveUnfreeze, AppendNew, AppendAgain, AppendConflict, CloseRow, rowVars
<1> QED BY <1>1, <1>2, <1>3, <1>4 DEF Next

\* what a step of p does to its place and its locks
Begins(p) ==
  \E op \in Ops, h \in Holds \cup {NoHold}, amount \in Nat :
    /\ Begin(p, op, h, amount)
    /\ CallInv([op |-> op, hold |-> h, amount |-> amount, pc |-> FirstWait(op)])
Counts(p) ==
  call[p].pc = "siblings" /\ Goto(p, "commit") /\ UNCHANGED held
Keeps(p) ==
  /\ call[p].pc = "commit" /\ call[p].op \in {"credit", "unfreeze"}
  /\ Goto(p, "save") /\ held' = [held EXCEPT ![p] = {"policy"}]
Appends(p) ==
  /\ call[p].pc = "append" /\ Goto(p, "close")
  /\ held' = [held EXCEPT ![p] = @ \ {"ledger"}]
Moves(p) ==
  Begins(p) \/ Acquire(p) \/ Return(p) \/ Counts(p) \/ Keeps(p) \/ Appends(p)

(* A call that begins is one that can wait where it begins.                *)
LEMMA BeginStepsBegin ==
  ASSUME AdmTypeOK, NEW p \in Callers, BeginStep(p)
  PROVE  Begins(p)
<1> USE DEF CallInv, FirstWait, Settling, Ops
<1>1. CASE \E h \in Holds : BeginReserve(p, h) \/ BeginMark(p, h)
  BY <1>1 DEF BeginReserve, BeginMark, Begins
<1>2. ASSUME NEW h \in Holds, NEW cost \in Charges, BeginSettle(p, h, cost)
      PROVE  Begins(p)
  BY <1>2 DEF BeginSettle, Begins
<1>3. CASE BeginExpose(p) \/ BeginUnfreeze(p)
  BY <1>3 DEF BeginExpose, BeginUnfreeze, Begins
<1>4. CASE \E credit \in Credits : BeginCredit(p, credit)
  BY <1>4 DEF BeginCredit, Begins
<1> QED BY <1>1, <1>2, <1>3, <1>4 DEF BeginStep

(* Every step of a process is one of these moves.                          *)
LEMMA StepsMove ==
  ASSUME AdmTypeOK, NEW p \in Callers,
         BeginStep(p) \/ CallStep(p) \/ GiveUp(p) \/ Crash(p)
  PROVE  Moves(p)
<1>1. CASE BeginStep(p)
  BY <1>1, BeginStepsBegin DEF Moves
<1>2. CASE TakePolicy(p) \/ TakeDb(p) \/ TakeLedger(p)
  BY <1>2 DEF TakePolicy, TakeDb, TakeLedger, Moves
<1>3. CASE ReadSiblings(p)
  BY <1>3 DEF ReadSiblings, Moves, Counts
<1>4. CASE ExposeForCredit(p) \/ ExposeForUnfreeze(p)
  BY <1>4 DEF ExposeForCredit, ExposeForUnfreeze, ExposeThen, Moves, Keeps
<1>5. CASE AppendNew(p) \/ AppendAgain(p)
  BY <1>5 DEF AppendNew, AppendAgain, Moves, Appends
<1>6. CASE \/ CommitHold(p) \/ CommitMark(p) \/ Refuse(p) \/ Expose(p) \/ SaveCredit(p)
           \/ SaveUnfreeze(p) \/ AppendConflict(p) \/ CloseRow(p) \/ GiveUp(p) \/ Crash(p)
  BY <1>6 DEF CommitHold, CommitMark, Refuse, Expose, SaveCredit, SaveUnfreeze,
              AppendConflict, CloseRow, GiveUp, Crash, Moves
<1> QED BY <1>1, <1>2, <1>3, <1>4, <1>5, <1>6 DEF CallStep

(* A move leaves the locals of the other processes alone.                  *)
LEMMA MovesAreLocal ==
  ASSUME AdmTypeOK, NEW p \in Callers, Moves(p), NEW q \in Callers, q # p
  PROVE  call'[q] = call[q] /\ held'[q] = held[q]
BY DEF Moves, Begins, Begin, Acquire, Return, Counts, Keeps, Appends, Goto, AdmTypeOK

(* A call that moves is still one that can be at its place.                *)
LEMMA MovedCall ==
  ASSUME AdmTypeOK, CallsInv, NEW p \in Callers, Moves(p), marked \subseteq marked'
  PROVE  CallInv(call[p])'
<1> USE DEF AdmTypeOK
<1>1. CallInv(call[p])
  BY DEF CallsInv
<1>2. CASE Begins(p)
  BY <1>2 DEF Begins, Begin, CallInv, Settling
<1>3. CASE Acquire(p)
  <2>1. call'[p] = [call[p] EXCEPT !.pc = After(call[p].op, call[p].pc)]
    BY <1>3 DEF Acquire, Goto
  <2>2. call[p].pc \in Waits
    BY <1>3 DEF Acquire
  <2> QED BY <1>1, <2>1, <2>2 DEF CallInv, Settling, After, Waits, CallRecord, Ops
<1>4. CASE Return(p)
  BY <1>4 DEF Return, Idle, CallInv, Settling
<1>5. CASE Counts(p) \/ Keeps(p) \/ Appends(p)
  BY <1>1, <1>5 DEF Counts, Keeps, Appends, Goto, CallInv, Settling, CallRecord
<1> QED BY <1>2, <1>3, <1>4, <1>5 DEF Moves

(* Every step keeps the calls consistent with their places.                *)
LEMMA CallsStep ==
  ASSUME AdmTypeOK, CallsInv, [Next]_vars
  PROVE  CallsInv'
<1>1. marked \subseteq marked'
  BY MarksStay
<1>2. CASE call' = call
  BY <1>1, <1>2 DEF CallsInv, CallInv, Settling
<1>3. ASSUME NEW p \in Callers, Moves(p)
      PROVE  CallsInv'
  <2> SUFFICES ASSUME NEW q \in Callers
               PROVE  CallInv(call[q])'
    BY DEF CallsInv
  <2>1. CASE q = p
    BY <1>1, <1>3, <2>1, MovedCall
  <2>2. CASE q # p
    BY <1>1, <1>3, <2>2, MovesAreLocal DEF CallsInv, CallInv, Settling
  <2> QED BY <2>1, <2>2
<1>4. EnvironmentStep \/ UNCHANGED vars => call' = call
  BY DEF EnvironmentStep, Refund, SetLimit, Freeze, ClearWallet, NewPeriod, Age, vars, localVars
<1> QED BY <1>2, <1>3, <1>4, StepsMove DEF Next

(* A move of p leaves it the locks of its new place.                       *)
LEMMA MovedLocks ==
  ASSUME AdmTypeOK, CallsInv, LocksInv, NEW p \in Callers, Moves(p)
  PROVE  held'[p] = LocksOf(call'[p])
<1> USE DEF AdmTypeOK
<1>1. held[p] = LocksOf(call[p]) /\ CallInv(call[p])
  BY DEF LocksInv, CallsInv
<1>2. CASE Begins(p)
  BY <1>1, <1>2 DEF Begins, Begin, Busy, LocksOf, PolicyLock, FirstWait
<1>3. CASE Acquire(p)
  <2>1. call'[p] = [call[p] EXCEPT !.pc = After(call[p].op, call[p].pc)]
    BY <1>3 DEF Acquire, Goto
  <2>2. held'[p] = held[p] \cup {Wanted(call[p])}
    BY <1>3 DEF Acquire
  <2>3. call[p].pc \in Waits
    BY <1>3 DEF Acquire
  <2> QED BY <1>1, <2>1, <2>2, <2>3
          DEF CallInv, LocksOf, PolicyLock, Wanted, Database, After, Settling, Waits, CallRecord, Ops
<1>4. CASE Return(p)
  BY <1>4 DEF Return, Idle, LocksOf
<1>5. CASE Counts(p)
  BY <1>1, <1>5 DEF Counts, Goto, LocksOf, PolicyLock, Database, CallRecord
<1>6. CASE Keeps(p)
  BY <1>1, <1>6 DEF Keeps, Goto, LocksOf, PolicyLock, Database, CallRecord
<1>7. CASE Appends(p)
  <2>1. "ledger" \notin PolicyLock(call[p]) \cup {Database(call[p])}
    BY DEF PolicyLock, Database, Root
  <2> QED BY <1>1, <1>7, <2>1 DEF Appends, Goto, LocksOf, PolicyLock, Database, CallRecord
<1> QED BY <1>2, <1>3, <1>4, <1>5, <1>6, <1>7 DEF Moves

(* Only by acquiring does a call come to hold a lock it did not hold.      *)
LEMMA MovesTakeNothing ==
  ASSUME AdmTypeOK, CallsInv, LocksInv, NEW p \in Callers, Moves(p), ~Acquire(p)
  PROVE  held'[p] \subseteq held[p]
<1> USE DEF AdmTypeOK
<1>1. CASE Begins(p) \/ Counts(p)
  BY <1>1 DEF Begins, Begin, Counts
<1>2. CASE Return(p)
  BY <1>2 DEF Return
<1>3. CASE Keeps(p)
  <2>1. held[p] = LocksOf(call[p])
    BY DEF LocksInv
  <2>2. "policy" \in held[p]
    BY <1>3, <2>1 DEF Keeps, LocksOf, PolicyLock
  <2> QED BY <1>3, <2>2 DEF Keeps
<1>4. CASE Appends(p)
  BY <1>4 DEF Appends
<1> QED BY <1>1, <1>2, <1>3, <1>4 DEF Moves

(* Every step keeps the locks exclusive and those of the places.           *)
LEMMA LocksStep ==
  ASSUME AdmTypeOK, CallsInv, LocksInv, [Next]_vars
  PROVE  LocksInv'
<1>1. CASE UNCHANGED localVars
  BY <1>1 DEF LocksInv, localVars, LocksOf, PolicyLock, Database
<1>2. ASSUME NEW p \in Callers, Moves(p)
      PROVE  LocksInv'
  <2>1. ASSUME NEW q \in Callers
        PROVE  held'[q] = LocksOf(call'[q])
    BY <1>2, <2>1, MovedLocks, MovesAreLocal DEF LocksInv
  <2>2. ASSUME NEW q \in Callers, q # p
        PROVE  held'[p] \cap held'[q] = {}
    <3>1. held'[q] = held[q] /\ held[p] \cap held[q] = {}
      BY <1>2, <2>2, MovesAreLocal DEF LocksInv
    <3>2. CASE Acquire(p)
      BY <3>1, <3>2 DEF Acquire, Blocked, Taken, AdmTypeOK
    <3>3. CASE ~Acquire(p)
      BY <1>2, <3>1, <3>3, MovesTakeNothing
    <3> QED BY <3>2, <3>3
  <2>3. ASSUME NEW q \in Callers, NEW r \in Callers, q # r
        PROVE  held'[q] \cap held'[r] = {}
    BY <1>2, <2>2, <2>3, MovesAreLocal DEF LocksInv
  <2> QED BY <2>1, <2>3 DEF LocksInv
<1>3. EnvironmentStep \/ UNCHANGED vars => UNCHANGED localVars
  BY DEF EnvironmentStep, Refund, SetLimit, Freeze, ClearWallet, NewPeriod, Age, vars, localVars
<1> QED BY <1>1, <1>2, <1>3, StepsMove DEF Next

(***************************************************************************)
(* What a lock protects                                                    *)
(***************************************************************************)

ProcessStep(p) == BeginStep(p) \/ CallStep(p) \/ GiveUp(p) \/ Crash(p)

(* A step of one process leaves what the others have read alone.           *)
LEMMA ReadsAreLocal ==
  ASSUME AdmTypeOK, NEW p \in Callers, ProcessStep(p), NEW q \in Callers, q # p
  PROVE  call'[q] = call[q] /\ held'[q] = held[q] /\ read'[q] = read[q]
<1>1. call'[q] = call[q] /\ held'[q] = held[q]
  BY StepsMove, MovesAreLocal DEF ProcessStep
<1> DEFINE Local == read' = read \/ \E r : read' = [read EXCEPT ![p] = r]
<1>2. CASE BeginStep(p) \/ GiveUp(p) \/ Crash(p)
  <2>1. Local
    BY <1>2 DEF BeginStep, BeginReserve, BeginMark, BeginSettle, BeginExpose, BeginUnfreeze,
                BeginCredit, Begin, GiveUp, Crash, Return
  <2> QED BY <1>1, <2>1 DEF AdmTypeOK
<1>3. CASE CallStep(p)
  <2>1. Local
    BY <1>3 DEF CallStep, TakePolicy, TakeDb, TakeLedger, ReadSiblings, CommitHold, CommitMark,
                Refuse, Expose, ExposeForCredit, ExposeForUnfreeze, ExposeThen, SaveCredit,
                SaveUnfreeze, AppendNew, AppendAgain, AppendConflict, CloseRow, Return
  <2> QED BY <1>1, <2>1 DEF AdmTypeOK
<1> QED BY <1>2, <1>3 DEF ProcessStep

\* no identity is used and no hold opens
NothingOpens ==
  /\ \A h \in Holds : row[h] = "none" => row'[h] = "none"
  /\ \A h \in Holds : row'[h] = "active" => row[h] = "active"

(* Repairing and expiring rows opens none.                                 *)
LEMMA RepairOpensNothing ==
  ASSUME AdmTypeOK, NEW p \in Callers,
         NEW dropped, \A h \in dropped : h \in Holds => row[h] = "active",
         row' = RepairedRows(p, dropped)
  PROVE  NothingOpens
BY DEF RepairedRows, ActiveRows, NothingOpens, AdmTypeOK

(* Only the admission of a reservation opens a hold.                       *)
LEMMA OnlyAdmissionOpens ==
  ASSUME AdmTypeOK, CallsInv, HoldsInv, NEW p \in Callers, ProcessStep(p), ~CommitHold(p)
  PROVE  NothingOpens
<1> USE DEF AdmTypeOK
<1>1. CASE UNCHANGED row
  BY <1>1 DEF NothingOpens
<1>2. CASE BeginStep(p) \/ GiveUp(p) \/ Crash(p)
  BY <1>1, <1>2 DEF BeginStep, BeginReserve, BeginMark, BeginSettle, BeginExpose, BeginUnfreeze,
              BeginCredit, Begin, GiveUp, Crash, rowVars
<1>3. CASE \/ TakePolicy(p) \/ TakeDb(p) \/ TakeLedger(p) \/ ReadSiblings(p) \/ Refuse(p)
           \/ SaveCredit(p) \/ SaveUnfreeze(p)
           \/ AppendNew(p) \/ AppendAgain(p) \/ AppendConflict(p)
  BY <1>1, <1>3 DEF TakePolicy, TakeDb, TakeLedger, ReadSiblings, Refuse, SaveCredit, SaveUnfreeze,
              AppendNew, AppendAgain, AppendConflict, rowVars
<1>4. CASE CommitMark(p)
  <2>1. \A h \in Expired(p) : row[h] = "active"
    BY DEF Expired, Unsettled, ActiveRows
  <2> QED BY <1>4, <2>1, RepairOpensNothing DEF CommitMark
<1>5. CASE Expose(p) \/ ExposeForCredit(p) \/ ExposeForUnfreeze(p)
  <2>1. row' = RepairedRows(p, {})
    BY <1>5 DEF Expose, ExposeForCredit, ExposeForUnfreeze, ExposeThen
  <2> QED BY <2>1, RepairOpensNothing
<1>6. CASE CloseRow(p)
  <2>1. call[p].hold \in marked
    BY <1>6 DEF CloseRow, CallsInv, CallInv
  <2>2. call[p].hold \in Holds /\ row[call[p].hold] # "none"
    BY <2>1 DEF HoldsInv
  <2> QED BY <1>6, <2>2 DEF CloseRow, NothingOpens
<1> QED BY <1>2, <1>3, <1>4, <1>5, <1>6 DEF ProcessStep, CallStep

\* what the policy lock protects
PolicyStays ==
  UNCHANGED <<limit, frozen, wallet, marked>> /\ NothingOpens

(* The budget, the wallet, the marks and the admission of holds are only   *)
(* changed by whoever takes or holds the policy lock.                      *)
LEMMA PolicyIsLocked ==
  ASSUME AdmTypeOK, CallsInv, LocksInv, HoldsInv, NEW p \in Callers, ProcessStep(p),
         NEW q \in Callers, q # p, "policy" \in held[q]
  PROVE  PolicyStays
<1>1. "policy" \notin held[p] /\ Taken("policy") /\ held[p] = LocksOf(call[p])
  BY DEF LocksInv, Taken
<1>2. ~TakePolicy(p)
  BY <1>1 DEF TakePolicy, Acquire, Blocked, Wanted
<1>3. ~(SaveCredit(p) \/ SaveUnfreeze(p) \/ CommitHold(p) \/ CommitMark(p))
  BY <1>1 DEF SaveCredit, SaveUnfreeze, CommitHold, CommitMark, LocksOf, PolicyLock
<1>4. NothingOpens
  BY <1>3, OnlyAdmissionOpens
<1>5. CASE BeginStep(p) \/ GiveUp(p) \/ Crash(p)
  BY <1>4, <1>5 DEF BeginStep, BeginReserve, BeginMark, BeginSettle, BeginExpose, BeginUnfreeze,
                    BeginCredit, Begin, GiveUp, Crash, rowVars, policyVars, PolicyStays
<1>6. CASE CallStep(p)
  BY <1>2, <1>3, <1>4, <1>6
     DEF CallStep, TakeDb, TakeLedger, ReadSiblings, Refuse, Expose, ExposeForCredit,
         ExposeForUnfreeze, ExposeThen, AppendNew, AppendAgain, AppendConflict, CloseRow,
         rowVars, policyVars, PolicyStays
<1> QED BY <1>5, <1>6 DEF ProcessStep

(* The operator's own edits wait for the policy lock, too.                 *)
LEMMA PolicyIsLockedOutside ==
  ASSUME AdmTypeOK, EnvironmentStep, NEW q \in Callers, "policy" \in held[q]
  PROVE  PolicyStays
<1> USE DEF AdmTypeOK
<1>1. Taken("policy")
  BY DEF Taken
<1> QED BY <1>1 DEF EnvironmentStep, Refund, Age, SetLimit, Freeze, ClearWallet, NewPeriod,
                    rowVars, policyVars, PolicyStays, NothingOpens

(* Only the settlement that holds the ledger lock appends to the ledger.   *)
LEMMA LedgerWriter ==
  ASSUME NEW p \in Callers, ProcessStep(p), ~AppendNew(p)
  PROVE  ledger' = ledger
<1>1. CASE BeginStep(p) \/ GiveUp(p) \/ Crash(p)
  BY <1>1 DEF BeginStep, BeginReserve, BeginMark, BeginSettle, BeginExpose, BeginUnfreeze,
              BeginCredit, Begin, GiveUp, Crash
<1>2. CASE CallStep(p)
  BY <1>2 DEF CallStep, TakePolicy, TakeDb, TakeLedger, ReadSiblings, CommitHold, CommitMark,
              Refuse, Expose, ExposeForCredit, ExposeForUnfreeze, ExposeThen, SaveCredit,
              SaveUnfreeze, AppendAgain, AppendConflict, CloseRow
<1> QED BY <1>1, <1>2 DEF ProcessStep

(* Events are appended for sent holds that are open.                       *)
LEMMA AppendsSettleOpenHolds ==
  ASSUME AdmTypeOK, CallsInv, HoldsInv, SnapshotIsCurrent, NEW p \in Callers, AppendNew(p)
  PROVE  call[p].hold \in OpenHolds \cap marked
<1>1. call[p].pc = "append" /\ call[p].hold \notin Booked(read[p].seen)
  BY DEF AppendNew
<1>2. read[p].seen = ledger
  BY <1>1 DEF SnapshotIsCurrent
<1>3. call[p].hold \in marked \ Unsent
  BY <1>1 DEF CallsInv, CallInv
<1>4. call[p].hold \in Holds
  BY <1>3 DEF AdmTypeOK
<1>5. row[call[p].hold] = "active"
  BY <1>1, <1>2, <1>3, <1>4 DEF HoldsInv, AdmTypeOK
<1> QED BY <1>1, <1>2, <1>3, <1>4, <1>5 DEF OpenHolds

(* The ledger is still for whoever holds its lock, and for a budget        *)
(* command about to save, which found nothing left to settle.              *)
LEMMA LedgerIsStill ==
  ASSUME AdmInv, NEW p \in Callers, ProcessStep(p), NEW q \in Callers, q # p,
         "ledger" \in held[q] \/ call[q].pc = "save"
  PROVE  ledger' = ledger
<1> SUFFICES ASSUME AppendNew(p)
             PROVE  FALSE
  BY LedgerWriter
<1>1. "ledger" \in held[p]
  <2>1. call[p].pc = "append" /\ held[p] = LocksOf(call[p])
    BY DEF AppendNew, AdmInv, LocksInv
  <2> QED BY <2>1 DEF LocksOf
<1>2. call[q].pc = "save"
  BY <1>1 DEF AdmInv, LocksInv
<1>3. OpenHolds \cap marked = {}
  BY <1>2 DEF AdmInv, ReadsInv, ReadsOf
<1> QED BY <1>3, AppendsSettleOpenHolds DEF AdmInv

(***************************************************************************)
(* Holds                                                                   *)
(***************************************************************************)

(* No step takes an event out of the ledger.                               *)
LEMMA LedgerGrows ==
  ASSUME [Next]_vars
  PROVE  ledger \subseteq ledger'
<1>1. EnvironmentStep \/ UNCHANGED vars => ledger' = ledger
  BY DEF EnvironmentStep, Refund, SetLimit, Freeze, ClearWallet, NewPeriod, Age, vars
<1>2. \A p \in Callers : AppendNew(p) => ledger \subseteq ledger'
  BY DEF AppendNew
<1> QED BY <1>1, <1>2, LedgerWriter DEF Next, ProcessStep

(* What the repair of a root and its expiry leave behind: a sent hold is   *)
(* not given back, a settled one is booked.                                *)
LEMMA RepairIsSound ==
  ASSUME AdmInv, NEW p \in Callers, call[p].pc = "commit",
         NEW dropped, dropped \cap marked = {}
  PROVE  /\ \A h \in marked :
              /\ RepairedRows(p, dropped)[h] # "none"
              /\ RepairedRows(p, dropped)[h] = "refunded" => h \in Unsent
         /\ \A h \in Holds : RepairedRows(p, dropped)[h] = "settled" => h \in Booked(ledger)
<1>1. read[p].seen = ledger
  BY DEF AdmInv, SnapshotIsCurrent
<1>2. /\ marked \subseteq Holds
      /\ \A h \in marked : row[h] # "none" /\ (row[h] = "refunded" => h \in Unsent)
      /\ \A h \in Holds : row[h] = "settled" => h \in Booked(ledger)
  BY DEF AdmInv, AdmTypeOK, HoldsInv
<1> QED BY <1>1, <1>2 DEF RepairedRows

(* An admitted hold has an identity that no row used before.               *)
LEMMA AdmittedHoldIsNew ==
  ASSUME AdmInv, NEW p \in Callers, CommitHold(p)
  PROVE  call[p].hold \in Holds \ marked /\ row[call[p].hold] = "none"
<1>1. call[p].op = "reserve" /\ Deciding(p) /\ ~read[p].known
  BY DEF CommitHold, CanAdmit, Deciding
<1>2. row[call[p].hold] = "none"
  BY <1>1 DEF AdmInv, ReadsInv, ReadsOf
<1>3. call[p].hold \in Holds
  BY <1>1 DEF AdmInv, CallsInv, CallInv
<1> QED BY <1>2, <1>3 DEF AdmInv, HoldsInv

\* the first two parts of HoldsInv
RowsSound ==
  /\ \A h \in marked : row[h] # "none" /\ (row[h] = "refunded" => h \in Unsent)
  /\ \A h \in Holds : row[h] = "settled" => h \in Booked(ledger)

(* Going on changes a call's place and nothing else of it.                 *)
LEMMA GotoPlace ==
  ASSUME AdmTypeOK, NEW p \in Callers, NEW pc, Goto(p, pc)
  PROVE  /\ call'[p].pc = pc /\ call'[p].op = call[p].op
         /\ call'[p].hold = call[p].hold /\ call'[p].amount = call[p].amount
BY DEF AdmTypeOK, CallRecord, Goto

(* Every step keeps the rows sound.                                        *)
LEMMA RowsStep ==
  ASSUME AdmInv, [Next]_vars
  PROVE  RowsSound'
<1>1. ledger \subseteq ledger' /\ Booked(ledger) \subseteq Booked(ledger')
  BY LedgerGrows DEF Booked
<1>2. RowsSound /\ row \in [Holds -> RowStates] /\ marked \subseteq Holds
  BY DEF AdmInv, HoldsInv, RowsSound, AdmTypeOK, RowStates
<1>3. CASE UNCHANGED <<row, marked>>
  BY <1>1, <1>2, <1>3 DEF RowsSound
<1>4. CASE EnvironmentStep
  <2>1. CASE \E h \in Holds : Refund(h)
    BY <1>1, <1>2, <2>1 DEF Refund, RowsSound, RowStates
  <2>2. CASE UNCHANGED <<row, marked>>
    BY <1>3, <2>2
  <2> QED BY <1>4, <2>1, <2>2 DEF EnvironmentStep, Age, SetLimit, Freeze, ClearWallet, NewPeriod, rowVars
<1>5. ASSUME NEW p \in Callers, ProcessStep(p)
      PROVE  RowsSound'
  <2>1. CASE CommitHold(p)
    <3>1. call[p].hold \in Holds \ marked
      BY <2>1, AdmittedHoldIsNew
    <3>2. Expired(p) \cap marked = {} /\ call[p].pc = "commit"
      BY <2>1 DEF Expired, CommitHold
    <3>3. RepairedRows(p, Expired(p)) \in [Holds -> RowStates]
      BY RepairTypes DEF AdmInv
    <3> QED BY <1>1, <1>2, <2>1, <3>1, <3>2, <3>3, RepairIsSound DEF CommitHold, RowsSound
  <2>2. CASE CommitMark(p)
    <3>1. Expired(p) \cap marked = {} /\ call[p].pc = "commit"
      BY <2>2 DEF Expired, CommitMark
    <3>2. call[p].hold \in Holds /\ row'[call[p].hold] = "active"
      BY <2>2 DEF CommitMark, CanMark, Own, Unsettled, ActiveRows, RepairedRows
    <3> QED BY <1>1, <1>2, <2>2, <3>1, <3>2, RepairIsSound DEF CommitMark, RowsSound
  <2>3. CASE Expose(p) \/ ExposeForCredit(p) \/ ExposeForUnfreeze(p)
    <3>1. row' = RepairedRows(p, {}) /\ marked' = marked /\ call[p].pc = "commit"
      BY <2>3 DEF Expose, ExposeForCredit, ExposeForUnfreeze, ExposeThen
    <3> QED BY <1>1, <1>2, <3>1, RepairIsSound DEF RowsSound
  <2>4. CASE CloseRow(p)
    <3>1. call[p].hold \in Booked(ledger)
      BY <2>4 DEF CloseRow, AdmInv, HoldsInv
    <3> QED BY <1>1, <1>2, <2>4, <3>1 DEF CloseRow, RowsSound
  <2>5. CASE BeginStep(p) \/ GiveUp(p) \/ Crash(p)
    <3>1. UNCHANGED <<row, marked>>
      BY <2>5 DEF BeginStep, BeginReserve, BeginMark, BeginSettle, BeginExpose, BeginUnfreeze,
                  BeginCredit, Begin, GiveUp, Crash, rowVars
    <3> QED BY <1>3, <3>1
  <2>6. CASE \/ TakePolicy(p) \/ TakeDb(p) \/ TakeLedger(p) \/ ReadSiblings(p) \/ Refuse(p)
             \/ SaveCredit(p) \/ SaveUnfreeze(p)
             \/ AppendNew(p) \/ AppendAgain(p) \/ AppendConflict(p)
    <3>1. UNCHANGED <<row, marked>>
      BY <2>6 DEF TakePolicy, TakeDb, TakeLedger, ReadSiblings, Refuse, SaveCredit, SaveUnfreeze,
                  AppendNew, AppendAgain, AppendConflict, rowVars
    <3> QED BY <1>3, <3>1
  <2> QED BY <1>5, <2>1, <2>2, <2>3, <2>4, <2>5, <2>6 DEF ProcessStep, CallStep
<1>6. UNCHANGED vars => UNCHANGED <<row, marked>>
  BY DEF vars, rowVars
<1> QED BY <1>3, <1>4, <1>5, <1>6 DEF Next, ProcessStep

(* A call comes to the close of its row only from an append that found or  *)
(* wrote its event.                                                        *)
LEMMA ClosingIsBooked ==
  ASSUME AdmInv, [Next]_vars, NEW q \in Callers, call'[q].pc = "close"
  PROVE  call'[q].hold \in Booked(ledger')
<1>1. Booked(ledger) \subseteq Booked(ledger')
  BY LedgerGrows DEF Booked
<1>2. CASE call'[q] = call[q]
  BY <1>1, <1>2 DEF AdmInv, HoldsInv
<1>3. CASE ProcessStep(q)
  <2> USE DEF AdmInv, AdmTypeOK
  <2>1. CASE AppendNew(q)
    <3>1. call'[q].hold = call[q].hold
      BY <2>1, GotoPlace DEF AppendNew
    <3> DEFINE event == [hold |-> call[q].hold, cost |-> call[q].amount, at |-> read[q].now]
    <3>2. event \in ledger'
      BY <2>1 DEF AppendNew
    <3>3. event.hold = call[q].hold
      OBVIOUS
    <3> HIDE DEF event
    <3> QED BY <3>1, <3>2, <3>3 DEF Booked
  <2>2. CASE AppendAgain(q)
    <3>1. read[q].seen = ledger
      BY <2>2 DEF AppendAgain, SnapshotIsCurrent
    <3> QED BY <1>1, <2>2, <3>1 DEF AppendAgain, SameEvent, Goto, Booked
  <2>3. CASE BeginStep(q)
    <3>1. Begins(q)
      BY <2>3, BeginStepsBegin
    <3> QED BY <3>1 DEF Begins, Begin, FirstWait
  <2>4. CASE TakePolicy(q) \/ TakeDb(q) \/ TakeLedger(q)
    <3>1. call[q].pc \in Waits /\ call'[q].pc = After(call[q].op, call[q].pc)
      BY <2>4, GotoPlace DEF TakePolicy, TakeDb, TakeLedger, Acquire
    <3> QED BY <3>1 DEF After, Waits
  <2>5. CASE ReadSiblings(q) \/ ExposeForCredit(q) \/ ExposeForUnfreeze(q)
    <3>1. Goto(q, "commit") \/ Goto(q, "save") \/ Return(q)
      BY <2>5 DEF ReadSiblings, ExposeForCredit, ExposeForUnfreeze, ExposeThen
    <3> QED BY <3>1, GotoPlace DEF Return, Idle
  <2>6. CASE \/ CommitHold(q) \/ CommitMark(q) \/ Refuse(q) \/ Expose(q) \/ SaveCredit(q)
             \/ SaveUnfreeze(q) \/ AppendConflict(q) \/ CloseRow(q) \/ GiveUp(q) \/ Crash(q)
    BY <2>6 DEF CommitHold, CommitMark, Refuse, Expose, SaveCredit, SaveUnfreeze,
                AppendConflict, CloseRow, GiveUp, Crash, Return, Idle
  <2> QED BY <1>3, <2>1, <2>2, <2>3, <2>4, <2>5, <2>6 DEF ProcessStep, CallStep
<1>4. EnvironmentStep \/ UNCHANGED vars => call' = call
  BY DEF EnvironmentStep, Refund, SetLimit, Freeze, ClearWallet, NewPeriod, Age, vars, localVars
<1> QED BY <1>2, <1>3, <1>4, ReadsAreLocal DEF Next, ProcessStep, AdmInv

(* Every step keeps sent holds kept and settled ones booked.               *)
LEMMA HoldsStep ==
  ASSUME AdmInv, [Next]_vars
  PROVE  HoldsInv'
BY RowsStep, ClosingIsBooked DEF HoldsInv, RowsSound

(***************************************************************************)
(* What a call has read                                                    *)
(***************************************************************************)

\* the part of SnapshotIsCurrent that is about one call
SnapshotOf(p) ==
  /\ call[p].pc \in {"siblings", "commit", "append", "save"} => read[p].seen = ledger
  /\ Deciding(p) => /\ read[p].limit = EffectiveLimit
                    /\ read[p].wallet = WalletFor(wallet, call[p].hold)

View(p) == ReadsOf(p) /\ SnapshotOf(p)

\* where a call relies on the policy lock
RelyingOnPolicy(p) ==
  \/ Deciding(p)
  \/ call[p].pc = "commit" /\ call[p].op # "expose"
  \/ call[p].pc = "save"

(* It holds the policy lock there, and the ledger's while it decides.      *)
LEMMA RelyingIsLocked ==
  ASSUME AdmInv, NEW q \in Callers
  PROVE  /\ RelyingOnPolicy(q) => "policy" \in held[q]
         /\ call[q].pc \in {"siblings", "commit", "append"} => "ledger" \in held[q]
<1>1. held[q] = LocksOf(call[q]) /\ CallInv(call[q]) /\ call[q] \in CallRecord
  BY DEF AdmInv, LocksInv, CallsInv, AdmTypeOK
<1>2. call[q].pc \in {"siblings", "commit", "append"} => "ledger" \in held[q]
  BY <1>1 DEF LocksOf
<1>3. RelyingOnPolicy(q) => call[q].pc \notin {"idle", "policy"} /\ call[q].op \notin {"settle", "expose"}
  BY <1>1 DEF RelyingOnPolicy, Deciding, CallInv, Settling
<1>4. call[q].pc \notin {"idle", "policy"} /\ call[q].op \notin {"settle", "expose"} => "policy" \in held[q]
  BY <1>1 DEF LocksOf, PolicyLock
<1> QED BY <1>2, <1>3, <1>4

(* A step that leaves a call and what it locked alone keeps its view.      *)
LEMMA ViewKept ==
  ASSUME AdmInv, [Next]_vars, NEW q \in Callers,
         call'[q] = call[q], read'[q] = read[q],
         "policy" \in held[q] => PolicyStays,
         "ledger" \in held[q] \/ call[q].pc = "save" => ledger' = ledger
  PROVE  View(q)'
<1>1. ReadsOf(q) /\ SnapshotOf(q)
  BY DEF AdmInv, ReadsInv, SnapshotIsCurrent, SnapshotOf
<1>2. RelyingOnPolicy(q) => PolicyStays
  BY RelyingIsLocked
<1>3. call[q].pc \in {"siblings", "commit", "append", "save"} => ledger' = ledger
  BY RelyingIsLocked
<1>4. Deciding(q)' <=> Deciding(q)
  BY DEF Deciding
<1>5. SnapshotOf(q)'
  BY <1>1, <1>2, <1>3, <1>4
     DEF SnapshotOf, RelyingOnPolicy, PolicyStays, EffectiveLimit, WalletFor
<1>6. PolicyStays => OpenHolds' \subseteq OpenHolds
  <2>1. Booked(ledger) \subseteq Booked(ledger')
    BY LedgerGrows DEF Booked
  <2> QED BY <2>1 DEF PolicyStays, NothingOpens, OpenHolds
<1>7. call[q].op \in {"reserve", "mark"} => call[q].hold \in Holds
  BY DEF AdmInv, CallsInv, CallInv
<1>8. (call[q].op = "reserve" /\ Deciding(q) /\ ~read[q].known
         => row[call[q].hold] = "none")'
  BY <1>1, <1>2, <1>4, <1>7 DEF ReadsOf, RelyingOnPolicy, PolicyStays, NothingOpens
<1>9. (call[q].pc = "commit" /\ call[q].op # "expose"
         => Elsewhere(call[q]) \subseteq read[q].others)'
  BY <1>1, <1>2, <1>6 DEF ReadsOf, RelyingOnPolicy, Elsewhere
<1>10. (call[q].pc = "save" => OpenHolds \cap marked = {})'
  BY <1>1, <1>2, <1>6 DEF ReadsOf, RelyingOnPolicy, PolicyStays
<1> QED BY <1>5, <1>8, <1>9, <1>10 DEF View, ReadsOf

\* the places at which nothing of a view is claimed, but of a decision
Unread == {"idle", "policy", "db", "ledger", "close"}

(* At these places there is nothing to show of a call's view.              *)
LEMMA NoViewYet ==
  ASSUME NEW p \in Callers, call'[p].pc \in Unread, ~Deciding(p)'
  PROVE  View(p)'
BY DEF View, ReadsOf, SnapshotOf, Unread

(* A call that begins or returns relies on nothing.                        *)
LEMMA ReturnedView ==
  ASSUME AdmTypeOK, NEW p \in Callers, Begins(p) \/ Return(p)
  PROVE  View(p)'
<1>1. CASE Begins(p)
  <2>1. PICK op \in Ops : /\ call'[p].op = op
                          /\ call'[p].pc = FirstWait(op)
    BY <1>1 DEF Begins, Begin, AdmTypeOK
  <2>2. call'[p].pc \in Unread /\ ~Deciding(p)'
    BY <2>1 DEF FirstWait, Deciding, Unread
  <2> QED BY <2>2, NoViewYet
<1>2. CASE Return(p)
  <2>1. call'[p].pc = "idle"
    BY <1>2 DEF Return, Idle, AdmTypeOK
  <2>2. call'[p].pc \in Unread /\ ~Deciding(p)'
    BY <2>1 DEF Deciding, Unread
  <2> QED BY <2>2, NoViewYet
<1> QED BY <1>1, <1>2

(* Taking the policy lock, a reservation or a mark reads the authority.    *)
LEMMA PolicyView ==
  ASSUME AdmInv, NEW p \in Callers, TakePolicy(p)
  PROVE  View(p)'
<1> USE DEF AdmInv, AdmTypeOK
<1>1. /\ call'[p].pc = "db" /\ call'[p].op = call[p].op
      /\ call'[p].hold = call[p].hold
  BY GotoPlace DEF TakePolicy, Acquire, After
<1>2. CASE call[p].op \in {"reserve", "mark"}
  <2>1. read'[p] = AuthorityRead(p) /\ EffectiveLimit' = EffectiveLimit /\ wallet' = wallet /\ row' = row
    BY <1>2 DEF TakePolicy, rowVars, EffectiveLimit
  <2>2. /\ read'[p].limit = EffectiveLimit
        /\ read'[p].wallet = WalletFor(wallet, call[p].hold)
        /\ read'[p].known = (call[p].hold \in UsedHolds)
    <3> HIDE DEF AdmInv, AdmTypeOK
    <3>1. read[p] \in ReadRecord
      BY DEF AdmInv, AdmTypeOK
    <3> QED BY <2>1, <3>1 DEF AuthorityRead, ReadRecord
  <2>3. SnapshotOf(p)'
    BY <1>1, <2>1, <2>2 DEF SnapshotOf, WalletFor
  <2>4. call[p].hold \in Holds
    BY <1>2 DEF CallsInv, CallInv
  <2>5. ReadsOf(p)'
    BY <1>1, <2>1, <2>2, <2>4 DEF ReadsOf, UsedHolds
  <2> QED BY <2>3, <2>5 DEF View
<1>3. CASE call[p].op \notin {"reserve", "mark"}
  BY <1>1, <1>3, NoViewYet DEF Deciding, Unread
<1> QED BY <1>2, <1>3

(* Waiting for the ledger, a decision still has the authority it read.     *)
LEMMA DbView ==
  ASSUME AdmInv, NEW p \in Callers, TakeDb(p)
  PROVE  View(p)'
<1> USE DEF AdmInv, AdmTypeOK
<1>1. /\ call'[p].pc = "ledger" /\ call'[p].op = call[p].op
      /\ call'[p].hold = call[p].hold
  BY GotoPlace DEF TakeDb, Acquire, After
<1>2. ReadsOf(p) /\ SnapshotOf(p)
  BY DEF ReadsInv, SnapshotIsCurrent, SnapshotOf
<1>3. UNCHANGED <<limit, frozen, wallet, row>> /\ call[p].pc = "db"
  BY DEF TakeDb, policyVars, rowVars
<1>4. CASE Deciding(p)
  <2>1. read' = read
    BY <1>4 DEF TakeDb, Deciding
  <2> QED BY <1>1, <1>2, <1>3, <1>4, <2>1
          DEF View, ReadsOf, SnapshotOf, Deciding, EffectiveLimit, WalletFor
<1>5. CASE ~Deciding(p)
  BY <1>1, <1>3, <1>5, NoViewYet DEF Deciding, Unread
<1> QED BY <1>4, <1>5

(* Taking the ledger lock, a call reads the ledger as it is.               *)
LEMMA LedgerView ==
  ASSUME AdmInv, NEW p \in Callers, TakeLedger(p)
  PROVE  View(p)'
<1> USE DEF AdmInv, AdmTypeOK
<1>1. /\ call'[p].pc \in {"append", "siblings"} /\ call'[p].op = call[p].op
      /\ call'[p].hold = call[p].hold /\ call[p].pc = "ledger"
  BY GotoPlace DEF TakeLedger, Acquire, After
<1>2. ReadsOf(p) /\ SnapshotOf(p)
  BY DEF ReadsInv, SnapshotIsCurrent, SnapshotOf
<1>3. UNCHANGED <<limit, frozen, wallet, row, ledger>>
  BY DEF TakeLedger, policyVars, rowVars
<1>4. /\ read'[p].seen = ledger /\ read'[p].limit = read[p].limit
      /\ read'[p].wallet = read[p].wallet /\ read'[p].known = read[p].known
  BY DEF TakeLedger, ReadRecord
<1>5. Deciding(p)' <=> Deciding(p)
  BY <1>1 DEF Deciding
<1>6. SnapshotOf(p)'
  BY <1>1, <1>2, <1>3, <1>4, <1>5 DEF SnapshotOf, EffectiveLimit, WalletFor
<1>7. ReadsOf(p)'
  BY <1>1, <1>2, <1>3, <1>4, <1>5 DEF ReadsOf
<1> QED BY <1>6, <1>7 DEF View

(* Reading the siblings, a call finds every open hold outside its root.    *)
LEMMA SiblingsView ==
  ASSUME AdmInv, NEW p \in Callers, ReadSiblings(p)
  PROVE  View(p)'
<1> USE DEF AdmInv, AdmTypeOK
<1>1. /\ call'[p].pc = "commit" /\ call'[p].op = call[p].op
      /\ call'[p].hold = call[p].hold /\ call[p].pc = "siblings"
  BY GotoPlace DEF ReadSiblings
<1>2. ReadsOf(p) /\ SnapshotOf(p)
  BY DEF ReadsInv, SnapshotIsCurrent, SnapshotOf
<1>3. UNCHANGED <<limit, frozen, wallet, row, ledger>>
  BY DEF ReadSiblings, policyVars, rowVars
<1>4. /\ read'[p].seen = read[p].seen /\ read'[p].limit = read[p].limit
      /\ read'[p].wallet = read[p].wallet /\ read'[p].known = read[p].known
      /\ read'[p].others =
           UNION {Unsettled(root, read[p].seen) : root \in Roots \ {Database(call[p])}}
  BY DEF ReadSiblings, ReadRecord
<1>5. Deciding(p)' <=> Deciding(p)
  BY <1>1 DEF Deciding
<1>6. SnapshotOf(p)'
  BY <1>1, <1>2, <1>3, <1>4, <1>5 DEF SnapshotOf, EffectiveLimit, WalletFor
<1>7. Elsewhere(call[p]) \subseteq read'[p].others
  <2>1. read[p].seen = ledger
    BY <1>1, <1>2 DEF SnapshotOf
  <2>2. ASSUME NEW h \in Elsewhere(call[p])
        PROVE  h \in read'[p].others
    <3>1. Root(h) \in Roots \ {Database(call[p])}
      BY <2>2 DEF Elsewhere, Root, Roots
    <3>2. h \in Unsettled(Root(h), read[p].seen)
      BY <2>1, <2>2 DEF Elsewhere, OpenHolds, Unsettled, ActiveRows
    <3> QED BY <1>4, <3>1, <3>2
  <2> QED BY <2>2
<1>8. Elsewhere(call[p])' = Elsewhere(call[p])
  BY <1>1, <1>3 DEF Elsewhere, OpenHolds, Database
<1>9. ReadsOf(p)'
  BY <1>1, <1>2, <1>3, <1>4, <1>5, <1>7, <1>8 DEF ReadsOf
<1> QED BY <1>6, <1>9 DEF View

(* A budget command that goes on to its save found nothing sent unsettled. *)
LEMMA ExposedView ==
  ASSUME AdmInv, NEW p \in Callers, ExposeForCredit(p) \/ ExposeForUnfreeze(p)
  PROVE  View(p)'
<1> USE DEF AdmInv, AdmTypeOK
<1>1. CASE Return(p)
  BY <1>1, ReturnedView
<1>2. CASE ~Return(p)
  <2>1. /\ Goto(p, "save") /\ read' = read /\ row' = RepairedRows(p, {})
        /\ UNCHANGED <<limit, frozen, wallet, marked, ledger>>
        /\ call[p].pc = "commit" /\ call[p].op \in {"credit", "unfreeze"}
    BY <1>2 DEF ExposeForCredit, ExposeForUnfreeze, ExposeThen, policyVars
  <2>2. Unresolved(p) = {}
    BY <1>2 DEF ExposeForCredit, ExposeForUnfreeze, ExposeThen, CanUnfreeze, Unresolved
  <2>3. call'[p].pc = "save" /\ call'[p].op = call[p].op
    BY <2>1, GotoPlace
  <2>4. ReadsOf(p) /\ SnapshotOf(p)
    BY DEF ReadsInv, SnapshotIsCurrent, SnapshotOf
  <2>5. read[p].seen = ledger /\ Elsewhere(call[p]) \subseteq read[p].others
    BY <2>1, <2>4 DEF ReadsOf, SnapshotOf
  <2>6. OpenHolds \cap marked = {}
    BY <2>2, <2>5 DEF Elsewhere, OpenHolds, Unresolved, Unsettled, ActiveRows
  <2>7. NothingOpens
    BY <2>1, RepairOpensNothing
  <2>8. OpenHolds' \cap marked' = {}
    BY <2>1, <2>6, <2>7 DEF NothingOpens, OpenHolds
  <2> QED BY <2>1, <2>3, <2>5, <2>8 DEF View, ReadsOf, SnapshotOf, Deciding
<1> QED BY <1>1, <1>2

(* The steps of a call keep its own view up to date.                       *)
LEMMA OwnView ==
  ASSUME AdmInv, NEW p \in Callers, ProcessStep(p)
  PROVE  View(p)'
<1>1. CASE BeginStep(p)
  <2>1. AdmTypeOK
    BY DEF AdmInv
  <2>2. Begins(p)
    BY <1>1, <2>1, BeginStepsBegin
  <2> QED BY <2>1, <2>2, ReturnedView
<1>2. CASE AppendNew(p) \/ AppendAgain(p)
  <2>1. Goto(p, "close") /\ Settling(call[p]) /\ AdmTypeOK
    BY <1>2 DEF AppendNew, AppendAgain, AdmInv, CallsInv, CallInv
  <2>2. call'[p].pc = "close" /\ call'[p].op = call[p].op
    BY <2>1, GotoPlace
  <2> QED BY <2>1, <2>2, NoViewYet DEF Settling, Deciding, Unread
<1>3. CASE \/ CommitHold(p) \/ CommitMark(p) \/ Refuse(p) \/ Expose(p) \/ SaveCredit(p)
           \/ SaveUnfreeze(p) \/ AppendConflict(p) \/ CloseRow(p) \/ GiveUp(p) \/ Crash(p)
  <2>1. Return(p)
    BY <1>3 DEF CommitHold, CommitMark, Refuse, Expose, SaveCredit, SaveUnfreeze,
                AppendConflict, CloseRow, GiveUp, Crash
  <2> QED BY <2>1, ReturnedView DEF AdmInv
<1> QED BY <1>1, <1>2, <1>3, PolicyView, DbView, LedgerView, SiblingsView, ExposedView
        DEF ProcessStep, CallStep

(* Every step keeps what every call has read up to date.                   *)
LEMMA ViewStep ==
  ASSUME AdmInv, [Next]_vars
  PROVE  ReadsInv' /\ SnapshotIsCurrent'
<1> SUFFICES ASSUME NEW q \in Callers
             PROVE  View(q)'
  BY DEF View, ReadsInv, SnapshotIsCurrent, SnapshotOf
<1> USE DEF AdmInv
<1>1. CASE UNCHANGED vars
  <2>1. /\ UNCHANGED <<limit, frozen, wallet, marked, row, ledger, call, read>>
    BY <1>1 DEF vars, policyVars, rowVars, localVars
  <2> QED BY <2>1, ViewKept DEF PolicyStays, NothingOpens
<1>2. CASE EnvironmentStep
  <2>1. UNCHANGED <<call, read, ledger>>
    BY <1>2 DEF EnvironmentStep, Refund, SetLimit, Freeze, ClearWallet, NewPeriod, Age, localVars
  <2> QED BY <1>2, <2>1, ViewKept, PolicyIsLockedOutside
<1>3. ASSUME NEW p \in Callers, ProcessStep(p)
      PROVE  View(q)'
  <2>1. CASE p = q
    BY <1>3, <2>1, OwnView
  <2>2. CASE p # q
    BY <1>3, <2>2, ReadsAreLocal, ViewKept, PolicyIsLocked, LedgerIsStill
  <2> QED BY <2>1, <2>2
<1> QED BY <1>1, <1>2, <1>3 DEF Next, ProcessStep

(***************************************************************************)
(* The wallet                                                              *)
(***************************************************************************)

(* While no hold opens and none is sent, work sent under the wallet stays  *)
(* its own, whether the wallet stays or is cleared.                        *)
LEMMA WalletKept ==
  ASSUME AdmInv, [Next]_vars, NothingOpens, UNCHANGED <<marked, tag>>,
         wallet' = wallet \/ wallet' = NoWallet
  PROVE  SentHoldsBelongToWallet'
<1>1. marked \subseteq Holds
  BY DEF AdmInv, AdmTypeOK
<1>2. Booked(ledger) \subseteq Booked(ledger')
  BY LedgerGrows DEF Booked
<1> QED BY <1>1, <1>2 DEF AdmInv, SentHoldsBelongToWallet, NothingOpens, NoWallet

(* Every step keeps sent work with its wallet.                             *)
LEMMA WalletStep ==
  ASSUME AdmInv, [Next]_vars
  PROVE  SentHoldsBelongToWallet'
<1> USE DEF AdmInv, AdmTypeOK
<1>1. Booked(ledger) \subseteq Booked(ledger')
  BY LedgerGrows DEF Booked
<1>2. CASE UNCHANGED vars
  BY <1>2 DEF vars, policyVars, rowVars, SentHoldsBelongToWallet
<1>3. CASE EnvironmentStep
  <2>1. NothingOpens /\ UNCHANGED <<marked, tag>> /\ (wallet' = wallet \/ wallet' = NoWallet)
    BY <1>3 DEF EnvironmentStep, Refund, Age, SetLimit, Freeze, ClearWallet, NewPeriod,
                rowVars, policyVars, NothingOpens
  <2> QED BY <2>1, WalletKept
<1>4. ASSUME NEW p \in Callers, ProcessStep(p)
      PROVE  SentHoldsBelongToWallet'
  <2>1. CASE CommitHold(p)
    <3>1. call[p].hold \in Holds \ marked
      BY <2>1, AdmittedHoldIsNew
    <3>2. \A h \in Expired(p) : row[h] = "active"
      BY DEF Expired, Unsettled, ActiveRows
    <3>3. \A h \in Holds : RepairedRows(p, Expired(p))[h] = "active" => row[h] = "active"
      BY <3>2 DEF RepairedRows, ActiveRows
    <3>4. RepairedRows(p, Expired(p)) \in [Holds -> RowStates]
      BY RepairTypes
    <3>5. \A h \in marked : h \in Holds /\ tag'[h] = tag[h]
                            /\ row'[h] = RepairedRows(p, Expired(p))[h]
      BY <2>1, <3>1, <3>4 DEF CommitHold
    <3> QED BY <1>1, <2>1, <3>3, <3>5 DEF CommitHold, policyVars, SentHoldsBelongToWallet
  <2>2. CASE CommitMark(p)
    <3>1. call[p].op = "mark" /\ Deciding(p)
      BY <2>2 DEF CommitMark, Deciding
    <3>2. read[p].wallet = WalletFor(wallet, call[p].hold)
      BY <3>1 DEF SnapshotIsCurrent
    <3>3. call[p].hold \notin Unattended => tag[call[p].hold] = wallet.id
      BY <2>2, <3>2 DEF CommitMark, CanMark, WalletFor
    <3>4. NothingOpens
      BY <1>4, <2>2, OnlyAdmissionOpens DEF CommitMark, CommitHold
    <3>5. marked' = marked \cup {call[p].hold} /\ UNCHANGED <<wallet, tag, ledger>>
      BY <2>2 DEF CommitMark, policyVars
    <3>6. call[p].hold \in Holds
      BY <3>1 DEF CallsInv, CallInv
    <3> QED BY <3>3, <3>4, <3>5, <3>6 DEF NothingOpens, SentHoldsBelongToWallet
  <2>3. CASE SaveCredit(p)
    <3>1. OpenHolds \cap marked = {}
      BY <2>3 DEF SaveCredit, ReadsInv, ReadsOf
    <3> QED BY <2>3, <3>1 DEF SaveCredit, rowVars, OpenHolds, SentHoldsBelongToWallet
  <2>4. CASE ~(CommitHold(p) \/ CommitMark(p) \/ SaveCredit(p))
    <3>1. NothingOpens
      BY <1>4, <2>4, OnlyAdmissionOpens
    <3>2. CASE BeginStep(p) \/ GiveUp(p) \/ Crash(p)
      <4>1. UNCHANGED <<wallet, marked, tag>>
        BY <3>2 DEF BeginStep, BeginReserve, BeginMark, BeginSettle, BeginExpose, BeginUnfreeze,
                    BeginCredit, Begin, GiveUp, Crash, rowVars, policyVars
      <4> QED BY <3>1, <4>1, WalletKept
    <3>3. CASE CallStep(p)
      <4>1. UNCHANGED <<wallet, marked, tag>>
        BY <2>4, <3>3
           DEF CallStep, TakePolicy, TakeDb, TakeLedger, ReadSiblings, Refuse, Expose,
               ExposeForCredit, ExposeForUnfreeze, ExposeThen, SaveUnfreeze, AppendNew,
               AppendAgain, AppendConflict, CloseRow, rowVars, policyVars
      <4> QED BY <3>1, <4>1, WalletKept
    <3> QED BY <1>4, <3>2, <3>3 DEF ProcessStep
  <2> QED BY <2>1, <2>2, <2>3, <2>4
<1> QED BY <1>2, <1>3, <1>4 DEF Next, ProcessStep

(***************************************************************************)
(* Theorems                                                                *)
(***************************************************************************)

(* Everything of the invariant holds before the first call.                *)
LEMMA InitInv ==
  ASSUME Init
  PROVE  AdmInv
<1> USE DEF Init
<1>1. NoWallet \in Wallets
  BY DEF NoWallet, Wallets, Baselines
<1>2. [w \in Windows |-> 0] \in Periods
  BY DEF Periods
<1>3. AdmTypeOK
  BY <1>1, <1>2, IdleTypes DEF AdmTypeOK
<1>4. CallsInv /\ LocksInv
  BY DEF CallsInv, CallInv, Settling, LocksInv, LocksOf, Idle
<1>5. HoldsInv /\ ReadsInv
  BY DEF HoldsInv, ReadsInv, ReadsOf, Deciding, Idle
<1>6. SnapshotIsCurrent /\ SentHoldsBelongToWallet
  BY DEF SnapshotIsCurrent, Deciding, Idle, SentHoldsBelongToWallet, NoWallet
<1> QED BY <1>3, <1>4, <1>5, <1>6 DEF AdmInv

(* Whatever the callers do, the types, the locks, the soundness of the     *)
(* rows and the freshness of what has been read hold together.             *)
THEOREM AdmissionInvariant == Spec => []AdmInv
<1>1. Init => AdmInv
  BY InitInv
<1>2. AdmInv /\ [Next]_vars => AdmInv'
  <2> SUFFICES ASSUME AdmInv, [Next]_vars
               PROVE  AdmInv'
    OBVIOUS
  <2>1. AdmTypeOK' /\ CallsInv' /\ LocksInv'
    BY TypeStep, CallsStep, LocksStep DEF AdmInv
  <2>2. HoldsInv' /\ ReadsInv' /\ SnapshotIsCurrent' /\ SentHoldsBelongToWallet'
    BY HoldsStep, ViewStep, WalletStep
  <2> QED BY <2>1, <2>2 DEF AdmInv
<1> QED BY <1>1, <1>2, PTL DEF Spec

(* The stores and the locals of the calls keep their types.                *)
THEOREM AdmissionTypes == Spec => []AdmTypeOK
<1>1. AdmInv => AdmTypeOK
  BY DEF AdmInv
<1> QED BY <1>1, AdmissionInvariant, PTL

(* A decision is made on the limit, the wallet and the ledger as they are  *)
(* at its commit, for any callers and whatever else settles meanwhile.     *)
THEOREM SnapshotsAreCurrent == Spec => []SnapshotIsCurrent
<1>1. AdmInv => SnapshotIsCurrent
  BY DEF AdmInv
<1> QED BY <1>1, AdmissionInvariant, PTL

(* Credit is never added over work of another wallet, nor work sent under  *)
(* a wallet other than the one its reservation was made for.               *)
THEOREM SentWorkBelongsToWallet == Spec => []SentHoldsBelongToWallet
<1>1. AdmInv => SentHoldsBelongToWallet
  BY DEF AdmInv
<1> QED BY <1>1, AdmissionInvariant, PTL

(* If every call that is under way waits, then the locks of the places of  *)
(* the calls, taken from the ledger's backwards, are free one by one.      *)
LEMMA NoCircle ==
  ASSUME AdmTypeOK, CallsInv, LocksInv
  PROVE  SomebodyCanGoOn
<1> SUFFICES ASSUME \A p \in Callers : Busy(p) => Blocked(p),
                    NEW q \in Callers, Busy(q)
             PROVE  FALSE
  BY DEF SomebodyCanGoOn
<1>1. ASSUME NEW p \in Callers
      PROVE  /\ call[p].pc \in {"idle", "policy", "db", "ledger"}
             /\ held[p] = LocksOf(call[p])
  BY DEF Busy, Blocked, Waits, LocksInv
<1>2. ~Taken("ledger")
  <2>1. ASSUME NEW p \in Callers
        PROVE  held[p] \subseteq {"policy", "primary", "legacy"}
    <3>1. Database(call[p]) \in {"primary", "legacy"}
      BY DEF Database, Root
    <3>2. PolicyLock(call[p]) \subseteq {"policy"}
      BY DEF PolicyLock
    <3>3. LocksOf(call[p]) \subseteq PolicyLock(call[p]) \cup {Database(call[p])}
      BY <1>1 DEF LocksOf
    <3> QED BY <1>1, <3>1, <3>2, <3>3
  <2> QED BY <2>1 DEF Taken
<1>3. ASSUME NEW p \in Callers
      PROVE  call[p].pc \in {"idle", "policy", "db"}
  BY <1>1, <1>2 DEF Busy, Blocked, Wanted
<1>4. ASSUME NEW p \in Callers
      PROVE  held[p] \subseteq {"policy"}
  BY <1>1, <1>3 DEF LocksOf, PolicyLock
<1>5. ASSUME NEW p \in Callers
      PROVE  call[p].pc \in {"idle", "policy"}
  <2>1. ~Taken("primary") /\ ~Taken("legacy")
    BY <1>4 DEF Taken
  <2> QED BY <1>3, <2>1 DEF Busy, Blocked, Wanted, Database, Root
<1>6. ~Taken("policy")
  BY <1>1, <1>5 DEF Taken, LocksOf
<1> QED BY <1>5, <1>6 DEF Busy, Blocked, Wanted

(* As long as a call is under way, one that is can take its next step.     *)
THEOREM NoLockCircle == Spec => []SomebodyCanGoOn
<1>1. AdmInv => SomebodyCanGoOn
  BY NoCircle DEF AdmInv
<1> QED BY <1>1, AdmissionInvariant, PTL

(* What the caps and the wallet are compared with is never less than what  *)
(* is open at the commit.                                                  *)
THEOREM EveryHoldIsCounted == Spec => DecisionsCountEveryHold
<1> DEFINE Counted ==
      \A p \in Callers : CommitHold(p) \/ CommitMark(p) =>
        OpenHolds' \subseteq Own(p) \cup read[p].others \cup {call[p].hold}
<1>1. AdmInv => [Counted]_vars
  <2> SUFFICES ASSUME AdmInv, NEW p \in Callers, CommitHold(p) \/ CommitMark(p),
                      NEW h \in OpenHolds', h # call[p].hold
               PROVE  h \in Own(p) \cup read[p].others
    BY DEF OpenHolds
  <2>1. /\ call[p].pc = "commit" /\ call[p].op # "expose" /\ ledger' = ledger
        /\ h \in Holds /\ h \notin Booked(ledger) /\ row'[h] = "active"
    BY DEF CommitHold, CommitMark, OpenHolds
  <2>2. read[p].seen = ledger /\ Elsewhere(call[p]) \subseteq read[p].others
    BY <2>1 DEF AdmInv, SnapshotIsCurrent, ReadsInv, ReadsOf
  <2>3. row'[h] = RepairedRows(p, Expired(p))[h]
    <3>1. RepairedRows(p, Expired(p)) \in [Holds -> RowStates]
      BY RepairTypes DEF AdmInv
    <3> QED BY <2>1, <3>1 DEF CommitHold, CommitMark
  <2>4. row[h] = "active" /\ h \notin Expired(p)
    BY <2>1, <2>3 DEF RepairedRows
  <2>5. CASE Root(h) = Database(call[p])
    BY <2>1, <2>2, <2>4, <2>5 DEF Own, Unsettled, ActiveRows
  <2>6. CASE Root(h) # Database(call[p])
    BY <2>1, <2>2, <2>4, <2>6 DEF Elsewhere, OpenHolds
  <2> QED BY <2>5, <2>6
<1> QED BY <1>1, AdmissionInvariant, PTL DEF DecisionsCountEveryHold

(***************************************************************************)
(* Sums                                                                    *)
(***************************************************************************)

Costs(E) == [e \in E |-> e.cost]

(* The spend of a ledger is a sum over its events.                         *)
LEMMA ChargedIsTotal ==
  ASSUME NEW E, IsFiniteSet(E)
  PROVE  Charged(E) = Total(Costs(E), E)
<1> DEFINE Body(g) == [T \in SUBSET E |->
                         IF T = {} THEN 0
                         ELSE (CHOOSE e \in T : TRUE).cost + g[T \ {CHOOSE e \in T : TRUE}]]
           t == CHOOSE g : g = Body(g)
<1>1. Charged(E) = t[E]
  BY DEF Charged, MapThenSumSet, MapThenFoldSet
<1>2. ASSUME NEW g PROVE g = Body(g) <=> IsSumTable(g, Costs(E), SUBSET E)
  <2>1. ASSUME NEW T \in SUBSET E, T # {}
        PROVE  Costs(E)[Pick(T)] = Pick(T).cost
    BY <2>1 DEF Costs, Pick
  <2>2. ASSUME NEW T \in SUBSET E PROVE Body(g)[T] = SumStep(Costs(E), g, T)
    BY <2>1 DEF SumStep, Pick
  <2> QED BY <2>2 DEF IsSumTable
<1>3. \E g : g = Body(g)
  <2>1. PICK g : IsSumTable(g, Costs(E), SUBSET E)
    BY SumTableExists
  <2>2. g = Body(g)
    BY <1>2, <2>1
  <2> QED BY <2>2
<1>4. t = Body(t)
  BY <1>3
<1>5. IsSumTable(t, Costs(E), SUBSET E)
  <2> HIDE DEF t, Body
  <2> QED BY <1>2, <1>4
<1> HIDE DEF t
<1> QED BY <1>1, <1>5, TableHoldsTotal

(* Fewer events cost no more.                                              *)
LEMMA ChargedGrows ==
  ASSUME NEW E, IsFiniteSet(E), \A e \in E : e.cost \in Nat, NEW D \in SUBSET E
  PROVE  Charged(D) \in Nat /\ Charged(E) \in Nat /\ Charged(D) <= Charged(E)
<1>1. IsFiniteSet(D)
  BY FS_Subset
<1>2. /\ \A e \in D : Costs(D)[e] \in Nat
      /\ \A e \in E : Costs(E)[e] \in Nat
      /\ \A e \in D : Costs(D)[e] <= Costs(E)[e]
  BY DEF Costs
<1>3. Total(Costs(D), D) \in Nat /\ Total(Costs(E), E) \in Nat
  BY <1>1, <1>2, TotalIsNat
<1>4. Total(Costs(D), D) <= Total(Costs(E), E)
  BY ONLY <1>2, IsFiniteSet(E), D \in SUBSET E, TotalGrows
<1> QED BY <1>1, <1>3, <1>4, ChargedIsTotal

(* Fewer holds reserve no more.                                            *)
LEMMA ReservedGrows ==
  ASSUME NEW S \in SUBSET Holds, NEW R \in SUBSET S
  PROVE  Reserved(R) \in Nat /\ Reserved(S) \in Nat /\ Reserved(R) <= Reserved(S)
<1>1. IsFiniteSet(S) /\ IsFiniteSet(R)
  BY FS_Subset
<1>2. \A h \in S : Price[h] \in Nat
  OBVIOUS
<1>3. Total(Price, R) \in Nat /\ Total(Price, S) \in Nat
  BY <1>1, <1>2, TotalIsNat
<1>4. Total(Price, R) <= Total(Price, S)
  <2>1. \A h \in R : Price[h] \in Nat /\ Price[h] <= Price[h]
    BY <1>2
  <2> QED BY ONLY <1>1, <1>2, <2>1, R \in SUBSET S, TotalGrows
<1> QED BY <1>3, <1>4 DEF Reserved, Total

(* A later start of a window counts no more of the ledger.                 *)
LEMMA SettledShrinks ==
  ASSUME NEW E, E \subseteq Events, IsFiniteSet(E),
         NEW early \in Periods, NEW late \in Periods,
         NEW w \in Windows, early[w] <= late[w]
  PROVE  /\ SettledSince(E, early, w) \in Nat /\ SettledSince(E, late, w) \in Nat
         /\ SettledSince(E, late, w) <= SettledSince(E, early, w)
<1> DEFINE D == {e \in E : e.at[w] >= early[w]}
           L == {e \in E : e.at[w] >= late[w]}
<1>1. \A e \in E : e.cost \in Nat /\ e.at[w] \in Int
  BY DEF Events, Periods
<1>2. L \subseteq D
  BY <1>1 DEF Periods
<1>3. IsFiniteSet(D)
  BY FS_Subset
<1>4. \A e \in D : e.cost \in Nat
  BY <1>1
<1>5. SettledSince(E, early, w) = Charged(D) /\ SettledSince(E, late, w) = Charged(L)
  BY DEF SettledSince
<1> HIDE DEF D, L
<1> QED BY <1>2, <1>3, <1>4, <1>5, ChargedGrows

(* What fits at an earlier clock beside more holds fits later beside less. *)
LEMMA StillFits ==
  ASSUME NEW lim \in Nat, NEW wal, wal.credit \in Nat, wal.baseline \in Nat,
         NEW E, E \subseteq Events, IsFiniteSet(E),
         NEW early \in Periods, NEW late \in Periods, \A w \in Windows : early[w] <= late[w],
         NEW S \in SUBSET Holds, NEW R \in SUBSET S,
         WithinAuthority(lim, wal, E, early, S)
  PROVE  WithinAuthority(lim, wal, E, late, R)
<1>1. Reserved(R) \in Nat /\ Reserved(S) \in Nat /\ Reserved(R) <= Reserved(S)
  BY ReservedGrows
<1>2. Charged(E) \in Nat
  <2>1. \A e \in E : e.cost \in Nat
    BY DEF Events
  <2> QED BY <2>1, ChargedGrows
<1>3. WalletCovers(wal, E, R)
  <2>1. WalletCovers(wal, E, S)
    BY DEF WithinAuthority
  <2> QED BY <1>1, <1>2, <2>1 DEF WalletCovers
<1>4. ASSUME NEW w \in Windows
      PROVE  SettledSince(E, late, w) + Reserved(R) <= WindowCap(lim, wal, w)
  <2>1. SettledSince(E, early, w) + Reserved(S) <= WindowCap(lim, wal, w)
    BY DEF WithinAuthority
  <2>2. WindowCap(lim, wal, w) \in Nat
    BY DEF WindowCap, Least
  <2>3. /\ SettledSince(E, early, w) \in Nat /\ SettledSince(E, late, w) \in Nat
        /\ SettledSince(E, late, w) <= SettledSince(E, early, w)
    BY SettledShrinks
  <2> QED BY ONLY <1>1, <2>1, <2>2, <2>3
<1> QED BY <1>3, <1>4 DEF WithinAuthority

(* The same of a month with room.                                          *)
LEMMA StillHasRoom ==
  ASSUME NEW lim \in Nat, NEW E, E \subseteq Events, IsFiniteSet(E),
         NEW early \in Periods, NEW late \in Periods, \A w \in Windows : early[w] <= late[w],
         MonthHasRoom(lim, E, early)
  PROVE  MonthHasRoom(lim, E, late)
<1>1. /\ SettledSince(E, early, Month) \in Nat /\ SettledSince(E, late, Month) \in Nat
      /\ SettledSince(E, late, Month) <= SettledSince(E, early, Month)
  BY SettledShrinks
<1>2. Least(lim, Narrow[Month]) \in Nat
  BY DEF Least
<1> QED BY <1>1, <1>2 DEF MonthHasRoom

(***************************************************************************)
(* What a call has promised                                                *)
(***************************************************************************)

(* The amount of a call is one its caller may ask for; an overrun has      *)
(* frozen paid work before it books; the clock a call has read is not      *)
(* ahead; an unfreeze saves with nothing open and room in the month.       *)
PromiseOf(p) ==
  /\ call[p].pc = "idle" => call[p].op = "expose"
  /\ call[p].op = "credit" => call[p].amount \in Credits
  /\ call[p].op = "settle" => call[p].amount <= Price[call[p].hold]
  /\ call[p].op = "overrun" /\ call[p].pc # "policy" => frozen
  /\ \A w \in Windows : read[p].now[w] <= period[w]
  /\ call[p].op = "unfreeze" /\ call[p].pc = "save" =>
       OpenHolds = {} /\ MonthHasRoom(limit, ledger, read[p].now)

(* The ledger is finite, and only about work that was sent.                *)
LedgerInv == IsFiniteSet(ledger) /\ Booked(ledger) \subseteq marked

PromisesInv == LedgerInv /\ \A p \in Callers : PromiseOf(p)

(* An event is appended for a hold that is marked.                         *)
LEMMA LedgerInvStep ==
  ASSUME AdmInv, LedgerInv, [Next]_vars
  PROVE  LedgerInv'
<1>1. marked \subseteq marked'
  BY MarksStay
<1>2. CASE ledger' = ledger
  BY <1>1, <1>2 DEF LedgerInv, Booked
<1>3. ASSUME NEW p \in Callers, AppendNew(p) PROVE LedgerInv'
  <2> DEFINE e == [hold |-> call[p].hold, cost |-> call[p].amount, at |-> read[p].now]
  <2>1. ledger' = ledger \cup {e} /\ e.hold = call[p].hold
    BY <1>3 DEF AppendNew
  <2>2. call[p].hold \in marked
    BY <1>3, AppendsSettleOpenHolds DEF AdmInv
  <2> HIDE DEF e
  <2>3. IsFiniteSet(ledger \cup {e})
    BY FS_AddElement DEF LedgerInv
  <2> QED BY <1>1, <2>1, <2>2, <2>3 DEF LedgerInv, Booked
<1>4. ledger' = ledger \/ \E p \in Callers : AppendNew(p)
  <2>1. EnvironmentStep \/ UNCHANGED vars => ledger' = ledger
    BY DEF EnvironmentStep, Refund, SetLimit, Freeze, ClearWallet, NewPeriod, Age, vars
  <2> QED BY <2>1, LedgerWriter DEF Next, ProcessStep
<1> QED BY <1>2, <1>3, <1>4

(* The clock is not set by any process.                                    *)
LEMMA ProcessKeepsClock ==
  ASSUME NEW p \in Callers, ProcessStep(p)
  PROVE  period' = period
<1>1. CASE BeginStep(p) \/ GiveUp(p) \/ Crash(p)
  BY <1>1 DEF BeginStep, BeginReserve, BeginMark, BeginSettle, BeginExpose, BeginUnfreeze,
              BeginCredit, Begin, GiveUp, Crash, worldVars
<1>2. CASE CallStep(p)
  BY <1>2 DEF CallStep, TakePolicy, TakeDb, TakeLedger, ReadSiblings, CommitHold, CommitMark,
              Refuse, Expose, ExposeForCredit, ExposeForUnfreeze, ExposeThen, SaveCredit,
              SaveUnfreeze, AppendNew, AppendAgain, AppendConflict, CloseRow, worldVars
<1> QED BY <1>1, <1>2 DEF ProcessStep

(* The clock only moves on.                                                *)
LEMMA ClockMovesOn ==
  ASSUME AdmTypeOK, [Next]_vars
  PROVE  /\ \A w \in Windows : period[w] \in Nat /\ period'[w] \in Nat /\ period[w] <= period'[w]
         /\ (\E p \in Callers : ProcessStep(p)) => period' = period
<1>1. \A w \in Windows : period[w] \in Nat
  BY DEF AdmTypeOK, Periods
<1>2. CASE \E S \in Rollovers : NewPeriod(S)
  <2>1. \A w \in Windows : period[w] \in Nat /\ period'[w] \in Nat /\ period[w] <= period'[w]
    BY <1>1, <1>2 DEF NewPeriod
  <2> QED BY <2>1, ProcessKeepsClock
<1>3. CASE ~ \E S \in Rollovers : NewPeriod(S)
  <2>1. period' = period
    <3>1. EnvironmentStep \/ UNCHANGED vars => period' = period
      BY <1>3 DEF EnvironmentStep, Refund, SetLimit, Freeze, ClearWallet, Age, vars, worldVars
    <3>2. ASSUME NEW p \in Callers, ProcessStep(p) PROVE period' = period
      BY <3>2, ProcessKeepsClock
    <3> QED BY <3>1, <3>2 DEF Next, ProcessStep
  <2> QED BY <1>1, <2>1
<1> QED BY <1>2, <1>3, ProcessKeepsClock

(* A step of another process, or outside, that leaves what a call has      *)
(* locked keeps its promise.                                               *)
LEMMA PromiseKept ==
  ASSUME AdmInv, PromisesInv, [Next]_vars, NEW q \in Callers,
         call'[q] = call[q], read'[q] = read[q],
         "policy" \in held[q] => PolicyStays,
         call[q].pc = "save" => ledger' = ledger
  PROVE  PromiseOf(q)'
<1>1. PromiseOf(q) /\ CallInv(call[q]) /\ held[q] = LocksOf(call[q]) /\ call[q] \in CallRecord
  BY DEF PromisesInv, AdmInv, CallsInv, LocksInv, AdmTypeOK
<1>2. call[q].op = "overrun" /\ call[q].pc # "policy" => "policy" \in held[q] \/ call[q].pc = "idle"
  BY <1>1 DEF LocksOf, PolicyLock
<1>3. call[q].pc = "idle" => call[q].op = "expose"
  BY <1>1 DEF PromiseOf
<1>4. call[q].op = "overrun" /\ call[q].pc # "policy" => frozen'
  BY <1>1, <1>2, <1>3 DEF PromiseOf, PolicyStays
<1>5. \A w \in Windows : read'[q].now[w] <= period'[w]
  <2>1. AdmTypeOK
    BY DEF AdmInv
  <2>2. \A w \in Windows : read[q].now[w] \in Nat
    BY <2>1 DEF AdmTypeOK, ReadRecord, Periods
  <2>3. \A w \in Windows : period[w] \in Nat /\ period'[w] \in Nat /\ period[w] <= period'[w]
    BY <2>1, ClockMovesOn
  <2> QED BY <1>1, <2>2, <2>3 DEF PromiseOf
<1>6. call[q].op = "unfreeze" /\ call[q].pc = "save" =>
        OpenHolds' = {} /\ MonthHasRoom(limit', ledger', read'[q].now)
  <2> SUFFICES ASSUME call[q].op = "unfreeze", call[q].pc = "save"
               PROVE  OpenHolds' = {} /\ MonthHasRoom(limit', ledger', read'[q].now)
    OBVIOUS
  <2>1. PolicyStays /\ ledger' = ledger
    BY <1>1 DEF LocksOf, PolicyLock
  <2>2. OpenHolds = {} /\ MonthHasRoom(limit, ledger, read[q].now)
    BY <1>1 DEF PromiseOf
  <2> QED BY <2>1, <2>2 DEF PolicyStays, NothingOpens, OpenHolds
<1>7. /\ call'[q].op = "credit" => call'[q].amount \in Credits
      /\ call'[q].op = "settle" => call'[q].amount <= Price[call'[q].hold]
  BY <1>1 DEF PromiseOf
<1>8. MonthHasRoom(limit, ledger, read[q].now)' <=> MonthHasRoom(limit', ledger', read'[q].now)
  BY DEF MonthHasRoom
<1> QED BY <1>3, <1>4, <1>5, <1>6, <1>7, <1>8 DEF PromiseOf

(* A call that begins promises what its caller asked for.                  *)
LEMMA BegunPromise ==
  ASSUME AdmInv, PromisesInv, NEW p \in Callers, BeginStep(p)
  PROVE  PromiseOf(p)'
<1>1. PICK op \in Ops, h \in Holds \cup {NoHold}, amount \in Nat :
        /\ Begin(p, op, h, amount)
        /\ op = "credit" => amount \in Credits
        /\ op = "settle" => amount <= Price[h]
  <2>1. CASE \E h \in Holds : BeginReserve(p, h) \/ BeginMark(p, h)
    BY <2>1 DEF BeginReserve, BeginMark, Ops
  <2>2. ASSUME NEW h \in Holds, NEW cost \in Charges, BeginSettle(p, h, cost)
        PROVE  \E op \in {"settle", "overrun"} :
                 Begin(p, op, h, cost) /\ (op = "settle" => cost <= Price[h])
    BY <2>2 DEF BeginSettle
  <2>3. CASE BeginExpose(p) \/ BeginUnfreeze(p)
    BY <2>3 DEF BeginExpose, BeginUnfreeze, Ops
  <2>4. CASE \E credit \in Credits : BeginCredit(p, credit)
    BY <2>4 DEF BeginCredit, Ops
  <2> QED BY <2>1, <2>2, <2>3, <2>4 DEF BeginStep, Ops
<1>2. /\ call'[p].op = op /\ call'[p].hold = h /\ call'[p].amount = amount
      /\ call'[p].pc = FirstWait(op) /\ read' = read /\ period' = period
  BY <1>1 DEF AdmInv, AdmTypeOK, Begin, worldVars
<1>3. call'[p].pc \in {"db", "policy"} /\ (op = "overrun" => call'[p].pc = "policy")
  BY <1>2 DEF FirstWait
<1>4. \A w \in Windows : read'[p].now[w] <= period'[w]
  BY <1>2 DEF PromisesInv, PromiseOf
<1> QED BY <1>1, <1>2, <1>3, <1>4 DEF PromiseOf

(* A call that has returned promises nothing.                              *)
LEMMA ReturnedPromise ==
  ASSUME AdmInv, NEW p \in Callers, ProcessStep(p), Return(p)
  PROVE  PromiseOf(p)'
<1>1. call'[p] = Idle /\ read'[p] = NoRead
  BY DEF AdmInv, AdmTypeOK, Return
<1>2. period' = period /\ period \in Periods
  BY ProcessKeepsClock DEF AdmInv, AdmTypeOK
<1>3. \A w \in Windows : read'[p].now[w] <= period'[w]
  BY <1>1, <1>2 DEF NoRead, Periods
<1> QED BY <1>1, <1>3 DEF PromiseOf, Idle

(* A call that goes on keeps its promise, if it freezes when it has taken  *)
(* the policy lock for an overrun.                                         *)
LEMMA GoingOnPromise ==
  ASSUME AdmInv, PromisesInv, NEW p \in Callers, ProcessStep(p),
         NEW pc, pc # "idle", Goto(p, pc),
         ~(call[p].op = "unfreeze" /\ pc = "save"),
         read'[p].now = read[p].now \/ read'[p].now = period,
         call[p].op = "overrun" => frozen'
  PROVE  PromiseOf(p)'
<1>1. /\ call'[p].pc = pc /\ call'[p].op = call[p].op
      /\ call'[p].hold = call[p].hold /\ call'[p].amount = call[p].amount
  BY GotoPlace DEF AdmInv
<1>2. period' = period /\ \A w \in Windows : period[w] \in Int
  BY ProcessKeepsClock DEF AdmInv, AdmTypeOK, Periods
<1>3. PromiseOf(p)
  BY DEF PromisesInv
<1>4. \A w \in Windows : read'[p].now[w] <= period'[w]
  BY <1>2, <1>3 DEF PromiseOf
<1> QED BY <1>1, <1>3, <1>4 DEF PromiseOf

(* An unfreeze that goes on to its save found no open hold and room in the *)
(* month.                                                                  *)
LEMMA UnfreezePromise ==
  ASSUME AdmInv, PromisesInv, NEW p \in Callers, ExposeForUnfreeze(p), ~Return(p)
  PROVE  PromiseOf(p)'
<1>1. /\ Goto(p, "save") /\ read' = read /\ row' = RepairedRows(p, {})
      /\ UNCHANGED <<limit, frozen, ledger, period>> /\ CanUnfreeze(p)
      /\ call[p].pc = "commit" /\ call[p].op = "unfreeze"
  BY DEF ExposeForUnfreeze, ExposeThen, policyVars, worldVars
<1>2. /\ call'[p].pc = "save" /\ call'[p].op = "unfreeze"
  BY <1>1, GotoPlace DEF AdmInv
<1>3. read[p].seen = ledger /\ Elsewhere(call[p]) \subseteq read[p].others
  BY <1>1 DEF AdmInv, ReadsInv, ReadsOf, SnapshotIsCurrent
<1>4. OpenHolds = {}
  BY <1>1, <1>3 DEF CanUnfreeze, Elsewhere, OpenHolds, Unsettled, ActiveRows
<1>5. OpenHolds' = {}
  <2>1. NothingOpens
    BY <1>1, RepairOpensNothing DEF AdmInv
  <2> QED BY <1>1, <1>4, <2>1 DEF NothingOpens, OpenHolds
<1>6. MonthHasRoom(limit, ledger, read[p].now)'
  <2>1. MonthHasRoom(limit, ledger, read[p].now)
    BY <1>1, <1>3 DEF CanUnfreeze
  <2> QED BY ONLY <1>1, <2>1 DEF MonthHasRoom
<1>7. \A w \in Windows : read'[p].now[w] <= period'[w]
  BY <1>1 DEF PromisesInv, PromiseOf
<1> QED BY <1>2, <1>5, <1>6, <1>7 DEF PromiseOf

(* The steps of a call keep its own promise.                               *)
LEMMA OwnPromise ==
  ASSUME AdmInv, PromisesInv, NEW p \in Callers, ProcessStep(p)
  PROVE  PromiseOf(p)'
<1>1. call[p].op = "overrun" /\ call[p].pc # "policy" => frozen
  BY DEF PromisesInv, PromiseOf
<1>2. read[p] \in ReadRecord
  BY DEF AdmInv, AdmTypeOK
<1>3. CASE TakePolicy(p)
  <2>1. Goto(p, "db") /\ frozen' = (frozen \/ call[p].op = "overrun")
    BY <1>3 DEF TakePolicy, Acquire, After
  <2>2. read'[p].now = read[p].now \/ read'[p].now = period
    BY <1>2, <1>3 DEF TakePolicy, AuthorityRead, AdmInv, AdmTypeOK, ReadRecord
  <2> QED BY <2>1, <2>2, GoingOnPromise
<1>4. CASE TakeDb(p) \/ TakeLedger(p)
  <2>1. PICK pc \in {"ledger", "append", "siblings"} : Goto(p, pc)
    BY <1>4 DEF TakeDb, TakeLedger, Acquire, After
  <2>2. read'[p].now = read[p].now \/ read'[p].now = period
    BY <1>2, <1>4 DEF TakeDb, TakeLedger, AdmInv, AdmTypeOK, ReadRecord
  <2>3. frozen' = frozen /\ call[p].pc # "policy"
    BY <1>4 DEF TakeDb, TakeLedger, policyVars
  <2> QED BY <1>1, <2>1, <2>2, <2>3, GoingOnPromise
<1>5. CASE ReadSiblings(p)
  <2>1. Goto(p, "commit") /\ frozen' = frozen /\ call[p].pc # "policy"
    BY <1>5 DEF ReadSiblings, policyVars
  <2>2. read'[p].now = read[p].now
    BY <1>2, <1>5 DEF ReadSiblings, AdmInv, AdmTypeOK, ReadRecord
  <2> QED BY <1>1, <2>1, <2>2, GoingOnPromise
<1>6. CASE AppendNew(p) \/ AppendAgain(p)
  <2>1. Goto(p, "close") /\ frozen' = frozen /\ call[p].pc # "policy" /\ read' = read
    BY <1>6 DEF AppendNew, AppendAgain, policyVars
  <2> QED BY <1>1, <2>1, GoingOnPromise
<1>7. CASE ExposeForCredit(p) /\ ~Return(p)
  <2>1. Goto(p, "save") /\ frozen' = frozen /\ read' = read /\ call[p].op = "credit"
    BY <1>7 DEF ExposeForCredit, ExposeThen, policyVars
  <2> QED BY <2>1, GoingOnPromise
<1>8. CASE ExposeForUnfreeze(p) /\ ~Return(p)
  BY <1>8, UnfreezePromise
<1>9. CASE BeginStep(p)
  BY <1>9, BegunPromise
<1>10. CASE Return(p)
  BY <1>10, ReturnedPromise
<1>11. CASE \/ CommitHold(p) \/ CommitMark(p) \/ Refuse(p) \/ Expose(p) \/ SaveCredit(p)
            \/ SaveUnfreeze(p) \/ AppendConflict(p) \/ CloseRow(p) \/ GiveUp(p) \/ Crash(p)
  BY <1>10, <1>11 DEF CommitHold, CommitMark, Refuse, Expose, SaveCredit, SaveUnfreeze,
                      AppendConflict, CloseRow, GiveUp, Crash
<1> QED BY <1>3, <1>4, <1>5, <1>6, <1>7, <1>8, <1>9, <1>10, <1>11 DEF ProcessStep, CallStep

(* Before the first call nothing has been promised.                        *)
LEMMA PromisesInit ==
  ASSUME Init
  PROVE  PromisesInv
<1>1. LedgerInv
  BY FS_EmptySet DEF Init, LedgerInv, Booked
<1>2. ASSUME NEW p \in Callers PROVE PromiseOf(p)
  BY DEF Init, PromiseOf, Idle, NoRead
<1> QED BY <1>1, <1>2 DEF PromisesInv

(* Every step keeps every promise.                                         *)
LEMMA PromisesStep ==
  ASSUME AdmInv, PromisesInv, [Next]_vars
  PROVE  PromisesInv'
<1> SUFFICES ASSUME NEW q \in Callers PROVE PromiseOf(q)'
  BY LedgerInvStep DEF PromisesInv
<1>1. AdmTypeOK /\ CallsInv /\ LocksInv /\ HoldsInv
  BY DEF AdmInv
<1>2. CASE UNCHANGED vars
  <2>1. UNCHANGED <<limit, frozen, wallet, marked, row, ledger, call, read>>
    BY <1>2 DEF vars, policyVars, rowVars, localVars
  <2> QED BY <2>1, PromiseKept DEF PolicyStays, NothingOpens
<1>3. CASE EnvironmentStep
  <2>1. UNCHANGED <<call, read, ledger>>
    BY <1>3 DEF EnvironmentStep, Refund, SetLimit, Freeze, ClearWallet, NewPeriod, Age, localVars
  <2> QED BY <1>1, <1>3, <2>1, PromiseKept, PolicyIsLockedOutside
<1>4. ASSUME NEW p \in Callers, ProcessStep(p)
      PROVE  PromiseOf(q)'
  <2>1. CASE p = q
    BY <1>4, <2>1, OwnPromise
  <2>2. CASE p # q
    BY <1>1, <1>4, <2>2, ReadsAreLocal, PromiseKept, PolicyIsLocked, LedgerIsStill
  <2> QED BY <2>1, <2>2
<1> QED BY <1>2, <1>3, <1>4 DEF Next, ProcessStep

(***************************************************************************)
(* The atomic decisions                                                    *)
(***************************************************************************)

(* The abstract specification sums, compares and caps as this one does.    *)
LEMMA SameSums ==
  ASSUME NEW E, NEW S, NEW start, NEW w
  PROVE  /\ Authority!Charged(E) = Charged(E)
         /\ Authority!Reserved(S) = Reserved(S)
         /\ Authority!SettledSince(E, start, w) = SettledSince(E, start, w)
<1>1. ASSUME NEW D PROVE Authority!Charged(D) = Charged(D)
  BY DEF Charged, Authority!Charged, MapThenSumSet, MapThenFoldSet,
         Authority!MapThenSumSet, Authority!MapThenFoldSet
<1>2. Authority!Reserved(S) = Reserved(S)
  BY DEF Reserved, Authority!Reserved, MapThenSumSet, MapThenFoldSet,
         Authority!MapThenSumSet, Authority!MapThenFoldSet
<1>3. Authority!SettledSince(E, start, w) = SettledSince(E, start, w)
  BY <1>1 DEF SettledSince, Authority!SettledSince
<1> QED BY <1>1, <1>2, <1>3

(* So a hold fits for the one when it fits for the other.                  *)
LEMMA SameAuthority ==
  ASSUME NEW lim, NEW wal, NEW E, NEW start, NEW S, NEW h
  PROVE  /\ Authority!WithinAuthority(lim, wal, E, start, S) <=> WithinAuthority(lim, wal, E, start, S)
         /\ Authority!MonthHasRoom(lim, E, start) <=> MonthHasRoom(lim, E, start)
         /\ Authority!WithinJobCap(lim, wal, h) <=> WithinJobCap(lim, wal, h)
         /\ Authority!WalletFor(wal, h) = WalletFor(wal, h)
         /\ Authority!NoWallet = NoWallet
         /\ Authority!Booked(E) = Booked(E)
<1>1. Authority!NoWallet = NoWallet /\ Authority!Booked(E) = Booked(E)
  BY DEF Authority!NoWallet, NoWallet, Authority!Booked, Booked
<1>2. Authority!WalletFor(wal, h) = WalletFor(wal, h)
  BY <1>1 DEF Authority!WalletFor, WalletFor
<1>3. ASSUME NEW a, NEW b PROVE Authority!Least(a, b) = Least(a, b)
  BY DEF Authority!Least, Least
<1>4. ASSUME NEW w PROVE Authority!WindowCap(lim, wal, w) = WindowCap(lim, wal, w)
  BY <1>3 DEF Authority!WindowCap, WindowCap
<1>5. Authority!WalletCovers(wal, E, S) <=> WalletCovers(wal, E, S)
  BY SameSums DEF Authority!WalletCovers, WalletCovers
<1>6. Authority!WithinAuthority(lim, wal, E, start, S) <=> WithinAuthority(lim, wal, E, start, S)
  BY <1>4, <1>5, SameSums DEF Authority!WithinAuthority, WithinAuthority
<1>7. Authority!MonthHasRoom(lim, E, start) <=> MonthHasRoom(lim, E, start)
  BY <1>3, SameSums DEF Authority!MonthHasRoom, MonthHasRoom
<1>8. Authority!WithinJobCap(lim, wal, h) <=> WithinJobCap(lim, wal, h)
  BY <1>4 DEF Authority!WithinJobCap, WithinJobCap
<1> QED BY <1>1, <1>2, <1>6, <1>7, <1>8

(* The repair of a root settles what is booked already, and the expiry     *)
(* gives back what it drops; to the open and the used holds nothing else   *)
(* happens.                                                                *)
LEMMA RepairedHolds ==
  ASSUME AdmInv, NEW p \in Callers, call[p].pc = "commit",
         NEW dropped, dropped \subseteq OpenHolds, NEW h \in Holds
  PROVE  /\ RepairedRows(p, dropped)[h] = "active" /\ h \notin Booked(ledger)
              <=> h \in OpenHolds \ dropped
         /\ RepairedRows(p, dropped)[h] = "none" <=> row[h] = "none"
<1>1. read[p].seen = ledger
  BY DEF AdmInv, SnapshotIsCurrent
<1> QED BY <1>1 DEF RepairedRows, OpenHolds, ActiveRows

(* What a decision expires is open, of a council and not sent.             *)
LEMMA ExpiredIsDroppable ==
  ASSUME AdmInv, NEW p \in Callers, call[p].pc = "commit"
  PROVE  Expired(p) \subseteq OpenHolds /\ Expired(p) \in Authority!Droppable
<1>1. read[p].seen = ledger
  BY DEF AdmInv, SnapshotIsCurrent
<1>2. Expired(p) \subseteq (OpenHolds \cap Council) \ marked
  BY <1>1 DEF Expired, Unsettled, ActiveRows, OpenHolds
<1> QED BY <1>2 DEF Authority!Droppable

(* What fits when a decision commits fits the ledger, the clock, the       *)
(* budget and the wallet of that moment, beside every hold open then.      *)
LEMMA FitsNow ==
  ASSUME AdmInv, PromisesInv, NEW p \in Callers, call[p].pc = "commit", Deciding(p),
         NEW S \in SUBSET Holds, NEW R \in SUBSET S, Fits(p, S)
  PROVE  WithinAuthority(EffectiveLimit, WalletFor(wallet, call[p].hold), ledger, period, R)
<1>1. /\ read[p].seen = ledger /\ read[p].limit = EffectiveLimit
      /\ read[p].wallet = WalletFor(wallet, call[p].hold)
  BY DEF AdmInv, SnapshotIsCurrent
<1>2. read[p] \in ReadRecord /\ period \in Periods /\ ledger \subseteq Events
  BY DEF AdmInv, AdmTypeOK
<1>3. read[p].limit \in Nat /\ read[p].wallet \in Wallets /\ read[p].now \in Periods
  BY <1>2 DEF ReadRecord
<1>4. IsFiniteSet(ledger) /\ \A w \in Windows : read[p].now[w] <= period[w]
  BY DEF PromisesInv, PromiseOf, LedgerInv
<1>5. Baselines \subseteq Nat
  <2>1. \A e \in ledger : e.cost \in Nat
    BY <1>2 DEF Events
  <2> QED BY <1>4, <2>1, ChargedGrows DEF Baselines
<1>6. read[p].wallet.credit \in Nat /\ read[p].wallet.baseline \in Nat
  BY <1>3, <1>5 DEF Wallets
<1>7. WithinAuthority(read[p].limit, read[p].wallet, read[p].seen, read[p].now, S)
  BY DEF Fits
<1> QED BY <1>1, <1>2, <1>3, <1>4, <1>6, <1>7, StillFits

\* a step of the abstract specification, or a stutter
Decides == [Authority!Next]_(Authority!vars)

(* Nothing of the stores changes but what the abstraction does not see.    *)
LEMMA StutterSimulated ==
  ASSUME UNCHANGED <<limit, frozen, wallet, period, marked, tag, ledger>>,
         UsedHolds' = UsedHolds, OpenHolds' = OpenHolds
  PROVE  Decides
BY DEF Decides, Authority!vars, Authority!authority

(* With the rows and the ledger unchanged the same holds are used and open.*)
LEMMA SameHolds ==
  ASSUME row' = row, ledger' = ledger
  PROVE  UsedHolds' = UsedHolds /\ OpenHolds' = OpenHolds
BY DEF UsedHolds, OpenHolds, Booked

(* Committing a reservation admits its hold.                               *)
LEMMA CommitHoldSimulated ==
  ASSUME AdmInv, PromisesInv, NEW p \in Callers, CommitHold(p)
  PROVE  Decides
<1> DEFINE h == call[p].hold
           dropped == Expired(p)
<1>1. /\ call[p].pc = "commit" /\ call[p].op = "reserve" /\ CanAdmit(p)
      /\ row' = [RepairedRows(p, dropped) EXCEPT ![h] = "active"]
      /\ tag' = [tag EXCEPT ![h] = read[p].wallet.id]
      /\ UNCHANGED <<limit, frozen, wallet, period, marked, ledger>>
  BY DEF CommitHold, policyVars, worldVars
<1>2. h \in Holds \ marked /\ row[h] = "none"
  BY AdmittedHoldIsNew
<1>3. dropped \subseteq OpenHolds /\ dropped \in Authority!Droppable
  BY <1>1, ExpiredIsDroppable
<1>4. h \notin Booked(ledger)
  BY <1>2 DEF PromisesInv, LedgerInv
<1>5. Deciding(p)
  BY <1>1 DEF Deciding
<1>6. /\ read[p].seen = ledger /\ read[p].wallet = WalletFor(wallet, h)
      /\ Elsewhere(call[p]) \subseteq read[p].others
  BY <1>1, <1>5 DEF AdmInv, SnapshotIsCurrent, ReadsInv, ReadsOf
<1>7. RepairedRows(p, dropped) \in [Holds -> RowStates]
  BY RepairTypes DEF AdmInv
<1> HIDE DEF h, dropped
<1>8. OpenHolds' = (OpenHolds \ dropped) \cup {h}
  <2>1. \A x \in Holds : x # h => row'[x] = RepairedRows(p, dropped)[x]
    BY <1>1, <1>2, <1>7
  <2>2. row'[h] = "active"
    BY <1>1, <1>2, <1>7
  <2>3. \A x \in Holds : RepairedRows(p, dropped)[x] = "active" /\ x \notin Booked(ledger)
                           <=> x \in OpenHolds \ dropped
    BY <1>1, <1>3, RepairedHolds
  <2>4. Booked(ledger') = Booked(ledger)
    BY <1>1
  <2>5. OpenHolds \subseteq Holds
    BY DEF OpenHolds
  <2>6. OpenHolds' = {x \in Holds : row'[x] = "active"} \ Booked(ledger')
    BY DEF OpenHolds
  <2> QED BY ONLY <1>2, <1>4, <2>1, <2>2, <2>3, <2>4, <2>5, <2>6
<1>9. UsedHolds' = UsedHolds \cup {h}
  <2>1. \A x \in Holds : x # h => row'[x] = RepairedRows(p, dropped)[x]
    BY <1>1, <1>2, <1>7
  <2>2. row'[h] = "active"
    BY <1>1, <1>2, <1>7
  <2>3. \A x \in Holds : RepairedRows(p, dropped)[x] = "none" <=> row[x] = "none"
    BY <1>1, <1>3, RepairedHolds
  <2> QED BY <1>2, <2>1, <2>2, <2>3 DEF UsedHolds
<1>10. WithinAuthority(EffectiveLimit, WalletFor(wallet, h), ledger, period, (OpenHolds \ dropped) \cup {h})
  <2> DEFINE S == Own(p) \cup read[p].others \cup {h}
             R == (OpenHolds \ dropped) \cup {h}
  <2>1. Fits(p, S)
    BY <1>1 DEF CanAdmit, h
  <2>2. S \in SUBSET Holds
    BY <1>2 DEF AdmInv, AdmTypeOK, ReadRecord, Own, Unsettled, ActiveRows
  <2>3. R \in SUBSET S
    BY <1>6 DEF Own, Unsettled, ActiveRows, Elsewhere, OpenHolds, dropped
  <2> HIDE DEF S
  <2> QED BY <1>1, <1>5, <2>1, <2>2, <2>3, FitsNow DEF h
<1>11. Authority!Admit(h, dropped)
  <2>1. Authority!Effective = EffectiveLimit
    BY DEF Authority!Effective, EffectiveLimit
  <2>2. h \notin UsedHolds
    BY <1>2 DEF UsedHolds
  <2>3. Authority!WalletFor(wallet, h) = WalletFor(wallet, h)
    BY SameAuthority
  <2>4. Authority!WithinAuthority(Authority!Effective, Authority!WalletFor(wallet, h), ledger, period,
                                  (OpenHolds \ dropped) \cup {h})
    BY <1>10, <2>1, <2>3, SameAuthority
  <2>5. tag' = [tag EXCEPT ![h] = Authority!WalletFor(wallet, h).id]
    BY <1>1, <1>6, <2>3
  <2> QED BY <1>1, <1>8, <1>9, <2>2, <2>4, <2>5 DEF Authority!Admit, Authority!authority
<1> QED BY <1>2, <1>3, <1>11 DEF Decides, Authority!Next

(* Committing a mark sends its hold.                                       *)
LEMMA CommitMarkSimulated ==
  ASSUME AdmInv, PromisesInv, NEW p \in Callers, CommitMark(p)
  PROVE  Decides
<1> DEFINE h == call[p].hold
           dropped == Expired(p)
<1>1. /\ call[p].pc = "commit" /\ call[p].op = "mark" /\ CanMark(p)
      /\ row' = RepairedRows(p, dropped) /\ marked' = marked \cup {h}
      /\ UNCHANGED <<limit, frozen, wallet, period, tag, ledger>>
  BY DEF CommitMark, policyVars, worldVars
<1>2. dropped \subseteq OpenHolds /\ dropped \in Authority!Droppable
  BY <1>1, ExpiredIsDroppable
<1>3. Deciding(p)
  BY <1>1 DEF Deciding
<1>4. /\ read[p].seen = ledger /\ read[p].wallet = WalletFor(wallet, h)
      /\ read[p].limit = EffectiveLimit
      /\ Elsewhere(call[p]) \subseteq read[p].others
  BY <1>1, <1>3 DEF AdmInv, SnapshotIsCurrent, ReadsInv, ReadsOf
<1>5. h \in OpenHolds \ (dropped \cup marked) /\ h \in Holds
  BY <1>1, <1>4 DEF CanMark, Own, Unsettled, ActiveRows, OpenHolds
<1> HIDE DEF h, dropped
<1>6. OpenHolds' = OpenHolds \ dropped
  <2>1. \A x \in Holds : row'[x] = "active" /\ x \notin Booked(ledger)
                           <=> x \in OpenHolds \ dropped
    BY <1>1, <1>2, RepairedHolds
  <2>2. OpenHolds \subseteq Holds
    BY DEF OpenHolds
  <2>3. OpenHolds' = {x \in Holds : row'[x] = "active"} \ Booked(ledger)
    BY <1>1 DEF OpenHolds
  <2> QED BY ONLY <2>1, <2>2, <2>3
<1>7. UsedHolds' = UsedHolds
  <2>1. \A x \in Holds : row'[x] = "none" <=> row[x] = "none"
    BY <1>1, <1>2, RepairedHolds
  <2> QED BY <2>1 DEF UsedHolds
<1>8. WithinAuthority(EffectiveLimit, WalletFor(wallet, h), ledger, period, OpenHolds \ dropped)
  <2> DEFINE S == Own(p) \cup read[p].others
             R == OpenHolds \ dropped
  <2>1. Fits(p, S)
    BY <1>1 DEF CanMark
  <2>2. S \in SUBSET Holds
    BY DEF AdmInv, AdmTypeOK, ReadRecord, Own, Unsettled, ActiveRows
  <2>3. R \in SUBSET S
    BY <1>4 DEF Own, Unsettled, ActiveRows, Elsewhere, OpenHolds, dropped
  <2> HIDE DEF S
  <2> QED BY <1>1, <1>3, <2>1, <2>2, <2>3, FitsNow DEF h
<1>9. Authority!Send(h, dropped)
  <2>1. Authority!Effective = EffectiveLimit
    BY DEF Authority!Effective, EffectiveLimit
  <2>2. Authority!WalletFor(wallet, h) = WalletFor(wallet, h)
    BY SameAuthority
  <2>3. Authority!WithinAuthority(Authority!Effective, Authority!WalletFor(wallet, h), ledger, period,
                                  OpenHolds \ dropped)
    BY <1>8, <2>1, <2>2, SameAuthority
  <2>4. WithinJobCap(EffectiveLimit, WalletFor(wallet, h), h)
    BY <1>1, <1>4 DEF CanMark, h
  <2>5. Authority!WithinJobCap(Authority!Effective, Authority!WalletFor(wallet, h), h)
    BY <2>1, <2>2, <2>4, SameAuthority
  <2>6. tag[h] = Authority!WalletFor(wallet, h).id
    BY <1>1, <1>4, <2>2 DEF CanMark, h
  <2> QED BY <1>1, <1>5, <1>6, <1>7, <2>3, <2>5, <2>6 DEF Authority!Send, Authority!authority
<1> QED BY <1>2, <1>5, <1>9 DEF Decides, Authority!Next

(* The append of a settlement books its cost.                              *)
LEMMA AppendSimulated ==
  ASSUME AdmInv, PromisesInv, NEW p \in Callers, AppendNew(p)
  PROVE  Decides
<1> DEFINE h == call[p].hold
           cost == call[p].amount
           at == read[p].now
           event == [hold |-> h, cost |-> cost, at |-> at]
<1>1. /\ call[p].pc = "append" /\ ledger' = ledger \cup {event}
      /\ UNCHANGED <<limit, frozen, wallet, period, marked, tag, row>>
  BY DEF AppendNew, policyVars, worldVars, rowVars
<1>2. h \in OpenHolds \cap marked
  BY AppendsSettleOpenHolds DEF AdmInv
<1>3. Settling(call[p]) /\ cost \in Charges /\ h \notin Unsent
  BY <1>1 DEF AdmInv, CallsInv, CallInv
<1>4. h \in Holds /\ h \notin Booked(ledger)
  BY <1>2 DEF OpenHolds
<1>5. at \in Periods /\ \A w \in Windows : at[w] <= period[w]
  BY DEF AdmInv, AdmTypeOK, ReadRecord, PromisesInv, PromiseOf
<1>6. cost > Price[h] => frozen
  <2>1. call[p].op = "settle" => cost <= Price[h]
    BY DEF PromisesInv, PromiseOf
  <2>2. call[p].op = "overrun" => frozen
    BY <1>1 DEF PromisesInv, PromiseOf
  <2>3. cost \in Nat /\ Price[h] \in Nat
    BY <1>3, <1>4
  <2> QED BY <1>3, <2>1, <2>2, <2>3 DEF Settling
<1>7. event.hold = h
  OBVIOUS
<1>8. Authority!Events = Events /\ Authority!Periods = Periods
  BY DEF Authority!Events, Events, Authority!Periods, Periods
<1>9. OpenHolds' = OpenHolds \ {h} /\ UsedHolds' = UsedHolds
  <2> HIDE DEF event, h
  <2> QED BY <1>1, <1>7 DEF OpenHolds, UsedHolds, Booked
<1>10. Authority!Book(h, cost, at)
  <2>1. Authority!Booked(ledger) = Booked(ledger)
    BY SameAuthority
  <2>2. h \in (OpenHolds \cap marked) \ Unsent
    BY <1>2, <1>3
  <2> HIDE DEF h, cost, at
  <2> QED BY <1>1, <1>4, <1>5, <1>6, <1>9, <2>1, <2>2 DEF event, Authority!Book, Authority!authority
<1> HIDE DEF h, cost, at, event
<1> QED BY <1>3, <1>4, <1>5, <1>8, <1>10 DEF Decides, Authority!Next

(* A repair without an expiry changes neither the open nor the used holds. *)
LEMMA ExposureSimulated ==
  ASSUME AdmInv, NEW p \in Callers, Expose(p) \/ ExposeForCredit(p) \/ ExposeForUnfreeze(p)
  PROVE  Decides
<1>1. /\ call[p].pc = "commit" /\ row' = RepairedRows(p, {})
      /\ UNCHANGED <<limit, frozen, wallet, period, marked, tag, ledger>>
  BY DEF Expose, ExposeForCredit, ExposeForUnfreeze, ExposeThen, policyVars, worldVars
<1>2. \A x \in Holds :
        /\ (row'[x] = "active" /\ x \notin Booked(ledger)) <=> x \in OpenHolds
        /\ row'[x] = "none" <=> row[x] = "none"
  <2>1. {} \subseteq OpenHolds
    OBVIOUS
  <2> QED BY <1>1, <2>1, RepairedHolds
<1>3. OpenHolds' = {x \in Holds : row'[x] = "active"} \ Booked(ledger)
  BY <1>1 DEF OpenHolds
<1>4. UsedHolds' = {x \in Holds : row'[x] # "none"}
  BY DEF UsedHolds
<1> QED BY <1>1, <1>2, <1>3, <1>4, StutterSimulated DEF OpenHolds, UsedHolds

(* A settlement closes the row of a hold that it has booked already.       *)
LEMMA CloseSimulated ==
  ASSUME AdmInv, NEW p \in Callers, CloseRow(p)
  PROVE  Decides
<1>1. /\ call[p].pc = "close" /\ row' = [row EXCEPT ![call[p].hold] = "settled"]
      /\ UNCHANGED <<limit, frozen, wallet, period, marked, tag, ledger>>
  BY DEF CloseRow, policyVars, worldVars
<1>2. call[p].hold \in Booked(ledger) /\ call[p].hold \in marked
  BY <1>1 DEF AdmInv, HoldsInv, CallsInv, CallInv
<1>3. row[call[p].hold] # "none" /\ row \in [Holds -> RowStates]
  BY <1>2 DEF AdmInv, HoldsInv, AdmTypeOK, RowStates
<1>4. OpenHolds' = OpenHolds
  BY <1>1, <1>2, <1>3 DEF OpenHolds
<1>5. UsedHolds' = UsedHolds
  BY <1>1, <1>3 DEF UsedHolds
<1> QED BY <1>1, <1>4, <1>5, StutterSimulated

(* A budget command saves what it has promised.                            *)
LEMMA SaveSimulated ==
  ASSUME AdmInv, PromisesInv, NEW p \in Callers, SaveCredit(p) \/ SaveUnfreeze(p)
  PROVE  Decides
<1>1. /\ call[p].pc = "save"
      /\ UNCHANGED <<limit, row, period, marked, tag, ledger>>
  BY DEF SaveCredit, SaveUnfreeze, rowVars, worldVars
<1>2. UsedHolds' = UsedHolds /\ OpenHolds' = OpenHolds
  BY <1>1, SameHolds
<1>3. CASE SaveCredit(p)
  <2> DEFINE credit == call[p].amount
  <2>1. OpenHolds \cap marked = {} /\ read[p].seen = ledger
    BY <1>1 DEF AdmInv, ReadsInv, ReadsOf, SnapshotIsCurrent
  <2>2. credit \in Credits /\ fundings \in Nat /\ wallet \in Wallets
    BY <1>3 DEF SaveCredit, PromisesInv, PromiseOf, AdmInv, AdmTypeOK
  <2>3. Authority!Charged(ledger) = Charged(ledger)
    BY SameSums
  <2>4. frozen' = frozen
    BY <1>3 DEF SaveCredit
  <2>5. \/ /\ wallet.id = 0
           /\ wallet' = [id |-> fundings + 1, credit |-> credit, baseline |-> Charged(ledger)]
        \/ /\ wallet.id # 0
           /\ wallet' = [wallet EXCEPT !.credit = @ + credit]
    BY <1>3, <2>1 DEF SaveCredit
  <2> HIDE DEF credit
  <2>6. \/ /\ wallet.id = 0
           /\ wallet'.id \in Nat \ {0}
           /\ wallet' = [id |-> wallet'.id, credit |-> credit, baseline |-> Authority!Charged(ledger)]
        \/ /\ wallet.id # 0
           /\ wallet' = [wallet EXCEPT !.credit = @ + credit]
    BY ONLY <2>2, <2>3, <2>5
  <2>7. Authority!Fund(credit)
    BY <1>1, <1>2, <2>1, <2>4, <2>6 DEF Authority!Fund
  <2> QED BY <2>2, <2>7 DEF Decides, Authority!Next
<1>4. CASE SaveUnfreeze(p)
  <2>1. OpenHolds = {} /\ MonthHasRoom(limit, ledger, read[p].now)
    BY <1>1, <1>4 DEF SaveUnfreeze, PromisesInv, PromiseOf
  <2>2. /\ limit \in Nat /\ ledger \subseteq Events /\ IsFiniteSet(ledger)
        /\ read[p].now \in Periods /\ period \in Periods
        /\ \A w \in Windows : read[p].now[w] <= period[w]
    BY DEF AdmInv, AdmTypeOK, ReadRecord, PromisesInv, PromiseOf, LedgerInv
  <2>3. MonthHasRoom(limit, ledger, period)
    BY <2>1, <2>2, StillHasRoom
  <2>4. Authority!MonthHasRoom(limit, ledger, period)
    BY <2>3, SameAuthority
  <2>5. frozen' = FALSE /\ wallet' = wallet
    BY <1>4 DEF SaveUnfreeze
  <2>6. Authority!Unfreeze
    BY <1>1, <1>2, <2>1, <2>4, <2>5 DEF Authority!Unfreeze
  <2> QED BY <2>6 DEF Decides, Authority!Next
<1> QED BY <1>3, <1>4

(* Taking the policy lock freezes for an overrun and else changes nothing. *)
LEMMA TakePolicySimulated ==
  ASSUME AdmInv, NEW p \in Callers, TakePolicy(p)
  PROVE  Decides
<1>1. /\ frozen' = (frozen \/ call[p].op = "overrun")
      /\ UNCHANGED <<limit, wallet, row, period, marked, tag, ledger>>
  BY DEF TakePolicy, rowVars, worldVars
<1>2. UsedHolds' = UsedHolds /\ OpenHolds' = OpenHolds
  BY <1>1, SameHolds
<1>3. CASE frozen' = TRUE
  BY <1>1, <1>2, <1>3 DEF Authority!Freeze, Decides, Authority!Next
<1>4. CASE frozen' = frozen
  BY <1>1, <1>2, <1>4, StutterSimulated
<1>5. frozen' = TRUE \/ frozen' = frozen
  <2>1. frozen \in BOOLEAN
    BY DEF AdmInv, AdmTypeOK
  <2> QED BY <1>1, <2>1
<1> QED BY <1>3, <1>4, <1>5

(* The other steps of a call change nothing that the abstraction sees.     *)
LEMMA LocalSimulated ==
  ASSUME NEW p \in Callers,
         \/ BeginStep(p) \/ GiveUp(p) \/ Crash(p) \/ TakeDb(p) \/ TakeLedger(p)
         \/ ReadSiblings(p) \/ Refuse(p) \/ AppendAgain(p) \/ AppendConflict(p)
  PROVE  Decides
<1>1. UNCHANGED <<limit, frozen, wallet, period, row, marked, tag, ledger>>
  BY DEF BeginStep, BeginReserve, BeginMark, BeginSettle, BeginExpose, BeginUnfreeze,
         BeginCredit, Begin, GiveUp, Crash, TakeDb, TakeLedger, ReadSiblings, Refuse,
         AppendAgain, AppendConflict, policyVars, rowVars, worldVars
<1> QED BY <1>1, SameHolds, StutterSimulated

(* Refunds, the operator's edits and the clock are steps of their own.     *)
LEMMA EnvironmentSimulated ==
  ASSUME AdmInv, EnvironmentStep
  PROVE  Decides
<1>1. ASSUME NEW h \in Holds, Refund(h)
      PROVE  Decides
  <2>1. /\ row[h] = "active" /\ h \notin marked \ Unsent
        /\ row' = [row EXCEPT ![h] = "refunded"]
        /\ UNCHANGED <<limit, frozen, wallet, period, marked, tag, ledger>>
    BY <1>1 DEF Refund, policyVars, worldVars
  <2>2. row \in [Holds -> RowStates]
    BY DEF AdmInv, AdmTypeOK, RowStates
  <2>3. OpenHolds' = OpenHolds \ {h} /\ UsedHolds' = UsedHolds
    BY <2>1, <2>2 DEF OpenHolds, UsedHolds
  <2>4. CASE h \in Booked(ledger)
    BY <2>1, <2>3, <2>4, StutterSimulated DEF OpenHolds
  <2>5. CASE h \notin Booked(ledger)
    <3>1. h \in OpenHolds
      BY <2>1, <2>5 DEF OpenHolds
    <3>2. Authority!Release(h)
      BY <2>1, <2>3, <3>1 DEF Authority!Release, Authority!authority
    <3> QED BY <3>2 DEF Decides, Authority!Next
  <2> QED BY <2>4, <2>5
<1>2. CASE \E h \in Holds : Age(h)
  <2>1. UNCHANGED <<limit, frozen, wallet, period, row, marked, tag, ledger>>
    BY <1>2 DEF Age, policyVars, rowVars
  <2> QED BY <2>1, SameHolds, StutterSimulated
<1>3. CASE \/ \E l \in Limits : SetLimit(l)
           \/ Freeze \/ ClearWallet
  <2>1. UNCHANGED <<period, row, marked, tag, ledger>>
    BY <1>3 DEF SetLimit, Freeze, ClearWallet, rowVars, worldVars
  <2>2. UsedHolds' = UsedHolds /\ OpenHolds' = OpenHolds
    BY <2>1, SameHolds
  <2>3. CASE \E l \in Limits : SetLimit(l)
    <3>1. Authority!SetLimit
      BY <2>1, <2>2, <2>3 DEF SetLimit, Authority!SetLimit
    <3> QED BY <3>1 DEF Decides, Authority!Next
  <2>4. CASE Freeze
    <3>1. Authority!Freeze
      BY <2>1, <2>2, <2>4 DEF Freeze, Authority!Freeze
    <3> QED BY <3>1 DEF Decides, Authority!Next
  <2>5. CASE ClearWallet
    <3>1. Authority!NoWallet = NoWallet
      BY SameAuthority
    <3>2. Authority!Clear
      BY <2>1, <2>2, <2>5, <3>1 DEF ClearWallet, Authority!Clear
    <3> QED BY <3>2 DEF Decides, Authority!Next
  <2> QED BY <1>3, <2>3, <2>4, <2>5
<1>4. CASE \E S \in Rollovers : NewPeriod(S)
  <2>1. UNCHANGED <<limit, frozen, wallet, row, marked, tag, ledger>>
    BY <1>4 DEF NewPeriod, policyVars, rowVars
  <2>2. UsedHolds' = UsedHolds /\ OpenHolds' = OpenHolds
    BY <2>1, SameHolds
  <2>3. \A w \in Windows : period'[w] >= period[w]
    BY <1>4 DEF NewPeriod, AdmInv, AdmTypeOK, Periods
  <2>4. Authority!NewPeriod
    BY <2>1, <2>2, <2>3 DEF Authority!NewPeriod
  <2> QED BY <2>4 DEF Decides, Authority!Next
<1> QED BY <1>1, <1>2, <1>3, <1>4 DEF EnvironmentStep

(* Every step of the locked calls is an atomic decision, or a stutter.     *)
LEMMA StepSimulated ==
  ASSUME AdmInv, PromisesInv, [Next]_vars
  PROVE  Decides
<1>1. CASE UNCHANGED vars
  <2>1. UNCHANGED <<limit, frozen, wallet, period, row, marked, tag, ledger>>
    BY <1>1 DEF vars, policyVars, rowVars, worldVars
  <2> QED BY <2>1, SameHolds, StutterSimulated
<1>2. ASSUME NEW p \in Callers, BeginStep(p) \/ CallStep(p) \/ GiveUp(p) \/ Crash(p)
      PROVE  Decides
  BY <1>2, CommitHoldSimulated, CommitMarkSimulated, AppendSimulated, ExposureSimulated,
     CloseSimulated, SaveSimulated, TakePolicySimulated, LocalSimulated DEF CallStep
<1> QED BY <1>1, <1>2, EnvironmentSimulated DEF Next

(* The first states of the locked calls are first states of the decisions. *)
LEMMA InitSimulated ==
  ASSUME Init
  PROVE  Authority!Init
<1>1. UsedHolds = Legacy /\ OpenHolds = Legacy
  BY DEF Init, UsedHolds, OpenHolds, Booked
<1>2. Authority!NoWallet = NoWallet
  BY SameAuthority
<1> QED BY <1>1, <1>2 DEF Init, Authority!Init

(* Through locks that are given up between steps, reads of other databases *)
(* without theirs, crashes and timeouts, every admission, mark, booking,   *)
(* refund, funding and unfreeze is judged as if it were one step: for any  *)
(* callers, holds, prices, windows and limits.                             *)
THEOREM AdmissionIsAtomic == Spec => DecidesAtomically
<1>1. Init => PromisesInv /\ Authority!Init
  BY PromisesInit, InitSimulated
<1>2. AdmInv /\ PromisesInv /\ [Next]_vars => PromisesInv' /\ Decides
  BY PromisesStep, StepSimulated
<1> QED BY <1>1, <1>2, AdmissionInvariant, PTL DEF Spec, DecidesAtomically, Authority!Spec, Decides
=============================================================================
