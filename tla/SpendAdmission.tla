--------------------------- MODULE SpendAdmission ---------------------------
(***************************************************************************)
(* The calls that decide over paid work, at the grain of their locks: the  *)
(* reservation store's reserve, mark, settle, refund and exposure views,   *)
(* the overrun freeze around a settlement, and the operator's budget and   *)
(* wallet commands. Callers are processes; they share the budget file, the *)
(* wallet file, two reservation databases and the ledger.                  *)
(***************************************************************************)
EXTENDS SpendConfig

CONSTANTS
  Callers,   \* processes
  NoHold     \* stands for "about no hold"

ASSUME NoHoldAssumption == NoHold \notin Holds

VARIABLES
  limit,     \* budget file: the operator's monthly limit
  frozen,    \* budget file: paid work is frozen
  wallet,    \* wallet file
  fundings,  \* credit commands that succeeded; numbers the wallets
  row,       \* row[h], state of the reservation row
  marked,    \* rows with provider_work_may_have_run
  tag,       \* tag[h], spend_wallet_id of the row, 0 for none
  ledger,    \* cost events
  period,    \* the clock: current period of each window
  aged,      \* council holds created more than an hour ago
  call,      \* call[p], the call of a process and what it does next
  read,      \* read[p], what the call has read
  held,      \* held[p], the locks it holds
  faults     \* number of callers that died

policyVars == <<limit, frozen, wallet, fundings>>
rowVars == <<row, marked, tag>>
worldVars == <<period, aged>>
localVars == <<call, read, held>>
vars == <<policyVars, rowVars, ledger, worldVars, localVars, faults>>

UsedHolds == {h \in Holds : row[h] # "none"}

EffectiveLimit == IF frozen THEN 0 ELSE limit

Roots == {"primary", "legacy"}
Locks == {"policy", "ledger"} \cup Roots
Root(h) == IF h \in Legacy THEN "legacy" ELSE "primary"

Ops == {"reserve", "mark", "settle", "overrun", "expose", "credit", "unfreeze"}
Waits == {"policy", "db", "ledger"}
Steps == {"idle", "siblings", "commit", "append", "close", "save"} \cup Waits

NoRead == [limit |-> 0, wallet |-> NoWallet, now |-> [w \in Windows |-> 0],
           old |-> {}, known |-> FALSE, seen |-> {}, others |-> {}]

Idle == [op |-> "expose", hold |-> NoHold, amount |-> 0, pc |-> "idle"]

(***************************************************************************)
(* Locks                                                                   *)
(***************************************************************************)

\* the lock a call asks for first
FirstWait(op) ==
  IF op \in {"settle", "expose"} THEN "db" ELSE "policy"

\* Deliberately wrong: mark reads the ledger before it opens the database.
AfterSwapped(op, lock) ==
  CASE lock = "policy" -> IF op = "mark" THEN "ledger" ELSE "db"
    [] lock = "db" -> IF op = "mark" THEN "siblings" ELSE "ledger"
    [] lock = "ledger" ->
         CASE op = "mark" -> "db"
           [] op \in {"settle", "overrun"} -> "append"
           [] OTHER -> "siblings"

\* where a call goes when it has got the lock it waited for
After(op, lock) ==
  CASE lock = "policy" -> "db"
    [] lock = "db" -> "ledger"
    [] lock = "ledger" ->
         IF op \in {"settle", "overrun"} THEN "append" ELSE "siblings"

\* the database a call works on: that of its hold, else the primary one
Database(c) == IF c.hold = NoHold THEN "primary" ELSE Root(c.hold)

Wanted(c) == IF c.pc = "db" THEN Database(c) ELSE c.pc

Taken(lock) == \E p \in Callers : lock \in held[p]

Busy(p) == call[p].pc # "idle"

Blocked(p) == call[p].pc \in Waits /\ Taken(Wanted(call[p]))

Goto(p, pc) == call' = [call EXCEPT ![p].pc = pc]

Return(p) ==
  /\ call' = [call EXCEPT ![p] = Idle]
  /\ read' = [read EXCEPT ![p] = NoRead]
  /\ held' = [held EXCEPT ![p] = {}]

Begin(p, op, h, amount) ==
  /\ ~Busy(p)
  /\ call' = [call EXCEPT ![p] =
       [op |-> op, hold |-> h, amount |-> amount, pc |-> FirstWait(op)]]
  /\ UNCHANGED <<policyVars, rowVars, ledger, worldVars, read, held, faults>>

BeginReserve(p, h) == h \notin Legacy /\ Begin(p, "reserve", h, 0)

BeginMark(p, h) == h \in UsedHolds /\ Begin(p, "mark", h, 0)

\* a cost above the ceiling takes the policy lock first
BeginSettle(p, h, cost) ==
  /\ h \in marked \ Unsent
  /\ Begin(p, IF cost > Price[h] THEN "overrun" ELSE "settle", h, cost)

BeginExpose(p) == Begin(p, "expose", NoHold, 0)

BeginUnfreeze(p) == Begin(p, "unfreeze", NoHold, 0)

BeginCredit(p, credit) ==
  /\ fundings + Cardinality({q \in Callers : call[q].op = "credit"}) < MaxFundings
  /\ Begin(p, "credit", NoHold, credit)

(***************************************************************************)
(* What a call does when it gets a lock                                    *)
(***************************************************************************)

Acquire(p) ==
  /\ call[p].pc \in Waits
  /\ ~Blocked(p)
  /\ held' = [held EXCEPT ![p] = @ \cup {Wanted(call[p])}]
  /\ Goto(p, After(call[p].op, call[p].pc))

\* Deliberately wrong: the start of the window is a period ahead.
AuthorityReadAhead(p) ==
  [read[p] EXCEPT !.limit = EffectiveLimit,
                  !.wallet = WalletFor(wallet, call[p].hold),
                  !.now = [w \in Windows |-> period[w] + 1],
                  !.old = aged,
                  !.known = call[p].hold \in UsedHolds]

\* reserve and mark read the authority, the clock and the identity index;
\* the exposure view of an unfreeze needs the clock of that
AuthorityRead(p) ==
  [read[p] EXCEPT !.limit = EffectiveLimit,
                  !.wallet = WalletFor(wallet, call[p].hold),
                  !.now = period,
                  !.old = aged,
                  !.known = call[p].hold \in UsedHolds]

TakePolicy(p) ==
  /\ call[p].pc = "policy"
  /\ Acquire(p)
  /\ read' = IF call[p].op \in {"reserve", "mark", "unfreeze"}
             THEN [read EXCEPT ![p] = AuthorityRead(p)] ELSE read
  /\ frozen' = (frozen \/ call[p].op = "overrun")
  /\ UNCHANGED <<limit, wallet, fundings, rowVars, ledger, worldVars, faults>>

\* settling dates its event before it waits for the ledger
TakeDb(p) ==
  /\ call[p].pc = "db"
  /\ Acquire(p)
  /\ read' = IF call[p].op \in {"settle", "overrun"}
             THEN [read EXCEPT ![p].now = period] ELSE read
  /\ UNCHANGED <<policyVars, rowVars, ledger, worldVars, faults>>

TakeLedger(p) ==
  /\ call[p].pc = "ledger"
  /\ Acquire(p)
  /\ read' = [read EXCEPT ![p].seen = ledger]
  /\ UNCHANGED <<policyVars, rowVars, ledger, worldVars, faults>>

(***************************************************************************)
(* Decisions under all locks                                               *)
(***************************************************************************)

ActiveRows(root) == {h \in Holds : Root(h) = root /\ row[h] = "active"}

\* active rows of a root whose completion event is not in the ledger read
Unsettled(root, seen) == ActiveRows(root) \ Booked(seen)

\* Deliberately wrong: in the other databases only sent work is counted.
ReadSentSiblings(p) ==
  /\ call[p].pc = "siblings"
  /\ read' = [read EXCEPT ![p].others =
       UNION {Unsettled(root, read[p].seen) \cap marked :
                root \in Roots \ {Database(call[p])}}]
  /\ Goto(p, "commit")
  /\ UNCHANGED <<policyVars, rowVars, ledger, worldVars, held, faults>>

\* the other databases are read without their locks
ReadSiblings(p) ==
  /\ call[p].pc = "siblings"
  /\ read' = [read EXCEPT ![p].others =
       UNION {Unsettled(root, read[p].seen) : root \in Roots \ {Database(call[p])}}]
  /\ Goto(p, "commit")
  /\ UNCHANGED <<policyVars, rowVars, ledger, worldVars, held, faults>>

\* Deliberately wrong: a council hold expires though its work was sent.
ExpiredAnyway(p) ==
  Unsettled(Database(call[p]), read[p].seen) \cap Council \cap read[p].old

\* unmarked council holds that were old when the call read the clock
Expired(p) ==
  (Unsettled(Database(call[p]), read[p].seen) \cap Council \cap read[p].old) \ marked

\* own holds that remain active after the repair and expiry of the root
Own(p) == Unsettled(Database(call[p]), read[p].seen) \ Expired(p)

\* the root's rows after the repair from the ledger and the expiry
RepairedRows(p, dropped) ==
  [h \in Holds |->
     IF h \in dropped THEN "refunded"
     ELSE IF h \in ActiveRows(Database(call[p])) \cap Booked(read[p].seen)
          THEN "settled" ELSE row[h]]

Fits(p, S) ==
  WithinAuthority(read[p].limit, read[p].wallet, read[p].seen, read[p].now, S)

CanAdmit(p) ==
  /\ ~read[p].known
  /\ Fits(p, Own(p) \cup read[p].others \cup {call[p].hold})

CommitHold(p) ==
  /\ call[p].pc = "commit" /\ call[p].op = "reserve"
  /\ CanAdmit(p)
  /\ row' = [RepairedRows(p, Expired(p)) EXCEPT ![call[p].hold] = "active"]
  /\ tag' = [tag EXCEPT ![call[p].hold] = read[p].wallet.id]
  /\ Return(p)
  /\ UNCHANGED <<policyVars, marked, ledger, worldVars, faults>>

\* Deliberately wrong: the wallet of the reservation is not compared.
CanMarkAnyWallet(p) ==
  /\ call[p].hold \in Own(p) \ marked
  /\ WithinJobCap(read[p].limit, read[p].wallet, call[p].hold)
  /\ Fits(p, Own(p) \cup read[p].others)

CanMark(p) ==
  /\ call[p].hold \in Own(p) \ marked
  /\ WithinJobCap(read[p].limit, read[p].wallet, call[p].hold)
  /\ Fits(p, Own(p) \cup read[p].others)
  /\ tag[call[p].hold] = read[p].wallet.id

CommitMark(p) ==
  /\ call[p].pc = "commit" /\ call[p].op = "mark"
  /\ CanMark(p)
  /\ row' = RepairedRows(p, Expired(p))
  /\ marked' = marked \cup {call[p].hold}
  /\ Return(p)
  /\ UNCHANGED <<policyVars, tag, ledger, worldVars, faults>>

\* a refusal rolls the repair and the expiry back
Refuse(p) ==
  /\ call[p].pc = "commit"
  /\ \/ call[p].op = "reserve" /\ ~CanAdmit(p)
     \/ call[p].op = "mark" /\ ~CanMark(p)
  /\ Return(p)
  /\ UNCHANGED <<policyVars, rowVars, ledger, worldVars, faults>>

(***************************************************************************)
(* Exposure and credit                                                     *)
(***************************************************************************)

\* an exposure view repairs the rows of the primary root
Expose(p) ==
  /\ call[p].pc = "commit" /\ call[p].op = "expose"
  /\ row' = RepairedRows(p, {})
  /\ Return(p)
  /\ UNCHANGED <<policyVars, marked, tag, ledger, worldVars, faults>>

\* sent and not settled, in any root, as the exposure view of p counts them
Unresolved(p) ==
  (Unsettled(Database(call[p]), read[p].seen) \cup read[p].others) \cap marked

\* a budget command goes on from its view, keeping the policy lock, or fails
ExposeThen(p, ok) ==
  /\ row' = RepairedRows(p, {})
  /\ IF ok
     THEN /\ Goto(p, "save")
          /\ held' = [held EXCEPT ![p] = {"policy"}]
          /\ UNCHANGED read
     ELSE Return(p)
  /\ UNCHANGED <<policyVars, marked, tag, ledger, worldVars, faults>>

ExposeForCredit(p) ==
  /\ call[p].pc = "commit" /\ call[p].op = "credit"
  /\ ExposeThen(p, Unresolved(p) = {})

\* no hold of any root is open, and the month is not exhausted
CanUnfreeze(p) ==
  /\ frozen
  /\ Unsettled(Database(call[p]), read[p].seen) \cup read[p].others = {}
  /\ MonthHasRoom(limit, read[p].seen, read[p].now)

ExposeForUnfreeze(p) ==
  /\ call[p].pc = "commit" /\ call[p].op = "unfreeze"
  /\ ExposeThen(p, CanUnfreeze(p))

SaveUnfreeze(p) ==
  /\ call[p].pc = "save" /\ call[p].op = "unfreeze"
  /\ frozen' = FALSE
  /\ Return(p)
  /\ UNCHANGED <<limit, wallet, fundings, rowVars, ledger, worldVars, faults>>

\* Deliberately wrong: a new wallet is charged with all spend before it.
SaveCreditFromZero(p) ==
  /\ call[p].pc = "save" /\ call[p].op = "credit"
  /\ wallet' = IF wallet.id = 0
               THEN [id |-> fundings + 1, credit |-> call[p].amount, baseline |-> 0]
               ELSE [wallet EXCEPT !.credit = @ + call[p].amount]
  /\ fundings' = fundings + 1
  /\ Return(p)
  /\ UNCHANGED <<limit, frozen, rowVars, ledger, worldVars, faults>>

SaveCredit(p) ==
  /\ call[p].pc = "save" /\ call[p].op = "credit"
  /\ wallet' = IF wallet.id = 0
               THEN [id |-> fundings + 1, credit |-> call[p].amount,
                     baseline |-> Charged(read[p].seen)]
               ELSE [wallet EXCEPT !.credit = @ + call[p].amount]
  /\ fundings' = fundings + 1
  /\ Return(p)
  /\ UNCHANGED <<limit, frozen, rowVars, ledger, worldVars, faults>>

(***************************************************************************)
(* Settlement and refund                                                   *)
(***************************************************************************)

\* the event first, then the row: the ledger lock is given up between them
AppendNew(p) ==
  /\ call[p].pc = "append"
  /\ call[p].hold \notin Booked(read[p].seen)
  /\ ledger' = ledger \cup
       {[hold |-> call[p].hold, cost |-> call[p].amount, at |-> read[p].now]}
  /\ held' = [held EXCEPT ![p] = @ \ {"ledger"}]
  /\ Goto(p, "close")
  /\ UNCHANGED <<policyVars, rowVars, worldVars, read, faults>>

SameEvent(p) ==
  \E e \in read[p].seen : e.hold = call[p].hold /\ e.cost = call[p].amount

AppendAgain(p) ==
  /\ call[p].pc = "append"
  /\ SameEvent(p)
  /\ held' = [held EXCEPT ![p] = @ \ {"ledger"}]
  /\ Goto(p, "close")
  /\ UNCHANGED <<policyVars, rowVars, ledger, worldVars, read, faults>>

\* a different amount under the same key raises
AppendConflict(p) ==
  /\ call[p].pc = "append"
  /\ call[p].hold \in Booked(read[p].seen)
  /\ ~SameEvent(p)
  /\ Return(p)
  /\ UNCHANGED <<policyVars, rowVars, ledger, worldVars, faults>>

CloseRow(p) ==
  /\ call[p].pc = "close"
  /\ row' = [row EXCEPT ![call[p].hold] = "settled"]
  /\ Return(p)
  /\ UNCHANGED <<policyVars, marked, tag, ledger, worldVars, faults>>

\* a caller that knows it sent nothing may give a marked hold back
Refund(h) ==
  /\ ~Taken(Root(h))
  /\ row[h] = "active"
  /\ h \notin marked \ Unsent
  /\ row' = [row EXCEPT ![h] = "refunded"]
  /\ UNCHANGED <<policyVars, marked, tag, ledger, worldVars, localVars, faults>>

(***************************************************************************)
(* The operator, the clock, and failures                                   *)
(***************************************************************************)

\* a budget edit; zero freezes, and no edit lifts a freeze
SetLimit(l) ==
  /\ ~Taken("policy")
  /\ limit' = l
  /\ frozen' = (frozen \/ l = 0)
  /\ UNCHANGED <<wallet, fundings, rowVars, ledger, worldVars, localVars, faults>>

\* Deliberately wrong: the budget file is rewritten without the policy lock.
FreezeUnlocked ==
  /\ frozen' = TRUE
  /\ UNCHANGED <<limit, wallet, fundings, rowVars, ledger, worldVars, localVars, faults>>

Freeze ==
  /\ ~Taken("policy")
  /\ frozen' = TRUE
  /\ UNCHANGED <<limit, wallet, fundings, rowVars, ledger, worldVars, localVars, faults>>

ClearWallet ==
  /\ ~Taken("policy")
  /\ wallet' = NoWallet
  /\ UNCHANGED <<limit, frozen, fundings, rowVars, ledger, worldVars, localVars, faults>>

NewPeriod(S) ==
  /\ \A w \in S : period[w] < MaxPeriods
  /\ period' = [w \in Windows |-> IF w \in S THEN period[w] + 1 ELSE period[w]]
  /\ UNCHANGED <<policyVars, rowVars, ledger, aged, localVars, faults>>

Age(h) ==
  /\ h \in Council \ aged
  /\ row[h] = "active"
  /\ aged' = aged \cup {h}
  /\ UNCHANGED <<policyVars, rowVars, ledger, period, localVars, faults>>

\* a lock that is not granted in time raises; the append of a settlement
\* waits as long as it takes
GiveUp(p) ==
  /\ Blocked(p)
  /\ ~(call[p].op \in {"settle", "overrun"} /\ call[p].pc = "ledger")
  /\ Return(p)
  /\ UNCHANGED <<policyVars, rowVars, ledger, worldVars, faults>>

\* locks and open transactions vanish with their process
Crash(p) ==
  /\ Busy(p)
  /\ faults < MaxFaults
  /\ faults' = faults + 1
  /\ Return(p)
  /\ UNCHANGED <<policyVars, rowVars, ledger, worldVars>>

(***************************************************************************)
(* The system                                                              *)
(***************************************************************************)

Init ==
  /\ limit \in Limits
  /\ frozen = (limit = 0)
  /\ wallet = NoWallet
  /\ fundings = 0
  /\ row = [h \in Holds |-> IF h \in Legacy THEN "active" ELSE "none"]
  /\ marked \in SUBSET Legacy
  /\ tag = [h \in Holds |-> 0]
  /\ ledger = {}
  /\ period = [w \in Windows |-> 0]
  /\ aged = {}
  /\ call = [p \in Callers |-> Idle]
  /\ read = [p \in Callers |-> NoRead]
  /\ held = [p \in Callers |-> {}]
  /\ faults = 0

BeginStep(p) ==
  \/ \E h \in Holds : BeginReserve(p, h)
  \/ \E h \in Holds : BeginMark(p, h)
  \/ \E h \in Holds, cost \in Charges : BeginSettle(p, h, cost)
  \/ BeginExpose(p) \/ BeginUnfreeze(p)
  \/ \E credit \in Credits : BeginCredit(p, credit)

CallStep(p) ==
  \/ TakePolicy(p) \/ TakeDb(p) \/ TakeLedger(p) \/ ReadSiblings(p)
  \/ CommitHold(p) \/ CommitMark(p) \/ Refuse(p)
  \/ Expose(p) \/ ExposeForCredit(p) \/ SaveCredit(p)
  \/ ExposeForUnfreeze(p) \/ SaveUnfreeze(p)
  \/ AppendNew(p) \/ AppendAgain(p) \/ AppendConflict(p) \/ CloseRow(p)

EnvironmentStep ==
  \/ \E h \in Holds : Refund(h) \/ Age(h)
  \/ \E l \in Limits : SetLimit(l)
  \/ Freeze \/ ClearWallet
  \/ \E S \in Rollovers : NewPeriod(S)

Next ==
  \/ \E p \in Callers : BeginStep(p) \/ CallStep(p) \/ GiveUp(p) \/ Crash(p)
  \/ EnvironmentStep

Spec == Init /\ [][Next]_vars

(***************************************************************************)
(* Properties                                                              *)
(***************************************************************************)

CallRecord == [op: Ops, hold: Holds \cup {NoHold}, amount: Nat, pc: Steps]
\* a wallet starts from the spend that some earlier ledger held
Baselines == {0} \cup {Charged(E) : E \in SUBSET ledger}
Wallets == [id: Nat, credit: Nat, baseline: Baselines]
ReadRecord == [limit: Nat, wallet: Wallets, now: Periods, old: SUBSET Holds,
               known: BOOLEAN, seen: SUBSET ledger, others: SUBSET Holds]

(* Types of the stores and of the locals of every call. *)
AdmTypeOK ==
  /\ limit \in Nat
  /\ frozen \in BOOLEAN
  /\ wallet \in Wallets
  /\ fundings \in Nat
  /\ row \in [Holds -> {"none", "active", "settled", "refunded"}]
  /\ marked \subseteq Holds
  /\ tag \in [Holds -> Nat]
  /\ ledger \subseteq Events
  /\ period \in Periods
  /\ aged \subseteq Holds
  /\ call \in [Callers -> CallRecord]
  /\ read \in [Callers -> ReadRecord]
  /\ held \in [Callers -> SUBSET Locks]
  /\ faults \in Nat

\* the reservation and authority checks of p run on these steps
Deciding(p) == call[p].op \in {"reserve", "mark"} /\ call[p].pc \notin {"idle", "policy"}

(* What a call decides on is still true when it decides: the limit and the  *)
(* wallet it read, and the ledger events it counts, up to the commit and,   *)
(* for a budget command, up to the save, though the settlements and the     *)
(* operator's commands of other processes go on meanwhile.                  *)
SnapshotIsCurrent ==
  \A p \in Callers :
    /\ call[p].pc \in {"siblings", "commit", "append", "save"} => read[p].seen = ledger
    /\ Deciding(p) => /\ read[p].limit = EffectiveLimit
                      /\ read[p].wallet = WalletFor(wallet, call[p].hold)

(* The locks of a call are always taken in an order that lets some call go  *)
(* on: nobody has to wait for a timeout to break a circle.                  *)
SomebodyCanGoOn ==
  (\E p \in Callers : Busy(p)) => \E p \in Callers : Busy(p) /\ ~Blocked(p)

(* Work that was sent and is not settled belongs to the present wallet: a   *)
(* wallet is never created, nor credit added, over exposure of another one. *)
SentHoldsBelongToWallet ==
  wallet.id # 0 =>
    \A h \in marked \ Unattended :
      row[h] = "active" /\ h \notin Booked(ledger) => tag[h] = wallet.id

\* a hold counts until it is refunded or its event is in the ledger
OpenHolds == {h \in Holds : row[h] = "active"} \ Booked(ledger)

(* A reservation or a mark commits only having counted every hold that is   *)
(* open then, in its own database and in those it reads without a lock.     *)
DecisionsCountEveryHold ==
  [][\A p \in Callers : CommitHold(p) \/ CommitMark(p) =>
       OpenHolds' \subseteq Own(p) \cup read[p].others \cup {call[p].hold}]_vars

Authority == INSTANCE SpendAuthority
  WITH used <- UsedHolds, open <- OpenHolds, sent <- marked

(* The locked calls behave as the atomic decisions of SpendAuthority: a     *)
(* hold is admitted or sent only when the ledger, the other holds, the      *)
(* budget and the wallet of that moment leave room for it, an overrun is    *)
(* booked only under a freeze, credit is never added over unsettled work,   *)
(* and a freeze is never lifted over an open hold.                          *)
DecidesAtomically == Authority!Spec
=============================================================================
