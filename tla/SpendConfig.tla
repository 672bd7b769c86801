----------------------------- MODULE SpendConfig -----------------------------
(***************************************************************************)
(* Parameters of spend admission, and the arithmetic that decides whether  *)
(* a set of holds fits under the operator's authority.                     *)
(*                                                                         *)
(* A ledger is a set of events [hold, cost, at]; at[w] is the period of    *)
(* calendar window w in which the event was stamped.                       *)
(***************************************************************************)
EXTENDS Integers, FiniteSetsExt

CONSTANTS
  Holds,         \* reservation identities
  Legacy,        \* holds whose row lies in a sibling (older) cost root
  Council,       \* holds of a council round, which expire when left unmarked
  Unattended,    \* holds of unattended work, which ignores the wallet
  Unsent,        \* holds whose caller sends nothing, whatever it has marked
  Price,         \* Price[h] is the ceiling reserved by h
  PerJob,        \* ceiling of one job
  Windows,       \* calendar windows (day, week, month)
  Month,         \* the window the operator's limit is stated for
  Narrow,        \* Narrow[w], the configured ceiling of window w
  Limits,        \* monthly limits the operator may set; 0 freezes
  Credits,       \* amounts the operator may add to the wallet
  Charges,       \* costs a provider may report
  Rollovers,     \* sets of windows whose periods begin together
  MaxPeriods,    \* bound on the periods of a window
  MaxFundings,   \* bound on the operator's credit commands
  MaxFaults      \* bound on the callers that die

ASSUME HoldsAssumption ==
  /\ IsFiniteSet(Holds)
  /\ Legacy \subseteq Holds
  /\ Council \subseteq Holds
  /\ Unattended \subseteq Holds
  /\ Unsent \subseteq Holds
  /\ Price \in [Holds -> Nat]

ASSUME AmountsAssumption ==
  /\ PerJob \in Nat
  /\ Narrow \in [Windows -> Nat]
  /\ Limits \subseteq Nat
  /\ Credits \subseteq Nat \ {0}
  /\ Charges \subseteq Nat

ASSUME SpendLimitsAssumption ==
  /\ Month \in Windows
  /\ Rollovers \subseteq SUBSET Windows
  /\ MaxPeriods \in Nat
  /\ MaxFundings \in Nat
  /\ MaxFaults \in Nat

Periods == [Windows -> 0..MaxPeriods]
Events == [hold: Holds, cost: Charges, at: Periods]

\* id 0 stands for "no wallet"
NoWallet == [id |-> 0, credit |-> 0, baseline |-> 0]

(***************************************************************************)
(* Sums                                                                    *)
(***************************************************************************)
Charged(E) == MapThenSumSet(LAMBDA e : e.cost, E)

Reserved(S) == MapThenSumSet(LAMBDA h : Price[h], S)

\* spend of window w in the events stamped since the start of the period
SettledSince(E, start, w) == Charged({e \in E : e.at[w] >= start[w]})

Booked(E) == {e.hold : e \in E}

(***************************************************************************)
(* Authority                                                               *)
(***************************************************************************)
Least(a, b) == IF a <= b THEN a ELSE b

\* unattended work reads the budget without the wallet
WalletFor(w, h) == IF h \in Unattended THEN NoWallet ELSE w

\* the effective ceiling of a window; a wallet narrows it to its credit
WindowCap(lim, wal, w) ==
  LET cap == Least(lim, Narrow[w])
  IN IF wal.id = 0 THEN cap ELSE Least(cap, wal.credit)

\* spend since the wallet was created, plus holds, stays within its credit
WalletCovers(wal, E, S) ==
  wal.id # 0 => Charged(E) - wal.baseline + Reserved(S) <= wal.credit

WithinAuthority(lim, wal, E, start, S) ==
  /\ WalletCovers(wal, E, S)
  /\ \A w \in Windows :
       SettledSince(E, start, w) + Reserved(S) <= WindowCap(lim, wal, w)

\* a freeze is lifted only below the ceiling of the month
MonthHasRoom(lim, E, start) ==
  SettledSince(E, start, Month) < Least(lim, Narrow[Month])

WithinJobCap(lim, wal, h) ==
  /\ Price[h] <= PerJob
  /\ \A w \in Windows : Price[h] <= WindowCap(lim, wal, w)
=============================================================================
