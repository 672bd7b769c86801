--------------------------- MODULE SpendAuthority ---------------------------
(***************************************************************************)
(* What spend admission promises, as if nothing ran at the same time: each *)
(* decision is one step, judged against the ledger, the holds, the budget  *)
(* and the wallet of that very moment.                                     *)
(***************************************************************************)
EXTENDS SpendConfig

VARIABLES
  limit,     \* monthly limit of the operator
  frozen,    \* paid work is frozen
  wallet,    \* the wallet, or NoWallet
  period,    \* current period of each window
  used,      \* identities that were ever given a hold
  open,      \* holds that count against the authority
  sent,      \* holds whose provider work may have run
  tag,       \* wallet each hold was admitted under
  ledger     \* events

authority == <<limit, frozen, wallet, period>>
vars == <<limit, frozen, wallet, period, used, open, sent, tag, ledger>>

Init ==
  /\ limit \in Limits
  /\ frozen = (limit = 0)
  /\ wallet = NoWallet
  /\ period = [w \in Windows |-> 0]
  /\ used = Legacy
  /\ open = Legacy
  /\ sent \subseteq Legacy
  /\ tag = [h \in Holds |-> 0]
  /\ ledger = {}

Effective == IF frozen THEN 0 ELSE limit

\* holds of abandoned council rounds a decision may drop
Droppable == SUBSET ((open \cap Council) \ sent)

Admit(h, dropped) ==
  /\ h \notin used
  /\ WithinAuthority(Effective, WalletFor(wallet, h), ledger, period,
                     (open \ dropped) \cup {h})
  /\ used' = used \cup {h}
  /\ open' = (open \ dropped) \cup {h}
  /\ tag' = [tag EXCEPT ![h] = WalletFor(wallet, h).id]
  /\ UNCHANGED <<authority, sent, ledger>>

Send(h, dropped) ==
  /\ h \in open \ (dropped \cup sent)
  /\ tag[h] = WalletFor(wallet, h).id
  /\ WithinJobCap(Effective, WalletFor(wallet, h), h)
  /\ WithinAuthority(Effective, WalletFor(wallet, h), ledger, period,
                     open \ dropped)
  /\ sent' = sent \cup {h}
  /\ open' = open \ dropped
  /\ UNCHANGED <<authority, used, tag, ledger>>

\* an event is written once; spend above the ceiling only under a freeze
Book(h, cost, at) ==
  /\ h \in (open \cap sent) \ Unsent
  /\ h \notin Booked(ledger)
  /\ \A w \in Windows : at[w] <= period[w]
  /\ cost > Price[h] => frozen
  /\ ledger' = ledger \cup {[hold |-> h, cost |-> cost, at |-> at]}
  /\ open' = open \ {h}
  /\ UNCHANGED <<authority, used, sent, tag>>

\* a marked hold is only given back by a caller that sends nothing for it
Release(h) ==
  /\ h \in open \ (sent \ Unsent)
  /\ open' = open \ {h}
  /\ UNCHANGED <<authority, used, sent, tag, ledger>>

\* credit is added only when nothing sent is still unsettled; a new wallet
\* starts from all spend so far
Fund(credit) ==
  /\ open \cap sent = {}
  /\ \/ /\ wallet.id = 0
        /\ wallet'.id \in Nat \ {0}
        /\ wallet' = [id |-> wallet'.id, credit |-> credit, baseline |-> Charged(ledger)]
     \/ /\ wallet.id # 0
        /\ wallet' = [wallet EXCEPT !.credit = @ + credit]
  /\ UNCHANGED <<limit, frozen, period, used, open, sent, tag, ledger>>

Clear ==
  /\ wallet' = NoWallet
  /\ UNCHANGED <<limit, frozen, period, used, open, sent, tag, ledger>>

\* a budget edit never lifts a freeze
SetLimit ==
  /\ limit' \in Limits
  /\ frozen' = (frozen \/ limit' = 0)
  /\ UNCHANGED <<wallet, period, used, open, sent, tag, ledger>>

Freeze ==
  /\ frozen' = TRUE
  /\ UNCHANGED <<limit, wallet, period, used, open, sent, tag, ledger>>

\* a freeze is lifted only when no hold is open and the month has room
Unfreeze ==
  /\ open = {}
  /\ MonthHasRoom(limit, ledger, period)
  /\ frozen' = FALSE
  /\ UNCHANGED <<limit, wallet, period, used, open, sent, tag, ledger>>

NewPeriod ==
  /\ \A w \in Windows : period'[w] >= period[w]
  /\ UNCHANGED <<limit, frozen, wallet, used, open, sent, tag, ledger>>

Next ==
  \/ \E h \in Holds, dropped \in Droppable : Admit(h, dropped) \/ Send(h, dropped)
  \/ \E h \in Holds, cost \in Charges, at \in Periods : Book(h, cost, at)
  \/ \E h \in Holds : Release(h)
  \/ \E credit \in Credits : Fund(credit)
  \/ Clear \/ SetLimit \/ Freeze \/ Unfreeze \/ NewPeriod

Spec == Init /\ [][Next]_vars
=============================================================================
