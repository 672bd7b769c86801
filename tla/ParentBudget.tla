---------------------------- MODULE ParentBudget ----------------------------
(***************************************************************************)
(* The durable parent budget of a metered run. A call changes the memory   *)
(* object, then appends what it did to a journal, both under one lock; an  *)
(* append may fail under a process that goes on, and the process may die   *)
(* between the two or inside the line. `replayed` is what                  *)
(* replay_parent_budget makes of the journal, up to where it raises;       *)
(* `broken` is a replay that raises. All runs share one file.              *)
(***************************************************************************)
EXTENDS Naturals, Sequences, FiniteSetsExt

CONSTANTS
  Children, Ceiling, Prices,
  MaxLostAppends   \* model bound: appends that raise

ASSUME ParentAssumption ==
  /\ IsFiniteSet(Children)
  /\ Ceiling \in Nat /\ Prices \subseteq Nat \ {0} /\ MaxLostAppends \in Nat

VARIABLES
  budget,       \* the ParentBudgetTransaction object
  replayed,     \* the same rebuilt from the journal
  broken,       \* the rebuilding raises
  torn,         \* because a line of the file, of any run, is cut
  holder,       \* the process that holds the object
  sent,         \* children whose mark_dispatch returned: their call may be out
  lostAppends   \* appends that raised

budgetVars == <<budget, replayed, broken, torn, holder, sent, lostAppends>>

Parent == INSTANCE ParentTransaction WITH trail <- replayed

Event(type, c, amount) == [type |-> type, child |-> c, amount |-> amount]

-----------------------------------------------------------------------------
(* Replay *)

(* _apply_replay_event: the guarded methods raise, the events consumed,    *)
(* frozen and closed are applied as they are.                              *)
Replayable(p, e) ==
  LET c == e.child IN
    CASE e.type = "child_admitted" -> Parent!Admissible(p, c, e.amount)
      [] e.type \in {"dispatch_marked", "cancelled"} -> Parent!Open(p, c, {"admitted"})
      [] e.type = "settled" ->
           Parent!Open(p, c, Parent!OpenChildren) /\ e.amount <= p.child[c].max
      [] e.type \in {"consumed", "overrun"} -> p.child[c].state # "none"
      [] OTHER -> TRUE

Replay(p, e) ==
  LET c == e.child IN
    CASE e.type = "opened" -> [p EXCEPT !.state = "open"]
      [] e.type = "child_admitted" -> Parent!Admitted(p, c, e.amount)
      [] e.type = "dispatch_marked" -> Parent!Marked(p, c)
      [] e.type = "cancelled" -> Parent!Cancelled(p, c)
      [] e.type = "settled" -> Parent!Settled(p, c, e.amount)
      [] e.type = "consumed" -> Parent!Consumed(p, c)
      [] e.type = "overrun" -> Parent!Frozen(Parent!Consumed(p, c))
      [] e.type = "frozen" -> Parent!Frozen(p)
      [] e.type = "closed" -> [p EXCEPT !.state = "closed"]

\* one more event in the journal
Appended(e) ==
  /\ broken' = (broken \/ ~Replayable(replayed, e))
  /\ replayed' = IF broken' THEN replayed ELSE Replay(replayed, e)
  /\ UNCHANGED torn

\* an append that ends inside its line: load_parent_budget_events parses every
\* line of the file before it looks for the run, and raises at this one
Torn == broken' = TRUE /\ torn' = TRUE /\ UNCHANGED replayed

-----------------------------------------------------------------------------
(* Calls *)

\* what an append leaves that does not return: the line, nothing, or a part of it
CutOff(e) == Appended(e) \/ UNCHANGED <<replayed, broken, torn>> \/ Torn

(* The append: it succeeds; or it raises, before, in or after the line; or *)
(* the process dies there.                                                 *)
Journal(e) ==
  \/ Appended(e) /\ UNCHANGED <<holder, lostAppends>>
  \/ /\ lostAppends < MaxLostAppends /\ lostAppends' = lostAppends + 1
     /\ CutOff(e)
     /\ UNCHANGED holder
  \/ /\ holder' = "dead"
     /\ CutOff(e)
     /\ UNCHANGED lostAppends

\* the caller is told that the call succeeded
Returned == holder' = holder /\ lostAppends' = lostAppends

BudgetInit ==
  /\ budget = Parent!Unopened
  /\ replayed = Parent!Unopened
  /\ broken = FALSE /\ torn = FALSE
  /\ holder = "none"
  /\ sent = {}
  /\ lostAppends = 0

(* DurableParentBudget.open: an object nobody got is of no use.            *)
OpenBudget ==
  /\ holder = "none"
  /\ budget' = [budget EXCEPT !.state = "open"]
  /\ \/ Appended(Event("opened", "", 0)) /\ holder' = "running"
     \/ CutOff(Event("opened", "", 0)) /\ holder' = "dead"
  /\ UNCHANGED <<sent, lostAppends>>

AdmitChild(c, m) ==
  /\ holder = "running"
  /\ Parent!Admissible(budget, c, m)
  /\ budget' = Parent!Admitted(budget, c, m)
  /\ Journal(Event("child_admitted", c, m))
  /\ UNCHANGED sent

\* Deliberately wrong: the mark is kept in memory only
MarkInMemory(c) ==
  /\ holder = "running" /\ Parent!Open(budget, c, {"admitted"})
  /\ budget' = Parent!Marked(budget, c)
  /\ sent' = sent \cup {c}
  /\ UNCHANGED <<replayed, broken, torn, holder, lostAppends>>

\* the caller sends the child's request when the call returns
MarkDispatch(c) ==
  /\ holder = "running"
  /\ Parent!Open(budget, c, {"admitted"})
  /\ budget' = Parent!Marked(budget, c)
  /\ Journal(Event("dispatch_marked", c, 0))
  /\ sent' = IF Returned THEN sent \cup {c} ELSE sent

SettleChild(c, actual) ==
  /\ holder = "running"
  /\ Parent!Open(budget, c, Parent!OpenChildren)
  /\ actual <= budget.child[c].max
  /\ budget' = Parent!Settled(budget, c, actual)
  /\ Journal(Event("settled", c, actual))
  /\ UNCHANGED sent

(* settle_child above the maximum freezes, consumes and journals both; the *)
(* second event says nothing new. It does so again for every later settle  *)
(* of a consumed child of a frozen parent.                                 *)
SettleOverrun(c) ==
  /\ holder = "running"
  /\ \/ Parent!Open(budget, c, Parent!OpenChildren)
     \/ budget.state = "frozen" /\ budget.child[c].state = "consumed"
  /\ budget' = Parent!Frozen(Parent!Consumed(budget, c))
  /\ Journal(Event("overrun", c, 0))
  /\ UNCHANGED sent

ConsumeChildCeiling(c) ==
  /\ holder = "running"
  /\ Parent!Open(budget, c, Parent!OpenChildren)
  /\ budget' = Parent!Consumed(budget, c)
  /\ Journal(Event("consumed", c, 0))
  /\ UNCHANGED sent

CancelChild(c) ==
  /\ holder = "running"
  /\ Parent!Open(budget, c, {"admitted"})
  /\ budget' = Parent!Cancelled(budget, c)
  /\ Journal(Event("cancelled", c, 0))
  /\ UNCHANGED sent

\* Deliberately wrong: closes over open children
CloseAnyway ==
  /\ holder = "running" /\ budget.state = "open"
  /\ budget' = [budget EXCEPT !.state = "closed"]
  /\ Journal(Event("closed", "", 0))
  /\ UNCHANGED sent

CloseBudget ==
  /\ holder = "running"
  /\ Parent!Closable(budget)
  /\ budget' = [budget EXCEPT !.state = "closed"]
  /\ Journal(Event("closed", "", 0))
  /\ UNCHANGED sent

(* Another run that shares the file dies or fails inside its line. So does, *)
(* for what the replay sees, an append behind a line that lacks its end.   *)
OthersTear ==
  /\ ~torn /\ Torn
  /\ UNCHANGED <<budget, holder, sent, lostAppends>>

BudgetNext ==
  \/ OpenBudget \/ OthersTear
  \/ \E c \in Children :
       \/ \E m \in Prices : AdmitChild(c, m)
       \/ MarkDispatch(c)
       \/ \E a \in Parent!Amounts : SettleChild(c, a)
       \/ SettleOverrun(c) \/ ConsumeChildCeiling(c) \/ CancelChild(c)
  \/ CloseBudget

BudgetSpec == BudgetInit /\ [][BudgetNext]_budgetVars

-----------------------------------------------------------------------------
(* Type correctness of the object, its replay and the process.             *)
BudgetTypeOK ==
  /\ budget \in Parent!Parents
  /\ replayed \in Parent!Parents
  /\ broken \in BOOLEAN /\ torn \in BOOLEAN
  /\ holder \in {"none", "running", "dead"}
  /\ sent \subseteq Children
  /\ lostAppends \in Nat

(* The ceiling holds for the object and for the run as the journal has it, *)
(* also where an append failed and the two differ.                         *)
NeverOversubscribed ==
  Parent!Committed(budget) <= Ceiling /\ Parent!Committed(replayed) <= Ceiling

(* A call that may be out is on the trail: a replay that succeeds reserves *)
(* at least what the calls sent have cost, whatever was lost.              *)
SentIsOnTheTrail ==
  ~broken => \A c \in sent :
    /\ replayed.child[c].state \in {"dispatch_marked"} \cup Parent!PaidChildren
    /\ budget.child[c].state \in Parent!PaidChildren =>
         Parent!Reserved(replayed.child[c]) >= budget.child[c].settled

(* A crash mid-run leaves an auditable trail: the journal replays, and to  *)
(* what the holder has, wherever a process died, unless an append raised   *)
(* and the caller went on, or some run of the file ended inside its line.  *)
CrashLeavesATrail ==
  lostAppends = 0 /\ ~torn => ~broken /\ (holder = "running" => replayed = budget)

(* What a parent budget has to keep through every crash and failed append. *)
BudgetIsKept == NeverOversubscribed /\ SentIsOnTheTrail /\ CrashLeavesATrail

(* As long as no append raised, the journal is that of a transaction that  *)
(* keeps the promise, wherever the process died.                           *)
TrailIsTransaction ==
  Parent!Init /\ [][lostAppends' = 0 => [Parent!Next]_replayed]_budgetVars
=============================================================================
