------------------------- MODULE ParentTransaction -------------------------
(***************************************************************************)
(* What a parent budget promises, as one transaction without a journal:    *)
(* nested calls are admitted under a ceiling, marked before they are sent, *)
(* and settled, consumed or cancelled once; an overrun freezes the parent. *)
(* ParentBudget refines this with the trail its journal leaves.            *)
(***************************************************************************)
EXTENDS Naturals, FiniteSetsExt

CONSTANTS
  Children,   \* child calls
  Ceiling,    \* parent_ceiling_usd
  Prices      \* maxima a child may ask for

VARIABLE trail

OpenChildren == {"admitted", "dispatch_marked"}
PaidChildren == {"settled", "consumed"}
ChildStates == OpenChildren \cup PaidChildren \cup {"none", "cancelled"}
Amounts == UNION {0..m : m \in Prices}

Parents == [state : {"unopened", "open", "closed", "frozen"},
            child : [Children -> [state : ChildStates, max : Nat, settled : Nat]]]

Unopened == [state |-> "unopened",
             child |-> [c \in Children |-> [state |-> "none", max |-> 0, settled |-> 0]]]

\* what a child holds of the ceiling
Reserved(k) ==
  CASE k.state \in OpenChildren -> k.max
    [] k.state \in PaidChildren -> k.settled
    [] OTHER -> 0

Committed(p) == MapThenSumSet(LAMBDA c : Reserved(p.child[c]), Children)

\* the methods of ParentBudgetTransaction: what each asks and what it leaves
Admissible(p, c, m) ==
  p.state = "open" /\ p.child[c].state = "none" /\ Committed(p) + m <= Ceiling
Admitted(p, c, m) ==
  [p EXCEPT !.child[c] = [state |-> "admitted", max |-> m, settled |-> 0]]

Open(p, c, states) == p.state = "open" /\ p.child[c].state \in states
Marked(p, c) == [p EXCEPT !.child[c].state = "dispatch_marked"]
Settled(p, c, a) == [p EXCEPT !.child[c].state = "settled", !.child[c].settled = a]
Consumed(p, c) ==
  [p EXCEPT !.child[c] = [@ EXCEPT !.state = "consumed", !.settled = p.child[c].max]]
Cancelled(p, c) == [p EXCEPT !.child[c].state = "cancelled"]
Frozen(p) == [p EXCEPT !.state = "frozen"]

Closable(p) == p.state = "open" /\ \A c \in Children : p.child[c].state \notin OpenChildren

Init == trail = Unopened

Next ==
  \/ trail.state = "unopened" /\ trail' = [trail EXCEPT !.state = "open"]
  \/ \E c \in Children :
       \/ \E m \in Prices : Admissible(trail, c, m) /\ trail' = Admitted(trail, c, m)
       \/ Open(trail, c, {"admitted"}) /\ trail' \in {Marked(trail, c), Cancelled(trail, c)}
       \/ /\ Open(trail, c, OpenChildren)
          /\ \/ \E a \in 0..trail.child[c].max : trail' = Settled(trail, c, a)
             \/ trail' \in {Consumed(trail, c), Frozen(Consumed(trail, c))}
  \/ Closable(trail) /\ trail' = [trail EXCEPT !.state = "closed"]

Spec == Init /\ [][Next]_trail
=============================================================================
