--------------------------- MODULE SpendLifecycle ---------------------------
(***************************************************************************)
(* What the research pipeline promises about the money of one job, however *)
(* many processes take part in it: money is held before it can be spent,   *)
(* the provider is given work only after the hold was durably committed, a *)
(* committed hold is never given back, and what is booked for a job is     *)
(* booked once and never rewritten.                                        *)
(***************************************************************************)
CONSTANTS
  Jobs,          \* job identities
  Bookings,      \* what the ledger may say about a job's cost
  NoBooking      \* that it says nothing yet

VARIABLES
  spend,         \* stage of the job's hold
  booked,        \* the completion event in the ledger
  exposed        \* the provider has taken work for the job

spendVars == <<spend, booked, exposed>>

Stages == {"unheld", "held", "committed", "booked", "released"}

Init ==
  /\ spend = [j \in Jobs |-> "unheld"]
  /\ booked = [j \in Jobs |-> NoBooking]
  /\ exposed = [j \in Jobs |-> FALSE]

Move(j, from, to) ==
  /\ spend[j] \in from
  /\ spend' = [spend EXCEPT ![j] = to]

Hold(j) == Move(j, {"unheld"}, "held") /\ UNCHANGED <<booked, exposed>>

Commit(j) == Move(j, {"held"}, "committed") /\ UNCHANGED <<booked, exposed>>

Release(j) == Move(j, {"held"}, "released") /\ UNCHANGED <<booked, exposed>>

(* A claim whose outcome is unknown is booked although it was only held.   *)
Book(j) ==
  /\ Move(j, {"held", "committed"}, "booked")
  /\ \E b \in Bookings : booked' = [booked EXCEPT ![j] = b]
  /\ UNCHANGED exposed

(* The reservation may already be booked when a slow request arrives. *)
Expose(j) ==
  /\ spend[j] \in {"committed", "booked"}
  /\ exposed' = [exposed EXCEPT ![j] = TRUE]
  /\ UNCHANGED <<spend, booked>>

Next == \E j \in Jobs :
  Hold(j) \/ Commit(j) \/ Release(j) \/ Book(j) \/ Expose(j)

Spec == Init /\ [][Next]_spendVars
=============================================================================
