--------------------------- MODULE ResearchConfig ---------------------------
(***************************************************************************)
(* Parameters of the research-job pipeline, shared by its components.      *)
(***************************************************************************)
EXTENDS Naturals

CONSTANTS
  Jobs,          \* job identities; a submission always draws a fresh one
  WithUploads,   \* jobs whose metadata names provider uploads
  LateBound,     \* jobs reserved before their request digest was known
  WebJobs,       \* jobs submitted by the web route, which repeats the cleanup
  Overrun,       \* jobs whose reported cost exceeds the reserved ceiling
  NoUsage,       \* jobs whose completion carries no usable usage report
  Cancellable,   \* jobs whose user may ask to cancel them
  Pollers,       \* worker processes that poll every processing job
  Refreshers,    \* command-line refreshes of one job's status
  Reconcilers,   \* submissions that first repair orphaned holds
  MaxFaults,     \* bound on the number of faults in a behaviour
  MaxAge         \* bound on the coarse clock, at most 2

ASSUME JobSetsAssumption ==
  /\ WithUploads \subseteq Jobs
  /\ LateBound \subseteq Jobs
  /\ WebJobs \subseteq Jobs
  /\ Overrun \subseteq Jobs
  /\ NoUsage \subseteq Jobs
  /\ Cancellable \subseteq Jobs

ASSUME ProcessesAssumption == Pollers \cap Refreshers = {}

ASSUME BoundsAssumption == MaxFaults \in Nat /\ MaxAge \in 0..2

Finalizers == Pollers \cup Refreshers
=============================================================================
