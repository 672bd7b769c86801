--------------------------- MODULE MCResearchJobs ---------------------------
(* Small instances of ResearchJobs. *)
EXTENDS ResearchJobs

CONSTANTS j1, j2, worker, cli, submit

OneJob == {j1}
TwoJobs == {j1, j2}
Nobody == {}
Worker == {worker}
Cli == {cli}
Submission == {submit}
=============================================================================
