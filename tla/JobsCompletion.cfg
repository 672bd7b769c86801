SPECIFICATION FairSpec
CONSTANTS
  j1 = j1
  j2 = j2
  worker = worker
  cli = cli
  submit = submit
  Jobs <- OneJob
  WithUploads <- OneJob
  LateBound <- OneJob
  WebJobs <- Nobody
  Overrun <- Nobody
  NoUsage <- Nobody
  Cancellable <- OneJob
  Pollers <- Worker
  Refreshers <- Cli
  Reconcilers <- Submission
  MaxFaults = 0
  MaxAge = 2
INVARIANTS
  MarkedHoldMatches
PROPERTIES
  HandedOffEnds
