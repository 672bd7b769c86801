SPECIFICATION Spec
CONSTANTS
  j1 = j1
  j2 = j2
  worker = worker
  cli = cli
  submit = submit
  Jobs <- OneJob
  WithUploads <- Nobody
  LateBound <- Nobody
  WebJobs <- Nobody
  Overrun <- Nobody
  NoUsage <- Nobody
  Cancellable <- OneJob
  Pollers <- Worker
  Refreshers <- Cli
  Reconcilers <- Nobody
  MaxFaults = 0
  MaxAge = 0
INVARIANT
  DuplicateSettlementIsIdempotent
