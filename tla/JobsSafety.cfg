SPECIFICATION Spec
CONSTANTS
  j1 = j1
  j2 = j2
  worker = worker
  cli = cli
  submit = submit
  Jobs <- OneJob
  WithUploads <- OneJob
  LateBound <- Nobody
  WebJobs <- OneJob
  Overrun <- Nobody
  NoUsage <- Nobody
  Cancellable <- OneJob
  Pollers <- Worker
  Refreshers <- Cli
  Reconcilers <- Submission
  MaxFaults = 1
  MaxAge = 2
INVARIANTS
  TypeOK
  ProviderWorkIsCovered
  CancelledInQueueNeverRuns
  CompletedIsComplete
  ProtocolInv
  CleanupFollowsMoney
PROPERTIES
  KeepsSpendPromise
