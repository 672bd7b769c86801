SPECIFICATION FairSpec
CONSTANTS
  j1 = j1
  j2 = j2
  worker = worker
  cli = cli
  submit = submit
  Jobs <- OneJob
  WithUploads <- OneJob
  LateBound <- Nobody
  WebJobs <- Nobody
  Overrun <- OneJob
  NoUsage <- Nobody
  Cancellable <- OneJob
  Pollers <- Worker
  Refreshers <- Nobody
  Reconcilers <- Submission
  MaxFaults = 1
  MaxAge = 1
PROPERTIES
  DispatchedSpendIsBooked
  KnownHoldCloses
