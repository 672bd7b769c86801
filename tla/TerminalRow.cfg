SPECIFICATION FairSpec
CONSTANTS
  j1 = j1
  j2 = j2
  worker = worker
  cli = cli
  submit = submit
  Jobs <- OneJob
  WithUploads <- Nobody
  LateBound <- OneJob
  WebJobs <- Nobody
  Overrun <- Nobody
  NoUsage <- Nobody
  Cancellable <- OneJob
  Pollers <- Nobody
  Refreshers <- Nobody
  Reconcilers <- Submission
  MaxFaults = 1
  MaxAge = 1
PROPERTY
  TerminalRowIsReconciled
