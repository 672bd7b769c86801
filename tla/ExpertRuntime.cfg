SPECIFICATION ExpertsSpec
CONSTANTS
  Keys = {k1, k2}
  MaxTurns = 2
  MaxCalls = 2
  MaxWork = 2
  MaxRetries = 2
  MaxAttempts = 3
  MaxFaults = 1
  t1 = t1
  t2 = t2
  t3 = t3
  Tasks <- ThreeTasks
  Plans <- AnyPlan
  Slots = 2
  absorber = absorber
  syncer = syncer
  learner = learner
  chatter = chatter
  Users <- FourUsers
  VerbOf <- OneVerbEach
  MaxChanges = 2
  MaxClock = 3
  Apart = TRUE
  MaxStoreFaults = 2
INVARIANTS
  ExpertTypesOK
  OneActiveTurn
  ArtifactOfLastAttempt
  UsageIsBounded
  ProjectionAgrees
  NoLateWriter
  PayloadIsDurable
  RetryIsSafe
  DependenciesFirst
  ReportedAsRun
  LogAndSnapshotAgree
PROPERTIES
  EveryChangeIsVersioned
  RetentionIsKept
  ConsultEnds
  DispatchReturns
CHECK_DEADLOCK FALSE
