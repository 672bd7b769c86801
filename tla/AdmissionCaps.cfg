SPECIFICATION Spec
CONSTANTS
  p1 = p1
  p2 = p2
  h1 = h1
  h2 = h2
  h3 = h3
  day = day
  month = month
  NoHold = NoHold
  Callers <- TwoCallers
  Holds <- ThreeHolds
  Legacy <- OnlyThird
  Council <- OnlySecond
  Unsent <- OnlySecond
  Unattended <- Nobody
  Price <- UnitPrice
  PerJob = 1
  Windows <- BothWindows
  Month = month
  Narrow <- NarrowDay
  Limits <- JustTwo
  Credits <- Never
  Charges <- OneOrTwo
  Rollovers <- DayAndMonth
  MaxPeriods = 1
  MaxFundings = 0
  MaxFaults = 1
SYMMETRY CallerSymmetry
INVARIANTS
  AdmTypeOK
  SnapshotIsCurrent
  SomebodyCanGoOn
PROPERTIES
  DecisionsCountEveryHold
  DecidesAtomically
