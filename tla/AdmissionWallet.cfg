SPECIFICATION Spec
CONSTANTS
  p1 = p1
  p2 = p2
  h1 = h1
  h2 = h2
  h3 = h3
  day = day
  month = month
  NoHold = NoHold
  Callers <- TwoCallers
  Holds <- ThreeHolds
  Legacy <- OnlyThird
  Council <- Nobody
  Unsent <- Nobody
  Unattended <- OnlySecond
  Price <- UnitPrice
  PerJob = 1
  Windows <- OneWindow
  Month = month
  Narrow <- Wide
  Limits <- OneOrThree
  Credits <- One
  Charges <- One
  Rollovers <- Never
  MaxPeriods = 0
  MaxFundings = 2
  MaxFaults = 0
SYMMETRY CallerSymmetry
INVARIANTS
  SentHoldsBelongToWallet
PROPERTIES
  DecidesAtomically
