SPECIFICATION ConvSpec
CONSTANTS
  Keys = {k1}
  MaxTurns = 1
  MaxCalls = 1
  MaxWork = 1
  MaxRetries = 1
  MaxAttempts = 1
INVARIANT ProjectionIsRebuildable
