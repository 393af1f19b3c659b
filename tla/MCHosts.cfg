SPECIFICATION MCSpec
CONSTANTS
  Runs = {r1, r2}
  Envs = {e1}
  MaxAttempts = 2
  MaxRes = 2
  Budgets = {1, 2}
  MaxRetained = 1
  WarmCapacity = 1
  MaxStarts = 3
  MaxTroubles = 1
SYMMETRY Symmetry
CHECK_DEADLOCK FALSE
INVARIANTS SlotsAccounted DiskExclusive StopsAndClaimsHold
PROPERTIES UnpublishedKept
