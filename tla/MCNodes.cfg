SPECIFICATION MCSpec
CONSTANTS
  Nodes = {n1, n2}
  Runs = {r1, r2}
  MaxSlots = 1
  MaxAttempts = 4
  MaxOwner = 1
  MaxDrains = 1
  Ids = {c1, c2}
  MaxCalls = 2
  Chunks = 2
  ChannelSize = 1
  MaxFaults = 2
SYMMETRY Symmetry
CHECK_DEADLOCK FALSE
INVARIANTS CallsHonest PlacementsAgree
PROPERTIES NodeLimitsHold
