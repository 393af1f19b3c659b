SPECIFICATION MCSpec
CONSTANTS
  Hashes = {h1}
  MaxPoints = 3
  MaxObjects = 3
  Runs = {r1, r2}
  Nodes = {n1, n2}
  MaxGrants = 3
  MaxRunWrites = 2
  MaxTurns = 2
  MaxMoves = 1
  MaxMishaps = 1
SYMMETRY Symmetry
CHECK_DEADLOCK FALSE
INVARIANTS PointsBacked DemandHonoured
PROPERTIES MoveKeepsWork
