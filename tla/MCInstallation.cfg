SPECIFICATION MCSpec
CONSTANTS
  MaxIds = 2
  MaxTokens = 3
  MaxClaims = 2
  MaxFaults = 1
  NumEvents = 2
  Devices = {d1, d2}
  InFlight = 1
  Receipts = 2
  MaxLinks = 2
  MaxSteps = 1
CHECK_DEADLOCK FALSE
INVARIANTS LinksHonest
PROPERTIES LinksProgress
