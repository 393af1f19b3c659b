SPECIFICATION MCSpec
CONSTANTS
  Requests = {r1, p1}
  Streams = {r1}
  Sessions = {s1}
  Slots = 1
  Body = 2
  MaxTunnels = 2
  MaxEvents = 2
  Grants = {g1, g2}
  Capacity = 2
  MaxNonce = 2
  MaxChanges = 3
  Owners = {a1}
  Clients = {c1}
  McpCalls = {m1, m2}
  GrantSlots = 1
  MaxCodes = 2
  MaxTokens = 4
  MaxPeriods = 2
  Browsers = {b1, b2}
  TryLimit = 1
  CodeTryLimit = 1
  MaxMailed = 2
  MaxSessions = 2
  MaxBorn = 2
CHECK_DEADLOCK FALSE
INVARIANTS ConnectionsKnown McpCredentialsBounded SignInSound
PROPERTIES RevocationsHold
