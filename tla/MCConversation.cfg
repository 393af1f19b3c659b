SPECIFICATION MCSpec
CONSTANTS
  Writers = {w1, w2}
  Blocks = {b1, b2}
  SegmentFrames = 2
  MaxWrites = 3
  MaxGeneration = 3
  MaxCrashes = 2
  MaxIoErrors = 1
  NoBlock = NoBlock
  MaxEdits = 2
  MaxOut = 2
  MaxLosses = 2
  Keys = {k1, k2, k3}
  Images = {"i1", "i2"}
  Tasks = {t1, t2}
  MaxWork = 4
  MaxUpgrades = 1
  MaxVersion = 3
  MaxCredits = 2
  MaxKeys = 2
  MaxMishaps = 2
  MaxMessages = 4
  MaxSessions = 2
  MaxRenames = 1
CHECK_DEADLOCK FALSE
INVARIANTS JournalExact SessionKeepsWork ReferencedKept CredentialsKept
PROPERTIES KeepsPromise WorkNotOverwritten NeverRelabelled
