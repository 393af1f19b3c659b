CONSTANTS
  Pool = {a1, a2}
  Holders = {r1, bg}
  Background = {bg}
  NoAccount = none
  Limits = {1, 2}
  Default = 2
  SignIns = {s1, s2}
  NoSignIn = nosignin
  MaxOwner = 1
  MaxRestarts = 1
  MaxSaveFaults = 1
SPECIFICATION Spec
CHECK_DEADLOCK FALSE
SYMMETRY Symmetry
INVARIANTS UsedAccountsExist
PROPERTIES OwnerDecisionsHold
