SPECIFICATION ControlSpec
CONSTANTS MaxMishaps = 1
 MaxThaws = 1
CHECK_DEADLOCK FALSE
INVARIANTS QuietAndFenced
PROPERTIES GuestGoesOn
