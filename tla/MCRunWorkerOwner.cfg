SPECIFICATION Spec
CONSTANTS
    Runs = {1}
    Execs = {e1}
    Attempts = {a1, a2}
    MaxRetries = 1
    MaxRecoveries = 1
    MaxLaunches = 2
    MaxStops = 0
    MaxCancels = 1
    MaxResumes = 1
    MaxIoErrors = 0
    NoExec = NoExec
    NoAttempt = NoAttempt
    Pass = Pass
SYMMETRY Symmetry
INVARIANTS NoReplayOfCompletedTurn LeaseNotLeaked
PROPERTIES DecisionsKept
