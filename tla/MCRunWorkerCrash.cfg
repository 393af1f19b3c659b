SPECIFICATION Spec
CONSTANTS
    Runs = {1}
    Execs = {e1}
    Attempts = {a1, a2}
    MaxRetries = 1
    MaxRecoveries = 0
    MaxLaunches = 2
    MaxStops = 1
    MaxCancels = 0
    MaxResumes = 0
    MaxIoErrors = 1
    NoExec = NoExec
    NoAttempt = NoAttempt
    Pass = Pass
SYMMETRY Symmetry
INVARIANTS TypeOK SingleVm AttemptOwnership TerminalMeansStopped NothingStranded
