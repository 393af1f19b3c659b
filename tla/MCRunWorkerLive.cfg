SPECIFICATION FairSpec
CONSTANTS
    Runs = {1}
    Execs = {e1}
    Attempts = {a1}
    MaxRetries = 1
    MaxRecoveries = 1
    MaxLaunches = 2
    MaxStops = 1
    MaxCancels = 0
    MaxResumes = 0
    MaxIoErrors = 0
    NoExec = NoExec
    NoAttempt = NoAttempt
    Pass = Pass
PROPERTIES RecoveryEnds ShutdownCompletes
