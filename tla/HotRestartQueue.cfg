SPECIFICATION Spec
CHECK_DEADLOCK FALSE
CONSTANTS
    a = a
    b = b
    c = c
    Daemon = {a, b}
    VersionOf <- TwoVersions
    MaxVersion = 3
    MaxTime = 3
    Interval = 2
    MaxBoundaries = 1
INVARIANTS
    TypeOK
    AskingIsBudgeted
    OwingDaemonStaysWarm
