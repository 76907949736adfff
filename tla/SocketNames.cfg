SPECIFICATION FairSpec
CONSTANTS
    Daemons = {d1, d2}
    MaxVersion = 2
    Installed = {1}
    Litter = {1}
    MaxRebinds = 3
    MaxBequests = 1
    MaxDisturbances = 1
    NoDaemon = NoDaemon
INVARIANTS
    TypeOK
    BindLockLaw
PROPERTY
    StrandedIsRescued
CHECK_DEADLOCK FALSE
