SPECIFICATION Spec
CONSTANTS
    Key = {k1, k2}
    NoKey = NoKey
    AgentKeys = {k1, k2}
    RemoteKeys = {k1, k2}
    SameVersion = FALSE
    MaxSweeps = 2
    MaxIncarnations = 2
    SelfDialRetries = 1
    BootRetries = 1
SYMMETRY Symmetry
INVARIANTS TypeOK OneReader DropsOnlyDuplicates
PROPERTIES DropSparesSeated ExitStrandsNothing TypedChildSurvives
CHECK_DEADLOCK FALSE
