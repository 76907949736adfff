SPECIFICATION FairSpec
CONSTANTS
    Key = {k1, k2}
    NoKey = NoKey
    AgentKeys = {k1}
    RemoteKeys = {}
    SameVersion = TRUE
    MaxSweeps = 2
    MaxIncarnations = 1
    SelfDialRetries = 1
    BootRetries = 1
PROPERTY SweepEnds ImplementsOwnership
CHECK_DEADLOCK FALSE
