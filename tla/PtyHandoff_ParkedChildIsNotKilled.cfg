SPECIFICATION Spec
CONSTANTS
    Key = {k1, k2}
    NoKey = NoKey
    AgentKeys = {k1, k2}
    RemoteKeys = {k1, k2}
    SameVersion = FALSE
    MaxSweeps = 1
    MaxIncarnations = 1
    SelfDialRetries = 1
    BootRetries = 1
PROPERTY ParkedChildIsNotKilled
CHECK_DEADLOCK FALSE
