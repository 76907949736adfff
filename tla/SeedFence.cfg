SPECIFICATION FairSpec
CONSTANTS
    MaxRuntimes = 2
    MaxOutput = 2
    MaxLaterOutput = 1
    MaxDisturbances = 1
INVARIANTS
    FenceTypeOK
    NothingLost
    OrderKept
PROPERTIES
    NothingStranded
