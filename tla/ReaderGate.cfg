SPECIFICATION FairSpec
CONSTANTS
    MaxChunks = 3
    MaxSweeps = 2
INVARIANTS TypeOK SeedCoversConsumed TheftIsBounded
PROPERTIES StoodDownMeansSilent ParkTakesEffect UnparkResumes
CHECK_DEADLOCK FALSE
