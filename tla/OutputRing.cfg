SPECIFICATION Spec
CONSTANTS
    MaxSeq = 5
    RingSize = 2
    IdleSize = 1
INVARIANTS TypeOK StampUnderclaims ClientIsExact
CHECK_DEADLOCK FALSE
