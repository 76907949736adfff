CONSTANTS
    d1 = d1
    d2 = d2
    r1 = r1
    NoDaemon = NoDaemon
    Daemon <- MCDaemon
    Row <- MCRow
    TTL = 2
    MaxTombstones = 1
SPECIFICATION Spec
SYMMETRY MCSymmetry
INVARIANTS
    TypeOK
    CloseIsKept
    EnteredIsArrived
    ReopenedIsNotVetoed
    ContestedCloseStands
PROPERTIES
    NoResurrection
