SPECIFICATION Spec
CONSTANTS
    a = a
    b = b
    c = c
    None = None
    Daemon = {a, b}
    Wrapper = {w1}
    Session = {s1, s2}
    PidOf <- ReusedPid
    MaxTime = 1
    AdoptedTtl = 1
    DiedTtl = 0
    Faults = TRUE
SYMMETRY Symmetric
INVARIANTS
    TypeOK
    OneWitnessPerRow
    DiedIsNotServed
