SPECIFICATION Spec
CONSTANTS
    Active = {a1, a2}
    Shadow = {s1, s2}
    None = None
INVARIANTS TypeOK SoleWriter ShadowJarWasGranted
PROPERTIES LiveHolderYieldsOnlyToActive
SYMMETRY Symmetric
CHECK_DEADLOCK FALSE
