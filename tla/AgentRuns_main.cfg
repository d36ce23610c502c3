CONSTANTS
    c1 = c1  c2 = c2  c3 = c3  s1 = s1
    None = None
    Calls = {c1, c2, c3}
    Sessions = {s1}
    SessionOf <- SameSession
    EmptyPrompts = {c2}
    Readers = {}
    Children = {}
CONSTRAINT NoSweep
SPECIFICATION Spec
SYMMETRY Alike
INVARIANTS TypeOK RegistryOwner ProcessingHasRun
PROPERTIES DrainsInOrder ImplementsLedger
CHECK_DEADLOCK FALSE
