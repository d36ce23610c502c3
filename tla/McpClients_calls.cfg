CONSTANTS
    n1 = n1  n2 = n2  n3 = n3  c1 = c1  c2 = c2
    None = None
    Servers = {n1, n2, n3}
    Disabled = {n3}
    Callers = {c1, c2}
    ServerOf <- BothOfOne
    NumTools = 2
SPECIFICATION FairSpec
INVARIANTS OfferedAreCallable CallsInitialized
PROPERTIES ToolsHandedOut CallsEnd
CHECK_DEADLOCK FALSE
