CONSTANTS
    Calls <- MCCalls
    MaxRemoved = 1
SPECIFICATION Spec
INVARIANTS Complete NewestFirst
