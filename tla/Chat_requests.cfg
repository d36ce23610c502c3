CONSTANTS
    r1 = r1  r2 = r2
    Requests = {r1, r2}
    Functions = {"glob"}
    Unknown = "rm"
    Nameless = ""
    MaxCalls = 2
    MaxRounds = 1
    MaxClears = 1
SPECIFICATION Spec
INVARIANTS Conversation ResultsFollowCalls
CHECK_DEADLOCK FALSE
