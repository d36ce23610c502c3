CONSTANTS
    c1 = c1  c2 = c2  c3 = c3  s1 = s1
    None = None
    Calls = {c1, c2}
    Sessions = {s1}
    SessionOf <- OnePair
    EmptyPrompts = {c2}
    Readers = {c1, c2}
    Children = {c1}
SPECIFICATION Spec
PROPERTY ResultReturned
CHECK_DEADLOCK FALSE
