CONSTANTS
    s1 = s1  s2 = s2  p1 = p1  p2 = p2  d1 = d1
    Subs = {s1, s2}
    Pubs = {p1, p2}
    Downs = {d1}
    bufferSize = 1
    MaxEvents <- TwoAndOne
SPECIFICATION FairSpec
INVARIANTS TypeOK CountMatches ClosedOnce ShutdownIsFinal
PROPERTIES ImplementsStream SubscriberReleased
CHECK_DEADLOCK FALSE
