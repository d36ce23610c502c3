CONSTANTS
    r1 = r1  k1 = k1  u1 = u1  u2 = u2  u3 = u3
    m1 = m1  m2 = m2  d1 = d1
    Absent = Absent
    Roots = {r1}
    Tasks = {k1}
    ParentOf <- Parents
    Turns = {u1, u2, u3}
    SessionOfTurn <- WhoseTurns
    Messages = {m1, m2}
    MaxRev = 2
    Deleters = {d1}
SPECIFICATION Spec
SYMMETRY Alike
INVARIANTS CountsMessages NoOrphans CostNeverTooHigh ViewFollows
PROPERTIES DeletedStaysDeleted
CHECK_DEADLOCK FALSE
