CONSTANTS
    N = 2
    Chars = {"a", "b", "CR", "LF"}
    Absent = Absent
    MaxReadSize = 5
    Jobs <- SomeJobs
SPECIFICATION Spec
INVARIANTS FileIsMeant EditsAgree CreationsRefused ViewTells
CHECK_DEADLOCK FALSE
