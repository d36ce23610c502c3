CONSTANTS
    run = run  q1 = q1  q2 = q2  t1 = t1  t2 = t2
    Run = run
    Prompts = {q1, q2}
    EmptyPrompts = {q2}
    ToolIds = {t1, t2}
    Unknown = {t2}
    Stored <- ThreeStarts
    MaxToolTurns = 1
    MaxQueueing = 3
    CallLists <- Prefixes
SPECIFICATION FairSpec
INVARIANTS ToolMessagesComplete HistoryMatchesStore CallsAnswered FinishedOnReturn CancellationRecorded
PROPERTIES StepsAreTurns CancelledReturns
CHECK_DEADLOCK FALSE
