SPECIFICATION LiveSpec
CONSTANTS
    Changes = {c1}
    Publications = {p1, p2}
    Endpoints = {e1}
    Threads = {t1}
    MaxAttempts = 2
    MaxCrashes = 2
    NULL = NULL
INVARIANTS TypeOK SentOnlyIfCommitted ChangeIsRecorded VerdictIsEarned
PROPERTIES NeverSentAgain QueuedIsAttempted
CHECK_DEADLOCK FALSE
