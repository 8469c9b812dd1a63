SPECIFICATION LiveSpec
CONSTANTS
    Changes = {c1}
    Publications = {p1}
    Endpoints = {e1}
    Threads = {t1}
    MaxAttempts = 2
    MaxCrashes = 0
    NULL = NULL
PROPERTY RetriedUntilResolved
CHECK_DEADLOCK FALSE
