SPECIFICATION Spec
CONSTANTS
    Users = {u1}
    Resumes = {e, x}
    Malformed = {bad}
    Empty = e
    Cards = {c}
    Jobs = {j1}
    Applications = {ap}
    Threads = {t1, t2}
    MaxVersions = 2
    MaxDeaths = 1
    NULL = NULL
INVARIANTS TypeOK NewestIsLive
PROPERTIES DeletedOnlyIfAsked ScheduledIsDeleted
CHECK_DEADLOCK FALSE
