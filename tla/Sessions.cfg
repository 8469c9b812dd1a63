SPECIFICATION Spec
CONSTANTS
    Users = {u1}
    Tokens = {k1, k2, k3}
    Threads = {t1, t2}
    AccessLife = 1
    RefreshLife = 2
    ResetLife = 1
    MaxTime = 2
    MaxPasswords = 2
    NULL = NULL
SYMMETRY Symmetry
INVARIANTS TypeOK OldTokensAreDead
PROPERTIES LoggedOutOnlyByOutage
CHECK_DEADLOCK FALSE
