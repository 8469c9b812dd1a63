SPECIFICATION Spec
CONSTANTS
    Accounts = {a1, a2, a3}
    Emails = {e1, e2}
    Providers = {"google"}
    Ids = {i1, i2}
    Threads = {t1, t2}
    MaxStates = 2
    NULL = NULL
INVARIANTS TypeOK IdentityOfOneAccount
PROPERTIES LinkedOnlyOnClaim
SYMMETRY Symmetry
