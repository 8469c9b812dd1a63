SPECIFICATION Spec
CONSTANTS
    Intents = {1, 2}
    Jobs = {j1}
    Users = {u1, u2}
    Admins = {u2}
    Threads = {t1}
    Providers = {"stripe", "mobile"}
    CallbackKinds = {}
    Period = 2
    HistoryCap = 2
    MaxTime = 0
    MaxCrashes = 0
    NULL = NULL
INVARIANTS FeaturedOnReport
PROPERTIES SettlesAsOne
VIEW AllButAcked
CHECK_DEADLOCK FALSE
