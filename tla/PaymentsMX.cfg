SPECIFICATION Spec
CONSTANTS
    Intents = {1, 2}
    Jobs = {j1}
    Users = {u1, u2}
    Admins = {u2}
    Threads = {t1}
    Providers = {"stripe"}
    CallbackKinds = {}
    Period = 2
    HistoryCap = 2
    MaxTime = 0
    MaxCrashes = 0
    NULL = NULL
INVARIANTS TypeOK OneOpenIntent FeaturedFromLedger
PROPERTIES ImplementsOrders
VIEW AllButAcked
CHECK_DEADLOCK FALSE
