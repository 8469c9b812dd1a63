SPECIFICATION LiveSpec
CONSTANTS
    Intents = {1}
    Jobs = {j1}
    Users = {u1}
    Admins = {}
    Threads = {t1}
    Providers = {"stripe", "mobile"}
    CallbackKinds = {"declined"}
    Period = 2
    HistoryCap = 2
    MaxTime = 1
    MaxCrashes = 2
    NULL = NULL
PROPERTIES ReportedIsSettled QueuedIsResolved
CHECK_DEADLOCK FALSE
