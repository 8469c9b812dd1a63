SPECIFICATION ThrottleSpec
CONSTANTS
    Slots = {t1, t2}
    LoginLimit = 3
    RateLimit = 2
SYMMETRY Symmetry
INVARIANTS GuessesAreBounded StuckOnlyByLostExpire
CHECK_DEADLOCK FALSE
