SPECIFICATION Spec
CONSTANTS
    Jobs = {j1}
    Reports = {r1}
    Users = {o, a}
    Admins = {a}
    Moderators = {a}
    Threads = {t1, t2}
    Texts = {x1, x2}
    Targets = {"active", "flagged"}
    NULL = NULL
INVARIANTS TypeOK UnapprovedTextOnlyByOverlap LiveIsPublished
PROPERTIES OnlyAdminsPublish TakenDownStays
SYMMETRY Symmetry
CHECK_DEADLOCK FALSE
