SPECIFICATION Spec
CONSTANTS
    Companies = {c1, c2}
    Markets = {mx}
    Domains = {d1, d2}
    Jobs = {j1}
    Profiles = {}
    Publication = {"active"}
    Threads = {t1, t2}
    NULL = NULL
SYMMETRY Symmetry
INVARIANTS TypeOK BadgesTellTheTruth SlugsNumberTheCompanies DomainLostOnlyByOverlap AuditRecordsPast
CHECK_DEADLOCK FALSE
