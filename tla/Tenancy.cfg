SPECIFICATION Spec
CONSTANTS
    Users = {u1, u2, u3}
    SuperAdmins = {}
    Companies = {c1}
    InvitedRoles = {"org_admin", "member"}
    Threads = {t1, t2}
    NULL = NULL
SYMMETRY Symmetry
INVARIANTS TypeOK PowerIsDelegated DomainGrantsNothing
PROPERTIES SuspendedStays
CHECK_DEADLOCK FALSE
