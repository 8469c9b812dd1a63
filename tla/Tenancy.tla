------------------------------- MODULE Tenancy -------------------------------
(***************************************************************************)
(* Companies as tenants: their creation with an owner                      *)
(* (services/companies.py), the life of a membership                       *)
(* (services/memberships.py, routers/memberships.py), the automatic        *)
(* membership of people whose verified email is on a company's domain      *)
(* (routers/auth.py), and what a permission check decides                  *)
(* (services/rbac.py).                                                     *)
(*                                                                         *)
(* require_permission runs as a dependency, before the handler; the        *)
(* handler loads its row and commits later.  A membership that was checked *)
(* may be suspended, and a row that was loaded may change, in between.     *)
(***************************************************************************)
EXTENDS FiniteSets

CONSTANTS
    Users,         \* accounts
    SuperAdmins,   \* accounts with the role platform_super_admin
    Companies,     \* companies, each created once
    InvitedRoles,  \* the roles that people are invited to
    Threads,       \* threads of the API's pool
    NULL           \* nobody

VARIABLES
    company,   \* rows of companies
    member,    \* rows of memberships, one per user and company (unique constraint)
    domain,    \* companies that have verified the domain of the users' emails
    posted,    \* who has posted a job on behalf of which company
    audited,   \* pairs with an audit row of an automatic membership
    held,      \* roles that have been held actively: user, company, role
    session    \* what the handlers of the API hold

vars == <<company, member, domain, posted, audited, held, session>>

Roles == {"org_owner", "org_admin", "recruiter", "member"}

ASSUME TenancyAssumption ==
    /\ SuperAdmins \subseteq Users
    /\ NULL \notin Users \cup Companies
    /\ InvitedRoles \subseteq Roles

Membership == [status: {"none", "invited", "active", "suspended"},
               role: Roles, by: Users \cup {NULL}]

None == [status |-> "none", role |-> "member", by |-> NULL]

\* on: whose membership the request is about; seen: its status as loaded
Session == [req: {"idle", "create", "invite", "accept", "suspend", "post", "auto"},
            user: Users \cup {NULL}, company: Companies \cup {NULL}, on: Users \cup {NULL},
            role: Roles, seen: {"none", "invited", "active", "suspended"}]

Idle == [req |-> "idle", user |-> NULL, company |-> NULL, on |-> NULL,
         role |-> "member", seen |-> "none"]

TypeOK ==
    /\ company \subseteq Companies
    /\ member \in [Users \X Companies -> Membership]
    /\ domain \subseteq company
    /\ posted \subseteq Users \X Companies
    /\ audited \subseteq Users \X Companies
    /\ held \subseteq Users \X Companies \X Roles
    /\ session \in [Threads -> Session]

Init ==
    /\ company = {} /\ domain = {} /\ posted = {} /\ audited = {} /\ held = {}
    /\ member = [p \in Users \X Companies |-> None]
    /\ session = [t \in Threads |-> Idle]

-----------------------------------------------------------------------------
(* Permissions.                                                             *)

Permissions == {"company:manage", "company:manage_members", "company:verify_domain",
                "job:post", "application:review", "application:advance"}

RolePermissions ==
    [r \in Roles |->
        CASE r = "org_owner" -> Permissions
          [] r = "org_admin" -> Permissions \ {"company:manage"}
          [] r = "recruiter" -> {"job:post", "application:review", "application:advance"}
          [] r = "member"    -> {}]

\* the super administrator holds the whole catalog, in every company
PlatformPermissions(u) == IF u \in SuperAdmins THEN Permissions ELSE {}

\* mutant: forgets the status of the membership
TenantPermissionsOfAny(u, c) ==
    IF member[<<u, c>>].status # "none" THEN RolePermissions[member[<<u, c>>].role] ELSE {}

\* only an active membership grants anything
TenantPermissions(u, c) ==
    IF member[<<u, c>>].status = "active" THEN RolePermissions[member[<<u, c>>].role] ELSE {}

EffectivePermissions(u, c) == PlatformPermissions(u) \cup TenantPermissions(u, c)

HasPermission(u, p, c) == p \in EffectivePermissions(u, c)

-----------------------------------------------------------------------------
(* Requests start: the permission is checked and the row loaded.            *)

Starts(t, s) ==
    /\ session[t].req = "idle"
    /\ session' = [session EXCEPT ![t] = s]
    /\ UNCHANGED <<company, member, domain, posted, audited, held>>

StartCreate(t, u, c) ==
    /\ c \notin company /\ \A o \in Threads : session[o].req = "create" => session[o].company # c
    /\ Starts(t, [Idle EXCEPT !.req = "create", !.user = u, !.company = c])

StartInvite(t, u, c, v, r) ==
    /\ c \in company /\ HasPermission(u, "company:manage_members", c)
    /\ Starts(t, [Idle EXCEPT !.req = "invite", !.user = u, !.company = c, !.on = v, !.role = r])

\* one accepts one's own invitation only
StartAccept(t, u, c) ==
    /\ member[<<u, c>>].status = "invited"
    /\ Starts(t, [Idle EXCEPT !.req = "accept", !.company = c, !.on = u])

StartSuspend(t, u, c, v) ==
    /\ HasPermission(u, "company:manage_members", c)
    /\ member[<<v, c>>].status # "none"
    /\ Starts(t, [Idle EXCEPT !.req = "suspend", !.company = c, !.on = v, !.seen = member[<<v, c>>].status])

\* posting on behalf of a company
AuthorizeCompanyPost(t, u, c) ==
    /\ c \in company /\ HasPermission(u, "job:post", c)
    /\ Starts(t, [Idle EXCEPT !.req = "post", !.user = u, !.company = c])

\* A verified email looks for the companies of its domain, and for the
\* membership in each; a link in an email may be followed again.
StartAuto(t, u, c) ==
    /\ c \in domain
    /\ Starts(t, [Idle EXCEPT !.req = "auto", !.company = c, !.on = u, !.seen = member[<<u, c>>].status])

-----------------------------------------------------------------------------
(* ... and commits.                                                         *)

Answers(t) == session' = [session EXCEPT ![t] = Idle]

\* the company and the membership of its owner, in one savepoint and one
\* commit, or, when either INSERT fails, neither
CommitCreate(t) ==
    LET u == session[t].user
        c == session[t].company
    IN
    /\ session[t].req = "create"
    /\ \/ /\ company' = company \cup {c}
          /\ member' = [member EXCEPT ![<<u, c>>] = [status |-> "active", role |-> "org_owner", by |-> NULL]]
          /\ held' = held \cup {<<u, c, "org_owner">>}
       \/ UNCHANGED <<company, member, held>>
    /\ Answers(t)
    /\ UNCHANGED <<domain, posted, audited>>

\* mutant: an upsert
ReplacesOnInvite(t) ==
    LET s == session[t] IN
    /\ s.req = "invite"
    /\ member' = [member EXCEPT ![<<s.on, s.company>>] = [status |-> "invited", role |-> s.role, by |-> s.user]]
    /\ Answers(t)
    /\ UNCHANGED <<company, domain, posted, audited, held>>

\* a second membership of the pair violates the unique constraint: 409
CommitInvite(t) ==
    LET s == session[t] IN
    /\ s.req = "invite"
    /\ member' = IF member[<<s.on, s.company>>].status = "none"
                 THEN [member EXCEPT ![<<s.on, s.company>>] =
                          [status |-> "invited", role |-> s.role, by |-> s.user]]
                 ELSE member
    /\ Answers(t)
    /\ UNCHANGED <<company, domain, posted, audited, held>>

\* the status was loaded as invited and is written whatever it is by now
CommitAccept(t) ==
    LET s == session[t] IN
    /\ s.req = "accept"
    /\ member' = [member EXCEPT ![<<s.on, s.company>>].status = "active"]
    /\ held' = held \cup {<<s.on, s.company, member[<<s.on, s.company>>].role>>}
    /\ Answers(t)
    /\ UNCHANGED <<company, domain, posted, audited>>

\* mutant: a status of its own for members who have been removed
RemovesMember(t) ==
    LET s == session[t] IN
    /\ s.req = "suspend"
    /\ member' = IF s.seen = "suspended" THEN member
                 ELSE [member EXCEPT ![<<s.on, s.company>>].status = "removed"]
    /\ Answers(t)
    /\ UNCHANGED <<company, domain, posted, audited, held>>

\* no UPDATE when the membership was loaded as suspended
CommitSuspend(t) ==
    LET s == session[t] IN
    /\ s.req = "suspend"
    /\ member' = IF s.seen = "suspended" THEN member
                 ELSE [member EXCEPT ![<<s.on, s.company>>].status = "suspended"]
    /\ Answers(t)
    /\ UNCHANGED <<company, domain, posted, audited, held>>

CommitPost(t) ==
    /\ session[t].req = "post"
    /\ posted' = posted \cup {<<session[t].user, session[t].company>>}
    /\ Answers(t)
    /\ UNCHANGED <<company, member, domain, audited, held>>

AutoRecruiter == "recruiter"      \* mutant: a role that grants something

AutoRole == "member"

\* the status an existing membership takes under the domain policy
AutoStatusForExisting(status) == status

\* Without a membership: one is inserted, with its audit row, or, when another
\* request has inserted it meanwhile, both are rolled back.  With one: nothing.
CommitAuto(t) ==
    LET s == session[t]
        now == member[<<s.on, s.company>>].status
    IN
    /\ s.req = "auto"
    /\ IF s.seen = "none" /\ now = "none"
       THEN /\ member' = [member EXCEPT ![<<s.on, s.company>>] =
                             [status |-> "invited", role |-> AutoRole, by |-> NULL]]
            /\ audited' = audited \cup {<<s.on, s.company>>}
       ELSE /\ member' = IF AutoStatusForExisting(s.seen) = s.seen THEN member
                         ELSE [member EXCEPT ![<<s.on, s.company>>].status = AutoStatusForExisting(s.seen)]
            /\ UNCHANGED audited
    /\ Answers(t)
    /\ UNCHANGED <<company, domain, posted, held>>

\* verify-domain, in the eyes of the memberships
DomainVerified(u, c) ==
    /\ c \in company \ domain /\ HasPermission(u, "company:verify_domain", c)
    /\ domain' = domain \cup {c}
    /\ UNCHANGED <<company, member, posted, audited, held, session>>

-----------------------------------------------------------------------------
Next ==
    \/ \E t \in Threads, u \in Users, c \in Companies :
          \/ StartCreate(t, u, c) \/ StartAccept(t, u, c) \/ StartAuto(t, u, c)
          \/ AuthorizeCompanyPost(t, u, c)
          \/ \E v \in Users : StartSuspend(t, u, c, v)
          \/ \E v \in Users, r \in InvitedRoles : StartInvite(t, u, c, v, r)
    \/ \E t \in Threads :
          \/ CommitCreate(t) \/ CommitInvite(t) \/ CommitAccept(t)
          \/ CommitSuspend(t) \/ CommitPost(t) \/ CommitAuto(t)
    \/ \E u \in Users, c \in Companies : DomainVerified(u, c)

Spec == Init /\ [][Next]_vars

-----------------------------------------------------------------------------
(* Properties.                                                              *)

\* someone who may manage members, at some time
EverManager(u, c) ==
    u \in SuperAdmins \/ \E r \in Roles : <<u, c, r>> \in held /\ "company:manage_members" \in RolePermissions[r]

EverPoster(u, c) ==
    u \in SuperAdmins \/ \E r \in Roles : <<u, c, r>> \in held /\ "job:post" \in RolePermissions[r]

\* Every power in a company comes down from its creator or from the platform:
\* whoever invited a member has been an active manager, and whoever posted in
\* the company's name has held that permission actively, though each check may
\* be out of date when its request commits.
PowerIsDelegated ==
    /\ \A u \in Users, c \in Companies : member[<<u, c>>].by # NULL => EverManager(member[<<u, c>>].by, c)
    /\ \A p \in posted : EverPoster(p[1], p[2])

\* An automatic membership, which nobody had to approve, grants no permission,
\* not even once the member has accepted it himself.
DomainGrantsNothing ==
    \A p \in audited : TenantPermissions(p[1], p[2]) = {}

\* in this step a member takes up his own invitation
Accepts(p) ==
    \E t \in Threads : /\ session[t].req = "accept" /\ session[t].on = p[1]
                       /\ session[t].company = p[2] /\ session'[t] = Idle

\* A member who has been suspended comes back only through his own acceptance
\* that was under way when he was suspended: a new invitation and the domain
\* policy leave him suspended.
SuspendedStays ==
    [][\A p \in Users \X Companies :
          (member[p].status = "suspended" /\ member'[p].status # "suspended") => Accepts(p)]_vars

=============================================================================
