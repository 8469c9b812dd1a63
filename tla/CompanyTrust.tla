----------------------------- MODULE CompanyTrust -----------------------------
(***************************************************************************)
(* What the platform vouches for: the slug of a company and the domains it *)
(* has verified (services/companies.py, routers/companies.py), its trust   *)
(* badges (services/trust.py), the verification state machine of           *)
(* companies, profiles and listings (services/verification.py,             *)
(* routers/verification.py), and the audit rows that moderators leave      *)
(* (services/audit.py).                                                    *)
(*                                                                         *)
(* A handler decides on the row it has loaded and commits later.  A list   *)
(* in a JSONB column is written whole.                                     *)
(***************************************************************************)
EXTENDS Naturals, FiniteSets

CONSTANTS
    Companies,   \* companies, all of one name, each created once
    Markets,     \* slugs are unique within a market
    Domains,     \* domains of email addresses
    Jobs,        \* listings
    Profiles,    \* profiles
    Publication, \* the statuses of a listing that administrators and owners set
    Threads,     \* threads of the API's pool
    NULL         \* no market, no target

VARIABLES
    company,   \* rows of companies
    state,     \* verification_status of companies, profiles and listings
    published, \* status of listings, "absent" once they are deleted
    audit,     \* the newest row of audit_logs about each target; none is ever changed
    session,   \* what the handlers of the API hold
    answered,  \* company and domain of every verification answered with success
    raced,     \* companies two of whose verifications have overlapped
    past       \* every state and status that a target has had

ghosts == <<answered, raced, past>>
vars   == <<company, state, published, audit, session, ghosts>>

VerificationState == {"unverified", "pending", "verified", "rejected", "revoked", "flagged"}

JobStatus == {"pending", "active", "flagged", "inactive", "filled"}

Targets == Companies \cup Profiles \cup Jobs

Badges == {"domain verified", "business-document verified"}

MaxAttempts == 3      \* _DOMAIN_ATTACH_MAX_ATTEMPTS

MaxSlug == Cardinality(Companies) + 1     \* a bound of the model, past every slug

ASSUME TrustAssumption ==
    /\ IsFiniteSet(Companies)
    /\ Companies \cap (Jobs \cup Profiles) = {} /\ Jobs \cap Profiles = {}
    /\ NULL \notin Markets \cup Targets \cup Domains
    /\ Publication \subseteq JobStatus

\* slug: 1 for the slugified name, n for its suffix -n; 0 before it is created
Company == [market: Markets \cup {NULL}, slug: 0 .. MaxSlug,
            domains: SUBSET Domains, badges: SUBSET Badges]

NotCreated == [market |-> NULL, slug |-> 0, domains |-> {}, badges |-> {}]

AuditLog == [action: {"none", "verification.transition", "job.block", "job.unpublish"},
             before: VerificationState \cup JobStatus, after: VerificationState \cup JobStatus]

NoAudit == [action |-> "none", before |-> "unverified", after |-> "unverified"]

\* seen: the company as loaded, or with the slug that has been found free;
\* before: the state or status as loaded; attempts: those that have failed
Session == [req: {"idle", "probe", "insert", "domain", "transition", "withdraw"},
            on: Targets \cup {NULL}, seen: Company, domain: Domains \cup {NULL},
            before: VerificationState \cup JobStatus,
            to: VerificationState \cup JobStatus, attempts: 0 .. MaxAttempts]

Idle == [req |-> "idle", on |-> NULL, seen |-> NotCreated, domain |-> NULL,
         before |-> "pending", to |-> "pending", attempts |-> 0]

TypeOK ==
    /\ company \in [Companies -> Company]
    /\ state \in [Targets -> VerificationState]
    /\ published \in [Jobs -> JobStatus \cup {"absent"}]
    /\ audit \in [Targets -> AuditLog]
    /\ session \in [Threads -> Session]
    /\ answered \subseteq Companies \X Domains
    /\ raced \subseteq Companies
    /\ past \in [Targets -> SUBSET (VerificationState \cup JobStatus)]

Init ==
    /\ company = [c \in Companies |-> NotCreated]
    /\ state = [e \in Targets |-> "unverified"]
    /\ published = [j \in Jobs |-> "active"]
    /\ audit = [e \in Targets |-> NoAudit]
    /\ session = [t \in Threads |-> Idle]
    /\ answered = {} /\ raced = {}
    /\ past = [e \in Targets |-> IF e \in Jobs THEN {"unverified", "active"} ELSE {"unverified"}]

Created(c) == company[c].slug # 0

Answers(t) == session' = [session EXCEPT ![t] = Idle]

-----------------------------------------------------------------------------
(* Creating a company: probe for a free slug, then insert.                  *)

SlugExists(m, n) == \E c \in Companies : Created(c) /\ company[c].market = m /\ company[c].slug = n

StartCreate(t, c, m) ==
    /\ session[t].req = "idle"
    /\ ~Created(c) /\ \A o \in Threads : session[o].req \in {"probe", "insert"} => session[o].on # c
    /\ session' = [session EXCEPT ![t] = [Idle EXCEPT !.req = "probe", !.on = c,
                                              !.seen = [NotCreated EXCEPT !.market = m, !.slug = 1]]]
    /\ UNCHANGED <<company, state, published, audit, ghosts>>

\* one query per candidate
GenerateUniqueSlug(t) ==
    LET s == session[t] IN
    /\ s.req = "probe"
    /\ session' = [session EXCEPT ![t] = IF SlugExists(s.seen.market, s.seen.slug)
                                         THEN [s EXCEPT !.seen.slug = @ + 1]
                                         ELSE [s EXCEPT !.req = "insert"]]
    /\ UNCHANGED <<company, state, published, audit, ghosts>>

\* mutant: no unique constraint
InsertsAnyway(t) ==
    LET s == session[t] IN
    /\ s.req = "insert"
    /\ company' = [company EXCEPT ![s.on] = s.seen]
    /\ Answers(t)
    /\ UNCHANGED <<state, published, audit, ghosts>>

\* a slug that has been taken since violates the unique constraint: 409
CreateCompany(t) ==
    LET s == session[t] IN
    /\ s.req = "insert"
    /\ company' = IF SlugExists(s.seen.market, s.seen.slug) THEN company
                  ELSE [company EXCEPT ![s.on] = s.seen]
    /\ Answers(t)
    /\ UNCHANGED <<state, published, audit, ghosts>>

-----------------------------------------------------------------------------
(* Trust badges.  The conditions kept in external_refs are never set.       *)

CompanyBadges(row, v) ==
    (IF row.domains # {} THEN {"domain verified"} ELSE {})
        \cup (IF v = "verified" THEN {"business-document verified"} ELSE {})

ReconcileBadges(row, v) == [row EXCEPT !.badges = CompanyBadges(row, v)]

-----------------------------------------------------------------------------
(* Verifying a domain.                                                      *)

StartDomain(t, c, d) ==
    /\ session[t].req = "idle" /\ Created(c)
    /\ session' = [session EXCEPT ![t] = [Idle EXCEPT !.req = "domain", !.on = c, !.domain = d,
                                              !.seen = company[c]]]
    /\ UNCHANGED <<company, state, published, audit, ghosts>>

\* no TXT record with the token, no active member with a verified email there: 422
NotProven(t) ==
    /\ session[t].req = "domain"
    /\ Answers(t)
    /\ UNCHANGED <<company, state, published, audit, ghosts>>

\* mutant: a list of its own instead of an append
OnlyDomain(row, d) == [row EXCEPT !.domains = {d}]

WithDomain(row, d) == [row EXCEPT !.domains = @ \cup {d}]

\* mutant: counts the attempts one too far
FailsAfterTheLast(t) ==
    LET s == session[t] IN
    /\ s.req = "domain"
    /\ session' = [session EXCEPT ![t] = IF s.attempts > MaxAttempts THEN Idle
                                         ELSE [s EXCEPT !.attempts = @ + 1, !.seen = company[s.on]]]
    /\ UNCHANGED <<company, state, published, audit, ghosts>>

\* The SAVEPOINT of an attempt has been rolled back, which expires the row: the
\* next attempt loads it again.  After the last one the request fails.
AttachFails(t) ==
    LET s == session[t] IN
    /\ s.req = "domain"
    /\ session' = [session EXCEPT ![t] = IF s.attempts + 1 = MaxAttempts THEN Idle
                                         ELSE [s EXCEPT !.attempts = @ + 1, !.seen = company[s.on]]]
    /\ UNCHANGED <<company, state, published, audit, ghosts>>

\* mutant: the badges of the row as it was loaded
AttachWithoutReconcile(t) ==
    LET s == session[t] IN
    /\ s.req = "domain"
    /\ company' = [company EXCEPT ![s.on].domains = WithDomain(s.seen, s.domain).domains]
    /\ answered' = answered \cup {<<s.on, s.domain>>}
    /\ raced' = IF company[s.on].domains # s.seen.domains THEN raced \cup {s.on} ELSE raced
    /\ Answers(t)
    /\ UNCHANGED <<state, published, audit, past>>

\* The lists that the request has changed are written whole.
AttachVerifiedDomain(t) ==
    LET s   == session[t]
        new == ReconcileBadges(WithDomain(s.seen, s.domain), state[s.on])
    IN
    /\ s.req = "domain"
    /\ company' = [company EXCEPT
          ![s.on].domains = IF new.domains = s.seen.domains THEN @ ELSE new.domains,
          ![s.on].badges  = IF new.badges = s.seen.badges THEN @ ELSE new.badges]
    /\ answered' = answered \cup {<<s.on, s.domain>>}
    /\ raced' = IF company[s.on].domains # s.seen.domains THEN raced \cup {s.on} ELSE raced
    /\ Answers(t)
    /\ UNCHANGED <<state, published, audit, past>>

-----------------------------------------------------------------------------
(* The verification state machine.                                          *)

AllowedTransitions(v) ==
    CASE v = "unverified" -> {"pending", "flagged"}
      [] v = "pending"    -> {"verified", "rejected", "flagged"}
      [] v = "verified"   -> {"revoked", "flagged"}
      [] OTHER            -> {"pending"}

IsAllowed(current, target) == target \in AllowedTransitions(current)

Present(e) ==
    IF e \in Companies THEN Created(e)
    ELSE IF e \in Jobs THEN published[e] # "absent" ELSE TRUE

\* the endpoints: every kind of target may be verified, a listing flagged
VerifyEntity(t, e, to) ==
    /\ session[t].req = "idle" /\ Present(e)
    /\ to \in (IF e \in Jobs THEN {"verified", "flagged"} ELSE {"verified"})
    /\ session' = [session EXCEPT ![t] = [Idle EXCEPT !.req = "transition", !.on = e,
                                              !.before = state[e], !.to = to]]
    /\ UNCHANGED <<company, state, published, audit, ghosts>>

WriteAudit(action, s) ==
    audit' = [audit EXCEPT ![s.on] = [action |-> action, before |-> s.before, after |-> s.to]]

\* an illegal transition is refused with 409 and leaves nothing; so does one
\* of a listing that has been deleted, whose UPDATE raises
TransitionRefused(t) ==
    LET s == session[t] IN
    /\ s.req = "transition"
    /\ ~IsAllowed(s.before, s.to) \/ ~Present(s.on)
    /\ Answers(t)
    /\ UNCHANGED <<company, state, published, audit, ghosts>>

\* validated against the state that was loaded; the badges of a company follow
Transition(t) ==
    LET s == session[t] IN
    /\ s.req = "transition"
    /\ IsAllowed(s.before, s.to) /\ Present(s.on)
    /\ state' = [state EXCEPT ![s.on] = s.to]
    /\ past' = [past EXCEPT ![s.on] = @ \cup {s.to}]
    /\ company' = IF s.on \in Companies
                  THEN [company EXCEPT ![s.on] = ReconcileBadges(@, s.to)] ELSE company
    /\ WriteAudit("verification.transition", s)
    /\ Answers(t)
    /\ UNCHANGED <<published, answered, raced>>

-----------------------------------------------------------------------------
(* Moderators withdraw listings; owners, administrators and the worker set  *)
(* the status too, and delete, without an audit row.                        *)

LoadForWithdrawal(t, j, to) ==
    /\ session[t].req = "idle" /\ Present(j)
    /\ session' = [session EXCEPT ![t] = [Idle EXCEPT !.req = "withdraw", !.on = j,
                                              !.before = published[j], !.to = to]]
    /\ UNCHANGED <<company, state, published, audit, ghosts>>

BlockOrUnpublish(s) == IF s.to = "flagged" THEN "job.block" ELSE "job.unpublish"

\* mutant: writes the audit row in a transaction of its own, before the UPDATE
AuditsFirst(t) ==
    LET s == session[t] IN
    /\ s.req = "withdraw"
    /\ WriteAudit(BlockOrUnpublish(s), s)
    /\ IF Present(s.on)
       THEN /\ published' = [published EXCEPT ![s.on] = s.to]
            /\ past' = [past EXCEPT ![s.on] = @ \cup {s.to}]
       ELSE UNCHANGED <<published, past>>
    /\ Answers(t)
    /\ UNCHANGED <<company, state, answered, raced>>

\* The status is in the UPDATE only when it differs from the loaded one.  The
\* UPDATE of a listing that has been deleted raises: no row and no audit row;
\* but without an UPDATE there is an audit row even of a deleted listing.
SetPublicationStatus(t) ==
    LET s == session[t] IN
    /\ s.req = "withdraw"
    /\ IF s.to = s.before
       THEN /\ WriteAudit(BlockOrUnpublish(s), s)
            /\ UNCHANGED <<published, past>>
       ELSE IF Present(s.on)
       THEN /\ published' = [published EXCEPT ![s.on] = s.to]
            /\ past' = [past EXCEPT ![s.on] = @ \cup {s.to}]
            /\ WriteAudit(BlockOrUnpublish(s), s)
       ELSE UNCHANGED <<published, past, audit>>
    /\ Answers(t)
    /\ UNCHANGED <<company, state, answered, raced>>

\* by the handlers of JobModeration
StatusChanges(j, s) ==
    /\ Present(j) /\ s # published[j]
    /\ published' = [published EXCEPT ![j] = s]
    /\ past' = [past EXCEPT ![j] = @ \cup {s}]
    /\ UNCHANGED <<company, state, audit, session, answered, raced>>

JobDeleted(j) ==
    /\ Present(j)
    /\ published' = [published EXCEPT ![j] = "absent"]
    /\ UNCHANGED <<company, state, audit, session, ghosts>>

-----------------------------------------------------------------------------
Handlers(t) ==
    \/ \E c \in Companies, m \in Markets : StartCreate(t, c, m)
    \/ GenerateUniqueSlug(t) \/ CreateCompany(t)
    \/ \E c \in Companies, d \in Domains : StartDomain(t, c, d)
    \/ NotProven(t) \/ AttachFails(t) \/ AttachVerifiedDomain(t)
    \/ \E e \in Targets, to \in {"verified", "flagged"} : VerifyEntity(t, e, to)
    \/ TransitionRefused(t) \/ Transition(t)
    \/ \E j \in Jobs, to \in {"flagged", "inactive"} : LoadForWithdrawal(t, j, to)
    \/ SetPublicationStatus(t)

Next ==
    \/ \E t \in Threads : Handlers(t)
    \/ \E j \in Jobs, s \in Publication : StatusChanges(j, s)
    \/ \E j \in Jobs : JobDeleted(j)

Spec == Init /\ [][Next]_vars

-----------------------------------------------------------------------------
(* Properties.                                                              *)

\* A company carries exactly the badges that its row derives, after concurrent
\* and retried verifications too, and never "business-document verified": no
\* endpoint leads to "pending", from where alone an entity can be verified.
BadgesTellTheTruth ==
    /\ \A c \in Companies : company[c].badges = CompanyBadges(company[c], state[c])
    /\ \A e \in Targets : state[e] # "verified"

CompaniesOf(m) == {c \in Companies : Created(c) /\ company[c].market = m}

\* The companies of one name in one market are numbered without a gap and
\* without a repetition, though any of them may have probed the same slug.
SlugsNumberTheCompanies ==
    \A m \in Markets :
        {company[c].slug : c \in CompaniesOf(m)} = 1 .. Cardinality(CompaniesOf(m))

\* A domain whose verification was answered with success stays in the list,
\* unless two verifications of that company have overlapped.
DomainLostOnlyByOverlap ==
    \A p \in answered : p[2] \in company[p[1]].domains \/ p[1] \in raced

\* Whatever overlaps, an audit row tells of states that its target has really
\* had, the one before and the one after.
AuditRecordsPast ==
    \A e \in Targets : {audit[e].before, audit[e].after} \subseteq past[e]

=============================================================================
