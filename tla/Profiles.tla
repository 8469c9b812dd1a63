------------------------------- MODULE Profiles -------------------------------
(***************************************************************************)
(* A user's profile and its versions (routers/profiles.py,                 *)
(* services/profiles_versioning.py) and the deletion of accounts: asked    *)
(* for and cancelled by the user (routers/users.py), carried out by the    *)
(* worker with all that the account owns (workers/tasks.py), unless an     *)
(* application (services/applications.py) still needs it as its candidate. *)
(*                                                                         *)
(* A save of a version flushes before it commits: from its first write on  *)
(* it holds the lock of the profile's row, and others that write the row   *)
(* wait for it.  The columns of the card are written by other handlers.    *)
(***************************************************************************)
EXTENDS Naturals, FiniteSets, FiniteSetsExt

CONSTANTS
    Users,        \* accounts
    Resumes,      \* documents with the structure of a JSON Resume
    Malformed,    \* documents without it
    Empty,        \* the resume of a new profile
    Cards,        \* contents of the card's columns
    Jobs,         \* listings
    Applications, \* applications to listings
    Threads,      \* threads of the API's pool
    MaxVersions,  \* bound: versions of a profile
    MaxDeaths,    \* bound: restarts of the worker in the middle of a run
    NULL          \* no document, a blank card, no user, no listing

VARIABLES
    due,        \* per account: when the worker deletes it
    wanted,     \* per account: what the user last decided about its deletion
    profile,    \* rows of profiles, at most one for an account
    versions,   \* per account: rows of profile_versions
    overtaken,  \* accounts whose newest version was loaded before the last write
    job,        \* listings and their owners
    application,  \* rows of applications
    session,    \* what the handlers of the API hold
    batch,      \* accounts that the running delete_scheduled_accounts has loaded
    batchJobs,  \* and the listings it has loaded for them
    deaths      \* restarts of the worker

saved == <<profile, versions, overtaken>>
work  == <<batch, batchJobs, deaths>>
vars  == <<due, wanted, saved, job, application, session, work>>

ASSUME ProfilesAssumption ==
    /\ Empty \in Resumes /\ Resumes \cap Malformed = {}
    /\ NULL \notin Users \cup Resumes \cup Malformed \cup Cards
    /\ MaxVersions \in Nat /\ MaxDeaths \in Nat

Profile == [there: BOOLEAN, json: Resumes \cup {NULL}, card: Cards \cup {NULL}]

NoProfile == [there |-> FALSE, json |-> NULL, card |-> NULL]

Version == [number: Nat \ {0}, json: Resumes]

\* candidate: NULL for an application with an inline snapshot
Application == [there: BOOLEAN, candidate: Users \cup {NULL}, job: Jobs \cup {NULL}]

NoApplication == [there |-> FALSE, candidate |-> NULL, job |-> NULL]

\* step: how far a save has come; seen: the json_resume that was loaded or set
Session == [req: {"idle", "save", "card", "ask", "cancel"}, user: Users \cup {NULL},
            step: {"start", "missing", "found", "inserted", "numbered"},
            seen: Resumes \cup {NULL}, writes: BOOLEAN, number: Nat, asked: BOOLEAN]

Idle == [req |-> "idle", user |-> NULL, step |-> "start", seen |-> NULL,
         writes |-> FALSE, number |-> 0, asked |-> FALSE]

TypeOK ==
    /\ due \in [Users -> {"no", "later", "now", "gone"}]
    /\ wanted \in [Users -> {"no", "asked", "cancelled", "late"}]
    /\ profile \in [Users -> Profile]
    /\ versions \in [Users -> SUBSET Version]
    /\ overtaken \subseteq Users
    /\ job \in [Jobs -> [there: BOOLEAN, owner: Users \cup {NULL}]]
    /\ application \in [Applications -> Application]
    /\ session \in [Threads -> Session]
    /\ batch \subseteq Users /\ batchJobs \subseteq Jobs /\ deaths \in 0..MaxDeaths
    /\ \A u \in Users : due[u] = "gone" => profile[u] = NoProfile

Init ==
    /\ due = [u \in Users |-> "no"]
    /\ wanted = [u \in Users |-> "no"]
    /\ profile = [u \in Users |-> NoProfile]
    /\ versions = [u \in Users |-> {}]
    /\ overtaken = {}
    /\ job = [j \in Jobs |-> [there |-> FALSE, owner |-> NULL]]
    /\ application = [ap \in Applications |-> NoApplication]
    /\ session = [t \in Threads |-> Idle]
    /\ batch = {} /\ batchJobs = {} /\ deaths = 0

Account(u) == due[u] # "gone"

Holds(t, s) == session' = [session EXCEPT ![t] = s]

\* the request ends; nothing of it stays
Fails(t) == Holds(t, Idle) /\ UNCHANGED <<due, wanted, saved, job, application, work>>

Proceeds(t, s) == Holds(t, s) /\ UNCHANGED <<due, wanted, saved, job, application, work>>

\* a transaction that has flushed an INSERT or an UPDATE of the user's profile
Locked(u) ==
    \E t \in Threads : /\ session[t].user = u
                       /\ \/ session[t].step = "inserted"
                          \/ session[t].step = "numbered" /\ session[t].writes

-----------------------------------------------------------------------------
(* Saving a version.                                                        *)

\* get_live_profile
LoadProfile(t, u) ==
    /\ session[t].req = "idle" /\ Account(u)
    /\ Proceeds(t, [Idle EXCEPT !.req = "save", !.user = u,
                                !.step = IF profile[u].there THEN "found" ELSE "missing",
                                !.seen = profile[u].json])

\* the INSERT of a new profile waits for another one of the same user, and
\* fails when that has been committed (unique user_id) or the account is gone
EnsureLiveProfile(t) ==
    LET u == session[t].user IN
    /\ session[t].req = "save" /\ session[t].step = "missing"
    /\ ~Locked(u)
    /\ IF profile[u].there \/ ~Account(u)
       THEN Fails(t)
       ELSE Proceeds(t, [session[t] EXCEPT !.step = "inserted", !.seen = Empty])

\* validate_json_resume: sections that are there are objects or arrays
Valid(document) == document \in Resumes

\* an invalid document is 422, and rolls the transaction back
RejectDocument(t, document) ==
    /\ session[t].req = "save" /\ session[t].step \in {"found", "inserted"}
    /\ ~Valid(document)
    /\ Fails(t)

\* mutant: the highest number, not the next
HighestVersionNumber(u) == Max({0} \cup {v.number : v \in versions[u]})

NextVersionNumber(u) == 1 + Max({0} \cup {v.number : v \in versions[u]})

\* the document becomes the working copy; without one an empty resume stands in
\* for a resume that is not there
WorkingCopy(s, document) ==
    IF document # NULL THEN document
    ELSE IF s.seen = NULL THEN Empty
    ELSE s.seen

\* A working copy that has changed is flushed by the query for the highest
\* number; the UPDATE needs the row to be there.
NumberVersion(t, document) ==
    LET s == session[t]
        u == s.user
        json == WorkingCopy(s, document)
        writes == s.step = "inserted" \/ json # s.seen
    IN
    /\ s.req = "save" /\ s.step \in {"found", "inserted"}
    /\ (writes /\ s.step = "found") => ~Locked(u)
    /\ IF writes /\ s.step = "found" /\ ~profile[u].there
       THEN Fails(t)
       ELSE Proceeds(t, [s EXCEPT !.step = "numbered", !.seen = json,
                                  !.writes = writes, !.number = NextVersionNumber(u)])

\* The INSERT of the version needs the account and the profile (foreign keys)
\* and a number that nobody has taken; otherwise the whole transaction fails.
CommitVersion(t) ==
    LET s == session[t]
        u == s.user
    IN
    /\ s.req = "save" /\ s.step = "numbered"
    /\ IF /\ Account(u) /\ (profile[u].there \/ s.writes)
          /\ \A v \in versions[u] : v.number # s.number
       THEN /\ profile' = IF s.writes
                          THEN [profile EXCEPT ![u].there = TRUE, ![u].json = s.seen]
                          ELSE profile
            /\ versions' = [versions EXCEPT ![u] = @ \cup {[number |-> s.number, json |-> s.seen]}]
            /\ overtaken' = IF ~s.writes /\ profile[u].json # s.seen
                            THEN overtaken \cup {u} ELSE overtaken \ {u}
            /\ Holds(t, Idle)
            /\ UNCHANGED <<due, wanted, job, application, work>>
       ELSE Fails(t)

-----------------------------------------------------------------------------
(* The card: POST (create or update) and PUT (update).                      *)

\* put: a profile that is not there is 404
LoadForCard(t, u, put) ==
    /\ session[t].req = "idle" /\ Account(u)
    /\ put => profile[u].there
    /\ Proceeds(t, [Idle EXCEPT !.req = "card", !.user = u, !.seen = profile[u].json,
                                !.step = IF profile[u].there THEN "found" ELSE "missing"])

\* mutant: the UPDATE names every column
WithCardAndResume(s, row, c) == [there |-> TRUE, json |-> s.seen, card |-> c]

\* a new row has no json_resume; an UPDATE leaves it alone
WithCard(s, row, c) == [row EXCEPT !.there = TRUE, !.card = c]

\* the UPDATE needs the row, the INSERT the account and no row
CommitCard(t, c) ==
    LET s == session[t]
        u == s.user
    IN
    /\ s.req = "card"
    /\ ~Locked(u)
    /\ IF Account(u) /\ profile[u].there = (s.step = "found")
       THEN /\ profile' = [profile EXCEPT ![u] = WithCard(s, @, c)]
            /\ Holds(t, Idle)
            /\ UNCHANGED <<due, wanted, versions, overtaken, job, application, work>>
       ELSE Fails(t)

-----------------------------------------------------------------------------
(* Asking for the deletion of the account, and cancelling it.               *)

LoadForDeletion(t, u, req) ==
    /\ session[t].req = "idle" /\ Account(u)
    /\ Proceeds(t, [Idle EXCEPT !.req = req, !.user = u, !.asked = due[u] # "no"])

\* in 30 days
RequestDeletion(t) ==
    LET u == session[t].user IN
    /\ session[t].req = "ask"
    /\ IF Account(u)
       THEN /\ due' = [due EXCEPT ![u] = "later"]
            /\ wanted' = [wanted EXCEPT ![u] = "asked"]
            /\ Holds(t, Idle)
            /\ UNCHANGED <<saved, job, application, work>>
       ELSE Fails(t)

\* mutant: clears deletion_requested_at alone
DateCancelledHalf(u, asked) == due[u]

\* columns that were loaded empty are not written
DateCancelled(u, asked) == IF asked THEN "no" ELSE due[u]

\* late: a request committed after the cancellation had loaded the account, or
\* the worker had loaded the account already
CancelDeletion(t) ==
    LET s == session[t]
        u == s.user
    IN
    /\ s.req = "cancel"
    /\ IF s.asked /\ ~Account(u)
       THEN Fails(t)
       ELSE /\ due' = [due EXCEPT ![u] = DateCancelled(u, s.asked)]
            /\ wanted' = [wanted EXCEPT ![u] =
                              IF u \in batch \/ (~s.asked /\ due[u] # "no") THEN "late"
                              ELSE "cancelled"]
            /\ Holds(t, Idle)
            /\ UNCHANGED <<saved, job, application, work>>

DayComes(u) ==
    /\ due[u] = "later"
    /\ due' = [due EXCEPT ![u] = "now"]
    /\ UNCHANGED <<wanted, saved, job, application, session, work>>

\* create_job (routers/jobs.py), also without an account; the row needs it
PostJob(u, j) ==
    /\ u # NULL => Account(u)
    /\ ~job[j].there
    /\ job' = [job EXCEPT ![j] = [there |-> TRUE, owner |-> u]]
    /\ UNCHANGED <<due, wanted, saved, application, session, work>>

\* exactly one candidate reference: an account (u) or a snapshot (NULL)
CreateApplication(ap, u, j) ==
    /\ ~application[ap].there
    /\ job[j].there /\ (u # NULL => Account(u))
    /\ application' = [application EXCEPT ![ap] = [there |-> TRUE, candidate |-> u, job |-> j]]
    /\ UNCHANGED <<due, wanted, saved, job, session, work>>

-----------------------------------------------------------------------------
(* The worker's hourly delete_scheduled_accounts.                           *)

DueAccounts == {u \in Users : due[u] = "now"}

LoadDue ==
    /\ batch = {} /\ DueAccounts # {}
    /\ batch' = DueAccounts
    /\ batchJobs' = {j \in Jobs : job[j].there /\ job[j].owner \in DueAccounts}
    /\ UNCHANGED <<due, wanted, saved, job, application, session, deaths>>

\* mutant: the foreign key of applications to listings restricts
Restricts(ap, users, jobs) == application[ap].there /\ application[ap].job \in jobs

\* The deletion would leave the application without a candidate (set null), which
\* its check constraint forbids; with its listing it would go first (cascade).
NeedsCandidate(ap, users, jobs) ==
    /\ application[ap].there
    /\ application[ap].candidate \in users /\ application[ap].job \notin jobs

\* Profiles and versions go with the account (cascade), also those written since
\* the load; a listing posted since then stays, without an owner (set null).
\* One application in the way, and the commit fails for all accounts.
DeleteDue ==
    /\ batch # {} /\ \A u \in batch : ~Locked(u)
    /\ IF \E ap \in Applications : NeedsCandidate(ap, batch, batchJobs)
       THEN UNCHANGED <<due, saved, job, application>>
       ELSE /\ due' = [u \in Users |-> IF u \in batch THEN "gone" ELSE due[u]]
            /\ profile' = [u \in Users |-> IF u \in batch THEN NoProfile ELSE profile[u]]
            /\ versions' = [u \in Users |-> IF u \in batch THEN {} ELSE versions[u]]
            /\ overtaken' = overtaken \ batch
            /\ job' = [j \in Jobs |->
                         IF j \in batchJobs THEN [there |-> FALSE, owner |-> NULL]
                         ELSE IF job[j].owner \in batch THEN [job[j] EXCEPT !.owner = NULL]
                         ELSE job[j]]
            /\ application' = [ap \in Applications |->
                                 IF application[ap].job \in batchJobs THEN NoApplication
                                 ELSE application[ap]]
    /\ batch' = {} /\ batchJobs' = {}
    /\ UNCHANGED <<wanted, session, deaths>>

\* the worker is restarted before the commit
WorkerDies ==
    /\ batch # {} /\ deaths < MaxDeaths
    /\ batch' = {} /\ batchJobs' = {} /\ deaths' = deaths + 1
    /\ UNCHANGED <<due, wanted, saved, job, application, session>>

-----------------------------------------------------------------------------
Finishes(t) ==
    \/ EnsureLiveProfile(t)
    \/ \E document \in Malformed : RejectDocument(t, document)
    \/ \E document \in Resumes \cup {NULL} : NumberVersion(t, document)
    \/ CommitVersion(t)

Saves(t) ==
    \/ \E u \in Users : Cardinality(versions[u]) < MaxVersions /\ LoadProfile(t, u)
    \/ Finishes(t)

Other(t) ==
    \/ \E u \in Users, put \in BOOLEAN : LoadForCard(t, u, put)
    \/ \E c \in Cards : CommitCard(t, c)
    \/ \E u \in Users, req \in {"ask", "cancel"} : LoadForDeletion(t, u, req)
    \/ RequestDeletion(t)
    \/ CancelDeletion(t)

Next ==
    \/ \E t \in Threads : Saves(t) \/ Other(t)
    \/ \E u \in Users : DayComes(u)
    \/ \E u \in Users \cup {NULL}, j \in Jobs :
          PostJob(u, j) \/ \E ap \in Applications : CreateApplication(ap, u, j)
    \/ LoadDue \/ DeleteDue \/ WorkerDies

\* Handlers end.  The cron starts a run every hour, and a lock is granted in turn
\* to those who wait for it.
Spec ==
    /\ Init /\ [][Next]_vars
    /\ \A t \in Threads : WF_vars(Finishes(t))
    /\ WF_vars(LoadDue) /\ SF_vars(DeleteDue)

-----------------------------------------------------------------------------
(* Properties.                                                              *)

\* The versions of a profile are numbered without a gap or a repetition, and the
\* newest is the working copy itself: a card saved in between has not taken the
\* resume back, and two saves at a time do not part the two tables.  The one
\* exception is a save that changes nothing, and loaded the resume before another
\* save replaced it.
NewestIsLive ==
    \A u \in Users : versions[u] # {} =>
        LET n == Cardinality(versions[u]) IN
        /\ {v.number : v \in versions[u]} = 1..n
        /\ u \notin overtaken => [number |-> n, json |-> profile[u].json] \in versions[u]

\* An account whose day has come is deleted, though the user's saves lock its rows
\* and the worker is restarted, unless an application stands in the way: one by a
\* due account to a listing that is not deleted with it.
ScheduledIsDeleted ==
    \A u \in Users :
        []<>(\/ due[u] # "now"
             \/ \E ap \in Applications :
                   /\ application[ap].there
                   /\ application[ap].candidate \in DueAccounts
                   /\ job[application[ap].job].owner \notin DueAccounts)

\* An account is deleted only while its user wants that; a cancellation is too
\* late only if the worker has loaded the account, or if it loaded the account
\* before the request it cancels.
DeletedOnlyIfAsked ==
    [][\A u \in Users : (Account(u) /\ ~Account(u)') => wanted[u] \in {"asked", "late"}]_vars

=============================================================================
