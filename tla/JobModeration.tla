---------------------------- MODULE JobModeration ----------------------------
(***************************************************************************)
(* The life of a listing: posting, editing, deactivating and deleting      *)
(* (routers/jobs.py), the administrator's status changes (routers/admin.py)*)
(* the moderators' block and unpublish (routers/verification.py), reports  *)
(* (routers/reports.py) and the worker's expiry batch (workers/tasks.py).  *)
(*                                                                         *)
(* A handler loads the row, decides, and commits later; the UPDATE names   *)
(* only the columns whose value differs from the loaded one, takes no lock *)
(* and checks no version.  Between the load and the commit every other     *)
(* handler and the worker may commit.                                      *)
(***************************************************************************)
CONSTANTS
    Jobs,        \* listings, each posted once
    Reports,     \* reports of listings, each filed once
    Users,       \* accounts
    Admins,      \* accounts with the admin role
    Moderators,  \* accounts with job:block and job:unpublish
    Threads,     \* threads of the API's pool
    Texts,       \* contents of a listing
    Targets,     \* the statuses that administrators set
    NULL         \* no owner, an anonymous visitor, no listing, no content

VARIABLES
    job,        \* rows of jobs
    old,        \* listings created more than 90 days ago
    gone,       \* listings that have been deleted
    approved,   \* texts an administrator wrote, or loaded when activating
    raced,      \* listings on which an edit or an activation overlapped another commit
    report,     \* rows of job_reports: the resolution and the listing
    session,    \* what the handlers of the API hold
    batch       \* listings that the running expire_old_jobs has loaded

ghosts == <<approved, raced>>
vars   == <<job, old, gone, ghosts, report, session, batch>>

JobStatus == {"pending", "active", "flagged", "inactive", "filled"}

ASSUME ModerationAssumption ==
    /\ Admins \subseteq Users /\ Moderators \subseteq Users
    /\ NULL \notin Users \cup Jobs \cup Texts
    /\ Targets \subseteq JobStatus

\* published: published_at is set
Row == [status: JobStatus \cup {"absent"}, owner: Users \cup {NULL},
        text: Texts \cup {NULL}, published: BOOLEAN]

Absent == [status |-> "absent", owner |-> NULL, text |-> NULL, published |-> FALSE]

Resolutions == {"pending", "reviewed", "dismissed", "job_removed"}

Report == [resolution: Resolutions \cup {"none"}, on: Jobs \cup {NULL}]

NoReport == [resolution |-> "none", on |-> NULL]

\* seen: the row as loaded; rest: the listings a status change has still to go through
Session == [req: {"idle", "edit", "delete", "deactivate", "status", "withdraw", "report"},
            user: Users \cup {NULL}, on: Jobs \cup {NULL}, seen: Row,
            to: JobStatus, rest: SUBSET Jobs]

Idle == [req |-> "idle", user |-> NULL, on |-> NULL, seen |-> Absent,
         to |-> "pending", rest |-> {}]

TypeOK ==
    /\ job \in [Jobs -> Row]
    /\ old \subseteq Jobs /\ gone \subseteq Jobs
    /\ approved \subseteq Texts /\ raced \subseteq Jobs
    /\ report \in [Reports -> Report]
    /\ session \in [Threads -> Session]
    /\ batch \subseteq Jobs

Init ==
    /\ job = [j \in Jobs |-> Absent]
    /\ old = {} /\ gone = {} /\ approved = {} /\ raced = {}
    /\ report = [r \in Reports |-> NoReport]
    /\ session = [t \in Threads |-> Idle]
    /\ batch = {}

Present(j) == job[j].status # "absent"

-----------------------------------------------------------------------------
(* What the readers are shown.  Market (fixed by the request that posts the *)
(* listing), search and paging are left out.                                *)

\* the SQL predicate of the list and of the count
Pushdown(j) == job[j].status = "active" /\ j \notin old

ListJobs == {j \in Jobs : Pushdown(j)}

\* the list of the public API
PublicJobs == {j \in Jobs : Pushdown(j)}

\* paid: the listings whose featured period runs
FeaturedJobs(paid) == {j \in ListJobs : j \in paid}

\* the listings that status_filter selects; the administrators' view
AdminJobs(statuses) == {j \in Jobs : Present(j) /\ job[j].status \in statuses}

\* a listing that is not active is for its owner and for administrators
GetJob(j, u) ==
    /\ Present(j)
    /\ \/ job[j].status = "active"
       \/ u # NULL /\ (job[j].owner = u \/ u \in Admins)

\* what everyone can see
Shown == ListJobs \cup PublicJobs \cup FeaturedJobs(Jobs) \cup {j \in Jobs : GetJob(j, NULL)}

-----------------------------------------------------------------------------
(* Posting.                                                                 *)

OwnerOrAdmin(row, u) == row.owner = u \/ u \in Admins

\* mutant: leaves the status of a new row to nobody
FieldsDraft(row, text, u) ==
    [row EXCEPT !.text = text, !.owner = IF u = NULL THEN @ ELSE u,
                !.status = IF @ = "absent" THEN "draft" ELSE @]

\* what _set_job_fields makes of a row: the editor becomes its owner
Fields(row, text, u) ==
    [row EXCEPT !.text = text,
                !.owner = IF u = NULL THEN @ ELSE u,
                !.status = IF @ = "absent" THEN "pending" ELSE @]

\* by an account or, past reCAPTCHA, by an anonymous visitor
CreateJob(j, u, x) ==
    /\ ~Present(j) /\ j \notin gone
    /\ job' = [job EXCEPT ![j] = Fields(Absent, x, u)]
    /\ UNCHANGED <<old, gone, ghosts, report, session, batch>>

Ages(j) ==
    /\ Present(j) /\ j \notin old
    /\ old' = old \cup {j}
    /\ UNCHANGED <<job, gone, ghosts, report, session, batch>>

-----------------------------------------------------------------------------
(* A handler loads its row and checks who asks.                             *)

Holds(t, s) ==
    /\ session' = [session EXCEPT ![t] = s]
    /\ UNCHANGED <<job, old, gone, ghosts, report, batch>>

LoadForEdit(t, u, j) ==
    /\ session[t].req = "idle"
    /\ Present(j) /\ OwnerOrAdmin(job[j], u)
    /\ Holds(t, [Idle EXCEPT !.req = "edit", !.user = u, !.on = j, !.seen = job[j]])

LoadForDelete(t, u, j) ==
    /\ session[t].req = "idle"
    /\ Present(j) /\ OwnerOrAdmin(job[j], u)
    /\ Holds(t, [Idle EXCEPT !.req = "delete", !.on = j])

StatusOf(j) == [Absent EXCEPT !.status = job[j].status]

\* mutant: looks at who asks alone
LoadAnyForDeactivation(t, u, j) ==
    /\ session[t].req = "idle"
    /\ Present(j) /\ OwnerOrAdmin(job[j], u)
    /\ Holds(t, [Idle EXCEPT !.req = "deactivate", !.on = j, !.seen = StatusOf(j)])

LoadForDeactivation(t, u, j) ==
    /\ session[t].req = "idle"
    /\ job[j].status = "active" /\ OwnerOrAdmin(job[j], u)
    /\ Holds(t, [Idle EXCEPT !.req = "deactivate", !.on = j, !.seen = StatusOf(j)])

\* set_job_status is the case of one listing of bulk_set_status
StartStatus(t, u, js, to) ==
    /\ session[t].req = "idle"
    /\ u \in Admins /\ js # {}
    /\ Holds(t, [Idle EXCEPT !.req = "status", !.user = u, !.to = to, !.rest = js])

\* the next listing of the request; one that is gone is skipped
LoadForStatus(t, j) ==
    LET s == session[t] IN
    /\ s.req = "status" /\ s.on = NULL /\ j \in s.rest
    /\ Holds(t, IF Present(j) THEN [s EXCEPT !.on = j, !.seen = job[j], !.rest = @ \ {j}]
                ELSE IF s.rest = {j} THEN Idle
                ELSE [s EXCEPT !.rest = @ \ {j}])

\* block (flagged) and unpublish (inactive), from whatever status was loaded
LoadForWithdrawal(t, u, j, to) ==
    /\ session[t].req = "idle"
    /\ u \in Moderators /\ Present(j)
    /\ Holds(t, [Idle EXCEPT !.req = "withdraw", !.on = j, !.to = to,
                             !.seen = StatusOf(j)])

-----------------------------------------------------------------------------
(* ... and commits.  An UPDATE of a row that has gone raises.               *)

\* mutant: the UPDATE names every column
EveryColumn(now, loaded, new) == new

\* column c after an UPDATE: named only when the handler has changed it
Column(now, loaded, new) == IF new = loaded THEN now ELSE new

Update(now, loaded, new) ==
    [now EXCEPT !.status    = Column(@, loaded.status, new.status),
                !.owner     = Column(@, loaded.owner, new.owner),
                !.text      = Column(@, loaded.text, new.text),
                !.published = Column(@, loaded.published, new.published)]

Overlapped(s) == job[s.on].status # s.seen.status \/ job[s.on].text # s.seen.text

\* mutant: keeps the status
EditedInPlace(s, text) == Fields(s.seen, text, s.user)

\* the owner's edit of a listing that was loaded active goes back to pending
Edited(s, text) ==
    LET new == Fields(s.seen, text, s.user) IN
    IF s.seen.status = "active" /\ s.user \notin Admins
    THEN [new EXCEPT !.status = "pending"] ELSE new

CommitEdit(t, x) ==
    LET s == session[t] IN
    /\ s.req = "edit"
    /\ Present(s.on)
    /\ job' = [job EXCEPT ![s.on] = Update(@, s.seen, Edited(s, x))]
    /\ approved' = IF s.user \in Admins THEN approved \cup {x} ELSE approved
    /\ raced' = IF Overlapped(s) THEN raced \cup {s.on} ELSE raced
    /\ session' = [session EXCEPT ![t] = Idle]
    /\ UNCHANGED <<old, gone, report, batch>>

\* the listing was loaded active, so the status is always written
CommitDeactivation(t, to) ==
    LET j == session[t].on IN
    /\ session[t].req = "deactivate"
    /\ Present(j)
    /\ job' = [job EXCEPT ![j].status = to]
    /\ session' = [session EXCEPT ![t] = Idle]
    /\ UNCHANGED <<old, gone, ghosts, report, batch>>

\* mutant: sets published_at only for a listing that was pending
CommitStatusPending(t) ==
    LET s == session[t]
        new == [s.seen EXCEPT !.status = s.to,
                              !.published = @ \/ (s.to = "active" /\ s.seen.status = "pending")]
    IN
    /\ s.req = "status" /\ s.on # NULL
    /\ Present(s.on)
    /\ job' = [job EXCEPT ![s.on] = Update(@, s.seen, new)]
    /\ approved' = IF s.to = "active" THEN approved \cup {s.seen.text} ELSE approved
    /\ raced' = IF Overlapped(s) THEN raced \cup {s.on} ELSE raced
    /\ session' = [session EXCEPT ![t] = IF s.rest = {} THEN Idle
                                         ELSE [s EXCEPT !.on = NULL, !.seen = Absent]]
    /\ UNCHANGED <<old, gone, report, batch>>

\* the first activation sets published_at
CommitStatus(t) ==
    LET s == session[t]
        new == [s.seen EXCEPT !.status = s.to, !.published = @ \/ s.to = "active"]
    IN
    /\ s.req = "status" /\ s.on # NULL
    /\ Present(s.on)
    /\ job' = [job EXCEPT ![s.on] = Update(@, s.seen, new)]
    /\ approved' = IF s.to = "active" THEN approved \cup {s.seen.text} ELSE approved
    /\ raced' = IF Overlapped(s) THEN raced \cup {s.on} ELSE raced
    /\ session' = [session EXCEPT ![t] = IF s.rest = {} THEN Idle
                                         ELSE [s EXCEPT !.on = NULL, !.seen = Absent]]
    /\ UNCHANGED <<old, gone, report, batch>>

CommitWithdrawal(t) ==
    LET s == session[t] IN
    /\ s.req = "withdraw"
    /\ Present(s.on)
    /\ job' = [job EXCEPT ![s.on].status = Column(@, s.seen.status, s.to)]
    /\ session' = [session EXCEPT ![t] = Idle]
    /\ UNCHANGED <<old, gone, ghosts, report, batch>>

\* the reports of a listing go with it (ON DELETE CASCADE)
WithoutJob(j) ==
    [r \in Reports |-> IF report[r].on = j THEN NoReport ELSE report[r]]

\* a DELETE of a row that has gone only warns
CommitDelete(t) ==
    LET j == session[t].on IN
    /\ session[t].req = "delete"
    /\ job' = [job EXCEPT ![j] = Absent]
    /\ gone' = gone \cup {j}
    /\ report' = WithoutJob(j)
    /\ session' = [session EXCEPT ![t] = Idle]
    /\ UNCHANGED <<old, ghosts, batch>>

\* the UPDATE or the INSERT raises: the request fails, with the rest of a bulk one
Fails(t) ==
    LET s == session[t] IN
    /\ s.req # "delete" /\ s.on # NULL /\ ~Present(s.on)
    /\ Holds(t, Idle)

-----------------------------------------------------------------------------
(* Reports.                                                                 *)

LoadForReport(t, j) ==
    /\ session[t].req = "idle"
    /\ Present(j)
    /\ Holds(t, [Idle EXCEPT !.req = "report", !.on = j])

\* the INSERT needs the listing still to be there (foreign key)
CreateReport(t, r) ==
    LET j == session[t].on IN
    /\ session[t].req = "report" /\ report[r].resolution = "none"
    /\ Present(j)
    /\ report' = [report EXCEPT ![r] = [resolution |-> "pending", on |-> j]]
    /\ session' = [session EXCEPT ![t] = Idle]
    /\ UNCHANGED <<job, old, gone, ghosts, batch>>

\* resolving a report, even as job_removed, leaves the listing alone
ResolveReport(r, resolution) ==
    /\ report[r].resolution # "none"
    /\ report' = [report EXCEPT ![r].resolution = resolution]
    /\ UNCHANGED <<job, old, gone, ghosts, session, batch>>

-----------------------------------------------------------------------------
(* The worker: load all that is due, write all of it in one commit.         *)

Due == {j \in AdminJobs({"active"}) : j \in old}

StartExpiry ==
    /\ batch = {} /\ Due # {}
    /\ batch' = Due
    /\ UNCHANGED <<job, old, gone, ghosts, report, session>>

\* every row was loaded active, so every status is written; one row gone and
\* the commit raises: none is
CommitExpiry ==
    /\ batch # {}
    /\ job' = IF \A j \in batch : Present(j)
              THEN [j \in Jobs |-> IF j \in batch THEN [job[j] EXCEPT !.status = "inactive"] ELSE job[j]]
              ELSE job
    /\ batch' = {}
    /\ UNCHANGED <<old, gone, ghosts, report, session>>

-----------------------------------------------------------------------------
Loads(t) ==
    \/ \E u \in Users, j \in Jobs :
          LoadForEdit(t, u, j) \/ LoadForDelete(t, u, j) \/ LoadForDeactivation(t, u, j)
    \/ \E u \in Admins, js \in SUBSET Jobs, to \in Targets : StartStatus(t, u, js, to)
    \/ \E j \in Jobs : LoadForStatus(t, j)
    \/ \E u \in Moderators, j \in Jobs, to \in {"flagged", "inactive"} : LoadForWithdrawal(t, u, j, to)
    \/ \E j \in Jobs : LoadForReport(t, j)

Commits(t) ==
    \/ \E x \in Texts : CommitEdit(t, x)
    \/ \E to \in {"filled", "inactive"} : CommitDeactivation(t, to)
    \/ CommitStatus(t) \/ CommitWithdrawal(t) \/ CommitDelete(t) \/ Fails(t)
    \/ \E r \in Reports : CreateReport(t, r)

Next ==
    \/ \E j \in Jobs, u \in Users \cup {NULL}, x \in Texts : CreateJob(j, u, x)
    \/ \E j \in Jobs : Ages(j)
    \/ \E t \in Threads : Loads(t) \/ Commits(t)
    \/ \E r \in Reports, res \in Resolutions \ {"pending"} : ResolveReport(r, res)
    \/ StartExpiry
    \/ CommitExpiry

Spec == Init /\ [][Next]_vars

-----------------------------------------------------------------------------
(* Properties.                                                              *)

\* A text that no administrator has written or activated is shown to the public, in
\* a list or on the detail page, only on a listing where an edit or an activation
\* has overlapped another commit: without an overlap update_job always sends it
\* back to moderation.
UnapprovedTextOnlyByOverlap ==
    \A j \in Shown : job[j].text \in approved \/ j \in raced

\* A public listing has its date of publication, whichever of the concurrent
\* activations and withdrawals came last.
LiveIsPublished ==
    \A j \in Jobs : job[j].status = "active" => job[j].published

\* in this step an administrator sets the listing active
Publishes(j) ==
    \E t \in Threads : /\ session[t].req = "status" /\ session[t].to = "active"
                       /\ session[t].on = j /\ session[t].user \in Admins
                       /\ session'[t] # session[t]

\* A listing becomes public by the status change of an administrator alone.
\* In particular no edit, deactivation or expiry that loaded it while it was
\* active brings it back after a block.
OnlyAdminsPublish ==
    [][\A j \in Jobs : (job[j].status # "active" /\ job'[j].status = "active") => Publishes(j)]_vars

\* in this step an administrator or a moderator decides about the listing
Moderates(j) ==
    \E t \in Threads : /\ session[t].req \in {"status", "withdraw"} /\ session[t].on = j
                       /\ session'[t] # session[t]

\* in this step a request or the expiry that had loaded the listing public commits
Overwrites(j) ==
    \/ j \in batch /\ batch' = {}
    \/ \E t \in Threads : /\ session[t].on = j /\ session[t].seen.status = "active"
                          /\ session'[t] # session[t]

\* A listing that has been blocked, unpublished, filled or sent back to moderation
\* keeps that status, until it is deleted, past every edit, deactivation and expiry
\* that starts afterwards, also past an edit that had loaded it with yet another
\* status: only administrators and moderators change it, and what had loaded the
\* listing while it was public and commits over their decision.
TakenDownStays ==
    [][\A j \in Jobs :
         (job[j].status \notin {"active", "absent"} /\ job'[j].status \notin {job[j].status, "absent"})
            => Moderates(j) \/ Overwrites(j)]_vars

=============================================================================
