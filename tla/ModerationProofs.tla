-------------------------- MODULE ModerationProofs --------------------------
(***************************************************************************)
(* Proofs about JobModeration, for any listings, accounts and threads.     *)
(***************************************************************************)
EXTENDS JobModeration, TLAPS

USE ModerationAssumption

\* What a handler holds: the listing of its request, which is there unless it has
\* been deleted since, and, past the check, who asked for what.
Held ==
    \A t \in Threads :
        /\ session[t].req \in {"edit", "delete", "deactivate", "withdraw", "report"} =>
              session[t].on \in Jobs
        /\ session[t].req = "edit" =>
              session[t].user \in Users /\ session[t].seen.status # "absent"
        /\ session[t].req = "deactivate" => session[t].seen.status = "active"
        /\ session[t].req = "withdraw" => session[t].to \in {"flagged", "inactive"}
        /\ session[t].req = "status" => session[t].user \in Admins
        /\ (session[t].req = "status" /\ session[t].on # NULL) => session[t].seen.text \in Texts

\* A listing always has a text.
Written == \A j \in Jobs : job[j].status # "absent" => job[j].text \in Texts

\* The row that a status change has loaded: once published it stays so, and a
\* listing that has been deleted does not come back.
Loaded ==
    \A t \in Threads :
        session[t].on # NULL =>
            /\ Present(session[t].on) \/ session[t].on \in gone
            /\ (session[t].req = "status" /\ session[t].seen.published /\ Present(session[t].on)) =>
                  job[session[t].on].published

TypeInv == TypeOK /\ Held /\ Written

Inv == TypeInv /\ Loaded /\ LiveIsPublished /\ UnapprovedTextOnlyByOverlap

-----------------------------------------------------------------------------
(* Types, and what the handlers hold.                                       *)

LEMMA Constants ==
    /\ Absent \in Row /\ Absent.status = "absent" /\ Absent.published = FALSE
    /\ Idle \in Session /\ Idle.req = "idle" /\ Idle.on = NULL
    /\ NoReport \in Report
BY DEF Absent, Row, Idle, Session, NoReport, Report, JobStatus, Resolutions

\* An UPDATE or INSERT of one row leaves the others alone.
LEMMA OneRow ==
    ASSUME TypeOK, NEW j \in Jobs, NEW row \in Row, job' = [job EXCEPT ![j] = row]
    PROVE  /\ job' \in [Jobs -> Row]
           /\ job'[j] = row
           /\ \A i \in Jobs \ {j} : job'[i] = job[i]
BY DEF TypeOK

\* A handler that takes up well-formed work keeps the types and what is held.
LEMMA HoldsWell ==
    ASSUME TypeInv, NEW t \in Threads, NEW s \in Session, session' = [session EXCEPT ![t] = s],
           s.req \in {"edit", "delete", "deactivate", "withdraw", "report"} => s.on \in Jobs,
           s.req = "edit" => s.user \in Users /\ s.seen.status # "absent",
           s.req = "deactivate" => s.seen.status = "active",
           s.req = "withdraw" => s.to \in {"flagged", "inactive"},
           s.req = "status" => s.user \in Admins,
           (s.req = "status" /\ s.on # NULL) => s.seen.text \in Texts
    PROVE  /\ session' \in [Threads -> Session] /\ Held'
           /\ session'[t] = s /\ \A o \in Threads \ {t} : session'[o] = session[o]
<1>1. /\ session' \in [Threads -> Session] /\ session'[t] = s
      /\ \A o \in Threads \ {t} : session'[o] = session[o]
  BY DEF TypeInv, TypeOK
<1> QED
  BY <1>1 DEF TypeInv, Held

\* What Fields and Update make of rows are rows.
LEMMA UpdateIsRow ==
    ASSUME NEW now \in Row, NEW loaded \in Row, NEW new \in Row
    PROVE  /\ Update(now, loaded, new) \in Row
           /\ Update(now, loaded, new).status = Column(now.status, loaded.status, new.status)
           /\ Update(now, loaded, new).text = Column(now.text, loaded.text, new.text)
           /\ Update(now, loaded, new).published = Column(now.published, loaded.published, new.published)
BY ZenonT(60) DEF Update, Column, Row

LEMMA FieldsIsRow ==
    ASSUME NEW row \in Row, NEW text \in Texts, NEW u \in Users \cup {NULL}
    PROVE  /\ Fields(row, text, u) \in Row
           /\ Fields(row, text, u).status = IF row.status = "absent" THEN "pending" ELSE row.status
           /\ Fields(row, text, u).text = text
           /\ Fields(row, text, u).published = row.published
<1> DEFINE owner == IF u = NULL THEN row.owner ELSE u
           status == IF row.status = "absent" THEN "pending" ELSE row.status
<1>1. owner \in Users \cup {NULL} /\ status \in JobStatus
  BY DEF Row, JobStatus
<1>2. Fields(row, text, u) = [row EXCEPT !.text = text, !.owner = owner, !.status = status]
  BY DEF Fields, Row
<1> HIDE DEF owner
<1> QED
  BY <1>1, <1>2 DEF Row

LEMMA EditedIsRow ==
    ASSUME NEW s \in Session, s.user \in Users, NEW x \in Texts
    PROVE  /\ Edited(s, x) \in Row
           /\ Edited(s, x).status \in {s.seen.status, "pending"}
           /\ (s.seen.status = "active" /\ s.user \notin Admins) => Edited(s, x).status = "pending"
           /\ s.seen.status \notin {"active", "absent"} => Edited(s, x).status = s.seen.status
           /\ Edited(s, x).text = x
           /\ Edited(s, x).published = s.seen.published
<1>1. s.seen \in Row
  BY DEF Session
<1> DEFINE new == Fields(s.seen, x, s.user)
<1>2. /\ new \in Row /\ new.status \in {s.seen.status, "pending"}
      /\ s.seen.status # "absent" => new.status = s.seen.status
      /\ new.text = x /\ new.published = s.seen.published
  BY <1>1, FieldsIsRow
<1>3. Edited(s, x) = IF s.seen.status = "active" /\ s.user \notin Admins
                     THEN [new EXCEPT !.status = "pending"] ELSE new
  BY DEF Edited
<1> HIDE DEF new
<1> QED
  BY <1>2, <1>3 DEF Row, JobStatus

-----------------------------------------------------------------------------
(* What a step does to a listing, and to what the handlers have loaded.     *)

\* No step brings a deleted listing back or takes its date of publication; one
\* that leaves the listing public has found it so, or is an activation; and its
\* text is then the old one, or approved, or has raced; and the status of one that
\* was taken down is moderated or overwritten, if anything.
Kept(j) ==
    /\ gone \subseteq gone' /\ approved \subseteq approved' /\ raced \subseteq raced'
    /\ Present(j) => (Present(j)' \/ j \in gone')
    /\ (~Present(j) /\ Present(j)') => j \notin gone
    /\ (Present(j) /\ Present(j)' /\ job[j].published) => job'[j].published
    /\ job'[j].status = "active" =>
          /\ job'[j].published \/ job[j].status = "active"
          /\ job[j].status = "active" \/ Publishes(j)
          /\ \/ job[j].status = "active" /\ job'[j].text = job[j].text
             \/ job'[j].text \in approved' \/ j \in raced'
    /\ (job[j].status \notin {"active", "absent"} /\ job'[j].status \notin {job[j].status, "absent"})
          => Moderates(j) \/ Overwrites(j)

\* What a handler holds after a step it held before, or has just loaded.
Fresh ==
    \A t \in Threads : session'[t].on # NULL =>
        \/ session'[t] = session[t]
        \/ /\ session'[t].on \in Jobs /\ job'[session'[t].on].status # "absent"
           /\ session'[t].req = "status" => session'[t].seen = job'[session'[t].on]

Step == TypeInv' /\ Fresh /\ \A j \in Jobs : Kept(j)

LEMMA SameRow ==
    ASSUME NEW j \in Jobs, job'[j] = job[j], gone \subseteq gone',
           approved \subseteq approved', raced \subseteq raced'
    PROVE  Kept(j)
BY DEF Kept, Present

\* A handler loads: no row changes.
LEMMA LoadStep ==
    ASSUME TypeInv, NEW t \in Threads, NEW s \in Session, Holds(t, s),
           s.req \in {"edit", "delete", "deactivate", "withdraw", "report"} => s.on \in Jobs,
           s.req = "edit" => s.user \in Users /\ s.seen.status # "absent",
           s.req = "deactivate" => s.seen.status = "active",
           s.req = "withdraw" => s.to \in {"flagged", "inactive"},
           s.req = "status" => s.user \in Admins,
           s.on # NULL => /\ s.on \in Jobs /\ Present(s.on)
                          /\ s.req = "status" => s.seen = job[s.on]
    PROVE  Step
<1>1. /\ session' \in [Threads -> Session] /\ Held'
      /\ session'[t] = s /\ \A o \in Threads \ {t} : session'[o] = session[o]
  <2>1. (s.req = "status" /\ s.on # NULL) => s.seen.text \in Texts
    BY DEF TypeInv, Written, Present
  <2> QED
    BY <2>1, HoldsWell DEF Holds
<1>2. UNCHANGED <<job, old, gone, approved, raced, report, batch>>
  BY DEF Holds, ghosts
<1>3. TypeOK'
  BY <1>1, <1>2 DEF TypeInv, TypeOK
<1>4. Fresh /\ Written'
  BY <1>1, <1>2 DEF Fresh, Present, Written, TypeInv
<1>5. \A j \in Jobs : Kept(j)
  BY <1>2, SameRow
<1> QED
  BY <1>1, <1>3, <1>4, <1>5 DEF Step, TypeInv

\* Every load: one step of the proof per action.
LEMMA LoadsStep ==
    ASSUME TypeInv, NEW t \in Threads, Loads(t) PROVE Step
<1>0. \A j \in Jobs : job[j] \in Row
  BY DEF TypeInv, TypeOK
<1>1. ASSUME NEW u \in Users, NEW j \in Jobs, LoadForEdit(t, u, j) PROVE Step
  <2> DEFINE s == [Idle EXCEPT !.req = "edit", !.user = u, !.on = j, !.seen = job[j]]
  <2>1. s \in Session /\ s.req = "edit" /\ s.user = u /\ s.on = j /\ s.seen = job[j]
    BY <1>0, <1>1, Constants DEF LoadForEdit, Idle, Session, Row, JobStatus
  <2>2. Holds(t, s) /\ Present(s.on) /\ job[j].status # "absent"
    BY <1>1 DEF LoadForEdit, Present
  <2> HIDE DEF s
  <2> QED
    BY <2>1, <2>2, LoadStep
<1>2. ASSUME NEW u \in Users, NEW j \in Jobs, LoadForDelete(t, u, j) PROVE Step
  <2> DEFINE s == [Idle EXCEPT !.req = "delete", !.on = j]
  <2>1. s \in Session /\ s.req = "delete" /\ s.on = j
    BY <1>0, <1>2, Constants DEF LoadForDelete, Idle, Session, Row, JobStatus
  <2>2. Holds(t, s) /\ Present(s.on)
    BY <1>2 DEF LoadForDelete
  <2> HIDE DEF s
  <2> QED
    BY <2>1, <2>2, LoadStep
<1>3. ASSUME NEW u \in Users, NEW j \in Jobs, LoadForDeactivation(t, u, j) PROVE Step
  <2> DEFINE s == [Idle EXCEPT !.req = "deactivate", !.on = j, !.seen = StatusOf(j)]
  <2>0. StatusOf(j) \in Row /\ StatusOf(j).status = job[j].status /\ job[j].status = "active"
    BY <1>0, <1>3 DEF LoadForDeactivation, StatusOf, Absent, Row
  <2>1. s \in Session /\ s.req = "deactivate" /\ s.on = j /\ s.seen.status = "active"
    BY <2>0, Constants DEF Idle, Session
  <2>2. Holds(t, s) /\ Present(s.on)
    BY <1>3 DEF LoadForDeactivation, Present
  <2> HIDE DEF s
  <2> QED
    BY <2>1, <2>2, LoadStep
<1>4. ASSUME NEW u \in Admins, NEW js \in SUBSET Jobs, NEW to \in Targets, StartStatus(t, u, js, to) PROVE Step
  <2> DEFINE s == [Idle EXCEPT !.req = "status", !.user = u, !.to = to, !.rest = js]
  <2>1. s \in Session /\ s.req = "status" /\ s.user \in Admins /\ s.on = NULL
    BY <1>0, <1>4, Constants DEF StartStatus, Idle, Session, Row, JobStatus
  <2>2. Holds(t, s)
    BY <1>4 DEF StartStatus
  <2> HIDE DEF s
  <2> QED
    BY <2>1, <2>2, LoadStep
<1>5. ASSUME NEW j \in Jobs, LoadForStatus(t, j) PROVE Step
  <2>1. session[t] \in Session /\ session[t].req = "status" /\ session[t].on = NULL /\ session[t].user \in Admins
    BY <1>5 DEF LoadForStatus, TypeInv, TypeOK, Held
  <2> DEFINE r == session[t].rest \ {j}
             a == [session[t] EXCEPT !.on = j, !.seen = job[j], !.rest = r]
             b == [session[t] EXCEPT !.rest = r]
  <2>2. /\ a \in Session /\ a.req = "status" /\ a.user \in Admins /\ a.on = j /\ a.seen = job[j]
        /\ b \in Session /\ b.req = "status" /\ b.user \in Admins /\ b.on = NULL
    BY <1>0, <2>1 DEF Session
  <2>3. (Present(j) /\ Holds(t, a)) \/ Holds(t, Idle) \/ Holds(t, b)
    BY <1>5 DEF LoadForStatus
  <2> HIDE DEF a, b
  <2>4. CASE Present(j) /\ Holds(t, a)
    <3>1. Present(a.on)
      BY <2>2, <2>4 DEF Present
    <3> QED
      BY <2>2, <2>4, <3>1, LoadStep
  <2>5. CASE Holds(t, Idle)
    BY <2>5, Constants, LoadStep
  <2>6. CASE Holds(t, b)
    BY <2>2, <2>6, LoadStep
  <2> QED
    BY <2>3, <2>4, <2>5, <2>6
<1>6. ASSUME NEW u \in Moderators, NEW j \in Jobs, NEW to \in {"flagged", "inactive"}, LoadForWithdrawal(t, u, j, to) PROVE Step
  <2> DEFINE s == [Idle EXCEPT !.req = "withdraw", !.on = j, !.to = to,
                             !.seen = StatusOf(j)]
  <2>0. StatusOf(j) \in Row
    BY <1>0, <1>6 DEF StatusOf, Absent, Row
  <2>1. s \in Session /\ s.req = "withdraw" /\ s.on = j /\ s.to \in {"flagged", "inactive"}
    BY <2>0, Constants DEF Idle, Session, JobStatus
  <2>2. Holds(t, s) /\ Present(s.on)
    BY <1>6 DEF LoadForWithdrawal
  <2> HIDE DEF s
  <2> QED
    BY <2>1, <2>2, LoadStep
<1>7. ASSUME NEW j \in Jobs, LoadForReport(t, j) PROVE Step
  <2> DEFINE s == [Idle EXCEPT !.req = "report", !.on = j]
  <2>1. s \in Session /\ s.req = "report" /\ s.on = j
    BY <1>0, <1>7, Constants DEF LoadForReport, Idle, Session, Row, JobStatus
  <2>2. Holds(t, s) /\ Present(s.on)
    BY <1>7 DEF LoadForReport
  <2> HIDE DEF s
  <2> QED
    BY <2>1, <2>2, LoadStep
<1> QED
  BY <1>1, <1>2, <1>3, <1>4, <1>5, <1>6, <1>7 DEF Loads

\* A handler commits: it lets go of its listing, one row or none has changed.
LEMMA CommitStep ==
    ASSUME TypeInv, NEW t \in Threads, NEW s \in Session, session' = [session EXCEPT ![t] = s],
           s.req \in {"idle", "status"}, s.req = "status" => s.user \in Admins, s.on = NULL,
           NEW j \in Jobs, NEW row \in Row, job' = [job EXCEPT ![j] = row],
           row.status # "absent" => row.text \in Texts,
           old' = old, gone \subseteq gone', gone' \subseteq Jobs,
           approved' \subseteq Texts, approved \subseteq approved', raced \subseteq raced',
           raced' \subseteq Jobs, report' \in [Reports -> Report], batch' = batch,
           Kept(j)
    PROVE  Step
<1>1. /\ session' \in [Threads -> Session] /\ Held'
      /\ session'[t] = s /\ \A o \in Threads \ {t} : session'[o] = session[o]
  BY HoldsWell
<1>2. job' \in [Jobs -> Row] /\ job'[j] = row /\ \A i \in Jobs \ {j} : job'[i] = job[i]
  BY OneRow DEF TypeInv
<1>3. TypeOK'
  BY <1>1, <1>2 DEF TypeInv, TypeOK
<1>4. Fresh /\ Written'
  BY <1>1, <1>2 DEF Fresh, Written, TypeInv
<1>5. \A i \in Jobs : Kept(i)
  BY <1>2, SameRow
<1> QED
  BY <1>1, <1>3, <1>4, <1>5 DEF Step, TypeInv

\* Every commit: one step of the proof per action.
LEMMA CommitsStep ==
    ASSUME TypeInv, UnapprovedTextOnlyByOverlap, Loaded, NEW t \in Threads, Commits(t) PROVE Step
<1>0. /\ \A j \in Jobs : job[j] \in Row
      /\ session[t] \in Session /\ session[t].seen \in Row
      /\ approved \subseteq Texts /\ raced \subseteq Jobs /\ gone \subseteq Jobs
      /\ report \in [Reports -> Report]
      /\ \A j \in Jobs : job[j].status # "absent" => job[j].text \in Texts
  BY DEF Written, TypeInv, TypeOK, Session
<1>1. ASSUME NEW x \in Texts, CommitEdit(t, x) PROVE Step
  <2>1. PICK j \in Jobs : j = session[t].on
    BY <1>1 DEF CommitEdit, TypeInv, Held
  <2>2. /\ session[t].req = "edit" /\ session[t].user \in Users /\ job[j].status # "absent"
        /\ session[t].seen.status # "absent"
    BY <1>1, <2>1 DEF CommitEdit, TypeInv, Held, Present
  <2> DEFINE loaded == session[t].seen
             new == Edited(session[t], x)
             row == Update(job[j], loaded, new)
  <2>3. /\ new \in Row /\ new.status \in {loaded.status, "pending"}
        /\ (loaded.status = "active" /\ session[t].user \notin Admins) => new.status = "pending"
        /\ loaded.status # "active" => new.status = loaded.status
        /\ new.text = x /\ new.published = loaded.published
    BY <1>0, <2>2, EditedIsRow
  <2>4. /\ session' = [session EXCEPT ![t] = Idle]
        /\ approved' = IF session[t].user \in Admins THEN approved \cup {x} ELSE approved
        /\ raced' = IF job[j].status # loaded.status \/ job[j].text # loaded.text
                    THEN raced \cup {j} ELSE raced
        /\ UNCHANGED <<old, gone, report, batch>>
    BY <1>1, <2>1 DEF CommitEdit, Overlapped
  <2>5. job' = [job EXCEPT ![j] = row]
    BY <1>1, <2>1 DEF CommitEdit
  <2> HIDE DEF new
  <2>6. /\ row \in Row
        /\ row.status = Column(job[j].status, loaded.status, new.status)
        /\ row.text = Column(job[j].text, loaded.text, new.text)
        /\ row.published = Column(job[j].published, loaded.published, new.published)
    BY <1>0, <2>3, UpdateIsRow
  <2> HIDE DEF row
  <2>7. job'[j] = row
    BY <1>0, <2>5, <2>6, OneRow DEF TypeInv
  <2>8. row.published = job[j].published /\ row.status \in {job[j].status, "pending"} /\ row.status # "absent"
    BY <2>2, <2>3, <2>6 DEF Column
  <2>9. ASSUME row.status = "active"
        PROVE  \/ row.text = job[j].text \/ row.text \in approved' \/ j \in raced'
    <3>1. job[j].status = "active" /\ new.status = loaded.status
      BY <2>3, <2>6, <2>8, <2>9 DEF Column
    <3>2. CASE session[t].user \in Admins
      BY <2>3, <2>4, <2>6, <3>2 DEF Column
    <3>3. CASE session[t].user \notin Admins
      BY <2>3, <2>4, <3>1, <3>3
    <3> QED
      BY <3>2, <3>3
  <2>91. job[j].status = row.status \/ Overwrites(j)
    <3>1. session'[t] # session[t]
      BY <2>2, <2>4, Constants DEF TypeInv, TypeOK
    <3>2. row.status # job[j].status => loaded.status = "active"
      BY <2>3, <2>6 DEF Column
    <3> QED  BY <2>1, <3>1, <3>2 DEF Overwrites
  <2>10. Kept(j)
    BY <2>2, <2>4, <2>7, <2>8, <2>9, <2>91 DEF Kept, Present
  <2>11. /\ approved' \subseteq Texts /\ row.text \in Texts /\ approved \subseteq approved'
         /\ raced \subseteq raced' /\ raced' \subseteq Jobs
    BY <1>0, <2>2, <2>3, <2>4, <2>6 DEF Column
  <2> QED
    BY <1>0, <2>4, <2>5, <2>6, <2>10, <2>11, Constants, CommitStep
<1>2. ASSUME NEW to \in {"filled", "inactive"}, CommitDeactivation(t, to) PROVE Step
  <2>1. PICK j \in Jobs : j = session[t].on
    BY <1>2 DEF CommitDeactivation, TypeInv, Held
  <2> DEFINE row == [job[j] EXCEPT !.status = to]
  <2>2. row \in Row /\ row.status = to /\ row.text = job[j].text /\ row.published = job[j].published
    BY <1>0 DEF Row, JobStatus
  <2>3. /\ job' = [job EXCEPT ![j] = row] /\ job[j].status # "absent"
        /\ session' = [session EXCEPT ![t] = Idle]
        /\ UNCHANGED <<old, gone, approved, raced, report, batch>>
    BY <1>2, <2>1 DEF CommitDeactivation, ghosts, Present
  <2> HIDE DEF row
  <2>4. job'[j] = row
    BY <2>2, <2>3, OneRow DEF TypeInv
  <2>41. Overwrites(j)
    BY <1>2, <2>1, <2>3, Constants DEF CommitDeactivation, Overwrites, TypeInv, TypeOK, Held
  <2>5. Kept(j)
    BY <2>2, <2>3, <2>4, <2>41 DEF Kept, Present
  <2> QED
    BY <1>0, <2>2, <2>3, <2>5, Constants, CommitStep
<1>3. ASSUME CommitStatus(t) PROVE Step
  <2>1. PICK j \in Jobs : j = session[t].on
    BY <1>0, <1>3 DEF CommitStatus, Session
  <2>2. session[t].req = "status" /\ session[t].user \in Admins /\ job[j].status # "absent"
    BY <1>3, <2>1 DEF CommitStatus, TypeInv, Held, Present
  <2> DEFINE loaded == session[t].seen
             to == session[t].to
             published == loaded.published \/ to = "active"
             new == [loaded EXCEPT !.status = to, !.published = published]
             row == Update(job[j], loaded, new)
             next == IF session[t].rest = {} THEN Idle
                     ELSE [session[t] EXCEPT !.on = NULL, !.seen = Absent]
  <2>3. /\ new \in Row /\ new.status = to /\ new.text = loaded.text
        /\ new.published = published /\ to \in JobStatus
    BY <1>0 DEF Row, Session
  <2>4. /\ session' = [session EXCEPT ![t] = next]
        /\ approved' = IF to = "active" THEN approved \cup {loaded.text} ELSE approved
        /\ raced' = IF job[j].status # loaded.status \/ job[j].text # loaded.text
                    THEN raced \cup {j} ELSE raced
        /\ UNCHANGED <<old, gone, report, batch>>
    BY <1>3, <2>1 DEF CommitStatus, Overlapped
  <2>5. job' = [job EXCEPT ![j] = row]
    BY <1>0, <1>3, <2>1 DEF CommitStatus
  <2>6. /\ next \in Session /\ next.on = NULL /\ next.req \in {"idle", "status"}
        /\ next.req = "status" => next.user \in Admins
    BY <1>0, <2>2, Constants DEF Session
  <2> HIDE DEF new, next
  <2>7. /\ row \in Row
        /\ row.status = Column(job[j].status, loaded.status, new.status)
        /\ row.text = Column(job[j].text, loaded.text, new.text)
        /\ row.published = Column(job[j].published, loaded.published, new.published)
    BY <1>0, <2>3, UpdateIsRow
  <2> HIDE DEF row
  <2>8. job'[j] = row /\ session'[t] = next
    BY <2>4, <2>5, <2>7, OneRow DEF TypeInv, TypeOK
  <2>9. row.status \in {job[j].status, to} /\ row.text = job[j].text /\ row.status # "absent"
    BY <2>2, <2>3, <2>7 DEF Column, JobStatus
  <2>10. loaded.published => job[j].published
    BY <2>1, <2>2 DEF Loaded, Present
  <2>11. (job[j].published => row.published) /\ (to = "active" => row.published)
    <3>1. new.published = loaded.published => row.published = job[j].published
      BY <2>7 DEF Column
    <3>2. new.published # loaded.published => row.published = new.published
      BY <2>7 DEF Column
    <3>3. CASE loaded.published
      <4>1. new.published = loaded.published
        BY <1>0, <2>3, <3>3 DEF Row
      <4> QED
        BY <2>10, <3>1, <3>3, <4>1
    <3>4. CASE ~loaded.published
      <4>1. CASE to = "active"
        <5>1. new.published
          BY <2>3, <4>1
        <5>2. new.published # loaded.published
          BY <3>4, <5>1
        <5> QED
          BY <3>2, <5>1, <5>2
      <4>2. CASE to # "active"
        <5>1. new.published = loaded.published
          BY <1>0, <2>3, <3>4, <4>2 DEF Row
        <5> QED
          BY <3>1, <4>2, <5>1
      <4> QED
        BY <4>1, <4>2
    <3> QED
      BY <3>3, <3>4
  <2>12. job[j].status = "active" \/ row.status # "active" \/ (to = "active" /\ Publishes(j))
    BY <2>1, <2>2, <2>6, <2>8, <2>9 DEF Publishes
  <2>13. to = "active" => row.text \in approved' \/ j \in raced'
    BY <2>4, <2>9
  <2>14. approved \subseteq approved' /\ raced \subseteq raced' /\ raced' \subseteq Jobs
    BY <1>0, <2>4
  <2>141. Moderates(j)
    BY <2>1, <2>2, <2>6, <2>8 DEF Moderates
  <2>15. Kept(j)
    BY <2>2, <2>4, <2>8, <2>9, <2>11, <2>12, <2>13, <2>14, <2>141 DEF Kept, Present
  <2>16. approved' \subseteq Texts /\ row.text \in Texts
    BY <1>0, <2>1, <2>2, <2>4, <2>9 DEF TypeInv, Held
  <2> QED
    BY <1>0, <2>4, <2>5, <2>6, <2>7, <2>14, <2>15, <2>16, CommitStep
<1>4. ASSUME CommitWithdrawal(t) PROVE Step
  <2>1. PICK j \in Jobs : j = session[t].on
    BY <1>4 DEF CommitWithdrawal, TypeInv, Held
  <2> DEFINE to == Column(job[j].status, session[t].seen.status, session[t].to)
             row == [job[j] EXCEPT !.status = to]
  <2>2. job[j].status # "absent" /\ session[t].to \in {"flagged", "inactive"}
    BY <1>4, <2>1 DEF CommitWithdrawal, TypeInv, Held, Present
  <2>3. to \in {job[j].status, "flagged", "inactive"}
    BY <2>2 DEF Column
  <2>4. /\ job' = [job EXCEPT ![j] = row]
        /\ session' = [session EXCEPT ![t] = Idle]
        /\ UNCHANGED <<old, gone, approved, raced, report, batch>>
    BY <1>0, <1>4, <2>1 DEF CommitWithdrawal, ghosts
  <2> HIDE DEF to
  <2>5. row \in Row /\ row.status = to /\ row.published = job[j].published /\ row.text = job[j].text
    BY <1>0, <2>3 DEF Row, JobStatus
  <2> HIDE DEF row
  <2>6. job'[j] = row
    BY <2>4, <2>5, OneRow DEF TypeInv
  <2>61. Moderates(j)
    BY <1>4, <2>1, <2>4, Constants DEF CommitWithdrawal, Moderates, TypeInv, TypeOK
  <2>7. Kept(j)
    BY <2>2, <2>3, <2>4, <2>5, <2>6, <2>61 DEF Kept, Present
  <2> QED
    BY <1>0, <2>2, <2>4, <2>5, <2>7, Constants, CommitStep
<1>5. ASSUME CommitDelete(t) PROVE Step
  <2>1. PICK j \in Jobs : j = session[t].on
    BY <1>5 DEF CommitDelete, TypeInv, Held
  <2>2. /\ job' = [job EXCEPT ![j] = Absent] /\ gone' = gone \cup {j}
        /\ report' = WithoutJob(j)
        /\ session' = [session EXCEPT ![t] = Idle]
        /\ UNCHANGED <<old, approved, raced, batch>>
    BY <1>5, <2>1 DEF CommitDelete, ghosts
  <2>3. report' \in [Reports -> Report]
    BY <1>0, <2>2, Constants DEF WithoutJob
  <2>4. job'[j] = Absent
    BY <2>2, Constants, OneRow DEF TypeInv
  <2>5. Kept(j)
    BY <2>2, <2>4, Constants DEF Kept, Present
  <2> QED
    BY <1>0, <2>2, <2>3, <2>5, Constants, CommitStep
<1>6. ASSUME Fails(t) PROVE Step
  BY <1>6, Constants, LoadStep DEF Fails
<1>7. ASSUME NEW r \in Reports, CreateReport(t, r) PROVE Step
  <2>1. PICK j \in Jobs : j = session[t].on
    BY <1>7 DEF CreateReport, TypeInv, Held
  <2>2. /\ report' = [report EXCEPT ![r] = [resolution |-> "pending", on |-> j]]
        /\ session' = [session EXCEPT ![t] = Idle]
        /\ UNCHANGED <<job, old, gone, approved, raced, batch>>
    BY <1>7, <2>1 DEF CreateReport, ghosts
  <2>3. report' \in [Reports -> Report]
    <3>1. [resolution |-> "pending", on |-> j] \in Report
      BY DEF Report, Resolutions
    <3> QED
      BY <1>0, <2>2, <3>1
  <2>4. job' = [job EXCEPT ![j] = job[j]] /\ Kept(j)
    BY <2>2, SameRow DEF TypeInv, TypeOK
  <2> QED
    BY <1>0, <2>2, <2>3, <2>4, Constants, CommitStep
<1> QED
  BY <1>1, <1>2, <1>3, <1>4, <1>5, <1>6, <1>7 DEF Commits

\* Steps that touch neither the handlers nor the texts and dates of the rows, and
\* publish nothing.
LEMMA BesideStep ==
    ASSUME TypeInv, session' = session, job' \in [Jobs -> Row],
           UNCHANGED <<gone, approved, raced>>, old' \subseteq Jobs, batch' \subseteq Jobs,
           report' \in [Reports -> Report],
           \A j \in Jobs : \/ job'[j] = job[j]
                           \/ /\ j \in batch /\ batch' = {}
                              /\ job[j].status # "absent" /\ job'[j].status = "inactive"
                              /\ job'[j].published = job[j].published /\ job'[j].text = job[j].text
                           \/ /\ job[j].status = "absent" /\ job'[j].status = "pending"
                              /\ job'[j].text \in Texts /\ j \notin gone
    PROVE  Step
<1>1. TypeOK' /\ Held'
  BY DEF TypeInv, TypeOK, Held
<1>2. Written'
  BY DEF TypeInv, Written
<1>3. Fresh
  BY DEF Fresh
<1>4. \A j \in Jobs : Kept(j)
  BY DEF Kept, Present, Overwrites
<1> QED
  BY <1>1, <1>2, <1>3, <1>4 DEF Step, TypeInv

LEMMA NextStep ==
    ASSUME TypeInv, UnapprovedTextOnlyByOverlap, Loaded, [Next]_vars PROVE Step
<1>0. /\ job \in [Jobs -> Row] /\ old \subseteq Jobs /\ batch \subseteq Jobs
      /\ report \in [Reports -> Report]
  BY DEF TypeInv, TypeOK
<1>1. ASSUME NEW j \in Jobs, NEW u \in Users \cup {NULL}, NEW x \in Texts, CreateJob(j, u, x) PROVE Step
  <2> DEFINE row == Fields(Absent, x, u)
  <2>1. row \in Row /\ row.status = "pending" /\ row.text = x
    BY Constants, FieldsIsRow
  <2>2. /\ job' = [job EXCEPT ![j] = row] /\ job[j].status = "absent" /\ j \notin gone
        /\ UNCHANGED <<old, gone, approved, raced, report, session, batch>>
    BY <1>1 DEF CreateJob, Present, ghosts
  <2> HIDE DEF row
  <2>3. /\ job' \in [Jobs -> Row] /\ job'[j] = row
        /\ \A i \in Jobs \ {j} : job'[i] = job[i]
    BY <2>1, <2>2, OneRow DEF TypeInv
  <2> QED
    BY <1>0, <2>1, <2>2, <2>3, BesideStep
<1>2. ASSUME NEW j \in Jobs, Ages(j) PROVE Step
  BY <1>0, <1>2, BesideStep DEF Ages, ghosts
<1>3. ASSUME NEW r \in Reports, NEW res \in Resolutions \ {"pending"}, ResolveReport(r, res) PROVE Step
  <2>1. [report[r] EXCEPT !.resolution = res] \in Report
    BY <1>0 DEF Report
  <2>2. report' \in [Reports -> Report]
    BY <1>0, <1>3, <2>1 DEF ResolveReport
  <2> QED
    BY <1>0, <1>3, <2>2, BesideStep DEF ResolveReport, ghosts
<1>4. ASSUME StartExpiry PROVE Step
  BY <1>0, <1>4, BesideStep DEF StartExpiry, Due, AdminJobs, ghosts
<1>5. ASSUME CommitExpiry PROVE Step
  <2>1. /\ batch' = {} /\ UNCHANGED <<old, gone, approved, raced, report, session>>
        /\ \/ job' = job
           \/ /\ \A j \in batch : Present(j)
              /\ job' = [j \in Jobs |-> IF j \in batch THEN [job[j] EXCEPT !.status = "inactive"] ELSE job[j]]
    BY <1>5 DEF CommitExpiry, ghosts
  <2>2. CASE job' = job
    BY <1>0, <2>1, <2>2, BesideStep
  <2>3. CASE /\ \A j \in batch : Present(j)
             /\ job' = [j \in Jobs |-> IF j \in batch THEN [job[j] EXCEPT !.status = "inactive"] ELSE job[j]]
    <3>1. ASSUME NEW j \in Jobs
          PROVE  /\ [job[j] EXCEPT !.status = "inactive"] \in Row
                 /\ [job[j] EXCEPT !.status = "inactive"].status = "inactive"
                 /\ [job[j] EXCEPT !.status = "inactive"].published = job[j].published
                 /\ [job[j] EXCEPT !.status = "inactive"].text = job[j].text
      BY <1>0 DEF Row, JobStatus
    <3>2. job' \in [Jobs -> Row]
      BY <1>0, <2>3, <3>1
    <3>3. \A j \in Jobs : job'[j] = IF j \in batch THEN [job[j] EXCEPT !.status = "inactive"] ELSE job[j]
      BY <2>3
    <3>4. \A j \in batch : job[j].status # "absent"
      BY <2>3 DEF Present
    <3> QED
      BY <1>0, <2>1, <3>1, <3>2, <3>3, <3>4, BesideStep
  <2> QED
    BY <2>1, <2>2, <2>3
<1>6. ASSUME UNCHANGED vars PROVE Step
  BY <1>0, <1>6, BesideStep DEF vars, ghosts
<1> QED
  BY <1>1, <1>2, <1>3, <1>4, <1>5, <1>6, LoadsStep, CommitsStep DEF Next

-----------------------------------------------------------------------------
(* The invariant and the theorems.                                          *)

\* What the handlers have loaded stays true of the rows, as far as it matters.
LEMMA LoadedStep ==
    ASSUME Inv, Step PROVE Loaded'
<1>1. SUFFICES ASSUME NEW t \in Threads, session'[t].on # NULL
               PROVE  /\ job'[session'[t].on].status # "absent" \/ session'[t].on \in gone'
                      /\ (session'[t].req = "status" /\ session'[t].seen.published
                          /\ job'[session'[t].on].status # "absent") => job'[session'[t].on].published
  BY DEF Loaded, Present
<1>2. CASE session'[t] = session[t]
  <2>1. PICK j \in Jobs : j = session[t].on
    BY <1>1, <1>2 DEF Inv, TypeInv, TypeOK, Session
  <2>2. Kept(j)
    BY DEF Step
  <2> QED
    BY <1>1, <1>2, <2>1, <2>2 DEF Inv, Loaded, Kept, Present
<1>3. CASE session'[t] # session[t]
  BY <1>1, <1>3 DEF Step, Fresh
<1> QED
  BY <1>2, <1>3

LEMMA InvStep ==
    ASSUME Inv, [Next]_vars PROVE Inv'
<1>1. Step
  BY NextStep DEF Inv
<1>2. TypeInv' /\ Loaded'
  BY <1>1, LoadedStep DEF Step
<1>3. LiveIsPublished'
  <2>1. ASSUME NEW j \in Jobs, job'[j].status = "active" PROVE job'[j].published
    <3>1. Kept(j)
      BY <1>1 DEF Step
    <3>2. CASE job[j].status = "active"
      BY <2>1, <3>1, <3>2 DEF Inv, LiveIsPublished, Kept, Present
    <3>3. CASE job[j].status # "active"
      BY <2>1, <3>1, <3>3 DEF Kept
    <3> QED
      BY <3>2, <3>3
  <2> QED
    BY <2>1 DEF LiveIsPublished
<1>4. UnapprovedTextOnlyByOverlap'
  <2>1. ASSUME NEW j \in Jobs, job'[j].status = "active"
        PROVE  job'[j].text \in approved' \/ j \in raced'
    <3>1. Kept(j)
      BY <1>1 DEF Step
    <3>2. CASE job[j].status = "active" /\ job'[j].text = job[j].text
      BY <3>1, <3>2 DEF Inv, UnapprovedTextOnlyByOverlap, Shown, GetJob, Kept, Present
    <3> QED
      BY <2>1, <3>1, <3>2 DEF Kept
  <2> QED
    BY <2>1 DEF UnapprovedTextOnlyByOverlap, Shown, ListJobs, PublicJobs, FeaturedJobs,
               Pushdown, GetJob, Present
<1> QED
  BY <1>2, <1>3, <1>4 DEF Inv

LEMMA InitInv ==
    ASSUME Init PROVE Inv
<1>1. \A j \in Jobs : job[j] = Absent
  BY DEF Init
<1>2. TypeOK /\ Held /\ Written
  BY <1>1, Constants DEF Init, TypeOK, Held, Written
<1>3. Loaded
  BY Constants DEF Init, Loaded
<1>4. LiveIsPublished /\ UnapprovedTextOnlyByOverlap
  BY <1>1, Constants DEF LiveIsPublished, UnapprovedTextOnlyByOverlap, Shown, ListJobs,
     PublicJobs, FeaturedJobs, Pushdown, GetJob, Present
<1> QED
  BY <1>2, <1>3, <1>4 DEF Inv, TypeInv

LEMMA Invariant == Spec => []Inv
BY InitInv, InvStep, PTL DEF Spec

\* The rows and what the handlers hold of them are always of the right kind.
THEOREM TypeCorrect == Spec => []TypeOK
<1>1. Inv => TypeOK
  BY DEF Inv, TypeInv
<1> QED
  BY <1>1, Invariant, PTL

\* A public listing has its date of publication, whatever overlapped: the UPDATE of
\* an activation names the date unless the row it loaded had one, and none drops it.
THEOREM LiveIsPublishedHolds == Spec => []LiveIsPublished
<1>1. Inv => LiveIsPublished
  BY DEF Inv
<1> QED
  BY <1>1, Invariant, PTL

\* The public reads a text that no administrator has seen only where an edit or
\* an activation has overlapped another commit.
THEOREM UnapprovedTextOnlyByOverlapHolds == Spec => []UnapprovedTextOnlyByOverlap
<1>1. Inv => UnapprovedTextOnlyByOverlap
  BY DEF Inv
<1> QED
  BY <1>1, Invariant, PTL

\* Administrators alone make listings public: no handler that loaded one while it
\* was active writes that status back.
THEOREM OnlyAdminsPublishHolds == Spec => OnlyAdminsPublish
<1> DEFINE Published == \A j \in Jobs :
                          (job[j].status # "active" /\ job'[j].status = "active") => Publishes(j)
<1>1. Inv /\ [Next]_vars => [Published]_vars
  <2> SUFFICES ASSUME Inv, [Next]_vars, NEW j \in Jobs, job[j].status # "active", job'[j].status = "active"
               PROVE  Publishes(j)
    OBVIOUS
  <2>1. Kept(j)
    BY NextStep DEF Inv, Step
  <2> QED
    BY <2>1 DEF Kept
<1> QED
  BY <1>1, Invariant, PTL DEF Spec, OnlyAdminsPublish

\* A listing taken down keeps its status past every edit, deactivation and expiry
\* that has not loaded it while it was public; administrators and moderators decide.
THEOREM TakenDownStaysHolds == Spec => TakenDownStays
<1>1. Inv /\ [Next]_vars =>
        [\A j \in Jobs :
           (job[j].status \notin {"active", "absent"} /\ job'[j].status \notin {job[j].status, "absent"})
              => Moderates(j) \/ Overwrites(j)]_vars
  <2> SUFFICES ASSUME Inv, [Next]_vars, NEW j \in Jobs,
                      job[j].status \notin {"active", "absent"},
                      job'[j].status \notin {job[j].status, "absent"}
               PROVE  Moderates(j) \/ Overwrites(j)
    OBVIOUS
  <2>1. Kept(j)
    BY NextStep DEF Inv, Step
  <2> QED
    BY <2>1 DEF Kept
<1> QED
  BY <1>1, Invariant, PTL DEF Spec, TakenDownStays

=============================================================================
