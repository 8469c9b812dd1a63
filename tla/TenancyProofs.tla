---------------------------- MODULE TenancyProofs ----------------------------
(***************************************************************************)
(* Proofs about Tenancy, for any users, companies, invited roles and       *)
(* threads.                                                                *)
(***************************************************************************)
EXTENDS Tenancy, TLAPS

USE TenancyAssumption

\* What a handler holds is of the right kind, and its company is there, or not
\* yet there when it creates it; no two handlers create one company.
Held ==
    \A t \in Threads :
        /\ session[t].req # "idle" => session[t].company \in Companies
        /\ session[t].req \in {"create", "invite", "post"} => session[t].user \in Users
        /\ session[t].req \in {"invite", "accept", "suspend", "auto"} => session[t].on \in Users
        /\ session[t].req = "create" => session[t].company \notin company
        /\ session[t].req \in {"invite", "accept", "suspend", "post", "auto"} =>
              session[t].company \in company
        /\ \A o \in Threads \ {t} :
              (session[t].req = "create" /\ session[o].req = "create") =>
                 session[o].company # session[t].company

\* Memberships are of companies that are there, and an active one has been held.
Memberships ==
    \A u \in Users, c \in Companies :
        /\ member[<<u, c>>].status # "none" => c \in company
        /\ member[<<u, c>>].status = "active" => <<u, c, member[<<u, c>>].role>> \in held

\* A request whose permission was checked is made by someone who once had it.
Checked ==
    \A t \in Threads :
        /\ session[t].req = "invite" => EverManager(session[t].user, session[t].company)
        /\ session[t].req = "post" => EverPoster(session[t].user, session[t].company)

\* An automatic membership keeps its role, through which no permission comes.
Automatic ==
    \A p \in audited : member[p].status # "none" /\ member[p].role = "member"

TypeInv == TypeOK /\ Held /\ Memberships

PowerInv == Checked /\ PowerIsDelegated

-----------------------------------------------------------------------------
(* The invariant of the types and of what the handlers hold.                *)

\* A new session is well-formed, and so are the others.
LEMMA StartsWell ==
    ASSUME TypeInv, NEW t \in Threads, NEW s \in Session, Starts(t, s),
           s.req # "idle" => s.company \in Companies,
           s.req \in {"create", "invite", "post"} => s.user \in Users,
           s.req \in {"invite", "accept", "suspend", "auto"} => s.on \in Users,
           s.req = "create" =>
              /\ s.company \notin company
              /\ \A o \in Threads : session[o].req = "create" => session[o].company # s.company,
           s.req \in {"invite", "accept", "suspend", "post", "auto"} => s.company \in company
    PROVE  TypeInv'
<1>1. /\ session' \in [Threads -> Session] /\ session'[t] = s
      /\ \A o \in Threads \ {t} : session'[o] = session[o]
  BY DEF Starts, TypeInv, TypeOK
<1>2. TypeOK'
  BY <1>1 DEF Starts, TypeInv, TypeOK
<1>3. Held'
  BY <1>1 DEF Starts, TypeInv, Held
<1>4. Memberships'
  BY DEF Starts, TypeInv, Memberships
<1> QED
  BY <1>2, <1>3, <1>4 DEF TypeInv

\* A session that ends holds nothing.
LEMMA AnswersWell ==
    ASSUME TypeInv, NEW t \in Threads, Answers(t),
           \/ company' = company
           \/ session[t].req = "create" /\ company' = company \cup {session[t].company}
    PROVE  session' \in [Threads -> Session] /\ Held'
<1>1. Idle \in Session /\ Idle.req = "idle"
  BY DEF Idle, Session, Roles
<1>2. /\ session' \in [Threads -> Session] /\ session'[t] = Idle
      /\ \A o \in Threads \ {t} : session'[o] = session[o]
  BY <1>1 DEF Answers, TypeInv, TypeOK
<1> QED
  BY <1>1, <1>2 DEF TypeInv, Held

\* An UPDATE of one membership leaves the others alone.
LEMMA OneMembership ==
    ASSUME TypeOK, NEW u \in Users, NEW c \in Companies, NEW m \in Membership,
           member' = [member EXCEPT ![<<u, c>>] = m]
    PROVE  /\ member' \in [Users \X Companies -> Membership]
           /\ member'[<<u, c>>] = m
           /\ \A v \in Users, d \in Companies : (v # u \/ d # c) => member'[<<v, d>>] = member[<<v, d>>]
           /\ \A p \in Users \X Companies : p # <<u, c>> => member'[p] = member[p]
BY DEF TypeOK

\* Every step keeps the types and what the handlers hold.
LEMMA TypeStep ==
    ASSUME TypeInv, [Next]_vars PROVE TypeInv'
<1> USE DEF TypeInv
<1>1. ASSUME NEW t \in Threads, NEW u \in Users, NEW c \in Companies, StartCreate(t, u, c) PROVE TypeInv'
  <2> DEFINE s == [Idle EXCEPT !.req = "create", !.user = u, !.company = c]
  <2>1. s \in Session /\ s.req = "create" /\ s.user = u /\ s.company = c
    BY DEF Idle, Session, Roles, TenancyAssumption
  <2>2. Starts(t, s) /\ c \notin company
        /\ \A o \in Threads : session[o].req = "create" => session[o].company # c
    BY <1>1 DEF StartCreate, Memberships, TypeOK
  <2> HIDE DEF s
  <2> QED
    BY <2>1, <2>2, StartsWell
<1>2. ASSUME NEW t \in Threads, NEW u \in Users, NEW c \in Companies, NEW v \in Users, NEW r \in InvitedRoles, StartInvite(t, u, c, v, r) PROVE TypeInv'
  <2> DEFINE s == [Idle EXCEPT !.req = "invite", !.user = u, !.company = c, !.on = v, !.role = r]
  <2>1. s \in Session /\ s.req = "invite" /\ s.user = u /\ s.company = c /\ s.on = v /\ s.role = r
    BY DEF Idle, Session, Roles, TenancyAssumption
  <2>2. Starts(t, s) /\ c \in company
    BY <1>2 DEF StartInvite, Memberships, TypeOK
  <2> HIDE DEF s
  <2> QED
    BY <2>1, <2>2, StartsWell
<1>3. ASSUME NEW t \in Threads, NEW u \in Users, NEW c \in Companies, StartAccept(t, u, c) PROVE TypeInv'
  <2> DEFINE s == [Idle EXCEPT !.req = "accept", !.company = c, !.on = u]
  <2>1. s \in Session /\ s.req = "accept" /\ s.company = c /\ s.on = u
    BY DEF Idle, Session, Roles, TenancyAssumption
  <2>2. Starts(t, s) /\ c \in company
    BY <1>3 DEF StartAccept, Memberships, TypeOK
  <2> HIDE DEF s
  <2> QED
    BY <2>1, <2>2, StartsWell
<1>4. ASSUME NEW t \in Threads, NEW u \in Users, NEW c \in Companies, NEW v \in Users, StartSuspend(t, u, c, v) PROVE TypeInv'
  <2> DEFINE s == [Idle EXCEPT !.req = "suspend", !.company = c, !.on = v, !.seen = member[<<v, c>>].status]
  <2>1. s \in Session /\ s.req = "suspend" /\ s.company = c /\ s.on = v /\ s.seen = member[<<v, c>>].status
    BY DEF Idle, Session, Roles, TypeOK, Membership, TenancyAssumption
  <2>2. Starts(t, s) /\ c \in company
    BY <1>4 DEF StartSuspend, Memberships, TypeOK
  <2> HIDE DEF s
  <2> QED
    BY <2>1, <2>2, StartsWell
<1>5. ASSUME NEW t \in Threads, NEW u \in Users, NEW c \in Companies, AuthorizeCompanyPost(t, u, c) PROVE TypeInv'
  <2> DEFINE s == [Idle EXCEPT !.req = "post", !.user = u, !.company = c]
  <2>1. s \in Session /\ s.req = "post" /\ s.user = u /\ s.company = c
    BY DEF Idle, Session, Roles, TenancyAssumption
  <2>2. Starts(t, s) /\ c \in company
    BY <1>5 DEF AuthorizeCompanyPost, Memberships, TypeOK
  <2> HIDE DEF s
  <2> QED
    BY <2>1, <2>2, StartsWell
<1>6. ASSUME NEW t \in Threads, NEW u \in Users, NEW c \in Companies, StartAuto(t, u, c) PROVE TypeInv'
  <2> DEFINE s == [Idle EXCEPT !.req = "auto", !.company = c, !.on = u, !.seen = member[<<u, c>>].status]
  <2>1. s \in Session /\ s.req = "auto" /\ s.company = c /\ s.on = u /\ s.seen = member[<<u, c>>].status
    BY DEF Idle, Session, Roles, TypeOK, Membership, TenancyAssumption
  <2>2. Starts(t, s) /\ c \in company
    BY <1>6 DEF StartAuto, Memberships, TypeOK
  <2> HIDE DEF s
  <2> QED
    BY <2>1, <2>2, StartsWell
<1>7. ASSUME NEW t \in Threads, CommitCreate(t) PROVE TypeInv'
  <2>1. session' \in [Threads -> Session] /\ Held'
    BY <1>7, AnswersWell DEF CommitCreate
  <2>2. PICK u \in Users, c \in Companies : u = session[t].user /\ c = session[t].company
    BY <1>7 DEF CommitCreate, Held
  <2>3. CASE UNCHANGED <<company, member, held>>
    BY <2>1, <2>3, <1>7 DEF CommitCreate, TypeOK, Memberships
  <2>4. CASE /\ company' = company \cup {c} /\ held' = held \cup {<<u, c, "org_owner">>}
             /\ member' = [member EXCEPT ![<<u, c>>] =
                             [status |-> "active", role |-> "org_owner", by |-> NULL]]
    <3> DEFINE m == [status |-> "active", role |-> "org_owner", by |-> NULL]
    <3>1. m \in Membership /\ m.status = "active" /\ m.role = "org_owner"
      BY DEF Membership, Roles
    <3> HIDE DEF m
    <3>2. /\ member' \in [Users \X Companies -> Membership]
          /\ member'[<<u, c>>] = m
          /\ \A v \in Users, d \in Companies : (v # u \/ d # c) => member'[<<v, d>>] = member[<<v, d>>]
      BY <2>4, <3>1, OneMembership DEF m
    <3>3. held' \subseteq Users \X Companies \X Roles
      BY <2>4 DEF TypeOK, Roles
    <3>4. TypeOK'
      BY <2>1, <2>4, <3>2, <3>3, <1>7 DEF CommitCreate, TypeOK
    <3>5. Memberships'
      <4>1. ASSUME NEW v \in Users, NEW d \in Companies
            PROVE  /\ member'[<<v, d>>].status # "none" => d \in company'
                   /\ member'[<<v, d>>].status = "active" => <<v, d, member'[<<v, d>>].role>> \in held'
        <5>1. CASE v = u /\ d = c
          BY <2>4, <3>1, <3>2, <5>1
        <5>2. CASE v # u \/ d # c
          BY <2>4, <3>2, <5>2 DEF Memberships
        <5> QED
          BY <5>1, <5>2
      <4> QED
        BY <4>1 DEF Memberships
    <3> QED
      BY <2>1, <3>4, <3>5
  <2> QED
    BY <2>2, <2>3, <2>4, <1>7 DEF CommitCreate
<1>8. ASSUME NEW t \in Threads, CommitInvite(t) PROVE TypeInv'
  <2>1. session' \in [Threads -> Session] /\ Held'
    BY <1>8, AnswersWell DEF CommitInvite
  <2>2. session[t] \in Session
    BY DEF TypeOK
  <2>3. TypeOK'
    BY <1>8, <2>1, <2>2 DEF CommitInvite, TypeOK, Membership, Session, Held
  <2>4. Memberships'
    BY ZenonT(30), <1>8, <2>2 DEF CommitInvite, TypeOK, Membership, Held, Memberships
  <2> QED
    BY <2>1, <2>3, <2>4
<1>9. ASSUME NEW t \in Threads, CommitAccept(t) PROVE TypeInv'
  <2>1. session' \in [Threads -> Session] /\ Held'
    BY <1>9, AnswersWell DEF CommitAccept
  <2>2. PICK u \in Users, c \in Companies : u = session[t].on /\ c = session[t].company
    BY <1>9 DEF CommitAccept, Held
  <2> DEFINE m == [member[<<u, c>>] EXCEPT !.status = "active"]
  <2>3. m \in Membership /\ m.status = "active" /\ m.role = member[<<u, c>>].role /\ m.role \in Roles
    BY DEF TypeOK, Membership
  <2>4. /\ member' = [member EXCEPT ![<<u, c>>] = m] /\ c \in company
        /\ held' = held \cup {<<u, c, member[<<u, c>>].role>>}
        /\ UNCHANGED <<company, domain, posted, audited>>
    BY <2>2, <1>9 DEF CommitAccept, Held
  <2> HIDE DEF m
  <2>5. /\ member' \in [Users \X Companies -> Membership]
        /\ member'[<<u, c>>] = m
        /\ \A v \in Users, d \in Companies : (v # u \/ d # c) => member'[<<v, d>>] = member[<<v, d>>]
    BY <2>3, <2>4, OneMembership
  <2>6. TypeOK'
    BY <2>1, <2>3, <2>4, <2>5 DEF TypeOK
  <2>7. Memberships'
    <3>1. ASSUME NEW v \in Users, NEW d \in Companies
          PROVE  /\ member'[<<v, d>>].status # "none" => d \in company'
                 /\ member'[<<v, d>>].status = "active" => <<v, d, member'[<<v, d>>].role>> \in held'
      <4>1. CASE v = u /\ d = c
        BY <2>3, <2>4, <2>5, <4>1
      <4>2. CASE v # u \/ d # c
        BY <2>4, <2>5, <4>2 DEF Memberships
      <4> QED
        BY <4>1, <4>2
    <3> QED
      BY <3>1 DEF Memberships
  <2> QED
    BY <2>1, <2>6, <2>7
<1>10. ASSUME NEW t \in Threads, CommitSuspend(t) PROVE TypeInv'
  <2>1. session' \in [Threads -> Session] /\ Held'
    BY <1>10, AnswersWell DEF CommitSuspend
  <2>2. PICK u \in Users, c \in Companies : u = session[t].on /\ c = session[t].company
    BY <1>10 DEF CommitSuspend, Held
  <2> DEFINE m == [member[<<u, c>>] EXCEPT !.status = "suspended"]
  <2>3. m \in Membership /\ m.status = "suspended"
    BY DEF TypeOK, Membership
  <2>4. /\ member' = member \/ member' = [member EXCEPT ![<<u, c>>] = m]
        /\ c \in company
        /\ UNCHANGED <<company, domain, posted, audited, held>>
    BY <2>2, <1>10 DEF CommitSuspend, Held
  <2> HIDE DEF m
  <2>5. \/ member' = member
        \/ /\ member' \in [Users \X Companies -> Membership]
           /\ member'[<<u, c>>] = m
           /\ \A v \in Users, d \in Companies : (v # u \/ d # c) => member'[<<v, d>>] = member[<<v, d>>]
    BY <2>3, <2>4, OneMembership
  <2>6. TypeOK'
    BY <2>1, <2>4, <2>5 DEF TypeOK
  <2>7. Memberships'
    BY <2>3, <2>4, <2>5 DEF Memberships
  <2> QED
    BY <2>1, <2>6, <2>7
<1>11. ASSUME NEW t \in Threads, CommitPost(t) PROVE TypeInv'
  <2>1. session' \in [Threads -> Session] /\ Held'
    BY <1>11, AnswersWell DEF CommitPost
  <2>2. session[t] \in Session
    BY DEF TypeOK
  <2>3. TypeOK'
    BY <1>11, <2>1, <2>2 DEF CommitPost, TypeOK, Membership, Session, Held
  <2>4. Memberships'
    BY <1>11, <2>2 DEF CommitPost, TypeOK, Membership, Held, Memberships
  <2> QED
    BY <2>1, <2>3, <2>4
<1>12. ASSUME NEW t \in Threads, CommitAuto(t) PROVE TypeInv'
  <2>1. session' \in [Threads -> Session] /\ Held'
    BY <1>12, AnswersWell DEF CommitAuto
  <2>2. PICK u \in Users, c \in Companies : u = session[t].on /\ c = session[t].company
    BY <1>12 DEF CommitAuto, Held
  <2> DEFINE m == [status |-> "invited", role |-> "member", by |-> NULL]
  <2>3. m \in Membership /\ m.status = "invited"
    BY DEF Membership, Roles
  <2> HIDE DEF m
  <2>4. /\ \/ member' = member /\ audited' = audited
           \/ member' = [member EXCEPT ![<<u, c>>] = m] /\ audited' = audited \cup {<<u, c>>}
        /\ c \in company
        /\ UNCHANGED <<company, domain, posted, held>>
    BY <2>2, <1>12 DEF CommitAuto, AutoRole, AutoStatusForExisting, Held, m
  <2>5. \/ member' = member
        \/ /\ member' \in [Users \X Companies -> Membership]
           /\ member'[<<u, c>>] = m
           /\ \A v \in Users, d \in Companies : (v # u \/ d # c) => member'[<<v, d>>] = member[<<v, d>>]
    BY <2>3, <2>4, OneMembership
  <2>6. TypeOK'
    BY <2>1, <2>4, <2>5 DEF TypeOK
  <2>7. Memberships'
    BY <2>3, <2>4, <2>5 DEF Memberships
  <2> QED
    BY <2>1, <2>6, <2>7
<1>13. ASSUME NEW u \in Users, NEW c \in Companies, DomainVerified(u, c) PROVE TypeInv'
  BY <1>13 DEF DomainVerified, TypeOK, Held, Memberships
<1>14. ASSUME UNCHANGED vars PROVE TypeInv'
  BY <1>14 DEF vars, TypeOK, Held, Memberships
<1> QED
  BY <1>1, <1>2, <1>3, <1>4, <1>5, <1>6, <1>7, <1>8, <1>9, <1>10, <1>11, <1>12, <1>13, <1>14 DEF Next

-----------------------------------------------------------------------------
(* Every power is delegated.                                                *)

\* Whoever has a permission now has held it: an active membership was recorded
\* as held.
LEMMA PermissionWasHeld ==
    ASSUME TypeInv, NEW u \in Users, NEW c \in Companies
    PROVE  /\ HasPermission(u, "company:manage_members", c) => EverManager(u, c)
           /\ HasPermission(u, "job:post", c) => EverPoster(u, c)
<1>1. member[<<u, c>>].role \in Roles
  BY DEF TypeInv, TypeOK, Membership
<1>2. member[<<u, c>>].status = "active" => <<u, c, member[<<u, c>>].role>> \in held
  BY DEF TypeInv, Memberships
<1> QED
  BY <1>1, <1>2 DEF HasPermission, EffectivePermissions, PlatformPermissions,
                    TenantPermissions, EverManager, EverPoster

\* A role once held stays held.
LEMMA EverGrows ==
    ASSUME held \subseteq held', NEW u, NEW c
    PROVE  /\ EverManager(u, c) => EverManager(u, c)'
           /\ EverPoster(u, c) => EverPoster(u, c)'
BY DEF EverManager, EverPoster

\* When no request comes under check, no inviter is named and nobody posts,
\* what was delegated stays so.
LEMMA NoNewPower ==
    ASSUME TypeInv, PowerInv, held \subseteq held',
           \A t \in Threads : session'[t].req \in {"invite", "post"} => session'[t] = session[t],
           \A p \in Users \X Companies : member'[p].by \in {member[p].by, NULL},
           posted' = posted
    PROVE  PowerInv'
<1>1. Checked'
  <2>1. ASSUME NEW t \in Threads, (session[t].req = "invite")'
        PROVE  EverManager(session[t].user, session[t].company)'
    <3>1. session'[t] = session[t] /\ EverManager(session[t].user, session[t].company)
      BY <2>1 DEF PowerInv, Checked
    <3> QED
      BY <3>1 DEF EverManager
  <2>2. ASSUME NEW t \in Threads, (session[t].req = "post")'
        PROVE  EverPoster(session[t].user, session[t].company)'
    <3>1. session'[t] = session[t] /\ EverPoster(session[t].user, session[t].company)
      BY <2>2 DEF PowerInv, Checked
    <3> QED
      BY <3>1 DEF EverPoster
  <2> QED
    BY <2>1, <2>2 DEF Checked
<1>2. PowerIsDelegated'
  <2>1. ASSUME NEW u \in Users, NEW c \in Companies, (member[<<u, c>>].by # NULL)'
        PROVE  EverManager(member[<<u, c>>].by, c)'
    <3>1. member'[<<u, c>>].by = member[<<u, c>>].by /\ EverManager(member[<<u, c>>].by, c)
      BY <2>1 DEF PowerInv, PowerIsDelegated
    <3> QED
      BY <3>1 DEF EverManager
  <2>2. \A p \in posted' : EverPoster(p[1], p[2])'
    BY DEF PowerInv, PowerIsDelegated, EverPoster
  <2> QED
    BY <2>1, <2>2 DEF PowerIsDelegated
<1> QED
  BY <1>1, <1>2 DEF PowerInv

\* An invitation and a posting start with the check, and end with what it
\* allowed; no other step adds a power.
LEMMA PowerStep ==
    ASSUME TypeInv, PowerInv, [Next]_vars PROVE PowerInv'
<1>a. Idle.req = "idle"
  BY DEF Idle
<1>1. ASSUME NEW t \in Threads, NEW u \in Users, NEW c \in Companies, StartCreate(t, u, c) PROVE PowerInv'
  <2>1. /\ \A o \in Threads : session'[o].req \in {"invite", "post"} => session'[o] = session[o]
        /\ UNCHANGED <<member, posted, held>>
    BY <1>1 DEF StartCreate, Starts, Idle, TypeInv, TypeOK
  <2> QED
    BY <2>1, NoNewPower
<1>2. ASSUME NEW t \in Threads, NEW u \in Users, NEW c \in Companies, NEW v \in Users, NEW r \in InvitedRoles, StartInvite(t, u, c, v, r) PROVE PowerInv'
  <2> DEFINE s == [Idle EXCEPT !.req = "invite", !.user = u, !.company = c, !.on = v, !.role = r]
  <2>1. s.req = "invite" /\ s.user = u /\ s.company = c
    BY DEF Idle
  <2>2. Starts(t, s) /\ EverManager(u, c)
    BY <1>2, PermissionWasHeld DEF StartInvite
  <2> HIDE DEF s
  <2>3. /\ session'[t] = s
        /\ \A o \in Threads \ {t} : session'[o] = session[o]
        /\ UNCHANGED <<member, posted, held>>
    BY <2>2 DEF Starts, TypeInv, TypeOK
  <2>4. Checked'
    BY <2>1, <2>2, <2>3 DEF PowerInv, Checked, EverManager, EverPoster
  <2>5. PowerIsDelegated'
    BY <2>3 DEF PowerInv, PowerIsDelegated, EverManager, EverPoster
  <2> QED
    BY <2>4, <2>5 DEF PowerInv
<1>3. ASSUME NEW t \in Threads, NEW u \in Users, NEW c \in Companies, StartAccept(t, u, c) PROVE PowerInv'
  <2>1. /\ \A o \in Threads : session'[o].req \in {"invite", "post"} => session'[o] = session[o]
        /\ UNCHANGED <<member, posted, held>>
    BY <1>3 DEF StartAccept, Starts, Idle, TypeInv, TypeOK
  <2> QED
    BY <2>1, NoNewPower
<1>4. ASSUME NEW t \in Threads, NEW u \in Users, NEW c \in Companies, NEW v \in Users, StartSuspend(t, u, c, v) PROVE PowerInv'
  <2>1. /\ \A o \in Threads : session'[o].req \in {"invite", "post"} => session'[o] = session[o]
        /\ UNCHANGED <<member, posted, held>>
    BY <1>4 DEF StartSuspend, Starts, Idle, TypeInv, TypeOK
  <2> QED
    BY <2>1, NoNewPower
<1>5. ASSUME NEW t \in Threads, NEW u \in Users, NEW c \in Companies, AuthorizeCompanyPost(t, u, c) PROVE PowerInv'
  <2> DEFINE s == [Idle EXCEPT !.req = "post", !.user = u, !.company = c]
  <2>1. s.req = "post" /\ s.user = u /\ s.company = c
    BY DEF Idle
  <2>2. Starts(t, s) /\ EverPoster(u, c)
    BY <1>5, PermissionWasHeld DEF AuthorizeCompanyPost
  <2> HIDE DEF s
  <2>3. /\ session'[t] = s
        /\ \A o \in Threads \ {t} : session'[o] = session[o]
        /\ UNCHANGED <<member, posted, held>>
    BY <2>2 DEF Starts, TypeInv, TypeOK
  <2>4. Checked'
    BY <2>1, <2>2, <2>3 DEF PowerInv, Checked, EverManager, EverPoster
  <2>5. PowerIsDelegated'
    BY <2>3 DEF PowerInv, PowerIsDelegated, EverManager, EverPoster
  <2> QED
    BY <2>4, <2>5 DEF PowerInv
<1>6. ASSUME NEW t \in Threads, NEW u \in Users, NEW c \in Companies, StartAuto(t, u, c) PROVE PowerInv'
  <2>1. /\ \A o \in Threads : session'[o].req \in {"invite", "post"} => session'[o] = session[o]
        /\ UNCHANGED <<member, posted, held>>
    BY <1>6 DEF StartAuto, Starts, Idle, TypeInv, TypeOK
  <2> QED
    BY <2>1, NoNewPower
<1>7. ASSUME NEW t \in Threads, CommitCreate(t) PROVE PowerInv'
  <2>1. \A o \in Threads : session'[o].req \in {"invite", "post"} => session'[o] = session[o]
    BY <1>7, <1>a DEF CommitCreate, Answers, TypeInv, TypeOK
  <2>2. PICK u \in Users, c \in Companies : u = session[t].user /\ c = session[t].company
    BY <1>7 DEF CommitCreate, TypeInv, Held
  <2>3. \A p \in Users \X Companies : member'[p].by \in {member[p].by, NULL}
    BY SMTT(30), <1>7, <2>2 DEF CommitCreate, TypeInv, TypeOK, Membership
  <2>4. held \subseteq held' /\ posted' = posted
    BY <1>7 DEF CommitCreate
  <2> QED
    BY <2>1, <2>3, <2>4, NoNewPower
<1>8. ASSUME NEW t \in Threads, CommitInvite(t) PROVE PowerInv'
  <2>1. \A o \in Threads : session'[o].req \in {"invite", "post"} => session'[o] = session[o]
    BY <1>8, <1>a DEF CommitInvite, Answers, TypeInv, TypeOK
  <2>2. PICK u \in Users, c \in Companies, v \in Users :
              u = session[t].user /\ c = session[t].company /\ v = session[t].on
    BY <1>8 DEF CommitInvite, TypeInv, Held
  <2>3. EverManager(u, c)
    BY <1>8, <2>2 DEF CommitInvite, PowerInv, Checked, EverManager
  <2>4. /\ UNCHANGED <<posted, held>>
        /\ \A p \in Users \X Companies : member'[p].by = member[p].by \/ (p = <<v, c>> /\ member'[p].by = u)
    BY <1>8, <2>2 DEF CommitInvite, TypeInv, TypeOK
  <2>5. Checked'
    BY <2>1, <2>4 DEF PowerInv, Checked, EverManager, EverPoster
  <2>6. ASSUME NEW w \in Users, NEW d \in Companies, (member[<<w, d>>].by # NULL)'
        PROVE  EverManager(member[<<w, d>>].by, d)'
    <3>1. CASE member'[<<w, d>>].by = member[<<w, d>>].by
      BY <2>4, <2>6, <3>1 DEF PowerInv, PowerIsDelegated, EverManager
    <3>2. CASE <<w, d>> = <<v, c>> /\ member'[<<w, d>>].by = u
      BY <2>3, <2>4, <3>2 DEF EverManager
    <3> QED
      BY <2>4, <3>1, <3>2
  <2>7. PowerIsDelegated'
    BY <2>4, <2>6 DEF PowerInv, PowerIsDelegated, EverManager, EverPoster
  <2> QED
    BY <2>5, <2>7 DEF PowerInv
<1>9. ASSUME NEW t \in Threads, CommitAccept(t) PROVE PowerInv'
  <2>1. \A o \in Threads : session'[o].req \in {"invite", "post"} => session'[o] = session[o]
    BY <1>9, <1>a DEF CommitAccept, Answers, TypeInv, TypeOK
  <2>2. PICK u \in Users, c \in Companies : u = session[t].on /\ c = session[t].company
    BY <1>9 DEF CommitAccept, TypeInv, Held
  <2>3. \A p \in Users \X Companies : member'[p].by \in {member[p].by, NULL}
    BY SMTT(30), <1>9, <2>2 DEF CommitAccept, TypeInv, TypeOK, Membership
  <2>4. held \subseteq held' /\ posted' = posted
    BY <1>9 DEF CommitAccept
  <2> QED
    BY <2>1, <2>3, <2>4, NoNewPower
<1>10. ASSUME NEW t \in Threads, CommitSuspend(t) PROVE PowerInv'
  <2>1. \A o \in Threads : session'[o].req \in {"invite", "post"} => session'[o] = session[o]
    BY <1>10, <1>a DEF CommitSuspend, Answers, TypeInv, TypeOK
  <2>2. PICK u \in Users, c \in Companies : u = session[t].on /\ c = session[t].company
    BY <1>10 DEF CommitSuspend, TypeInv, Held
  <2>3. \A p \in Users \X Companies : member'[p].by \in {member[p].by, NULL}
    BY SMTT(30), <1>10, <2>2 DEF CommitSuspend, TypeInv, TypeOK, Membership
  <2>4. held \subseteq held' /\ posted' = posted
    BY <1>10 DEF CommitSuspend
  <2> QED
    BY <2>1, <2>3, <2>4, NoNewPower
<1>11. ASSUME NEW t \in Threads, CommitPost(t) PROVE PowerInv'
  <2>1. \A o \in Threads : session'[o].req \in {"invite", "post"} => session'[o] = session[o]
    BY <1>11, <1>a DEF CommitPost, Answers, TypeInv, TypeOK
  <2>2. PICK u \in Users, c \in Companies : u = session[t].user /\ c = session[t].company
    BY <1>11 DEF CommitPost, TypeInv, Held
  <2>3. EverPoster(u, c)
    BY <1>11, <2>2 DEF CommitPost, PowerInv, Checked, EverPoster
  <2>4. posted' = posted \cup {<<u, c>>} /\ UNCHANGED <<member, held>>
    BY <1>11, <2>2 DEF CommitPost
  <2>5. Checked'
    BY <2>1, <2>4 DEF PowerInv, Checked, EverManager, EverPoster
  <2>6. PowerIsDelegated'
    <3>1. EverPoster(u, c)' /\ <<u, c>>[1] = u /\ <<u, c>>[2] = c
      BY <2>3, <2>4 DEF EverPoster
    <3>2. \A p \in posted : EverPoster(p[1], p[2])'
      BY <2>4 DEF PowerInv, PowerIsDelegated, EverPoster
    <3>3. \A p \in posted' : EverPoster(p[1], p[2])'
      BY <2>4, <3>1, <3>2 DEF EverPoster
    <3>4. \A v \in Users, d \in Companies : (member[<<v, d>>].by # NULL => EverManager(member[<<v, d>>].by, d))'
      BY <2>4 DEF PowerInv, PowerIsDelegated, EverManager
    <3> QED
      BY <3>3, <3>4 DEF PowerIsDelegated
  <2> QED
    BY <2>5, <2>6 DEF PowerInv
<1>12. ASSUME NEW t \in Threads, CommitAuto(t) PROVE PowerInv'
  <2>1. \A o \in Threads : session'[o].req \in {"invite", "post"} => session'[o] = session[o]
    BY <1>12, <1>a DEF CommitAuto, Answers, TypeInv, TypeOK
  <2>2. PICK u \in Users, c \in Companies : u = session[t].on /\ c = session[t].company
    BY <1>12 DEF CommitAuto, TypeInv, Held
  <2> DEFINE m == [status |-> "invited", role |-> "member", by |-> NULL]
  <2>3. m \in Membership /\ m.by = NULL
    BY DEF Membership, Roles
  <2> HIDE DEF m
  <2>4. member' = member \/ member' = [member EXCEPT ![<<u, c>>] = m]
    BY <1>12, <2>2 DEF CommitAuto, AutoRole, AutoStatusForExisting, m
  <2>5. \A p \in Users \X Companies : member'[p].by \in {member[p].by, NULL}
    BY <2>3, <2>4 DEF TypeInv, TypeOK
  <2>6. held \subseteq held' /\ posted' = posted
    BY <1>12 DEF CommitAuto
  <2> QED
    BY <2>1, <2>5, <2>6, NoNewPower
<1>13. ASSUME NEW u \in Users, NEW c \in Companies, DomainVerified(u, c) PROVE PowerInv'
  BY <1>13, NoNewPower DEF DomainVerified
<1>14. ASSUME UNCHANGED vars PROVE PowerInv'
  BY <1>14, NoNewPower DEF vars
<1> QED
  BY <1>1, <1>2, <1>3, <1>4, <1>5, <1>6, <1>7, <1>8, <1>9, <1>10, <1>11, <1>12, <1>13, <1>14 DEF Next

-----------------------------------------------------------------------------
(* What becomes of a membership.                                            *)

\* The steps that leave the memberships as they are.
Leaves == UNCHANGED <<member, audited>>

LEMMA MostLeave ==
    ASSUME [Next]_vars,
           ~ \E t \in Threads : \/ CommitCreate(t) \/ CommitInvite(t) \/ CommitAccept(t)
                               \/ CommitSuspend(t) \/ CommitAuto(t)
    PROVE  Leaves
<1>1. ASSUME NEW t \in Threads, NEW u \in Users, NEW c \in Companies, StartCreate(t, u, c) PROVE Leaves
  BY <1>1 DEF StartCreate, Starts, Leaves
<1>2. ASSUME NEW t \in Threads, NEW u \in Users, NEW c \in Companies, NEW v \in Users, NEW r \in InvitedRoles, StartInvite(t, u, c, v, r) PROVE Leaves
  BY <1>2 DEF StartInvite, Starts, Leaves
<1>3. ASSUME NEW t \in Threads, NEW u \in Users, NEW c \in Companies, StartAccept(t, u, c) PROVE Leaves
  BY <1>3 DEF StartAccept, Starts, Leaves
<1>4. ASSUME NEW t \in Threads, NEW u \in Users, NEW c \in Companies, NEW v \in Users, StartSuspend(t, u, c, v) PROVE Leaves
  BY <1>4 DEF StartSuspend, Starts, Leaves
<1>5. ASSUME NEW t \in Threads, NEW u \in Users, NEW c \in Companies, AuthorizeCompanyPost(t, u, c) PROVE Leaves
  BY <1>5 DEF AuthorizeCompanyPost, Starts, Leaves
<1>6. ASSUME NEW t \in Threads, NEW u \in Users, NEW c \in Companies, StartAuto(t, u, c) PROVE Leaves
  BY <1>6 DEF StartAuto, Starts, Leaves
<1>7. ASSUME NEW t \in Threads, CommitPost(t) PROVE Leaves
  BY <1>7 DEF CommitPost, Leaves
<1>8. ASSUME NEW u \in Users, NEW c \in Companies, DomainVerified(u, c) PROVE Leaves
  BY <1>8 DEF DomainVerified, Leaves
<1>9. ASSUME UNCHANGED vars PROVE Leaves
  BY <1>9 DEF vars, Leaves
<1> QED
  BY <1>1, <1>2, <1>3, <1>4, <1>5, <1>6, <1>7, <1>8, <1>9 DEF Next

\* A membership changes in five ways: it is made for the founder of a company
\* that was not there, or where there was none, by an invitation or by the
\* domain of an address; it is accepted; it is suspended.
Changes(p) ==
    \/ member'[p] = member[p] /\ audited' \subseteq audited \cup (Users \X Companies \ {p})
    \/ p[2] \notin company /\ audited' = audited
    \/ member[p].status = "none" /\ audited' = audited
    \/ member[p].status = "none" /\ member'[p] = [status |-> "invited", role |-> "member", by |-> NULL]
    \/ /\ member'[p].role = member[p].role /\ member'[p].status = "active" /\ audited' = audited
       /\ \E t \in Threads : /\ session[t].req = "accept" /\ session[t].on = p[1]
                            /\ session[t].company = p[2] /\ session'[t] = Idle
    \/ /\ member'[p].role = member[p].role /\ member'[p].status = "suspended"
       /\ audited' = audited

LEMMA MembershipStep ==
    ASSUME TypeInv, [Next]_vars, NEW v \in Users, NEW d \in Companies
    PROVE  Changes(<<v, d>>)
<1> DEFINE p == <<v, d>>
<1>a. p \in Users \X Companies /\ p[1] = v /\ p[2] = d
  OBVIOUS
<1>b. member[p] \in Membership /\ audited \subseteq Users \X Companies
  BY DEF TypeInv, TypeOK
<1> HIDE DEF p
<1>1. ASSUME NEW t \in Threads, CommitCreate(t) PROVE Changes(p)
  <2>1. PICK u \in Users, c \in Companies : u = session[t].user /\ c = session[t].company
    BY <1>1 DEF CommitCreate, TypeInv, Held
  <2>2. CASE UNCHANGED <<company, member, held>>
    BY <2>2, <1>1, <1>a, <1>b DEF CommitCreate, Changes
  <2>3. CASE member' = [member EXCEPT ![<<u, c>>] =
                           [status |-> "active", role |-> "org_owner", by |-> NULL]]
    <3>1. c \notin company /\ audited' = audited
      BY <1>1, <2>1 DEF CommitCreate, TypeInv, Held
    <3>2. CASE p = <<u, c>>
      BY <3>1, <3>2, <1>a DEF Changes
    <3>3. CASE p # <<u, c>>
      BY <2>3, <3>1, <3>3, <1>a, <1>b DEF Changes, TypeInv, TypeOK
    <3> QED
      BY <3>2, <3>3
  <2> QED
    BY <1>1, <2>1, <2>2, <2>3 DEF CommitCreate
<1>2. ASSUME NEW t \in Threads, CommitInvite(t) PROVE Changes(p)
  <2>1. PICK u \in Users, c \in Companies : u = session[t].on /\ c = session[t].company
    BY <1>2 DEF CommitInvite, TypeInv, Held
  <2>2. /\ member[<<u, c>>].status # "none" => member' = member
        /\ \A o \in Users \X Companies : o # <<u, c>> => member'[o] = member[o]
        /\ audited' = audited
    BY <1>2, <2>1 DEF CommitInvite, TypeInv, TypeOK
  <2> QED
    BY <2>2, <1>a, <1>b DEF Changes
<1>3. ASSUME NEW t \in Threads, CommitAccept(t) PROVE Changes(p)
  <2>1. PICK u \in Users, c \in Companies : u = session[t].on /\ c = session[t].company
    BY <1>3 DEF CommitAccept, TypeInv, Held
  <2> DEFINE m == [member[<<u, c>>] EXCEPT !.status = "active"]
  <2>2. m.status = "active" /\ m.role = member[<<u, c>>].role /\ m \in Membership
    BY DEF TypeInv, TypeOK, Membership
  <2>3. member' = [member EXCEPT ![<<u, c>>] = m] /\ audited' = audited
    BY <1>3, <2>1 DEF CommitAccept
  <2> HIDE DEF m
  <2>4. session[t].req = "accept" /\ session'[t] = Idle
    BY <1>3 DEF CommitAccept, Answers, TypeInv, TypeOK
  <2>5. member'[<<u, c>>] = m /\ \A o \in Users \X Companies : o # <<u, c>> => member'[o] = member[o]
    BY <2>2, <2>3, OneMembership DEF TypeInv
  <2>6. CASE p = <<u, c>>
    <3>1. u = p[1] /\ c = p[2]
      BY <2>6
    <3> QED
      BY <2>1, <2>2, <2>3, <2>4, <2>5, <2>6, <3>1 DEF Changes
  <2>7. CASE p # <<u, c>>
    BY <2>3, <2>5, <2>7, <1>a, <1>b DEF Changes
  <2> QED
    BY <2>6, <2>7
<1>4. ASSUME NEW t \in Threads, CommitSuspend(t) PROVE Changes(p)
  <2>1. PICK u \in Users, c \in Companies : u = session[t].on /\ c = session[t].company
    BY <1>4 DEF CommitSuspend, TypeInv, Held
  <2> DEFINE m == [member[<<u, c>>] EXCEPT !.status = "suspended"]
  <2>2. m.status = "suspended" /\ m.role = member[<<u, c>>].role /\ m \in Membership
    BY DEF TypeInv, TypeOK, Membership
  <2>3. (member' = member \/ member' = [member EXCEPT ![<<u, c>>] = m]) /\ audited' = audited
    BY <1>4, <2>1 DEF CommitSuspend
  <2> HIDE DEF m
  <2>4. CASE member' = member
    BY <2>3, <2>4, <1>a, <1>b DEF Changes
  <2>5. CASE member' = [member EXCEPT ![<<u, c>>] = m]
    <3>1. member'[<<u, c>>] = m /\ \A o \in Users \X Companies : o # <<u, c>> => member'[o] = member[o]
      BY <2>2, <2>5, OneMembership DEF TypeInv
    <3>2. CASE p = <<u, c>>
      BY <2>2, <2>3, <3>1, <3>2 DEF Changes
    <3>3. CASE p # <<u, c>>
      BY <2>3, <3>1, <3>3, <1>a, <1>b DEF Changes
    <3> QED
      BY <3>2, <3>3
  <2> QED
    BY <2>3, <2>4, <2>5
<1>5. ASSUME NEW t \in Threads, CommitAuto(t) PROVE Changes(p)
  <2>1. PICK u \in Users, c \in Companies : u = session[t].on /\ c = session[t].company
    BY <1>5 DEF CommitAuto, TypeInv, Held
  <2> DEFINE m == [status |-> "invited", role |-> "member", by |-> NULL]
  <2>2. m \in Membership
    BY DEF Membership, Roles
  <2> HIDE DEF m
  <2>3. \/ member' = member /\ audited' = audited
        \/ /\ member[<<u, c>>].status = "none"
           /\ member' = [member EXCEPT ![<<u, c>>] = m] /\ audited' = audited \cup {<<u, c>>}
    BY <1>5, <2>1 DEF CommitAuto, AutoRole, AutoStatusForExisting, m
  <2>4. CASE member' = member /\ audited' = audited
    BY <2>4, <1>a, <1>b DEF Changes
  <2>5. CASE /\ member[<<u, c>>].status = "none"
             /\ member' = [member EXCEPT ![<<u, c>>] = m] /\ audited' = audited \cup {<<u, c>>}
    <3>1. member'[<<u, c>>] = m /\ \A o \in Users \X Companies : o # <<u, c>> => member'[o] = member[o]
      BY <2>2, <2>5, OneMembership DEF TypeInv
    <3>2. CASE p = <<u, c>>
      BY <2>5, <3>1, <3>2 DEF Changes, m
    <3>3. CASE p # <<u, c>>
      BY <2>5, <3>1, <3>3, <1>a, <1>b DEF Changes
    <3> QED
      BY <3>2, <3>3
  <2> QED
    BY <2>3, <2>4, <2>5
<1>6. ASSUME Leaves PROVE Changes(p)
  BY <1>6, <1>a, <1>b DEF Leaves, Changes
<1> QED
  BY <1>1, <1>2, <1>3, <1>4, <1>5, <1>6, MostLeave DEF p

\* An automatic membership is made with the role "member", and no step that may
\* follow gives it another.
LEMMA AutomaticStep ==
    ASSUME TypeInv, Automatic, [Next]_vars, TypeInv' PROVE Automatic'
<1>1. ASSUME NEW v \in Users, NEW d \in Companies, <<v, d>> \in audited'
      PROVE  member'[<<v, d>>].status # "none" /\ member'[<<v, d>>].role = "member"
  <2> DEFINE p == <<v, d>>
  <2>1. p[2] = d /\ p \in audited'
    BY <1>1
  <2>2. Changes(p)
    BY MembershipStep
  <2>3. p \in audited => member[p].status # "none" /\ member[p].role = "member" /\ d \in company
    BY DEF Automatic, TypeInv, Memberships
  <2> HIDE DEF p
  <2>4. member'[p].status # "none" /\ member'[p].role = "member"
    BY <2>1, <2>2, <2>3 DEF Changes
  <2> QED
    BY <2>4 DEF p
<1>2. audited' \subseteq Users \X Companies
  BY DEF TypeInv, TypeOK
<1> QED
  BY <1>1, <1>2 DEF Automatic

\* A suspended membership becomes another one by an acceptance only: its company
\* is there, and its status is not "none".
LEMMA SuspendedStep ==
    ASSUME TypeInv, [Next]_vars, NEW p \in Users \X Companies,
           member[p].status = "suspended", member'[p].status # "suspended"
    PROVE  \E t \in Threads : /\ session[t].req = "accept" /\ session[t].on = p[1]
                             /\ session[t].company = p[2] /\ session'[t] = Idle
<1>1. PICK v \in Users, d \in Companies : p = <<v, d>>
  OBVIOUS
<1>2. Changes(p)
  BY <1>1, MembershipStep
<1>3. p[2] \in company
  BY <1>1 DEF TypeInv, Memberships
<1> QED
  BY <1>2, <1>3 DEF Changes

-----------------------------------------------------------------------------
(* The theorems.                                                            *)

LEMMA InitHolds ==
    ASSUME Init PROVE TypeInv /\ PowerInv /\ Automatic
<1>1. \A t \in Threads : session[t] = Idle
  BY DEF Init
<1>2. \A p \in Users \X Companies : member[p] = None
  BY DEF Init
<1>3. Idle \in Session /\ Idle.req = "idle" /\ None \in Membership /\ None.by = NULL /\ None.status = "none"
  BY DEF Idle, Session, None, Membership, Roles
<1>4. TypeOK
  BY <1>3 DEF Init, TypeOK
<1>5. Held
  BY <1>1, <1>3 DEF Held
<1>6. Memberships
  BY <1>2, <1>3 DEF Memberships
<1>7. PowerInv
  BY <1>1, <1>2, <1>3 DEF PowerInv, Checked, PowerIsDelegated, Init
<1> QED
  BY <1>4, <1>5, <1>6, <1>7 DEF TypeInv, Automatic, Init

LEMMA TypeInvariant == Spec => []TypeInv
<1>1. Init => TypeInv
  BY InitHolds
<1>2. TypeInv /\ [Next]_vars => TypeInv'
  BY TypeStep
<1> QED
  BY <1>1, <1>2, PTL DEF Spec

\* The rows of companies and memberships, and what the handlers hold between
\* the check and the commit, are always of the right kind.
THEOREM TypeCorrect == Spec => []TypeOK
<1>1. TypeInv => TypeOK
  BY DEF TypeInv
<1> QED
  BY <1>1, TypeInvariant, PTL

\* Every power in a company comes down from its founder or from the platform,
\* though a permission is checked in one transaction and used in another.
THEOREM PowerIsDelegatedHolds == Spec => []PowerIsDelegated
<1>1. Init => TypeInv /\ PowerInv
  BY InitHolds
<1>2. TypeInv /\ PowerInv /\ [Next]_vars => TypeInv' /\ PowerInv'
  BY TypeStep, PowerStep
<1>3. PowerInv => PowerIsDelegated
  BY DEF PowerInv
<1> QED
  BY <1>1, <1>2, <1>3, PTL DEF Spec

\* An automatic membership grants no permission, whoever touches it later.
THEOREM DomainGrantsNothingHolds == Spec => []DomainGrantsNothing
<1>1. Init => TypeInv /\ Automatic
  BY InitHolds
<1>2. TypeInv /\ Automatic /\ [Next]_vars => TypeInv' /\ Automatic'
  BY TypeStep, AutomaticStep
<1>3. TypeInv /\ Automatic => DomainGrantsNothing
  <2> SUFFICES ASSUME TypeInv, Automatic, NEW p \in audited
               PROVE  TenantPermissions(p[1], p[2]) = {}
    BY DEF DomainGrantsNothing
  <2>1. PICK v \in Users, d \in Companies : p = <<v, d>>
    BY DEF TypeInv, TypeOK
  <2>2. member[<<v, d>>].role = "member" /\ p[1] = v /\ p[2] = d
    BY <2>1 DEF Automatic
  <2>3. RolePermissions["member"] = {}
    BY DEF RolePermissions, Roles
  <2>4. TenantPermissions(v, d) = {}
    BY <2>2, <2>3 DEF TenantPermissions
  <2> QED
    BY <2>2, <2>4 DEF TenantPermissions
<1> QED
  BY <1>1, <1>2, <1>3, PTL DEF Spec

\* A suspension is undone by the member's own acceptance that was under way, and
\* by nothing else: no invitation, no domain policy, no other manager.
THEOREM SuspendedStaysHolds == Spec => SuspendedStays
<1> DEFINE Step == \A p \in Users \X Companies :
                     (member[p].status = "suspended" /\ member'[p].status # "suspended") => Accepts(p)
<1>1. TypeInv /\ [Next]_vars => [Step]_vars
  BY SuspendedStep DEF Accepts
<1> QED
  BY <1>1, TypeInvariant, PTL DEF Spec, SuspendedStays

=============================================================================
