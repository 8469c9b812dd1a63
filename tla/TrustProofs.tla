------------------------------ MODULE TrustProofs ------------------------------
(***************************************************************************)
(* Proofs about CompanyTrust, for any companies, markets, domains,         *)
(* listings, profiles and threads.                                         *)
(***************************************************************************)
EXTENDS CompanyTrust, FiniteSetTheorems, TLAPS

USE TrustAssumption

Creating == {"probe", "insert"}

BadgesFor(domains) == IF domains # {} THEN {"domain verified"} ELSE {}

\* Nothing is ever "verified", so that a company has the badge of its domains.
Rows ==
    /\ \A e \in Targets : state[e] \in {"unverified", "flagged"}
    /\ \A c \in Companies : company[c].badges = BadgesFor(company[c].domains)
    /\ \A p \in answered : Created(p[1])

\* What a handler holds of a company that it will create: every slug below the
\* candidate is taken, and stays so.
HoldsCreation(s) ==
    s.req \in Creating =>
        /\ s.on \in Companies /\ ~Created(s.on)
        /\ s.seen.market \in Markets /\ s.seen.slug # 0
        /\ s.seen.domains = {} /\ s.seen.badges = {}
        /\ \A n \in 1 .. s.seen.slug - 1 : SlugExists(s.seen.market, n)

\* A company that had a domain when it was loaded has one for good.
HoldsDomain(s) ==
    s.req = "domain" =>
        /\ s.on \in Companies /\ Created(s.on) /\ s.domain \in Domains
        /\ s.seen.domains # {} => company[s.on].domains # {}
        /\ s.seen.badges = BadgesFor(s.seen.domains)
        /\ s.attempts < MaxAttempts

\* What a moderator has loaded has been true.
HoldsDecision(s) ==
    /\ s.req = "transition" =>
          /\ s.on \in Targets /\ s.before \in past[s.on]
          /\ s.before \in {"unverified", "flagged"} /\ s.to \in {"verified", "flagged"}
    /\ s.req = "withdraw" =>
          s.on \in Jobs /\ s.before \in past[s.on] /\ s.to \in {"flagged", "inactive"}

Held == \A t \in Threads :
    HoldsCreation(session[t]) /\ HoldsDomain(session[t]) /\ HoldsDecision(session[t])

\* No company is created by two requests.
OneCreator == \A t, o \in Threads :
    (session[t].req \in Creating /\ session[o].req \in Creating /\ session[t].on = session[o].on) => t = o

Past ==
    /\ \A e \in Targets : state[e] \in past[e]
    /\ \A j \in Jobs : published[j] # "absent" => published[j] \in past[j]

Inv ==
    /\ TypeOK /\ Rows /\ Held /\ OneCreator /\ Past
    /\ SlugsNumberTheCompanies /\ DomainLostOnlyByOverlap /\ AuditRecordsPast

-----------------------------------------------------------------------------
(* Slugs.                                                                   *)

LEMMA IdleIsSession ==
    Idle \in Session /\ Idle.req = "idle" /\ NotCreated \in Company
<1>1. MaxSlug \in Nat
  BY FS_CardinalityType DEF MaxSlug
<1> QED
  BY <1>1 DEF Idle, NotCreated, Session, Company, JobStatus, VerificationState, MaxAttempts

\* A slug is taken when it is one of the first ones, as many as there are companies.
LEMMA SlugIsTaken ==
    ASSUME SlugsNumberTheCompanies, NEW m \in Markets, NEW n
    PROVE  /\ SlugExists(m, n) <=> n \in 1 .. Cardinality(CompaniesOf(m))
           /\ Cardinality(CompaniesOf(m)) \in Nat
           /\ Cardinality(CompaniesOf(m)) < MaxSlug /\ MaxSlug \in Nat
<1>1. CompaniesOf(m) \in SUBSET Companies
  BY DEF CompaniesOf
<1>2. /\ Cardinality(CompaniesOf(m)) <= Cardinality(Companies)
      /\ Cardinality(CompaniesOf(m)) \in Nat /\ Cardinality(Companies) \in Nat
  BY <1>1, FS_Subset, FS_CardinalityType
<1>3. SlugExists(m, n) <=> n \in {company[c].slug : c \in CompaniesOf(m)}
  BY DEF SlugExists, CompaniesOf
<1>4. {company[c].slug : c \in CompaniesOf(m)} = 1 .. Cardinality(CompaniesOf(m))
  BY DEF SlugsNumberTheCompanies
<1> QED
  BY <1>2, <1>3, <1>4 DEF MaxSlug

\* The first free slug is the next number, so an insert leaves no gap.
LEMMA SlugsGoOn ==
    ASSUME Inv, NEW c \in Companies, NEW row \in Company, ~Created(c), row.market \in Markets,
           row.slug # 0, \A n \in 1 .. row.slug - 1 : SlugExists(row.market, n),
           ~SlugExists(row.market, row.slug), company' = [company EXCEPT ![c] = row]
    PROVE  SlugsNumberTheCompanies'
<1> USE DEF Inv
<1>1. /\ company' \in [Companies -> Company] /\ company'[c] = row
      /\ \A d \in Companies \ {c} : company'[d] = company[d]
  BY DEF TypeOK
<1>2. row.slug \in Nat
  <2>1. MaxSlug \in Nat
    BY FS_CardinalityType DEF MaxSlug
  <2> QED
    BY <2>1 DEF Company
<1>3. SUFFICES ASSUME NEW m \in Markets
               PROVE  {company'[d].slug : d \in CompaniesOf(m)'} = 1 .. Cardinality(CompaniesOf(m)')
  BY DEF SlugsNumberTheCompanies
<1>4. CASE m # row.market
  <2>1. CompaniesOf(m)' = CompaniesOf(m) /\ c \notin CompaniesOf(m)
    BY <1>1, <1>4 DEF CompaniesOf, Created
  <2>2. {company'[d].slug : d \in CompaniesOf(m)} = {company[d].slug : d \in CompaniesOf(m)}
    BY <1>1, <2>1 DEF CompaniesOf
  <2> QED
    BY <2>1, <2>2 DEF SlugsNumberTheCompanies
<1>5. CASE m = row.market
  <2> DEFINE n == Cardinality(CompaniesOf(m))
  <2>1. n \in Nat /\ IsFiniteSet(CompaniesOf(m))
    BY SlugIsTaken, FS_Subset DEF CompaniesOf
  <2>2. row.slug = n + 1
    <3>1. row.slug \notin 1 .. n
      BY <1>5, SlugIsTaken
    <3>2. row.slug - 1 = 0 \/ row.slug - 1 \in 1 .. n
      <4>1. CASE row.slug - 1 \in 1 .. row.slug - 1
        BY <1>5, <4>1, SlugIsTaken
      <4>2. CASE row.slug = 1
        BY <4>2
      <4> QED
        BY <1>2, <4>1, <4>2
    <3> QED
      BY <1>2, <2>1, <3>1, <3>2
  <2>3. c \notin CompaniesOf(m) /\ CompaniesOf(m)' = CompaniesOf(m) \cup {c}
    BY <1>1, <1>5 DEF CompaniesOf, Created
  <2>4. Cardinality(CompaniesOf(m)') = n + 1
    BY <2>1, <2>3, FS_AddElement
  <2>5. {company[d].slug : d \in CompaniesOf(m)} = 1 .. n
    BY DEF SlugsNumberTheCompanies
  <2>6. {company'[d].slug : d \in CompaniesOf(m)'} = {company[d].slug : d \in CompaniesOf(m)} \cup {row.slug}
    BY <1>1, <2>3 DEF CompaniesOf
  <2>7. (1 .. n) \cup {n + 1} = 1 .. n + 1
    BY <2>1
  <2> HIDE DEF n
  <2> QED
    BY <2>2, <2>4, <2>5, <2>6, <2>7
<1> QED
  BY <1>4, <1>5

\* A step that leaves markets and slugs alone leaves the numbering alone.
LEMMA SlugsStay ==
    ASSUME Inv, \A c \in Companies : company'[c].market = company[c].market /\ company'[c].slug = company[c].slug
    PROVE  /\ SlugsNumberTheCompanies'
           /\ \A c \in Companies : Created(c)' <=> Created(c)
           /\ \A m, n : SlugExists(m, n)' <=> SlugExists(m, n)
<1>1. ASSUME NEW m \in Markets
      PROVE  {company'[d].slug : d \in CompaniesOf(m)'} = 1 .. Cardinality(CompaniesOf(m)')
  <2>1. CompaniesOf(m)' = CompaniesOf(m)
    BY DEF CompaniesOf, Created
  <2>2. {company'[d].slug : d \in CompaniesOf(m)} = {company[d].slug : d \in CompaniesOf(m)}
    BY DEF CompaniesOf
  <2> QED
    BY <2>1, <2>2 DEF Inv, SlugsNumberTheCompanies
<1>2. \A c \in Companies : Created(c)' <=> Created(c)
  BY DEF Created
<1>3. \A m, n : SlugExists(m, n)' <=> SlugExists(m, n)
  BY DEF Created, SlugExists
<1>4. SlugsNumberTheCompanies'
  BY <1>1 DEF SlugsNumberTheCompanies
<1> QED
  BY <1>2, <1>3, <1>4

-----------------------------------------------------------------------------
(* Steps that only change what a handler holds.                             *)

rows == <<company, state, published, audit, ghosts>>

LEMMA TakesUp ==
    ASSUME Inv, NEW t \in Threads, NEW s \in Session, session' = [session EXCEPT ![t] = s],
           UNCHANGED rows, HoldsCreation(s), HoldsDomain(s), HoldsDecision(s),
           s.req \in Creating => \A o \in Threads \ {t} : session[o].req \in Creating => session[o].on # s.on
    PROVE  Inv'
<1> USE DEF Inv, rows, ghosts
<1>1. /\ session' \in [Threads -> Session] /\ session'[t] = s
      /\ \A o \in Threads \ {t} : session'[o] = session[o]
  BY DEF TypeOK
<1>2. TypeOK'
  BY <1>1 DEF TypeOK
<1>3. Rows'
  BY DEF Rows, Created
<1>4. Held'
  <2>1. HoldsCreation(s)' /\ HoldsDomain(s)' /\ HoldsDecision(s)'
    BY DEF HoldsCreation, HoldsDomain, HoldsDecision, Created, SlugExists
  <2>2. ASSUME NEW o \in Threads \ {t}
        PROVE  HoldsCreation(session[o])' /\ HoldsDomain(session[o])' /\ HoldsDecision(session[o])'
    BY <1>1 DEF Held, HoldsCreation, HoldsDomain, HoldsDecision, Created, SlugExists
  <2>3. HoldsCreation(session[t])' /\ HoldsDomain(session[t])' /\ HoldsDecision(session[t])'
    BY <1>1, <2>1 DEF HoldsCreation, HoldsDomain, HoldsDecision
  <2> QED
    BY <2>2, <2>3 DEF Held
<1>5. OneCreator'
  BY <1>1 DEF OneCreator
<1>6. Past' /\ DomainLostOnlyByOverlap' /\ AuditRecordsPast'
  BY DEF Past, DomainLostOnlyByOverlap, AuditRecordsPast
<1>7. SlugsNumberTheCompanies'
  BY SlugsStay
<1> QED
  BY <1>2, <1>3, <1>4, <1>5, <1>6, <1>7

LEMMA LetsGo ==
    ASSUME Inv, NEW t \in Threads, Answers(t), UNCHANGED rows PROVE Inv'
<1>1. HoldsCreation(Idle) /\ HoldsDomain(Idle) /\ HoldsDecision(Idle) /\ Idle.req \notin Creating
  BY IdleIsSession DEF HoldsCreation, HoldsDomain, HoldsDecision, Creating
<1> QED
  BY <1>1, IdleIsSession, TakesUp DEF Answers

-----------------------------------------------------------------------------
(* The handlers.                                                            *)

LEMMA CreationSteps ==
    ASSUME Inv, NEW t \in Threads,
           \/ \E c \in Companies, m \in Markets : StartCreate(t, c, m)
           \/ GenerateUniqueSlug(t)
    PROVE  Inv'
<1> USE DEF Inv
<1>0. MaxSlug \in Nat
  BY FS_CardinalityType DEF MaxSlug
<1>1. ASSUME NEW c \in Companies, NEW m \in Markets, StartCreate(t, c, m) PROVE Inv'
  <2> DEFINE row == [NotCreated EXCEPT !.market = m, !.slug = 1]
             s == [Idle EXCEPT !.req = "probe", !.on = c, !.seen = row]
  <2>1. /\ row \in Company /\ row.market = m /\ row.slug = 1
        /\ row.domains = {} /\ row.badges = {}
    <3>1. 1 \in 0 .. MaxSlug
      BY <1>0, FS_CardinalityType DEF MaxSlug
    <3> QED
      BY <3>1, IdleIsSession DEF Company, NotCreated
  <2>2. session' = [session EXCEPT ![t] = s] /\ UNCHANGED rows
    BY <1>1 DEF StartCreate, rows
  <2> HIDE DEF row
  <2>3. s \in Session /\ s.req = "probe" /\ s.on = c /\ s.seen = row
    BY <2>1, IdleIsSession DEF Session, Idle, Targets
  <2> HIDE DEF s
  <2>4. ~Created(c) /\ \A o \in Threads : session[o].req \in {"probe", "insert"} => session[o].on # c
    BY <1>1 DEF StartCreate
  <2>5. HoldsCreation(s) /\ HoldsDomain(s) /\ HoldsDecision(s)
    BY <2>1, <2>3, <2>4 DEF HoldsCreation, HoldsDomain, HoldsDecision
  <2> QED
    BY <2>2, <2>3, <2>4, <2>5, TakesUp DEF Creating
<1>2. ASSUME GenerateUniqueSlug(t) PROVE Inv'
  <2> DEFINE s == session[t]
  <2>1. /\ s \in Session /\ s.req = "probe" /\ HoldsCreation(s) /\ s.seen \in Company
        /\ \A o \in Threads \ {t} : session[o].req \in Creating => session[o].on # s.on
    BY <1>2 DEF GenerateUniqueSlug, Held, TypeOK, Session, OneCreator, Creating
  <2>2. UNCHANGED rows
    BY <1>2 DEF GenerateUniqueSlug, rows
  <2>3. CASE SlugExists(s.seen.market, s.seen.slug)
    <3> DEFINE next == [s.seen EXCEPT !.slug = s.seen.slug + 1]
               new == [s EXCEPT !.seen = next]
    <3>1. s.seen.slug \in Nat /\ s.seen.slug < MaxSlug /\ s.seen.slug # 0
      <4>1. s.seen.market \in Markets /\ s.seen.slug # 0 /\ s.seen.slug \in Nat
        BY <1>0, <2>1 DEF HoldsCreation, Creating, Company
      <4> QED
        BY <2>3, <4>1, SlugIsTaken
    <3>2. /\ next \in Company /\ next.slug = s.seen.slug + 1 /\ next.market = s.seen.market
          /\ next.domains = s.seen.domains /\ next.badges = s.seen.badges
      BY <1>0, <2>1, <3>1 DEF Company
    <3>3. session' = [session EXCEPT ![t] = new]
      BY <1>2, <2>3 DEF GenerateUniqueSlug
    <3> HIDE DEF next
    <3>4. new \in Session /\ new.req = "probe" /\ new.on = s.on /\ new.seen = next
      BY <2>1, <3>2 DEF Session
    <3> HIDE DEF new
    <3>5. \A n \in 1 .. next.slug - 1 : SlugExists(next.market, n)
      <4>1. \A n \in 1 .. next.slug - 1 : n \in 1 .. s.seen.slug - 1 \/ n = s.seen.slug
        BY <3>1, <3>2
      <4>2. \A n \in 1 .. s.seen.slug - 1 : SlugExists(s.seen.market, n)
        BY <2>1 DEF HoldsCreation, Creating
      <4> QED
        BY <2>3, <3>2, <4>1, <4>2 DEF SlugExists
    <3>6. HoldsCreation(new) /\ HoldsDomain(new) /\ HoldsDecision(new)
      BY <2>1, <3>1, <3>2, <3>4, <3>5 DEF HoldsCreation, HoldsDomain, HoldsDecision, Creating, SlugExists, Created
    <3> QED
      BY <2>1, <2>2, <3>3, <3>4, <3>6, TakesUp
  <2>4. CASE ~SlugExists(s.seen.market, s.seen.slug)
    <3> DEFINE new == [s EXCEPT !.req = "insert"]
    <3>1. session' = [session EXCEPT ![t] = new]
      BY <1>2, <2>4 DEF GenerateUniqueSlug
    <3>2. new \in Session /\ new.req = "insert" /\ new.on = s.on /\ new.seen = s.seen
      BY <2>1 DEF Session
    <3> HIDE DEF new
    <3>3. HoldsCreation(new) /\ HoldsDomain(new) /\ HoldsDecision(new)
      BY <2>1, <3>2 DEF HoldsCreation, HoldsDomain, HoldsDecision, Creating, SlugExists, Created
    <3> QED
      BY <2>1, <2>2, <3>1, <3>2, <3>3, TakesUp
  <2> QED
    BY <2>3, <2>4
<1> QED
  BY <1>1, <1>2

LEMMA InsertStep ==
    ASSUME Inv, NEW t \in Threads, CreateCompany(t) PROVE Inv'
<1> USE DEF Inv
<1>1. PICK c \in Companies, m \in Markets, row \in Company :
         /\ c = session[t].on /\ m = row.market /\ row = session[t].seen /\ ~Created(c)
         /\ row.slug # 0 /\ row.domains = {} /\ row.badges = {}
         /\ \A n \in 1 .. row.slug - 1 : SlugExists(m, n)
  <2>1. session[t] \in Session /\ session[t].seen \in Company /\ HoldsCreation(session[t])
    BY DEF TypeOK, Session, Held
  <2> QED
    BY <2>1 DEF CreateCompany, HoldsCreation, Creating, SlugExists, Created
<1>2. Answers(t) /\ UNCHANGED <<state, published, audit, ghosts>>
  BY DEF CreateCompany
<1>3. CASE company' = company
  BY <1>2, <1>3, LetsGo DEF rows
<1>4. CASE ~SlugExists(m, row.slug) /\ company' = [company EXCEPT ![c] = row]
  <2>1. /\ company' \in [Companies -> Company] /\ company'[c] = row
        /\ \A d \in Companies \ {c} : company'[d] = company[d]
    BY <1>4 DEF TypeOK
  <2>2. /\ session' \in [Threads -> Session] /\ session'[t] = Idle
        /\ \A o \in Threads \ {t} : session'[o] = session[o]
    BY <1>2, IdleIsSession DEF TypeOK, Answers
  <2>3. TypeOK'
    BY <1>2, <2>1, <2>2 DEF TypeOK, ghosts
  <2>4. \A d \in Companies : Created(d)' <=> (Created(d) \/ d = c)
    BY <1>1, <2>1 DEF Created
  <2>5. Rows'
    <3>1. \A d \in Companies : company'[d].badges = BadgesFor(company'[d].domains)
      BY <1>1, <2>1 DEF Rows, BadgesFor
    <3>2. \A p \in answered : Created(p[1])'
      BY <2>4 DEF Rows, TypeOK
    <3> QED
      BY <1>2, <3>1, <3>2 DEF Rows, ghosts
  <2>6. \A k, n : SlugExists(k, n) => SlugExists(k, n)'
    BY <1>1, <2>1, <2>4 DEF SlugExists, Created
  <2>7. Held'
    <3>1. ASSUME NEW o \in Threads \ {t}
          PROVE  HoldsCreation(session[o])' /\ HoldsDomain(session[o])' /\ HoldsDecision(session[o])'
      <4>0. HoldsCreation(session[o]) /\ HoldsDomain(session[o]) /\ HoldsDecision(session[o])
        BY DEF Held
      <4>1. session[o].req \in Creating => session[o].on # c
        BY <1>1 DEF OneCreator, CreateCompany, Creating
      <4>2. HoldsCreation(session[o])'
        BY <2>2, <2>4, <2>6, <4>0, <4>1 DEF HoldsCreation
      <4>3. HoldsDomain(session[o])'
        BY <1>1, <2>1, <2>2, <2>4, <4>0 DEF HoldsDomain
      <4>4. HoldsDecision(session[o])'
        BY <1>2, <2>2, <4>0 DEF HoldsDecision, ghosts
      <4> QED
        BY <4>2, <4>3, <4>4
    <3>2. HoldsCreation(session[t])' /\ HoldsDomain(session[t])' /\ HoldsDecision(session[t])'
      BY <2>2, IdleIsSession DEF HoldsCreation, HoldsDomain, HoldsDecision, Creating
    <3> QED
      BY <3>1, <3>2 DEF Held
  <2>8. OneCreator'
    BY <2>2, IdleIsSession DEF OneCreator, Creating
  <2>9. SlugsNumberTheCompanies'
    <3>1. /\ row.market \in Markets /\ ~SlugExists(row.market, row.slug)
          /\ \A n \in 1 .. row.slug - 1 : SlugExists(row.market, n)
      BY <1>1, <1>4 DEF SlugExists, Created
    <3> QED
      BY <1>1, <1>4, <3>1, SlugsGoOn
  <2>10. DomainLostOnlyByOverlap'
    <3>1. \A p \in answered : p[1] # c
      BY <1>1 DEF Rows, Created
    <3> QED
      BY <1>2, <2>1, <3>1 DEF DomainLostOnlyByOverlap, TypeOK, ghosts
  <2>11. Past' /\ AuditRecordsPast'
    BY <1>2 DEF Past, AuditRecordsPast, ghosts
  <2> QED
    BY <2>3, <2>5, <2>7, <2>8, <2>9, <2>10, <2>11
<1>5. company' = company \/ (~SlugExists(m, row.slug) /\ company' = [company EXCEPT ![c] = row])
  BY <1>1 DEF CreateCompany, SlugExists, Created
<1> QED
  BY <1>3, <1>4, <1>5

\* A verification answers: a domain is added to the list as it was loaded, and
\* the badges are derived from that list.
LEMMA AttachStep ==
    ASSUME Inv, NEW t \in Threads, AttachVerifiedDomain(t) PROVE Inv'
<1> USE DEF Inv
<1>1. PICK c \in Companies, d \in Domains, seen \in Company :
         /\ c = session[t].on /\ d = session[t].domain /\ seen = session[t].seen /\ Created(c)
         /\ seen.domains # {} => company[c].domains # {}
         /\ seen.badges = BadgesFor(seen.domains)
  <2>1. session[t] \in Session /\ session[t].seen \in Company /\ HoldsDomain(session[t])
    BY DEF TypeOK, Session, Held
  <2> QED
    BY <2>1 DEF AttachVerifiedDomain, HoldsDomain, Created
<1>2. Answers(t) /\ UNCHANGED <<state, published, audit, past>>
  BY DEF AttachVerifiedDomain
<1> DEFINE domains == seen.domains \cup {d}
           row == [company[c] EXCEPT
                     !.domains = IF domains = seen.domains THEN company[c].domains ELSE domains,
                     !.badges = IF BadgesFor(domains) = seen.badges THEN company[c].badges
                                ELSE BadgesFor(domains)]
<1>3. company[c] \in Company /\ domains \in SUBSET Domains /\ domains # {} /\ d \in domains
  BY <1>1 DEF TypeOK, Company
<1>4. ReconcileBadges(WithDomain(seen, d), state[c]).domains = domains
      /\ ReconcileBadges(WithDomain(seen, d), state[c]).badges = BadgesFor(domains)
  <2>1. state[c] # "verified"
    BY DEF Rows, Targets
  <2>2. WithDomain(seen, d).domains = domains /\ WithDomain(seen, d) \in Company
    BY <1>1, <1>3 DEF WithDomain, Company
  <2>3. CompanyBadges(WithDomain(seen, d), state[c]) = BadgesFor(domains)
    BY <1>3, <2>1, <2>2 DEF CompanyBadges, BadgesFor
  <2> QED
    BY <2>2, <2>3 DEF ReconcileBadges, Company
<1>5. company' = [company EXCEPT ![c] = row]
  BY <1>1, <1>4 DEF AttachVerifiedDomain, TypeOK
<1>6. /\ row \in Company /\ row.market = company[c].market /\ row.slug = company[c].slug
      /\ row.domains = IF domains = seen.domains THEN company[c].domains ELSE domains
      /\ row.badges = IF BadgesFor(domains) = seen.badges THEN company[c].badges ELSE BadgesFor(domains)
  BY <1>3 DEF Company, BadgesFor, Badges
<1>7. row.domains # {} /\ row.badges = {"domain verified"}
  <2>1. row.domains # {}
    BY <1>1, <1>3, <1>6
  <2>2. BadgesFor(domains) = {"domain verified"}
    BY <1>3 DEF BadgesFor
  <2>3. seen.badges = {"domain verified"} => company[c].badges = {"domain verified"}
    BY <1>1 DEF Rows, BadgesFor
  <2> QED
    BY <1>6, <2>1, <2>2, <2>3
<1>8. /\ answered' = answered \cup {<<c, d>>}
      /\ raced' = IF company[c].domains # seen.domains THEN raced \cup {c} ELSE raced
  BY <1>1 DEF AttachVerifiedDomain
<1>9. (d \in row.domains /\ company[c].domains \subseteq row.domains) \/ c \in raced'
  BY SMTT(30), <1>1, <1>3, <1>6, <1>8
<1> HIDE DEF row, domains
<1>10. /\ company' \in [Companies -> Company] /\ company'[c] = row
       /\ \A b \in Companies \ {c} : company'[b] = company[b]
  BY <1>5, <1>6 DEF TypeOK
<1>11. /\ session' \in [Threads -> Session] /\ session'[t] = Idle
       /\ \A o \in Threads \ {t} : session'[o] = session[o]
  BY <1>2, IdleIsSession DEF TypeOK, Answers
<1>12. /\ SlugsNumberTheCompanies'
       /\ \A b \in Companies : Created(b)' <=> Created(b)
       /\ \A m, n : SlugExists(m, n)' <=> SlugExists(m, n)
  BY <1>6, <1>10, SlugsStay
<1>13. TypeOK'
  BY <1>2, <1>8, <1>10, <1>11 DEF TypeOK
<1>14. Rows'
  <2>1. \A b \in Companies : company'[b].badges = BadgesFor(company'[b].domains)
    BY <1>7, <1>10 DEF Rows, BadgesFor
  <2>2. \A p \in answered' : Created(p[1])'
    BY <1>1, <1>8, <1>12 DEF Rows, TypeOK
  <2> QED
    BY <1>2, <2>1, <2>2 DEF Rows
<1>15. Held'
  <2>1. ASSUME NEW o \in Threads \ {t}
        PROVE  HoldsCreation(session[o])' /\ HoldsDomain(session[o])' /\ HoldsDecision(session[o])'
    <3>0. HoldsCreation(session[o]) /\ HoldsDomain(session[o]) /\ HoldsDecision(session[o])
      BY DEF Held
    <3>1. HoldsCreation(session[o])'
      BY <1>11, <1>12, <3>0 DEF HoldsCreation
    <3>2. HoldsDomain(session[o])'
      BY ZenonT(60), <1>7, <1>10, <1>11, <1>12, <3>0 DEF HoldsDomain
    <3>3. HoldsDecision(session[o])'
      BY <1>2, <1>11, <3>0 DEF HoldsDecision
    <3> QED
      BY <3>1, <3>2, <3>3
  <2>2. HoldsCreation(session[t])' /\ HoldsDomain(session[t])' /\ HoldsDecision(session[t])'
    BY <1>11, IdleIsSession DEF HoldsCreation, HoldsDomain, HoldsDecision, Creating
  <2> QED
    BY <2>1, <2>2 DEF Held
<1>16. OneCreator'
  BY <1>11, IdleIsSession DEF OneCreator, Creating
<1>17. DomainLostOnlyByOverlap'
  <2>1. ASSUME NEW p \in answered' PROVE p[2] \in company'[p[1]].domains \/ p[1] \in raced'
    <3>1. CASE p = <<c, d>>
      BY <1>9, <1>10, <3>1
    <3>2. CASE p \in answered /\ p[1] = c
      BY <1>8, <1>9, <1>10, <3>2 DEF DomainLostOnlyByOverlap
    <3>3. CASE p \in answered /\ p[1] # c
      BY <1>8, <1>10, <3>3 DEF DomainLostOnlyByOverlap, TypeOK
    <3> QED
      BY <1>8, <3>1, <3>2, <3>3
  <2> QED
    BY <2>1 DEF DomainLostOnlyByOverlap
<1>18. Past' /\ AuditRecordsPast'
  BY <1>2 DEF Past, AuditRecordsPast
<1> QED
  BY <1>12, <1>13, <1>14, <1>15, <1>16, <1>17, <1>18

\* The steps that load a row, and those that refuse.
LEMMA LoadingSteps ==
    ASSUME Inv, NEW t \in Threads,
           \/ \E c \in Companies, d \in Domains : StartDomain(t, c, d)
           \/ NotProven(t) \/ AttachFails(t) \/ TransitionRefused(t)
           \/ \E e \in Targets, to \in {"verified", "flagged"} : VerifyEntity(t, e, to)
           \/ \E j \in Jobs, to \in {"flagged", "inactive"} : LoadForWithdrawal(t, j, to)
    PROVE  Inv'
<1> USE DEF Inv
<1>1. ASSUME NEW c \in Companies, NEW d \in Domains, StartDomain(t, c, d) PROVE Inv'
  <2> DEFINE s == [Idle EXCEPT !.req = "domain", !.on = c, !.domain = d, !.seen = company[c]]
  <2>1. company[c] \in Company /\ Created(c) /\ company[c].badges = BadgesFor(company[c].domains)
    BY <1>1 DEF StartDomain, TypeOK, Rows
  <2>2. /\ s \in Session /\ s.req = "domain" /\ s.on = c /\ s.domain = d /\ s.seen = company[c]
        /\ s.attempts < MaxAttempts
    <3>1. s.attempts = 0 /\ 0 < MaxAttempts
      BY DEF Idle, MaxAttempts
    <3>2. /\ s \in Session /\ s.req = "domain" /\ s.on = c /\ s.domain = d /\ s.seen = company[c]
      BY <2>1, IdleIsSession DEF Session, Idle, Targets
    <3> QED
      BY <3>1, <3>2
  <2>3. session' = [session EXCEPT ![t] = s] /\ UNCHANGED rows
    BY <1>1 DEF StartDomain, rows
  <2> HIDE DEF s
  <2>4. HoldsCreation(s) /\ HoldsDomain(s) /\ HoldsDecision(s)
    BY <2>1, <2>2 DEF HoldsCreation, HoldsDomain, HoldsDecision, Creating, BadgesFor
  <2> QED
    BY <2>2, <2>3, <2>4, TakesUp DEF Creating
<1>2. ASSUME NotProven(t) \/ TransitionRefused(t) PROVE Inv'
  BY <1>2, LetsGo DEF NotProven, TransitionRefused, rows
<1>3. ASSUME AttachFails(t) PROVE Inv'
  <2> DEFINE last == session[t].attempts + 1 = MaxAttempts
  <2>1. PICK c \in Companies : c = session[t].on
    BY <1>3 DEF AttachFails, Held, HoldsDomain
  <2> DEFINE s == [session[t] EXCEPT !.attempts = session[t].attempts + 1, !.seen = company[c]]
  <2>2. UNCHANGED rows
    BY <1>3 DEF AttachFails, rows
  <2>3. CASE session' = [session EXCEPT ![t] = Idle]
    BY <2>2, <2>3, LetsGo DEF Answers
  <2>4. CASE ~last /\ session' = [session EXCEPT ![t] = s]
    <3>1. session[t] \in Session /\ session[t].req = "domain" /\ HoldsDomain(session[t])
      BY <1>3 DEF AttachFails, TypeOK, Held
    <3>2. session[t].attempts + 1 \in 0 .. MaxAttempts /\ session[t].attempts + 1 < MaxAttempts
      BY <2>4, <3>1 DEF HoldsDomain, Session, MaxAttempts
    <3>3. company[c] \in Company /\ company[c].badges = BadgesFor(company[c].domains)
      BY DEF TypeOK, Rows
    <3>4. /\ s.req = "domain" /\ s.on = c /\ s.domain = session[t].domain /\ s.seen = company[c]
          /\ s.attempts = session[t].attempts + 1
      BY <2>1, <3>1 DEF Session
    <3>5. s \in Session
      BY <2>4, <3>1, <3>2, <3>3 DEF Session
    <3> HIDE DEF s
    <3>6. HoldsCreation(s) /\ HoldsDomain(s) /\ HoldsDecision(s)
      BY <2>1, <3>1, <3>2, <3>3, <3>4 DEF HoldsCreation, HoldsDomain, HoldsDecision, Creating, BadgesFor, Created
    <3> QED
      BY <2>2, <2>4, <3>4, <3>5, <3>6, TakesUp DEF Creating
  <2> QED
    BY <1>3, <2>1, <2>3, <2>4 DEF AttachFails
<1>4. ASSUME NEW e \in Targets, NEW to \in {"verified", "flagged"}, VerifyEntity(t, e, to) PROVE Inv'
  <2> DEFINE s == [Idle EXCEPT !.req = "transition", !.on = e, !.before = state[e], !.to = to]
  <2>1. state[e] \in {"unverified", "flagged"} /\ state[e] \in past[e]
    BY DEF Rows, Past
  <2>2. s \in Session /\ s.req = "transition" /\ s.on = e /\ s.before = state[e] /\ s.to = to
    BY <2>1, IdleIsSession DEF Session, Idle, VerificationState
  <2>3. session' = [session EXCEPT ![t] = s] /\ UNCHANGED rows
    BY <1>4 DEF VerifyEntity, rows
  <2> HIDE DEF s
  <2>4. HoldsCreation(s) /\ HoldsDomain(s) /\ HoldsDecision(s)
    BY <2>1, <2>2 DEF HoldsCreation, HoldsDomain, HoldsDecision, Creating
  <2> QED
    BY <2>2, <2>3, <2>4, TakesUp DEF Creating
<1>5. ASSUME NEW j \in Jobs, NEW to \in {"flagged", "inactive"}, LoadForWithdrawal(t, j, to) PROVE Inv'
  <2> DEFINE s == [Idle EXCEPT !.req = "withdraw", !.on = j, !.before = published[j], !.to = to]
  <2>1. published[j] \in JobStatus /\ published[j] \in past[j]
    <3>1. j \in Targets
      BY DEF Targets
    <3> QED
      BY <1>5 DEF LoadForWithdrawal, Past, TypeOK, Present
  <2>2. s \in Session /\ s.req = "withdraw" /\ s.on = j /\ s.before = published[j] /\ s.to = to
    BY <2>1, IdleIsSession DEF Session, Idle, JobStatus, Targets
  <2>3. session' = [session EXCEPT ![t] = s] /\ UNCHANGED rows
    BY <1>5 DEF LoadForWithdrawal, rows
  <2> HIDE DEF s
  <2>4. HoldsCreation(s) /\ HoldsDomain(s) /\ HoldsDecision(s)
    BY <2>1, <2>2 DEF HoldsCreation, HoldsDomain, HoldsDecision, Creating
  <2> QED
    BY <2>2, <2>3, <2>4, TakesUp DEF Creating
<1> QED
  BY <1>1, <1>2, <1>3, <1>4, <1>5

\* Publication changes at most, and what it changes to is recorded.
LEMMA PublicationStep ==
    ASSUME Inv, UNCHANGED <<company, state, answered, raced>>,
           session' = session \/ \E t \in Threads : Answers(t),
           published' \in [Jobs -> JobStatus \cup {"absent"}], audit' \in [Targets -> AuditLog],
           past' \in [Targets -> SUBSET (VerificationState \cup JobStatus)],
           \A e \in Targets : past[e] \subseteq past'[e], Past', AuditRecordsPast'
    PROVE  Inv'
<1> USE DEF Inv
<1>1. session' \in [Threads -> Session] /\ \A t \in Threads : session'[t] \in {session[t], Idle}
  BY IdleIsSession DEF TypeOK, Answers
<1>2. TypeOK' /\ Rows' /\ DomainLostOnlyByOverlap'
  BY <1>1 DEF TypeOK, Rows, DomainLostOnlyByOverlap, Created
<1>3. Held'
  <2>1. ASSUME NEW t \in Threads
        PROVE  HoldsCreation(session[t])' /\ HoldsDomain(session[t])' /\ HoldsDecision(session[t])'
    <3>1. HoldsCreation(session[t]) /\ HoldsDomain(session[t]) /\ HoldsDecision(session[t])
      BY DEF Held
    <3>2. CASE session'[t] = session[t]
      <4>1. HoldsCreation(session[t])'
        BY <3>1, <3>2 DEF HoldsCreation, SlugExists, Created
      <4>2. HoldsDomain(session[t])'
        BY <3>1, <3>2 DEF HoldsDomain, Created
      <4>3. HoldsDecision(session[t])'
        BY <3>1, <3>2 DEF HoldsDecision, Targets
      <4> QED
        BY <4>1, <4>2, <4>3
    <3>3. CASE session'[t] = Idle
      BY <3>3, IdleIsSession DEF HoldsCreation, HoldsDomain, HoldsDecision, Creating
    <3> QED
      BY <1>1, <3>2, <3>3
  <2> QED
    BY <2>1 DEF Held
<1>4. OneCreator'
  BY <1>1, IdleIsSession DEF OneCreator, Creating
<1>5. SlugsNumberTheCompanies'
  BY SlugsStay
<1> QED
  BY <1>2, <1>3, <1>4, <1>5

\* A withdrawal, and what the handlers of JobModeration do to the same listings.
LEMMA ListingSteps ==
    ASSUME Inv,
           \/ \E t \in Threads : SetPublicationStatus(t)
           \/ \E j \in Jobs, s \in Publication : StatusChanges(j, s)
           \/ \E j \in Jobs : JobDeleted(j)
    PROVE  Inv'
<1> USE DEF Inv
<1>0. /\ published \in [Jobs -> JobStatus \cup {"absent"}] /\ audit \in [Targets -> AuditLog]
      /\ past \in [Targets -> SUBSET (VerificationState \cup JobStatus)] /\ Jobs \subseteq Targets
  BY DEF TypeOK, Targets
<1>1. ASSUME NEW j \in Jobs, NEW s \in JobStatus,
             published' = [published EXCEPT ![j] = s], past' = [past EXCEPT ![j] = past[j] \cup {s}]
      PROVE  /\ published' \in [Jobs -> JobStatus \cup {"absent"}]
             /\ past' \in [Targets -> SUBSET (VerificationState \cup JobStatus)]
             /\ s \in past'[j] /\ \A e \in Targets : past[e] \subseteq past'[e]
  BY <1>0, <1>1
<1>2. ASSUME NEW j \in Jobs, NEW s \in JobStatus, UNCHANGED state,
             published' = [published EXCEPT ![j] = s], past' = [past EXCEPT ![j] = past[j] \cup {s}]
      PROVE  Past'
  BY <1>0, <1>1, <1>2 DEF Past
<1>3. ASSUME NEW t \in Threads, SetPublicationStatus(t) PROVE Inv'
  <2>1. PICK j \in Jobs, before \in VerificationState \cup JobStatus, to \in {"flagged", "inactive"} :
           j = session[t].on /\ before = session[t].before /\ to = session[t].to /\ before \in past[j]
    <3>1. session[t] \in Session /\ HoldsDecision(session[t])
      BY DEF TypeOK, Held
    <3> QED
      BY <1>3, <3>1 DEF SetPublicationStatus, HoldsDecision, Session
  <2>2. PICK action \in {"job.block", "job.unpublish"} : action = BlockOrUnpublish(session[t])
    BY DEF BlockOrUnpublish
  <2> DEFINE row == [action |-> action, before |-> before, after |-> to]
  <2>3. to \in JobStatus /\ row \in AuditLog /\ row.before = before /\ row.after = to
    BY DEF AuditLog, JobStatus
  <2>4. Answers(t) /\ UNCHANGED <<company, state, answered, raced>>
    BY <1>3 DEF SetPublicationStatus
  <2>5. \/ to = before /\ audit' = [audit EXCEPT ![j] = row] /\ UNCHANGED <<published, past>>
        \/ /\ published' = [published EXCEPT ![j] = to] /\ past' = [past EXCEPT ![j] = past[j] \cup {to}]
           /\ audit' = [audit EXCEPT ![j] = row]
        \/ UNCHANGED <<published, past, audit>>
    BY <1>3, <2>1, <2>2 DEF SetPublicationStatus, WriteAudit, BlockOrUnpublish
  <2> HIDE DEF row
  <2>6. /\ published' \in [Jobs -> JobStatus \cup {"absent"}]
        /\ past' \in [Targets -> SUBSET (VerificationState \cup JobStatus)]
        /\ \A e \in Targets : past[e] \subseteq past'[e]
    BY <1>0, <1>1, <2>3, <2>5
  <2>7. audit' \in [Targets -> AuditLog]
    BY <1>0, <2>3, <2>5
  <2>8. Past'
    BY <1>2, <2>3, <2>4, <2>5 DEF Past
  <2>9. AuditRecordsPast'
    <3>1. CASE audit' = audit
      BY <2>6, <3>1 DEF AuditRecordsPast
    <3>2. CASE audit' # audit
      <4>1. audit' = [audit EXCEPT ![j] = row] /\ to \in past'[j]
        BY <1>0, <1>1, <2>1, <2>3, <2>5, <3>2
      <4>2. audit'[j] = row /\ \A e \in Targets \ {j} : audit'[e] = audit[e]
        BY <1>0, <2>3, <4>1
      <4>3. before \in past'[j]
        BY <1>0, <2>1, <2>6
      <4> QED
        BY <2>3, <2>6, <4>1, <4>2, <4>3 DEF AuditRecordsPast
    <3> QED
      BY <3>1, <3>2
  <2> QED
    BY <2>4, <2>6, <2>7, <2>8, <2>9, PublicationStep
<1>4. ASSUME NEW j \in Jobs, NEW s \in Publication, StatusChanges(j, s) PROVE Inv'
  <2>1. /\ published' = [published EXCEPT ![j] = s] /\ past' = [past EXCEPT ![j] = past[j] \cup {s}]
        /\ UNCHANGED <<company, state, audit, session, answered, raced>> /\ s \in JobStatus
    BY <1>4 DEF StatusChanges
  <2>2. /\ published' \in [Jobs -> JobStatus \cup {"absent"}]
        /\ past' \in [Targets -> SUBSET (VerificationState \cup JobStatus)]
        /\ \A e \in Targets : past[e] \subseteq past'[e]
    BY <1>1, <2>1
  <2>3. Past'
    BY <1>2, <2>1
  <2>4. AuditRecordsPast'
    BY <2>1, <2>2 DEF AuditRecordsPast
  <2> QED
    BY <1>0, <2>1, <2>2, <2>3, <2>4, PublicationStep
<1>5. ASSUME NEW j \in Jobs, JobDeleted(j) PROVE Inv'
  <2>1. published' = [published EXCEPT ![j] = "absent"] /\ UNCHANGED <<company, state, audit, session, ghosts>>
    BY <1>5 DEF JobDeleted
  <2>2. Past' /\ AuditRecordsPast'
    BY <1>0, <2>1 DEF Past, AuditRecordsPast, ghosts
  <2>3. published' \in [Jobs -> JobStatus \cup {"absent"}]
    BY <1>0, <2>1
  <2> QED
    BY <1>0, <2>1, <2>2, <2>3, PublicationStep DEF ghosts
<1> QED
  BY <1>3, <1>4, <1>5

\* A transition is validated against what was loaded, and only "flagged" follows
\* from what can be loaded.
LEMMA TransitionStep ==
    ASSUME Inv, NEW t \in Threads, Transition(t) PROVE Inv'
<1> USE DEF Inv
<1>1. PICK e \in Targets, before \in {"unverified", "flagged"} :
         /\ e = session[t].on /\ before = session[t].before /\ before \in past[e]
         /\ session[t].to = "flagged"
  <2>1. HoldsDecision(session[t])
    BY DEF Held
  <2> QED
    BY <2>1 DEF Transition, HoldsDecision, IsAllowed, AllowedTransitions
<1> DEFINE row == [action |-> "verification.transition", before |-> before, after |-> "flagged"]
<1>2. /\ state' = [state EXCEPT ![e] = "flagged"] /\ past' = [past EXCEPT ![e] = past[e] \cup {"flagged"}]
      /\ audit' = [audit EXCEPT ![e] = row]
      /\ Answers(t) /\ UNCHANGED <<published, answered, raced>>
  BY <1>1 DEF Transition, WriteAudit
<1>3. row \in AuditLog /\ row.before = before /\ row.after = "flagged"
  BY DEF AuditLog, VerificationState
<1> HIDE DEF row
<1>4. /\ state' \in [Targets -> VerificationState] /\ audit' \in [Targets -> AuditLog]
      /\ past' \in [Targets -> SUBSET (VerificationState \cup JobStatus)]
      /\ \A o \in Targets : past[o] \subseteq past'[o]
      /\ \A o \in Targets : state'[o] \in {"unverified", "flagged"} /\ state'[o] \in past'[o]
  BY <1>2, <1>3 DEF TypeOK, Rows, Past, VerificationState
<1>5. ASSUME NEW c \in Companies PROVE ReconcileBadges(company[c], "flagged") = company[c]
  <2>1. company[c] \in Company /\ company[c].badges = BadgesFor(company[c].domains)
    BY DEF TypeOK, Rows
  <2>2. CompanyBadges(company[c], "flagged") = company[c].badges
    BY <2>1 DEF CompanyBadges, BadgesFor
  <2> QED
    BY <2>1, <2>2 DEF ReconcileBadges, Company
<1>6. company' = company
  <2>1. CASE e \in Companies
    <3>1. company' = [company EXCEPT ![e] = company[e]]
      BY <1>1, <1>5, <2>1 DEF Transition
    <3> QED
      BY <3>1 DEF TypeOK
  <2>2. CASE e \notin Companies
    BY <1>1, <2>2 DEF Transition
  <2> QED
    BY <2>1, <2>2
<1>7. session' \in [Threads -> Session] /\ \A o \in Threads : session'[o] \in {session[o], Idle}
  BY <1>2, IdleIsSession DEF TypeOK, Answers
<1>8. TypeOK'
  BY <1>2, <1>4, <1>6, <1>7 DEF TypeOK
<1>9. Rows' /\ DomainLostOnlyByOverlap'
  BY <1>2, <1>4, <1>6 DEF Rows, DomainLostOnlyByOverlap, Created
<1>10. Held'
  <2>1. ASSUME NEW o \in Threads
        PROVE  HoldsCreation(session[o])' /\ HoldsDomain(session[o])' /\ HoldsDecision(session[o])'
    <3>1. HoldsCreation(session[o]) /\ HoldsDomain(session[o]) /\ HoldsDecision(session[o])
      BY DEF Held
    <3>2. CASE session'[o] = session[o]
      <4>1. HoldsCreation(session[o])'
        BY <1>6, <3>1, <3>2 DEF HoldsCreation, SlugExists, Created
      <4>2. HoldsDomain(session[o])'
        BY <1>6, <3>1, <3>2 DEF HoldsDomain, Created
      <4>3. HoldsDecision(session[o])'
        BY <1>4, <3>1, <3>2 DEF HoldsDecision, Targets
      <4> QED
        BY <4>1, <4>2, <4>3
    <3>3. CASE session'[o] = Idle
      BY <3>3, IdleIsSession DEF HoldsCreation, HoldsDomain, HoldsDecision, Creating
    <3> QED
      BY <1>7, <3>2, <3>3
  <2> QED
    BY <2>1 DEF Held
<1>11. OneCreator'
  BY <1>7, IdleIsSession DEF OneCreator, Creating
<1>12. SlugsNumberTheCompanies'
  BY <1>6, SlugsStay
<1>13. Past'
  <2>1. Jobs \subseteq Targets
    BY DEF Targets
  <2> QED
    BY <1>2, <1>4, <2>1 DEF Past
<1>14. AuditRecordsPast'
  <2>1. audit'[e] = row /\ "flagged" \in past'[e] /\ \A o \in Targets \ {e} : audit'[o] = audit[o]
    BY <1>2, <1>3 DEF TypeOK
  <2>2. before \in past'[e]
    BY <1>1, <1>4
  <2> QED
    BY <1>3, <1>4, <2>1, <2>2 DEF AuditRecordsPast
<1> QED
  BY <1>8, <1>9, <1>10, <1>11, <1>12, <1>13, <1>14

LEMMA InvStep ==
    ASSUME Inv, [Next]_vars PROVE Inv'
<1>1. ASSUME NEW t \in Threads, Handlers(t) PROVE Inv'
  <2>1. CASE \/ \E c \in Companies, m \in Markets : StartCreate(t, c, m)
             \/ GenerateUniqueSlug(t)
    BY <2>1, CreationSteps
  <2>2. CASE \/ \E c \in Companies, d \in Domains : StartDomain(t, c, d)
             \/ NotProven(t) \/ AttachFails(t) \/ TransitionRefused(t)
             \/ \E e \in Targets, to \in {"verified", "flagged"} : VerifyEntity(t, e, to)
             \/ \E j \in Jobs, to \in {"flagged", "inactive"} : LoadForWithdrawal(t, j, to)
    BY <2>2, LoadingSteps
  <2>3. CASE CreateCompany(t)
    BY <2>3, InsertStep
  <2>4. CASE AttachVerifiedDomain(t)
    BY <2>4, AttachStep
  <2>5. CASE Transition(t)
    BY <2>5, TransitionStep
  <2>6. CASE SetPublicationStatus(t)
    BY <2>6, ListingSteps
  <2> QED
    BY <1>1, <2>1, <2>2, <2>3, <2>4, <2>5, <2>6 DEF Handlers
<1>2. ASSUME UNCHANGED vars PROVE Inv'
  <2>1. UNCHANGED <<company, state, published, audit, session, answered, raced, past>>
    BY <1>2 DEF vars, ghosts
  <2>2. \A e \in Targets : past[e] \subseteq past'[e]
    BY <2>1
  <2>3. Past' /\ AuditRecordsPast'
    BY <2>1 DEF Inv, Past, AuditRecordsPast
  <2>4. /\ published' \in [Jobs -> JobStatus \cup {"absent"}] /\ audit' \in [Targets -> AuditLog]
        /\ past' \in [Targets -> SUBSET (VerificationState \cup JobStatus)]
    BY <2>1 DEF Inv, TypeOK
  <2> QED
    BY <2>1, <2>2, <2>3, <2>4, PublicationStep
<1> QED
  BY <1>1, <1>2, ListingSteps DEF Next

LEMMA InitInv ==
    ASSUME Init PROVE Inv
<1>1. TypeOK
  <2>1. NoAudit \in AuditLog /\ NotCreated \in Company /\ Idle \in Session
    BY IdleIsSession DEF NoAudit, AuditLog, VerificationState
  <2> QED
    BY <2>1 DEF Init, TypeOK, VerificationState, JobStatus
<1>2. /\ \A c \in Companies : company[c] = NotCreated
      /\ \A t \in Threads : session[t] = Idle
      /\ NotCreated.slug = 0 /\ NotCreated.domains = {} /\ NotCreated.badges = {}
  BY DEF Init, NotCreated
<1>3. Rows /\ Held /\ OneCreator /\ DomainLostOnlyByOverlap
  BY <1>2, IdleIsSession DEF Init, Rows, BadgesFor, Held, HoldsCreation, HoldsDomain, HoldsDecision,
     OneCreator, Creating, DomainLostOnlyByOverlap
<1>4. Past /\ AuditRecordsPast
  BY DEF Init, Past, AuditRecordsPast, NoAudit, Targets
<1>5. SlugsNumberTheCompanies
  <2>1. ASSUME NEW m \in Markets
        PROVE  {company[c].slug : c \in CompaniesOf(m)} = 1 .. Cardinality(CompaniesOf(m))
    <3>1. CompaniesOf(m) = {}
      BY <1>2 DEF CompaniesOf, Created
    <3>2. Cardinality({}) = 0
      BY FS_EmptySet
    <3> QED
      BY <3>1, <3>2
  <2> QED
    BY <2>1 DEF SlugsNumberTheCompanies
<1> QED
  BY <1>1, <1>3, <1>4, <1>5 DEF Inv

LEMMA Invariant == Spec => []Inv
BY InitInv, InvStep, PTL DEF Spec

-----------------------------------------------------------------------------
(* The theorems.                                                            *)

\* Rows, audit rows and what the handlers hold are of the right kind; no request
\* probes a slug further than one past the number of companies, and none retries
\* a verification more often than it may.
THEOREM TypeCorrect == Spec => []TypeOK
<1>1. Inv => TypeOK
  BY DEF Inv
<1> QED
  BY <1>1, Invariant, PTL

\* Retries and stale rows included, a company has the badges that its row
\* derives, and nothing is ever verified, because nothing becomes pending.
THEOREM BadgesTellTheTruthHolds == Spec => []BadgesTellTheTruth
<1>1. ASSUME Inv PROVE BadgesTellTheTruth
  <2>1. ASSUME NEW c \in Companies PROVE company[c].badges = CompanyBadges(company[c], state[c])
    <3>1. state[c] # "verified" /\ company[c].badges = BadgesFor(company[c].domains)
      BY <1>1 DEF Inv, Rows, Targets
    <3> QED
      BY <3>1 DEF CompanyBadges, BadgesFor
  <2>2. \A e \in Targets : state[e] # "verified"
    BY <1>1 DEF Inv, Rows
  <2> QED
    BY <2>1, <2>2 DEF BadgesTellTheTruth
<1> QED
  BY <1>1, Invariant, PTL

\* However many requests probe for one slug, the companies of a market are
\* numbered 1, 2, 3 without a gap and without a repetition.
THEOREM SlugsNumberTheCompaniesHolds == Spec => []SlugsNumberTheCompanies
<1>1. Inv => SlugsNumberTheCompanies
  BY DEF Inv
<1> QED
  BY <1>1, Invariant, PTL

\* A verified domain is lost to an overlap of verifications only.
THEOREM DomainLostOnlyByOverlapHolds == Spec => []DomainLostOnlyByOverlap
<1>1. Inv => DomainLostOnlyByOverlap
  BY DEF Inv
<1> QED
  BY <1>1, Invariant, PTL

\* An audit row tells of states that its target has had.
THEOREM AuditRecordsPastHolds == Spec => []AuditRecordsPast
<1>1. Inv => AuditRecordsPast
  BY DEF Inv
<1> QED
  BY <1>1, Invariant, PTL

=============================================================================
