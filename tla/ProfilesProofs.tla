--------------------------- MODULE ProfilesProofs ---------------------------
(***************************************************************************)
(* Proofs about Profiles, for any accounts, documents, listings,           *)
(* applications and threads, and any bounds.                               *)
(***************************************************************************)
EXTENDS Profiles, FiniteSetTheorems, TLAPS

USE ProfilesAssumption

\* What a handler holds: a save that has set the working copy has a resume, and the
\* number it has read is at most the next one, as long as the account is there.
Sound(s) ==
    /\ s.req # "idle" => s.user \in Users
    /\ s.step \in {"inserted", "numbered"} => s.req = "save" /\ s.seen \in Resumes
    /\ s.step = "numbered" =>
          /\ s.number >= 1
          /\ Account(s.user) => s.number <= Cardinality(versions[s.user]) + 1

Handlers == \A t \in Threads : Sound(session[t])

\* Versions are numbered from 1 without a gap, and belong to a profile.
Numbered ==
    \A u \in Users :
        /\ IsFiniteSet(versions[u])
        /\ {v.number : v \in versions[u]} = 1 .. Cardinality(versions[u])
        /\ versions[u] # {} => profile[u].there

\* The newest of them is the working copy.
Newest ==
    \A u \in Users : (versions[u] # {} /\ u \notin overtaken) =>
        [number |-> Cardinality(versions[u]), json |-> profile[u].json] \in versions[u]

\* An account that has a date, or that the worker has loaded, has been asked for.
Asked ==
    \A u \in Users :
        (due[u] \in {"later", "now"} \/ (u \in batch /\ Account(u))) =>
            wanted[u] \in {"asked", "late"}

Inv == TypeOK /\ Handlers /\ Numbered /\ Newest /\ Asked

-----------------------------------------------------------------------------
(* Handlers that write nothing yet, or fail.                                *)

LEMMA IdleIsSound == Idle \in Session /\ Sound(Idle)
BY DEF Idle, Session, Sound

LEMMA OneSession ==
    ASSUME TypeOK, NEW t \in Threads, NEW s \in Session, Holds(t, s)
    PROVE  /\ session' \in [Threads -> Session]
           /\ session'[t] = s /\ \A o \in Threads \ {t} : session'[o] = session[o]
BY DEF TypeOK, Holds

LEMMA ProceedsStep ==
    ASSUME Inv, NEW t \in Threads, NEW s \in Session, Sound(s), Proceeds(t, s)
    PROVE  Inv'
<1> USE DEF Inv, Proceeds, saved, work
<1>1. /\ session' \in [Threads -> Session]
      /\ session'[t] = s /\ \A o \in Threads \ {t} : session'[o] = session[o]
  BY OneSession
<1>2. UNCHANGED <<due, wanted, profile, versions, overtaken, job, application, batch, batchJobs, deaths>>
  OBVIOUS
<1>3. TypeOK'
  BY <1>1, <1>2 DEF TypeOK
<1>4. Handlers'
  BY <1>1, <1>2 DEF Handlers, Sound, Account
<1>5. Numbered' /\ Newest' /\ Asked'
  BY <1>2 DEF Numbered, Newest, Asked, Account
<1> QED
  BY <1>3, <1>4, <1>5

LEMMA FailsStep ==
    ASSUME Inv, NEW t \in Threads, Fails(t) PROVE Inv'
<1>1. Proceeds(t, Idle)
  BY DEF Fails, Proceeds
<1> QED
  BY <1>1, IdleIsSound, ProceedsStep

\* The number of the next version.
LEMMA NextNumber ==
    ASSUME TypeOK, Numbered, NEW u \in Users
    PROVE  /\ Cardinality(versions[u]) \in Nat
           /\ NextVersionNumber(u) = Cardinality(versions[u]) + 1
<1> DEFINE n == Cardinality(versions[u])
<1>1. n \in Nat
  BY FS_CardinalityType DEF Numbered
<1>2. {0} \cup {v.number : v \in versions[u]} = 0 .. n
  <2>1. {v.number : v \in versions[u]} = 1 .. n
    BY DEF Numbered
  <2> QED
    BY <1>1, <2>1
<1> HIDE DEF n
<1>3. Max(0 .. n) = n
  <2> DEFINE P(x) == \A y \in 0 .. n : x >= y
  <2>1. n \in 0 .. n /\ P(n)
    BY <1>1
  <2>2. \A x \in 0 .. n : P(x) => x = n
    BY <1>1
  <2>3. Max(0 .. n) = CHOOSE x \in 0 .. n : P(x)
    BY DEF Max
  <2> HIDE DEF P
  <2> QED
    BY <2>1, <2>2, <2>3
<1>4. NextVersionNumber(u) = 1 + n
  BY <1>2, <1>3, Zenon DEF NextVersionNumber
<1> QED
  BY <1>1, <1>4 DEF n

LEMMA LoadStep ==
    ASSUME Inv, NEW t \in Threads, NEW u \in Users,
           \/ LoadProfile(t, u)
           \/ \E put \in BOOLEAN : LoadForCard(t, u, put)
           \/ \E req \in {"ask", "cancel"} : LoadForDeletion(t, u, req)
    PROVE  Inv'
<1>0. profile[u].there \in BOOLEAN /\ profile[u].json \in Resumes \cup {NULL}
  BY DEF Inv, TypeOK, Profile
<1>1. \E s \in Session : Sound(s) /\ Proceeds(t, s)
  <2>1. CASE LoadProfile(t, u)
    BY <1>0, <2>1 DEF LoadProfile, Idle, Session, Sound
  <2>2. CASE \E put \in BOOLEAN : LoadForCard(t, u, put)
    BY <1>0, <2>2 DEF LoadForCard, Idle, Session, Sound
  <2>3. CASE \E req \in {"ask", "cancel"} : LoadForDeletion(t, u, req)
    BY <2>3 DEF LoadForDeletion, Idle, Session, Sound
  <2> QED
    BY <2>1, <2>2, <2>3
<1> QED
  BY <1>1, ProceedsStep

LEMMA EnsureStep ==
    ASSUME Inv, NEW t \in Threads, EnsureLiveProfile(t) PROVE Inv'
<1>1. CASE Fails(t)
  BY <1>1, FailsStep
<1>2. CASE Proceeds(t, [session[t] EXCEPT !.step = "inserted", !.seen = Empty])
  <2>1. session[t] \in Session /\ session[t].req = "save" /\ Sound(session[t])
    BY DEF Inv, TypeOK, Handlers, EnsureLiveProfile
  <2>2. [session[t] EXCEPT !.step = "inserted", !.seen = Empty] \in Session
    BY <2>1 DEF Session
  <2>3. Sound([session[t] EXCEPT !.step = "inserted", !.seen = Empty])
    BY <2>1 DEF Session, Sound
  <2> QED
    BY <1>2, <2>2, <2>3, ProceedsStep
<1> QED
  BY <1>1, <1>2 DEF EnsureLiveProfile

LEMMA NumberStep ==
    ASSUME Inv, NEW t \in Threads, NEW document \in Resumes \cup {NULL},
           NumberVersion(t, document)
    PROVE  Inv'
<1> DEFINE s == session[t]
           json == WorkingCopy(s, document)
           writes == s.step = "inserted" \/ json # s.seen
           new == [s EXCEPT !.step = "numbered", !.seen = json,
                            !.writes = writes, !.number = NextVersionNumber(s.user)]
<1>1. s \in Session /\ s.req = "save" /\ s.user \in Users /\ s.seen \in Resumes \cup {NULL}
  BY DEF Inv, TypeOK, Handlers, Sound, Session, NumberVersion
<1>2. json \in Resumes
  BY <1>1 DEF WorkingCopy
<1>3. /\ Cardinality(versions[s.user]) \in Nat
      /\ NextVersionNumber(s.user) = Cardinality(versions[s.user]) + 1
  BY <1>1, NextNumber DEF Inv
<1>4. Fails(t) \/ Proceeds(t, new)
  BY DEF NumberVersion
<1>5. writes \in BOOLEAN
  OBVIOUS
<1> HIDE DEF json, writes, s
<1>6. new \in Session
  <2>1. /\ "numbered" \in {"start", "missing", "found", "inserted", "numbered"}
        /\ json \in Resumes \cup {NULL} /\ NextVersionNumber(s.user) \in Nat
    BY <1>2, <1>3
  <2> QED
    BY <1>1, <1>5, <2>1 DEF Session
<1>7. /\ new.req = "save" /\ new.user = s.user /\ new.step = "numbered" /\ new.seen = json
      /\ new.number = Cardinality(versions[s.user]) + 1
  BY <1>1, <1>3 DEF Session
<1> HIDE DEF new
<1>8. Sound(new)
  BY <1>1, <1>2, <1>3, <1>7 DEF Sound
<1> QED
  BY <1>4, <1>6, <1>8, FailsStep, ProceedsStep

-----------------------------------------------------------------------------
(* The commits of a version and of a card.                                  *)

\* A version is added to the versions of one account.
LEMMA AddVersion ==
    ASSUME TypeOK, Numbered, NEW u \in Users, NEW k \in Nat \ {0}, NEW json \in Resumes,
           k <= Cardinality(versions[u]) + 1, \A v \in versions[u] : v.number # k,
           versions' = [versions EXCEPT ![u] = @ \cup {[number |-> k, json |-> json]}]
    PROVE  /\ versions' \in [Users -> SUBSET Version]
           /\ k = Cardinality(versions[u]) + 1
           /\ IsFiniteSet(versions'[u])
           /\ Cardinality(versions'[u]) = k
           /\ {v.number : v \in versions'[u]} = 1 .. k
           /\ [number |-> k, json |-> json] \in versions'[u]
           /\ \A w \in Users \ {u} : versions'[w] = versions[w]
<1> DEFINE n == Cardinality(versions[u])
           new == [number |-> k, json |-> json]
<1>1. /\ n \in Nat /\ IsFiniteSet(versions[u]) /\ {v.number : v \in versions[u]} = 1 .. n
      /\ versions \in [Users -> SUBSET Version]
  BY FS_CardinalityType DEF Numbered, TypeOK
<1>2. k \notin 1 .. n
  <2>1. k \notin {v.number : v \in versions[u]}
    OBVIOUS
  <2> QED
    BY <1>1, <2>1
<1>3. k = n + 1
  <2>1. k \in Nat /\ k >= 1 /\ k <= n + 1
    OBVIOUS
  <2> QED
    BY <1>1, <1>2, <2>1
<1>4. new \in Version /\ new.number = k /\ new \notin versions[u]
  BY DEF Version
<1> HIDE DEF new, n
<1>5. /\ versions' \in [Users -> SUBSET Version]
      /\ versions'[u] = versions[u] \cup {new}
      /\ \A w \in Users \ {u} : versions'[w] = versions[w]
  BY <1>1, <1>4 DEF new
<1>6. IsFiniteSet(versions'[u]) /\ Cardinality(versions'[u]) = n + 1
  BY <1>1, <1>4, <1>5, FS_AddElement DEF n
<1>7. {v.number : v \in versions'[u]} = {v.number : v \in versions[u]} \cup {k}
  BY <1>4, <1>5
<1>8. (1 .. n) \cup {n + 1} = 1 .. (n + 1)
  BY <1>1
<1> QED
  BY <1>1, <1>3, <1>5, <1>6, <1>7, <1>8 DEF n, new

LEMMA CommitVersionStep ==
    ASSUME Inv, NEW t \in Threads, CommitVersion(t) PROVE Inv'
<1> USE DEF Inv
<1> DEFINE s == session[t]
           u == s.user
<1>1. /\ s \in Session /\ u \in Users /\ s.seen \in Resumes /\ s.number \in Nat \ {0}
      /\ s.req = "save" /\ s.step = "numbered"
      /\ Account(u) => s.number <= Cardinality(versions[u]) + 1
  BY DEF TypeOK, Handlers, Sound, Session, CommitVersion
<1>2. CASE Fails(t)
  BY <1>2, FailsStep
<1>3. CASE ~Fails(t)
  <2>1. /\ Account(u) /\ (profile[u].there \/ s.writes)
        /\ \A v \in versions[u] : v.number # s.number
        /\ profile' = IF s.writes THEN [profile EXCEPT ![u].there = TRUE, ![u].json = s.seen]
                      ELSE profile
        /\ versions' = [versions EXCEPT ![u] = @ \cup {[number |-> s.number, json |-> s.seen]}]
        /\ overtaken' = IF ~s.writes /\ profile[u].json # s.seen
                        THEN overtaken \cup {u} ELSE overtaken \ {u}
        /\ Holds(t, Idle)
        /\ UNCHANGED <<due, wanted, job, application, work>>
    BY <1>3, Zenon DEF CommitVersion
  <2> HIDE DEF u, s
  <2>2. /\ versions' \in [Users -> SUBSET Version]
        /\ s.number = Cardinality(versions[u]) + 1
        /\ IsFiniteSet(versions'[u]) /\ Cardinality(versions'[u]) = s.number
        /\ {v.number : v \in versions'[u]} = 1 .. s.number
        /\ [number |-> s.number, json |-> s.seen] \in versions'[u]
        /\ \A w \in Users \ {u} : versions'[w] = versions[w]
    BY <1>1, <2>1, AddVersion
  <2>3. profile[u] \in Profile
    BY <1>1 DEF TypeOK
  <2>4. /\ profile' \in [Users -> Profile] /\ profile'[u].there = TRUE
        /\ \A w \in Users \ {u} : profile'[w] = profile[w]
        /\ s.writes => profile'[u].json = s.seen
        /\ ~s.writes => profile'[u] = profile[u]
    <3>1. profile \in [Users -> Profile]
      BY DEF TypeOK
    <3>2. CASE s.writes
      BY <1>1, <2>1, <2>3, <3>1, <3>2 DEF Profile
    <3>3. CASE ~s.writes
      BY <1>1, <2>1, <2>3, <3>1, <3>3 DEF Profile
    <3> QED
      BY <3>2, <3>3
  <2>5. /\ session' \in [Threads -> Session] /\ session'[t] = Idle
        /\ \A o \in Threads \ {t} : session'[o] = session[o]
    BY <2>1, IdleIsSound, OneSession
  <2>6. UNCHANGED <<due, wanted, job, application, batch, batchJobs, deaths>>
    BY <2>1 DEF work
  <2>7. overtaken' \subseteq Users
    BY <1>1, <2>1 DEF TypeOK
  <2>8. \A w \in Users : due'[w] = "gone" => profile'[w] = NoProfile
    BY <2>1, <2>4, <2>6 DEF TypeOK, Account
  <2>9. TypeOK'
    BY <2>2, <2>4, <2>5, <2>6, <2>7, <2>8 DEF TypeOK
  <2>10. Numbered'
    <3> SUFFICES ASSUME NEW w \in Users
                 PROVE  /\ IsFiniteSet(versions'[w])
                        /\ {v.number : v \in versions'[w]} = 1 .. Cardinality(versions'[w])
                        /\ versions'[w] # {} => profile'[w].there
      BY DEF Numbered
    <3>1. CASE w = u
      BY <2>2, <2>4, <3>1
    <3>2. CASE w # u
      BY <2>2, <2>4, <3>2 DEF Numbered
    <3> QED
      BY <3>1, <3>2
  <2>11. Newest'
    <3> SUFFICES ASSUME NEW w \in Users, versions'[w] # {}, w \notin overtaken'
                 PROVE  [number |-> Cardinality(versions'[w]), json |-> profile'[w].json]
                            \in versions'[w]
      BY DEF Newest
    <3>1. CASE w = u
      <4>1. profile'[u].json = s.seen
        BY <2>1, <2>4, <3>1
      <4> QED
        BY <2>2, <3>1, <4>1
    <3>2. CASE w # u
      <4>1. w \notin overtaken
        BY <2>1, <3>2
      <4> QED
        BY <2>2, <2>4, <3>2, <4>1 DEF Newest
    <3> QED
      BY <3>1, <3>2
  <2>12. Handlers'
    <3> SUFFICES ASSUME NEW o \in Threads PROVE Sound(session[o])'
      BY DEF Handlers
    <3>1. CASE o = t
      BY <2>5, <3>1 DEF Sound, Idle
    <3>2. CASE o # t
      <4>1. session'[o] = session[o] /\ Sound(session[o]) /\ session[o] \in Session
        BY <2>5, <3>2 DEF Handlers, TypeOK
      <4>2. ASSUME session[o].step = "numbered", Account(session[o].user)
            PROVE  session[o].number <= Cardinality(versions'[session[o].user]) + 1
        <5>1. /\ session[o].user \in Users /\ session[o].number \in Nat
              /\ session[o].number <= Cardinality(versions[session[o].user]) + 1
          BY <4>1, <4>2 DEF Sound, Session
        <5>2. CASE session[o].user = u
          BY <2>2, <5>1, <5>2, NextNumber
        <5>3. CASE session[o].user # u
          BY <2>2, <5>1, <5>3
        <5> QED
          BY <5>2, <5>3
      <4> QED
        BY <2>6, <4>1, <4>2 DEF Sound, Account
    <3> QED
      BY <3>1, <3>2
  <2>13. Asked'
    BY <2>6 DEF Asked, Account
  <2> QED
    BY <2>9, <2>10, <2>11, <2>12, <2>13
<1> QED
  BY <1>2, <1>3

LEMMA CommitCardStep ==
    ASSUME Inv, NEW t \in Threads, NEW c \in Cards, CommitCard(t, c) PROVE Inv'
<1> USE DEF Inv
<1> DEFINE s == session[t]
           u == s.user
<1>1. s \in Session /\ u \in Users
  BY DEF TypeOK, Handlers, Sound, CommitCard
<1>2. CASE Fails(t)
  BY <1>2, FailsStep
<1>3. CASE ~Fails(t)
  <2>1. /\ Account(u)
        /\ profile' = [profile EXCEPT ![u] = WithCard(s, @, c)]
        /\ Holds(t, Idle)
        /\ UNCHANGED <<due, wanted, versions, overtaken, job, application, work>>
    BY <1>3, Zenon DEF CommitCard
  <2> HIDE DEF u, s
  <2>2. profile \in [Users -> Profile] /\ profile[u] \in Profile
    BY <1>1 DEF TypeOK
  <2>3. /\ profile' \in [Users -> Profile]
        /\ profile'[u].there = TRUE /\ profile'[u].json = profile[u].json
        /\ \A w \in Users \ {u} : profile'[w] = profile[w]
    BY <1>1, <2>1, <2>2 DEF WithCard, Profile
  <2>4. /\ session' \in [Threads -> Session] /\ session'[t] = Idle
        /\ \A o \in Threads \ {t} : session'[o] = session[o]
    BY <2>1, IdleIsSound, OneSession
  <2>5. UNCHANGED <<due, wanted, versions, overtaken, job, application, batch, batchJobs, deaths>>
    BY <2>1 DEF work
  <2>6. \A w \in Users : due'[w] = "gone" => profile'[w] = NoProfile
    BY <2>1, <2>3, <2>5 DEF TypeOK, Account
  <2>7. TypeOK'
    BY <2>3, <2>4, <2>5, <2>6 DEF TypeOK
  <2>8. Handlers'
    BY <2>4, <2>5 DEF Handlers, Sound, Account, Idle
  <2>9. Numbered' /\ Newest' /\ Asked'
    <3>1. \A w \in Users : profile'[w].json = profile[w].json
                           /\ (profile[w].there => profile'[w].there)
      BY <2>3
    <3> QED
      BY <2>5, <3>1 DEF Numbered, Newest, Asked, Account
  <2> QED
    BY <2>7, <2>8, <2>9
<1> QED
  BY <1>2, <1>3

-----------------------------------------------------------------------------
(* Deletions, listings and applications.                                    *)

LEMMA RequestStep ==
    ASSUME Inv, NEW t \in Threads, RequestDeletion(t) PROVE Inv'
<1> USE DEF Inv
<1> DEFINE u == session[t].user
<1>1. u \in Users
  BY DEF TypeOK, Handlers, Sound, RequestDeletion
<1>2. CASE Fails(t)
  BY <1>2, FailsStep
<1>3. CASE ~Fails(t)
  <2>1. /\ Account(u) /\ due' = [due EXCEPT ![u] = "later"]
        /\ wanted' = [wanted EXCEPT ![u] = "asked"]
        /\ Holds(t, Idle) /\ UNCHANGED <<saved, job, application, work>>
    BY <1>3, Zenon DEF RequestDeletion
  <2> HIDE DEF u
  <2>2. /\ due' \in [Users -> {"no", "later", "now", "gone"}]
        /\ wanted' \in [Users -> {"no", "asked", "cancelled", "late"}]
        /\ due'[u] = "later" /\ wanted'[u] = "asked"
        /\ \A w \in Users \ {u} : due'[w] = due[w] /\ wanted'[w] = wanted[w]
    BY <1>1, <2>1 DEF TypeOK
  <2>3. /\ session' \in [Threads -> Session] /\ session'[t] = Idle
        /\ \A o \in Threads \ {t} : session'[o] = session[o]
    BY <2>1, IdleIsSound, OneSession
  <2>4. UNCHANGED <<profile, versions, overtaken, job, application, batch, batchJobs, deaths>>
    BY <2>1 DEF saved, work
  <2>5. TypeOK'
    BY <2>2, <2>3, <2>4 DEF TypeOK
  <2>6. \A w \in Users : Account(w)' <=> Account(w)
    BY <2>1, <2>2 DEF Account
  <2>7. Handlers'
    BY <2>3, <2>4, <2>6 DEF Handlers, Sound, Idle
  <2>8. Numbered' /\ Newest'
    BY <2>4 DEF Numbered, Newest
  <2>9. Asked'
    BY <2>2, <2>4, <2>6 DEF Asked
  <2> QED
    BY <2>5, <2>7, <2>8, <2>9
<1> QED
  BY <1>2, <1>3

LEMMA CancelStep ==
    ASSUME Inv, NEW t \in Threads, CancelDeletion(t) PROVE Inv'
<1> USE DEF Inv
<1> DEFINE s == session[t]
           u == s.user
<1>1. u \in Users /\ s \in Session
  BY DEF TypeOK, Handlers, Sound, CancelDeletion
<1>2. CASE Fails(t)
  BY <1>2, FailsStep
<1>3. CASE ~Fails(t)
  <2>1. /\ ~(s.asked /\ ~Account(u))
        /\ due' = [due EXCEPT ![u] = DateCancelled(u, s.asked)]
        /\ wanted' = [wanted EXCEPT ![u] =
                          IF u \in batch \/ (~s.asked /\ due[u] # "no") THEN "late"
                          ELSE "cancelled"]
        /\ Holds(t, Idle) /\ UNCHANGED <<saved, job, application, work>>
    BY <1>3, Zenon DEF CancelDeletion
  <2> HIDE DEF u, s
  <2>2. /\ due' \in [Users -> {"no", "later", "now", "gone"}]
        /\ wanted' \in [Users -> {"no", "asked", "cancelled", "late"}]
        /\ due'[u] = IF s.asked THEN "no" ELSE due[u]
        /\ wanted'[u] = IF u \in batch \/ (~s.asked /\ due[u] # "no") THEN "late" ELSE "cancelled"
        /\ \A w \in Users \ {u} : due'[w] = due[w] /\ wanted'[w] = wanted[w]
    BY <1>1, <2>1 DEF TypeOK, DateCancelled
  <2>3. /\ session' \in [Threads -> Session] /\ session'[t] = Idle
        /\ \A o \in Threads \ {t} : session'[o] = session[o]
    BY <2>1, IdleIsSound, OneSession
  <2>4. UNCHANGED <<profile, versions, overtaken, job, application, batch, batchJobs, deaths>>
    BY <2>1 DEF saved, work
  <2>5. \A w \in Users : due'[w] = "gone" => due[w] = "gone"
    BY <2>2
  <2>6. TypeOK'
    BY <2>2, <2>3, <2>4, <2>5 DEF TypeOK
  <2>7. \A w \in Users : Account(w)' <=> Account(w)
    BY <2>1, <2>2 DEF Account
  <2>8. Handlers'
    BY <2>3, <2>4, <2>7 DEF Handlers, Sound, Idle
  <2>9. Numbered' /\ Newest'
    BY <2>4 DEF Numbered, Newest
  <2>10. Asked'
    <3> SUFFICES ASSUME NEW w \in Users,
                        due'[w] \in {"later", "now"} \/ (w \in batch' /\ Account(w)')
                 PROVE  wanted'[w] \in {"asked", "late"}
      BY DEF Asked
    <3>1. CASE w = u
      BY <2>2, <2>4, <3>1
    <3>2. CASE w # u
      BY <2>2, <2>4, <2>7, <3>2 DEF Asked
    <3> QED
      BY <3>1, <3>2
  <2> QED
    BY <2>6, <2>8, <2>9, <2>10
<1> QED
  BY <1>2, <1>3

LEMMA DayComesStep ==
    ASSUME Inv, NEW u \in Users, DayComes(u) PROVE Inv'
<1> USE DEF Inv
<1>1. /\ due' \in [Users -> {"no", "later", "now", "gone"}]
      /\ due[u] = "later" /\ due'[u] = "now" /\ \A w \in Users \ {u} : due'[w] = due[w]
  BY DEF DayComes, TypeOK
<1>2. UNCHANGED <<wanted, profile, versions, overtaken, job, application, session,
                  batch, batchJobs, deaths>>
  BY DEF DayComes, saved, work
<1>3. TypeOK'
  BY <1>1, <1>2 DEF TypeOK
<1>4. \A w \in Users : Account(w)' <=> Account(w)
  BY <1>1 DEF Account
<1>5. Handlers' /\ Numbered' /\ Newest'
  BY <1>2, <1>4 DEF Handlers, Sound, Numbered, Newest
<1>6. Asked'
  BY <1>1, <1>2, <1>4 DEF Asked
<1> QED
  BY <1>3, <1>5, <1>6

LEMMA PostStep ==
    ASSUME Inv, NEW u \in Users \cup {NULL}, NEW j \in Jobs,
           PostJob(u, j) \/ \E ap \in Applications : CreateApplication(ap, u, j)
    PROVE  Inv'
<1> USE DEF Inv
<1>1. UNCHANGED <<due, wanted, profile, versions, overtaken, session, batch, batchJobs, deaths>>
  BY DEF PostJob, CreateApplication, saved, work
<1>2. /\ job' \in [Jobs -> [there: BOOLEAN, owner: Users \cup {NULL}]]
      /\ application' \in [Applications -> Application]
  <2>1. CASE PostJob(u, j)
    BY <2>1 DEF PostJob, TypeOK
  <2>2. ASSUME NEW ap \in Applications, CreateApplication(ap, u, j)
        PROVE  /\ job' \in [Jobs -> [there: BOOLEAN, owner: Users \cup {NULL}]]
               /\ application' \in [Applications -> Application]
    <3>1. [there |-> TRUE, candidate |-> u, job |-> j] \in Application
      BY DEF Application
    <3> QED
      BY <2>2, <3>1 DEF CreateApplication, TypeOK
  <2> QED
    BY <2>1, <2>2
<1>4. TypeOK'
  BY <1>1, <1>2 DEF TypeOK
<1>5. Handlers' /\ Numbered' /\ Newest' /\ Asked'
  BY <1>1 DEF Handlers, Sound, Numbered, Newest, Asked, Account
<1> QED
  BY <1>4, <1>5

LEMMA LoadDueStep ==
    ASSUME Inv, LoadDue \/ WorkerDies PROVE Inv'
<1> USE DEF Inv
<1>1. UNCHANGED <<due, wanted, profile, versions, overtaken, job, application, session>>
  BY DEF LoadDue, WorkerDies, saved
<1>2. batch' \subseteq {u \in Users : due[u] = "now"} /\ batchJobs' \subseteq Jobs
  BY DEF LoadDue, WorkerDies, DueAccounts
<1>3. deaths' \in 0 .. MaxDeaths
  BY DEF LoadDue, WorkerDies, TypeOK
<1>4. TypeOK'
  BY <1>1, <1>2, <1>3 DEF TypeOK
<1>5. Handlers' /\ Numbered' /\ Newest'
  BY <1>1 DEF Handlers, Sound, Numbered, Newest, Account
<1>6. Asked'
  BY <1>1, <1>2 DEF Asked, Account
<1> QED
  BY <1>4, <1>5, <1>6

LEMMA DeleteStep ==
    ASSUME Inv, DeleteDue PROVE Inv'
<1> USE DEF Inv
<1>1. batch' = {} /\ batchJobs' = {} /\ UNCHANGED <<wanted, session, deaths>>
  BY DEF DeleteDue
<1>2. CASE UNCHANGED <<due, saved, job, application>>
  <2>1. UNCHANGED <<due, wanted, profile, versions, overtaken, job, application, session, deaths>>
    BY <1>1, <1>2 DEF saved
  <2>2. TypeOK'
    BY <1>1, <2>1 DEF TypeOK
  <2>3. Handlers' /\ Numbered' /\ Newest' /\ Asked'
    BY <1>1, <2>1 DEF Handlers, Sound, Numbered, Newest, Asked, Account
  <2> QED
    BY <2>2, <2>3
<1>3. CASE /\ due' = [u \in Users |-> IF u \in batch THEN "gone" ELSE due[u]]
           /\ profile' = [u \in Users |-> IF u \in batch THEN NoProfile ELSE profile[u]]
           /\ versions' = [u \in Users |-> IF u \in batch THEN {} ELSE versions[u]]
           /\ overtaken' = overtaken \ batch
           /\ job' = [j \in Jobs |->
                        IF j \in batchJobs THEN [there |-> FALSE, owner |-> NULL]
                        ELSE IF job[j].owner \in batch THEN [job[j] EXCEPT !.owner = NULL]
                        ELSE job[j]]
           /\ application' = [ap \in Applications |->
                                IF application[ap].job \in batchJobs THEN NoApplication
                                ELSE application[ap]]
  <2>1. NoProfile \in Profile /\ NoApplication \in Application
    BY DEF NoProfile, Profile, NoApplication, Application
  <2>2. due' \in [Users -> {"no", "later", "now", "gone"}]
    BY <1>3 DEF TypeOK
  <2>3. profile' \in [Users -> Profile]
    BY <1>3, <2>1 DEF TypeOK
  <2>4. versions' \in [Users -> SUBSET Version]
    BY <1>3 DEF TypeOK
  <2>5. job' \in [Jobs -> [there: BOOLEAN, owner: Users \cup {NULL}]]
    BY <1>3 DEF TypeOK
  <2>6. application' \in [Applications -> Application]
    BY <1>3, <2>1 DEF TypeOK
  <2>7. \A u \in Users : due'[u] = "gone" => profile'[u] = NoProfile
    BY <1>3 DEF TypeOK
  <2>8. TypeOK'
    BY <1>1, <1>3, <2>2, <2>3, <2>4, <2>5, <2>6, <2>7 DEF TypeOK
  <2>9. \A u \in Users \ batch : /\ due'[u] = due[u] /\ profile'[u] = profile[u]
                                 /\ versions'[u] = versions[u]
                                 /\ u \notin overtaken' => u \notin overtaken
    BY <1>3
  <2>10. \A u \in batch : u \in Users => due'[u] = "gone" /\ versions'[u] = {}
    BY <1>3
  <2>11. Handlers'
    BY <1>1, <2>9, <2>10 DEF Handlers, Sound, Account
  <2>12. Numbered'
    <3> SUFFICES ASSUME NEW u \in Users
                 PROVE  /\ IsFiniteSet(versions'[u])
                        /\ {v.number : v \in versions'[u]} = 1 .. Cardinality(versions'[u])
                        /\ versions'[u] # {} => profile'[u].there
      BY DEF Numbered
    <3>1. CASE u \in batch
      <4>1. IsFiniteSet({}) /\ Cardinality({}) = 0
        BY FS_EmptySet
      <4>2. versions'[u] = {}
        BY <2>10, <3>1
      <4>3. {v.number : v \in versions'[u]} = {} /\ 1 .. 0 = {}
        BY <4>2
      <4> QED
        BY <4>1, <4>2, <4>3
    <3>2. CASE u \notin batch
      BY <2>9, <3>2 DEF Numbered
    <3> QED
      BY <3>1, <3>2
  <2>13. Newest'
    BY <2>9, <2>10 DEF Newest
  <2>14. Asked'
    BY <1>1, <2>9, <2>10 DEF Asked
  <2> QED
    BY <2>8, <2>11, <2>12, <2>13, <2>14
<1> QED
  BY <1>2, <1>3, Zenon DEF DeleteDue

-----------------------------------------------------------------------------
(* Theorems.                                                                *)

LEMMA InitInv == Init => Inv
<1> SUFFICES ASSUME Init PROVE Inv
  OBVIOUS
<1>1. NoProfile \in Profile /\ NoApplication \in Application
  BY DEF NoProfile, Profile, NoApplication, Application
<1>2. TypeOK
  BY <1>1, IdleIsSound DEF Init, TypeOK
<1>3. Handlers
  BY IdleIsSound DEF Init, Handlers
<1>4. Numbered
  <2>1. IsFiniteSet({}) /\ Cardinality({}) = 0 /\ 1 .. 0 = {}
    BY FS_EmptySet
  <2>2. \A u \in Users : versions[u] = {}
    BY DEF Init
  <2>3. \A u \in Users : {v.number : v \in versions[u]} = {}
    BY <2>2
  <2> QED
    BY <2>1, <2>2, <2>3 DEF Numbered
<1>5. Newest /\ Asked
  BY DEF Init, Newest, Asked
<1> QED
  BY <1>2, <1>3, <1>4, <1>5 DEF Inv

LEMMA InvStep == Inv /\ [Next]_vars => Inv'
<1> SUFFICES ASSUME Inv, [Next]_vars PROVE Inv'
  OBVIOUS
<1>1. ASSUME NEW t \in Threads, Saves(t) \/ Other(t) PROVE Inv'
  <2>1. ASSUME NEW u \in Users,
               \/ LoadProfile(t, u)
               \/ \E put \in BOOLEAN : LoadForCard(t, u, put)
               \/ \E req \in {"ask", "cancel"} : LoadForDeletion(t, u, req)
        PROVE  Inv'
    BY <2>1, LoadStep
  <2>2. CASE EnsureLiveProfile(t)
    BY <2>2, EnsureStep
  <2>3. ASSUME NEW document \in Malformed, RejectDocument(t, document) PROVE Inv'
    BY <2>3, FailsStep DEF RejectDocument
  <2>4. ASSUME NEW document \in Resumes \cup {NULL}, NumberVersion(t, document) PROVE Inv'
    BY <2>4, NumberStep
  <2>5. CASE CommitVersion(t)
    BY <2>5, CommitVersionStep
  <2>6. ASSUME NEW c \in Cards, CommitCard(t, c) PROVE Inv'
    BY <2>6, CommitCardStep
  <2>7. CASE RequestDeletion(t) \/ CancelDeletion(t)
    BY <2>7, RequestStep, CancelStep
  <2> QED
    BY <1>1, <2>1, <2>2, <2>3, <2>4, <2>5, <2>6, <2>7 DEF Saves, Finishes, Other
<1>2. ASSUME NEW u \in Users, DayComes(u) PROVE Inv'
  BY <1>2, DayComesStep
<1>3. ASSUME NEW u \in Users \cup {NULL}, NEW j \in Jobs,
             PostJob(u, j) \/ \E ap \in Applications : CreateApplication(ap, u, j)
      PROVE  Inv'
  BY <1>3, PostStep
<1>4. CASE LoadDue \/ WorkerDies
  BY <1>4, LoadDueStep
<1>5. CASE DeleteDue
  BY <1>5, DeleteStep
<1>6. CASE UNCHANGED vars
  <2>1. UNCHANGED <<due, wanted, profile, versions, overtaken, job, application, session,
                    batch, batchJobs, deaths>>
    BY <1>6 DEF vars, saved, work
  <2> QED
    BY <2>1 DEF Inv, TypeOK, Handlers, Sound, Numbered, Newest, Asked, Account
<1> QED
  BY <1>1, <1>2, <1>3, <1>4, <1>5, <1>6 DEF Next

LEMMA Invariant == Spec => []Inv
BY InitInv, InvStep, PTL DEF Spec

\* Rows, handlers and batches have their types, and nothing is left of the profile
\* of a deleted account.
THEOREM TypeCorrect == Spec => []TypeOK
BY Invariant, PTL DEF Inv

\* For any number of saves, cards and deletions at a time, versions are numbered
\* from 1 without a gap, and the newest is the working copy, or a save of an
\* unchanged resume that another save had replaced.
THEOREM NewestIsLiveHolds == Spec => []NewestIsLive
<1>1. Inv => NewestIsLive
  BY DEF Inv, Numbered, Newest, NewestIsLive
<1> QED
  BY <1>1, Invariant, PTL

\* The worker deletes only accounts whose user has asked for that, or whose
\* cancellation came too late.
THEOREM DeletedOnlyIfAskedHolds == Spec => DeletedOnlyIfAsked
<1> DEFINE Step == \A u \in Users : (Account(u) /\ ~Account(u)') => wanted[u] \in {"asked", "late"}
<1>1. Inv /\ [Next]_vars => [Step]_vars
  <2> SUFFICES ASSUME Inv, [Next]_vars, NEW u \in Users, Account(u), ~Account(u)'
               PROVE  wanted[u] \in {"asked", "late"}
    OBVIOUS
  <2>1. due[u] # "gone" /\ due'[u] = "gone" /\ due \in [Users -> {"no", "later", "now", "gone"}]
    BY DEF Account, Inv, TypeOK
  <2>2. ASSUME NEW t \in Threads, Saves(t) \/ Other(t) PROVE FALSE
    <3>1. CASE RequestDeletion(t)
      BY <2>1, <3>1 DEF RequestDeletion, Fails
    <3>2. CASE CancelDeletion(t)
      BY <2>1, <3>2 DEF CancelDeletion, Fails, DateCancelled
    <3>3. CASE UNCHANGED due
      BY <2>1, <3>3
    <3> QED
      BY <2>2, <3>1, <3>2, <3>3 DEF Saves, Finishes, Other, LoadProfile, EnsureLiveProfile,
         RejectDocument, NumberVersion, CommitVersion, LoadForCard, CommitCard,
         LoadForDeletion, Fails, Proceeds
  <2>3. ASSUME NEW w \in Users, DayComes(w) PROVE FALSE
    BY <2>1, <2>3 DEF DayComes
  <2>4. DeleteDue
    BY <2>1, <2>2, <2>3 DEF Next, PostJob, CreateApplication, LoadDue, WorkerDies, vars
  <2>5. u \in batch
    BY <2>1, <2>4 DEF DeleteDue
  <2> QED
    BY <2>5 DEF Inv, Asked
<1> QED
  BY <1>1, Invariant, PTL DEF Spec, DeletedOnlyIfAsked

=============================================================================
