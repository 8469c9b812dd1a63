--------------------------- MODULE SessionsProofs ---------------------------
(***************************************************************************)
(* Proofs about Sessions, for any users, tokens, threads and lives of      *)
(* tokens, and about LoginThrottle, which stands before the sign-in, for   *)
(* any limits and any number of requests at a time.                        *)
(***************************************************************************)
EXTENDS Sessions, LoginThrottle, FiniteSetTheorems, TLAPS

USE SessionsAssumption DEF Lives

\* Tokens are of users, and what a handler holds is of the right kind.
Held ==
    /\ \A k \in Tokens : token[k].kind # "none" => token[k].user \in Users
    /\ \A t \in Threads :
          /\ session[t].req \in {"login", "refresh", "reset"} => session[t].user \in Users
          /\ session[t].req = "unrevoked" =>
                session[t].on \in Tokens /\ token[session[t].on].kind = "pair"
          /\ session[t].at <= clock

\* What is not older than the password's date goes back to the password or is a
\* stray; so does what a refresh under way will issue.
Current ==
    /\ \A k \in Tokens : (token[k].kind # "none" /\ ~IssuedBeforeChange(k)) =>
          (token[k].password = password[token[k].user].number \/ token[k].stray)
    /\ \A t \in Threads : session[t].req = "refresh" =>
          (session[t].password = password[session[t].user].number \/ session[t].stray)

\* A logout leaves a revocation as long as the token lives, unless it was lost.
Revoked ==
    \A k \in Tokens :
        /\ k \in loggedOut =>
              /\ token[k].kind = "pair"
              /\ \/ redis[k] # 0 \/ memory[k] # 0 \/ k \in lost
                 \/ clock >= token[k].iat + RefreshLife
        /\ redis[k] # 0 => k \in loggedOut /\ redis[k] >= token[k].iat + RefreshLife
        /\ memory[k] # 0 => k \in loggedOut /\ memory[k] >= token[k].iat + RefreshLife

Inv == TypeOK /\ Held /\ Current /\ Revoked

-----------------------------------------------------------------------------
(* Steps of one kind.                                                       *)

LEMMA IdleIsSession ==
    Idle \in Session /\ Idle.req = "idle" /\ Idle.on = NULL /\ Idle.at = 0
BY DEF Idle, Session, Time

\* A handler takes up something, or lets go of what it held.
LEMMA TakesUp ==
    ASSUME Inv, NEW t \in Threads, NEW s \in Session, session' = [session EXCEPT ![t] = s],
           UNCHANGED <<clock, password, token, stores>>,
           s.req \in {"login", "refresh", "reset"} => s.user \in Users,
           s.req = "unrevoked" => s.on \in Tokens /\ token[s.on].kind = "pair",
           s.at <= clock,
           s.req = "refresh" => (s.password = password[s.user].number \/ s.stray)
    PROVE  Inv'
<1> USE DEF Inv
<1>1. /\ session' \in [Threads -> Session] /\ session'[t] = s
      /\ \A o \in Threads \ {t} : session'[o] = session[o]
  BY DEF TypeOK
<1>2. TypeOK'
  BY <1>1 DEF TypeOK, stores
<1>3. Held'
  BY <1>1 DEF Held
<1>4. Current'
  BY <1>1 DEF Current, IssuedBeforeChange
<1>5. Revoked'
  BY DEF Revoked, stores
<1> QED
  BY <1>2, <1>3, <1>4, <1>5

\* A token is issued, and whoever issues it is done.
LEMMA Issues ==
    ASSUME Inv, NEW k \in Tokens, NEW kind \in {"pair", "reset"}, NEW u \in Users,
           NEW number \in 0 .. MaxPasswords, NEW stray \in BOOLEAN,
           IssuesToken(k, kind, u, number, stray),
           session' = session \/ \E t \in Threads : session' = [session EXCEPT ![t] = Idle],
           UNCHANGED <<clock, password, stores>>,
           number = password[u].number \/ stray
    PROVE  Inv'
<1> USE DEF Inv
<1> DEFINE new == [kind |-> kind, user |-> u, iat |-> clock, password |-> number, stray |-> stray]
<1>1. /\ new \in Token /\ new.kind = kind /\ new.user = u /\ new.iat = clock
      /\ new.password = number /\ new.stray = stray
  BY DEF Token, TypeOK
<1>2. token' = [token EXCEPT ![k] = new] /\ token[k].kind = "none"
  BY DEF IssuesToken
<1> HIDE DEF new
<1>3. /\ token' \in [Tokens -> Token] /\ token'[k] = new
      /\ \A o \in Tokens \ {k} : token'[o] = token[o]
  BY <1>1, <1>2 DEF TypeOK
<1>4. session' \in [Threads -> Session] /\ \A t \in Threads : session'[t] \in {session[t], Idle}
  BY IdleIsSession DEF TypeOK
<1>5. TypeOK'
  <2>1. \A o \in Tokens : token'[o].iat <= clock'
    BY <1>1, <1>3 DEF TypeOK, Time
  <2> QED
    BY <1>3, <1>4, <2>1 DEF TypeOK, stores
<1>6. Held'
  <2>1. \A o \in Tokens : token'[o].kind # "none" => token'[o].user \in Users
    BY <1>1, <1>3 DEF Held
  <2>2. ASSUME NEW t \in Threads
        PROVE  /\ session'[t].req \in {"login", "refresh", "reset"} => session'[t].user \in Users
               /\ session'[t].req = "unrevoked" =>
                     session'[t].on \in Tokens /\ token'[session'[t].on].kind = "pair"
               /\ session'[t].at <= clock'
    <3>1. 0 <= clock
      BY DEF TypeOK, Time
    <3>2. CASE session'[t] = Idle
      BY <3>1, <3>2, IdleIsSession
    <3>3. CASE session'[t] = session[t]
      BY <1>2, <1>3, <3>3 DEF Held
    <3> QED
      BY <1>4, <3>2, <3>3
  <2> QED
    BY <2>1, <2>2 DEF Held
<1>7. Current'
  <2>1. ASSUME NEW o \in Tokens, token'[o].kind # "none", ~(token'[o].iat < password'[token'[o].user].changed)
        PROVE  token'[o].password = password'[token'[o].user].number \/ token'[o].stray
    <3>1. CASE o = k
      BY <1>1, <1>3, <3>1
    <3>2. CASE o # k
      BY <1>3, <2>1, <3>2 DEF Current, IssuedBeforeChange
    <3> QED
      BY <3>1, <3>2
  <2>2. ASSUME NEW t \in Threads, session'[t].req = "refresh"
        PROVE  session'[t].password = password'[session'[t].user].number \/ session'[t].stray
    BY <1>4, <2>2, IdleIsSession DEF Current
  <2> QED
    BY <2>1, <2>2 DEF Current, IssuedBeforeChange
<1>8. Revoked'
  BY <1>2, <1>3 DEF Revoked, stores
<1> QED
  BY <1>5, <1>6, <1>7, <1>8

\* The stores of revocations change, or the clock does; no token, no password.
LEMMA StoresMove ==
    ASSUME Inv, UNCHANGED <<password, token>>, clock' \in Time, clock' >= clock,
           session' = session \/ session' = [t \in Threads |-> Idle],
           redis' \in [Tokens -> Expiries], memory' \in [Tokens -> Expiries], redisUp' \in BOOLEAN,
           loggedOut' \subseteq Tokens, lost' \subseteq Tokens, Revoked'
    PROVE  Inv'
<1> USE DEF Inv
<1>1. session' \in [Threads -> Session] /\ \A t \in Threads : session'[t] \in {session[t], Idle}
  BY IdleIsSession DEF TypeOK
<1>2. TypeOK'
  <2>1. \A u \in Users : password[u] \in [number: 0 .. MaxPasswords, changed: 0 .. clock']
    BY DEF TypeOK, Time
  <2>2. password' \in [Users -> [number: 0 .. MaxPasswords, changed: 0 .. clock']]
    BY <2>1 DEF TypeOK
  <2>3. \A k \in Tokens : token'[k].iat <= clock'
    BY DEF TypeOK, Token, Time
  <2> QED
    BY <1>1, <2>2, <2>3 DEF TypeOK
<1>3. Held'
  BY <1>1, IdleIsSession DEF Held, TypeOK, Time, Session
<1>4. Current'
  BY <1>1, IdleIsSession DEF Current, IssuedBeforeChange
<1> QED
  BY <1>2, <1>3, <1>4

-----------------------------------------------------------------------------
(* Every step.                                                              *)

\* A password is replaced.  What is older than the reset is dead, what is not
\* becomes a stray; and what goes back to the old password with it.
LEMMA ResetStep ==
    ASSUME Inv, NEW t \in Threads, ResetPassword(t) PROVE Inv'
<1> USE DEF Inv
<1>1. PICK u \in Users : u = session[t].user
  BY DEF ResetPassword, Held
<1>2. session[t] \in Session /\ session[t].at \in 0 .. clock
  BY DEF TypeOK, Held, Session, Time
<1> DEFINE now == session[t].at
           new == [number |-> password[u].number + 1, changed |-> now]
<1>3. /\ new \in [number: 0 .. MaxPasswords, changed: 0 .. clock]
      /\ new.number = password[u].number + 1 /\ new.changed = now
  BY <1>1, <1>2 DEF ResetPassword, TypeOK
<1>4. password' = [password EXCEPT ![u] = new]
  BY <1>1 DEF ResetPassword, ChangedAt
<1> HIDE DEF new
<1>5. /\ password' \in [Users -> [number: 0 .. MaxPasswords, changed: 0 .. clock]]
      /\ password'[u] = new /\ \A v \in Users \ {u} : password'[v] = password[v]
  BY <1>3, <1>4 DEF TypeOK
<1>6. ASSUME NEW k \in Tokens
      PROVE  /\ token'[k] = IF token[k].user = u /\ token[k].iat >= now
                            THEN [token[k] EXCEPT !.stray = TRUE] ELSE token[k]
             /\ token'[k] \in Token
             /\ token'[k].kind = token[k].kind /\ token'[k].user = token[k].user
             /\ token'[k].iat = token[k].iat /\ token'[k].password = token[k].password
             /\ token[k].stray => token'[k].stray
             /\ (token[k].user = u /\ token[k].iat >= now) => token'[k].stray
  <2>1. token[k] \in Token
    BY DEF TypeOK
  <2>2. token'[k] = IF token[k].user = u /\ token[k].iat >= now
                    THEN [token[k] EXCEPT !.stray = TRUE] ELSE token[k]
    BY <1>1 DEF ResetPassword
  <2> QED
    BY <2>1, <2>2 DEF Token
<1>7. ASSUME NEW o \in Threads
      PROVE  /\ session'[o] \in Session
             /\ \/ session'[o] = Idle
                \/ /\ session'[o].req = session[o].req /\ session'[o].user = session[o].user
                   /\ session'[o].on = session[o].on /\ session'[o].at = session[o].at
                   /\ session'[o].password = session[o].password
                   /\ session[o].stray => session'[o].stray
                   /\ (session[o].user = u /\ session[o].req = "refresh") => session'[o].stray
  <2>1. session[o] \in Session
    BY DEF TypeOK
  <2>2. session'[o] = IF o = t THEN Idle
                      ELSE IF session[o].user = u /\ session[o].req = "refresh"
                      THEN [session[o] EXCEPT !.stray = TRUE] ELSE session[o]
    BY <1>1 DEF ResetPassword
  <2>3. CASE o = t
    BY <2>2, <2>3, IdleIsSession
  <2>4. CASE o # t /\ session[o].user = u /\ session[o].req = "refresh"
    BY <2>1, <2>2, <2>4 DEF Session
  <2>5. CASE o # t /\ ~(session[o].user = u /\ session[o].req = "refresh")
    BY <2>1, <2>2, <2>5
  <2> QED
    BY <2>3, <2>4, <2>5
<1>8. TypeOK'
  <2>1. token' \in [Tokens -> Token] /\ \A k \in Tokens : token'[k].iat <= clock
    <3>1. token' = [k \in Tokens |-> token'[k]]
      BY DEF ResetPassword
    <3>2. \A k \in Tokens : token'[k].iat <= clock
      BY <1>6 DEF TypeOK
    <3> QED
      BY <1>6, <3>1, <3>2
  <2>2. session' \in [Threads -> Session]
    <3>1. session' = [o \in Threads |-> session'[o]]
      BY DEF ResetPassword
    <3> QED
      BY <1>7, <3>1
  <2> QED
    BY <1>5, <2>1, <2>2 DEF ResetPassword, TypeOK, stores
<1>9. Held'
  <2>1. \A k \in Tokens : token'[k].kind # "none" => token'[k].user \in Users
    BY <1>6 DEF Held
  <2>2. ASSUME NEW o \in Threads
        PROVE  /\ session'[o].req \in {"login", "refresh", "reset"} => session'[o].user \in Users
               /\ session'[o].req = "unrevoked" =>
                     session'[o].on \in Tokens /\ token'[session'[o].on].kind = "pair"
               /\ session'[o].at <= clock'
    <3>1. 0 <= clock /\ clock' = clock
      BY DEF TypeOK, Time, ResetPassword
    <3>2. CASE session'[o] = Idle
      BY <3>1, <3>2, IdleIsSession
    <3>3. CASE session'[o] # Idle
      <4>1. /\ session'[o].req = session[o].req /\ session'[o].user = session[o].user
            /\ session'[o].on = session[o].on /\ session'[o].at = session[o].at
        BY <1>7, <3>3
      <4>2. session[o].req = "unrevoked" => session[o].on \in Tokens /\ token[session[o].on].kind = "pair"
        BY DEF Held
      <4>3. session[o].req = "unrevoked" => token'[session[o].on].kind = "pair"
        BY <1>6, <4>2
      <4> QED
        BY <3>1, <4>1, <4>2, <4>3 DEF Held
    <3> QED
      BY <3>2, <3>3
  <2> QED
    BY <2>1, <2>2 DEF Held
<1>10. Current'
  <2>1. ASSUME NEW k \in Tokens, token'[k].kind # "none", ~(token'[k].iat < password'[token'[k].user].changed)
        PROVE  token'[k].password = password'[token'[k].user].number \/ token'[k].stray
    <3>1. token[k].iat \in Nat /\ now \in Nat
      BY <1>2 DEF TypeOK, Token, Time
    <3>2. CASE token[k].user = u
      <4>1. password'[token'[k].user].changed = now /\ token'[k].iat = token[k].iat
        BY <1>3, <1>5, <1>6, <3>2
      <4>2. token[k].iat >= now
        BY <2>1, <3>1, <4>1
      <4> QED
        BY <1>6, <3>2, <4>2
    <3>3. CASE token[k].user # u
      <4>1. token[k].user \in Users \ {u}
        BY <1>6, <2>1, <3>3 DEF Held
      <4>2. token[k].password = password'[token'[k].user].number \/ token[k].stray
        <5>1. password'[token'[k].user] = password[token[k].user]
          BY <1>5, <1>6, <4>1
        <5>2. token[k].password = password[token[k].user].number \/ token[k].stray
          BY <1>6, <2>1, <5>1 DEF Current, IssuedBeforeChange
        <5> QED
          BY <5>1, <5>2
      <4> QED
        BY <1>6, <4>2
    <3> QED
      BY <3>2, <3>3
  <2>2. ASSUME NEW o \in Threads, session'[o].req = "refresh"
        PROVE  session'[o].password = password'[session'[o].user].number \/ session'[o].stray
    <3>1. session'[o] # Idle /\ session[o].req = "refresh" /\ session[o].user \in Users
      BY <1>7, <2>2, IdleIsSession DEF Held
    <3> QED
      BY <1>5, <1>7, <3>1 DEF Current
  <2> QED
    BY <2>1, <2>2 DEF Current, IssuedBeforeChange
<1>11. Revoked'
  BY <1>6 DEF ResetPassword, Revoked, stores
<1> QED
  BY <1>8, <1>9, <1>10, <1>11

LEMMA HandlersStep ==
    ASSUME Inv, NEW t \in Threads, Handlers(t) PROVE Inv'
<1> USE DEF Inv
<1>0. /\ session[t] \in Session /\ clock \in Time
      /\ \A k \in Tokens : token[k] \in Token
      /\ \A u \in Users : password[u].number \in 0 .. MaxPasswords
  BY DEF TypeOK
<1>1. ASSUME NEW u \in Users, StartLogin(t, u) PROVE Inv'
  <2> DEFINE s == [Idle EXCEPT !.req = "login", !.user = u, !.password = password[u].number]
  <2>1. s \in Session /\ s.req = "login" /\ s.user = u /\ s.at = 0
    BY <1>0, IdleIsSession DEF Idle, Session, Time
  <2>2. session' = [session EXCEPT ![t] = s] /\ UNCHANGED <<clock, password, token, stores>>
    BY <1>1 DEF StartLogin
  <2> HIDE DEF s
  <2>3. /\ s.req \in {"login", "refresh", "reset"} => s.user \in Users
        /\ s.req = "unrevoked" => s.on \in Tokens /\ token[s.on].kind = "pair"
        /\ s.at <= clock
        /\ s.req = "refresh" => (s.password = password[s.user].number \/ s.stray)
    BY <1>0, <2>1 DEF Time
  <2> QED
    BY <2>1, <2>2, <2>3, TakesUp
<1>2. ASSUME NEW k \in Tokens, Login(t, k) PROVE Inv'
  <2>1. PICK u \in Users : u = session[t].user
    BY <1>2 DEF Login, Held
  <2> DEFINE stray == session[t].password # password[u].number
  <2>2. /\ IssuesToken(k, "pair", u, session[t].password, stray)
        /\ session' = [session EXCEPT ![t] = Idle] /\ UNCHANGED <<clock, password, stores>>
    BY <1>2, <2>1 DEF Login, IssuesToken
  <2>3. session[t].password \in 0 .. MaxPasswords /\ stray \in BOOLEAN
    BY <1>0 DEF Session
  <2>4. session[t].password = password[u].number \/ stray
    OBVIOUS
  <2> HIDE DEF stray
  <2> QED
    BY <2>2, <2>3, <2>4, Issues
<1>3. ASSUME NEW k \in Tokens, StartRefresh(t, k) PROVE Inv'
  <2> DEFINE s == [Idle EXCEPT !.req = "unrevoked", !.on = k]
  <2>1. s \in Session /\ s.req = "unrevoked" /\ s.on = k /\ s.at = 0
    BY IdleIsSession DEF Idle, Session, Time
  <2>2. /\ session' = [session EXCEPT ![t] = s] /\ UNCHANGED <<clock, password, token, stores>>
        /\ token[k].kind = "pair"
    BY <1>3 DEF StartRefresh
  <2> HIDE DEF s
  <2>3. /\ s.req \in {"login", "refresh", "reset"} => s.user \in Users
        /\ s.req = "unrevoked" => s.on \in Tokens /\ token[s.on].kind = "pair"
        /\ s.at <= clock
        /\ s.req = "refresh" => (s.password = password[s.user].number \/ s.stray)
    BY <1>0, <2>1, <2>2 DEF Time
  <2> QED
    BY <2>1, <2>2, <2>3, TakesUp
<1>4. ASSUME NEW k \in Tokens, RefreshToken(t, k) PROVE Inv'
  <2>1. PICK u \in Users : u = session[t].user
    BY <1>4 DEF RefreshToken, Held
  <2>2. /\ IssuesToken(k, "pair", u, session[t].password, session[t].stray)
        /\ session' = [session EXCEPT ![t] = Idle] /\ UNCHANGED <<clock, password, stores>>
    BY <1>4, <2>1 DEF RefreshToken
  <2>3. session[t].password \in 0 .. MaxPasswords /\ session[t].stray \in BOOLEAN
    BY <1>0 DEF Session
  <2>4. session[t].password = password[u].number \/ session[t].stray
    BY <1>4, <2>1 DEF RefreshToken, Current
  <2> QED
    BY <2>2, <2>3, <2>4, Issues
<1>5. ASSUME NEW k \in Tokens, StartReset(t, k) PROVE Inv'
  <2> DEFINE s == [Idle EXCEPT !.req = "reset", !.on = k, !.at = clock, !.user = token[k].user,
                               !.stray = token[k].stray, !.password = token[k].password]
  <2>1. token[k].user \in Users
    BY <1>5 DEF StartReset, AcceptsReset, Held
  <2>2. s \in Session /\ s.req = "reset" /\ s.user = token[k].user /\ s.at = clock
    BY <1>0, IdleIsSession DEF Idle, Session, Token
  <2>3. session' = [session EXCEPT ![t] = s] /\ UNCHANGED <<clock, password, token, stores>>
    BY <1>5 DEF StartReset
  <2> HIDE DEF s
  <2>4. /\ s.req \in {"login", "refresh", "reset"} => s.user \in Users
        /\ s.req = "unrevoked" => s.on \in Tokens /\ token[s.on].kind = "pair"
        /\ s.at <= clock
        /\ s.req = "refresh" => (s.password = password[s.user].number \/ s.stray)
    BY <1>0, <2>1, <2>2 DEF Time
  <2> QED
    BY <2>2, <2>3, <2>4, TakesUp
<1>6. ASSUME LoadForRefresh(t) PROVE Inv'
  <2>1. PICK k \in Tokens : k = session[t].on /\ token[k].kind = "pair"
    BY <1>6 DEF LoadForRefresh, Held
  <2> DEFINE s == [session[t] EXCEPT !.req = "refresh", !.user = token[k].user,
                                     !.password = token[k].password, !.stray = token[k].stray]
  <2>2. /\ s \in Session /\ s.req = "refresh" /\ s.user = token[k].user /\ s.at = session[t].at
        /\ s.password = token[k].password /\ s.stray = token[k].stray
    BY <1>0 DEF Session, Token
  <2>3. /\ UNCHANGED <<clock, password, token, stores>>
        /\ \/ session' = [session EXCEPT ![t] = s] /\ ~IssuedBeforeChange(k)
           \/ session' = [session EXCEPT ![t] = Idle]
    BY <1>6, <2>1 DEF LoadForRefresh, AcceptsRefresh, IssuedBeforeChange
  <2>4. token[k].user \in Users /\ session[t].at <= clock
    BY <2>1 DEF Held
  <2> HIDE DEF s
  <2>5. CASE session' = [session EXCEPT ![t] = s] /\ ~IssuedBeforeChange(k)
    <3>1. token[k].password = password[token[k].user].number \/ token[k].stray
      BY <2>1, <2>5 DEF Current
    <3> QED
      BY <2>2, <2>3, <2>4, <2>5, <3>1, TakesUp
  <2>6. CASE session' = [session EXCEPT ![t] = Idle]
    <3>1. /\ Idle.req \in {"login", "refresh", "reset"} => Idle.user \in Users
          /\ Idle.req = "unrevoked" => Idle.on \in Tokens /\ token[Idle.on].kind = "pair"
          /\ Idle.at <= clock
          /\ Idle.req = "refresh" => (Idle.password = password[Idle.user].number \/ Idle.stray)
      BY <1>0, IdleIsSession DEF Time
    <3> QED
      BY <2>3, <2>6, <3>1, IdleIsSession, TakesUp
  <2> QED
    BY <2>3, <2>5, <2>6
<1> QED
  BY <1>1, <1>2, <1>3, <1>4, <1>5, <1>6, ResetStep DEF Handlers

LEMMA InvStep ==
    ASSUME Inv, [Next]_vars PROVE Inv'
<1> USE DEF Inv
<1>0. /\ clock \in Time /\ redis \in [Tokens -> Expiries] /\ memory \in [Tokens -> Expiries]
      /\ redisUp \in BOOLEAN /\ loggedOut \subseteq Tokens /\ lost \subseteq Tokens
      /\ \A k \in Tokens : token[k].iat \in Time
  BY DEF TypeOK, Token
<1>1. ASSUME NEW u \in Users, NEW k \in Tokens, ForgotPassword(u, k) PROVE Inv'
  <2>1. password[u].number \in 0 .. MaxPasswords
    BY DEF TypeOK
  <2> QED
    BY <1>1, <2>1, Issues DEF ForgotPassword
<1>2. ASSUME NEW k \in Tokens, Logout(k) PROVE Inv'
  <2> DEFINE end == clock + Ttl(k)
  <2>1. end \in Expiries /\ end # 0 /\ end >= token[k].iat + RefreshLife
    BY <1>0 DEF Ttl, Expiries, Time
  <2> HIDE DEF end
  <2>2. /\ \/ redis' = [redis EXCEPT ![k] = end] /\ memory' = memory
           \/ memory' = [memory EXCEPT ![k] = end] /\ redis' = redis
        /\ loggedOut' = loggedOut \cup {k} /\ token[k].kind = "pair"
        /\ UNCHANGED <<clock, password, token, redisUp, session, lost>>
    BY <1>2 DEF Logout, end
  <2>3. Revoked'
    BY <1>0, <2>1, <2>2 DEF Revoked
  <2> QED
    BY <1>0, <2>1, <2>2, <2>3, StoresMove DEF Time
<1>3. ASSUME NEW k \in Tokens, RevocationExpires(k) PROVE Inv'
  <2>1. /\ \/ redis[k] # 0 /\ redis[k] <= clock /\ redis' = [redis EXCEPT ![k] = 0] /\ memory' = memory
           \/ memory[k] # 0 /\ memory[k] <= clock /\ memory' = [memory EXCEPT ![k] = 0] /\ redis' = redis
        /\ UNCHANGED <<clock, password, token, redisUp, session, loggedOut, lost>>
    BY <1>3 DEF RevocationExpires
  <2>2. redis' \in [Tokens -> Expiries] /\ memory' \in [Tokens -> Expiries]
    BY <1>0, <2>1 DEF Expiries
  <2>3. (redis'[k] # redis[k] \/ memory'[k] # memory[k]) => clock >= token[k].iat + RefreshLife
    BY <1>0, <2>1 DEF Revoked, Expiries, Time
  <2>4. Revoked'
    BY <1>0, <2>1, <2>3 DEF Revoked
  <2> QED
    BY <1>0, <2>1, <2>2, <2>4, StoresMove DEF Time
<1>4. ASSUME Tick PROVE Inv'
  <2>1. /\ clock' = clock + 1 /\ clock' \in Time /\ clock' >= clock
        /\ UNCHANGED <<password, token, session, stores>>
    BY <1>0, <1>4 DEF Tick, Time
  <2>2. Revoked'
    BY <1>0, <2>1 DEF Revoked, stores, Time
  <2> QED
    BY <1>0, <2>1, <2>2, StoresMove DEF stores
<1>5. ASSUME RedisFails PROVE Inv'
  <2>1. redisUp' \in BOOLEAN /\ UNCHANGED <<clock, password, token, redis, memory, session, loggedOut, lost>>
    BY <1>0, <1>5 DEF RedisFails
  <2>2. Revoked'
    BY <2>1 DEF Revoked
  <2> QED
    BY <1>0, <2>1, <2>2, StoresMove DEF Time
<1>6. ASSUME Restart PROVE Inv'
  <2>1. /\ memory' = [k \in Tokens |-> 0] /\ lost' = lost \cup {k \in Tokens : memory[k] # 0}
        /\ session' = [t \in Threads |-> Idle]
        /\ UNCHANGED <<clock, password, token, redis, redisUp, loggedOut>>
    BY <1>6 DEF Restart
  <2>2. Revoked'
    BY <2>1 DEF Revoked
  <2>3. memory' \in [Tokens -> Expiries] /\ lost' \subseteq Tokens
    BY <1>0, <2>1 DEF Expiries, Time
  <2> QED
    BY <1>0, <2>1, <2>2, <2>3, StoresMove DEF Time
<1>7. ASSUME UNCHANGED vars PROVE Inv'
  <2>1. Revoked'
    BY <1>7 DEF Revoked, vars
  <2> QED
    BY <1>0, <1>7, <2>1, StoresMove DEF vars, Time
<1> QED
  BY <1>1, <1>2, <1>3, <1>4, <1>5, <1>6, <1>7, HandlersStep DEF Next

LEMMA InitInv ==
    ASSUME Init PROVE Inv
<1>1. NotIssued \in Token /\ NotIssued.kind = "none" /\ NotIssued.iat = 0
  BY DEF NotIssued, Token, Time
<1>2. TypeOK
  <2>1. [number |-> 0, changed |-> 0] \in [number: 0 .. MaxPasswords, changed: 0 .. 0]
    OBVIOUS
  <2> QED
    BY <1>1, <2>1, IdleIsSession DEF Init, TypeOK, Time, Expiries
<1>3. Held /\ Current /\ Revoked
  BY <1>1, IdleIsSession DEF Init, Held, Current, Revoked
<1> QED
  BY <1>2, <1>3 DEF Inv

LEMMA Invariant == Spec => []Inv
BY InitInv, InvStep, PTL DEF Spec

-----------------------------------------------------------------------------
(* The theorems.                                                            *)

\* Clock, passwords, tokens and what the handlers hold are always of the right
\* kind; no token and no password is from the future.
THEOREM TypeCorrect == Spec => []TypeOK
<1>1. Inv => TypeOK
  BY DEF Inv
<1> QED
  BY <1>1, Invariant, PTL

\* A token that goes back to a replaced password is dead, unless it was issued
\* while the password was being changed, for any number of changes.
THEOREM OldTokensAreDeadHolds == Spec => []OldTokensAreDead
<1>1. Inv => OldTokensAreDead
  BY DEF Inv, Current, OldTokensAreDead, AcceptsAccess, AcceptsRefresh, AcceptsReset, NotExpired
<1> QED
  BY <1>1, Invariant, PTL

\* A refresh token that was logged out is let through again only in an outage of
\* Redis, after the process that held its revocation died, or in its last second.
THEOREM LoggedOutOnlyByOutageHolds == Spec => LoggedOutOnlyByOutage
<1> DEFINE Step == \A t \in Threads, k \in loggedOut :
                     (session[t].req = "idle" /\ session'[t].req = "unrevoked" /\ session'[t].on = k) =>
                        ~redisUp \/ k \in lost \/ clock = token[k].iat + RefreshLife
<1>1. Inv /\ [Next]_vars => [Step]_vars
  <2> SUFFICES ASSUME Inv, [Next]_vars, NEW t \in Threads, NEW k \in loggedOut,
                      session[t].req = "idle", session'[t].req = "unrevoked", session'[t].on = k
               PROVE  ~redisUp \/ k \in lost \/ clock = token[k].iat + RefreshLife
    OBVIOUS
  <2>0. session \in [Threads -> Session] /\ k \in Tokens
    BY DEF Inv, TypeOK
  <2>1. StartRefresh(t, k)
    <3>0. /\ session[t] \in Session /\ session'[t] # session[t]
          /\ Idle.req = "idle"
          /\ "idle" # "unrevoked" /\ "login" # "unrevoked" /\ "reset" # "unrevoked"
      BY <2>0, IdleIsSession
    <3>1. ASSUME NEW o \in Threads, NEW s, session' = [session EXCEPT ![o] = s],
                 s.req # "unrevoked" \/ session[o].req # "idle"
          PROVE  FALSE
      BY <2>0, <3>0, <3>1
    <3>2. ASSUME NEW o \in Threads, NEW u \in Users, StartLogin(o, u) PROVE FALSE
      <4>1. [Idle EXCEPT !.req = "login", !.user = u, !.password = password[u].number].req = "login"
        BY DEF Idle
      <4> QED
        BY <3>0, <3>1, <3>2, <4>1 DEF StartLogin
    <3>3. ASSUME NEW o \in Threads, NEW h \in Tokens, Login(o, h) \/ RefreshToken(o, h) PROVE FALSE
      BY <3>0, <3>1, <3>3 DEF Login, RefreshToken
    <3>4. ASSUME NEW o \in Threads, LoadForRefresh(o) PROVE FALSE
      <4>1. session[o].req = "unrevoked"
        BY <3>4 DEF LoadForRefresh
      <4>2. PICK s : session' = [session EXCEPT ![o] = s]
        BY <3>4 DEF LoadForRefresh
      <4> QED
        BY <3>0, <3>1, <4>1, <4>2
    <3>5. ASSUME NEW o \in Threads, NEW h \in Tokens, StartReset(o, h) PROVE FALSE
      <4> DEFINE s == [Idle EXCEPT !.req = "reset", !.on = h, !.at = clock, !.user = token[h].user,
                                   !.stray = token[h].stray, !.password = token[h].password]
      <4>1. s.req = "reset"
        BY DEF Idle
      <4>2. session' = [session EXCEPT ![o] = s]
        BY <3>5 DEF StartReset
      <4> HIDE DEF s
      <4> QED
        BY <3>0, <3>1, <4>1, <4>2
    <3>6. ASSUME NEW o \in Threads, ResetPassword(o) PROVE FALSE
      <4>1. session'[t] = Idle \/ session'[t] = [session[t] EXCEPT !.stray = TRUE] \/ session'[t] = session[t]
        BY <3>6 DEF ResetPassword
      <4>2. [session[t] EXCEPT !.stray = TRUE].req = session[t].req
        BY <3>0 DEF Session
      <4> QED
        BY <3>0, <4>1, <4>2
    <3>7. ASSUME Restart PROVE FALSE
      BY <3>0, <3>7 DEF Restart
    <3>8. ASSUME session' = session PROVE FALSE
      BY <3>0, <3>8
    <3>9. ASSUME NEW o \in Threads, NEW h \in Tokens, StartRefresh(o, h) PROVE o = t /\ h = k
      <4> DEFINE s == [Idle EXCEPT !.req = "unrevoked", !.on = h]
      <4>1. s.on = h
        BY DEF Idle
      <4>2. session' = [session EXCEPT ![o] = s]
        BY <3>9 DEF StartRefresh
      <4> HIDE DEF s
      <4> QED
        BY <2>0, <3>0, <4>1, <4>2
    <3>10. \E o \in Threads, h \in Tokens : StartRefresh(o, h)
      BY <3>2, <3>3, <3>4, <3>5, <3>6, <3>7, <3>8 DEF Next, Handlers, ForgotPassword, Logout,
         RevocationExpires, Tick, RedisFails, vars
    <3> QED
      BY <3>9, <3>10
  <2>2. clock <= token[k].iat + RefreshLife /\ ~IsRevoked(k)
    BY <2>1 DEF StartRefresh, NotExpired
  <2>3. redis[k] # 0 \/ memory[k] # 0 \/ k \in lost \/ clock >= token[k].iat + RefreshLife
    BY <2>0 DEF Inv, Revoked
  <2>4. clock \in Nat /\ token[k].iat + RefreshLife \in Nat
    BY <2>0 DEF Inv, TypeOK, Token, Time
  <2> QED
    BY <2>2, <2>3, <2>4 DEF IsRevoked
<1> QED
  BY <1>1, Invariant, PTL DEF Spec, LoggedOutOnlyByOutage

HIDE SessionsAssumption DEF Lives

-----------------------------------------------------------------------------
(* LoginThrottle: the lockout and the rate limit, for any number of         *)
(* requests at a time and any limits.                                       *)

\* the request has counted a failure that reaches the limit, and will set the lock
WillLock(t) ==
    at[t].step = "lock" \/ (at[t].step = "expire" /\ at[t].n >= LoginLimit)

Verifying == {t \in Slots : at[t].step = "verify"}
Uncounted == {t \in Slots : at[t].step = "incr"}
Pending   == {t \in Slots : at[t].step = "incr" \/ WillLock(t)}

\* Before the lock, every guess is in the count or about to be, and those past the
\* limit are of requests that have yet to set the lock; after it, only requests
\* that had passed it still guess.
Counted ==
    ~disturbed =>
        /\ \A t \in Slots : at[t].step = "delete" => lock
        /\ ~lock => /\ guesses <= fails + Cardinality(Uncounted)
                    /\ guesses <= LoginLimit - 1 + Cardinality(Pending)
        /\ lock => guesses + Cardinality(Verifying) <= MaxGuesses

ThrottleInv == ThrottleTypeOK /\ StuckOnlyByLostExpire /\ Counted

LEMMA Limits ==
    /\ Cardinality(Slots) \in Nat /\ Cap \in Nat /\ MaxGuesses \in Nat
    /\ Cap >= 1 /\ MaxGuesses = LoginLimit - 1 + Cardinality(Slots)
    /\ LoginLimit \in Nat /\ LoginLimit >= 1 /\ RateLimit \in Nat
<1>1. Cardinality(Slots) \in Nat
  BY FS_CardinalityType, ThrottleAssumption
<1> QED
  BY <1>1, ThrottleAssumption DEF Cap, MaxGuesses

LEMMA Subsets ==
    ASSUME NEW S \in SUBSET Slots, NEW T \in SUBSET Slots
    PROVE  /\ Cardinality(S) \in Nat /\ Cardinality(T) \in Nat
           /\ S \subseteq T => Cardinality(S) <= Cardinality(T)
           /\ S \cap T = {} => Cardinality(S) + Cardinality(T) <= Cardinality(Slots)
<1>1. /\ IsFiniteSet(S) /\ IsFiniteSet(T)
      /\ Cardinality(S) \in Nat /\ Cardinality(T) \in Nat
  BY FS_Subset, FS_CardinalityType, ThrottleAssumption
<1>2. ASSUME S \subseteq T PROVE Cardinality(S) <= Cardinality(T)
  BY <1>1, <1>2, FS_Subset
<1>3. ASSUME S \cap T = {} PROVE Cardinality(S) + Cardinality(T) <= Cardinality(Slots)
  <2>1. Cardinality(S \cup T) = Cardinality(S) + Cardinality(T)
    <3>1. Cardinality(S \cap T) = 0
      BY <1>3, FS_EmptySet
    <3>2. Cardinality(S \cup T) = Cardinality(S) + Cardinality(T) - Cardinality(S \cap T)
      BY <1>1, FS_Union
    <3> QED
      BY <1>1, <3>1, <3>2
  <2>2. Cardinality(S \cup T) <= Cardinality(Slots)
    BY FS_Subset, ThrottleAssumption
  <2> QED
    BY <2>1, <2>2
<1> QED
  BY <1>1, <1>2, <1>3

\* One request joins or leaves a set of requests.
LEMMA OneMoves ==
    ASSUME NEW S \in SUBSET Slots, NEW T \in SUBSET Slots, NEW t \in Slots,
           \A o \in Slots \ {t} : o \in S <=> o \in T
    PROVE  /\ (t \in S /\ t \notin T) => Cardinality(S) = Cardinality(T) + 1
           /\ (t \notin S /\ t \in T) => Cardinality(T) = Cardinality(S) + 1
           /\ (t \in S <=> t \in T) => Cardinality(S) = Cardinality(T)
<1>1. IsFiniteSet(S) /\ IsFiniteSet(T)
  BY FS_Subset, ThrottleAssumption
<1>2. ASSUME t \in S, t \notin T PROVE Cardinality(S) = Cardinality(T) + 1
  <2>1. S = T \cup {t}
    BY <1>2
  <2> QED
    BY <1>1, <1>2, <2>1, FS_AddElement
<1>3. ASSUME t \notin S, t \in T PROVE Cardinality(T) = Cardinality(S) + 1
  <2>1. T = S \cup {t}
    BY <1>3
  <2> QED
    BY <1>1, <1>3, <2>1, FS_AddElement
<1>4. ASSUME t \in S <=> t \in T PROVE Cardinality(S) = Cardinality(T)
  <2>1. S = T
    BY <1>4
  <2> QED
    BY <2>1
<1> QED
  BY <1>2, <1>3, <1>4

\* The steps of a request, one by one, and what a count of them is.
LEMMA StepNames ==
    /\ "idle" \in Steps /\ "hit_expire" \in Steps /\ "check" \in Steps
    /\ "verify" \in Steps /\ "incr" \in Steps /\ "expire" \in Steps
    /\ "lock" \in Steps /\ "delete" \in Steps /\ "clear" \in Steps
    /\ 0 \in 0 .. Cap /\ 1 \in 0 .. Cap
    /\ \A n \in Nat : Admitted(n) \in Steps /\ AfterIncr(n) \in Steps
<1>1. 0 \in 0 .. Cap /\ 1 \in 0 .. Cap
  BY Limits
<1>2. \A n \in Nat : Admitted(n) \in Steps /\ AfterIncr(n) \in Steps
  BY DEF Steps, Admitted, AfterIncr
<1> QED
  BY <1>1, <1>2 DEF Steps

LEMMA GoesTo ==
    ASSUME at \in [Slots -> [step: Steps, n: 0 .. Cap]], NEW t \in Slots,
           NEW step \in Steps, NEW n \in 0 .. Cap, Goes(t, step, n)
    PROVE  /\ at' \in [Slots -> [step: Steps, n: 0 .. Cap]]
           /\ at'[t].step = step /\ at'[t].n = n
           /\ \A o \in Slots \ {t} : at'[o] = at[o]
BY DEF Goes

-----------------------------------------------------------------------------
(* Types.                                                                   *)

LEMMA CountTypes ==
    ASSUME ThrottleTypeOK PROVE fails \in Nat /\ hits \in Nat /\ guesses \in Nat
<1>1. fails \in 0 .. Cap /\ hits \in 0 .. Cap /\ guesses \in 0 .. MaxGuesses + 1
  BY DEF ThrottleTypeOK
<1> QED
  BY <1>1, Limits

LEMMA SlotTypes ==
    ASSUME ThrottleTypeOK, NEW t \in Slots
    PROVE  /\ at \in [Slots -> [step: Steps, n: 0 .. Cap]]
           /\ at[t].n \in 0 .. Cap /\ at[t].n \in Nat
           /\ fails \in Nat /\ hits \in Nat /\ guesses \in Nat
<1>1. at \in [Slots -> [step: Steps, n: 0 .. Cap]]
  BY DEF ThrottleTypeOK
<1>2. at[t].n \in 0 .. Cap
  BY <1>1
<1> QED
  BY <1>1, <1>2, CountTypes, Limits

LEMMA CounterTypes ==
    ASSUME ThrottleTypeOK
    PROVE  /\ counters = [fails |-> counters.fails, lock |-> counters.lock, hits |-> counters.hits]
           /\ counters.fails \in 0 .. LoginLimit - 1
           /\ counters.lock \in BOOLEAN
           /\ counters.hits \in 0 .. RateLimit
<1>1. counters \in [fails: 0 .. LoginLimit - 1, lock: BOOLEAN, hits: 0 .. RateLimit]
  BY DEF ThrottleTypeOK
<1> QED
  BY <1>1

LEMMA ThrottleTypeStep ==
    ASSUME ThrottleTypeOK, [ThrottleNext]_throttleVars PROVE ThrottleTypeOK'
<1> USE DEF keys, ghosts
<1>1. ASSUME NEW t \in Slots, Request(t) PROVE ThrottleTypeOK'
  <2>0. /\ at[t].n \in 0 .. Cap /\ at[t].n \in Nat /\ fails \in Nat /\ hits \in Nat
        /\ at \in [Slots -> [step: Steps, n: 0 .. Cap]]
    BY SlotTypes
  <2>1. CASE Hit(t)
    <3>0. hits < Cap /\ hits + 1 \in Nat
      BY <2>0, <2>1 DEF Hit
    <3>1. hits + 1 \in 0 .. Cap /\ Admitted(hits + 1) \in Steps
      BY <2>0, <3>0, StepNames, Limits
    <3>2. at' \in [Slots -> [step: Steps, n: 0 .. Cap]]
      <4>1. CASE Goes(t, "hit_expire", 1)
        BY <2>0, <4>1, StepNames, GoesTo
      <4>2. CASE Goes(t, Admitted(hits + 1), 0)
        BY <2>0, <3>1, <4>2, StepNames, GoesTo
      <4> QED
        BY <2>1, <4>1, <4>2 DEF Hit
    <3> QED
      BY <2>1, <3>1, <3>2 DEF Hit, ThrottleTypeOK
  <2>2. CASE HitExpire(t)
    <3>1. Admitted(at[t].n) \in Steps /\ Goes(t, Admitted(at[t].n), 0)
      BY <2>0, <2>2, StepNames DEF HitExpire
    <3>2. at' \in [Slots -> [step: Steps, n: 0 .. Cap]]
      BY <2>0, <3>1, StepNames, GoesTo
    <3>3. hitsTtl' \in BOOLEAN
      BY <2>2 DEF HitExpire
    <3> QED
      BY <2>2, <3>2, <3>3 DEF HitExpire, ThrottleTypeOK
  <2>3. CASE HitRaises(t)
    <3>1. \E s \in Steps : Goes(t, s, 0)
      BY <2>3, StepNames DEF HitRaises, HitInMemory
    <3>2. at' \in [Slots -> [step: Steps, n: 0 .. Cap]]
      BY <2>0, <3>1, StepNames, GoesTo
    <3>3. counters' \in [fails: 0 .. LoginLimit - 1, lock: BOOLEAN, hits: 0 .. RateLimit]
      <4>1. \/ counters' = counters
            \/ /\ counters.hits < RateLimit
               /\ counters' = [counters EXCEPT !.hits = @ + 1]
        BY <2>3, CounterTypes, Limits DEF HitRaises, HitInMemory
      <4>2. CASE counters' = counters
        BY <4>2 DEF ThrottleTypeOK
      <4>3. CASE counters.hits < RateLimit /\ counters' = [counters EXCEPT !.hits = @ + 1]
        <5>1. counters.hits + 1 \in 0 .. RateLimit
          BY <4>3, CounterTypes, Limits
        <5> QED
          BY <4>3, <5>1 DEF ThrottleTypeOK
      <4> QED
        BY <4>1, <4>2, <4>3
    <3> QED
      BY <2>3, <3>2, <3>3 DEF HitRaises, ThrottleTypeOK
  <2>4. CASE IsLocked(t) \/ IsLockedRaises(t)
    <3>1. \E s \in Steps : Goes(t, s, 0)
      BY <2>4, StepNames DEF IsLocked, IsLockedRaises
    <3>2. at' \in [Slots -> [step: Steps, n: 0 .. Cap]]
      BY <2>0, <3>1, StepNames, GoesTo
    <3> QED
      BY <2>4, <3>2 DEF IsLocked, IsLockedRaises, ThrottleTypeOK
  <2>5. CASE Verify(t)
    <3>1. \E s \in Steps : Goes(t, s, 0)
      BY <2>5, StepNames DEF Verify
    <3>2. at' \in [Slots -> [step: Steps, n: 0 .. Cap]]
      BY <2>0, <3>1, StepNames, GoesTo
    <3>3. guesses' \in 0 .. MaxGuesses + 1
      <4>1. guesses \in 0 .. MaxGuesses + 1
        BY DEF ThrottleTypeOK
      <4> QED
        BY <2>5, <4>1, Limits DEF Verify
    <3> QED
      BY <2>5, <3>2, <3>3 DEF Verify, ThrottleTypeOK
  <2>6. CASE Incr(t)
    <3>0. fails < Cap /\ fails + 1 \in Nat
      BY <2>0, <2>6 DEF Incr
    <3>1. fails + 1 \in 0 .. Cap /\ AfterIncr(fails + 1) \in Steps
      BY <2>0, <3>0, StepNames, Limits
    <3>2. \E s \in Steps, n \in 0 .. Cap : Goes(t, s, n)
      BY <2>6, <3>1, StepNames DEF Incr
    <3>3. at' \in [Slots -> [step: Steps, n: 0 .. Cap]]
      BY <2>0, <3>2, GoesTo
    <3> QED
      BY <2>6, <3>1, <3>3 DEF Incr, ThrottleTypeOK
  <2>7. CASE Expire(t) \/ Lock(t) \/ Delete(t)
    <3>1. \E s \in Steps : Goes(t, s, 0)
      BY <2>7, StepNames DEF Expire, Lock, Delete
    <3>2. at' \in [Slots -> [step: Steps, n: 0 .. Cap]]
      BY <2>0, <3>1, StepNames, GoesTo
    <3>3. CASE Expire(t)
      <4>1. failsTtl' \in BOOLEAN
        BY <3>3 DEF Expire
      <4> QED
        BY <3>2, <3>3, <4>1 DEF Expire, ThrottleTypeOK
    <3>4. CASE Lock(t)
      BY <3>2, <3>4 DEF Lock, ThrottleTypeOK
    <3>5. CASE Delete(t)
      BY <3>2, <3>5, StepNames DEF Delete, ThrottleTypeOK
    <3> QED
      BY <2>7, <3>3, <3>4, <3>5
  <2>8. CASE FailureRaises(t)
    <3>1. at' \in [Slots -> [step: Steps, n: 0 .. Cap]]
      BY <2>0, <2>8, StepNames, GoesTo DEF FailureRaises
    <3>2. counters' \in [fails: 0 .. LoginLimit - 1, lock: BOOLEAN, hits: 0 .. RateLimit]
      <4>1. 0 \in 0 .. LoginLimit - 1
        BY Limits
      <4>2. CASE counters.fails + 1 >= LoginLimit
        BY <2>8, <4>1, <4>2 DEF FailureRaises, RecordFailure, ThrottleTypeOK
      <4>3. CASE ~(counters.fails + 1 >= LoginLimit)
        <5>1. counters.fails + 1 \in 0 .. LoginLimit - 1
          BY <4>3, CounterTypes, Limits
        <5> QED
          BY <2>8, <4>3, <5>1 DEF FailureRaises, RecordFailure, ThrottleTypeOK
      <4> QED
        BY <4>2, <4>3
    <3> QED
      BY <2>8, <3>1, <3>2 DEF FailureRaises, ThrottleTypeOK
  <2>9. CASE Clear(t) \/ ClearRaises(t)
    <3>1. Goes(t, "idle", 0)
      BY <2>9 DEF Clear, ClearRaises
    <3>2. at' \in [Slots -> [step: Steps, n: 0 .. Cap]]
      BY <2>0, <3>1, StepNames, GoesTo
    <3>3. counters' \in [fails: 0 .. LoginLimit - 1, lock: BOOLEAN, hits: 0 .. RateLimit]
      <4>1. 0 \in 0 .. LoginLimit - 1
        BY Limits
      <4> QED
        BY <2>9, <4>1 DEF Clear, ClearRaises, ThrottleTypeOK
    <3>4. 0 \in 0 .. Cap /\ 0 \in 0 .. MaxGuesses + 1
      BY Limits
    <3>5. CASE Clear(t)
      BY <3>2, <3>3, <3>4, <3>5 DEF Clear, ThrottleTypeOK
    <3>6. CASE ClearRaises(t)
      BY <3>2, <3>3, <3>6 DEF ClearRaises, ThrottleTypeOK
    <3> QED
      BY <2>9, <3>5, <3>6
  <2> QED
    BY <1>1, <2>1, <2>2, <2>3, <2>4, <2>5, <2>6, <2>7, <2>8, <2>9 DEF Request
<1>2. CASE WindowEnds
  <2>1. 0 \in 0 .. Cap /\ 0 \in 0 .. MaxGuesses + 1
    BY Limits
  <2> QED
    BY <1>2, <2>1 DEF WindowEnds, ThrottleTypeOK
<1>3. CASE HitsExpire
  BY <1>3, StepNames DEF HitsExpire, ThrottleTypeOK
<1>4. CASE MemoryForgets
  <2>1. counters' \in [fails: 0 .. LoginLimit - 1, lock: BOOLEAN, hits: 0 .. RateLimit]
    <3>1. 0 \in 0 .. LoginLimit - 1 /\ 0 \in 0 .. RateLimit
      BY Limits
    <3>2. \E f \in 0 .. LoginLimit - 1, l \in BOOLEAN, h \in 0 .. RateLimit :
             counters' = [fails |-> f, lock |-> l, hits |-> h]
      BY <1>4, <3>1, CounterTypes, Zenon DEF MemoryForgets
    <3> QED
      BY <3>2
  <2> QED
    BY <1>4, <2>1 DEF MemoryForgets, ThrottleTypeOK
<1>5. CASE RestartApi
  <2>1. counters' \in [fails: 0 .. LoginLimit - 1, lock: BOOLEAN, hits: 0 .. RateLimit]
    <3>1. 0 \in 0 .. LoginLimit - 1 /\ 0 \in 0 .. RateLimit
      BY Limits
    <3> QED
      BY <1>5, <3>1 DEF RestartApi
  <2>2. at' \in [Slots -> [step: Steps, n: 0 .. Cap]]
    BY <1>5, StepNames DEF RestartApi, Ready
  <2>3. lostExpire' \subseteq {"fails", "hits"}
    BY <1>5 DEF RestartApi, ThrottleTypeOK
  <2> QED
    BY <1>5, <2>1, <2>2, <2>3 DEF RestartApi, ThrottleTypeOK
<1>6. CASE UNCHANGED throttleVars
  BY <1>6 DEF throttleVars, ThrottleTypeOK
<1> QED
  BY <1>1, <1>2, <1>3, <1>4, <1>5, <1>6 DEF ThrottleNext

-----------------------------------------------------------------------------
(* A counter without an end.                                                *)

\* Where a request that moves is, and that the others stay.
LEMMA GoesThere ==
    ASSUME ThrottleTypeOK, NEW t \in Slots, NEW step, NEW n, Goes(t, step, n)
    PROVE  /\ at'[t].step = step /\ at'[t].n = n
           /\ \A o \in Slots \ {t} : at'[o] = at[o]
<1>1. at \in [Slots -> [step: Steps, n: 0 .. Cap]]
  BY DEF ThrottleTypeOK
<1> QED
  BY <1>1 DEF Goes

FailsEnd ==
    (fails > 0 /\ ~failsTtl) =>
        ("fails" \in lostExpire \/ \E t \in Slots : at[t].step = "expire")

HitsEnd ==
    (hits > 0 /\ ~hitsTtl) =>
        ("hits" \in lostExpire \/ \E t \in Slots : at[t].step = "hit_expire")

LEMMA OthersStay ==
    ASSUME ThrottleTypeOK, NEW t \in Slots, Request(t)
    PROVE  \A o \in Slots \ {t} : at'[o] = at[o]
<1>1. \E s, n : Goes(t, s, n)
  BY DEF Request, Hit, HitExpire, HitRaises, HitInMemory, IsLocked, IsLockedRaises, Verify,
         Incr, Expire, Lock, Delete, FailureRaises, Clear, ClearRaises
<1> QED
  BY <1>1, GoesThere

LEMMA FailsEndStep ==
    ASSUME ThrottleTypeOK, FailsEnd, [ThrottleNext]_throttleVars PROVE FailsEnd'
<1> USE DEF keys, ghosts
<1>1. ASSUME NEW t \in Slots, Request(t) PROVE FailsEnd'
  <2>0. \A o \in Slots \ {t} : at'[o] = at[o]
    BY <1>1, OthersStay
  <2>1. fails \in Nat
    BY SlotTypes
  <2>2. ASSUME UNCHANGED <<fails, failsTtl, lostExpire>>, at[t].step # "expire" PROVE FailsEnd'
    BY <2>0, <2>2 DEF FailsEnd
  <2>3. CASE Hit(t) \/ HitExpire(t)
    BY <2>2, <2>3 DEF Hit, HitExpire
  <2>4. CASE HitRaises(t)
    BY <2>0, <2>4 DEF HitRaises, FailsEnd
  <2>5. CASE IsLocked(t) \/ IsLockedRaises(t) \/ Verify(t) \/ Lock(t) \/ ClearRaises(t)
    BY <2>2, <2>5 DEF IsLocked, IsLockedRaises, Verify, Lock, ClearRaises
  <2>6. CASE Incr(t)
    <3>1. CASE fails = 0
      <4>1. Goes(t, "expire", 1)
        BY <2>6, <3>1 DEF Incr, AfterIncr
      <4> QED
        BY <4>1, GoesThere DEF FailsEnd
    <3>2. CASE fails > 0
      BY <2>0, <2>6, <3>2 DEF Incr, FailsEnd
    <3> QED
      BY <2>1, <3>1, <3>2
  <2>7. CASE Expire(t)
    BY <2>1, <2>7 DEF Expire, FailsEnd
  <2>8. CASE Delete(t) \/ Clear(t)
    BY <2>8 DEF Delete, Clear, FailsEnd
  <2>9. CASE FailureRaises(t)
    BY <2>0, <2>9 DEF FailureRaises, FailsEnd
  <2> QED
    BY <1>1, <2>3, <2>4, <2>5, <2>6, <2>7, <2>8, <2>9 DEF Request
<1>2. CASE WindowEnds
  BY <1>2 DEF WindowEnds, FailsEnd
<1>3. CASE HitsExpire \/ MemoryForgets \/ UNCHANGED throttleVars
  BY <1>3 DEF HitsExpire, MemoryForgets, throttleVars, FailsEnd
<1>4. CASE RestartApi
  BY <1>4 DEF RestartApi, FailsEnd
<1> QED
  BY <1>1, <1>2, <1>3, <1>4 DEF ThrottleNext

LEMMA HitsEndStep ==
    ASSUME ThrottleTypeOK, HitsEnd, [ThrottleNext]_throttleVars PROVE HitsEnd'
<1> USE DEF keys, ghosts
<1>1. ASSUME NEW t \in Slots, Request(t) PROVE HitsEnd'
  <2>0. \A o \in Slots \ {t} : at'[o] = at[o]
    BY <1>1, OthersStay
  <2>1. hits \in Nat
    BY SlotTypes
  <2>2. ASSUME UNCHANGED <<hits, hitsTtl>>, "hits" \in lostExpire => "hits" \in lostExpire',
               at[t].step # "hit_expire"
        PROVE  HitsEnd'
    BY <2>0, <2>2 DEF HitsEnd
  <2>3. CASE Hit(t)
    <3>1. CASE hits = 0
      <4>1. Goes(t, "hit_expire", 1)
        BY <2>3, <3>1 DEF Hit
      <4> QED
        BY <4>1, GoesThere DEF HitsEnd
    <3>2. CASE hits > 0
      BY <2>0, <2>3, <3>2 DEF Hit, HitsEnd
    <3> QED
      BY <2>1, <3>1, <3>2
  <2>4. CASE HitExpire(t)
    BY <2>1, <2>4 DEF HitExpire, HitsEnd
  <2>5. CASE HitRaises(t)
    BY <2>0, <2>5 DEF HitRaises, HitsEnd
  <2>6. CASE IsLocked(t) \/ IsLockedRaises(t) \/ Verify(t) \/ Lock(t) \/ ClearRaises(t)
    BY <2>2, <2>6 DEF IsLocked, IsLockedRaises, Verify, Lock, ClearRaises
  <2>7. CASE Incr(t) \/ Expire(t) \/ Delete(t) \/ Clear(t)
    BY <2>2, <2>7 DEF Incr, Expire, Delete, Clear
  <2>8. CASE FailureRaises(t)
    BY <2>2, <2>8 DEF FailureRaises, Recording
  <2> QED
    BY <1>1, <2>3, <2>4, <2>5, <2>6, <2>7, <2>8 DEF Request
<1>2. CASE WindowEnds \/ MemoryForgets \/ UNCHANGED throttleVars
  BY <1>2 DEF WindowEnds, MemoryForgets, throttleVars, HitsEnd
<1>3. CASE HitsExpire
  BY <1>3 DEF HitsExpire, HitsEnd
<1>4. CASE RestartApi
  BY <1>4 DEF RestartApi, HitsEnd
<1> QED
  BY <1>1, <1>2, <1>3, <1>4 DEF ThrottleNext

-----------------------------------------------------------------------------
(* The bound on the guesses.                                                *)

LEMMA MovingSets ==
    /\ Verifying \subseteq Slots /\ Uncounted \subseteq Slots /\ Pending \subseteq Slots
    /\ Uncounted \subseteq Pending /\ Pending \cap Verifying = {}
BY DEF Verifying, Uncounted, Pending, WillLock

LEMMA MovingSizes ==
    /\ Cardinality(Verifying) \in Nat /\ Cardinality(Uncounted) \in Nat
    /\ Cardinality(Pending) \in Nat
    /\ Cardinality(Uncounted) <= Cardinality(Pending)
    /\ Cardinality(Verifying) <= Cardinality(Slots)
    /\ Cardinality(Pending) + Cardinality(Verifying) <= Cardinality(Slots)
<1>1. Slots \subseteq Slots /\ Slots \cap {} = {} /\ {} \subseteq Slots
  OBVIOUS
<1>2. /\ Cardinality(Verifying) \in Nat /\ Cardinality(Uncounted) \in Nat
      /\ Cardinality(Pending) \in Nat
      /\ Cardinality(Uncounted) <= Cardinality(Pending)
  BY MovingSets, Subsets
<1>3. Cardinality(Verifying) <= Cardinality(Slots)
  BY MovingSets, Subsets
<1>4. Cardinality(Pending) + Cardinality(Verifying) <= Cardinality(Slots)
  BY MovingSets, Subsets
<1> QED
  BY <1>2, <1>3, <1>4

\* A step that tries no password and changes neither the count nor the lock.
LEMMA NothingCounts ==
    ASSUME ThrottleTypeOK, ThrottleTypeOK', Counted, UNCHANGED <<fails, lock, guesses, disturbed>>,
           Uncounted \subseteq Uncounted', Pending \subseteq Pending',
           lock => Verifying' \subseteq Verifying,
           \A t \in Slots : at'[t].step = "delete" => at[t].step = "delete"
    PROVE  Counted'
<1>1. /\ Uncounted' \subseteq Slots /\ Pending' \subseteq Slots /\ Verifying' \subseteq Slots
  BY DEF Uncounted, Pending, Verifying
<1>2. /\ Cardinality(Uncounted) <= Cardinality(Uncounted') /\ Cardinality(Uncounted') \in Nat
      /\ Cardinality(Pending) <= Cardinality(Pending') /\ Cardinality(Pending') \in Nat
      /\ lock => Cardinality(Verifying') <= Cardinality(Verifying)
      /\ Cardinality(Verifying') \in Nat
  BY <1>1, MovingSets, Subsets
<1>3. /\ fails \in Nat /\ guesses \in Nat /\ LoginLimit \in Nat /\ MaxGuesses \in Nat
      /\ lock' = lock /\ guesses' = guesses /\ fails' = fails /\ disturbed' = disturbed
  BY CountTypes, Limits
<1>4. ASSUME ~disturbed, ~lock
      PROVE  /\ guesses <= fails + Cardinality(Uncounted')
             /\ guesses <= LoginLimit - 1 + Cardinality(Pending')
  BY <1>2, <1>3, <1>4, MovingSizes DEF Counted
<1>5. ASSUME ~disturbed, lock PROVE guesses + Cardinality(Verifying') <= MaxGuesses
  BY <1>2, <1>3, <1>5, MovingSizes DEF Counted
<1> QED
  BY <1>3, <1>4, <1>5 DEF Counted

LEMMA VerifyCounted ==
    ASSUME ThrottleTypeOK, ThrottleTypeOK', Counted, NEW t \in Slots, Verify(t)
    PROVE  Counted'
<1>0. \A o \in Slots \ {t} : at'[o] = at[o]
  BY OthersStay DEF Request
<1>1. CASE Goes(t, "clear", 0) /\ UNCHANGED guesses
  <2>1. at[t].step = "verify" /\ at'[t].step = "clear"
    BY <1>1, GoesThere DEF Verify
  <2>2. UNCHANGED <<fails, lock, guesses, disturbed>>
    BY <1>1 DEF Verify, keys
  <2>3. /\ Uncounted \subseteq Uncounted' /\ Pending \subseteq Pending'
        /\ Verifying' \subseteq Verifying
        /\ \A o \in Slots : at'[o].step = "delete" => at[o].step = "delete"
    BY <1>0, <2>1 DEF Uncounted, Pending, Verifying, WillLock
  <2> QED
    BY <2>2, <2>3, NothingCounts
<1>2. CASE /\ Goes(t, "incr", 0)
           /\ guesses' = IF guesses > MaxGuesses THEN guesses ELSE guesses + 1
  <2>1. at[t].step = "verify" /\ at'[t].step = "incr"
    BY <1>2, GoesThere DEF Verify
  <2>2. UNCHANGED <<fails, lock, disturbed>> /\ guesses' <= guesses + 1 /\ guesses' \in Nat
    BY <1>2, SlotTypes, Limits DEF Verify, keys
  <2>3. /\ Uncounted' \subseteq Slots /\ Pending' \subseteq Slots /\ Verifying' \subseteq Slots
        /\ t \notin Uncounted /\ t \in Uncounted' /\ t \notin Pending /\ t \in Pending'
        /\ t \in Verifying /\ t \notin Verifying'
        /\ \A o \in Slots \ {t} : /\ o \in Uncounted <=> o \in Uncounted'
                                  /\ o \in Pending <=> o \in Pending'
                                  /\ o \in Verifying <=> o \in Verifying'
    BY <1>0, <2>1 DEF Uncounted, Pending, Verifying, WillLock
  <2>4. Cardinality(Uncounted') = Cardinality(Uncounted) + 1
    BY <2>3, MovingSets, OneMoves
  <2>5. Cardinality(Pending') = Cardinality(Pending) + 1
    BY <2>3, MovingSets, OneMoves
  <2>6. Cardinality(Verifying) = Cardinality(Verifying') + 1 /\ Cardinality(Verifying') \in Nat
    BY <2>3, MovingSets, OneMoves, Subsets
  <2>7. \A o \in Slots : at'[o].step = "delete" => at[o].step = "delete"
    BY <1>0, <2>1
  <2> QED
    BY <2>2, <2>4, <2>5, <2>6, <2>7, MovingSizes, SlotTypes, Limits DEF Counted
<1> QED
  BY <1>1, <1>2 DEF Verify

LEMMA IncrCounted ==
    ASSUME ThrottleTypeOK, ThrottleTypeOK', Counted, NEW t \in Slots, Incr(t)
    PROVE  Counted'
<1>0. \A o \in Slots \ {t} : at'[o] = at[o]
  BY OthersStay DEF Request
<1>1. /\ at[t].step = "incr" /\ fails' = fails + 1 /\ UNCHANGED <<lock, guesses, disturbed>>
      /\ Goes(t, AfterIncr(fails + 1), IF AfterIncr(fails + 1) = "expire" THEN fails + 1 ELSE 0)
  BY DEF Incr, ghosts
<1>2. /\ at'[t].step = AfterIncr(fails + 1)
      /\ at'[t].n = IF AfterIncr(fails + 1) = "expire" THEN fails + 1 ELSE 0
  BY <1>1, GoesThere
<1>3. at'[t].step \in {"expire", "lock", "idle"}
  BY <1>2 DEF AfterIncr
<1>4. /\ Uncounted' \subseteq Slots /\ Pending' \subseteq Slots /\ Verifying' \subseteq Slots
      /\ Uncounted' \subseteq Pending'
      /\ t \in Uncounted /\ t \notin Uncounted' /\ Verifying' = Verifying
      /\ \A o \in Slots \ {t} : o \in Uncounted <=> o \in Uncounted'
  BY <1>0, <1>1, <1>3 DEF Uncounted, Pending, Verifying, WillLock
<1>5. /\ Cardinality(Uncounted) = Cardinality(Uncounted') + 1
      /\ Cardinality(Uncounted') \in Nat /\ Cardinality(Pending') \in Nat
      /\ Cardinality(Uncounted') <= Cardinality(Pending')
  BY <1>4, MovingSets, OneMoves, Subsets
<1>6. \A o \in Slots : at'[o].step = "delete" => at[o].step = "delete"
  BY <1>0, <1>3
<1>7. ASSUME ~disturbed, ~lock PROVE guesses <= LoginLimit - 1 + Cardinality(Pending')
  <2>1. guesses <= fails + 1 + Cardinality(Uncounted')
    BY <1>5, <1>7, SlotTypes DEF Counted
  <2>2. CASE fails + 1 < LoginLimit
    BY <1>5, <2>1, <2>2, SlotTypes, Limits
  <2>3. CASE fails + 1 >= LoginLimit
    <3>1. WillLock(t)'
      BY <1>2, <2>3 DEF WillLock, AfterIncr
    <3>2. Pending \subseteq Pending'
      BY <1>0, <3>1 DEF Pending, WillLock
    <3>3. Cardinality(Pending) <= Cardinality(Pending')
      BY <1>4, <3>2, MovingSets, Subsets
    <3> QED
      BY <1>5, <1>7, <3>3, MovingSizes, SlotTypes, Limits DEF Counted
  <2> QED
    BY <2>2, <2>3, SlotTypes, Limits
<1>8. ASSUME ~disturbed, ~lock PROVE guesses <= fails' + Cardinality(Uncounted')
  BY <1>1, <1>5, <1>8, SlotTypes DEF Counted
<1> QED
  BY <1>1, <1>4, <1>6, <1>7, <1>8 DEF Counted

LEMMA LockCounted ==
    ASSUME ThrottleTypeOK, ThrottleTypeOK', Counted, NEW t \in Slots, Lock(t) \/ Delete(t)
    PROVE  Counted'
<1>0. \A o \in Slots \ {t} : at'[o] = at[o]
  BY OthersStay DEF Request
<1>1. at[t].step \in {"lock", "delete"} /\ at'[t].step \in {"delete", "idle"}
  BY GoesThere DEF Lock, Delete
<1>2. Verifying' = Verifying
  BY <1>0, <1>1 DEF Verifying
<1>3. UNCHANGED <<guesses, disturbed>>
  BY DEF Lock, Delete, ghosts
<1>4. ASSUME ~disturbed PROVE lock'
  BY <1>4 DEF Lock, Delete, Counted
<1>5. ASSUME ~disturbed PROVE guesses + Cardinality(Verifying) <= MaxGuesses
  BY <1>5, MovingSizes, SlotTypes, Limits DEF Counted
<1> QED
  BY <1>2, <1>3, <1>4, <1>5 DEF Counted

\* A new window, or one in which a right password has cleared the count.
LEMMA NewWindow ==
    ASSUME ThrottleTypeOK', guesses' = 0, Verifying' = {} \/ ~lock',
           \A t \in Slots : at'[t].step # "delete", fails' \in Nat
    PROVE  Counted'
<1>1. Uncounted' \subseteq Slots /\ Pending' \subseteq Slots
  BY DEF Uncounted, Pending
<1>2. Cardinality(Uncounted') \in Nat /\ Cardinality(Pending') \in Nat
  BY <1>1, Subsets
<1>3. CASE lock'
  <2>1. Cardinality(Verifying') = 0
    BY <1>3, FS_EmptySet
  <2> QED
    BY <1>3, <2>1, Limits DEF Counted
<1>4. CASE ~lock'
  BY <1>2, <1>4, Limits DEF Counted
<1> QED
  BY <1>3, <1>4

LEMMA CountedStep ==
    ASSUME ThrottleTypeOK, ThrottleTypeOK', Counted, [ThrottleNext]_throttleVars
    PROVE  Counted'
<1> USE DEF keys, ghosts
<1>0. fails' \in Nat /\ disturbed \in BOOLEAN
  BY CountTypes, Limits DEF ThrottleTypeOK
<1>1. ASSUME NEW t \in Slots, Request(t) PROVE Counted'
  <2>0. \A o \in Slots \ {t} : at'[o] = at[o]
    BY <1>1, OthersStay
  <2>1. ASSUME disturbed' = TRUE PROVE Counted'
    BY <2>1 DEF Counted
  <2>2. CASE HitRaises(t) \/ IsLockedRaises(t) \/ FailureRaises(t) \/ ClearRaises(t)
    BY <2>1, <2>2 DEF HitRaises, IsLockedRaises, FailureRaises, ClearRaises
  <2>3. ASSUME UNCHANGED <<fails, lock, guesses, disturbed>>,
               at[t].step \in {"idle", "hit_expire", "check"},
               at'[t].step \in {"idle", "hit_expire", "check", "verify"},
               lock => at'[t].step # "verify"
        PROVE  Counted'
    <3>1. /\ Uncounted \subseteq Uncounted' /\ Pending \subseteq Pending'
          /\ lock => Verifying' \subseteq Verifying
          /\ \A o \in Slots : at'[o].step = "delete" => at[o].step = "delete"
      BY <2>0, <2>3 DEF Uncounted, Pending, Verifying, WillLock
    <3> QED
      BY <2>3, <3>1, NothingCounts
  <2>4. CASE Hit(t) \/ HitExpire(t)
    <3>1. at'[t].step \in {"idle", "hit_expire", "check"}
      BY <2>4, GoesThere DEF Hit, HitExpire, Admitted
    <3> QED
      BY <2>3, <2>4, <3>1 DEF Hit, HitExpire
  <2>5. CASE IsLocked(t)
    <3>1. at'[t].step = IF lock THEN "idle" ELSE "verify"
      BY <2>5, GoesThere DEF IsLocked
    <3> QED
      BY <2>3, <2>5, <3>1 DEF IsLocked
  <2>6. CASE Verify(t)
    BY <2>6, VerifyCounted
  <2>7. CASE Incr(t)
    BY <2>7, IncrCounted
  <2>8. CASE Expire(t)
    <3>1. /\ at[t].step = "expire" /\ UNCHANGED <<fails, lock, guesses, disturbed>>
          /\ at'[t].step = IF at[t].n >= LoginLimit THEN "lock" ELSE "idle"
      BY <2>8, GoesThere DEF Expire
    <3>2. /\ Uncounted \subseteq Uncounted' /\ Pending \subseteq Pending'
          /\ Verifying' \subseteq Verifying
          /\ \A o \in Slots : at'[o].step = "delete" => at[o].step = "delete"
      BY <2>0, <3>1 DEF Uncounted, Pending, Verifying, WillLock
    <3> QED
      BY <3>1, <3>2, NothingCounts
  <2>9. CASE Lock(t) \/ Delete(t)
    BY <2>9, LockCounted
  <2>10. CASE Clear(t)
    <3>1. at'[t].step = "idle"
      BY <2>10, GoesThere DEF Clear
    <3>2. CASE \E o \in Slots : at[o].step \in Recording
      BY <2>1, <2>10, <3>2 DEF Clear
    <3>3. CASE \A o \in Slots : at[o].step \notin Recording
      <4>1. \A o \in Slots : at'[o].step # "delete"
        BY <2>0, <3>1, <3>3 DEF Recording
      <4> QED
        BY <1>0, <2>10, <4>1, NewWindow DEF Clear
    <3> QED
      BY <3>2, <3>3
  <2> QED
    BY <1>1, <2>2, <2>4, <2>5, <2>6, <2>7, <2>8, <2>9, <2>10 DEF Request
<1>2. CASE WindowEnds
  <2>1. Verifying' = {} /\ \A t \in Slots : at'[t].step # "delete"
    BY <1>2 DEF WindowEnds, Quiet, Verifying
  <2> QED
    BY <1>0, <1>2, <2>1, NewWindow DEF WindowEnds
<1>3. CASE HitsExpire \/ MemoryForgets \/ UNCHANGED throttleVars
  <2>1. UNCHANGED <<fails, lock, guesses, disturbed, at>>
    BY <1>3 DEF HitsExpire, MemoryForgets, throttleVars
  <2>2. Uncounted' = Uncounted /\ Pending' = Pending /\ Verifying' = Verifying
    BY <2>1 DEF Verifying, Uncounted, Pending, WillLock
  <2> QED
    BY <2>1, <2>2, NothingCounts
<1>4. CASE RestartApi
  BY <1>4 DEF RestartApi, Counted
<1> QED
  BY <1>1, <1>2, <1>3, <1>4 DEF ThrottleNext

-----------------------------------------------------------------------------
(* Theorems.                                                                *)

LEMMA ThrottleInitInv == ThrottleInit => ThrottleInv
<1> SUFFICES ASSUME ThrottleInit PROVE ThrottleInv
  OBVIOUS
<1>0. 0 \in 0 .. Cap /\ 0 \in 0 .. MaxGuesses + 1 /\ 0 \in 0 .. LoginLimit - 1
      /\ 0 \in 0 .. RateLimit
  BY Limits
<1>1. at \in [Slots -> [step: Steps, n: 0 .. Cap]]
  BY <1>0, StepNames DEF ThrottleInit, Ready
<1>2. ThrottleTypeOK
  BY <1>0, <1>1 DEF ThrottleInit, ThrottleTypeOK
<1>3. StuckOnlyByLostExpire
  BY DEF ThrottleInit, StuckOnlyByLostExpire
<1>4. \A t \in Slots : at[t].step # "delete"
  BY DEF ThrottleInit, Ready
<1>5. Counted
  BY <1>4, MovingSizes, Limits DEF ThrottleInit, Counted
<1> QED
  BY <1>2, <1>3, <1>5 DEF ThrottleInv

LEMMA ThrottleInvStep == ThrottleInv /\ [ThrottleNext]_throttleVars => ThrottleInv'
<1> SUFFICES ASSUME ThrottleInv, [ThrottleNext]_throttleVars PROVE ThrottleInv'
  OBVIOUS
<1>1. ThrottleTypeOK'
  BY ThrottleTypeStep DEF ThrottleInv
<1>2. FailsEnd' /\ HitsEnd'
  BY FailsEndStep, HitsEndStep DEF ThrottleInv, StuckOnlyByLostExpire, FailsEnd, HitsEnd
<1>3. StuckOnlyByLostExpire'
  BY <1>2 DEF StuckOnlyByLostExpire, FailsEnd, HitsEnd
<1>4. Counted'
  BY <1>1, CountedStep DEF ThrottleInv
<1> QED
  BY <1>1, <1>3, <1>4 DEF ThrottleInv

LEMMA ThrottleInvHolds == ThrottleSpec => []ThrottleInv
BY ThrottleInitInv, ThrottleInvStep, PTL DEF ThrottleSpec

\* For any limits and any number of requests at a time, no window that nothing
\* disturbs sees more wrong passwords than the limit, and one for every other
\* request that had passed the lock by then.
THEOREM GuessesAreBoundedHolds == ThrottleSpec => []GuessesAreBounded
<1>1. ThrottleInv => GuessesAreBounded
  <2> SUFFICES ASSUME ThrottleTypeOK, Counted, ~disturbed PROVE guesses <= MaxGuesses
    BY DEF ThrottleInv, GuessesAreBounded
  <2>1. CASE lock
    BY <2>1, MovingSizes, CountTypes, Limits DEF Counted
  <2>2. CASE ~lock
    <3>1. guesses <= LoginLimit - 1 + Cardinality(Pending)
      BY <2>2 DEF Counted
    <3> QED
      BY <3>1, MovingSizes, CountTypes, Limits
  <2> QED
    BY <2>1, <2>2
<1> QED
  BY <1>1, ThrottleInvHolds, PTL

\* A counter of Redis without an end has lost its EXPIRE to an outage or a crash.
THEOREM StuckOnlyByLostExpireHolds == ThrottleSpec => []StuckOnlyByLostExpire
BY ThrottleInvHolds, PTL DEF ThrottleInv

=============================================================================
