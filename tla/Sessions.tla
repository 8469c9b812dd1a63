------------------------------- MODULE Sessions -------------------------------
(***************************************************************************)
(* Tokens: sign-in, refresh, logout and password reset (routers/auth.py),  *)
(* what a token says and when it is accepted (auth/jwt.py,                 *)
(* auth/dependencies.py), and the revocation of refresh tokens in Redis or,*)
(* when Redis does not answer, in the memory of the API process            *)
(* (auth/revocation.py).                                                   *)
(*                                                                         *)
(* A handler checks a token, loads the user and issues or writes later.    *)
(* Tokens and password_changed_at are compared in whole seconds; many      *)
(* things happen within one.                                               *)
(***************************************************************************)
EXTENDS Naturals

CONSTANTS
    Users,        \* accounts with a password
    Tokens,       \* names of tokens, each issued once
    Threads,      \* threads of the API's pool
    AccessLife,   \* seconds that an access token lives,
    RefreshLife,  \*         a refresh token,
    ResetLife,    \*         a link that resets the password
    MaxTime,      \* bound on the clock
    MaxPasswords, \* bound on the passwords of a user
    NULL          \* no user, no token

VARIABLES
    clock,      \* the second that it is
    password,   \* the number of the user's password and password_changed_at
    token,      \* what has been issued
    redis,      \* revocations in Redis: the second they expire in, 0 for none
    memory,     \* revocations in the API process, likewise
    redisUp,    \* Redis answers
    session,    \* what the handlers of the API hold
    loggedOut,  \* tokens whose logout has been answered
    lost        \* tokens whose revocation was in the memory of a process that died

vars == <<clock, password, token, redis, memory, redisUp, session, loggedOut, lost>>

Time == 0 .. MaxTime

Lives == {AccessLife, RefreshLife, ResetLife}

ASSUME SessionsAssumption ==
    /\ MaxTime \in Nat /\ MaxPasswords \in Nat
    /\ Lives \subseteq Nat \ {0}
    /\ NULL \notin Users \cup Tokens

\* A pair is an access token and a refresh token with its jti, issued together.
\* password: the password that it goes back to, by whatever refreshes; stray:
\* issued while that password was being changed, or refreshed from such a one
Token == [kind: {"none", "pair", "reset"}, user: Users \cup {NULL}, iat: Time,
          password: 0 .. MaxPasswords, stray: BOOLEAN]

NotIssued == [kind |-> "none", user |-> NULL, iat |-> 0, password |-> 0, stray |-> FALSE]

Session == [req: {"idle", "login", "unrevoked", "refresh", "reset"},
            user: Users \cup {NULL}, on: Tokens \cup {NULL}, at: Time,
            password: 0 .. MaxPasswords, stray: BOOLEAN]

Idle == [req |-> "idle", user |-> NULL, on |-> NULL, at |-> 0, password |-> 0, stray |-> FALSE]

Expiries == 0 .. MaxTime + RefreshLife + 1

TypeOK ==
    /\ clock \in Time
    /\ password \in [Users -> [number: 0 .. MaxPasswords, changed: 0 .. clock]]
    /\ token \in [Tokens -> Token] /\ \A k \in Tokens : token[k].iat <= clock
    /\ redis \in [Tokens -> Expiries] /\ memory \in [Tokens -> Expiries]
    /\ redisUp \in BOOLEAN
    /\ session \in [Threads -> Session]
    /\ loggedOut \subseteq Tokens /\ lost \subseteq Tokens

Init ==
    /\ clock = 0
    /\ password = [u \in Users |-> [number |-> 0, changed |-> 0]]
    /\ token = [k \in Tokens |-> NotIssued]
    /\ redis = [k \in Tokens |-> 0] /\ memory = [k \in Tokens |-> 0]
    /\ redisUp = TRUE
    /\ session = [t \in Threads |-> Idle]
    /\ loggedOut = {} /\ lost = {}

stores == <<redis, memory, redisUp, loggedOut, lost>>

-----------------------------------------------------------------------------
(* When a token is accepted.                                                *)

\* by python-jose up to and including the second exp
NotExpired(k, life) == token[k].kind # "none" /\ clock <= token[k].iat + life

IssuedBeforeChange(k) == token[k].iat < password[token[k].user].changed

\* an access token, at get_current_user
AcceptsAccess(k) ==
    token[k].kind = "pair" /\ NotExpired(k, AccessLife) /\ ~IssuedBeforeChange(k)

\* a refresh token; whether it is revoked is looked up apart
AcceptsRefresh(k) ==
    token[k].kind = "pair" /\ NotExpired(k, RefreshLife) /\ ~IssuedBeforeChange(k)

AcceptsReset(k) ==
    token[k].kind = "reset" /\ NotExpired(k, ResetLife) /\ ~IssuedBeforeChange(k)

-----------------------------------------------------------------------------
(* Issuing.                                                                 *)

IssuesToken(k, kind, u, number, stray) ==
    /\ token[k].kind = "none"
    /\ token' = [token EXCEPT ![k] =
          [kind |-> kind, user |-> u, iat |-> clock, password |-> number, stray |-> stray]]

StartLogin(t, u) ==
    /\ session[t].req = "idle"
    /\ session' = [session EXCEPT ![t] =
          [Idle EXCEPT !.req = "login", !.user = u, !.password = password[u].number]]
    /\ UNCHANGED <<clock, password, token, stores>>

\* the password was right when the user was loaded
Login(t, k) ==
    LET s == session[t] IN
    /\ s.req = "login"
    /\ IssuesToken(k, "pair", s.user, s.password, s.password # password[s.user].number)
    /\ session' = [session EXCEPT ![t] = Idle]
    /\ UNCHANGED <<clock, password, stores>>

ForgotPassword(u, k) ==
    /\ IssuesToken(k, "reset", u, password[u].number, FALSE)
    /\ UNCHANGED <<clock, password, session, stores>>

-----------------------------------------------------------------------------
(* Refreshing.                                                              *)

\* Redis first, when it answers, then the memory of the process
IsRevoked(k) == (redisUp /\ redis[k] # 0) \/ memory[k] # 0

\* the token decodes and its jti is not revoked
StartRefresh(t, k) ==
    /\ session[t].req = "idle"
    /\ token[k].kind = "pair" /\ NotExpired(k, RefreshLife)
    /\ ~IsRevoked(k)
    /\ session' = [session EXCEPT ![t] = [Idle EXCEPT !.req = "unrevoked", !.on = k]]
    /\ UNCHANGED <<clock, password, token, stores>>

\* mutant: does not decode again with the password's date
LoadsWithoutDate(t) ==
    LET s == session[t] IN
    /\ s.req = "unrevoked"
    /\ session' = [session EXCEPT ![t] =
          IF NotExpired(s.on, RefreshLife)
          THEN [s EXCEPT !.req = "refresh", !.user = token[s.on].user,
                         !.password = token[s.on].password,
                         !.stray = token[s.on].stray]
          ELSE Idle]
    /\ UNCHANGED <<clock, password, token, stores>>

\* loads the user and decodes again, now with the date of the password
LoadForRefresh(t) ==
    LET s == session[t] IN
    /\ s.req = "unrevoked"
    /\ session' = [session EXCEPT ![t] =
          IF AcceptsRefresh(s.on)
          THEN [s EXCEPT !.req = "refresh", !.user = token[s.on].user,
                         !.password = token[s.on].password,
                         !.stray = token[s.on].stray]
          ELSE Idle]
    /\ UNCHANGED <<clock, password, token, stores>>

\* The token that is refreshed stays as good as it was.
RefreshToken(t, k) ==
    LET s == session[t] IN
    /\ s.req = "refresh"
    /\ IssuesToken(k, "pair", s.user, s.password, s.stray)
    /\ session' = [session EXCEPT ![t] = Idle]
    /\ UNCHANGED <<clock, password, stores>>

-----------------------------------------------------------------------------
(* Logging out.                                                             *)

\* mutant: what is left of the access token's life
AccessTtl(k) == IF token[k].iat + AccessLife > clock THEN token[k].iat + AccessLife - clock ELSE 1

\* what is left of the token's life, at least a second
Ttl(k) == IF token[k].iat + RefreshLife > clock THEN token[k].iat + RefreshLife - clock ELSE 1

\* revoke_jti: in Redis, or in memory when Redis does not answer.  A second
\* logout of a token would only revoke it once more; it is left out.
Logout(k) ==
    /\ token[k].kind = "pair" /\ NotExpired(k, RefreshLife) /\ k \notin loggedOut
    /\ IF redisUp
       THEN redis' = [redis EXCEPT ![k] = clock + Ttl(k)] /\ UNCHANGED memory
       ELSE memory' = [memory EXCEPT ![k] = clock + Ttl(k)] /\ UNCHANGED redis
    /\ loggedOut' = loggedOut \cup {k}
    /\ UNCHANGED <<clock, password, token, redisUp, session, lost>>

\* The clock of a revocation runs out in the second it names.
RevocationExpires(k) ==
    /\ \/ redis[k] # 0 /\ redis[k] <= clock /\ redis' = [redis EXCEPT ![k] = 0] /\ UNCHANGED memory
       \/ memory[k] # 0 /\ memory[k] <= clock /\ memory' = [memory EXCEPT ![k] = 0] /\ UNCHANGED redis
    /\ UNCHANGED <<clock, password, token, redisUp, session, loggedOut, lost>>

-----------------------------------------------------------------------------
(* Resetting the password.                                                  *)

StartReset(t, k) ==
    /\ session[t].req = "idle"
    /\ AcceptsReset(k)
    /\ session' = [session EXCEPT ![t] = [Idle EXCEPT !.req = "reset", !.on = k, !.at = clock,
                                              !.user = token[k].user, !.stray = token[k].stray,
                                              !.password = token[k].password]]
    /\ UNCHANGED <<clock, password, token, stores>>

RoundedUp(s) == s.at + 1      \* mutant: the second after

\* password_changed_at of a reset
ChangedAt(s) == s.at

\* password_changed_at is taken before the commit.  Tokens issued from that
\* second on, and what requests that have loaded the user will issue, survive.
ResetPassword(t) ==
    LET s == session[t] IN
    /\ s.req = "reset" /\ password[s.user].number < MaxPasswords
    /\ password' = [password EXCEPT ![s.user] = [number |-> @.number + 1, changed |-> ChangedAt(s)]]
    /\ token' = [k \in Tokens |->
          IF token[k].user = s.user /\ token[k].iat >= s.at
          THEN [token[k] EXCEPT !.stray = TRUE] ELSE token[k]]
    /\ session' = [o \in Threads |->
          IF o = t THEN Idle
          ELSE IF session[o].user = s.user /\ session[o].req = "refresh"
          THEN [session[o] EXCEPT !.stray = TRUE] ELSE session[o]]
    /\ UNCHANGED <<clock, stores>>

-----------------------------------------------------------------------------
(* The surroundings.                                                        *)

Tick ==
    /\ clock < MaxTime
    /\ clock' = clock + 1
    /\ UNCHANGED <<password, token, session, stores>>

RedisFails ==
    /\ redisUp' = ~redisUp
    /\ UNCHANGED <<clock, password, token, redis, memory, session, loggedOut, lost>>

\* the API process restarts, with an empty memory
Restart ==
    /\ memory' = [k \in Tokens |-> 0]
    /\ lost' = lost \cup {k \in Tokens : memory[k] # 0}
    /\ session' = [t \in Threads |-> Idle]
    /\ UNCHANGED <<clock, password, token, redis, redisUp, loggedOut>>

-----------------------------------------------------------------------------
Handlers(t) ==
    \/ \E u \in Users : StartLogin(t, u)
    \/ \E k \in Tokens : Login(t, k) \/ StartRefresh(t, k) \/ RefreshToken(t, k) \/ StartReset(t, k)
    \/ LoadForRefresh(t) \/ ResetPassword(t)

Next ==
    \/ \E t \in Threads : Handlers(t)
    \/ \E u \in Users, k \in Tokens : ForgotPassword(u, k)
    \/ \E k \in Tokens : Logout(k) \/ RevocationExpires(k)
    \/ Tick \/ RedisFails \/ Restart

Spec == Init /\ [][Next]_vars

-----------------------------------------------------------------------------
(* Properties.                                                              *)

\* Once a password has been replaced, every token that goes back to it, and
\* every token refreshed from one, is dead: access, refresh and reset links.
\* What survives was issued while the password was being changed.
OldTokensAreDead ==
    \A k \in Tokens :
        (AcceptsAccess(k) \/ AcceptsRefresh(k) \/ AcceptsReset(k)) =>
            (token[k].password = password[token[k].user].number \/ token[k].stray)

\* A refresh token whose logout was answered is let through again only while
\* Redis, which holds its revocation, does not answer, after the process that
\* held it has died, or in the very last second of the token.
LoggedOutOnlyByOutage ==
    [][\A t \in Threads, k \in loggedOut :
          (session[t].req = "idle" /\ session'[t].req = "unrevoked" /\ session'[t].on = k) =>
             ~redisUp \/ k \in lost \/ clock = token[k].iat + RefreshLife]_vars

=============================================================================
