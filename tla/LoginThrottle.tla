---------------------------- MODULE LoginThrottle ----------------------------
(***************************************************************************)
(* What stands before a password: the rate limit of a client               *)
(* (middleware/rate_limit.py) and the lockout of an email and client after *)
(* failed sign-ins (routers/auth.py), for one such pair.                   *)
(*                                                                         *)
(* Both count in Redis, one command at a time; a command that raises sends *)
(* the request to a counter in the memory of the API process instead.  A   *)
(* request is assumed to be shorter than a window.                         *)
(*                                                                         *)
(* No name is one of Sessions': one module of proofs extends both.         *)
(***************************************************************************)
EXTENDS Naturals, FiniteSets

CONSTANTS
    Slots,        \* threads of the API's pool
    LoginLimit,   \* FAILED_LOGIN_LIMIT
    RateLimit     \* requests of a client in a window

VARIABLES
    fails, failsTtl,    \* failed sign-ins in Redis, and whether the key expires
    lock,               \* the key of the lockout in Redis
    hits, hitsTtl,      \* requests in Redis, and whether the key expires
    counters,           \* the counters and the lockout of the API process
    at,                 \* where the requests are, and what INCR has answered
    guesses,            \* wrong passwords tried in this window
    disturbed,          \* in this window a command has raised, the API has restarted,
                        \* or a right password overlapped the recording of a wrong one
    lostExpire          \* keys, "fails" and "hits", whose EXPIRE has been lost

keys == <<fails, failsTtl, lock, hits, hitsTtl>>
throttleVars == <<keys, counters, at, guesses, disturbed, lostExpire>>

ASSUME ThrottleAssumption ==
    /\ LoginLimit \in Nat \ {0} /\ RateLimit \in Nat \ {0}
    /\ IsFiniteSet(Slots)

MaxGuesses == LoginLimit - 1 + Cardinality(Slots)

Cap == LoginLimit + RateLimit + Cardinality(Slots)     \* a bound on the counts

Steps == {"idle", "hit_expire", "check", "verify", "incr", "expire", "lock", "delete", "clear"}

Ready == [step |-> "idle", n |-> 0]

ThrottleTypeOK ==
    /\ fails \in 0 .. Cap /\ failsTtl \in BOOLEAN /\ lock \in BOOLEAN
    /\ hits \in 0 .. Cap /\ hitsTtl \in BOOLEAN
    /\ counters \in [fails: 0 .. LoginLimit - 1, lock: BOOLEAN, hits: 0 .. RateLimit]
    /\ at \in [Slots -> [step: Steps, n: 0 .. Cap]]
    /\ guesses \in 0 .. MaxGuesses + 1
    /\ disturbed \in BOOLEAN /\ lostExpire \subseteq {"fails", "hits"}

ThrottleInit ==
    /\ fails = 0 /\ failsTtl = FALSE /\ lock = FALSE
    /\ hits = 0 /\ hitsTtl = FALSE
    /\ counters = [fails |-> 0, lock |-> FALSE, hits |-> 0]
    /\ at = [t \in Slots |-> Ready]
    /\ guesses = 0 /\ disturbed = FALSE /\ lostExpire = {}

Goes(t, step, n) == at' = [at EXCEPT ![t] = [step |-> step, n |-> n]]

\* what every step of a request leaves alone
ghosts == <<guesses, disturbed, lostExpire>>

-----------------------------------------------------------------------------
(* The rate limit.                                                          *)

\* admitted to the lockout, or refused with 429
Admitted(n) == IF n > RateLimit THEN "idle" ELSE "check"

\* INCR; the first of a window has to set its end
Hit(t) ==
    /\ at[t].step = "idle" /\ hits < Cap
    /\ hits' = hits + 1
    /\ IF hits + 1 = 1 THEN Goes(t, "hit_expire", 1) ELSE Goes(t, Admitted(hits + 1), 0)
    /\ UNCHANGED <<fails, failsTtl, lock, hitsTtl, counters, ghosts>>

HitExpire(t) ==
    /\ at[t].step = "hit_expire"
    /\ hitsTtl' = (hits > 0)
    /\ Goes(t, Admitted(at[t].n), 0)
    /\ UNCHANGED <<fails, failsTtl, lock, hits, counters, ghosts>>

\* InMemoryRateLimiter.hit
HitInMemory(t) ==
    IF counters.hits >= RateLimit
    THEN Goes(t, "idle", 0) /\ UNCHANGED counters
    ELSE Goes(t, "check", 0) /\ counters' = [counters EXCEPT !.hits = @ + 1]

\* INCR or EXPIRE raises
HitRaises(t) ==
    /\ at[t].step \in {"idle", "hit_expire"}
    /\ HitInMemory(t)
    /\ disturbed' = TRUE
    /\ lostExpire' = IF at[t].step = "hit_expire" THEN lostExpire \cup {"hits"} ELSE lostExpire
    /\ UNCHANGED <<keys, guesses>>

-----------------------------------------------------------------------------
(* The lockout.                                                             *)

IsLocked(t) ==
    /\ at[t].step = "check"
    /\ Goes(t, IF lock THEN "idle" ELSE "verify", 0)
    /\ UNCHANGED <<keys, counters, ghosts>>

IsLockedRaises(t) ==
    /\ at[t].step = "check"
    /\ Goes(t, IF counters.lock THEN "idle" ELSE "verify", 0)
    /\ disturbed' = TRUE
    /\ UNCHANGED <<keys, counters, guesses, lostExpire>>

Verify(t) ==
    /\ at[t].step = "verify"
    /\ \/ /\ Goes(t, "incr", 0)
          /\ guesses' = IF guesses > MaxGuesses THEN guesses ELSE guesses + 1
       \/ Goes(t, "clear", 0) /\ UNCHANGED guesses
    /\ UNCHANGED <<keys, counters, disturbed, lostExpire>>

\* mutant: locks one failure too late
AfterOneMore(n) ==
    IF n = 1 THEN "expire" ELSE IF n > LoginLimit THEN "lock" ELSE "idle"

\* mutant: sets the end of the window with the last failure of it
ExpiresLast(n) ==
    IF n = LoginLimit - 1 THEN "expire" ELSE IF n >= LoginLimit THEN "lock" ELSE "idle"

AfterIncr(n) ==
    IF n = 1 THEN "expire" ELSE IF n >= LoginLimit THEN "lock" ELSE "idle"

Incr(t) ==
    /\ at[t].step = "incr" /\ fails < Cap
    /\ fails' = fails + 1
    /\ Goes(t, AfterIncr(fails + 1), IF AfterIncr(fails + 1) = "expire" THEN fails + 1 ELSE 0)
    /\ UNCHANGED <<failsTtl, lock, hits, hitsTtl, counters, ghosts>>

Expire(t) ==
    /\ at[t].step = "expire"
    /\ failsTtl' = (fails > 0)
    /\ Goes(t, IF at[t].n >= LoginLimit THEN "lock" ELSE "idle", 0)
    /\ UNCHANGED <<fails, lock, hits, hitsTtl, counters, ghosts>>

Lock(t) ==
    /\ at[t].step = "lock"
    /\ lock' = TRUE
    /\ Goes(t, "delete", 0)
    /\ UNCHANGED <<fails, failsTtl, hits, hitsTtl, counters, ghosts>>

Delete(t) ==
    /\ at[t].step = "delete"
    /\ fails' = 0 /\ failsTtl' = FALSE /\ lostExpire' = lostExpire \ {"fails"}
    /\ Goes(t, "idle", 0)
    /\ UNCHANGED <<lock, hits, hitsTtl, counters, guesses, disturbed>>

\* FailedLoginTracker.record_failure
RecordFailure ==
    IF counters.fails + 1 >= LoginLimit
    THEN [counters EXCEPT !.fails = 0, !.lock = TRUE]
    ELSE [counters EXCEPT !.fails = @ + 1]

Recording == {"incr", "expire", "lock", "delete"}

\* any command of the recording raises: the failure counts in memory
FailureRaises(t) ==
    /\ at[t].step \in Recording
    /\ counters' = RecordFailure
    /\ disturbed' = TRUE
    /\ lostExpire' = IF at[t].step = "expire" THEN lostExpire \cup {"fails"} ELSE lostExpire
    /\ Goes(t, "idle", 0)
    /\ UNCHANGED <<keys, guesses>>

\* one DEL of both keys
Clear(t) ==
    /\ at[t].step = "clear"
    /\ fails' = 0 /\ failsTtl' = FALSE /\ lock' = FALSE
    /\ lostExpire' = lostExpire \ {"fails"} /\ guesses' = 0
    /\ disturbed' = (disturbed \/ \E o \in Slots : at[o].step \in Recording)
    /\ Goes(t, "idle", 0)
    /\ UNCHANGED <<hits, hitsTtl, counters>>

ClearRaises(t) ==
    /\ at[t].step = "clear"
    /\ counters' = [counters EXCEPT !.fails = 0, !.lock = FALSE]
    /\ disturbed' = TRUE
    /\ Goes(t, "idle", 0)
    /\ UNCHANGED <<keys, guesses, lostExpire>>

-----------------------------------------------------------------------------
(* Time passes, between requests, and the API restarts.                     *)

Quiet == \A t \in Slots : at[t].step = "idle"

\* a new window for the lockout
WindowEnds ==
    /\ Quiet
    /\ \/ lock /\ lock' = FALSE /\ UNCHANGED <<fails, failsTtl>>
       \/ failsTtl /\ fails' = 0 /\ failsTtl' = FALSE /\ UNCHANGED lock
    /\ guesses' = 0 /\ disturbed' = FALSE
    /\ UNCHANGED <<hits, hitsTtl, counters, at, lostExpire>>

HitsExpire ==
    /\ Quiet /\ hitsTtl
    /\ hits' = 0 /\ hitsTtl' = FALSE
    /\ UNCHANGED <<fails, failsTtl, lock, counters, at, ghosts>>

\* the sliding windows of the in-memory counters
MemoryForgets ==
    /\ counters' \in {[fails |-> 0, lock |-> counters.lock, hits |-> counters.hits],
                    [fails |-> counters.fails, lock |-> FALSE, hits |-> counters.hits],
                    [fails |-> counters.fails, lock |-> counters.lock, hits |-> 0]}
    /\ UNCHANGED <<keys, at, ghosts>>

RestartApi ==
    /\ counters' = [fails |-> 0, lock |-> FALSE, hits |-> 0]
    /\ at' = [t \in Slots |-> Ready]
    /\ disturbed' = TRUE
    /\ lostExpire' = lostExpire
          \cup (IF \E t \in Slots : at[t].step = "hit_expire" THEN {"hits"} ELSE {})
          \cup (IF \E t \in Slots : at[t].step = "expire" THEN {"fails"} ELSE {})
    /\ UNCHANGED <<keys, guesses>>

-----------------------------------------------------------------------------
Request(t) ==
    \/ Hit(t) \/ HitExpire(t) \/ HitRaises(t)
    \/ IsLocked(t) \/ IsLockedRaises(t) \/ Verify(t)
    \/ Incr(t) \/ Expire(t) \/ Lock(t) \/ Delete(t) \/ FailureRaises(t)
    \/ Clear(t) \/ ClearRaises(t)

ThrottleNext ==
    \/ \E t \in Slots : Request(t)
    \/ WindowEnds \/ HitsExpire \/ MemoryForgets \/ RestartApi

ThrottleSpec == ThrottleInit /\ [][ThrottleNext]_throttleVars

-----------------------------------------------------------------------------
(* Properties.                                                              *)

\* In a window that nothing disturbs no more than LoginLimit wrong passwords are
\* tried, and one for every other request that had passed the lock by then.
GuessesAreBounded == disturbed \/ guesses <= MaxGuesses

\* A counter that would count for ever, and so lock everybody out at last, is
\* there only after its EXPIRE was lost to an outage or a crash: no race
\* between requests makes one.
StuckOnlyByLostExpire ==
    /\ (fails > 0 /\ ~failsTtl) =>
          ("fails" \in lostExpire \/ \E t \in Slots : at[t].step = "expire")
    /\ (hits > 0 /\ ~hitsTtl) =>
          ("hits" \in lostExpire \/ \E t \in Slots : at[t].step = "hit_expire")

=============================================================================
