------------------------------ MODULE Identities ------------------------------
(***************************************************************************)
(* Accounts and the identities that sign in to them: registration with an  *)
(* address, its verification by mail (routers/auth.py, routers/users.py)   *)
(* and sign-in through an OAuth provider (auth/oauth.py and the callback). *)
(*                                                                         *)
(* The callback is a coroutine of the one process that runs the event      *)
(* loop: from the provider's answer to the commit it does not await, so no *)
(* two callbacks overlap there.  Registrations and verifications run in    *)
(* threads and the deletion of accounts in the worker; they do overlap it. *)
(***************************************************************************)
EXTENDS Naturals, FiniteSets

CONSTANTS
    Accounts,   \* rows of users, each inserted at most once
    Emails,     \* addresses
    Providers,  \* the providers that are configured
    Ids,        \* subjects of a provider
    Threads,    \* threads of the API's pool
    MaxStates,  \* bound: sign-ins of a provider under way at a time
    NULL        \* no address, no identity, no account

VARIABLES
    account,     \* rows of users
    mailed,      \* accounts to which a verification token has been sent
    states,      \* per provider: one-time states in the memory of the process
    exchanging,  \* per provider: callbacks that wait for the provider
    callback,    \* the callback that the event loop runs
    session      \* per thread: the address of the registration it handles

flow == <<states, exchanging>>
vars == <<account, mailed, flow, callback, session>>

ASSUME IdentitiesAssumption ==
    /\ Providers \subseteq {"google", "facebook", "github", "twitter"}
    /\ NULL \notin Emails \cup Ids \cup Accounts
    /\ MaxStates \in Nat

Row == [status: {"new", "there", "gone"}, email: Emails \cup {NULL}, verified: BOOLEAN,
        links: [Providers -> Ids \cup {NULL}]]

Blank == [status |-> "new", email |-> NULL, verified |-> FALSE,
          links |-> [p \in Providers |-> NULL]]

\* verified: the provider claims that the address is the identity's; on: the account that was found
Callback == [req: {"idle", "answered", "found"}, provider: Providers \cup {NULL},
             id: Ids \cup {NULL}, email: Emails \cup {NULL}, verified: BOOLEAN,
             on: Accounts \cup {NULL}]

Idle == [req |-> "idle", provider |-> NULL, id |-> NULL, email |-> NULL,
         verified |-> FALSE, on |-> NULL]

There(a) == account[a].status = "there"

\* an account always has an address: the column is NOT NULL
TypeOK ==
    /\ account \in [Accounts -> Row]
    /\ \A a \in Accounts : There(a) => account[a].email # NULL
    /\ mailed \subseteq Accounts
    /\ states \in [Providers -> 0..MaxStates]
    /\ exchanging \in [Providers -> 0..MaxStates]
    /\ callback \in Callback
    /\ session \in [Threads -> Emails \cup {NULL}]

Init ==
    /\ account = [a \in Accounts |-> Blank]
    /\ mailed = {}
    /\ states = [p \in Providers |-> 0]
    /\ exchanging = [p \in Providers |-> 0]
    /\ callback = Idle
    /\ session = [t \in Threads |-> NULL]

HasEmail(a, e) == There(a) /\ account[a].email = e

\* the unique index on users.email, past which an INSERT or UPDATE fails
Taken(e, a) == \E b \in Accounts \ {a} : HasEmail(b, e)

-----------------------------------------------------------------------------
(* Registration and verification of the address.                            *)

\* a known address gets another mail and the same answer
StartRegister(t, e) ==
    /\ session[t] = NULL
    /\ ~ \E a \in Accounts : HasEmail(a, e)
    /\ session' = [session EXCEPT ![t] = e]
    /\ UNCHANGED <<account, mailed, flow, callback>>

LocalFields(e) == [Blank EXCEPT !.status = "there", !.email = e]

\* sent: the mail goes out after the commit, and may not
Register(t, a, sent) ==
    LET e == session[t] IN
    /\ e # NULL /\ account[a].status = "new"
    /\ IF Taken(e, a)
       THEN UNCHANGED <<account, mailed>>
       ELSE /\ account' = [account EXCEPT ![a] = LocalFields(e)]
            /\ mailed' = IF sent THEN mailed \cup {a} ELSE mailed
    /\ session' = [session EXCEPT ![t] = NULL]
    /\ UNCHANGED <<flow, callback>>

ResendVerification(a) ==
    /\ There(a) /\ ~account[a].verified
    /\ mailed' = mailed \cup {a}
    /\ UNCHANGED <<account, flow, callback, session>>

\* the token names the account, and may be used again
VerifyEmail(a) ==
    /\ a \in mailed /\ There(a)
    /\ account' = [account EXCEPT ![a].verified = TRUE]
    /\ UNCHANGED <<mailed, flow, callback, session>>

-----------------------------------------------------------------------------
(* Sign-in through a provider.                                              *)

AuthorizeRedirect(p) ==
    /\ states[p] < MaxStates
    /\ states' = [states EXCEPT ![p] = @ + 1]
    /\ UNCHANGED <<account, mailed, exchanging, callback, session>>

\* after ten minutes, or brought to the callback of another provider
DropState(p) ==
    /\ states[p] > 0
    /\ states' = [states EXCEPT ![p] = @ - 1]
    /\ UNCHANGED <<account, mailed, exchanging, callback, session>>

\* the state is taken out before the provider is asked
ValidateState(p) ==
    /\ states[p] > 0 /\ exchanging[p] < MaxStates
    /\ states' = [states EXCEPT ![p] = @ - 1]
    /\ exchanging' = [exchanging EXCEPT ![p] = @ + 1]
    /\ UNCHANGED <<account, mailed, callback, session>>

\* the provider refuses, is silent or answers without a token
ExchangeFails(p) ==
    /\ exchanging[p] > 0
    /\ exchanging' = [exchanging EXCEPT ![p] = @ - 1]
    /\ UNCHANGED <<account, mailed, states, callback, session>>

\* email_verified as normalize_profile hands it on
Claims(p, e, verified) ==
    \/ p = "google" /\ verified
    \/ p = "facebook" /\ e # NULL

\* the answer is read on the event loop, which runs one callback at a time
ExchangeCode(p, i, e, verified) ==
    /\ exchanging[p] > 0 /\ callback.req = "idle"
    /\ exchanging' = [exchanging EXCEPT ![p] = @ - 1]
    /\ callback' = [Idle EXCEPT !.req = "answered", !.provider = p, !.id = i,
                                !.email = e, !.verified = Claims(p, e, verified)]
    /\ UNCHANGED <<account, mailed, states, session>>

ByProvider(p, i) == {a \in Accounts : There(a) /\ account[a].links[p] = i}

ByEmail(e) == {a \in Accounts : e # NULL /\ HasEmail(a, e)}

\* mutant: looks for the address first
FoundByEmailFirst(p, i, e) == IF ByEmail(e) # {} THEN ByEmail(e) ELSE ByProvider(p, i)

\* the account of the identity; without one, the account of the address
Found(p, i, e) == IF ByProvider(p, i) # {} THEN ByProvider(p, i) ELSE ByEmail(e)

\* mutant: an account found by its address needs no claim
MaySignInUnclaimed(c) == TRUE

\* an account found by its address alone needs the provider's claim, else 403
MaySignIn(c) == ByProvider(c.provider, c.id) # {} \/ c.verified

FindAccount ==
    LET c == callback
        found == Found(c.provider, c.id, c.email)
    IN
    /\ c.req = "answered"
    /\ \/ /\ found = {}
          /\ callback' = [c EXCEPT !.req = "found"]
       \/ /\ found # {} /\ ~MaySignIn(c)
          /\ callback' = Idle
       \/ /\ MaySignIn(c)
          /\ \E a \in found : callback' = [c EXCEPT !.req = "found", !.on = a]
    /\ UNCHANGED <<account, mailed, flow, session>>

\* mutant: an answer without an address leaves the column empty
Storable(e, a) == ~Taken(e, a)

\* users.email is unique and NOT NULL
Stored(e, a) == e # NULL /\ ~Taken(e, a)

\* the row takes over the provider's address, verified, whatever it held
OAuthFields(row, c) ==
    [row EXCEPT !.status = "there", !.email = c.email, !.verified = TRUE,
                !.links[c.provider] = c.id]

\* the INSERT of a new account or the UPDATE of the one that was found; a row
\* that has gone, or an address that cannot be stored, and the request fails
SaveOauth(a) ==
    LET c == callback IN
    /\ c.req = "found"
    /\ IF c.on = NULL THEN account[a].status = "new" ELSE a = c.on
    /\ account' = IF Stored(c.email, a) /\ (c.on = NULL \/ There(a))
                  THEN [account EXCEPT ![a] = OAuthFields(@, c)] ELSE account
    /\ callback' = Idle
    /\ UNCHANGED <<mailed, flow, session>>

-----------------------------------------------------------------------------
(* The worker and the process.                                              *)

\* delete_scheduled_accounts
DeleteAccount(a) ==
    /\ There(a)
    /\ account' = [account EXCEPT ![a] = [Blank EXCEPT !.status = "gone"]]
    /\ UNCHANGED <<mailed, flow, callback, session>>

\* the states are in the memory of the process
Restart ==
    /\ states' = [p \in Providers |-> 0]
    /\ exchanging' = [p \in Providers |-> 0]
    /\ callback' = Idle
    /\ session' = [t \in Threads |-> NULL]
    /\ UNCHANGED <<account, mailed>>

-----------------------------------------------------------------------------
Local ==
    \/ \E t \in Threads, e \in Emails : StartRegister(t, e)
    \/ \E t \in Threads, a \in Accounts, sent \in BOOLEAN : Register(t, a, sent)
    \/ \E a \in Accounts : ResendVerification(a) \/ VerifyEmail(a)

Federated ==
    \/ \E p \in Providers :
          AuthorizeRedirect(p) \/ DropState(p) \/ ValidateState(p) \/ ExchangeFails(p)
    \/ \E p \in Providers, i \in Ids, e \in Emails \cup {NULL}, verified \in BOOLEAN :
          ExchangeCode(p, i, e, verified)
    \/ FindAccount
    \/ \E a \in Accounts : SaveOauth(a)

Next ==
    \/ Local
    \/ Federated
    \/ \E a \in Accounts : DeleteAccount(a)
    \/ Restart

Spec == Init /\ [][Next]_vars

-----------------------------------------------------------------------------
(* Properties.                                                              *)

\* An address and an identity each lead to one account at most, whatever the
\* registrations, callbacks and deletions that overlapped: no user signs in to
\* one account today and to another tomorrow.
IdentityOfOneAccount ==
    \A a, b \in Accounts : (There(a) /\ There(b) /\ a # b) =>
        /\ account[a].email # account[b].email
        /\ \A p \in Providers : account[a].links[p] # NULL =>
              account[a].links[p] # account[b].links[p]

\* An identity is added to an account that is there, or replaces another one on
\* it, only on the word of the provider that it owns the address; the check
\* comes before the save, and what was found may have changed by then.
LinkedOnlyOnClaim ==
    [][\A a \in Accounts, p \in Providers :
          (There(a) /\ There(a)' /\ account'[a].links[p] # account[a].links[p]) =>
             callback.provider = p /\ callback.verified]_vars

=============================================================================
