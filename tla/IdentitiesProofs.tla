-------------------------- MODULE IdentitiesProofs --------------------------
(***************************************************************************)
(* Proofs about Identities, for any accounts, addresses, providers,        *)
(* subjects and threads.                                                   *)
(***************************************************************************)
EXTENDS Identities, TLAPS

USE IdentitiesAssumption

\* The callback that runs has a provider and an identity, and the accounts it
\* may have found are not waiting for their first INSERT.
Answered ==
    /\ callback.req # "idle" => callback.provider \in Providers /\ callback.id \in Ids
    /\ callback.req = "answered" => callback.on = NULL
    /\ callback.on # NULL => account[callback.on].status # "new"

\* Between the search and the save: whoever has the identity is the account that
\* was found, and an account found without a claim still has it.
Searched ==
    callback.req = "found" =>
        \A a \in Accounts : There(a) =>
            /\ account[a].links[callback.provider] = callback.id => a = callback.on
            /\ (a = callback.on /\ ~callback.verified) =>
                  account[a].links[callback.provider] = callback.id

\* A row that is not in the table has no identity.
BlankRows ==
    \A a \in Accounts, p \in Providers : ~There(a) => account[a].links[p] = NULL

Inv == TypeOK /\ Answered /\ Searched /\ BlankRows /\ IdentityOfOneAccount

-----------------------------------------------------------------------------
(* What the steps do to the accounts.                                       *)

\* An UPDATE or INSERT of one row leaves the others alone.
LEMMA OneRow ==
    ASSUME TypeOK, NEW a \in Accounts, NEW row \in Row,
           account' = [account EXCEPT ![a] = row]
    PROVE  /\ account' \in [Accounts -> Row]
           /\ account'[a] = row
           /\ \A b \in Accounts \ {a} : account'[b] = account[b]
BY DEF TypeOK

\* A step that leaves the rows and the callback alone keeps all but the types.
LEMMA NeitherRowsNorCallback ==
    ASSUME Inv, TypeOK', UNCHANGED <<account, callback>>
    PROVE  Inv'
BY DEF Inv, Answered, Searched, BlankRows, IdentityOfOneAccount, There

\* A callback that ends, or that never began, asks nothing of the accounts.
LEMMA NoCallback ==
    ASSUME Inv, TypeOK', account' = account, callback' = Idle
    PROVE  Inv'
<1>1. Idle.req = "idle" /\ Idle.on = NULL
  BY DEF Idle
<1> QED
  BY <1>1 DEF Inv, Answered, Searched, BlankRows, IdentityOfOneAccount, There

LEMMA IdleIsCallback == Idle \in Callback
BY DEF Idle, Callback

\* A row that changes, keeps its identities or loses them with the row, and has
\* an address of its own.
LEMMA SameIdentities ==
    ASSUME Inv, TypeOK', callback' = callback, NEW a \in Accounts,
           \A b \in Accounts \ {a} : account'[b] = account[b],
           account'[a].status # "new",
           account'[a].status # "there" => \A p \in Providers : account'[a].links[p] = NULL,
           account'[a].status = "there" =>
              /\ There(a) \/ account[a].status = "new"
              /\ \A p \in Providers : account'[a].links[p] = account[a].links[p]
              /\ ~Taken(account'[a].email, a)
    PROVE  Inv'
<1> USE DEF Inv
<1>1. Answered'
  <2>1. callback.on = NULL \/ callback.on \in Accounts
    BY DEF TypeOK, Callback
  <2>2. callback.on \in Accounts => account'[callback.on].status # "new"
    BY DEF Answered
  <2> QED
    BY <2>1, <2>2 DEF Answered
<1>2. Searched'
  <2> SUFFICES ASSUME callback.req = "found", NEW b \in Accounts, account'[b].status = "there"
               PROVE  /\ account'[b].links[callback.provider] = callback.id => b = callback.on
                      /\ (b = callback.on /\ ~callback.verified) =>
                            account'[b].links[callback.provider] = callback.id
    BY DEF Searched, There
  <2>1. callback.provider \in Providers /\ callback.id \in Ids
    BY DEF Answered
  <2>2. /\ There(b) \/ account[b].status = "new"
        /\ account'[b].links[callback.provider] = account[b].links[callback.provider]
    BY <2>1 DEF There
  <2>3. CASE There(b)
    BY <2>2, <2>3 DEF Searched
  <2>4. CASE ~There(b)
    <3>1. account[b].status = "new" /\ account[b].links[callback.provider] = NULL
      BY <2>1, <2>2, <2>4 DEF BlankRows
    <3> QED
      BY <2>1, <2>2, <3>1 DEF Answered
  <2> QED
    BY <2>3, <2>4
<1>3. BlankRows'
  BY DEF BlankRows, There
<1>4. IdentityOfOneAccount'
  BY DEF IdentityOfOneAccount, BlankRows, There, Taken, HasEmail
<1> QED
  BY <1>1, <1>2, <1>3, <1>4

-----------------------------------------------------------------------------
(* Registration, verification, deletion.                                    *)

LEMMA LocalStep ==
    ASSUME Inv, Local PROVE Inv'
<1> USE DEF Inv
<1>1. ASSUME NEW t \in Threads, NEW e \in Emails, StartRegister(t, e) PROVE Inv'
  <2>1. TypeOK'
    BY <1>1 DEF StartRegister, TypeOK, There, flow
  <2> QED
    BY <1>1, <2>1, NeitherRowsNorCallback DEF StartRegister
<1>2. ASSUME NEW t \in Threads, NEW a \in Accounts, NEW sent \in BOOLEAN, Register(t, a, sent) PROVE Inv'
  <2>1. PICK e \in Emails : e = session[t]
    BY <1>2 DEF Register, TypeOK
  <2> DEFINE row == LocalFields(e)
  <2>2. /\ row \in Row /\ row.status = "there" /\ row.email = e
        /\ \A p \in Providers : row.links[p] = NULL
    BY DEF LocalFields, Blank, Row
  <2>3. CASE Taken(e, a)
    <3>1. UNCHANGED <<account, callback>>
      BY <1>2, <2>1, <2>3 DEF Register, Taken, HasEmail
    <3>2. TypeOK'
      BY <1>2, <2>1, <2>3, <3>1 DEF Register, TypeOK, There, flow, Taken, HasEmail
    <3> QED
      BY <3>1, <3>2, NeitherRowsNorCallback
  <2>4. CASE ~Taken(e, a)
    <3>1. account' = [account EXCEPT ![a] = row] /\ callback' = callback /\ account[a].status = "new"
      BY <1>2, <2>1, <2>4 DEF Register, Taken, HasEmail
    <3> HIDE DEF row
    <3>2. /\ account' \in [Accounts -> Row] /\ account'[a] = row
          /\ \A b \in Accounts \ {a} : account'[b] = account[b]
      BY <2>2, <3>1, OneRow
    <3>3. TypeOK'
      <4>1. mailed' \subseteq Accounts /\ UNCHANGED <<states, exchanging, callback>>
        BY <1>2 DEF Register, TypeOK, flow
      <4>2. session' \in [Threads -> Emails \cup {NULL}]
        BY <1>2 DEF Register, TypeOK
      <4> QED
        BY <2>2, <3>2, <4>1, <4>2 DEF TypeOK, There
    <3>4. ~There(a) /\ \A p \in Providers : account[a].links[p] = NULL
      BY <3>1 DEF BlankRows, There
    <3>5. ~Taken(account'[a].email, a)
      BY <2>2, <2>4, <3>2 DEF Taken
    <3> QED
      BY <2>2, <3>1, <3>2, <3>3, <3>4, <3>5, SameIdentities
  <2> QED
    BY <2>3, <2>4
<1>3. ASSUME NEW a \in Accounts, ResendVerification(a) PROVE Inv'
  <2>1. TypeOK'
    BY <1>3 DEF ResendVerification, TypeOK, There, flow
  <2> QED
    BY <1>3, <2>1, NeitherRowsNorCallback DEF ResendVerification
<1>4. ASSUME NEW a \in Accounts, VerifyEmail(a) PROVE Inv'
  <2> DEFINE row == [account[a] EXCEPT !.verified = TRUE]
  <2>1. /\ row \in Row /\ row.status = "there" /\ row.email = account[a].email
        /\ row.links = account[a].links
    BY ZenonT(60), <1>4 DEF VerifyEmail, There, TypeOK, Row
  <2>2. account' = [account EXCEPT ![a] = row] /\ There(a) /\ UNCHANGED <<mailed, states, exchanging, callback, session>>
    BY <1>4 DEF VerifyEmail, flow
  <2> HIDE DEF row
  <2>3. /\ account' \in [Accounts -> Row] /\ account'[a] = row
        /\ \A b \in Accounts \ {a} : account'[b] = account[b]
    BY <2>1, <2>2, OneRow
  <2>4. TypeOK'
    BY <2>1, <2>2, <2>3 DEF TypeOK, There
  <2>5. ~Taken(account'[a].email, a)
    BY <2>1, <2>2, <2>3 DEF IdentityOfOneAccount, Taken, HasEmail
  <2> QED
    BY <2>1, <2>2, <2>3, <2>4, <2>5, SameIdentities
<1> QED
  BY <1>1, <1>2, <1>3, <1>4 DEF Local

LEMMA DeleteStep ==
    ASSUME Inv, NEW a \in Accounts, DeleteAccount(a) PROVE Inv'
<1> USE DEF Inv
<1> DEFINE row == [Blank EXCEPT !.status = "gone"]
<1>1. row \in Row /\ row.status = "gone" /\ \A p \in Providers : row.links[p] = NULL
  BY DEF Blank, Row
<1>2. account' = [account EXCEPT ![a] = row] /\ UNCHANGED <<mailed, states, exchanging, callback, session>>
  BY DEF DeleteAccount, flow
<1> HIDE DEF row
<1>3. /\ account' \in [Accounts -> Row] /\ account'[a] = row
      /\ \A b \in Accounts \ {a} : account'[b] = account[b]
  BY <1>1, <1>2, OneRow
<1>4. TypeOK'
  BY <1>1, <1>2, <1>3 DEF TypeOK, There
<1> QED
  BY <1>1, <1>2, <1>3, <1>4, SameIdentities

-----------------------------------------------------------------------------
(* Sign-in through a provider.                                              *)

\* The provider's answer: a fresh callback, nothing searched yet.
LEMMA ExchangeStep ==
    ASSUME Inv, NEW p \in Providers, NEW i \in Ids, NEW e \in Emails \cup {NULL},
           NEW verified \in BOOLEAN, ExchangeCode(p, i, e, verified)
    PROVE  Inv'
<1> USE DEF Inv
<1> DEFINE claim == IF Claims(p, e, verified) THEN TRUE ELSE FALSE
           c == [Idle EXCEPT !.req = "answered", !.provider = p, !.id = i, !.email = e,
                             !.verified = Claims(p, e, verified)]
<1>0. Claims(p, e, verified) \in BOOLEAN
  BY DEF Claims
<1>1. c \in Callback /\ c.req = "answered" /\ c.provider = p /\ c.id = i /\ c.on = NULL
  BY <1>0 DEF Idle, Callback
<1>2. callback' = c /\ account' = account
  BY DEF ExchangeCode
<1> HIDE DEF c
<1>3. TypeOK'
  <2>1. exchanging' \in [Providers -> 0..MaxStates]
    BY DEF ExchangeCode, TypeOK
  <2> QED
    BY <1>1, <1>2, <2>1 DEF ExchangeCode, TypeOK, There
<1> QED
  BY <1>1, <1>2, <1>3 DEF Answered, Searched, BlankRows, IdentityOfOneAccount, There

\* The search: by the identity, of which there is one account at most, or by the
\* address, when there is none.
LEMMA FindStep ==
    ASSUME Inv, FindAccount PROVE Inv'
<1> USE DEF Inv
<1>1. callback \in Callback /\ callback.provider \in Providers /\ callback.id \in Ids
  BY DEF FindAccount, Answered, TypeOK
<1>2. account' = account /\ UNCHANGED <<mailed, states, exchanging, session>>
  BY DEF FindAccount, flow
<1>3. ASSUME callback' = Idle PROVE Inv'
  <2>1. TypeOK'
    BY <1>2, <1>3, IdleIsCallback DEF TypeOK, There
  <2> QED
    BY <1>2, <1>3, <2>1, NoCallback
<1>4. ASSUME NEW on \in Accounts \cup {NULL},
             callback' = [[callback EXCEPT !.req = "found"] EXCEPT !.on = on],
             \A b \in ByProvider(callback.provider, callback.id) : b = on,
             on # NULL => There(on) /\ (callback.verified \/ on \in ByProvider(callback.provider, callback.id))
      PROVE  Inv'
  <2>1. /\ callback' \in Callback /\ callback'.req = "found" /\ callback'.on = on
        /\ callback'.provider = callback.provider /\ callback'.id = callback.id
        /\ callback'.verified = callback.verified
    BY <1>1, <1>4 DEF Callback
  <2>2. TypeOK'
    BY <1>2, <2>1 DEF TypeOK, There
  <2>3. Answered'
    BY <1>1, <1>2, <1>4, <2>1 DEF Answered, There
  <2>4. Searched'
    BY <1>2, <1>4, <2>1 DEF Searched, ByProvider, There
  <2> QED
    BY <1>2, <2>2, <2>3, <2>4 DEF BlankRows, IdentityOfOneAccount, There
<1>5. CASE /\ Found(callback.provider, callback.id, callback.email) = {}
           /\ callback' = [callback EXCEPT !.req = "found"]
  <2>1. callback.on = NULL
    BY DEF FindAccount, Answered
  <2>2. callback' = [[callback EXCEPT !.req = "found"] EXCEPT !.on = NULL]
    BY <1>1, <1>5, <2>1 DEF Callback
  <2>3. ByProvider(callback.provider, callback.id) = {}
    BY <1>5 DEF Found
  <2> QED
    BY <1>4, <2>2, <2>3
<1>6. ASSUME MaySignIn(callback),
             NEW a \in Found(callback.provider, callback.id, callback.email),
             callback' = [callback EXCEPT !.req = "found", !.on = a]
      PROVE  Inv'
  <2>1. a \in Accounts /\ There(a)
    BY DEF Found, ByProvider, ByEmail, HasEmail
  <2>2. \A b \in ByProvider(callback.provider, callback.id) : b = a
    BY <1>1, <1>6 DEF Found, ByProvider, IdentityOfOneAccount
  <2>3. callback.verified \/ a \in ByProvider(callback.provider, callback.id)
    BY <1>6 DEF MaySignIn, Found
  <2> QED
    BY <1>4, <1>6, <2>1, <2>2, <2>3
<1> QED
  BY <1>3, <1>5, <1>6 DEF FindAccount

\* The save: what was found is still what the provider answers for, since only
\* this step gives an account an identity.
LEMMA SaveStep ==
    ASSUME Inv, NEW a \in Accounts, SaveOauth(a) PROVE Inv'
<1> USE DEF Inv
<1>1. callback \in Callback /\ callback.provider \in Providers /\ callback.id \in Ids
  BY DEF SaveOauth, Answered, TypeOK
<1>2. callback' = Idle /\ UNCHANGED <<mailed, states, exchanging, session>> /\ callback.req = "found"
  BY DEF SaveOauth, flow
<1>3. CASE account' = account
  <2>1. TypeOK'
    BY <1>2, <1>3, IdleIsCallback DEF TypeOK, There
  <2> QED
    BY <1>2, <1>3, <2>1, NoCallback
<1>4. CASE Stored(callback.email, a) /\ (callback.on = NULL \/ There(a))
  <2> DEFINE row == OAuthFields(account[a], callback)
  <2>1. account[a] \in Row /\ callback.email \in Emails /\ ~Taken(callback.email, a)
    BY <1>1, <1>4 DEF Stored, TypeOK, Callback
  <2>2. /\ row \in Row /\ row.status = "there" /\ row.email = callback.email
        /\ row.links = [account[a].links EXCEPT ![callback.provider] = callback.id]
    BY <1>1, <2>1 DEF OAuthFields, Row
  <2>3. account' = [account EXCEPT ![a] = row]
    BY <1>4 DEF SaveOauth
  <2> HIDE DEF row
  <2>4. /\ account' \in [Accounts -> Row] /\ account'[a] = row
        /\ \A b \in Accounts \ {a} : account'[b] = account[b]
    BY <2>2, <2>3, OneRow
  <2>5. TypeOK'
    BY <1>2, <2>1, <2>2, <2>4, IdleIsCallback DEF TypeOK, There
  <2>6. \A p \in Providers : row.links[p] = IF p = callback.provider THEN callback.id ELSE account[a].links[p]
    BY <1>1, <2>1, <2>2 DEF Row
  <2>7. ASSUME NEW b \in Accounts \ {a}, There(b)
        PROVE  account[b].links[callback.provider] # callback.id
    <3>1. a = callback.on \/ callback.on = NULL
      BY DEF SaveOauth
    <3> QED
      BY <1>2, <2>7, <3>1 DEF Searched
  <2>8. There(a) \/ \A p \in Providers : account[a].links[p] = NULL
    BY DEF BlankRows
  <2>9. Answered' /\ Searched'
    BY <1>2 DEF Answered, Searched, Idle
  <2>10. BlankRows'
    <3>1. \A b \in Accounts \ {a}, p \in Providers : account'[b].status # "there" => account'[b].links[p] = NULL
      BY <2>4 DEF BlankRows, There
    <3>2. account'[a].status = "there"
      BY <2>2, <2>4
    <3> QED
      BY <3>1, <3>2 DEF BlankRows, There
  <2>11. ASSUME NEW b \in Accounts \ {a}, There(b)
         PROVE  /\ account[b].email # row.email
                /\ \A p \in Providers : row.links[p] # NULL => row.links[p] # account[b].links[p]
    <3>1. account[b].email # row.email
      BY <2>1, <2>2, <2>11 DEF Taken, HasEmail
    <3>2. ASSUME NEW p \in Providers, row.links[p] # NULL PROVE row.links[p] # account[b].links[p]
      <4>1. CASE p = callback.provider
        BY <2>6, <2>7, <2>11, <4>1
      <4>2. CASE p # callback.provider
        <5>1. row.links[p] = account[a].links[p] /\ There(a)
          BY <2>6, <2>8, <3>2, <4>2
        <5> QED
          BY <2>11, <3>2, <5>1 DEF IdentityOfOneAccount
      <4> QED
        BY <4>1, <4>2
    <3> QED
      BY <3>1, <3>2
  <2>12. ASSUME NEW b \in Accounts, NEW d \in Accounts, There(b)', There(d)', b # d
         PROVE  /\ account'[b].email # account'[d].email
                /\ \A p \in Providers : account'[b].links[p] # NULL =>
                      account'[b].links[p] # account'[d].links[p]
    <3>1. CASE b = a
      <4>1. d \in Accounts \ {a} /\ There(d) /\ account'[d] = account[d]
        BY <2>4, <2>12, <3>1 DEF There
      <4> QED
        BY <2>4, <2>11, <3>1, <4>1
    <3>2. CASE d = a
      <4>1. b \in Accounts \ {a} /\ There(b) /\ account'[b] = account[b]
        BY <2>4, <2>12, <3>2 DEF There
      <4> QED
        BY <2>4, <2>11, <3>2, <4>1
    <3>3. CASE b # a /\ d # a
      <4>1. There(b) /\ There(d) /\ account'[b] = account[b] /\ account'[d] = account[d]
        BY <2>4, <2>12, <3>3 DEF There
      <4> QED
        BY <2>12, <4>1 DEF IdentityOfOneAccount
    <3> QED
      BY <3>1, <3>2, <3>3
  <2>13. IdentityOfOneAccount'
    BY <2>12 DEF IdentityOfOneAccount
  <2> QED
    BY <2>5, <2>9, <2>10, <2>13
<1> QED
  BY <1>3, <1>4 DEF SaveOauth

\* The steps before the search touch neither the rows nor the callback.
LEMMA FederatedStep ==
    ASSUME Inv, Federated PROVE Inv'
<1> USE DEF Inv
<1>1. ASSUME NEW p \in Providers,
             AuthorizeRedirect(p) \/ DropState(p) \/ ValidateState(p) \/ ExchangeFails(p)
      PROVE  Inv'
  <2>1. /\ UNCHANGED <<account, mailed, callback, session>>
        /\ \/ states' = states
           \/ states[p] < MaxStates /\ states' = [states EXCEPT ![p] = @ + 1]
           \/ states[p] > 0 /\ states' = [states EXCEPT ![p] = @ - 1]
        /\ \/ exchanging' = exchanging
           \/ exchanging[p] < MaxStates /\ exchanging' = [exchanging EXCEPT ![p] = @ + 1]
           \/ exchanging[p] > 0 /\ exchanging' = [exchanging EXCEPT ![p] = @ - 1]
    BY <1>1 DEF AuthorizeRedirect, DropState, ValidateState, ExchangeFails
  <2>2. states' \in [Providers -> 0..MaxStates] /\ exchanging' \in [Providers -> 0..MaxStates]
    BY <2>1 DEF TypeOK
  <2>3. TypeOK'
    BY <2>1, <2>2 DEF TypeOK, There
  <2> QED
    BY <2>1, <2>3, NeitherRowsNorCallback
<1> QED
  BY <1>1, ExchangeStep, FindStep, SaveStep DEF Federated

LEMMA InvStep ==
    ASSUME Inv, [Next]_vars PROVE Inv'
<1> USE DEF Inv
<1>1. ASSUME Restart PROVE Inv'
  <2>1. account' = account /\ callback' = Idle
    BY <1>1 DEF Restart
  <2>2. TypeOK'
    BY <1>1, <2>1, IdleIsCallback DEF Restart, TypeOK, There
  <2> QED
    BY <2>1, <2>2, NoCallback
<1>2. ASSUME UNCHANGED vars PROVE Inv'
  <2>1. TypeOK'
    BY <1>2 DEF vars, flow, TypeOK, There
  <2> QED
    BY <1>2, <2>1, NeitherRowsNorCallback DEF vars
<1> QED
  BY <1>1, <1>2, LocalStep, FederatedStep, DeleteStep DEF Next

LEMMA InitInv ==
    ASSUME Init PROVE Inv
<1>1. Blank \in Row /\ Blank.status = "new" /\ \A p \in Providers : Blank.links[p] = NULL
  BY DEF Blank, Row
<1>2. TypeOK
  BY <1>1, IdleIsCallback DEF Init, TypeOK, There
<1>3. \A a \in Accounts : account[a] = Blank
  BY DEF Init
<1>4. Answered /\ Searched /\ BlankRows /\ IdentityOfOneAccount
  BY <1>1, <1>3 DEF Init, Idle, Answered, Searched, BlankRows, IdentityOfOneAccount, There
<1> QED
  BY <1>2, <1>4 DEF Inv

LEMMA Invariant == Spec => []Inv
BY InitInv, InvStep, PTL DEF Spec

-----------------------------------------------------------------------------
(* The theorems.                                                            *)

\* The rows of users, the callbacks and the registrations under way are always of
\* the right kind, and an account that is there has an address.
THEOREM TypeCorrect == Spec => []TypeOK
<1>1. Inv => TypeOK
  BY DEF Inv
<1> QED
  BY <1>1, Invariant, PTL

\* An address and an identity lead to one account at most, though the search and
\* the save of a callback are two steps between which rows come and go.
THEOREM IdentityOfOneAccountHolds == Spec => []IdentityOfOneAccount
<1>1. Inv => IdentityOfOneAccount
  BY DEF Inv
<1> QED
  BY <1>1, Invariant, PTL

\* No account that is there gets an identity without the provider's claim to its
\* address: an account found without one has that identity already.
THEOREM LinkedOnlyOnClaimHolds == Spec => LinkedOnlyOnClaim
<1> DEFINE Step == \A a \in Accounts, p \in Providers :
                     (There(a) /\ There(a)' /\ account'[a].links[p] # account[a].links[p]) =>
                        callback.provider = p /\ callback.verified
<1>1. Inv /\ [Next]_vars => [Step]_vars
  <2> SUFFICES ASSUME Inv, [Next]_vars, NEW a \in Accounts, NEW p \in Providers,
                      There(a), There(a)', account'[a].links[p] # account[a].links[p]
               PROVE  callback.provider = p /\ callback.verified
    OBVIOUS
  <2>1. \E b \in Accounts : SaveOauth(b)
    <3>1. account' # account
      OBVIOUS
    <3>2. ASSUME NEW t \in Threads, NEW b \in Accounts, NEW sent \in BOOLEAN, Register(t, b, sent) PROVE FALSE
      <4>1. account[b].status = "new" /\ (account' = account \/ account' = [account EXCEPT ![b] = LocalFields(session[t])])
        BY <3>2 DEF Register
      <4> QED
        BY <4>1 DEF There, Inv, TypeOK
    <3>3. ASSUME NEW b \in Accounts, VerifyEmail(b) PROVE FALSE
      <4>1. account' = [account EXCEPT ![b] = [account[b] EXCEPT !.verified = TRUE]]
        BY <3>3 DEF VerifyEmail
      <4>2. account[b] \in Row
        BY DEF Inv, TypeOK
      <4>3. [account[b] EXCEPT !.verified = TRUE].links = account[b].links
        BY <4>2 DEF Row
      <4> QED
        BY <4>1, <4>3 DEF Inv, TypeOK
    <3>4. ASSUME NEW b \in Accounts, DeleteAccount(b) PROVE FALSE
      <4>1. account' = [account EXCEPT ![b] = [Blank EXCEPT !.status = "gone"]]
        BY <3>4 DEF DeleteAccount
      <4> QED
        BY <4>1 DEF Inv, TypeOK, Blank, There
    <3> QED
      BY <3>1, <3>2, <3>3, <3>4 DEF Next, Local, Federated, Restart, StartRegister, ResendVerification,
         AuthorizeRedirect, DropState, ValidateState, ExchangeFails, ExchangeCode, FindAccount, vars
  <2>2. PICK b \in Accounts : SaveOauth(b)
    BY <2>1
  <2>3. /\ account' = [account EXCEPT ![b] = OAuthFields(account[b], callback)]
        /\ callback.req = "found"
        /\ IF callback.on = NULL THEN account[b].status = "new" ELSE b = callback.on
    BY <2>2 DEF SaveOauth
  <2>4. a = b /\ a = callback.on
    BY <2>3 DEF Inv, TypeOK, There
  <2>5. account'[a] = OAuthFields(account[a], callback)
    BY <2>3, <2>4 DEF Inv, TypeOK
  <2>6. OAuthFields(account[a], callback).links = [account[a].links EXCEPT ![callback.provider] = callback.id]
    BY DEF OAuthFields, Inv, TypeOK, Row
  <2>7. account[a].links \in [Providers -> Ids \cup {NULL}]
    BY DEF Inv, TypeOK, Row
  <2>8. p = callback.provider /\ account[a].links[p] # callback.id
    BY <2>5, <2>6, <2>7
  <2> QED
    BY <2>3, <2>4, <2>8 DEF Inv, Searched
<1> QED
  BY <1>1, Invariant, PTL DEF Spec, LinkedOnlyOnClaim

=============================================================================
