# Employed: a TLA+ verification project

Employed is a hiring platform: a FastAPI application over PostgreSQL and Redis, an
arq worker, and a Next.js frontend. This directory holds the specifications of its
core logic, the TLC configurations that check them on small instances, and the
theorems about them that TLAPS checks for every instance. `PROJECT.json` says, per
definition, which lines of the source it models.

Paths below are relative to `src/backend/app/`.

## 1. The system

### How it runs

Everything concurrent in this system follows from four facts, and every module here
is built on them.

* **One API process.** The image starts one uvicorn process. A plain `def` endpoint
  runs on a pool of threads, so two of them interleave at any statement. An
  `async def` endpoint runs on the event loop and gives it up only at an `await`
  that really suspends; `settle_intent` is `async` and never does.
* **One worker process.** arq runs `settle_simulated_intent`, `deliver_webhook`,
  `render_resume_pdf` and two cron tasks as coroutines. A task stays in Redis until
  it has ended; after a crash it is run again.
* **Sessions** (`database.py:85-99`). `autoflush=False`, `expire_on_commit=False`,
  READ COMMITTED, and no query takes a row lock. A handler decides on what it has
  loaded and writes later. The UPDATE of the ORM names only the columns whose value
  differs from the loaded one; an UPDATE of a row that has gone raises, a DELETE of
  one only warns.
  `get_db` closes the session at the end of a request and thereby rolls back
  whatever was flushed and not committed.
* **Redis** holds the arq queue, the replay cache, revoked tokens, lockouts and rate
  limits, each with an in-process fallback that another process does not see.

### Inventory

| Component | State | Operations | Interacts with | What is hard | What makes it correct |
|---|---|---|---|---|---|
| Featured-listing payments (`routers/payments.py`, `payments/`) | `payment_intents`; of a job `user_id`, `featured_through`, `featured_charge_history` | initiate, adapters, cancel, status, settle | Stripe, arq, jobs | initiate suspends while its row is visible; cancel, webhook and worker write one row; the job is read early and written late | one open intent per owner and job; nothing featured without a reported success; date and ledger agree; settling is atomic |
| Inbound webhooks (`webhooks/`) | replay cache | Stripe events, mobile-money callbacks | settlement | redelivery, reordering, forgotten cache entries, crash between handling and recording | handling twice is handling once; no report is lost |
| Worker (`workers/`) | arq queue | settle a simulated payment, deliver a webhook, expire jobs, delete accounts, render | all of the above | crash between two steps, batches over stale rows | queued work ends; batches respect what was decided meanwhile |
| Outbound webhooks (`services/webhooks.py`, `routers/webhooks_admin.py`) | `webhook_endpoints`, `webhook_deliveries` | register, deactivate, emit, deliver | admin, hiring pipeline, worker | enqueued before the commit; rollback after the emission; retries | nothing uncommitted is sent, nothing committed is lost, verdicts are final |
| Hiring pipeline (`services/applications.py`) | `applications` | create, change status | outbound webhooks, audit | emission inside the transaction, its errors swallowed | change, audit row and deliveries stand or fall together |
| Jobs and moderation (`routers/jobs.py`, `admin.py`, `reports.py`) | `jobs` with status, history, owner | create, edit, delete, deactivate, approve, bulk, expire, report | payments, verification | owner and admin act on stale statuses; a history list is rewritten whole | nothing goes public unmoderated; history explains the status |
| Verification, trust, audit (`services/verification.py`, `trust.py`, `audit.py`) | `verification_status`, badges, `audit_logs` | verify, block, unpublish, mark for review | jobs, companies, profiles | two moderators at once | only allowed transitions; one audit row each; badges follow |
| Companies, memberships, roles (`services/companies.py`, `memberships.py`, `rbac.py`) | `companies`, `memberships` | create, verify a domain, invite, accept, suspend, auto-join | auth | accept racing suspend; slug probes | every company has an owner; suspended means no permission |
| Authentication and sessions (`routers/auth.py`, `auth/`) | password hash and its date, revoked tokens, lockouts | register, login, refresh, logout, reset, OAuth | users, Redis | tokens outlive decisions; Redis comes and goes | a revoked or outdated token is refused |
| Accounts (`routers/users.py`) | deletion dates | request and cancel deletion | worker | cancellation racing the batch | a cancelled deletion deletes nothing |
| Profiles (`services/profiles_versioning.py`) | `profiles`, `profile_versions` | edit, save a version | export | max + 1 numbering | versions are distinct, increasing, immutable |
| Markets, rate limit, plumbing | request context, counters | resolve the market, count requests | all | counters that outlive a crash | the market decides providers and country |
| Export, resumes, e-mail, sanitising, public pages, frontend, infrastructure | none of their own | format, render, send | all | little | see "Not modelled" |

The hazards that follow from this, with their lines, are listed in `PROJECT.json`.

## 2. The modules

| Module | What it is |
|---|---|
| `Payments` | intents, adapters, cancel, both webhooks, the settling task, settlement, and what the job endpoints do to a listing under payment |
| `FeaturedOrders` | the abstract specification: an order for a listing, once a success is reported of it or strays to it, features the listing and enters its ledger in one step |
| `MCPayments` | the view for TLC |
| `PaymentsProofs` | types, one open intent; in Stripe-only markets the ledger and the refinement of `FeaturedOrders`; charges rest on reports, settling is one step |
| `WebhookDelivery` | endpoints, the two ways of emitting, the arq task |
| `WebhookClaims` | a statement of the docs that the code contradicts |
| `WebhookProofs` | the inductive invariant of `WebhookDelivery` and its safety |
| `JobModeration` | the life of a listing: posting, editing, deactivation, deletion, administrators, moderators, reports, the expiry batch, and what the public is shown |
| `Tenancy` | companies, memberships, the domain policy, permission checks |
| `CompanyTrust` | slugs, verified domains, badges, the verification state machine, audit rows |
| `Sessions` | access, refresh and reset tokens, their revocation in two stores |
| `LoginThrottle` | the rate limit and the lockout, one Redis command at a time |
| `Profiles` | profiles, versions, applications, deletion of accounts |
| `Identities` | registration, verification of the address, OAuth sign-in |
| `ModerationProofs`, `TenancyProofs`, `TrustProofs`, `ProfilesProofs`, `IdentitiesProofs` | the inductive invariants of these modules and their safety |
| `SessionsProofs` | the same for `Sessions` and for `LoginThrottle`, whose names differ from those of `Sessions` so that one module can extend both |
| `MCModeration`, `MCTenancy`, `MCTrust`, `MCSessions`, `MCThrottle`, `MCProfiles`, `MCIdentities` | the symmetry sets for TLC |

The seven modules after the webhooks share one idiom. `session[t]` is what the handler
on thread `t` has **loaded**; a `Load...` or `Start...` action fills it, a `Commit...`
action writes from it, and between the two every other handler and the worker may
commit. A request that is refused on what it loads writes nothing and is no step.
Variables that the program does not have (`raced`, `approved`, `past`, `wanted`, ...)
only record what happened, for the properties; each module says so where it declares
them.

### Payments

*Processes.* `Loop` is the event loop (initiate, both webhooks), `Worker` the arq
worker, `Threads` the pool that runs `cancel_payment`. `session[p]` is what the
handler running on `p` holds: where it is (`pc`), the intent, the message it handles
and the values it has **loaded**; a later step writes from those. `enqueuing` is the
set of initiate coroutines suspended in Redis, the one place where a request lets
other coroutines run after its adapter has committed.

*Actions.* `Initiate`, `SaveIntent`, then per provider `StripeCreatesSession` and
`StripeCommits`, or `SimulatorLoads`, `SimulatorCommits` and `Enqueued` or
`EnqueueFails`; `AdapterFails` stands for each of the three except-branches of
`initiate_payment`. `CancelReads` and `CancelCommits` are the two halves of
`cancel_payment`. `Receive` starts a webhook, which either is a `Duplicate`, has
nothing to do (`AnswersAtOnce`) or goes on through `SettleReadsJob`, `SettleCommits`
or `UpdateCommits` and `RecordsEvent`. `StartTask` is the same for the worker.
A message finds its intent (`Found`) by the id it names, then by the provider's
reference, then, for Stripe's settling events, by the listing; of several rows the
newest. Intents are numbered in the order of `created_at`. `DeleteListing` and
`DeleteAccount` remove intents by the foreign keys' ON DELETE CASCADE, from the listing
and from the user; a listing that has changed hands outlives the account that paid for
it, and then the last lookup finds another intent of the listing (`Strayed`).
A request that is refused or finds an open intent writes nothing and is no step.

*Data.* Amounts, names, phone numbers and timestamps are left out; the phone number
matters only through the outcome it selects, which is a choice. `ext` is
`extended_through`. A mobile-money status is one of the classes that
`_normalize_status` tells apart. M-Pesa and e-Mola are one provider. The replay cache
is a set of messages which `Forget` may shrink at any time: that covers its TTL, its
size limit, a lost Redis and the fallback that starts empty.

*The environment* (Stripe, customer, mobile provider) sends each event of a checkout
in the order Stripe documents, and whatever was sent can be received again, in any
order, at any later time.

### WebhookDelivery

A *write* is one status change of an application (`Changes`) or one publication of a
job (`Publications`). The pipeline emits inside its transaction and commits last
(`StartChange`, `Emit`, `Enqueue`, `Respond`). The admin commits first (`Publish`)
and emits afterwards; in a bulk request the next `Publish` of the same session
commits the rows that the last one flushed, and `Respond` closes the session, which
rolls the rest back. `EmitFails` is the failed read of the endpoints, whose error is
swallowed: `emit` is not in a savepoint, so PostgreSQL turns the commit that follows into
a rollback and the request is answered with success; `unsent` records it. `Abort` is any
other failed statement: the request ends in an error.
`run[d]` is the state of the arq task of delivery `d`; it awaits the POST, so the
tasks of several deliveries interleave. Which company an endpoint belongs to does not
matter to the fan-out and is left out. `deliver_webhook`'s branch for a missing
endpoint cannot be reached: nothing deletes endpoints but the cascade that deletes
their deliveries.

### JobModeration

`Update(now, loaded, new)` is the unit of work: per column, the loaded value decides
whether it is written. That is why an edit that loaded a pending listing does not take
back an activation (it does not name `status`) and yet puts its text on the listing that
has become public: the text is then not in `approved`, and the listing is in `raced`.
`set_job_status` is the case of one listing of `bulk_set_status`, whose listings are
loaded and committed one by one. `expire_old_jobs` loads everything due and writes it in
one commit, which fails as a whole if one of the rows has gone. A handler that deactivates
or withdraws keeps only the status it loaded. `Pushdown` is the SQL
predicate of the lists and of the count. Market, search, paging and
`status_history` are left out; the history column is read and written whole, like the
lists of `CompanyTrust`. The `admin` role is the constant `Admins`: `grant_role` and
`revoke_role` (`routers/admin.py:277-316`) are not modelled, so an administrator keeps
the role for a whole behaviour.

### Tenancy

A permission is checked in a dependency (`Starts`), before the handler loads its row.
`member[<<u, c>>]` is the membership with the inviter it names; `held` records which roles a
user has ever held actively, `posted` what was posted in a company's name. The platform
role `platform_super_admin` enters as `SuperAdmins`, a constant: no endpoint grants it.

### CompanyTrust

`AttachVerifiedDomain` retries in savepoints (`AttachFails`); what it writes is the list
that was loaded plus one. Slugs are probed before the INSERT, which the unique constraint
may refuse. `VerifyEntity` validates against the loaded state. No endpoint leads to
`pending`, so every endpoint of the state machine that needs it answers 409, and nothing
is ever `verified`: `BadgesTellTheTruth` says so.

### Sessions and LoginThrottle

`Sessions` keeps the clock in whole seconds, which is how tokens and
`password_changed_at` are compared. A revocation goes to Redis or, while Redis does not
answer, to the memory of the process. `stray` marks a token issued by a request that had
checked an older password when the new one was committed. `LoginThrottle` takes each
Redis command as a step and each exception as a step into the in-memory counter; a
request is assumed to be shorter than a window (`Quiet`).

### Profiles

A save of a version flushes before it commits, so this is the module with row locks
(`Locked`): an INSERT of a profile or an UPDATE of it makes the others wait. A save that
does not change the resume takes no lock, reads the maximum and may lose to another that
took the number. The columns of the card are written by handlers of their own.
`delete_scheduled_accounts` loads accounts and listings and deletes all in one commit;
the rest goes by the foreign keys. Applications are here for the one that gets in the
way: `applications.candidate_user_id` is set null, which the check constraint
`candidate_present` refuses for an application without a snapshot, so `NeedsCandidate`
fails the commit for every account of the batch. `create_application` is called by no
router yet, only by tests; the model takes it as the operation it is documented to be.
`GET /profiles/{user_id}` compares a UUID with a string and finds nothing; it changes
nothing and is left out.

### Identities

`oauth_callback` is a coroutine: between the provider's answer (`ExchangeCode`) and its
commit (`SaveOauth`) it does not await, so there is one `callback`, while any number wait
for the provider (`exchanging`). `FindAccount` and `SaveOauth` are two steps because
registrations and the worker run beside the loop. The settings name only Google's client,
so `Providers` is `{"google"}` in the run; with Twitter, whose profiles have no address,
`SaveOauth` could never succeed, since `users.email` is NOT NULL.

## 3. The runs

| Run | Instance | Shows |
|---|---|---|
| `payments_mx` | Stripe, 2 intents, 1 listing, 2 accounts (one an administrator), 1 cancel thread, 1 instant, no crash | types, one open intent, date and ledger agree, refinement of `FeaturedOrders` |
| `payments_mz` | the same with the simulators | nothing featured without a reported success for that listing, settling is one step |
| `payments_live` | Stripe, simulators and a live "declined" callback, 1 intent, 1 account, 2 instants, 2 crashes, fairness | reports are settled, queued payments are resolved |
| `webhooks` | 1 change, 2 publications, 1 endpoint, 1 thread, 2 attempts, 2 crashes, fairness | what is sent is committed, an answered change is there with its rows or its emission failed, verdicts are earned and final, what is queued is attempted |
| `retried_until_resolved` | 1 change, 1 publication, 1 endpoint, no crash, fairness | a counterexample: section 5 |
| `moderation` | 1 listing, 1 report, an owner, an administrator who also moderates, 2 threads, 2 texts | unapproved text is public only after an overlap; only administrators publish; what is public has its date; what was taken down is overwritten only by what had loaded it public |
| `tenancy` | 1 company, 3 users, 2 threads | power is handed down; the domain policy grants none; who is suspended stays so |
| `trust` | 2 companies of one name, 2 domains, 1 listing, 2 threads | badges follow the rows; slugs number the companies; a domain is lost only by an overlap; audit rows tell of states that were |
| `sessions` | 1 user, 3 tokens, 2 threads, 2 passwords, 3 instants | a replaced password kills the tokens that go back to it; a logout holds unless its record is out of reach |
| `throttle` | 2 requests at a time (`Slots`), 3 failures to the lockout, 2 requests a window | guesses are bounded; no race loses an expiry |
| `profiles` | 1 account, 2 resumes, 1 listing, 1 application, 2 threads, 2 versions, 1 restart, fairness | versions have no gaps and the newest is live; accounts go only if, and in the end when, their user wants it |
| `identities` | 3 accounts, 2 addresses, 2 Google identities, 2 threads | an address and an identity lead to one account; links need the provider's claim |

*Why the bounds are enough.* Two intents are needed for any conflict over a listing,
and the properties relate two at most; with ids used once, a third would repeat the
role of one of them. `HistoryCap` is 2, so that the cap is reached by the second
payment or by a redelivered one. One listing suffices because no handler touches two.
The second account is an administrator: editing makes it the owner, so a listing changes
hands during a payment, is paid for by both, and outlives either. With one instant two
intents still have different dates, since the second counts from the date that the first
has bought; that time passes between initiation and settlement, and that a process dies
between two steps, is in `payments_live` and in the theorems, which bound neither. Two
crashes let a redelivered event or task be interrupted once more. `MaxAttempts` is 2
instead of 10, so that crashes reach it. The safety runs of `Payments` identify states
that differ in `acked` alone (the VIEW `AllButAcked`): no action reads it, and no property
of theirs does but its type, which `TypeCorrect` covers; only the fairness of
`payments_live`, which has no view, does. Intents are ordered and therefore not
symmetric; the runs with liveness use no symmetry either. Deadlock is not checked: the
ids are used once, and a system whose ids are used up stops.

In the other modules two threads give every pair of handlers its overlap, and every
property relates two actors at most (`tenancy` has three users, so that an invited
manager can invite). One listing, one company per membership question, one account per
profile suffice because no handler touches two, except `bulk_set_status` and the batches,
whose loops repeat one step; `trust` has two companies, since slugs are a matter between
them. `LoginLimit` is 3 instead of 5 and tokens live 1 or 2 seconds, so that limits and
ends are reached. `MaxVersions` is 2: two saves at a time, and the second number.

*Fairness.* `WF(LoopSteps)` and `WF(WorkerSteps)`: a handler that has started goes on,
since the loop and the worker are scheduled and their steps are plain statements.
Initiation, cancel, the customer and the job endpoints have none. `SF` on receiving a
Stripe event that has had no 2xx: Stripe sends it again until it gets one, and the loop
is idle again and again in between. Crashes are bounded, so the system is up long
enough in the end. In `Profiles`, `WF(Finishes(t))` and `WF(LoadDue)`: handlers end and
the cron starts a run every hour; `SF(DeleteDue)`, because the lock it waits for is taken
again and again by other saves, and PostgreSQL grants a lock in turn. In `WebhookDelivery`, `WF(Task(d))`: arq starts the tasks that are
due and their coroutines go on. No fairness is assumed of a POST's success.

Every property has a mutant: an operator in the module, marked `mutant:`, that
replaces a mapped definition by a plausible mistake and makes TLC refute the property.

## 4. The proofs

`PaymentsProofs`, from `PaymentsAssumption` (any number of intents, listings, users,
threads, crashes, any cap and period) and the hypotheses that a theorem names:

* `TypeCorrect`: `Spec => []TypeOK`. `TypeOK` is not inductive: `SettleCommits` appends
  the intent its session names to the history its session loaded, so the session must
  name a real intent whenever it is past `idle`, and what it holds must be of the right
  kind. `Holds` says so for each `pc`, and `TypeInv == TypeOK /\ Holds` is inductive
  (`TypeInvariant`); the step is split by family of actions, each with its lemma.
* `OneOpenIntentHolds`: from `FinalReports` (no provider reports an intent as pending),
  `Spec => []OneOpenIntent`. `_find_existing_open_intent` and the insert are two steps;
  what makes them safe is that they are on one loop with no `await` in between, that
  editing a listing between them changes whose intent is looked for but not the draft,
  and that no step ever takes a row back to open. The invariant `Admission` carries
  that from the check to the insert: while a session is in `save`, no open row competes
  with its draft. The assumption is needed: a callback with status "pending" (or the
  number 0 as `resultCode`, which is falsy) reopens a failed intent beside a new one.
* In markets whose only provider is Stripe (`StripeMarket`): `FeaturedFromLedgerHolds` and
  `OrdersImplemented`, from the invariant `StripeInv`. There the worker never settles, so
  the loop is the only writer of the two job columns and what it has loaded is still
  current when it commits, unless the listing was deleted. `StripeInv` says that, that a
  ledger names only intents of its listing, and that the reference of an intent leads to
  none of another listing (`ReferenceOK`), which is what a report found by reference or by
  listing needs. The refinement maps an order's target and date to the row's, the reported
  orders to those with a successful report, the withdrawn ones to the intents that are
  gone, and the removed listings to the deleted ones; each action is a step of
  `FeaturedOrders` or a stutter.
* `FeaturedOnReportHolds`: in **every** market, live callbacks included,
  `Spec => []FeaturedOnReport`. A date and a ledger are written from values loaded
  earlier, by the loop and by the worker, so the invariant `PaidInv` says of everything
  that may still be written that an intent is entitled to it: the outcome of an intent is
  decided once, by the simulator or by a message that was sent (`Issued`, `Decided`,
  `Drafted`), and a session on its way to a settlement holds an entitled intent and a
  history of charges of its listing by entitled ones (`Charging`). An intent is entitled
  by a report of its own, or by one of Stripe's that has strayed from an intent that is
  gone; that a report strays only within its listing needs `References`. Nothing takes a
  report or a deletion back (`Keeps`), hence what a stale session holds stays true. A step that neither sends a
  message nor completes an intent is `Calm` and keeps `PaidInv` by one lemma; the
  settlement, the reception of messages and the environment are proved one by one.
* `SettlesAsOneHolds`: if `CallbackKinds = {}`, then `Spec => SettlesAsOne`. The part
  `Split` of `PaidInv` says that then the webhooks handle Stripe's intents only and the
  task the simulated ones, so what a session is about to complete is not completed by
  the other (`Exclusive`), unless a report of Stripe's has strayed to an intent that the
  worker is settling. With live callbacks loop and worker may settle one intent, and the property
  fails ("What is not claimed", below); the hypothesis says that the mobile-money
  adapters only simulate, which is true of every adapter of the repository.

`WebhookProofs`, from `WebhookAssumption` (any writes, endpoints, threads and number of
attempts): every safety property of `WebhookDelivery`, from `WebhookInv`, three facts
besides the types, each kept by a lemma with one step per action.

* `Sessions`: the publication a handler holds is committed, the change is neither
  committed nor answered; no two
  handlers hold one write; unsaved rows are the ones `emit` found. So a commit inserts
  rows whose write is committed with them or was before, and never touches a row of
  another write.
* `Rows`: a visible row belongs to a committed write. `ChangeIsRecorded` needs it: before
  `Respond` commits a change, that change has no rows at all, and none after `EmitFails`.
* `Runs`: a task past its start works on a pending row, and after its POST `attempts` is
  below `posts`. `VerdictIsEarned` and `NeverSentAgain` follow, and with `Rows` also
  `SentOnlyIfCommitted`: a row that was ever sent is visible.

The proofs about the modules with `session[t]` share one argument. A property relates
rows that two handlers write from what each loaded earlier, so it is not inductive: the
missing part is what a loaded value still says about the row at the commit. Each proof
module states that part per kind of handler, and shows first that a step which changes
only one session (a load, a refusal) keeps everything if what it takes up is as stated,
then the steps that write. The constants (users, companies, tokens, threads, lives,
bounds) are arbitrary; only the named assumption of the module is used.

`ModerationProofs`:

* `Held` and `Written` give the types: a handler names a listing and a text that exist.
* `LiveIsPublishedHolds` needs `Loaded`: `CommitStatus` writes `published` only when the
  row it loaded lacked it, so a row loaded as published must still be published, unless
  the listing was deleted, and a deleted listing never comes back.
* `UnapprovedTextOnlyByOverlapHolds`, `OnlyAdminsPublishHolds`: no other commit writes
  "active", since `Column` leaves a status alone that the handler did not change.
* `TakenDownStaysHolds`: an edit changes the status only if it loaded it active, by
  `Column` even when the row has moved on meanwhile, and `Held` carries the status that a
  deactivation has loaded to its commit.

`TenancyProofs`:

* `Held`: no two requests create one company, and a company a handler has found exists.
* `PowerIsDelegatedHolds` from `Memberships` (an active membership is in `held`) and
  `Checked` (who is between the check and the commit was allowed once), which survives a
  suspension in between because `held` only grows.
* `DomainGrantsNothingHolds` from `Automatic`: an automatic membership is never deleted and
  no step changes its role. `SuspendedStaysHolds` goes through every step that writes a
  membership.

`TrustProofs`:

* `SlugsNumberTheCompaniesHolds`: while a request probes, every lower slug is taken
  (`HoldsCreation`), and slugs are never given back; by the numbering itself the first free
  slug is then the number of companies plus one, and the insert keeps the numbering, with
  the library's facts on cardinality. That also bounds the probing, which `TypeCorrect`
  needs. The INSERT that the unique constraint refuses is the other branch.
* `BadgesTellTheTruthHolds`: a company that had a domain when it was loaded has one for
  good (`HoldsDomain`), so a stale write of the badges is a true one; only "unverified" and
  "flagged" can be loaded, so only "flagged" is written (`HoldsDecision`).
* `DomainLostOnlyByOverlapHolds`, `AuditRecordsPastHolds`: every loaded state is in `past`.

`SessionsProofs`:

* `OldTokensAreDeadHolds` from `Current`: a token as new as the password's date goes back to
  that password or is a stray, and so will be what a refresh under way issues. `ResetStep`
  is the heart: the tokens that the new date does not reach are the strays of that change.
* `LoggedOutOnlyByOutageHolds` from `Revoked`: the revocation of an answered logout is in one
  of the stores for as long as the token lives, or was in the memory of a process that died.
* `GuessesAreBoundedHolds` (`LoginThrottle`, from `ThrottleAssumption`): the bound is not
  inductive, since it does not say which requests may still guess. `Counted` counts them:
  before the lock, every guess is in Redis or of a request before its INCR, and all but
  `LoginLimit - 1` of them are of requests before their INCR or on the way to the lock;
  once it is set, only requests that have passed it still guess. Each step moves one
  request from one of these sets to another, which the library's facts on cardinality
  turn into the sums.
* `StuckOnlyByLostExpireHolds` from the types alone: the counter that INCR made 1 is that
  of the request at its EXPIRE, and only `FailureRaises`, `HitRaises` and a restart lose it.

`ProfilesProofs`, from `ProfilesAssumption`:

* `NewestIsLiveHolds` from `Handlers`, `Numbered` and `Newest`. A save reads the maximum
  and inserts later; another save, the card or the batch may commit in between. `Handlers`
  keeps of the number it has read only that it is at most the next one, as long as the
  account is there. The unique constraint refuses a number that is taken, hence the
  version that gets in has the next number; it is the working copy unless a save
  that changes nothing had loaded a resume that was replaced since, and then the account
  is in `overtaken`.
* `DeletedOnlyIfAskedHolds` from `Asked`: the batch holds only accounts whose user asked,
  or cancelled too late, and an account that was loaded can no longer be cancelled in time.

`IdentitiesProofs`: `IdentityOfOneAccountHolds` and `LinkedOnlyOnClaimHolds` from `Searched`,
which carries the result of `FindAccount` over the registrations and deletions that commit
before `SaveOauth`: none of them links an identity, so that whoever has it is still the
account that was found.

Only model-checked is what the prover cannot reach, the liveness properties:
`ReportedIsSettled`, `QueuedIsResolved`, `QueuedIsAttempted` and `ScheduledIsDeleted`.
Every invariant and every action property of a passing run is the statement of a theorem.
`ThrottleTypeOK` and the strengthenings above are invariants of proofs, not of runs.

*What is not claimed.* With live mobile-money callbacks **and** the simulator's task on
one listing, the worker may write back a `featured_through` and a history it loaded
before the loop settled another intent; `SettlesAsOne` fails there, and a callback may
take a completed intent to failed, after which a success charges it again. No adapter
of the repository is live (they raise unless they simulate), so `payments_mz` has no
callbacks and `FeaturedFromLedger` is claimed for Stripe-only markets.

## 5. Where code and words differ

`retried_until_resolved` ends in a counterexample: a failed webhook POST is never tried
again, although INTEGRATION_AND_EXPORT.md describes bounded retries. `PROJECT.json` quotes
the lines.

The passing properties are stated so that they hold, and name the exception where the
code has one; these differences were met on the way and have no run of their own.

1. Payments. A completed payment can end as cancelled, since `cancel_payment` acts on the
   status it loaded. The 30 days of a featured listing count from initiation, not from
   settlement (`payment-flows.md:18`). The webhook settles on `checkout.session.completed`
   without reading `payment_status` (`webhooks/stripe_webhook.py:96`), which is "unpaid" for
   a delayed payment: the listing is featured before the money has come, and stays so when
   the payment fails. `FeaturedOnReport` and `FeaturedOrders` therefore speak of reported
   successes, not of payments. An event whose intent is gone with its account settles the
   newest other intent of the listing (`webhooks/stripe_webhook.py:52-57`), also one that
   its own user never paid: `Strayed`. After a Stripe failure the open intent has no page to pay on, and every
   request gets it until it is cancelled.
2. Outbound webhooks. "Emission failure must never roll back the persisted status change"
   (`services/applications.py:167-168`, and again 189-190; `services/webhooks.py:141-143`:
   "it never rolls back that write"; INTEGRATION_AND_EXPORT.md:63-65; Property 19,
   `tests/test_emission_no_rollback_properties.py`). The change is only flushed when `emit`
   runs in its transaction. If the SELECT of the endpoints fails, the error is swallowed,
   PostgreSQL answers the commit with a rollback and no error, and the request returns 200
   with the change lost; if the INSERT of the deliveries fails, the session refuses the
   commit and the request returns 409, with the change lost as well. The test's `emit`
   raises without a failed statement, so it does not see this. `ChangeIsRecorded` names
   the first case (`unsent`), `Abort` is the second. The `job.published` deliveries of an administrator's last or only
   publication are flushed after the commit and rolled back.
3. Moderation. "Owner edits of an approved listing must go back through moderation"
   (`routers/jobs.py:560`) holds unless an edit and an activation overlap:
   `UnapprovedTextOnlyByOverlap`. A block, a withdrawal or a "filled" is overwritten by an
   edit, a deactivation or an expiry that had loaded the listing before: `TakenDownStays`
   admits these and nothing else.
4. Verification. VERIFICATION_AND_TRUST.md describes a manual review; nothing leads to
   `pending`, so it cannot take place.
5. Domains. Two verifications of one company at a time may keep only one domain:
   `DomainLostOnlyByOverlap`.
6. Deletion of accounts. "Worker hard-deletes" (DATA_MODEL.md:66) fails for every scheduled
   account while one of them is the candidate of an application without a snapshot:
   `ScheduledIsDeleted`. A cancellation answered with success while the batch runs comes
   too late: `DeletedOnlyIfAsked`.
7. Versions. A save "captures the live profile's resume at the moment of the save"; a save
   that changes nothing captures the one it loaded: `NewestIsLive`.
8. Roles. "You cannot revoke your own admin role" (`routers/admin.py:302`) guards on a path
   string being equal to `get_user_id`, which returns the account's UUID, so it does not
   hold on PostgreSQL; `tests/test_admin.py:70` sees it hold because the tests' tables have
   string keys. The roles are constants of the model, which does not show this.

## 6. Plan

Done: every component with state of its own has a module. Next, in order:

1. Proofs: `SettlesAsOne` for the Stripe events of a market with live callbacks, and a
   `FeaturedFromLedger` for markets where loop and worker do not share a listing.
2. `Profiles` with the deletion of listings by their owner, composed with `JobModeration`.
3. Granting and revoking the `admin` role in `JobModeration`, with `Admins` as a variable.
4. The emission of `application.created` in `WebhookDelivery`, and the stage order of the
   pipeline.

## 7. Not modelled

Export, resume rendering, JSON-LD, e-mail text and HTML sanitising turn one query's data
into text and keep no state; `external_refs` has helpers that nothing calls. The market
of a request is a pure function of its host and headers. The frontend shows what the API
answers. Migrations and infrastructure are descriptions; the constraints they create
(unique keys, cascades, checks) are part of the models that meet them. Signature and
timestamp checks of webhooks decide only whether a request is looked at. The mobile-money
callback that takes a completed intent back (`webhooks/mobile_money.py:210`) needs a live
adapter, which the repository does not have.
