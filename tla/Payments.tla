------------------------------ MODULE Payments ------------------------------
(***************************************************************************)
(* Paying for a featured listing: the payment intents of                   *)
(* backend/app/routers/payments.py, the three provider adapters, the       *)
(* Stripe and mobile-money webhooks, the arq task that settles simulated   *)
(* payments, and settle_intent, which all of them end in.                  *)
(*                                                                         *)
(* Who runs concurrently.  One uvicorn process: the coroutines             *)
(* (initiate_payment, stripe_webhook, _handle_callback) share its event    *)
(* loop and give it up only at a real await; the plain def endpoints       *)
(* (cancel_payment, the job endpoints) run on a pool of threads; the arq   *)
(* worker is a process of its own whose tasks never await.  A handler is a *)
(* session that reads rows under READ COMMITTED without locking them and   *)
(* writes them when it commits.  The UPDATE of the ORM names only the      *)
(* columns whose new value differs from the value the session loaded.      *)
(***************************************************************************)
EXTENDS Naturals, Sequences, FiniteSets

CONSTANTS
    Intents,        \* payment_intents rows, numbered in the order of created_at
    Jobs,           \* listings
    Users,          \* employers and admins whose email is verified
    Admins,         \* those whose edits of another's listing are allowed
    Threads,        \* threads of the API's pool that run cancel_payment
    Providers,      \* payment_providers of the market: mx has only "stripe";
                    \* "mobile" stands for mpesa and emola, which are twins
    CallbackKinds,  \* statuses a live mobile-money provider may report
    Period,         \* timedelta(days=30), in ticks of the clock
    HistoryCap,     \* entries kept in featured_charge_history (50)
    MaxTime,        \* bound on the clock
    MaxCrashes,     \* bound on the crashes of the API and the worker
    NULL            \* no intent, no message, no owner

VARIABLES
    now,        \* the clock, in ticks
    listing,    \* per job: may it be featured, was it closed or deleted
    owner,      \* jobs.user_id, NULL once its user has gone
    gone,       \* users whose account was deleted
    featured,   \* jobs.featured_through, 0 for NULL
    history,    \* jobs.featured_charge_history, the intents it names
    row,        \* the payment_intents rows
    checkout,   \* the Checkout Session at Stripe of each intent
    emitted,    \* notifications the providers have sent, maybe several times
    acked,      \* notifications answered with a 2xx
    processed,  \* the replay cache
    enqueuing,  \* initiate coroutines suspended while they enqueue a task
    queue,      \* settle_simulated_intent tasks deferred in arq
    session,    \* what the running handlers hold
    crashes     \* crashes so far

jobVars  == <<listing, owner, gone, featured, history>>
provVars == <<checkout, emitted>>
msgVars  == <<acked, processed, enqueuing, queue>>
vars == <<now, listing, owner, gone, featured, history, row, checkout, emitted,
          acked, processed, enqueuing, queue, session, crashes>>

-----------------------------------------------------------------------------
Open     == {"pending", "awaiting_user"}
Terminal == {"completed", "failed", "cancelled", "expired"}
PaymentStatus == Open \cup Terminal

\* "none": not inserted; "deleted": gone with its job or user (ON DELETE CASCADE)
RowStatus == PaymentStatus \cup {"none", "deleted"}

\* ref: the intent whose reference at the provider provider_ref holds, NULL for
\* none and for a made-up one, which no lookup ever matches
Row == [status: RowStatus, provider: {"stripe", "mobile"}, job: Jobs,
        user: Users, ext: Nat, ref: Intents \cup {NULL},
        meta: {"none", "stripe_url", "sim_completed", "sim_failed"}]

\* the other events (charge.refunded, charge.dispute.created, ...) are only
\* logged and are left out
Settling    == {"completed", "async_payment_succeeded"}
StripeKinds == Settling \cup {"async_payment_failed"}
SimKinds    == {"sim_completed", "sim_failed"}
Successes   == Settling \cup {"sim_completed"}
Failures    == {"async_payment_failed", "sim_failed"}

\* what _extract_payload_fields makes of the status a callback carries; a
\* numeric resultCode 0, the success code, is falsy and reads as "pending"
NormalizedStatus ==
    [success    |-> "completed", declined  |-> "failed", timeout |-> "failed",
     pending    |-> "pending",   cancelled |-> "cancelled",
     expired    |-> "expired",   resultCode0 |-> "pending"]

\* named: the payload carries the intent's id, not only the provider's reference
Message == [kind: StripeKinds \cup SimKinds \cup CallbackKinds,
            intent: Intents, named: BOOLEAN]

Loop   == "loop"
Worker == "worker"
Procs  == {Loop, Worker} \cup Threads

Session == [pc: {"idle", "save", "create", "adapter", "read_job", "settle",
                 "update", "ack", "cancel"},
            intent: Intents \cup {NULL}, msg: Message \cup {NULL},
            draft: Row, loaded: RowStatus,
            loadedFeatured: Nat, loadedHistory: Seq(Intents)]

Unused == [status |-> "none", provider |-> "stripe",
           job |-> CHOOSE j \in Jobs : TRUE, user |-> CHOOSE u \in Users : TRUE,
           ext |-> 0, ref |-> NULL, meta |-> "none"]

Idle == [pc |-> "idle", intent |-> NULL, msg |-> NULL, draft |-> Unused,
         loaded |-> "none", loadedFeatured |-> 0, loadedHistory |-> <<>>]

ASSUME PaymentsAssumption ==
    /\ Jobs # {} /\ Users # {} /\ Admins \subseteq Users
    /\ NULL \notin Intents /\ NULL \notin Message /\ NULL \notin Users
    /\ Loop \notin Threads /\ Worker \notin Threads
    /\ Providers \subseteq {"stripe", "mobile"}
    /\ CallbackKinds \subseteq DOMAIN NormalizedStatus
    /\ Period \in Nat \ {0} /\ HistoryCap \in Nat \ {0}
    /\ MaxTime \in Nat /\ MaxCrashes \in Nat

ASSUME IntentsAssumption == Intents \subseteq Nat

LiveOrDeleted(i) == row[i].status # "none"      \* mutant: overlooks the cascade

Live(i) == row[i].status \notin {"none", "deleted"}

Msg(k, i, named) == [kind |-> k, intent |-> i, named |-> named]

Later(a, b) == IF a > b THEN a ELSE b

LastEntriesPlusOne(h) ==    \* mutant: off by one
    IF Len(h) > HistoryCap THEN SubSeq(h, Len(h) - HistoryCap, Len(h)) ELSE h

FirstEntries(h) ==          \* mutant: existing_history[:50]
    IF Len(h) > HistoryCap THEN SubSeq(h, 1, HistoryCap) ELSE h

\* existing_history[-50:]
LastEntries(h) ==
    IF Len(h) > HistoryCap THEN SubSeq(h, Len(h) - HistoryCap + 1, Len(h)) ELSE h

\* flushing an attribute: written only if it differs from the loaded value
Flush(current, loaded, new) == IF new = loaded THEN current ELSE new

-----------------------------------------------------------------------------
\* Types, and the history of a listing never outgrows its cap.
TypeOK ==
    /\ now \in 0..MaxTime
    /\ listing \in [Jobs -> {"payable", "closed", "deleted"}]
    /\ owner \in [Jobs -> Users \cup {NULL}]
    /\ gone \subseteq Users
    /\ featured \in [Jobs -> Nat]
    /\ history \in [Jobs -> Seq(Intents)]
    /\ \A j \in Jobs : Len(history[j]) <= HistoryCap
    /\ row \in [Intents -> Row]
    /\ checkout \in [Intents -> {"none", "open", "unpaid", "paid", "failed"}]
    /\ emitted \subseteq Message
    /\ acked \subseteq Message
    /\ processed \subseteq Message
    /\ enqueuing \subseteq Message
    /\ queue \subseteq Message
    /\ session \in [Procs -> Session]
    /\ crashes \in 0..MaxCrashes

Init ==
    /\ now = 0
    /\ listing = [j \in Jobs |-> "payable"]
    /\ owner \in [Jobs -> Users] /\ gone = {}
    /\ featured = [j \in Jobs |-> 0]
    /\ history = [j \in Jobs |-> <<>>]
    /\ row = [i \in Intents |-> Unused]
    /\ checkout = [i \in Intents |-> "none"]
    /\ emitted = {} /\ acked = {} /\ processed = {}
    /\ enqueuing = {} /\ queue = {}
    /\ session = [p \in Procs |-> Idle]
    /\ crashes = 0
-----------------------------------------------------------------------------
(* initiate_payment, from the request to the row.  When the owner already   *)
(* has an open intent for the job the handler returns it and writes         *)
(* nothing: Initiate is not enabled.                                        *)

ExistingReferenced(j) ==    \* mutant: overlooks intents without a reference
    \E k \in Intents : /\ row[k].status \in Open /\ row[k].ref # NULL
                       /\ row[k].job = j /\ row[k].user = owner[j]

ExistingOpenIntent(j) ==
    \E k \in Intents : /\ row[k].status \in Open
                       /\ row[k].job = j /\ row[k].user = owner[j]

Initiate(j, p, i) ==
    /\ session[Loop].pc = "idle"
    /\ p \in Providers
    /\ listing[j] = "payable" /\ owner[j] # NULL
    /\ ~ ExistingOpenIntent(j)
    /\ row[i].status = "none"
    /\ \A k \in Intents : row[k].status = "none" => i <= k
    /\ session' = [session EXCEPT ![Loop] =
          [Idle EXCEPT !.pc = "save", !.intent = i,
             !.draft = [status |-> IF p = "stripe" THEN "pending" ELSE "awaiting_user",
                        provider |-> p, job |-> j, user |-> owner[j],
                        ext |-> Later(featured[j], now) + Period,
                        ref |-> NULL, meta |-> "none"]]]
    /\ UNCHANGED <<now, jobVars, row, provVars, msgVars, crashes>>

\* the INSERT; it fails on a foreign key if the job or the user went meanwhile
SaveIntent ==
    LET s == session[Loop] IN
    /\ s.pc = "save"
    /\ IF listing[s.draft.job] = "deleted" \/ s.draft.user \in gone
       THEN /\ session' = [session EXCEPT ![Loop] = Idle]
            /\ UNCHANGED row
       ELSE /\ row' = [row EXCEPT ![s.intent] = s.draft]
            /\ session' = [session EXCEPT ![Loop] =
                              [Idle EXCEPT !.pc = "create", !.intent = s.intent]]
    /\ UNCHANGED <<now, jobVars, provVars, msgVars, crashes>>

\* The adapter is not registered, not configured, rejects the MSISDN or the
\* provider answers with an error.  Stripe: 503 or 502, the row stays as it
\* is.  Mobile money: _simulator_stub_response sets a made-up reference.
AdapterFails ==
    LET s == session[Loop] IN
    /\ s.pc = "create"
    /\ row' = IF Live(s.intent) /\ row[s.intent].provider = "mobile"
              THEN [row EXCEPT ![s.intent].ref = NULL] ELSE row
    /\ session' = [session EXCEPT ![Loop] = Idle]
    /\ UNCHANGED <<now, jobVars, provVars, msgVars, crashes>>

\* Stripe creates the Checkout Session, then the adapter loads the intent in
\* a session of its own (None if the row has gone: nothing to write).
StripeCreatesSession ==
    LET s == session[Loop] IN
    /\ s.pc = "create"
    /\ row[s.intent].provider = "stripe"
    /\ checkout' = [checkout EXCEPT ![s.intent] = "open"]
    /\ session' = [session EXCEPT ![Loop] =
          IF Live(s.intent)
          THEN [s EXCEPT !.pc = "adapter", !.loaded = row[s.intent].status]
          ELSE Idle]
    /\ UNCHANGED <<now, jobVars, row, emitted, msgVars, crashes>>

\* the simulator adapter loads the intent, and enqueues the task even if
\* there is no intent any more
SimulatorLoads ==
    LET s == session[Loop] IN
    /\ s.pc = "create"
    /\ row[s.intent].provider = "mobile"
    /\ IF Live(s.intent)
       THEN /\ session' = [session EXCEPT ![Loop] =
                    [s EXCEPT !.pc = "adapter", !.loaded = row[s.intent].status]]
            /\ UNCHANGED enqueuing
       ELSE /\ \E k \in SimKinds :
                  enqueuing' = enqueuing \cup {Msg(k, s.intent, TRUE)}
            /\ session' = [session EXCEPT ![Loop] = Idle]
    /\ UNCHANGED <<now, jobVars, row, provVars, acked, processed, queue, crashes>>

\* The commit of the adapter's own session: the reference, the status it
\* wants and the meta column.  The handler of a Stripe payment then answers.
\* Writing a row that has gone raises, and the handler with it.
AdapterWrites(i, status, meta) ==
    LET s == session[Loop] IN
    /\ row' = IF Live(i)
              THEN [row EXCEPT ![i].status = Flush(@, s.loaded, status),
                               ![i].ref = i, ![i].meta = meta]
              ELSE row
    /\ session' = [session EXCEPT ![Loop] = Idle]
    /\ UNCHANGED <<now, jobVars, provVars, acked, processed, queue, crashes>>

StripeCommits ==
    LET i == session[Loop].intent IN
    /\ session[Loop].pc = "adapter"
    /\ row[i].provider = "stripe"
    /\ AdapterWrites(i, "pending", "stripe_url")
    /\ UNCHANGED enqueuing

\* the MSISDN has decided the outcome; the coroutine now awaits Redis, and so
\* lets the loop run other handlers
SimulatorCommits ==
    LET i == session[Loop].intent IN
    /\ session[Loop].pc = "adapter"
    /\ row[i].provider = "mobile"
    /\ \E k \in SimKinds :
          /\ AdapterWrites(i, "awaiting_user", k)
          /\ enqueuing' = IF Live(i) THEN enqueuing \cup {Msg(k, i, TRUE)} ELSE enqueuing

\* enqueue_job succeeds; the rest of the handler finds nothing to write
Enqueued(m) ==
    /\ m \in enqueuing
    /\ enqueuing' = enqueuing \ {m}
    /\ queue' = queue \cup {m}
    /\ UNCHANGED <<now, jobVars, row, provVars, acked, processed, session, crashes>>

\* enqueue_job raises: the stub response overwrites the reference, and the
\* intent stays open with no task that will ever settle it
EnqueueFails(m) ==
    /\ m \in enqueuing
    /\ session[Loop].pc = "idle"
    /\ enqueuing' = enqueuing \ {m}
    /\ row' = IF Live(m.intent) THEN [row EXCEPT ![m.intent].ref = NULL] ELSE row
    /\ UNCHANGED <<now, jobVars, provVars, acked, processed, queue, session, crashes>>
-----------------------------------------------------------------------------
(* cancel_payment, on a thread: read and check, then save.  Answering       *)
(* without a write when the intent is not open is not a step.               *)

CancelReads(t, i) ==
    /\ session[t].pc = "idle"
    /\ row[i].status \in Open
    /\ session' = [session EXCEPT ![t] =
          [Idle EXCEPT !.pc = "cancel", !.intent = i, !.loaded = row[i].status]]
    /\ UNCHANGED <<now, jobVars, row, provVars, msgVars, crashes>>

CancelCommits(t) ==
    LET i == session[t].intent IN
    /\ session[t].pc = "cancel"
    /\ row' = IF Live(i) THEN [row EXCEPT ![i].status = "cancelled"] ELSE row
    /\ session' = [session EXCEPT ![t] = Idle]
    /\ UNCHANGED <<now, jobVars, provVars, msgVars, crashes>>

-----------------------------------------------------------------------------
(* Webhooks, on the loop, and the task, on the worker.  A message is looked *)
(* up in the replay cache and its intent loaded: by its id, else (webhooks) *)
(* by the provider's reference, else (Stripe) the newest one of the listing *)
(* that the metadata of the Checkout Session names.                         *)

ById(m) == {i \in Intents : m.named /\ i = m.intent /\ Live(i)}

ByReference(m) ==
    {i \in Intents : m.kind \notin SimKinds /\ row[i].ref = m.intent /\ Live(i)}

ByListing(m) ==
    {i \in Intents : /\ m.kind \in StripeKinds /\ Live(i)
                     /\ row[i].job = row[m.intent].job}

Candidates(m) == CASE ById(m) # {} -> ById(m)
                   [] ById(m) = {} /\ ByReference(m) # {} -> ByReference(m)
                   [] OTHER -> ByListing(m)

Found(m) ==     \* one intent or none
    LET c == Candidates(m) IN {i \in c : \A k \in c : k <= i}

TargetIgnoringOutcome(m) ==  \* mutant: the task settles whatever the simulator decided
    IF m.kind = "async_payment_failed" THEN "failed" ELSE "completed"

\* what the handler makes of a message: the status the intent should get
Target(m) ==
    CASE m.kind \in Successes -> "completed"
      [] m.kind \in Failures -> "failed"
      [] OTHER -> NormalizedStatus[m.kind]

HandlesSettled(m, i) == i \in Found(m)  \* mutant: settles a completed intent again

\* settle_intent leaves a completed intent alone
Handles(m, i) ==
    i \in Found(m) /\ ~ (Target(m) = "completed" /\ row[i].status = "completed")

NothingToDo(m) == \A i \in Intents : ~ Handles(m, i)

\* the session of a handler that has loaded intent i for the message m
Handling(m, i) ==
    [Idle EXCEPT !.pc = IF Target(m) = "completed" THEN "read_job" ELSE "update",
                 !.intent = i, !.msg = m, !.loaded = row[i].status]

Duplicate(m) ==
    /\ session[Loop].pc = "idle"
    /\ m \in processed
    /\ acked' = acked \cup {m}
    /\ UNCHANGED <<now, jobVars, row, provVars, processed, enqueuing, queue, session, crashes>>

AnswersAtOnce(m) ==
    /\ session[Loop].pc = "idle"
    /\ m \notin processed
    /\ NothingToDo(m)
    /\ processed' = processed \cup {m}
    /\ acked' = acked \cup {m}
    /\ UNCHANGED <<now, jobVars, row, provVars, enqueuing, queue, session, crashes>>

\* mutant: records the event before it is handled
RecordsThenHandles(m) ==
    /\ session[Loop].pc = "idle"
    /\ m \notin processed
    /\ processed' = processed \cup {m}
    /\ \E i \in Intents :
          Handles(m, i) /\ session' = [session EXCEPT ![Loop] = Handling(m, i)]
    /\ UNCHANGED <<now, jobVars, row, provVars, acked, enqueuing, queue, crashes>>

StartsHandling(m) ==
    /\ session[Loop].pc = "idle"
    /\ m \notin processed
    /\ \E i \in Intents :
          Handles(m, i) /\ session' = [session EXCEPT ![Loop] = Handling(m, i)]
    /\ UNCHANGED <<now, jobVars, row, provVars, msgVars, crashes>>

Receive(m) ==
    /\ m \in emitted
    /\ Duplicate(m) \/ AnswersAtOnce(m) \/ StartsHandling(m)

\* the last line of the handler, then the 2xx
RecordsEvent ==
    /\ session[Loop].pc = "ack"
    /\ processed' = processed \cup {session[Loop].msg}
    /\ acked' = acked \cup {session[Loop].msg}
    /\ session' = [session EXCEPT ![Loop] = Idle]
    /\ UNCHANGED <<now, jobVars, row, provVars, enqueuing, queue, crashes>>

\* mutant: the task leaves the queue when it starts, not when it has finished
TakesTask(m) ==
    /\ session[Worker].pc = "idle"
    /\ m \in queue
    /\ queue' = queue \ {m}
    /\ \/ NothingToDo(m) /\ UNCHANGED session
       \/ \E i \in Intents :
             Handles(m, i) /\ session' = [session EXCEPT ![Worker] = Handling(m, i)]
    /\ UNCHANGED <<now, jobVars, row, provVars, acked, processed, enqueuing, crashes>>

StartTask(m) ==
    /\ session[Worker].pc = "idle"
    /\ m \in queue
    /\ \/ NothingToDo(m) /\ queue' = queue \ {m} /\ UNCHANGED session
       \/ \E i \in Intents : /\ Handles(m, i) /\ UNCHANGED queue
                              /\ session' = [session EXCEPT ![Worker] = Handling(m, i)]
    /\ UNCHANGED <<now, jobVars, row, provVars, acked, processed, enqueuing, crashes>>

\* The end of the write in session p.  StaleDataError, when the row has gone:
\* the webhook answers 500 and will be sent the message again, arq gives a
\* failed task up.
Finish(p, ok) ==
    /\ session' = [session EXCEPT ![p] =
          IF p = Loop /\ ok THEN [Idle EXCEPT !.pc = "ack", !.msg = session[p].msg]
                           ELSE Idle]
    /\ queue' = IF p = Worker THEN queue \ {session[p].msg} ELSE queue

\* settle_intent loads the job; if there is none it writes the intent alone,
\* which the same DELETE has removed
SettleReadsJob(p) ==
    LET s == session[p]
        j == row[s.intent].job
    IN
    /\ s.pc = "read_job"
    /\ IF listing[j] = "deleted"
       THEN Finish(p, FALSE)
       ELSE /\ session' = [session EXCEPT ![p].pc = "settle",
                              ![p].loadedFeatured = featured[j],
                              ![p].loadedHistory = history[j]]
            /\ UNCHANGED queue
    /\ UNCHANGED <<now, jobVars, row, provVars, acked, processed, enqueuing, crashes>>

\* the savepoint and the commit of settle_intent: the intent and its job in
\* one transaction, computed from what the session loaded
SettleCommits(p) ==
    LET s == session[p]
        i == s.intent
        j == row[i].job
    IN
    /\ s.pc = "settle"
    /\ IF Live(i)
       THEN /\ row' = [row EXCEPT ![i].status = "completed",
                       ![i].ref = IF p = Loop THEN s.msg.intent ELSE @]
            /\ featured' = [featured EXCEPT ![j] = Flush(@, s.loadedFeatured, row[i].ext)]
            /\ history' = [history EXCEPT ![j] = LastEntries(Append(s.loadedHistory, i))]
       ELSE UNCHANGED <<row, featured, history>>
    /\ Finish(p, Live(i))
    /\ UNCHANGED <<now, listing, owner, gone, provVars, acked, processed, enqueuing, crashes>>

\* async_payment_failed, a callback that reports anything but success, and the
\* simulator's failures write the status without looking at the one they find
UpdateCommits(p) ==
    LET s == session[p]
        i == s.intent
    IN
    /\ s.pc = "update"
    /\ row' = IF Live(i)
              THEN [row EXCEPT ![i].status = Flush(@, s.loaded, Target(s.msg)),
                       ![i].ref = IF s.msg.kind \in CallbackKinds THEN s.msg.intent ELSE @]
              ELSE row
    /\ Finish(p, Live(i))
    /\ UNCHANGED <<now, jobVars, provVars, acked, processed, enqueuing, crashes>>

\* an entry of the replay cache is gone: its TTL ran out, Redis lost it, or
\* Redis does not answer and the in-process store has never seen the event
Forget(m) ==
    /\ m \in processed
    /\ processed' = processed \ {m}
    /\ UNCHANGED <<now, jobVars, row, provVars, acked, enqueuing, queue, session, crashes>>

-----------------------------------------------------------------------------
(* The customer, Stripe and the mobile-money provider (external).           *)

Emits(k, i) == emitted' = emitted \cup {Msg(k, i, TRUE)}

\* checkout.session.completed: the customer has paid, or has chosen a payment
\* method that pays later (payment_status "unpaid")
CustomerChecksOut(i) ==
    /\ checkout[i] = "open"
    /\ row[i].meta = "stripe_url"
    /\ \E c \in {"paid", "unpaid"} : checkout' = [checkout EXCEPT ![i] = c]
    /\ Emits("completed", i)
    /\ UNCHANGED <<now, jobVars, row, msgVars, session, crashes>>

DelayedPayment(i) ==
    /\ checkout[i] = "unpaid"
    /\ \/ /\ checkout' = [checkout EXCEPT ![i] = "paid"]
          /\ Emits("async_payment_succeeded", i)
       \/ /\ checkout' = [checkout EXCEPT ![i] = "failed"]
          /\ Emits("async_payment_failed", i)
    /\ UNCHANGED <<now, jobVars, row, msgVars, session, crashes>>

MobileCallback(i, k, named) ==
    /\ row[i].meta \in SimKinds
    /\ k \in CallbackKinds
    /\ emitted' = emitted \cup {Msg(k, i, named)}
    /\ UNCHANGED <<now, jobVars, row, checkout, msgVars, session, crashes>>

-----------------------------------------------------------------------------
(* What happens to a listing that may have payments, and to its owner.      *)

\* deactivate, unpublish, expire and block close it, an approval reopens it
ChangeListing(j) ==
    /\ listing[j] # "deleted"
    /\ listing' = [listing EXCEPT ![j] = IF @ = "payable" THEN "closed" ELSE "payable"]
    /\ UNCHANGED <<now, owner, gone, featured, history, row, provVars, msgVars, session, crashes>>

\* _set_job_fields makes whoever edits the listing its owner: an admin, or the
\* owner again
EditListing(j, u) ==
    /\ listing[j] # "deleted" /\ u \notin gone
    /\ owner' = [owner EXCEPT ![j] = u]
    /\ UNCHANGED <<now, listing, gone, featured, history, row, provVars, msgVars, session, crashes>>

\* the listings js go; the database removes their intents and those of users us
Remove(js, us) ==
    /\ listing' = [j \in Jobs |-> IF j \in js THEN "deleted" ELSE listing[j]]
    /\ featured' = [j \in Jobs |-> IF j \in js THEN 0 ELSE featured[j]]
    /\ history' = [j \in Jobs |-> IF j \in js THEN <<>> ELSE history[j]]
    /\ row' = [i \in Intents |->
                 IF Live(i) /\ (row[i].job \in js \/ row[i].user \in us)
                 THEN [row[i] EXCEPT !.status = "deleted"] ELSE row[i]]

\* delete_job
DeleteListing(j) ==
    /\ listing[j] # "deleted"
    /\ Remove({j}, {})
    /\ UNCHANGED <<now, owner, gone, provVars, msgVars, session, crashes>>

\* delete_scheduled_accounts commits: the account goes with the listings that
\* were its own when the batch loaded them, a while ago (Profiles has the two
\* steps); one it was given since loses its owner (ON DELETE SET NULL), one it
\* has paid for that has changed hands stays.
DeleteAccount(u, js) ==
    /\ u \notin gone
    /\ \A j \in js : listing[j] # "deleted"
    /\ Remove(js, {u})
    /\ gone' = gone \cup {u}
    /\ owner' = [j \in Jobs |-> IF owner[j] = u THEN NULL ELSE owner[j]]
    /\ UNCHANGED <<now, provVars, msgVars, session, crashes>>

Tick ==
    /\ now < MaxTime
    /\ now' = now + 1
    /\ UNCHANGED <<jobVars, row, provVars, msgVars, session, crashes>>

\* open transactions roll back and suspended coroutines are lost
CrashApi ==
    /\ crashes < MaxCrashes
    /\ crashes' = crashes + 1
    /\ session' = [p \in Procs |-> IF p = Worker THEN session[p] ELSE Idle]
    /\ enqueuing' = {}
    /\ UNCHANGED <<now, jobVars, row, provVars, acked, processed, queue>>

\* arq runs the task again: it stays in the queue until it has finished
CrashWorker ==
    /\ crashes < MaxCrashes
    /\ crashes' = crashes + 1
    /\ session' = [session EXCEPT ![Worker] = Idle]
    /\ UNCHANGED <<now, jobVars, row, provVars, msgVars>>

-----------------------------------------------------------------------------
Request == \/ \E j \in Jobs, p \in Providers, i \in Intents : Initiate(j, p, i)
           \/ SaveIntent \/ AdapterFails \/ StripeCreatesSession
           \/ SimulatorLoads \/ StripeCommits \/ SimulatorCommits
           \/ \E m \in enqueuing : Enqueued(m) \/ EnqueueFails(m)

Cancel == \E t \in Threads :
            CancelCommits(t) \/ \E i \in Intents : CancelReads(t, i)

Webhook == RecordsEvent \/ \E m \in emitted : Receive(m)

Settlement == \E p \in {Loop, Worker} :
                SettleReadsJob(p) \/ SettleCommits(p) \/ UpdateCommits(p)

Environment ==
    \/ \E i \in Intents : CustomerChecksOut(i) \/ DelayedPayment(i)
    \/ \E i \in Intents, k \in CallbackKinds, named \in BOOLEAN :
            MobileCallback(i, k, named)
    \/ \E m \in processed : Forget(m)
    \/ \E j \in Jobs : ChangeListing(j) \/ DeleteListing(j)
    \/ \E j \in Jobs, u \in Admins : EditListing(j, u)
    \/ \E u \in Users, js \in SUBSET Jobs : DeleteAccount(u, js)
    \/ Tick \/ CrashApi \/ CrashWorker

Next == \/ Request \/ Cancel \/ Webhook \/ Settlement \/ Environment
        \/ \E m \in queue : StartTask(m)

Spec == Init /\ [][Next]_vars
-----------------------------------------------------------------------------
(* Properties.                                                              *)

\* A success is reported of i: the simulator decided it, a live provider called
\* back with one, or Stripe sent checkout.session.completed, which it also does
\* for a payment that is still to come, or async_payment_succeeded.  (The
\* webhook settles on the first of the two without reading payment_status.)
Reported(i) ==
    \/ row[i].meta = "sim_completed"
    \/ \E m \in emitted : m.intent = i /\ Target(m) = "completed"

\* Stripe reported a success of an intent that has gone with its user's account
\* while its listing, which had changed hands, stayed: the lookup by listing
\* takes the report to another intent i of that listing.
Strayed(i) ==
    /\ row[i].status # "none"
    /\ \E m \in emitted : /\ m.kind \in Settling
                          /\ row[m.intent].status = "deleted"
                          /\ row[m.intent].job = row[i].job

Entitled(i) == Reported(i) \/ Strayed(i)

\* initiate_payment never leaves an employer with two open intents for one
\* job, whatever cancels, failures and adapters do to the first one
\* (_find_existing_open_intent is a read, not a constraint of the database).
OneOpenIntent ==
    \A i, k \in Intents :
        /\ row[i].status \in Open /\ row[k].status \in Open
        /\ row[i].job = row[k].job /\ row[i].user = row[k].user
        => i = k

\* featured_through and featured_charge_history are written from values loaded
\* earlier, each column only if it changed: together they still agree, the
\* listing is featured until the date bought by the last entry.
FeaturedFromLedger ==
    \A j \in Jobs :
        featured[j] = IF history[j] = <<>> THEN 0
                      ELSE row[history[j][Len(history[j])]].ext

\* A listing is featured, and a charge recorded, only on account of an intent
\* for that very job of which a success was reported, or which such a report
\* has strayed to; a cancel, a failure, a duplicate, a simulated failure or a
\* stale read never gives a listing a period.  (That money has arrived is not
\* part of a report: see Reported.)
FeaturedOnReport ==
    \A j \in Jobs :
        /\ featured[j] # 0 =>
             \E i \in Intents : /\ row[i].job = j /\ row[i].ext = featured[j]
                               /\ Entitled(i)
        /\ \A n \in DOMAIN history[j] :
             LET i == history[j][n] IN
             row[i].job = j /\ Entitled(i)

\* A listing becomes featured in the same transaction that completes the
\* intent and enters it in the ledger, and a completed intent does that only
\* if a stray report of Stripe's raced its own settlement.
SettlesAsOne ==
    [][\A j \in Jobs :
         featured'[j] # featured[j] /\ listing'[j] # "deleted" =>
           \E i \in Intents :
             /\ row[i].status # "completed" \/ Strayed(i)
             /\ row'[i].status = "completed"
             /\ row[i].job = j /\ featured'[j] = row[i].ext
             /\ history'[j] # <<>> /\ history'[j][Len(history'[j])] = i]_vars

\* In a market without simulators the whole machinery (requests cut short,
\* cancels, duplicated, reordered, forgotten and redelivered events, crashes)
\* shows the outside what FeaturedOrders promises.
Orders == INSTANCE FeaturedOrders WITH
    target    <- [i \in Intents |-> row[i].job],
    until     <- [i \in Intents |-> row[i].ext],
    reported  <- {i \in Intents : Reported(i)},
    withdrawn <- {i \in Intents : row[i].status = "deleted"},
    removed   <- {j \in Jobs : listing[j] = "deleted"},
    ledger    <- history

ImplementsOrders == Orders!Spec

-----------------------------------------------------------------------------
(* Liveness.  A handler that has started goes on (the loop, the threads and *)
(* the worker are scheduled); Stripe sends an event again until it gets a   *)
(* 2xx, so a message not yet answered does not always find the loop busy;   *)
(* arq runs the tasks that are due.  Crashes are finitely many.             *)

LoopSteps ==
    \/ SaveIntent \/ AdapterFails \/ StripeCreatesSession \/ SimulatorLoads
    \/ StripeCommits \/ SimulatorCommits \/ RecordsEvent
    \/ SettleReadsJob(Loop) \/ SettleCommits(Loop) \/ UpdateCommits(Loop)

WorkerSteps ==
    \/ SettleReadsJob(Worker) \/ SettleCommits(Worker) \/ UpdateCommits(Worker)
    \/ \E m \in queue : StartTask(m)

Fairness ==
    /\ WF_vars(LoopSteps) /\ WF_vars(WorkerSteps)
    /\ \A i \in Intents, k \in StripeKinds :
         SF_vars(Msg(k, i, TRUE) \notin acked /\ Receive(Msg(k, i, TRUE)))

LiveSpec == Spec /\ Fairness

Recorded(i) == \E n \in DOMAIN history[row[i].job] : history[row[i].job][n] = i

\* Stripe's report that a customer has checked out ends in the settlement of
\* the intent, unless its listing or its user's account is deleted: no crash,
\* duplicate, lost cache entry or cancel swallows the event.
ReportedIsSettled ==
    \A i \in Intents :
        (\E k \in Settling : Msg(k, i, TRUE) \in emitted \ acked) ~>
            \/ row[i].status = "completed" \/ Recorded(i)
            \/ row[i].status = "deleted"

\* A payment that reached the queue does not leave its intent open for ever,
\* even if the worker dies in the middle: PaymentPoller sees a final status.
QueuedIsResolved ==
    \A i \in Intents :
        (\E m \in queue : m.intent = i) ~> row[i].status \notin Open
=============================================================================
