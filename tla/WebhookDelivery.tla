--------------------------- MODULE WebhookDelivery ---------------------------
(***************************************************************************)
(* Outbound webhooks: services/webhooks.py, the handlers that emit events, *)
(* and the arq task deliver_webhook.                                       *)
(*                                                                         *)
(* Two handlers emit, both on threads of the API.  The pipeline one        *)
(* (change_application_status_endpoint) emits inside the transaction of    *)
(* the change and commits last.  The admin one (bulk_set_status, of which  *)
(* set_job_status is the case of one job) commits each publication first   *)
(* and emits afterwards: the delivery rows are flushed, and only the save  *)
(* of a later job of the same request commits them.  Either way the tasks  *)
(* are enqueued, outside the transaction, before the rows are committed.   *)
(* The worker runs the tasks as coroutines, which await the POST.          *)
(***************************************************************************)
EXTENDS Naturals, FiniteSets

CONSTANTS
    Changes,        \* status changes of applications, each made once
    Publications,   \* publications of jobs, each made once
    Endpoints,      \* rows of webhook_endpoints, registered once
    Threads,        \* threads of the API's pool
    MaxAttempts,    \* WEBHOOK_MAX_ATTEMPTS (10)
    MaxCrashes,     \* bound on the crashes, below arq's max_tries (5)
    NULL            \* no write

Writes     == Changes \cup Publications
Deliveries == Writes \X Endpoints

VARIABLES
    endpoint,   \* per endpoint: is it registered, active, and its events
    committed,  \* the writes that are in the database
    answered,   \* the writes whose request was answered with success
    unsent,     \* the writes answered although their emit failed
    fanned,     \* per write, the endpoints that its emit found
    delivery,   \* the committed rows of webhook_deliveries
    queue,      \* deliver_webhook tasks in arq
    posts,      \* POSTs made per delivery
    session,    \* what the handlers of the API hold
    run,        \* what the task of a delivery is doing
    crashes     \* crashes so far

vars == <<endpoint, committed, answered, unsent, fanned, delivery, queue, posts,
          session, run, crashes>>

Events == {"application.status_changed", "job.published"}

EventOf(w) ==
    IF w \in Changes THEN "application.status_changed" ELSE "job.published"

Endpoint == [status: {"absent", "active", "inactive"}, events: SUBSET Events]

Delivery == [status: {"none", "pending", "delivered", "failed"}, attempts: Nat]

\* rows: flushed in the open transaction; tasks: still to be enqueued
Session == [pc: {"idle", "emit", "enqueue"}, write: Writes \cup {NULL},
            rows: SUBSET Deliveries, tasks: SUBSET Deliveries]

Idle == [pc |-> "idle", write |-> NULL, rows |-> {}, tasks |-> {}]

ASSUME WebhookAssumption ==
    /\ Changes \cap Publications = {}
    /\ NULL \notin Writes
    /\ MaxAttempts \in Nat \ {0} /\ MaxCrashes \in 0..4

TypeOK ==
    /\ endpoint \in [Endpoints -> Endpoint]
    /\ committed \subseteq Writes
    /\ answered \subseteq Writes
    /\ unsent \subseteq Writes
    /\ fanned \in [Writes -> SUBSET Endpoints]
    /\ delivery \in [Deliveries -> Delivery]
    /\ queue \subseteq Deliveries
    /\ posts \in [Deliveries -> Nat]
    /\ session \in [Threads -> Session]
    /\ run \in [Deliveries -> {"idle", "post", "ok", "error", "done"}]
    /\ crashes \in 0..MaxCrashes

Init ==
    /\ endpoint = [e \in Endpoints |-> [status |-> "absent", events |-> {}]]
    /\ committed = {} /\ answered = {} /\ unsent = {}
    /\ fanned = [w \in Writes |-> {}]
    /\ delivery = [d \in Deliveries |-> [status |-> "none", attempts |-> 0]]
    /\ queue = {}
    /\ posts = [d \in Deliveries |-> 0]
    /\ session = [t \in Threads |-> Idle]
    /\ run = [d \in Deliveries |-> "idle"]
    /\ crashes = 0

-----------------------------------------------------------------------------
(* The endpoints.                                                           *)

Register(e) ==
    /\ endpoint[e].status = "absent"
    /\ \E s \in {"active", "inactive"}, evs \in SUBSET Events :
          endpoint' = [endpoint EXCEPT ![e] = [status |-> s, events |-> evs]]
    /\ UNCHANGED <<committed, answered, unsent, fanned, delivery, queue, posts, session, run, crashes>>

\* no request activates an endpoint again
Deactivate(e) ==
    /\ endpoint[e].status = "active"
    /\ endpoint' = [endpoint EXCEPT ![e].status = "inactive"]
    /\ UNCHANGED <<committed, answered, unsent, fanned, delivery, queue, posts, session, run, crashes>>

-----------------------------------------------------------------------------
(* The handlers that emit.                                                  *)

New(w) == w \notin committed \cup answered /\ \A t \in Threads : session[t].write # w

\* what a commit of the session's transaction does to the delivery rows
Inserted(rows) ==
    [d \in Deliveries |-> IF d \in rows THEN [status |-> "pending", attempts |-> 0]
                                        ELSE delivery[d]]

\* change_status flushes the new stage and the audit row
StartChange(t, w) ==
    /\ session[t].pc = "idle"
    /\ w \in Changes /\ New(w)
    /\ session' = [session EXCEPT ![t] = [Idle EXCEPT !.pc = "emit", !.write = w]]
    /\ UNCHANGED <<endpoint, committed, answered, unsent, fanned, delivery, queue, posts, run, crashes>>

\* The save of a job that becomes active, the first one of a request or, when
\* the tasks of the one before are enqueued, the next one of a bulk request.
\* It commits whatever the session has flushed before.
Publish(t, w) ==
    LET s == session[t] IN
    /\ \/ s.pc = "idle"
       \/ s.pc = "enqueue" /\ s.tasks = {} /\ s.write \in Publications
    /\ w \in Publications /\ New(w)
    /\ committed' = committed \cup {w}
    /\ delivery' = Inserted(s.rows)
    /\ session' = [session EXCEPT ![t] = [Idle EXCEPT !.pc = "emit", !.write = w]]
    /\ UNCHANGED <<endpoint, answered, unsent, fanned, queue, posts, run, crashes>>

Subscribed(w) ==
    {e \in Endpoints : endpoint[e].status = "active" /\ EventOf(w) \in endpoint[e].events}

\* emit: one row for each active endpoint that is subscribed to the event
Emit(t) ==
    LET w == session[t].write
        rows == {w} \X Subscribed(w)
    IN
    /\ session[t].pc = "emit"
    /\ fanned' = [fanned EXCEPT ![w] = Subscribed(w)]
    /\ session' = [session EXCEPT ![t].pc = "enqueue", ![t].rows = rows, ![t].tasks = rows]
    /\ UNCHANGED <<endpoint, committed, answered, unsent, delivery, queue, posts, run, crashes>>

\* Redis may refuse; the failure is logged and swallowed
Enqueue(t, d) ==
    /\ session[t].pc = "enqueue"
    /\ d \in session[t].tasks
    /\ session' = [session EXCEPT ![t].tasks = @ \ {d}]
    /\ queue' \in {queue, queue \cup {d}}
    /\ UNCHANGED <<endpoint, committed, answered, unsent, fanned, delivery, posts, run, crashes>>

\* mutant: saves the change before it emits, as the admin does
RespondLate(t) ==
    LET s == session[t] IN
    /\ s.pc = "enqueue" /\ s.tasks = {}
    /\ answered' = answered \cup {s.write}
    /\ committed' = committed \cup {s.write}
    /\ session' = [session EXCEPT ![t] = Idle]
    /\ UNCHANGED <<endpoint, unsent, fanned, delivery, queue, posts, run, crashes>>

\* The end of the request.  The pipeline commits the change with its rows;
\* get_db closes the session of the admin, which rolls its rows back.
Respond(t) ==
    LET s == session[t] IN
    /\ s.pc = "enqueue" /\ s.tasks = {}
    /\ answered' = answered \cup {s.write}
    /\ committed' = committed \cup {s.write}
    /\ delivery' = IF s.write \in Changes THEN Inserted(s.rows) ELSE delivery
    /\ session' = [session EXCEPT ![t] = Idle]
    /\ UNCHANGED <<endpoint, unsent, fanned, queue, posts, run, crashes>>

\* emit fails where it reads the endpoints, and its error is swallowed.  It has no
\* savepoint: PostgreSQL takes the commit of the broken transaction for a rollback
\* and says nothing, so the pipeline answers with success and the change is lost.
\* The admin's publication, committed before, stands.
EmitFails(t) ==
    LET s == session[t] IN
    /\ s.pc = "emit"
    /\ answered' = answered \cup {s.write}
    /\ unsent' = unsent \cup {s.write}
    /\ session' = [session EXCEPT ![t] = Idle]
    /\ UNCHANGED <<endpoint, committed, fanned, delivery, queue, posts, run, crashes>>

\* Another statement, a flush or the commit fails: the request ends in an error
\* and what was flushed in its open transaction is rolled back.
Abort(t) ==
    /\ session[t].pc # "idle"
    /\ session' = [session EXCEPT ![t] = Idle]
    /\ UNCHANGED <<endpoint, committed, answered, unsent, fanned, delivery, queue, posts, run, crashes>>

-----------------------------------------------------------------------------
(* The task.  arq keeps a task until it has ended and never runs it twice   *)
(* at a time; after a crash it runs it again.                               *)

EvenUncommitted(d) == TRUE      \* mutant: needs no row, say by taking a payload

Visible(d) == delivery[d].status # "none"

Due(d) == Visible(d) /\ delivery[d].status \notin {"delivered", "failed"}

\* mutant: the task is off the queue before it has ended
TakeTask(d) ==
    /\ d \in queue /\ run[d] = "idle"
    /\ run' = [run EXCEPT ![d] = IF Due(d) THEN "post" ELSE "done"]
    /\ queue' = queue \ {d}
    /\ UNCHANGED <<endpoint, committed, answered, unsent, fanned, delivery, posts, session, crashes>>

\* the row is not there (yet): the task ends and is gone
StartTask(d) ==
    /\ d \in queue /\ run[d] = "idle"
    /\ run' = [run EXCEPT ![d] = IF Due(d) THEN "post" ELSE "done"]
    /\ UNCHANGED <<endpoint, committed, answered, unsent, fanned, delivery, queue, posts, session, crashes>>

Post(d) ==
    /\ run[d] = "post"
    /\ posts' = [posts EXCEPT ![d] = @ + 1]
    /\ \E outcome \in {"ok", "error"} : run' = [run EXCEPT ![d] = outcome]
    /\ UNCHANGED <<endpoint, committed, answered, unsent, fanned, delivery, queue, session, crashes>>

AfterErrorRetrying(n) ==    \* mutant: a status that nothing else knows
    [status |-> IF n >= MaxAttempts THEN "failed" ELSE "retrying", attempts |-> n]

AfterErrorTooMany(n) ==     \* mutant: off by one
    [status |-> IF n > MaxAttempts THEN "failed" ELSE "pending", attempts |-> n]

AfterError(n) ==
    [status |-> IF n >= MaxAttempts THEN "failed" ELSE "pending", attempts |-> n]

\* the commit of the outcome; next_attempt_at is written and never read
Record(d) ==
    /\ run[d] \in {"ok", "error"}
    /\ delivery' = [delivery EXCEPT ![d] =
          IF run[d] = "ok" THEN [@ EXCEPT !.status = "delivered"]
                           ELSE AfterError(@.attempts + 1)]
    /\ run' = [run EXCEPT ![d] = "done"]
    /\ UNCHANGED <<endpoint, committed, answered, unsent, fanned, queue, posts, session, crashes>>

TaskEnds(d) ==
    /\ run[d] = "done"
    /\ run' = [run EXCEPT ![d] = "idle"]
    /\ queue' = queue \ {d}
    /\ UNCHANGED <<endpoint, committed, answered, unsent, fanned, delivery, posts, session, crashes>>

-----------------------------------------------------------------------------
CrashApi ==
    /\ crashes < MaxCrashes
    /\ crashes' = crashes + 1
    /\ session' = [t \in Threads |-> Idle]
    /\ UNCHANGED <<endpoint, committed, answered, unsent, fanned, delivery, queue, posts, run>>

CrashWorker ==
    /\ crashes < MaxCrashes
    /\ crashes' = crashes + 1
    /\ run' = [d \in Deliveries |-> "idle"]
    /\ UNCHANGED <<endpoint, committed, answered, unsent, fanned, delivery, queue, posts, session>>

Handler(t) ==
    \/ \E w \in Writes : StartChange(t, w) \/ Publish(t, w)
    \/ Emit(t) \/ EmitFails(t) \/ Respond(t) \/ Abort(t)
    \/ \E d \in session[t].tasks : Enqueue(t, d)

Task(d) == StartTask(d) \/ Post(d) \/ Record(d) \/ TaskEnds(d)

Next ==
    \/ \E e \in Endpoints : Register(e) \/ Deactivate(e)
    \/ \E t \in Threads : Handler(t)
    \/ \E d \in Deliveries : Task(d)
    \/ CrashApi \/ CrashWorker

Spec == Init /\ [][Next]_vars

\* the worker's loop and the coroutines on it go on; crashes are finitely many
LiveSpec == Spec /\ \A d \in Deliveries : WF_vars(Task(d))
-----------------------------------------------------------------------------
(* Properties.                                                              *)

\* No receiver hears of a change that was rolled back or is not yet in the
\* database, although its task is enqueued before the commit.
SentOnlyIfCommitted ==
    \A d \in Deliveries : posts[d] > 0 => d[1] \in committed

\* A change that the pipeline answered with success is in the database, together
\* with a delivery for every endpoint that emit found and no other, whatever failed
\* to be enqueued and whenever the API crashed; or else its emit failed, and then
\* neither the change nor any of its deliveries is there.
ChangeIsRecorded ==
    \A w \in Changes \cap answered :
        /\ w \in committed <=> w \notin unsent
        /\ \A e \in Endpoints :
              delivery[<<w, e>>].status # "none" <=> w \in committed /\ e \in fanned[w]

\* deliver_webhook: a delivery that has its verdict is never sent again, even by
\* a task that a crash makes arq run a second time.
NeverSentAgain ==
    [][\A d \in Deliveries :
         posts'[d] # posts[d] => delivery[d].status \notin {"none", "delivered", "failed"}]_vars

\* A verdict has its POSTs behind it: as many failed ones as attempts counts,
\* MaxAttempts of them before "failed", and one more before "delivered".  A
\* crash may forget an attempt, it never invents one.
VerdictIsEarned ==
    \A d \in Deliveries :
        /\ delivery[d].attempts <= posts[d]
        /\ delivery[d].status = "failed" => delivery[d].attempts = MaxAttempts
        /\ delivery[d].status = "delivered" => delivery[d].attempts < posts[d]
        /\ delivery[d].attempts >= MaxAttempts => delivery[d].status = "failed"

\* A task whose row is committed before it starts leads to a POST at least,
\* through any crash of the worker.
QueuedIsAttempted ==
    \A d \in Deliveries :
        (d \in queue /\ Due(d) /\ run[d] = "idle") ~> posts[d] > 0
=============================================================================
