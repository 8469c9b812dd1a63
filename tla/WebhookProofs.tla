---------------------------- MODULE WebhookProofs ----------------------------
(***************************************************************************)
(* Proofs about WebhookDelivery, for any writes, endpoints and threads.    *)
(***************************************************************************)
EXTENDS WebhookDelivery, TLAPS

USE WebhookAssumption DEF Writes, Deliveries

\* What a handler holds: a publication is committed, a change is not, nor has it
\* been answered, no two
\* handlers have the same write, and the rows are those of what emit found.
Sessions ==
    \A t \in Threads :
        /\ session[t].pc = "idle" => session[t].write = NULL
        /\ session[t].pc # "idle" => session[t].write \in Writes
        /\ session[t].write \in Publications => session[t].write \in committed
        /\ session[t].write \in Changes =>
             session[t].write \notin committed \cup answered
        /\ session[t].pc = "enqueue" =>
             session[t].rows = {session[t].write} \X fanned[session[t].write]
        /\ session[t].pc # "enqueue" => session[t].rows = {}
        /\ \A u \in Threads \ {t} :
              session[t].write = NULL \/ session[u].write # session[t].write

\* A row is there only with its write, and a change answered with all its rows or
\* with none.
Rows ==
    /\ \A d \in Deliveries : delivery[d].status # "none" => d[1] \in committed
    /\ unsent \subseteq answered
    /\ ChangeIsRecorded

\* A task past its start works on a pending row and has one more POST behind it
\* than attempts counts.
Runs ==
    /\ \A d \in Deliveries :
        /\ run[d] \in {"post", "ok", "error"} => delivery[d].status = "pending"
        /\ run[d] \in {"ok", "error"} => delivery[d].attempts < posts[d]
        /\ posts[d] > 0 => delivery[d].status # "none"
    /\ VerdictIsEarned

WebhookInv == TypeOK /\ Sessions /\ Rows /\ Runs

\* Every step keeps the types: one step of the proof per action.
LEMMA TypeStep ==
    ASSUME WebhookInv, [Next]_vars PROVE TypeOK'
<1> USE DEF WebhookInv
<1>1. ASSUME NEW e \in Endpoints, Register(e) PROVE TypeOK'
  BY <1>1 DEF Register, Endpoint, TypeOK
<1>2. ASSUME NEW e \in Endpoints, Deactivate(e) PROVE TypeOK'
  BY SMTT(30), <1>2 DEF Deactivate, Endpoint, TypeOK
<1>3. ASSUME NEW t \in Threads, NEW w \in Writes, StartChange(t, w) PROVE TypeOK'
  BY <1>3 DEF StartChange, New, Idle, TypeOK, Delivery, Session
<1>4. ASSUME NEW t \in Threads, NEW w \in Writes, Publish(t, w) PROVE TypeOK'
  BY <1>4 DEF Publish, New, Idle, Inserted, TypeOK, Delivery, Session
<1>5. ASSUME NEW t \in Threads, Emit(t) PROVE TypeOK'
  <2> DEFINE w == session[t].write
             rows == {w} \X Subscribed(w)
  <2>1. w \in Writes /\ Subscribed(w) \in SUBSET Endpoints
    BY <1>5 DEF Emit, Sessions, Subscribed
  <2>2. rows \in SUBSET Deliveries
    BY <2>1
  <2>3. /\ fanned' = [fanned EXCEPT ![w] = Subscribed(w)]
        /\ session' = [session EXCEPT ![t] = [@ EXCEPT !.pc = "enqueue", !.rows = rows, !.tasks = rows]]
    BY <1>5 DEF Emit
  <2> HIDE DEF rows
  <2>4. session' \in [Threads -> Session]
    <3>1. session[t] \in Session
      BY DEF TypeOK
    <3>2. [session[t] EXCEPT !.pc = "enqueue", !.rows = rows, !.tasks = rows] \in Session
      BY <3>1, <2>2 DEF Session
    <3> QED
      BY <3>2, <2>3 DEF TypeOK
  <2> QED
    BY <1>5, <2>1, <2>3, <2>4 DEF Emit, TypeOK
<1>6. ASSUME NEW t \in Threads, NEW d \in session[t].tasks, Enqueue(t, d) PROVE TypeOK'
  <2>1. d \in Deliveries
    BY DEF TypeOK, Session
  <2>2. session' \in [Threads -> Session]
    <3>1. session[t] \in Session
      BY DEF TypeOK
    <3>2. [session[t] EXCEPT !.tasks = session[t].tasks \ {d}] \in Session
      BY <3>1 DEF Session
    <3> QED
      BY <3>2, <1>6 DEF Enqueue, TypeOK
  <2> QED
    BY <1>6, <2>1, <2>2 DEF Enqueue, TypeOK
<1>7. ASSUME NEW t \in Threads, Respond(t) PROVE TypeOK'
  BY <1>7 DEF Respond, Idle, Inserted, TypeOK, Sessions, Delivery, Session
<1>71. ASSUME NEW t \in Threads, EmitFails(t) PROVE TypeOK'
  BY <1>71 DEF EmitFails, Idle, TypeOK, Sessions, Delivery, Session
<1>8. ASSUME NEW t \in Threads, Abort(t) PROVE TypeOK'
  BY <1>8 DEF Abort, Idle, TypeOK, Delivery, Session
<1>9. ASSUME NEW d \in Deliveries, StartTask(d) PROVE TypeOK'
  BY <1>9 DEF StartTask, Due, Visible, TypeOK, Delivery, Session
<1>10. ASSUME NEW d \in Deliveries, Post(d) PROVE TypeOK'
  BY <1>10 DEF Post, TypeOK, Delivery, Session
<1>11. ASSUME NEW d \in Deliveries, Record(d) PROVE TypeOK'
  BY <1>11 DEF Record, AfterError, TypeOK, Delivery, Session
<1>12. ASSUME NEW d \in Deliveries, TaskEnds(d) PROVE TypeOK'
  BY <1>12 DEF TaskEnds, TypeOK, Delivery, Session
<1>13. ASSUME CrashApi PROVE TypeOK'
  BY <1>13 DEF CrashApi, Idle, TypeOK, Delivery, Session
<1>14. ASSUME CrashWorker PROVE TypeOK'
  BY <1>14 DEF CrashWorker, TypeOK, Delivery, Session
<1>15. ASSUME UNCHANGED vars PROVE TypeOK'
  BY <1>15 DEF vars, TypeOK, Delivery, Session
<1> QED
  BY <1>1, <1>2, <1>3, <1>4, <1>5, <1>6, <1>7, <1>71, <1>8, <1>9, <1>10, <1>11, <1>12, <1>13, <1>14, <1>15 DEF Next, Handler, Task

\* Every step keeps what the handlers of the API may hold: Publish, Emit and
\* Respond are the ones that move a write or its rows.
LEMMA SessionsStep ==
    ASSUME WebhookInv, [Next]_vars PROVE Sessions'
<1> USE DEF WebhookInv
<1>1. ASSUME NEW e \in Endpoints, Register(e) PROVE Sessions'
  BY <1>1 DEF Register, Sessions
<1>2. ASSUME NEW e \in Endpoints, Deactivate(e) PROVE Sessions'
  BY <1>2 DEF Deactivate, Sessions
<1>3. ASSUME NEW t \in Threads, NEW w \in Writes, StartChange(t, w) PROVE Sessions'
  BY <1>3 DEF StartChange, New, Idle, TypeOK, Sessions, Session
<1>4. ASSUME NEW t \in Threads, NEW w \in Writes, Publish(t, w) PROVE Sessions'
  BY <1>4 DEF Publish, New, Idle, Inserted, TypeOK, Sessions, Session
<1>5. ASSUME NEW t \in Threads, Emit(t) PROVE Sessions'
  <2> DEFINE w == session[t].write
             rows == {w} \X Subscribed(w)
  <2>1. w \in Writes /\ Subscribed(w) \in SUBSET Endpoints /\ session[t].pc = "emit"
    BY <1>5 DEF Emit, Sessions, Subscribed
  <2>2. /\ fanned' = [fanned EXCEPT ![w] = Subscribed(w)]
        /\ session' = [session EXCEPT ![t] = [@ EXCEPT !.pc = "enqueue", !.rows = rows, !.tasks = rows]]
        /\ committed' = committed /\ answered' = answered
    BY <1>5 DEF Emit
  <2>3. fanned'[w] = Subscribed(w)
    BY <2>1, <2>2 DEF TypeOK
  <2>4. session[t] \in Session
    BY DEF TypeOK
  <2>5. /\ session'[t].pc = "enqueue" /\ session'[t].write = w /\ session'[t].rows = rows
        /\ \A u \in Threads \ {t} : session'[u] = session[u]
    <3> HIDE DEF rows
    <3> QED
      BY <2>2, <2>4 DEF TypeOK, Session
  <2>6. \A u \in Threads : session'[u].write = session[u].write
    BY <2>5
  <2>7. \A u \in Threads \ {t} : session[u].write # w
    BY <2>1 DEF Sessions
  <2>8. ASSUME NEW u \in Threads, session'[u].pc = "enqueue"
        PROVE  session'[u].rows = {session'[u].write} \X fanned'[session'[u].write]
    <3>1. CASE u = t
      BY <3>1, <2>3, <2>5
    <3>2. CASE u # t
      <4>1. session'[u] = session[u] /\ session[u].pc = "enqueue" /\ session[u].write # w
        BY <3>2, <2>5, <2>7, <2>8
      <4>2. session[u].write \in Writes
        BY <4>1 DEF Sessions
      <4>3. fanned'[session[u].write] = fanned[session[u].write]
        BY <2>2, <4>1, <4>2 DEF TypeOK
      <4>4. session[u].rows = {session[u].write} \X fanned[session[u].write]
        BY <4>1 DEF Sessions
      <4> QED
        BY <4>1, <4>3, <4>4
    <3> QED
      BY <3>1, <3>2
  <2> HIDE DEF w, rows
  <2> QED
    <3>1. ASSUME NEW u \in Threads
          PROVE  session'[u].pc # "enqueue" => session'[u].rows = {}
      BY <2>5 DEF Sessions
    <3>2. ASSUME NEW u \in Threads
          PROVE  /\ session'[u].pc = "idle" => session'[u].write = NULL
                 /\ session'[u].pc # "idle" => session'[u].write \in Writes
      BY <2>1, <2>5, w = session[t].write DEF Sessions, w
    <3>3. ASSUME NEW u \in Threads
          PROVE  /\ session'[u].write \in Publications => session'[u].write \in committed'
                 /\ session'[u].write \in Changes =>
                      session'[u].write \notin committed' \cup answered'
                 /\ \A v \in Threads \ {u} :
                       session'[u].write = NULL \/ session'[v].write # session'[u].write
      BY <2>2, <2>6 DEF Sessions
    <3> QED
      BY <2>8, <3>1, <3>2, <3>3 DEF Sessions
<1>6. ASSUME NEW t \in Threads, NEW d \in session[t].tasks, Enqueue(t, d) PROVE Sessions'
  <2>1. /\ session' = [session EXCEPT ![t] = [@ EXCEPT !.tasks = session[t].tasks \ {d}]]
        /\ committed' = committed /\ answered' = answered /\ fanned' = fanned
    BY <1>6 DEF Enqueue
  <2>2. \A u \in Threads : /\ session'[u].pc = session[u].pc
                            /\ session'[u].write = session[u].write
                            /\ session'[u].rows = session[u].rows
    <3>1. session[t] \in Session
      BY DEF TypeOK
    <3> QED
      BY <2>1, <3>1 DEF TypeOK, Session
  <2> QED
    <3>1. ASSUME NEW u \in Threads, session'[u].pc = "enqueue"
          PROVE  session'[u].rows = {session'[u].write} \X fanned'[session'[u].write]
      <4>1. session[u].rows = {session[u].write} \X fanned[session[u].write]
        BY <2>2, <3>1 DEF Sessions
      <4> QED
        BY <2>1, <2>2, <4>1
    <3>2. ASSUME NEW u \in Threads
          PROVE  /\ session'[u].pc # "enqueue" => session'[u].rows = {}
                 /\ session'[u].pc = "idle" => session'[u].write = NULL
                 /\ session'[u].pc # "idle" => session'[u].write \in Writes
                 /\ session'[u].write \in Publications => session'[u].write \in committed'
                 /\ session'[u].write \in Changes =>
                      session'[u].write \notin committed' \cup answered'
                 /\ \A v \in Threads \ {u} :
                       session'[u].write = NULL \/ session'[v].write # session'[u].write
      BY <2>1, <2>2 DEF Sessions
    <3> QED
      BY <3>1, <3>2 DEF Sessions
<1>7. ASSUME NEW t \in Threads, Respond(t) PROVE Sessions'
  BY <1>7 DEF Respond, Idle, Inserted, TypeOK, Sessions, Session
<1>71. ASSUME NEW t \in Threads, EmitFails(t) PROVE Sessions'
  BY <1>71 DEF EmitFails, Idle, TypeOK, Sessions, Session
<1>8. ASSUME NEW t \in Threads, Abort(t) PROVE Sessions'
  BY <1>8 DEF Abort, Idle, TypeOK, Sessions, Session
<1>9. ASSUME NEW d \in Deliveries, StartTask(d) PROVE Sessions'
  BY <1>9 DEF StartTask, Sessions
<1>10. ASSUME NEW d \in Deliveries, Post(d) PROVE Sessions'
  BY <1>10 DEF Post, Sessions
<1>11. ASSUME NEW d \in Deliveries, Record(d) PROVE Sessions'
  BY <1>11 DEF Record, Sessions
<1>12. ASSUME NEW d \in Deliveries, TaskEnds(d) PROVE Sessions'
  BY <1>12 DEF TaskEnds, Sessions
<1>13. ASSUME CrashApi PROVE Sessions'
  BY <1>13 DEF CrashApi, Idle, TypeOK, Sessions, Session
<1>14. ASSUME CrashWorker PROVE Sessions'
  BY <1>14 DEF CrashWorker, Sessions
<1>15. ASSUME UNCHANGED vars PROVE Sessions'
  BY <1>15 DEF vars, Sessions
<1> QED
  BY <1>1, <1>2, <1>3, <1>4, <1>5, <1>6, <1>7, <1>71, <1>8, <1>9, <1>10, <1>11, <1>12, <1>13, <1>14, <1>15 DEF Next, Handler, Task

\* Every step keeps the rows with their writes: Publish and Respond commit, and
\* Record changes a row that is there.
LEMMA RowsStep ==
    ASSUME WebhookInv, [Next]_vars PROVE Rows'
<1> USE DEF WebhookInv
<1>1. ASSUME NEW e \in Endpoints, Register(e) PROVE Rows'
  BY <1>1 DEF Register, Rows, ChangeIsRecorded
<1>2. ASSUME NEW e \in Endpoints, Deactivate(e) PROVE Rows'
  BY <1>2 DEF Deactivate, Rows, ChangeIsRecorded
<1>3. ASSUME NEW t \in Threads, NEW w \in Writes, StartChange(t, w) PROVE Rows'
  BY <1>3 DEF StartChange, New, Idle, TypeOK, Rows, ChangeIsRecorded
<1>4. ASSUME NEW t \in Threads, NEW w \in Writes, Publish(t, w) PROVE Rows'
  <2>1. /\ committed' = committed \cup {w} /\ answered' = answered
        /\ unsent' = unsent /\ fanned' = fanned
        /\ delivery' = Inserted(session[t].rows)
    BY <1>4 DEF Publish
  <2>2. \A d \in session[t].rows : d[1] \in Publications /\ d[1] \in committed
    <3>1. CASE session[t].pc = "enqueue" /\ session[t].write \in Publications
      BY <3>1 DEF Sessions
    <3>2. CASE session[t].pc = "idle"
      BY <3>2 DEF Sessions
    <3> QED
      BY <1>4, <3>1, <3>2 DEF Publish
  <2>3. \A d \in Deliveries \ session[t].rows : delivery'[d] = delivery[d]
    BY <2>1 DEF Inserted
  <2>4. \A d \in Deliveries : delivery'[d].status # "none" => d[1] \in committed'
    BY <2>1, <2>2, <2>3 DEF Rows
  <2>5. ASSUME NEW v \in Changes \cap answered'
        PROVE  /\ v \in committed' <=> v \notin unsent'
               /\ \A e \in Endpoints :
                     delivery'[<<v, e>>].status # "none" <=> v \in committed' /\ e \in fanned'[v]
    <3>1. \A e \in Endpoints : <<v, e>> \in Deliveries \ session[t].rows
      BY <2>1, <2>2
    <3>2. v \in committed' <=> v \in committed
      BY <1>4, <2>1 DEF Publish
    <3> QED
      BY <2>1, <2>3, <3>1, <3>2 DEF Rows, ChangeIsRecorded
  <2> QED
    BY <2>1, <2>4, <2>5 DEF Rows, ChangeIsRecorded
<1>5. ASSUME NEW t \in Threads, Emit(t) PROVE Rows'
  BY ZenonT(60), <1>5 DEF Emit, Subscribed, TypeOK, Sessions, Rows, ChangeIsRecorded, Delivery
<1>6. ASSUME NEW t \in Threads, NEW d \in session[t].tasks, Enqueue(t, d) PROVE Rows'
  BY <1>6 DEF Enqueue, TypeOK, Rows, ChangeIsRecorded
<1>7. ASSUME NEW t \in Threads, Respond(t) PROVE Rows'
  <2> DEFINE w == session[t].write
  <2>1. /\ committed' = committed \cup {w} /\ answered' = answered \cup {w}
        /\ unsent' = unsent /\ fanned' = fanned
        /\ w \in Changes => delivery' = Inserted(session[t].rows)
        /\ w \notin Changes => delivery' = delivery
    BY <1>7 DEF Respond
  <2>2. w \in Writes /\ session[t].rows = {w} \X fanned[w]
    BY <1>7 DEF Respond, Sessions
  <2>3. \A d \in session[t].rows : d[1] = w
    BY <2>2
  <2>4. \A d \in Deliveries \ session[t].rows : delivery'[d] = delivery[d]
    BY <2>1 DEF Inserted
  <2>5. \A d \in Deliveries : delivery'[d].status # "none" => d[1] \in committed'
    BY <2>1, <2>3, <2>4 DEF Rows
  <2>6. ASSUME NEW v \in Changes \cap answered', v = w
        PROVE  /\ v \in committed' <=> v \notin unsent'
               /\ \A e \in Endpoints :
                     delivery'[<<v, e>>].status # "none" <=> v \in committed' /\ e \in fanned'[v]
    <3>1. w \notin committed /\ w \notin unsent
      BY <2>6 DEF Sessions, Rows
    <3>2. ASSUME NEW e \in Endpoints
          PROVE  delivery'[<<v, e>>].status # "none" <=> e \in fanned[v]
      <4>1. <<v, e>> \in Deliveries /\ delivery[<<v, e>>].status = "none"
        BY <2>6, <3>1 DEF Rows
      <4>2. <<v, e>> \in session[t].rows <=> e \in fanned[v]
        BY <2>2, <2>6
      <4>3. delivery'[<<v, e>>] = IF <<v, e>> \in session[t].rows
                                  THEN [status |-> "pending", attempts |-> 0]
                                  ELSE delivery[<<v, e>>]
        BY <2>1, <2>6, <4>1 DEF Inserted
      <4> QED
        BY <4>1, <4>2, <4>3
    <3> QED
      BY <2>1, <2>6, <3>1, <3>2
  <2>7. ASSUME NEW v \in Changes \cap answered', v # w
        PROVE  /\ v \in committed' <=> v \notin unsent'
               /\ \A e \in Endpoints :
                     delivery'[<<v, e>>].status # "none" <=> v \in committed' /\ e \in fanned'[v]
    <3>1. v \in answered /\ \A e \in Endpoints : <<v, e>> \in Deliveries \ session[t].rows
      BY <2>1, <2>3, <2>7
    <3>2. v \in committed' <=> v \in committed
      BY <2>1, <2>7
    <3> QED
      BY <2>1, <2>4, <3>1, <3>2 DEF Rows, ChangeIsRecorded
  <2> QED
    BY <2>1, <2>5, <2>6, <2>7 DEF Rows, ChangeIsRecorded
<1>71. ASSUME NEW t \in Threads, EmitFails(t) PROVE Rows'
  <2>1. /\ session[t].write \in Writes
        /\ session[t].write \in Changes => session[t].write \notin committed \cup answered
    BY <1>71 DEF EmitFails, Sessions
  <2>2. /\ answered' = answered \cup {session[t].write}
        /\ unsent' = unsent \cup {session[t].write}
        /\ UNCHANGED <<committed, delivery, fanned>>
    BY <1>71 DEF EmitFails
  <2>3. \A v \in Changes, e \in Endpoints :
          v \notin committed => delivery[<<v, e>>].status = "none"
    BY DEF Rows
  <2>4. \A v \in Changes \cap answered' : v = session[t].write \/ v \in answered
    BY <2>2
  <2>5. ChangeIsRecorded'
    BY <2>1, <2>2, <2>3, <2>4 DEF Rows, ChangeIsRecorded
  <2> QED  BY <2>2, <2>5 DEF Rows
<1>8. ASSUME NEW t \in Threads, Abort(t) PROVE Rows'
  BY <1>8 DEF Abort, Idle, TypeOK, Rows, ChangeIsRecorded
<1>9. ASSUME NEW d \in Deliveries, StartTask(d) PROVE Rows'
  BY <1>9 DEF StartTask, Due, Visible, TypeOK, Rows, ChangeIsRecorded
<1>10. ASSUME NEW d \in Deliveries, Post(d) PROVE Rows'
  BY <1>10 DEF Post, TypeOK, Rows, ChangeIsRecorded
<1>11. ASSUME NEW d \in Deliveries, Record(d) PROVE Rows'
  <2>1. delivery[d] \in Delivery /\ delivery[d].status = "pending"
    BY <1>11 DEF Record, TypeOK, Runs
  <2>2. delivery'[d].status # "none"
    BY <1>11, <2>1 DEF Record, AfterError, TypeOK, Delivery
  <2>3. \A c \in Deliveries : delivery'[c].status # "none" <=> delivery[c].status # "none"
    BY <1>11, <2>1, <2>2 DEF Record, TypeOK
  <2>4. UNCHANGED <<committed, answered, unsent, fanned>>
    BY <1>11 DEF Record
  <2> QED
    BY <2>3, <2>4 DEF Rows, ChangeIsRecorded
<1>12. ASSUME NEW d \in Deliveries, TaskEnds(d) PROVE Rows'
  BY <1>12 DEF TaskEnds, TypeOK, Rows, ChangeIsRecorded
<1>13. ASSUME CrashApi PROVE Rows'
  BY <1>13 DEF CrashApi, Idle, TypeOK, Rows, ChangeIsRecorded
<1>14. ASSUME CrashWorker PROVE Rows'
  BY <1>14 DEF CrashWorker, TypeOK, Rows, ChangeIsRecorded
<1>15. ASSUME UNCHANGED vars PROVE Rows'
  BY <1>15 DEF vars, TypeOK, Rows, ChangeIsRecorded
<1> QED
  BY <1>1, <1>2, <1>3, <1>4, <1>5, <1>6, <1>7, <1>71, <1>8, <1>9, <1>10, <1>11, <1>12, <1>13, <1>14, <1>15 DEF Next, Handler, Task

\* Every step keeps the bookkeeping of the tasks: StartTask reads the row, Post
\* and Record use it, and no other action touches a pending row.
LEMMA RunsStep ==
    ASSUME WebhookInv, [Next]_vars PROVE Runs'
<1> USE DEF WebhookInv
<1>1. ASSUME NEW e \in Endpoints, Register(e) PROVE Runs'
  BY <1>1 DEF Register, Runs, VerdictIsEarned
<1>2. ASSUME NEW e \in Endpoints, Deactivate(e) PROVE Runs'
  BY <1>2 DEF Deactivate, Runs, VerdictIsEarned
<1>3. ASSUME NEW t \in Threads, NEW w \in Writes, StartChange(t, w) PROVE Runs'
  BY <1>3 DEF StartChange, New, Idle, Runs, VerdictIsEarned
<1>4. ASSUME NEW t \in Threads, NEW w \in Writes, Publish(t, w) PROVE Runs'
  BY <1>4 DEF Publish, New, Idle, Inserted, TypeOK, Sessions, Runs, VerdictIsEarned, Delivery
<1>5. ASSUME NEW t \in Threads, Emit(t) PROVE Runs'
  BY <1>5 DEF Emit, Subscribed, Sessions, Runs, VerdictIsEarned
<1>6. ASSUME NEW t \in Threads, NEW d \in session[t].tasks, Enqueue(t, d) PROVE Runs'
  BY <1>6 DEF Enqueue, Runs, VerdictIsEarned
<1>7. ASSUME NEW t \in Threads, Respond(t) PROVE Runs'
  BY <1>7 DEF Respond, Idle, Inserted, TypeOK, Sessions, Runs, VerdictIsEarned, Delivery
<1>71. ASSUME NEW t \in Threads, EmitFails(t) PROVE Runs'
  BY <1>71 DEF EmitFails, Idle, Runs, VerdictIsEarned
<1>8. ASSUME NEW t \in Threads, Abort(t) PROVE Runs'
  BY <1>8 DEF Abort, Idle, Runs, VerdictIsEarned
<1>9. ASSUME NEW d \in Deliveries, StartTask(d) PROVE Runs'
  BY <1>9 DEF StartTask, Due, Visible, TypeOK, Runs, VerdictIsEarned, Delivery
<1>10. ASSUME NEW d \in Deliveries, Post(d) PROVE Runs'
  BY <1>10 DEF Post, TypeOK, Runs, VerdictIsEarned, Delivery
<1>11. ASSUME NEW d \in Deliveries, Record(d) PROVE Runs'
  <2>1. /\ delivery[d] \in Delivery /\ delivery[d].status = "pending"
        /\ delivery[d].attempts < MaxAttempts /\ delivery[d].attempts < posts[d]
        /\ posts[d] \in Nat
    BY <1>11 DEF Record, TypeOK, Runs, VerdictIsEarned, Delivery
  <2>2. /\ \/ delivery'[d] = [delivery[d] EXCEPT !.status = "delivered"]
           \/ delivery'[d] = AfterError(delivery[d].attempts + 1)
        /\ run'[d] = "done" /\ posts' = posts
        /\ \A c \in Deliveries \ {d} : delivery'[c] = delivery[c] /\ run'[c] = run[c]
    BY <1>11 DEF Record, TypeOK
  <2>3. /\ delivery'[d].status # "none" /\ delivery'[d].attempts <= posts[d]
        /\ delivery'[d].status = "failed" <=> delivery'[d].attempts >= MaxAttempts
        /\ delivery'[d].status = "failed" => delivery'[d].attempts = MaxAttempts
        /\ delivery'[d].status = "delivered" => delivery'[d].attempts < posts[d]
    BY <2>1, <2>2 DEF AfterError, Delivery
  <2> QED  BY <2>2, <2>3 DEF Runs, VerdictIsEarned
<1>12. ASSUME NEW d \in Deliveries, TaskEnds(d) PROVE Runs'
  BY <1>12 DEF TaskEnds, TypeOK, Runs, VerdictIsEarned
<1>13. ASSUME CrashApi PROVE Runs'
  BY <1>13 DEF CrashApi, Idle, TypeOK, Runs, VerdictIsEarned
<1>14. ASSUME CrashWorker PROVE Runs'
  BY <1>14 DEF CrashWorker, TypeOK, Runs, VerdictIsEarned
<1>15. ASSUME UNCHANGED vars PROVE Runs'
  BY <1>15 DEF vars, Runs, VerdictIsEarned
<1> QED
  BY <1>1, <1>2, <1>3, <1>4, <1>5, <1>6, <1>7, <1>71, <1>8, <1>9, <1>10, <1>11, <1>12, <1>13, <1>14, <1>15 DEF Next, Handler, Task


\* The initial state satisfies the invariant: nothing is written or queued yet.
LEMMA InitInv ==
    ASSUME Init PROVE WebhookInv
<1>1. TypeOK
  BY DEF Init, TypeOK, Endpoint, Delivery, Session, Idle
<1>2. Sessions
  BY DEF Init, Sessions, Idle
<1>3. Rows
  BY DEF Init, Rows, ChangeIsRecorded
<1>4. Runs
  BY DEF Init, Runs, VerdictIsEarned
<1> QED
  BY <1>1, <1>2, <1>3, <1>4 DEF WebhookInv

\* The invariant is inductive, whatever the handlers, the tasks and the crashes
\* of WebhookDelivery do in whatever order.
THEOREM WebhookInvariant == Spec => []WebhookInv
<1>1. Init => WebhookInv
  BY InitInv
<1>2. WebhookInv /\ [Next]_vars => WebhookInv'
  BY TypeStep, SessionsStep, RowsStep, RunsStep DEF WebhookInv
<1> QED
  BY <1>1, <1>2, PTL DEF Spec

\* Every variable keeps its type, for any endpoints, threads and crashes.
THEOREM WebhookTypeCorrect == Spec => []TypeOK
<1>1. WebhookInv => TypeOK
  BY DEF WebhookInv
<1> QED
  BY <1>1, WebhookInvariant, PTL

\* deliver_webhook POSTs only what is in the database: the task is enqueued
\* before the commit, but without its row it ends with no POST.
THEOREM WebhookSentOnlyIfCommitted == Spec => []SentOnlyIfCommitted
<1>1. WebhookInv => SentOnlyIfCommitted
  BY DEF WebhookInv, Runs, Rows, SentOnlyIfCommitted
<1> QED
  BY <1>1, WebhookInvariant, PTL

\* change_application_status_endpoint answers with success when the change and
\* exactly the delivery rows that its emit found endpoints for are in the database,
\* in one transaction, or when its emit has failed, and then all of it is lost.
THEOREM WebhookChangeIsRecorded == Spec => []ChangeIsRecorded
<1>1. WebhookInv => ChangeIsRecorded
  BY DEF WebhookInv, Rows
<1> QED
  BY <1>1, WebhookInvariant, PTL

\* deliver_webhook counts only POSTs that were made, and gives its verdict at
\* MaxAttempts or at a success, for every value of MaxAttempts.
THEOREM WebhookVerdictIsEarned == Spec => []VerdictIsEarned
<1>1. WebhookInv => VerdictIsEarned
  BY DEF WebhookInv, Runs
<1> QED
  BY <1>1, WebhookInvariant, PTL

\* No step of the worker POSTs a delivery that has no row or has its verdict,
\* also when arq runs its task again after a crash.
THEOREM WebhookNeverSentAgain == Spec => NeverSentAgain
<1> DEFINE Step == \A d \in Deliveries :
                     posts'[d] # posts[d] =>
                       delivery[d].status \notin {"none", "delivered", "failed"}
<1>1. WebhookInv /\ [Next]_vars => [Step]_vars
  <2> SUFFICES ASSUME WebhookInv, [Next]_vars PROVE Step
    OBVIOUS
  <2>1. CASE posts' = posts
    BY <2>1
  <2>2. ASSUME NEW d \in Deliveries, Post(d) PROVE Step
    <3>1. delivery[d].status = "pending"
      BY <2>2 DEF Post, WebhookInv, Runs
    <3>2. \A c \in Deliveries \ {d} : posts'[c] = posts[c]
      BY <2>2 DEF Post, WebhookInv, TypeOK
    <3> QED
      BY <3>1, <3>2
  <2>3. posts' = posts \/ \E d \in Deliveries : Post(d)
    BY DEF Next, Handler, Task, Register, Deactivate, StartChange, Publish, Emit, Enqueue, Respond, EmitFails, Abort, StartTask, Record, TaskEnds, CrashApi, CrashWorker, vars
  <2> QED
    BY <2>1, <2>2, <2>3
<1> QED
  BY <1>1, WebhookInvariant, PTL DEF Spec, NeverSentAgain
=============================================================================
