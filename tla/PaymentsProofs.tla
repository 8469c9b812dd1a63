--------------------------- MODULE PaymentsProofs ---------------------------
(***************************************************************************)
(* Proofs about Payments, for every number of intents, listings, users,    *)
(* threads and crashes, and every length of time and of the history.       *)
(***************************************************************************)
EXTENDS Payments, SequenceTheorems, TLAPS

USE PaymentsAssumption

-----------------------------------------------------------------------------
(* What the helpers return.                                                 *)

LEMMA UnusedType == Unused \in Row
<1>1. /\ (CHOOSE j \in Jobs : TRUE) \in Jobs
      /\ (CHOOSE u \in Users : TRUE) \in Users
  OBVIOUS
<1> QED  BY <1>1 DEF Unused, Row, RowStatus

LEMMA IdleType == Idle \in Session
BY UnusedType DEF Idle, Session, RowStatus

LEMMA MsgType ==
    ASSUME NEW k \in StripeKinds \cup SimKinds \cup CallbackKinds,
           NEW i \in Intents
    PROVE  /\ \A named \in BOOLEAN : Msg(k, i, named) \in Message
           /\ Msg(k, i, TRUE) \in Message
           /\ Msg(k, i, TRUE).kind = k /\ Msg(k, i, TRUE).intent = i
BY DEF Msg, Message

\* The list that settle_intent writes back is within its cap and ends in the
\* entry it added.
LEMMA LastEntriesOfAppend ==
    ASSUME NEW h \in Seq(Intents), NEW i \in Intents
    PROVE  LET l == LastEntries(Append(h, i)) IN
           /\ l \in Seq(Intents) /\ Len(l) <= HistoryCap
           /\ l # <<>> /\ l[Len(l)] = i
<1> DEFINE a == Append(h, i)
<1>1. /\ a \in Seq(Intents) /\ Len(a) = Len(h) + 1 /\ a[Len(a)] = i /\ Len(h) \in Nat
  BY AppendProperties
<1> HIDE DEF a
<1>2. CASE Len(a) <= HistoryCap
  <2>1. LastEntries(a) = a
    BY <1>1, <1>2 DEF LastEntries
  <2> QED  BY <2>1, <1>1, <1>2 DEF a
<1>3. CASE Len(a) > HistoryCap
  <2> DEFINE m == Len(a) - HistoryCap + 1
  <2>1. m \in 1..Len(a) /\ m \in Nat /\ Len(a) \in Nat
    BY <1>1, <1>3
  <2>2. LastEntries(a) = SubSeq(a, m, Len(a))
    BY <1>1, <1>3 DEF LastEntries
  <2>3. \A n \in m..Len(a) : a[n] \in Intents
    BY <1>1, <2>1, ElementOfSeq
  <2> HIDE DEF m
  <2>4. /\ SubSeq(a, m, Len(a)) \in Seq(Intents)
        /\ Len(SubSeq(a, m, Len(a))) = Len(a) - m + 1
        /\ \A n \in 1..(Len(a) - m + 1) : SubSeq(a, m, Len(a))[n] = a[m + n - 1]
    BY <1>1, <2>1, <2>3, SubSeqProperties
  <2>5. Len(a) - m + 1 = HistoryCap /\ m + HistoryCap - 1 = Len(a)
    BY <1>1 DEF m
  <2> DEFINE l == LastEntries(a)
  <2>6. l \in Seq(Intents) /\ Len(l) = HistoryCap
    BY <2>2, <2>4, <2>5
  <2>7. l[HistoryCap] = a[Len(a)]
    BY <2>2, <2>4, <2>5
  <2>8. l # <<>>
    BY <2>6
  <2> QED  BY <1>1, <2>6, <2>7, <2>8 DEF a
<1> QED  BY <1>1, <1>2, <1>3

LEMMA TargetType ==
    ASSUME NEW m \in Message
    PROVE  Target(m) \in PaymentStatus
<1>1. CASE m.kind \in StripeKinds \cup SimKinds
  BY <1>1 DEF Target, Successes, Failures, PaymentStatus, Open, Terminal, Settling,
     SimKinds, StripeKinds
<1>2. CASE m.kind \in CallbackKinds
  <2>1. m.kind \in DOMAIN NormalizedStatus
    BY <1>2
  <2>2. NormalizedStatus[m.kind] \in PaymentStatus
    BY <2>1 DEF NormalizedStatus, PaymentStatus, Open, Terminal
  <2> QED  BY <2>2 DEF Target, PaymentStatus, Terminal
<1> QED  BY <1>1, <1>2 DEF Message

-----------------------------------------------------------------------------
(* Type correctness.  TypeOK is not inductive: a handler writes the intent  *)
(* and the message that its session names, and they are NULL in idle ones.  *)

Holds ==
    \A p \in Procs :
        /\ session[p].pc \notin {"idle", "ack"} => session[p].intent \in Intents
        /\ session[p].pc \in {"read_job", "settle", "update", "ack"} =>
               session[p].msg \in Message

TypeInv == TypeOK /\ Holds

\* One session changes, to something that is again a session.
LEMMA OneSession ==
    ASSUME TypeInv, NEW p \in Procs, NEW s \in Session,
           s.pc \notin {"idle", "ack"} => s.intent \in Intents,
           s.pc \in {"read_job", "settle", "update", "ack"} => s.msg \in Message,
           session' = [session EXCEPT ![p] = s]
    PROVE  session' \in [Procs -> Session] /\ Holds'
BY DEF TypeInv, TypeOK, Holds

LEMMA SessionOf ==
    ASSUME TypeInv, NEW p \in Procs
    PROVE  /\ session[p] \in Session
           /\ session[p].pc \notin {"idle", "ack"} => session[p].intent \in Intents
           /\ session[p].pc \in {"read_job", "settle", "update", "ack"} =>
                 session[p].msg \in Message
BY DEF TypeInv, TypeOK, Holds

LEMMA ProcsMembers ==
    /\ Loop \in Procs /\ Worker \in Procs /\ Loop # Worker
    /\ \A t \in Threads : t \in Procs /\ t # Loop /\ t # Worker
BY DEF Procs, Loop, Worker

LEMMA RowOf ==
    ASSUME TypeInv, NEW i \in Intents
    PROVE  /\ row[i] \in Row /\ row[i].job \in Jobs /\ row[i].status \in RowStatus
           /\ row[i].ext \in Nat /\ row[i].meta \in {"none", "stripe_url"} \cup SimKinds
BY DEF TypeInv, TypeOK, Row, SimKinds

LEMMA RowWith ==
    ASSUME NEW r \in Row, NEW status \in RowStatus, NEW ref \in Intents \cup {NULL},
           NEW meta \in {"none", "stripe_url", "sim_completed", "sim_failed"}
    PROVE  /\ [r EXCEPT !.status = status] \in Row
           /\ [r EXCEPT !.ref = ref] \in Row
           /\ [r EXCEPT !.status = status, !.ref = ref] \in Row
           /\ [r EXCEPT !.status = status, !.ref = ref, !.meta = meta] \in Row
BY DEF Row

LEMMA OneRow ==
    ASSUME TypeInv, NEW i \in Intents, NEW r \in Row, row' = [row EXCEPT ![i] = r]
    PROVE  row' \in [Intents -> Row]
BY DEF TypeInv, TypeOK

LEMMA HandlingType ==
    ASSUME TypeInv, NEW m \in Message, NEW i \in Intents
    PROVE  /\ Handling(m, i) \in Session
           /\ Handling(m, i).intent = i /\ Handling(m, i).msg = m
<1>1. row[i].status \in RowStatus
  BY RowOf
<1> QED  BY <1>1, IdleType DEF Handling, Idle, Session

LEMMA TypeInit == Init => TypeInv
<1> SUFFICES ASSUME Init PROVE TypeInv
  OBVIOUS
<1>1. Holds
  BY DEF Init, Holds, Idle
<1>2. \A j \in Jobs : history[j] \in Seq(Intents) /\ Len(history[j]) <= HistoryCap
  BY DEF Init
<1>3. TypeOK
  BY <1>2, UnusedType, IdleType DEF Init, TypeOK
<1> QED  BY <1>1, <1>3 DEF TypeInv

\* The end of a write: the session of p is over, or is left to record its event.
LEMMA FinishType ==
    ASSUME TypeInv, NEW p \in {Loop, Worker}, NEW ok \in BOOLEAN,
           session[p].msg \in Message, Finish(p, ok)
    PROVE  session' \in [Procs -> Session] /\ Holds' /\ queue' \subseteq Message
<1>1. p \in Procs
  BY ProcsMembers
<1> DEFINE s == IF p = Loop /\ ok THEN [Idle EXCEPT !.pc = "ack", !.msg = session[p].msg]
                               ELSE Idle
<1>2. s \in Session /\ s.pc \in {"idle", "ack"} /\ (s.pc = "ack" => s.msg \in Message)
  BY IdleType DEF Idle, Session
<1>3. session' = [session EXCEPT ![p] = s]
  BY DEF Finish
<1> HIDE DEF s
<1>4. session' \in [Procs -> Session] /\ Holds'
  BY <1>1, <1>2, <1>3, OneSession
<1>5. queue' \subseteq Message
  BY DEF Finish, TypeInv, TypeOK
<1> QED  BY <1>4, <1>5

LEMMA TypeRequest == TypeInv /\ Request => TypeInv'
<1> SUFFICES ASSUME TypeInv, Request PROVE TypeInv'
  OBVIOUS
<1> USE DEF jobVars, provVars, msgVars
<1>0. /\ Loop \in Procs /\ session[Loop] \in Session
      /\ session[Loop].pc \notin {"idle", "ack"} => session[Loop].intent \in Intents
      /\ session[Loop].draft \in Row
  BY ProcsMembers, SessionOf DEF Session
<1>1. ASSUME NEW j \in Jobs, NEW p \in Providers, NEW i \in Intents, Initiate(j, p, i)
      PROVE  TypeInv'
  <2> DEFINE d == [status |-> IF p = "stripe" THEN "pending" ELSE "awaiting_user",
                   provider |-> p, job |-> j, user |-> owner[j],
                   ext |-> Later(featured[j], now) + Period,
                   ref |-> NULL, meta |-> "none"]
             s == [Idle EXCEPT !.pc = "save", !.intent = i, !.draft = d]
  <2>1. Later(featured[j], now) \in Nat
    BY DEF Later, TypeInv, TypeOK
  <2>2. d \in Row
    BY <1>1, <2>1 DEF Initiate, Row, RowStatus, PaymentStatus, Open, TypeInv, TypeOK
  <2> HIDE DEF d
  <2>3. s \in Session /\ s.intent \in Intents /\ s.pc = "save"
    BY <2>2, IdleType DEF Idle, Session
  <2>4. session' = [session EXCEPT ![Loop] = s]
    BY <1>1 DEF Initiate, d
  <2> HIDE DEF s
  <2>5. session' \in [Procs -> Session] /\ Holds'
    BY <1>0, <2>3, <2>4, OneSession
  <2> QED  BY <1>1, <2>5 DEF Initiate, TypeInv, TypeOK
<1>2. CASE SaveIntent
  <2> DEFINE s == session[Loop]
             n == [Idle EXCEPT !.pc = "create", !.intent = s.intent]
  <2>1. s.intent \in Intents
    BY <1>0, <1>2 DEF SaveIntent
  <2>2. n \in Session /\ n.intent \in Intents /\ n.pc = "create"
    BY <2>1, IdleType DEF Idle, Session
  <2>3. session' = [session EXCEPT ![Loop] = Idle] \/ session' = [session EXCEPT ![Loop] = n]
    BY <1>2 DEF SaveIntent
  <2> HIDE DEF n
  <2>4. session' \in [Procs -> Session] /\ Holds'
    BY <1>0, <2>2, <2>3, OneSession, IdleType DEF Idle
  <2>5. row' \in [Intents -> Row]
    BY <1>0, <1>2, <2>1 DEF SaveIntent, TypeInv, TypeOK
  <2> QED  BY <1>2, <2>4, <2>5 DEF SaveIntent, TypeInv, TypeOK
<1>3. CASE AdapterFails
  <2>1. row' \in [Intents -> Row]
    <3>1. session[Loop].intent \in Intents
      BY <1>0, <1>3 DEF AdapterFails
    <3>2. [row[session[Loop].intent] EXCEPT !.ref = NULL] \in Row
      BY <3>1, RowOf DEF Row
    <3> QED  BY <1>3, <3>1, <3>2, OneRow DEF AdapterFails, TypeInv, TypeOK
  <2>2. session' \in [Procs -> Session] /\ Holds'
    BY <1>0, <1>3, OneSession, IdleType DEF AdapterFails, Idle
  <2> QED  BY <1>3, <2>1, <2>2 DEF AdapterFails, TypeInv, TypeOK
<1>4. CASE StripeCreatesSession
  <2> DEFINE s == [session[Loop] EXCEPT !.pc = "adapter",
                      !.loaded = row[session[Loop].intent].status]
  <2>1. session[Loop].intent \in Intents
    BY <1>0, <1>4 DEF StripeCreatesSession
  <2>2. s \in Session /\ s.intent \in Intents /\ s.pc = "adapter"
    BY <1>0, <2>1, RowOf DEF Session
  <2>3. session' = [session EXCEPT ![Loop] = Idle] \/ session' = [session EXCEPT ![Loop] = s]
    BY <1>4 DEF StripeCreatesSession
  <2> HIDE DEF s
  <2>4. session' \in [Procs -> Session] /\ Holds'
    BY <1>0, <2>2, <2>3, OneSession, IdleType DEF Idle
  <2> QED  BY <1>4, <2>4 DEF StripeCreatesSession, TypeInv, TypeOK
<1>5. CASE SimulatorLoads
  <2> DEFINE s == [session[Loop] EXCEPT !.pc = "adapter",
                      !.loaded = row[session[Loop].intent].status]
  <2>1. session[Loop].intent \in Intents
    BY <1>0, <1>5 DEF SimulatorLoads
  <2>2. s \in Session /\ s.intent \in Intents /\ s.pc = "adapter"
    BY <1>0, <2>1, RowOf DEF Session
  <2>3. session' = [session EXCEPT ![Loop] = Idle] \/ session' = [session EXCEPT ![Loop] = s]
    BY <1>5 DEF SimulatorLoads
  <2> HIDE DEF s
  <2>4. session' \in [Procs -> Session] /\ Holds'
    BY <1>0, <2>2, <2>3, OneSession, IdleType DEF Idle
  <2>5. enqueuing' \subseteq Message
    <3>1. \A k \in SimKinds : Msg(k, session[Loop].intent, TRUE) \in Message
      BY <2>1, MsgType
    <3>2. \/ enqueuing' = enqueuing
          \/ \E k \in SimKinds :
                enqueuing' = enqueuing \cup {Msg(k, session[Loop].intent, TRUE)}
      BY <1>5 DEF SimulatorLoads
    <3>3. enqueuing \subseteq Message
      BY DEF TypeInv, TypeOK
    <3> QED  BY <3>1, <3>2, <3>3
  <2> QED  BY <1>5, <2>4, <2>5 DEF SimulatorLoads, TypeInv, TypeOK
<1>6. ASSUME NEW st \in {"pending", "awaiting_user"},
             NEW meta \in {"stripe_url"} \cup SimKinds,
             session[Loop].pc = "adapter",
             AdapterWrites(session[Loop].intent, st, meta),
             enqueuing' \subseteq Message
      PROVE  TypeInv'
  <2>1. session[Loop].intent \in Intents /\ session[Loop].loaded \in RowStatus
    BY <1>0, <1>6 DEF Session
  <2>2. row' \in [Intents -> Row]
    <3> DEFINE i == session[Loop].intent
               f == Flush(row[i].status, session[Loop].loaded, st)
               r == [row[i] EXCEPT !.status = f, !.ref = i, !.meta = meta]
    <3>1. f \in RowStatus
      BY <2>1, RowOf DEF Flush, RowStatus, PaymentStatus, Open
    <3>3. row' = row \/ row' = [row EXCEPT ![i] = r]
      BY <1>6, <2>1 DEF AdapterWrites, TypeInv, TypeOK
    <3> HIDE DEF f
    <3>2. r \in Row
      BY <2>1, <3>1, RowOf, RowWith DEF SimKinds
    <3> HIDE DEF r
    <3> QED  BY <2>1, <3>2, <3>3, OneRow DEF TypeInv, TypeOK
  <2>3. session' \in [Procs -> Session] /\ Holds'
    BY <1>0, <1>6, OneSession, IdleType DEF AdapterWrites, Idle
  <2> QED  BY <1>6, <2>2, <2>3 DEF AdapterWrites, TypeInv, TypeOK
<1>7. CASE StripeCommits
  BY <1>6, <1>7 DEF StripeCommits, TypeInv, TypeOK
<1>8. CASE SimulatorCommits
  <2>1. session[Loop].intent \in Intents
    BY <1>0, <1>8 DEF SimulatorCommits
  <2>2. enqueuing' \subseteq Message
    <3>1. \A k \in SimKinds : Msg(k, session[Loop].intent, TRUE) \in Message
      BY <2>1, MsgType
    <3> QED  BY <1>8, <3>1 DEF SimulatorCommits, TypeInv, TypeOK
  <2> QED  BY <1>6, <1>8, <2>2 DEF SimulatorCommits
<1>9. ASSUME NEW m \in enqueuing, Enqueued(m)
      PROVE  TypeInv'
  BY <1>9 DEF Enqueued, TypeInv, TypeOK, Holds
<1>10. ASSUME NEW m \in enqueuing, EnqueueFails(m)
       PROVE  TypeInv'
  <2>1. m.intent \in Intents
    BY DEF TypeInv, TypeOK, Message
  <2>2. row' \in [Intents -> Row]
    <3>1. [row[m.intent] EXCEPT !.ref = NULL] \in Row
      BY <2>1, RowOf DEF Row
    <3> QED  BY <1>10, <2>1, <3>1, OneRow DEF EnqueueFails, TypeInv, TypeOK
  <2> QED  BY <1>10, <2>2 DEF EnqueueFails, TypeInv, TypeOK, Holds
<1> QED  BY <1>1, <1>2, <1>3, <1>4, <1>5, <1>7, <1>8, <1>9, <1>10 DEF Request

LEMMA TypeCancel == TypeInv /\ Cancel => TypeInv'
<1> SUFFICES ASSUME TypeInv, NEW t \in Threads,
                    CancelCommits(t) \/ \E i \in Intents : CancelReads(t, i)
             PROVE  TypeInv'
  BY DEF Cancel
<1> USE DEF jobVars, provVars, msgVars
<1>0. t \in Procs
  BY ProcsMembers
<1>1. CASE CancelCommits(t)
  <2>1. session[t].intent \in Intents
    BY <1>0, <1>1, SessionOf DEF CancelCommits
  <2>2. [row[session[t].intent] EXCEPT !.status = "cancelled"] \in Row
    BY <2>1, RowOf, RowWith DEF RowStatus, PaymentStatus, Terminal
  <2>3. row' \in [Intents -> Row]
    BY <1>1, <2>1, <2>2, OneRow DEF CancelCommits, TypeInv, TypeOK
  <2>4. session' \in [Procs -> Session] /\ Holds'
    BY <1>0, <1>1, OneSession, IdleType DEF CancelCommits, Idle
  <2> QED  BY <1>1, <2>3, <2>4 DEF CancelCommits, TypeInv, TypeOK
<1>2. ASSUME NEW i \in Intents, CancelReads(t, i)
      PROVE  TypeInv'
  <2> DEFINE s == [Idle EXCEPT !.pc = "cancel", !.intent = i, !.loaded = row[i].status]
  <2>1. s \in Session /\ s.intent = i /\ s.pc = "cancel"
    BY RowOf, IdleType DEF Idle, Session
  <2>2. session' = [session EXCEPT ![t] = s]
    BY <1>2 DEF CancelReads
  <2> HIDE DEF s
  <2>3. session' \in [Procs -> Session] /\ Holds'
    BY <1>0, <2>1, <2>2, OneSession
  <2> QED  BY <1>2, <2>3 DEF CancelReads, TypeInv, TypeOK
<1> QED  BY <1>1, <1>2

LEMMA TypeReceive == TypeInv /\ (Webhook \/ \E m \in queue : StartTask(m)) => TypeInv'
<1> SUFFICES ASSUME TypeInv, Webhook \/ \E m \in queue : StartTask(m) PROVE TypeInv'
  OBVIOUS
<1> USE DEF jobVars, provVars, msgVars
<1>0. /\ Loop \in Procs /\ Worker \in Procs
      /\ emitted \subseteq Message /\ queue \subseteq Message
  BY ProcsMembers DEF TypeInv, TypeOK
<1>1. ASSUME NEW p \in Procs, NEW m \in Message, NEW i \in Intents,
             session' = [session EXCEPT ![p] = Handling(m, i)]
      PROVE  session' \in [Procs -> Session] /\ Holds'
  <2>1. /\ Handling(m, i) \in Session
        /\ Handling(m, i).intent = i /\ Handling(m, i).msg = m
    BY HandlingType
  <2> QED  BY <1>1, <2>1, OneSession
<1>2. CASE RecordsEvent
  <2>1. session[Loop].msg \in Message
    BY <1>0, <1>2, SessionOf DEF RecordsEvent
  <2>2. session' \in [Procs -> Session] /\ Holds'
    BY <1>0, <1>2, OneSession, IdleType DEF RecordsEvent, Idle
  <2> QED  BY <1>2, <2>1, <2>2 DEF RecordsEvent, TypeInv, TypeOK
<1>3. ASSUME NEW m \in emitted, Receive(m)
      PROVE  TypeInv'
  <2>1. CASE Duplicate(m)
    BY <2>1, <1>0 DEF Duplicate, TypeInv, TypeOK, Holds
  <2>2. CASE AnswersAtOnce(m)
    BY <2>2, <1>0 DEF AnswersAtOnce, TypeInv, TypeOK, Holds
  <2>3. CASE StartsHandling(m)
    <3>1. session' \in [Procs -> Session] /\ Holds'
      BY <1>0, <1>1, <2>3 DEF StartsHandling
    <3> QED  BY <2>3, <3>1 DEF StartsHandling, TypeInv, TypeOK
  <2> QED  BY <1>3, <2>1, <2>2, <2>3 DEF Receive
<1>4. ASSUME NEW m \in queue, StartTask(m)
      PROVE  TypeInv'
  <2>1. session' \in [Procs -> Session] /\ Holds'
    <3>1. CASE session' = session
      BY <3>1 DEF TypeInv, TypeOK, Holds
    <3>2. CASE session' # session
      BY <1>0, <1>1, <1>4, <3>2 DEF StartTask
    <3> QED  BY <3>1, <3>2
  <2>2. queue' \subseteq Message
    BY <1>0, <1>4 DEF StartTask
  <2> QED  BY <1>4, <2>1, <2>2 DEF StartTask, TypeInv, TypeOK
<1> QED  BY <1>2, <1>3, <1>4 DEF Webhook

LEMMA TypeSettlement == TypeInv /\ Settlement => TypeInv'
<1> SUFFICES ASSUME TypeInv, NEW p \in {Loop, Worker},
                    SettleReadsJob(p) \/ SettleCommits(p) \/ UpdateCommits(p)
             PROVE  TypeInv'
  BY DEF Settlement
<1> USE DEF jobVars, provVars, msgVars
<1> DEFINE i == session[p].intent
           j == row[i].job
<1>0. /\ p \in Procs /\ session[p] \in Session /\ session[p].msg \in Message
      /\ i \in Intents /\ j \in Jobs /\ row[i] \in Row /\ row[i].ext \in Nat
      /\ session[p].pc \in {"read_job", "settle", "update"}
  <2>1. session[p].pc \in {"read_job", "settle", "update"}
    BY DEF SettleReadsJob, SettleCommits, UpdateCommits
  <2> QED  BY <2>1, ProcsMembers, SessionOf, RowOf
<1>1. CASE SettleReadsJob(p)
  <2>1. CASE listing[j] = "deleted"
    <3>1. Finish(p, FALSE)
      BY <1>1, <2>1 DEF SettleReadsJob
    <3>2. session' \in [Procs -> Session] /\ Holds' /\ queue' \subseteq Message
      BY <1>0, <3>1, FinishType
    <3> QED  BY <1>1, <3>2 DEF SettleReadsJob, TypeInv, TypeOK
  <2>2. CASE listing[j] # "deleted"
    <3> DEFINE s == [session[p] EXCEPT !.pc = "settle", !.loadedFeatured = featured[j],
                                       !.loadedHistory = history[j]]
    <3>1. s \in Session /\ s.intent = i /\ s.msg = session[p].msg
      <4>1. featured[j] \in Nat /\ history[j] \in Seq(Intents)
        BY <1>0 DEF TypeInv, TypeOK
      <4> QED  BY <1>0, <4>1 DEF Session
    <3>2. session' = [session EXCEPT ![p] = s]
      BY <1>0, <1>1, <2>2 DEF SettleReadsJob, TypeInv, TypeOK
    <3> HIDE DEF s
    <3>3. session' \in [Procs -> Session] /\ Holds'
      BY <1>0, <3>1, <3>2, OneSession
    <3> QED  BY <1>1, <2>2, <3>3 DEF SettleReadsJob, TypeInv, TypeOK
  <2> QED  BY <2>1, <2>2
<1>2. CASE SettleCommits(p)
  <2>1. session' \in [Procs -> Session] /\ Holds' /\ queue' \subseteq Message
    <3>1. Finish(p, Live(i)) /\ Live(i) \in BOOLEAN
      BY <1>2 DEF SettleCommits, Live
    <3> QED  BY <1>0, <3>1, FinishType
  <2>2. CASE Live(i)
    <3> DEFINE ref == IF p = Loop THEN session[p].msg.intent ELSE row[i].ref
               r == [row[i] EXCEPT !.status = "completed", !.ref = ref]
               f == Flush(featured[j], session[p].loadedFeatured, row[i].ext)
               l == LastEntries(Append(session[p].loadedHistory, i))
    <3>1. ref \in Intents \cup {NULL}
      BY <1>0 DEF Row, Message
    <3>2. f \in Nat
      BY <1>0 DEF Flush, TypeInv, TypeOK
    <3>3. l \in Seq(Intents) /\ Len(l) <= HistoryCap
      BY <1>0, LastEntriesOfAppend DEF Session
    <3>4. /\ row' = [row EXCEPT ![i] = r]
          /\ featured' = [featured EXCEPT ![j] = f]
          /\ history' = [history EXCEPT ![j] = l]
      BY <1>0, <1>2, <2>2 DEF SettleCommits, TypeInv, TypeOK
    <3> HIDE DEF ref, f, l
    <3>5. r \in Row
      BY <1>0, <3>1, RowWith DEF RowStatus, PaymentStatus, Terminal
    <3> HIDE DEF r
    <3>6. row' \in [Intents -> Row]
      BY <1>0, <3>4, <3>5, OneRow
    <3> QED  BY <1>0, <1>2, <2>1, <3>2, <3>3, <3>4, <3>6 DEF SettleCommits, TypeInv, TypeOK
  <2>3. CASE ~ Live(i)
    BY <1>2, <2>1, <2>3 DEF SettleCommits, TypeInv, TypeOK
  <2> QED  BY <2>2, <2>3
<1>3. CASE UpdateCommits(p)
  <2>1. session' \in [Procs -> Session] /\ Holds' /\ queue' \subseteq Message
    <3>1. Finish(p, Live(i)) /\ Live(i) \in BOOLEAN
      BY <1>3 DEF UpdateCommits, Live
    <3> QED  BY <1>0, <3>1, FinishType
  <2> DEFINE ref == IF session[p].msg.kind \in CallbackKinds THEN session[p].msg.intent
                                                              ELSE row[i].ref
             f == Flush(row[i].status, session[p].loaded, Target(session[p].msg))
             r == [row[i] EXCEPT !.status = f, !.ref = ref]
  <2>2. ref \in Intents \cup {NULL}
    BY <1>0 DEF Row, Message
  <2>3. f \in RowStatus
    BY <1>0, TargetType, RowOf DEF Flush, RowStatus
  <2>4. row' = row \/ row' = [row EXCEPT ![i] = r]
    BY <1>0, <1>3 DEF UpdateCommits, TypeInv, TypeOK
  <2> HIDE DEF ref, f
  <2>5. r \in Row
    BY <1>0, <2>2, <2>3, RowWith
  <2> HIDE DEF r
  <2>6. row' \in [Intents -> Row]
    BY <1>0, <2>4, <2>5, OneRow DEF TypeInv, TypeOK
  <2> QED  BY <1>3, <2>1, <2>6 DEF UpdateCommits, TypeInv, TypeOK
<1> QED  BY <1>1, <1>2, <1>3

LEMMA TypeEnvironment == TypeInv /\ Environment => TypeInv'
<1> SUFFICES ASSUME TypeInv, Environment PROVE TypeInv'
  OBVIOUS
<1> USE DEF jobVars, provVars, msgVars
<1>1. ASSUME NEW i \in Intents, CustomerChecksOut(i)
      PROVE  TypeInv'
  <2>1. Msg("completed", i, TRUE) \in Message
    BY MsgType DEF StripeKinds, Settling
  <2>2. emitted' \subseteq Message
    BY <1>1, <2>1 DEF CustomerChecksOut, Emits, TypeInv, TypeOK
  <2>3. checkout' \in [Intents -> {"none", "open", "unpaid", "paid", "failed"}]
    BY <1>1 DEF CustomerChecksOut, TypeInv, TypeOK
  <2> QED  BY <1>1, <2>2, <2>3 DEF CustomerChecksOut, TypeInv, TypeOK, Holds
<1>2. ASSUME NEW i \in Intents, DelayedPayment(i)
      PROVE  TypeInv'
  <2>1. \A k \in StripeKinds : Msg(k, i, TRUE) \in Message
    BY MsgType
  <2>2. emitted' \subseteq Message
    <3>1. \E k \in StripeKinds : emitted' = emitted \cup {Msg(k, i, TRUE)}
      BY <1>2 DEF DelayedPayment, Emits, StripeKinds, Settling
    <3>2. emitted \subseteq Message
      BY DEF TypeInv, TypeOK
    <3> QED  BY <2>1, <3>1, <3>2
  <2>3. checkout' \in [Intents -> {"none", "open", "unpaid", "paid", "failed"}]
    BY <1>2 DEF DelayedPayment, TypeInv, TypeOK
  <2> QED  BY <1>2, <2>2, <2>3 DEF DelayedPayment, TypeInv, TypeOK, Holds
<1>3. ASSUME NEW i \in Intents, NEW k \in CallbackKinds, NEW named \in BOOLEAN,
             MobileCallback(i, k, named)
      PROVE  TypeInv'
  <2>1. Msg(k, i, named) \in Message
    BY MsgType
  <2> QED  BY <1>3, <2>1 DEF MobileCallback, TypeInv, TypeOK, Holds
<1>4. ASSUME NEW m \in processed, Forget(m)
      PROVE  TypeInv'
  BY <1>4 DEF Forget, TypeInv, TypeOK, Holds
<1>5. ASSUME NEW j \in Jobs, ChangeListing(j)
      PROVE  TypeInv'
  BY <1>5 DEF ChangeListing, TypeInv, TypeOK, Holds
<1>6. ASSUME NEW js \in SUBSET Jobs, NEW us, Remove(js, us)
      PROVE  /\ row' \in [Intents -> Row] /\ featured' \in [Jobs -> Nat]
             /\ listing' \in [Jobs -> {"payable", "closed", "deleted"}]
             /\ history' \in [Jobs -> Seq(Intents)]
             /\ \A k \in Jobs : Len(history'[k]) <= HistoryCap
  <2>1. \A i \in Intents : [row[i] EXCEPT !.status = "deleted"] \in Row /\ row[i] \in Row
    BY RowOf, RowWith DEF RowStatus
  <2>2. row' \in [Intents -> Row]
    BY <1>6, <2>1 DEF Remove
  <2>3. \A k \in Jobs : history'[k] \in Seq(Intents) /\ Len(history'[k]) <= HistoryCap
    <3>1. <<>> \in Seq(Intents) /\ Len(<<>>) <= HistoryCap
      OBVIOUS
    <3> QED  BY <1>6, <3>1 DEF Remove, TypeInv, TypeOK
  <2>4. history' \in [Jobs -> Seq(Intents)]
    BY <1>6, <2>3 DEF Remove
  <2> QED  BY <1>6, <2>2, <2>3, <2>4 DEF Remove, TypeInv, TypeOK
<1>61. ASSUME NEW j \in Jobs, DeleteListing(j)
       PROVE  TypeInv'
  <2>1. Remove({j}, {}) /\ {j} \in SUBSET Jobs
    BY <1>61 DEF DeleteListing
  <2> QED  BY <1>6, <1>61, <2>1 DEF DeleteListing, TypeInv, TypeOK, Holds
<1>62. ASSUME NEW u \in Users, NEW js \in SUBSET Jobs, DeleteAccount(u, js)
       PROVE  TypeInv'
  <2>1. Remove(js, {u})
    BY <1>62 DEF DeleteAccount
  <2>2. gone' \subseteq Users /\ owner' \in [Jobs -> Users \cup {NULL}]
    BY <1>62 DEF DeleteAccount, TypeInv, TypeOK
  <2> QED  BY <1>6, <1>62, <2>1, <2>2 DEF DeleteAccount, TypeInv, TypeOK, Holds
<1>7. ASSUME NEW j \in Jobs, NEW u \in Admins, EditListing(j, u)
      PROVE  TypeInv'
  BY <1>7 DEF EditListing, TypeInv, TypeOK, Holds
<1>8. CASE Tick
  BY <1>8 DEF Tick, TypeInv, TypeOK, Holds
<1>9. CASE CrashApi
  BY <1>9, IdleType DEF CrashApi, TypeInv, TypeOK, Holds, Idle
<1>10. CASE CrashWorker
  <2>1. session' \in [Procs -> Session] /\ Holds'
    BY <1>10, ProcsMembers, OneSession, IdleType DEF CrashWorker, Idle
  <2> QED  BY <1>10, <2>1 DEF CrashWorker, TypeInv, TypeOK
<1> QED
  BY <1>1, <1>2, <1>3, <1>4, <1>5, <1>61, <1>62, <1>7, <1>8, <1>9, <1>10
  DEF Environment

LEMMA TypeStep == TypeInv /\ [Next]_vars => TypeInv'
<1>1. TypeInv /\ UNCHANGED vars => TypeInv'
  BY DEF vars, TypeInv, TypeOK, Holds
<1> QED
  BY <1>1, TypeRequest, TypeCancel, TypeReceive, TypeSettlement, TypeEnvironment DEF Next

\* Every reachable state is well typed, and no listing's history of charges
\* ever grows beyond the cap that settle_intent gives it.
THEOREM TypeCorrect == Spec => []TypeOK
<1>1. Init => TypeInv
  BY TypeInit
<1>2. TypeInv /\ [Next]_vars => TypeInv'
  BY TypeStep
<1>3. TypeInv => TypeOK
  BY DEF TypeInv
<1> QED  BY <1>1, <1>2, <1>3, PTL DEF Spec

THEOREM TypeInvariant == Spec => []TypeInv
BY TypeInit, TypeStep, PTL DEF Spec

-----------------------------------------------------------------------------
(* One open intent.  Nothing but the coroutine of initiate_payment opens an *)
(* intent, and there is one event loop: what its check has found holds      *)
(* until its last write.  That write may reopen an intent cancelled         *)
(* meanwhile, so the check has to hold beyond the INSERT.                   *)

Admission ==
    LET s == session[Loop] IN
    /\ s.pc = "save" =>
         \A k \in Intents : row[k].status \in Open =>
             ~ (row[k].job = s.draft.job /\ row[k].user = s.draft.user)
    /\ s.pc \in {"create", "adapter"} =>
         \A k \in Intents :
             /\ row[k].status \in Open
             /\ row[k].job = row[s.intent].job /\ row[k].user = row[s.intent].user
             => k = s.intent

OneOpenInv == TypeInv /\ OneOpenIntent /\ Admission

\* A step that opens no intent and starts no request.
Quiet ==
    /\ \A k \in Intents :
         /\ row'[k].job = row[k].job /\ row'[k].user = row[k].user
         /\ row'[k].status \in Open => row[k].status \in Open
    /\ session'[Loop].pc = "save" =>
         session[Loop].pc = "save" /\ session'[Loop].draft = session[Loop].draft
    /\ session'[Loop].pc \in {"create", "adapter"} =>
         /\ session[Loop].pc \in {"create", "adapter"}
         /\ session'[Loop].intent = session[Loop].intent

LEMMA QuietPreserves ==
    ASSUME OneOpenInv, Quiet
    PROVE  OneOpenIntent' /\ Admission'
<1>1. OneOpenIntent'
  BY DEF OneOpenInv, Quiet, OneOpenIntent
<1>2. ASSUME session'[Loop].pc = "save", NEW k \in Intents, row'[k].status \in Open
      PROVE  ~ (/\ row'[k].job = session'[Loop].draft.job
                /\ row'[k].user = session'[Loop].draft.user)
  BY <1>2 DEF OneOpenInv, Quiet, Admission
<1>3. ASSUME session'[Loop].pc \in {"create", "adapter"}, NEW k \in Intents,
             row'[k].status \in Open,
             row'[k].job = row'[session'[Loop].intent].job,
             row'[k].user = row'[session'[Loop].intent].user
      PROVE  k = session'[Loop].intent
  <2>1. session'[Loop].intent \in Intents
    BY <1>3, SessionOf, ProcsMembers DEF OneOpenInv, Quiet
  <2> QED  BY <1>3, <2>1 DEF OneOpenInv, Quiet, Admission
<1> QED  BY <1>1, <1>2, <1>3 DEF Admission

\* What a lookup finds: a live row, by its id if the message carries it and the
\* row is there, else by the reference or the listing.
LEMMA FoundOf ==
    ASSUME TypeInv, NEW m \in Message, NEW i \in Found(m)
    PROVE  /\ i \in Intents /\ Live(i)
           /\ m.named /\ Live(m.intent) => i = m.intent
           /\ (i = m.intent /\ m.named) \/ m.kind \notin SimKinds
           /\ \/ i = m.intent \/ row[i].ref = m.intent
              \/ m.kind \in StripeKinds /\ row[i].job = row[m.intent].job
<1>1. m.intent \in Intents
  BY DEF Message
<1>2. i \in Candidates(m)
  BY DEF Found
<1>3. CASE ById(m) # {}
  BY <1>1, <1>2, <1>3 DEF Candidates, ById
<1>4. CASE ById(m) = {} /\ ByReference(m) # {}
  BY <1>1, <1>2, <1>4 DEF Candidates, ByReference, ById
<1>5. CASE ById(m) = {} /\ ByReference(m) = {}
  <2>1. i \in ByListing(m)
    BY <1>2, <1>5 DEF Candidates
  <2>2. StripeKinds \cap SimKinds = {}
    BY DEF StripeKinds, Settling, SimKinds
  <2> QED  BY <1>1, <1>5, <2>1, <2>2 DEF ByListing, ById
<1> QED  BY <1>3, <1>4, <1>5

LEMMA LoopSession ==
    ASSUME TypeInv, NEW p \in Procs, NEW s, session' = [session EXCEPT ![p] = s]
    PROVE  session'[Loop] = IF p = Loop THEN s ELSE session[Loop]
BY ProcsMembers DEF TypeInv, TypeOK

LEMMA ReferenceWrite ==
    ASSUME TypeInv, NEW i, NEW ref, row' \in {row, [row EXCEPT ![i].ref = ref]}
    PROVE  \A k \in Intents :
              /\ row'[k].job = row[k].job /\ row'[k].user = row[k].user
              /\ row'[k].status = row[k].status
<1> TAKE k \in Intents
<1> DEFINE r == [row[k] EXCEPT !.ref = ref]
<1>1. row[k] \in Row
  BY RowOf
<1>2. row'[k] \in {row[k], r}
  BY DEF TypeInv, TypeOK
<1>3. r.job = row[k].job /\ r.user = row[k].user /\ r.status = row[k].status
  BY <1>1 DEF Row
<1> HIDE DEF r
<1> QED  BY <1>2, <1>3

LEMMA OpenRequest == OneOpenInv /\ Request => OneOpenIntent' /\ Admission'
<1> SUFFICES ASSUME OneOpenInv, TypeInv, Request PROVE OneOpenIntent' /\ Admission'
  BY DEF OneOpenInv
<1>0. Loop \in Procs /\ Idle.pc = "idle"
  BY ProcsMembers DEF Idle
<1> DEFINE i == session[Loop].intent
<1>1. ASSUME NEW j \in Jobs, NEW p \in Providers, NEW k \in Intents, Initiate(j, p, k)
      PROVE  OneOpenIntent' /\ Admission'
  <2>1. /\ session'[Loop].pc = "save" /\ session'[Loop].draft.job = j
        /\ session'[Loop].draft.user = owner[j]
    BY <1>0, <1>1 DEF Initiate, Idle, TypeInv, TypeOK
  <2> QED  BY <1>1, <2>1 DEF Initiate, ExistingOpenIntent, OneOpenInv, OneOpenIntent, Admission
<1>2. CASE SaveIntent
  <2>1. i \in Intents /\ session[Loop].pc = "save"
    BY <1>0, <1>2, SessionOf DEF SaveIntent
  <2>2. CASE listing[session[Loop].draft.job] = "deleted" \/ session[Loop].draft.user \in gone
    BY <1>0, <1>2, <2>2, LoopSession, QuietPreserves DEF SaveIntent, Quiet
  <2>3. CASE ~ (listing[session[Loop].draft.job] = "deleted" \/ session[Loop].draft.user \in gone)
    <3>1. /\ row' = [row EXCEPT ![i] = session[Loop].draft]
          /\ session'[Loop].pc = "create" /\ session'[Loop].intent = i
      <4> DEFINE n == [Idle EXCEPT !.pc = "create", !.intent = i]
      <4>1. n.pc = "create" /\ n.intent = i
        BY DEF Idle
      <4> HIDE DEF n
      <4>2. row' = [row EXCEPT ![i] = session[Loop].draft] /\ session' = [session EXCEPT ![Loop] = n]
        BY <1>2, <2>3 DEF SaveIntent, n
      <4> QED  BY <1>0, <4>1, <4>2, LoopSession
    <3>2. \A k \in Intents : row'[k] = IF k = i THEN session[Loop].draft ELSE row[k]
      BY <3>1 DEF TypeInv, TypeOK
    <3> QED  BY <2>1, <3>1, <3>2 DEF OneOpenInv, OneOpenIntent, Admission
  <2> QED  BY <2>2, <2>3
<1>3. CASE AdapterFails
  <2>1. \A k \in Intents : row'[k].job = row[k].job /\ row'[k].user = row[k].user
                           /\ row'[k].status = row[k].status
    <3>1. row' \in {row, [row EXCEPT ![i].ref = NULL]}
      BY <1>3 DEF AdapterFails
    <3> QED  BY <3>1, ReferenceWrite
  <2> QED  BY <1>0, <1>3, <2>1, LoopSession, QuietPreserves DEF AdapterFails, Quiet
<1>4. CASE StripeCreatesSession
  <2> DEFINE s == [session[Loop] EXCEPT !.pc = "adapter", !.loaded = row[i].status]
  <2>1. s.intent = i /\ s.pc = "adapter"
    BY <1>0, SessionOf DEF Session
  <2> HIDE DEF s
  <2>2. session'[Loop] = Idle \/ session'[Loop] = s
    BY <1>0, <1>4 DEF StripeCreatesSession, s, TypeInv, TypeOK
  <2>3. session[Loop].pc = "create" /\ row' = row
    BY <1>4 DEF StripeCreatesSession
  <2>4. Quiet
    BY <1>0, <2>1, <2>2, <2>3 DEF Quiet
  <2> QED  BY <2>4, QuietPreserves
<1>5. CASE SimulatorLoads
  <2> DEFINE s == [session[Loop] EXCEPT !.pc = "adapter", !.loaded = row[i].status]
  <2>1. s.intent = i /\ s.pc = "adapter"
    BY <1>0, SessionOf DEF Session
  <2> HIDE DEF s
  <2>2. session'[Loop] = Idle \/ session'[Loop] = s
    BY <1>0, <1>5 DEF SimulatorLoads, s, TypeInv, TypeOK
  <2>3. session[Loop].pc = "create" /\ row' = row
    BY <1>5 DEF SimulatorLoads
  <2>4. Quiet
    BY <1>0, <2>1, <2>2, <2>3 DEF Quiet
  <2> QED  BY <2>4, QuietPreserves
<1>6. ASSUME NEW st, NEW meta, session[Loop].pc = "adapter", AdapterWrites(i, st, meta)
      PROVE  OneOpenIntent' /\ Admission'
  <2>1. session'[Loop] = Idle
    BY <1>0, <1>6, LoopSession DEF AdapterWrites
  <2>2. \A k \in Intents : /\ row'[k].job = row[k].job /\ row'[k].user = row[k].user
                           /\ k # i => row'[k] = row[k]
    BY SMTT(60), <1>6 DEF AdapterWrites, TypeInv, TypeOK, Row
  <2>3. Admission'
    BY <1>0, <2>1 DEF Admission
  <2>4. OneOpenIntent'
    BY <1>6, <2>2 DEF OneOpenInv, OneOpenIntent, Admission
  <2> QED  BY <2>3, <2>4
<1>7. CASE StripeCommits
  BY <1>6, <1>7 DEF StripeCommits
<1>8. CASE SimulatorCommits
  BY <1>6, <1>8 DEF SimulatorCommits
<1>9. ASSUME NEW m \in enqueuing, Enqueued(m)
      PROVE  OneOpenIntent' /\ Admission'
  BY <1>9, QuietPreserves DEF Enqueued, Quiet
<1>10. ASSUME NEW m \in enqueuing, EnqueueFails(m)
       PROVE  OneOpenIntent' /\ Admission'
  <2>1. \A k \in Intents : row'[k].job = row[k].job /\ row'[k].user = row[k].user
                           /\ row'[k].status = row[k].status
    <3>1. row' \in {row, [row EXCEPT ![m.intent].ref = NULL]}
      BY <1>10 DEF EnqueueFails
    <3> QED  BY <3>1, ReferenceWrite
  <2> QED  BY <1>10, <2>1, QuietPreserves DEF EnqueueFails, Quiet
<1> QED  BY <1>1, <1>2, <1>3, <1>4, <1>5, <1>7, <1>8, <1>9, <1>10 DEF Request

\* A mobile-money provider reports only how a payment ended.  (One that reports
\* "pending" may reopen an intent that was cancelled, after the employer has
\* opened another.)
FinalReports == \A k \in CallbackKinds : NormalizedStatus[k] \notin Open

LEMMA FinalTarget ==
    ASSUME FinalReports, NEW m \in Message
    PROVE  Target(m) \notin Open
<1>1. CASE m.kind \in StripeKinds \cup SimKinds
  BY <1>1 DEF Target, Successes, Failures, Open, Settling, SimKinds, StripeKinds
<1>2. CASE m.kind \in CallbackKinds
  BY <1>2 DEF FinalReports, Target, Open
<1> QED  BY <1>1, <1>2 DEF Message

\* A write of the status, and perhaps of the reference, moves no intent.
LEMMA StatusWrite ==
    ASSUME TypeInv, NEW i, NEW status, NEW ref,
           \/ row' = row
           \/ row' = [row EXCEPT ![i].status = status]
           \/ row' = [row EXCEPT ![i].status = status, ![i].ref = ref]
    PROVE  \A k \in Intents :
              /\ row'[k].job = row[k].job /\ row'[k].user = row[k].user
              /\ row'[k].status \in {row[k].status, status}
              /\ k # i => row'[k].status = row[k].status
<1> TAKE k \in Intents
<1>1. row[k] \in Row
  BY RowOf
<1> DEFINE r1 == [row[k] EXCEPT !.status = status]
           r2 == [row[k] EXCEPT !.status = status, !.ref = ref]
<1>2. row'[k] = row[k] \/ (k = i /\ row'[k] \in {r1, r2})
  BY DEF TypeInv, TypeOK
<1>3. /\ r1.job = row[k].job /\ r1.user = row[k].user /\ r1.status = status
      /\ r2.job = row[k].job /\ r2.user = row[k].user /\ r2.status = status
  BY <1>1 DEF Row
<1> HIDE DEF r1, r2
<1> QED  BY <1>2, <1>3

LEMMA QuietCancel == TypeInv /\ Cancel => Quiet
<1> SUFFICES ASSUME TypeInv, NEW t \in Threads,
                    CancelCommits(t) \/ \E i \in Intents : CancelReads(t, i)
             PROVE  Quiet
  BY DEF Cancel
<1>1. \E s : session' = [session EXCEPT ![t] = s]
  BY DEF CancelCommits, CancelReads
<1>2. session'[Loop] = session[Loop]
  BY <1>1, LoopSession, ProcsMembers
<1>3. \A k \in Intents :
         /\ row'[k].job = row[k].job /\ row'[k].user = row[k].user
         /\ row'[k].status \in {row[k].status, "cancelled"}
  <2>1. row' = row \/ row' = [row EXCEPT ![session[t].intent].status = "cancelled"]
    BY DEF CancelCommits, CancelReads
  <2> QED  BY <2>1, StatusWrite
<1> QED  BY <1>2, <1>3 DEF Quiet, Open

LEMMA QuietReceive == TypeInv /\ (Webhook \/ \E m \in queue : StartTask(m)) => Quiet
<1> SUFFICES ASSUME TypeInv, Webhook \/ \E m \in queue : StartTask(m) PROVE Quiet
  OBVIOUS
<1>1. row' = row
  BY DEF Webhook, Receive, RecordsEvent, Duplicate, AnswersAtOnce, StartsHandling, StartTask
<1>2. \/ session' = session
      \/ session' = [session EXCEPT ![Loop] = Idle]
      \/ \E m, i, p : session' = [session EXCEPT ![p] = Handling(m, i)] /\ p \in {Loop, Worker}
  BY DEF Webhook, Receive, RecordsEvent, Duplicate, AnswersAtOnce, StartsHandling, StartTask
<1>3. Idle.pc = "idle" /\ \A m, i : Handling(m, i).pc \in {"read_job", "update"}
  BY DEF Idle, Handling
<1>4. session'[Loop] = session[Loop] \/ session'[Loop].pc \in {"idle", "read_job", "update"}
  BY <1>2, <1>3, LoopSession, ProcsMembers
<1> QED  BY <1>1, <1>4 DEF Quiet

LEMMA QuietSettlement ==
    ASSUME FinalReports, TypeInv, Settlement
    PROVE  Quiet
<1> SUFFICES ASSUME NEW p \in {Loop, Worker},
                    SettleReadsJob(p) \/ SettleCommits(p) \/ UpdateCommits(p)
             PROVE  Quiet
  BY DEF Settlement
<1>0. p \in Procs /\ session[p] \in Session /\ session[p].msg \in Message
  BY ProcsMembers, SessionOf DEF SettleReadsJob, SettleCommits, UpdateCommits
<1>1. \A k \in Intents :
         /\ row'[k].job = row[k].job /\ row'[k].user = row[k].user
         /\ row'[k].status \in {row[k].status, "completed", Target(session[p].msg)}
  <2> DEFINE i == session[p].intent
  <2>1. CASE SettleReadsJob(p)
    BY <2>1 DEF SettleReadsJob
  <2>2. CASE SettleCommits(p)
    <3>1. \/ row' = row
          \/ \E ref : row' = [row EXCEPT ![i].status = "completed", ![i].ref = ref]
      BY <2>2 DEF SettleCommits, TypeInv, TypeOK
    <3>2. CASE row' = row
      BY <3>2
    <3>3. ASSUME NEW ref, row' = [row EXCEPT ![i].status = "completed", ![i].ref = ref]
          PROVE  \A k \in Intents :
                    /\ row'[k].job = row[k].job /\ row'[k].user = row[k].user
                    /\ row'[k].status \in {row[k].status, "completed"}
      BY <3>3, StatusWrite
    <3> QED  BY <3>1, <3>2, <3>3
  <2>3. CASE UpdateCommits(p)
    <3> DEFINE t == Target(session[p].msg)
               f == Flush(row[i].status, session[p].loaded, t)
    <3>1. row' = row \/ \E ref : row' = [row EXCEPT ![i].status = f, ![i].ref = ref]
      BY <2>3 DEF UpdateCommits, TypeInv, TypeOK
    <3>2. f \in {row[i].status, t}
      BY DEF Flush
    <3> HIDE DEF t, f
    <3>3. CASE row' = row
      BY <3>3
    <3>4. ASSUME NEW ref, row' = [row EXCEPT ![i].status = f, ![i].ref = ref], NEW k \in Intents
          PROVE  /\ row'[k].job = row[k].job /\ row'[k].user = row[k].user
                 /\ row'[k].status \in {row[k].status, t}
      <4>1. /\ row'[k].job = row[k].job /\ row'[k].user = row[k].user
            /\ row'[k].status \in {row[k].status, f}
            /\ k # i => row'[k].status = row[k].status
        BY ZenonT(60), <3>4, StatusWrite
      <4> QED  BY <3>2, <4>1
    <3> QED  BY <3>1, <3>3, <3>4 DEF t
  <2> QED  BY <2>1, <2>2, <2>3
<1>2. Target(session[p].msg) \notin Open /\ "completed" \notin Open
  BY <1>0, FinalTarget DEF Open
<1>3. \E s : session' = [session EXCEPT ![p] = s] /\ s.pc \in {"idle", "ack", "settle"}
  <2>1. ASSUME NEW ok, Finish(p, ok)
        PROVE  \E s : session' = [session EXCEPT ![p] = s] /\ s.pc \in {"idle", "ack"}
    <3> DEFINE a == [Idle EXCEPT !.pc = "ack", !.msg = session[p].msg]
    <3>1. a.pc = "ack" /\ Idle.pc = "idle"
      BY DEF Idle
    <3> HIDE DEF a
    <3>2. session' = [session EXCEPT ![p] = a] \/ session' = [session EXCEPT ![p] = Idle]
      BY <2>1 DEF Finish, a
    <3> QED  BY <3>1, <3>2
  <2>2. ASSUME SettleReadsJob(p), listing[row[session[p].intent].job] # "deleted"
        PROVE  \E s : session' = [session EXCEPT ![p] = s] /\ s.pc = "settle"
    <3> DEFINE s == [session[p] EXCEPT !.pc = "settle",
                        !.loadedFeatured = featured[row[session[p].intent].job],
                        !.loadedHistory = history[row[session[p].intent].job]]
    <3>1. session' = [session EXCEPT ![p] = s]
      BY <1>0, <2>2 DEF SettleReadsJob, TypeInv, TypeOK
    <3>2. s.pc = "settle"
      BY <1>0 DEF Session
    <3> QED  BY <3>1, <3>2
  <2> QED  BY <2>1, <2>2 DEF SettleReadsJob, SettleCommits, UpdateCommits
<1>4. session'[Loop] = session[Loop] \/ session'[Loop].pc \in {"idle", "ack", "settle"}
  BY <1>0, <1>3, LoopSession
<1> QED  BY <1>1, <1>2, <1>4 DEF Quiet

LEMMA QuietEnvironment == TypeInv /\ Environment => Quiet
<1> SUFFICES ASSUME TypeInv, Environment PROVE Quiet
  OBVIOUS
<1>1. session'[Loop] = session[Loop] \/ session'[Loop].pc = "idle"
  <2>1. CASE CrashApi
    BY <2>1, ProcsMembers DEF CrashApi, Idle
  <2>2. CASE CrashWorker
    BY <2>2, ProcsMembers DEF CrashWorker, TypeInv, TypeOK
  <2>3. CASE ~ CrashApi /\ ~ CrashWorker
    BY <2>3 DEF Environment, CustomerChecksOut, DelayedPayment, MobileCallback, Forget,
       ChangeListing, DeleteListing, DeleteAccount, EditListing, Tick
  <2> QED  BY <2>1, <2>2, <2>3
<1>2. \A k \in Intents :
         /\ row'[k].job = row[k].job /\ row'[k].user = row[k].user
         /\ row'[k].status \in {row[k].status, "deleted"}
  <2>1. ASSUME NEW js, NEW us, Remove(js, us), NEW k \in Intents
        PROVE  /\ row'[k].job = row[k].job /\ row'[k].user = row[k].user
               /\ row'[k].status \in {row[k].status, "deleted"}
    <3>1. row[k] \in Row
      BY RowOf
    <3>2. row'[k] \in {row[k], [row[k] EXCEPT !.status = "deleted"]}
      BY <2>1 DEF Remove
    <3> QED  BY <3>1, <3>2 DEF Row
  <2>2. CASE \E js, us : Remove(js, us)
    BY <2>1, <2>2
  <2>3. CASE row' = row
    BY <2>3
  <2>4. (\E js, us : Remove(js, us)) \/ row' = row
    BY DEF Environment, CustomerChecksOut, DelayedPayment, MobileCallback, Forget,
       ChangeListing, DeleteListing, DeleteAccount, EditListing, Tick, CrashApi, CrashWorker
  <2> QED  BY <2>2, <2>3, <2>4
<1> QED  BY <1>1, <1>2 DEF Quiet, Open

LEMMA OpenStep ==
    ASSUME FinalReports, OneOpenInv, [Next]_vars
    PROVE  OneOpenInv'
<1>1. TypeInv /\ TypeInv'
  BY TypeStep DEF OneOpenInv
<1>2. CASE Request
  BY <1>1, <1>2, OpenRequest DEF OneOpenInv
<1>3. CASE UNCHANGED vars
  BY <1>1, <1>3 DEF vars, OneOpenInv, OneOpenIntent, Admission
<1>4. CASE Cancel \/ Webhook \/ Settlement \/ Environment \/ \E m \in queue : StartTask(m)
  <2>1. Quiet
    BY <1>1, <1>4, QuietCancel, QuietReceive, QuietSettlement, QuietEnvironment
  <2> QED  BY <1>1, <2>1, QuietPreserves DEF OneOpenInv
<1> QED  BY <1>2, <1>3, <1>4 DEF Next

\* As long as mobile-money providers report only how a payment ended, no
\* employer ever has two open intents for one listing, although only a read
\* that holds no lock stands between initiate_payment and a second one.
THEOREM OneOpenIntentHolds ==
    ASSUME FinalReports
    PROVE  Spec => []OneOpenIntent
<1>1. Init => OneOpenInv
  <2>1. Init => OneOpenIntent /\ Admission
    BY ProcsMembers DEF Init, OneOpenIntent, Admission, Unused, Idle, Open
  <2> QED  BY <2>1, TypeInit DEF OneOpenInv
<1>2. OneOpenInv /\ [Next]_vars => OneOpenInv'
  BY OpenStep
<1>3. OneOpenInv => OneOpenIntent
  BY DEF OneOpenInv
<1> QED  BY <1>1, <1>2, <1>3, PTL DEF Spec

-----------------------------------------------------------------------------
(* Without simulators (the Mexican market) every settlement runs on the     *)
(* event loop, one at a time: what settle_intent has loaded of the job is   *)
(* still there when it writes.  From this follow that the date and the      *)
(* history of a listing agree, and that Payments implements FeaturedOrders. *)

StripeMarket == Providers = {"stripe"}

\* The reference that row i carries is its own, or that of an intent of the same
\* listing, whose stray report has settled i.
ReferenceOK(i, ref) ==
    ref \in Intents \ {i} => /\ row[ref].job = row[i].job /\ row[ref].status # "none"
                            /\ row[ref].provider = "stripe"

\* A row knows its date and its listing as soon as it is used; a row that was
\* not deleted has a listing.
RowsOK ==
    \A i \in Intents :
        /\ row[i].provider = "stripe"
        /\ row[i].meta \in {"none", "stripe_url"}
        /\ row[i].status = "none" => row[i].ext = 0 /\ row[i].meta = "none"
        /\ row[i].status = "none" => checkout[i] = "none"
        /\ row[i].status # "none" => row[i].ext > 0
        /\ ReferenceOK(i, row[i].ref)
        /\ Live(i) => listing[row[i].job] # "deleted"

NoSimulator == enqueuing = {} /\ queue = {} /\ session[Worker] = Idle

MessagesOK ==
    /\ \A m \in emitted : /\ m.kind \in StripeKinds /\ m.named
                          /\ row[m.intent].status # "none"
    /\ \A j \in Jobs : \A n \in DOMAIN history[j] : row[history[j][n]].status # "none"

\* Message m is of intent i, or of one of the same listing that has gone.
About(m, i) ==
    \/ m.intent = i
    \/ row[m.intent].status = "deleted" /\ row[m.intent].job = row[i].job

\* What the loop holds: a draft of an id not yet used, a message that was sent,
\* the job as it is.
LoopOK ==
    LET s == session[Loop] IN
    /\ s.pc = "save" => /\ row[s.intent].status = "none"
                        /\ s.draft.status = "pending" /\ s.draft.provider = "stripe"
                        /\ s.draft.meta = "none" /\ s.draft.ext > 0
                        /\ s.draft.ref = NULL
    /\ s.pc \in {"create", "adapter", "read_job", "settle", "update"} =>
           row[s.intent].status # "none"
    /\ s.pc \in {"read_job", "settle", "update"} =>
           s.msg \in emitted /\ About(s.msg, s.intent)
    /\ s.pc \in {"read_job", "settle"} => Target(s.msg) = "completed"
    /\ s.pc = "settle" /\ Live(s.intent) =>
           /\ s.loadedFeatured = featured[row[s.intent].job]
           /\ s.loadedHistory = history[row[s.intent].job]

StripeInv ==
    TypeInv /\ RowsOK /\ NoSimulator /\ MessagesOK /\ LoopOK /\ FeaturedFromLedger

\* A step that neither uses a new id, nor sends a message, nor features or
\* deletes a listing.
Steady ==
    /\ featured' = featured /\ history' = history /\ emitted' = emitted
    /\ \A j \in Jobs : listing'[j] = "deleted" <=> listing[j] = "deleted"
    /\ \A i \in Intents :
         /\ row'[i].job = row[i].job /\ row'[i].ext = row[i].ext
         /\ row'[i].provider = row[i].provider
         /\ row'[i].meta \in {row[i].meta, "stripe_url"}
         /\ row[i].status = "none" => row'[i].meta = row[i].meta /\ checkout'[i] = checkout[i]
         /\ row'[i].status = "none" <=> row[i].status = "none"
         /\ row'[i].status = "deleted" <=> row[i].status = "deleted"
         /\ ReferenceOK(i, row'[i].ref)

LEMMA SteadyPreserves ==
    ASSUME StripeInv, TypeInv', Steady, NoSimulator'
    PROVE  RowsOK' /\ MessagesOK' /\ FeaturedFromLedger'
<1> USE DEF StripeInv
<1>1. RowsOK'
  <2>1. \A i \in Intents : ReferenceOK(i, row[i].ref)'
    BY DEF ReferenceOK, Steady
  <2> QED  BY <2>1, RowOf DEF RowsOK, Steady, Live
<1>2. MessagesOK'
  <2>1. \A m \in emitted : m.intent \in Intents
    BY DEF TypeInv, TypeOK, Message
  <2>2. \A j \in Jobs : \A n \in DOMAIN history[j] : history[j][n] \in Intents
    BY ElementOfSeq DEF TypeInv, TypeOK
  <2> QED  BY <2>1, <2>2 DEF MessagesOK, Steady
<1>3. FeaturedFromLedger'
  <2>1. ASSUME NEW j \in Jobs, history[j] # <<>>
        PROVE  history[j][Len(history[j])] \in Intents
    BY <2>1, ElementOfSeq DEF TypeInv, TypeOK
  <2> QED  BY <2>1 DEF FeaturedFromLedger, Steady
<1> QED  BY <1>1, <1>2, <1>3

\* The loop goes on as it was, or starts afresh.
LEMMA LoopSteady ==
    ASSUME StripeInv, Steady,
           session'[Loop] = session[Loop] \/ session'[Loop].pc \in {"idle", "ack"}
    PROVE  LoopOK'
<1>1. session[Loop].pc \notin {"idle", "ack"} => session[Loop].intent \in Intents
  BY ProcsMembers, SessionOf DEF StripeInv
<1>2. session[Loop].intent \in Intents => row[session[Loop].intent].job \in Jobs
  BY RowOf DEF StripeInv
<1>3. session[Loop].pc \in {"read_job", "settle", "update"} => session[Loop].msg.intent \in Intents
  BY ProcsMembers, SessionOf DEF StripeInv, Message
<1> QED  BY <1>1, <1>2, <1>3 DEF StripeInv, LoopOK, About, Steady, Live

-----------------------------------------------------------------------------
(* The abstract variables of FeaturedOrders, and what each step does to     *)
(* them: SteadyOrders for the steps that they do not see.                   *)

LEMMA ReportedAs ==
    ASSUME StripeInv, NEW i \in Intents
    PROVE  Reported(i) <=> \E m \in emitted : m.intent = i /\ Target(m) = "completed"
BY DEF Reported, StripeInv, RowsOK

LEMMA SteadyOrders ==
    ASSUME StripeInv, StripeInv', Steady
    PROVE  UNCHANGED Orders!vars
<1>1. \A i \in Intents : Reported(i)' <=> Reported(i)
  BY DEF Reported, Steady, StripeInv, RowsOK
<1>2. \A i \in Intents : row'[i].job = row[i].job /\ row'[i].ext = row[i].ext
  BY DEF Steady
<1>3. /\ {i \in Intents : Reported(i)}' = {i \in Intents : Reported(i)}
      /\ {i \in Intents : row'[i].status = "deleted"} =
             {i \in Intents : row[i].status = "deleted"}
  BY <1>1 DEF Steady
<1>4. {j \in Jobs : listing'[j] = "deleted"} = {j \in Jobs : listing[j] = "deleted"}
  BY DEF Steady
<1> QED  BY <1>2, <1>3, <1>4 DEF Orders!vars, Steady

\* A steady step on which the session of the loop stays or ends.
LEMMA SteadyStep ==
    ASSUME StripeInv, TypeInv', Steady, NoSimulator', LoopOK'
    PROVE  StripeInv' /\ UNCHANGED Orders!vars
<1>1. StripeInv'
  BY SteadyPreserves DEF StripeInv
<1> QED  BY <1>1, SteadyOrders

Simulates == StripeInv' /\ [Orders!Next]_(Orders!vars)

\* Nothing about the rows changes, and the session of the loop is unchanged or over.
LEMMA RowsUnchanged ==
    ASSUME StripeInv, TypeInv',
           row' = row, featured' = featured, history' = history, emitted' = emitted,
           \A j \in Jobs : listing'[j] = "deleted" <=> listing[j] = "deleted",
           \A i \in Intents : row[i].status = "none" => checkout'[i] = checkout[i],
           enqueuing' = enqueuing, queue' = queue, session'[Worker] = session[Worker]
    PROVE  /\ Steady /\ NoSimulator'
           /\ session'[Loop] = session[Loop] \/ session'[Loop].pc \in {"idle", "ack"} =>
                  Simulates
<1>1. Steady
  BY DEF Steady, StripeInv, RowsOK
<1>2. NoSimulator'
  BY DEF StripeInv, NoSimulator
<1>3. ASSUME session'[Loop] = session[Loop] \/ session'[Loop].pc \in {"idle", "ack"}
      PROVE  Simulates
  <2>1. LoopOK'
    BY <1>1, <1>3, LoopSteady
  <2> QED  BY <1>1, <1>2, <2>1, SteadyStep DEF Simulates
<1> QED  BY <1>1, <1>2, <1>3

LEMMA SimulatesRequest ==
    ASSUME StripeMarket, StripeInv, TypeInv', Request
    PROVE  Simulates
<1> USE DEF jobVars, provVars, msgVars
<1> DEFINE i == session[Loop].intent
<1>0. /\ TypeInv /\ NoSimulator /\ Loop \in Procs /\ Worker \in Procs /\ Loop # Worker
      /\ session[Loop] \in Session /\ Idle.pc = "idle"
      /\ session[Loop].pc \notin {"idle", "ack"} => i \in Intents /\ row[i] \in Row
  BY ProcsMembers, SessionOf, RowOf DEF StripeInv, Idle
<1>a. ASSUME NEW s, session' = [session EXCEPT ![Loop] = s]
      PROVE  session'[Loop] = s /\ session'[Worker] = session[Worker]
  BY <1>0, <1>a DEF TypeInv, TypeOK
<1>1. ASSUME NEW j \in Jobs, NEW p \in Providers, NEW k \in Intents, Initiate(j, p, k)
      PROVE  Simulates
  <2> DEFINE d == [status |-> IF p = "stripe" THEN "pending" ELSE "awaiting_user",
                   provider |-> p, job |-> j, user |-> owner[j],
                   ext |-> Later(featured[j], now) + Period,
                   ref |-> NULL, meta |-> "none"]
             s == [Idle EXCEPT !.pc = "save", !.intent = k, !.draft = d]
  <2>1. /\ d.status = "pending" /\ d.provider = "stripe" /\ d.meta = "none" /\ d.ext > 0
        /\ d.ref = NULL
    <3> DEFINE e == Later(featured[j], now)
    <3>1. e \in Nat
      BY <1>0 DEF Later, TypeInv, TypeOK
    <3> HIDE DEF e
    <3>2. e + Period > 0
      BY <3>1
    <3>3. p = "stripe"
      BY DEF StripeMarket
    <3> QED  BY <3>2, <3>3 DEF e
  <2> HIDE DEF d
  <2>2. s.pc = "save" /\ s.intent = k /\ s.draft = d
    BY DEF Idle
  <2> HIDE DEF s
  <2>3. session'[Loop] = s /\ session'[Worker] = session[Worker]
    BY <1>1, <1>a DEF Initiate, s, d
  <2>4. Steady /\ NoSimulator'
    BY <1>1, <2>3, RowsUnchanged DEF Initiate
  <2>5. LoopOK'
    BY <1>1, <2>1, <2>2, <2>3 DEF LoopOK, Initiate
  <2> QED  BY <2>4, <2>5, SteadyStep DEF Simulates
<1>2. CASE SaveIntent
  <2> DEFINE n == [Idle EXCEPT !.pc = "create", !.intent = i]
             d == session[Loop].draft
  <2>1. CASE listing[d.job] = "deleted" \/ d.user \in gone
    BY <1>0, <1>2, <1>a, <2>1, RowsUnchanged DEF SaveIntent
  <2>2. CASE ~ (listing[d.job] = "deleted" \/ d.user \in gone)
    <3>1. /\ session[Loop].pc = "save" /\ i \in Intents /\ d \in Row
          /\ row[i].status = "none" /\ row[i].ext = 0 /\ row[i].meta = "none"
          /\ d.status = "pending" /\ d.provider = "stripe" /\ d.meta = "none" /\ d.ext > 0
          /\ d.ref = NULL
      BY <1>0, <1>2 DEF SaveIntent, StripeInv, LoopOK, RowsOK, Session
    <3>2. n.pc = "create" /\ n.intent = i
      BY DEF Idle
    <3> HIDE DEF n
    <3>3. session'[Loop] = n /\ session'[Worker] = session[Worker]
      BY <1>2, <1>a, <2>2 DEF SaveIntent, n
    <3>4. /\ \A k \in Intents : row'[k] = IF k = i THEN d ELSE row[k]
          /\ emitted' = emitted /\ history' = history /\ featured' = featured
          /\ listing' = listing /\ checkout' = checkout
          /\ enqueuing' = enqueuing /\ queue' = queue
      BY <1>0, <1>2, <2>2, <3>1 DEF SaveIntent, TypeInv, TypeOK
    <3>5. RowsOK'
      <4>1. \A k \in Intents : ReferenceOK(k, row[k].ref)'
        BY <3>1, <3>4 DEF StripeInv, RowsOK, ReferenceOK
      <4> QED  BY <2>2, <3>1, <3>4, <4>1 DEF StripeInv, RowsOK, Live
    <3>6. NoSimulator' /\ LoopOK'
      BY <1>0, <3>1, <3>2, <3>3, <3>4 DEF NoSimulator, LoopOK
    <3>7. MessagesOK'
      <4>1. \A m \in emitted : m.intent \in Intents
        BY <1>0 DEF TypeInv, TypeOK, Message
      <4>2. \A j \in Jobs : \A x \in DOMAIN history[j] : history[j][x] \in Intents
        BY <1>0, ElementOfSeq DEF TypeInv, TypeOK
      <4> QED  BY <3>1, <3>4, <4>1, <4>2 DEF StripeInv, MessagesOK
    <3>8. FeaturedFromLedger'
      <4>1. ASSUME NEW j \in Jobs, history[j] # <<>>
            PROVE  /\ history[j][Len(history[j])] \in Intents
                   /\ history[j][Len(history[j])] # i
        <5>1. history[j] \in Seq(Intents) /\ Len(history[j]) \in DOMAIN history[j]
          BY <1>0, <4>1 DEF TypeInv, TypeOK
        <5> QED  BY <3>1, <5>1, ElementOfSeq DEF StripeInv, MessagesOK
      <4> QED  BY <3>4, <4>1 DEF StripeInv, FeaturedFromLedger
    <3>9. StripeInv'
      BY <3>5, <3>6, <3>7, <3>8 DEF StripeInv
    <3>10. \E k \in Intents, j \in Jobs : Orders!Place(k, j)
      <4>1. \A k \in Intents : Reported(k)' <=> Reported(k)
        BY <3>1, <3>4 DEF Reported
      <4>2. /\ {k \in Intents : Reported(k)}' = {k \in Intents : Reported(k)}
            /\ {k \in Intents : row'[k].status = "deleted"} =
                   {k \in Intents : row[k].status = "deleted"}
        BY <3>1, <3>4, <4>1
      <4>3. PICK k \in Intents, j \in Jobs : k = i /\ j = d.job
        BY <3>1 DEF Row
      <4>4. j \notin {jj \in Jobs : listing[jj] = "deleted"}
        BY <2>2, <4>3
      <4>5. [l \in Intents |-> row[l].ext][k] = 0 /\ [l \in Intents |-> row'[l].ext][k] > 0
        BY <3>1, <3>4, <4>3
      <4>6. [l \in Intents |-> row'[l].ext] =
                [[l \in Intents |-> row[l].ext] EXCEPT ![k] = [l \in Intents |-> row'[l].ext][k]]
        BY <3>4, <4>3
      <4>7. [l \in Intents |-> row'[l].job] = [[l \in Intents |-> row[l].job] EXCEPT ![k] = j]
        BY <3>4, <4>3
      <4>8. Orders!Place(k, j)
        BY <3>4, <4>2, <4>4, <4>5, <4>6, <4>7 DEF Orders!Place
      <4> QED  BY <4>8
    <3>11. Orders!Next
      BY <3>10 DEF Orders!Next
    <3> QED  BY <3>9, <3>11 DEF Simulates
  <2> QED  BY <2>1, <2>2
<1>3. CASE AdapterFails
  <2>1. session'[Loop] = Idle /\ session'[Worker] = session[Worker]
    BY <1>3, <1>a DEF AdapterFails
  <2>2. row' = row
    BY <1>0, <1>3 DEF AdapterFails, StripeInv, RowsOK
  <2> QED  BY <1>0, <1>3, <2>1, <2>2, RowsUnchanged DEF AdapterFails
<1>4. CASE StripeCreatesSession
  <2> DEFINE s == [session[Loop] EXCEPT !.pc = "adapter", !.loaded = row[i].status]
  <2>1. s.pc = "adapter" /\ s.intent = i
    BY <1>0 DEF Session
  <2> HIDE DEF s
  <2>2. /\ session'[Loop] \in {s, Idle} /\ session'[Worker] = session[Worker]
        /\ i \in Intents /\ row[i].status # "none"
    BY <1>0, <1>4, <1>a DEF StripeCreatesSession, StripeInv, LoopOK, s
  <2>3. \A k \in Intents : row[k].status = "none" => checkout'[k] = checkout[k]
    BY <1>0, <1>4, <2>2 DEF StripeCreatesSession, TypeInv, TypeOK
  <2>4. Steady /\ NoSimulator'
    BY <1>4, <2>2, <2>3, RowsUnchanged DEF StripeCreatesSession
  <2>5. LoopOK'
    BY <1>0, <1>4, <2>1, <2>2 DEF StripeCreatesSession, LoopOK
  <2> QED  BY <2>4, <2>5, SteadyStep DEF Simulates
<1>5. CASE StripeCommits
  <2>1. session'[Loop] = Idle /\ session'[Worker] = session[Worker]
    BY <1>5, <1>a DEF StripeCommits, AdapterWrites
  <2>2. CASE ~ Live(i)
    BY <1>0, <1>5, <2>1, <2>2, RowsUnchanged DEF StripeCommits, AdapterWrites
  <2>3. CASE Live(i)
    <3> DEFINE f == Flush(row[i].status, session[Loop].loaded, "pending")
               r == [row[i] EXCEPT !.status = f, !.ref = i, !.meta = "stripe_url"]
    <3>1. i \in Intents /\ row[i] \in Row
      BY <1>0, <1>5 DEF StripeCommits
    <3>2. f \notin {"none", "deleted"}
      BY <2>3 DEF Flush, Live
    <3>3. row' = [row EXCEPT ![i] = r]
      BY <1>0, <1>5, <2>3, <3>1 DEF StripeCommits, AdapterWrites, TypeInv, TypeOK
    <3> HIDE DEF f
    <3>4. /\ r.job = row[i].job /\ r.ext = row[i].ext /\ r.provider = row[i].provider
          /\ r.meta = "stripe_url" /\ r.status = f /\ r.ref = i
      BY <3>1 DEF Row
    <3> HIDE DEF r
    <3>5. \A k \in Intents : row'[k] = IF k = i THEN r ELSE row[k]
      BY <1>0, <3>3 DEF TypeInv, TypeOK
    <3>6. Steady
      <4>1. \A k \in Intents : ReferenceOK(k, row'[k].ref)
        BY <2>3, <3>4, <3>5 DEF StripeInv, RowsOK, ReferenceOK, Live
      <4> QED
        BY ZenonT(60), <1>5, <2>3, <3>2, <3>4, <3>5, <4>1
        DEF Steady, StripeCommits, AdapterWrites, Live
    <3>7. NoSimulator'
      BY <1>0, <1>5, <2>1 DEF NoSimulator, StripeCommits, AdapterWrites
    <3>8. LoopOK'
      BY <1>0, <2>1, <3>6, LoopSteady
    <3> QED  BY <3>6, <3>7, <3>8, SteadyStep DEF Simulates
  <2> QED  BY <2>2, <2>3
<1>6. ~ SimulatorLoads /\ ~ SimulatorCommits
  BY <1>0 DEF SimulatorLoads, SimulatorCommits, StripeInv, RowsOK
<1>7. enqueuing = {}
  BY <1>0 DEF NoSimulator
<1> QED  BY <1>1, <1>2, <1>3, <1>4, <1>5, <1>6, <1>7 DEF Request

\* A commit that writes the status, and perhaps the reference, of a live row.
LEMMA StatusCommit ==
    ASSUME StripeInv, TypeInv', NEW i \in Intents, NEW status, NEW ref,
           status \notin {"none", "deleted"}, ReferenceOK(i, ref),
           \/ row' = row
           \/ Live(i) /\ row' = [row EXCEPT ![i].status = status]
           \/ Live(i) /\ row' = [row EXCEPT ![i].status = status, ![i].ref = ref]
    PROVE  \A k \in Intents :
              /\ row'[k].job = row[k].job /\ row'[k].ext = row[k].ext
              /\ row'[k].provider = row[k].provider /\ row'[k].meta = row[k].meta
              /\ row'[k].status = "none" <=> row[k].status = "none"
              /\ row'[k].status = "deleted" <=> row[k].status = "deleted"
              /\ ReferenceOK(k, row'[k].ref)
<1> TAKE k \in Intents
<1>1. row[k] \in Row
  BY RowOf DEF StripeInv
<1> DEFINE r1 == [row[k] EXCEPT !.status = status]
           r2 == [row[k] EXCEPT !.status = status, !.ref = ref]
<1>2. row'[k] = row[k] \/ (k = i /\ Live(i) /\ row'[k] \in {r1, r2})
  BY DEF StripeInv, TypeInv, TypeOK
<1>3. \A r \in {r1, r2} :
          /\ r.job = row[k].job /\ r.ext = row[k].ext /\ r.status = status
          /\ r.provider = row[k].provider /\ r.meta = row[k].meta
          /\ r.ref \in {row[k].ref, ref}
  <2>1. /\ r1.job = row[k].job /\ r1.ext = row[k].ext /\ r1.status = status
        /\ r1.provider = row[k].provider /\ r1.meta = row[k].meta /\ r1.ref = row[k].ref
    BY <1>1 DEF Row
  <2>2. /\ r2.job = row[k].job /\ r2.ext = row[k].ext /\ r2.status = status
        /\ r2.provider = row[k].provider /\ r2.meta = row[k].meta /\ r2.ref = ref
    BY <1>1 DEF Row
  <2> QED  BY <2>1, <2>2
<1> HIDE DEF r1, r2
<1>4. ReferenceOK(k, row[k].ref)
  BY DEF StripeInv, RowsOK
<1> QED  BY <1>2, <1>3, <1>4 DEF Live

LEMMA SimulatesCancel ==
    ASSUME StripeInv, TypeInv', Cancel
    PROVE  Simulates
<1> USE DEF jobVars, provVars, msgVars
<1> SUFFICES ASSUME NEW t \in Threads,
                    CancelCommits(t) \/ \E i \in Intents : CancelReads(t, i)
             PROVE  Simulates
  BY DEF Cancel
<1>0. TypeInv /\ t \in Procs /\ t # Loop /\ t # Worker
  BY ProcsMembers DEF StripeInv
<1>1. session'[Loop] = session[Loop] /\ session'[Worker] = session[Worker]
  BY <1>0, ProcsMembers DEF CancelCommits, CancelReads, TypeInv, TypeOK
<1>2. ASSUME NEW i \in Intents, CancelReads(t, i)
      PROVE  Simulates
  BY <1>1, <1>2, RowsUnchanged DEF CancelReads
<1>3. CASE CancelCommits(t)
  <2>1. PICK i \in Intents : i = session[t].intent
    BY <1>0, <1>3, SessionOf DEF CancelCommits
  <2>2. row' = row \/ (Live(i) /\ row' = [row EXCEPT ![i].status = "cancelled"])
    BY <1>3, <2>1 DEF CancelCommits
  <2>3. \A k \in Intents :
              /\ row'[k].job = row[k].job /\ row'[k].ext = row[k].ext
              /\ row'[k].provider = row[k].provider /\ row'[k].meta = row[k].meta
              /\ row'[k].status = "none" <=> row[k].status = "none"
              /\ row'[k].status = "deleted" <=> row[k].status = "deleted"
              /\ ReferenceOK(k, row'[k].ref)
    <3>1. "cancelled" \notin {"none", "deleted"} /\ ReferenceOK(i, row[i].ref)
      BY DEF StripeInv, RowsOK
    <3>2. CASE row' = row
      BY <3>2 DEF StripeInv, RowsOK
    <3>3. CASE Live(i) /\ row' = [row EXCEPT ![i].status = "cancelled"]
      BY <3>1, <3>3, StatusCommit, ZenonT(30)
    <3> QED  BY <2>2, <3>2, <3>3
  <2>4. Steady /\ NoSimulator'
    BY <1>1, <1>3, <2>3 DEF Steady, CancelCommits, StripeInv, NoSimulator
  <2>5. LoopOK'
    BY <1>1, <2>4, LoopSteady
  <2> QED  BY <2>4, <2>5, SteadyStep DEF Simulates
<1> QED  BY <1>2, <1>3

LEMMA SimulatesWebhook ==
    ASSUME StripeInv, TypeInv', Webhook
    PROVE  Simulates
<1> USE DEF jobVars, provVars, msgVars
<1>0. TypeInv /\ Loop \in Procs /\ Worker \in Procs /\ Loop # Worker /\ Idle.pc = "idle"
  BY ProcsMembers DEF StripeInv, Idle
<1>1. CASE RecordsEvent
  BY <1>0, <1>1, RowsUnchanged DEF RecordsEvent, TypeInv, TypeOK
<1>2. ASSUME NEW m \in emitted, Duplicate(m) \/ AnswersAtOnce(m)
      PROVE  Simulates
  BY <1>2, RowsUnchanged DEF Duplicate, AnswersAtOnce
<1>3. ASSUME NEW m \in emitted, StartsHandling(m)
      PROVE  Simulates
  <2>1. m \in Message
    BY <1>0 DEF TypeInv, TypeOK
  <2>2. PICK i \in Intents : Handles(m, i) /\ session' = [session EXCEPT ![Loop] = Handling(m, i)]
    BY <1>3 DEF StartsHandling
  <2>3. /\ session'[Loop] = Handling(m, i) /\ session'[Worker] = session[Worker]
    BY <1>0, <2>2 DEF TypeInv, TypeOK
  <2>4. /\ Handling(m, i).pc = IF Target(m) = "completed" THEN "read_job" ELSE "update"
        /\ Handling(m, i).intent = i /\ Handling(m, i).msg = m
    BY DEF Handling, Idle
  <2>5. Steady /\ NoSimulator'
    BY <1>3, <2>3, RowsUnchanged DEF StartsHandling
  <2>6. row[i].status # "none" /\ About(m, i)
    <3>1. /\ m.intent \in Intents /\ row[m.intent].status # "none" /\ m.named
          /\ ReferenceOK(i, row[i].ref)
      BY <2>1 DEF StripeInv, MessagesOK, RowsOK, Message
    <3>2. Live(i) /\ (Live(m.intent) => i = m.intent)
          /\ (i = m.intent \/ row[i].ref = m.intent \/ row[i].job = row[m.intent].job)
      BY <1>0, <2>1, <2>2, <3>1, FoundOf DEF Handles
    <3> QED  BY <3>1, <3>2 DEF Live, About, ReferenceOK
  <2>7. LoopOK'
    <3>1. row' = row /\ emitted' = emitted
      BY <1>3 DEF StartsHandling
    <3> QED  BY <2>3, <2>4, <2>6, <3>1 DEF LoopOK, About
  <2> QED  BY <2>5, <2>7, SteadyStep DEF Simulates
<1> QED  BY <1>1, <1>2, <1>3 DEF Webhook, Receive

\* settle_intent adds no entry but its own to the ones it keeps.
LEMMA EntriesOfLast ==
    ASSUME NEW h \in Seq(Intents), NEW i \in Intents
    PROVE  LET l == LastEntries(Append(h, i)) IN
           \A n \in DOMAIN l : l[n] = i \/ \E k \in DOMAIN h : l[n] = h[k]
<1> DEFINE a == Append(h, i)
           l == LastEntries(a)
<1>1. /\ a \in Seq(Intents) /\ Len(a) = Len(h) + 1 /\ Len(h) \in Nat
      /\ \A n \in 1..Len(a) : a[n] = i \/ \E k \in 1..Len(h) : a[n] = h[k]
  BY AppendProperties
<1> HIDE DEF a
<1>2. CASE Len(a) <= HistoryCap
  BY <1>1, <1>2 DEF LastEntries, a
<1>3. CASE Len(a) > HistoryCap
  <2> DEFINE m == Len(a) - HistoryCap + 1
  <2>1. m \in 1..Len(a) /\ m \in Int /\ Len(a) \in Int
    BY <1>1, <1>3
  <2>2. l = SubSeq(a, m, Len(a))
    BY <1>1, <1>3 DEF LastEntries
  <2>3. \A n \in m..Len(a) : a[n] \in Intents
    BY <1>1, <2>1, ElementOfSeq
  <2> HIDE DEF m
  <2>4. /\ l \in Seq(Intents) /\ Len(l) = Len(a) - m + 1
        /\ \A n \in 1..(Len(a) - m + 1) : l[n] = a[m + n - 1]
    BY <2>1, <2>2, <2>3, SubSeqProperties
  <2> HIDE DEF l
  <2>5. ASSUME NEW n \in DOMAIN l
        PROVE  l[n] = i \/ \E k \in DOMAIN h : l[n] = h[k]
    <3>1. n \in 1..(Len(a) - m + 1)
      BY <2>4, LenProperties
    <3>2. l[n] = a[m + n - 1]
      BY <2>4, <3>1
    <3>3. m + n - 1 \in 1..Len(a)
      BY <2>1, <3>1
    <3> QED  BY <1>1, <3>2, <3>3
  <2> QED  BY <2>5 DEF l, a
<1> QED  BY <1>1, <1>2, <1>3

\* The settlement of a live intent: the listing is not deleted, and what the
\* session has loaded of it is what is there.
LEMMA SimulatesSettleCommits ==
    ASSUME StripeInv, TypeInv', SettleCommits(Loop)
    PROVE  Simulates
<1> USE DEF jobVars, provVars, msgVars
<1>0. TypeInv /\ Loop \in Procs /\ Worker \in Procs /\ Loop # Worker
  BY ProcsMembers DEF StripeInv
<1>1. PICK i \in Intents : i = session[Loop].intent
  BY <1>0, SessionOf DEF SettleCommits
<1>2. PICK j \in Jobs : j = row[i].job
  BY <1>0, RowOf
<1>3. /\ session'[Loop].pc \in {"idle", "ack"} /\ session'[Worker] = session[Worker]
      /\ queue' = queue
  BY <1>0 DEF SettleCommits, Finish, Idle, TypeInv, TypeOK
<1>4. CASE ~ Live(i)
  BY <1>1, <1>3, <1>4, RowsUnchanged DEF SettleCommits
<1>5. CASE Live(i)
  <2> DEFINE l == LastEntries(Append(history[j], i))
             ref == session[Loop].msg.intent
  <2>1. /\ session[Loop].loadedFeatured = featured[j] /\ session[Loop].loadedHistory = history[j]
        /\ session[Loop].msg \in emitted /\ About(session[Loop].msg, i)
        /\ Target(session[Loop].msg) = "completed"
        /\ listing[j] # "deleted" /\ row[i].ext \in Nat /\ row[i].ext > 0
    BY <1>0, <1>1, <1>2, <1>5, RowOf DEF StripeInv, LoopOK, RowsOK, SettleCommits, Live
  <2>2. /\ l \in Seq(Intents) /\ l # <<>> /\ l[Len(l)] = i
    BY <1>0, LastEntriesOfAppend DEF TypeInv, TypeOK
  <2>3. /\ row' = [row EXCEPT ![i].status = "completed", ![i].ref = ref]
        /\ featured' = [featured EXCEPT ![j] = row[i].ext]
        /\ history' = [history EXCEPT ![j] = l]
    BY SMTT(60), <1>0, <1>1, <1>2, <1>5, <2>1 DEF SettleCommits, Flush, TypeInv, TypeOK
  <2>4. /\ emitted' = emitted /\ listing' = listing /\ checkout' = checkout
        /\ enqueuing' = enqueuing
    BY DEF SettleCommits
  <2>5. \A k \in Intents :
              /\ row'[k].job = row[k].job /\ row'[k].ext = row[k].ext
              /\ row'[k].provider = row[k].provider /\ row'[k].meta = row[k].meta
              /\ row'[k].status = "none" <=> row[k].status = "none"
              /\ row'[k].status = "deleted" <=> row[k].status = "deleted"
              /\ ReferenceOK(k, row'[k].ref)
    <3>1. "completed" \notin {"none", "deleted"}
      OBVIOUS
    <3>2. ReferenceOK(i, ref)
      BY <2>1, <1>5 DEF ReferenceOK, About, Live, StripeInv, MessagesOK, RowsOK
    <3> HIDE DEF ref
    <3> QED  BY <1>5, <2>3, <3>1, <3>2, StatusCommit, ZenonT(30)
  <2>6. \A k \in Jobs : /\ featured'[k] = IF k = j THEN row[i].ext ELSE featured[k]
                        /\ history'[k] = IF k = j THEN l ELSE history[k]
    BY <1>0, <2>3 DEF TypeInv, TypeOK
  <2>7. RowsOK'
    <3>1. \A k \in Intents : ReferenceOK(k, row[k].ref)'
      BY <2>5 DEF ReferenceOK
    <3> QED  BY <1>0, <2>4, <2>5, <3>1, RowOf DEF StripeInv, RowsOK, Live
  <2>8. NoSimulator' /\ LoopOK'
    BY <1>3, <2>4 DEF StripeInv, NoSimulator, LoopOK
  <2>9. MessagesOK'
    <3>1. \A m \in emitted : m.intent \in Intents
      BY <1>0 DEF TypeInv, TypeOK, Message
    <3>2. \A k \in Jobs : \A n \in DOMAIN history[k] : history[k][n] \in Intents
      BY <1>0, ElementOfSeq DEF TypeInv, TypeOK
    <3>3. \A n \in DOMAIN l : row[l[n]].status # "none" /\ l[n] \in Intents
      <4>1. row[i].status # "none"
        BY <1>5 DEF Live
      <4>2. \A n \in DOMAIN l : l[n] = i \/ \E n0 \in DOMAIN history[j] : l[n] = history[j][n0]
        BY <1>0, EntriesOfLast DEF TypeInv, TypeOK
      <4> QED  BY <3>2, <4>1, <4>2 DEF StripeInv, MessagesOK
    <3> HIDE DEF l
    <3> QED  BY <2>4, <2>5, <2>6, <3>1, <3>2, <3>3 DEF StripeInv, MessagesOK
  <2>10. FeaturedFromLedger'
    <3>1. ASSUME NEW k \in Jobs, history[k] # <<>>
          PROVE  history[k][Len(history[k])] \in Intents
      BY <1>0, <3>1, ElementOfSeq DEF TypeInv, TypeOK
    <3> HIDE DEF l
    <3> QED  BY <2>2, <2>5, <2>6, <3>1 DEF StripeInv, FeaturedFromLedger
  <2>11. StripeInv'
    BY <2>7, <2>8, <2>9, <2>10 DEF StripeInv
  <2>12. Orders!Feature(i)
    <3>1. \A k \in Intents : Reported(k)' <=> Reported(k)
      BY <2>4, <2>5 DEF Reported
    <3>2. /\ {k \in Intents : Reported(k)}' = {k \in Intents : Reported(k)}
          /\ {k \in Intents : row'[k].status = "deleted"} =
                 {k \in Intents : row[k].status = "deleted"}
      BY <2>5, <3>1
    <3>3. /\ i \notin {k \in Intents : row[k].status = "deleted"}
          /\ \E k \in {x \in Intents : Reported(x)} :
                k = i \/ (/\ k \in {x \in Intents : row[x].status = "deleted"}
                         /\ [x \in Intents |-> row[x].job][k] = [x \in Intents |-> row[x].job][i])
      <4>1. ref \in Intents /\ Reported(ref)
        BY <1>0, <2>1, ReportedAs DEF TypeInv, TypeOK, Message
      <4>2. ref = i \/ (row[ref].status = "deleted" /\ row[ref].job = row[i].job)
        BY <2>1 DEF About
      <4> HIDE DEF ref
      <4> QED  BY <1>5, <4>1, <4>2 DEF Live
    <3>4. /\ [k \in Intents |-> row'[k].job] = [k \in Intents |-> row[k].job]
          /\ [k \in Intents |-> row'[k].ext] = [k \in Intents |-> row[k].ext]
      BY <2>5
    <3>5. l = Orders!LastEntries(Append(history[j], i))
      BY DEF LastEntries, Orders!LastEntries
    <3> HIDE DEF l
    <3>6. history' = [history EXCEPT ![j] = Orders!LastEntries(Append(@, i))]
      BY <1>0, <2>3, <3>5 DEF TypeInv, TypeOK
    <3>7. /\ [k \in Intents |-> row[k].job][i] = j
          /\ [k \in Intents |-> row[k].ext][i] = row[i].ext
      BY <1>2
    <3> QED  BY <2>1, <2>3, <2>4, <3>2, <3>3, <3>4, <3>6, <3>7 DEF Orders!Feature
  <2> QED  BY <2>11, <2>12 DEF Simulates, Orders!Next
<1> QED  BY <1>4, <1>5

LEMMA SimulatesSettlement ==
    ASSUME StripeInv, TypeInv', Settlement
    PROVE  Simulates
<1> USE DEF jobVars, provVars, msgVars
<1>0. /\ TypeInv /\ Loop \in Procs /\ Worker \in Procs /\ Loop # Worker
      /\ session[Worker].pc = "idle" /\ Idle.pc = "idle" /\ session[Loop] \in Session
  BY ProcsMembers, SessionOf DEF StripeInv, NoSimulator, Idle
<1>1. SettleReadsJob(Loop) \/ SettleCommits(Loop) \/ UpdateCommits(Loop)
  <2>1. ~ SettleReadsJob(Worker) /\ ~ SettleCommits(Worker) /\ ~ UpdateCommits(Worker)
    BY <1>0 DEF SettleReadsJob, SettleCommits, UpdateCommits
  <2>2. PICK p \in {Loop, Worker} : SettleReadsJob(p) \/ SettleCommits(p) \/ UpdateCommits(p)
    BY DEF Settlement
  <2>3. CASE p = Loop
    BY <2>2, <2>3 DEF Loop
  <2>4. CASE p = Worker
    BY <2>1, <2>2, <2>4 DEF Worker
  <2> QED  BY <2>3, <2>4
<1>2. ASSUME NEW ok, Finish(Loop, ok)
      PROVE  /\ session'[Loop].pc \in {"idle", "ack"} /\ session'[Worker] = session[Worker]
             /\ queue' = queue
  BY <1>0, <1>2 DEF Finish, Idle, TypeInv, TypeOK
<1>3. CASE SettleReadsJob(Loop)
  <2>1. PICK i \in Intents : i = session[Loop].intent
    BY <1>0, <1>3, SessionOf DEF SettleReadsJob
  <2>2. CASE listing[row[i].job] = "deleted"
    BY <1>2, <1>3, <2>1, <2>2, RowsUnchanged DEF SettleReadsJob
  <2>3. CASE listing[row[i].job] # "deleted"
    <3> DEFINE s == [session[Loop] EXCEPT !.pc = "settle",
                        !.loadedFeatured = featured[row[i].job],
                        !.loadedHistory = history[row[i].job]]
    <3>1. /\ s.pc = "settle" /\ s.intent = i /\ s.msg = session[Loop].msg
          /\ s.loadedFeatured = featured[row[i].job] /\ s.loadedHistory = history[row[i].job]
      BY <1>0, <2>1 DEF Session
    <3>2. session' = [session EXCEPT ![Loop] = s]
      BY <1>0, <1>3, <2>1, <2>3 DEF SettleReadsJob, TypeInv, TypeOK
    <3> HIDE DEF s
    <3>3. session'[Loop] = s /\ session'[Worker] = session[Worker]
      BY <1>0, <3>2 DEF TypeInv, TypeOK
    <3>4. Steady /\ NoSimulator'
      BY <1>3, <2>1, <2>3, <3>3, RowsUnchanged DEF SettleReadsJob
    <3>5. LoopOK'
      BY <1>3, <2>1, <3>1, <3>3 DEF SettleReadsJob, StripeInv, LoopOK, About
    <3> QED  BY <3>4, <3>5, SteadyStep DEF Simulates
  <2> QED  BY <2>2, <2>3
<1>4. CASE UpdateCommits(Loop)
  <2>1. PICK i \in Intents : i = session[Loop].intent
    BY <1>0, <1>4, SessionOf DEF UpdateCommits
  <2>2. /\ session'[Loop].pc \in {"idle", "ack"} /\ session'[Worker] = session[Worker]
        /\ queue' = queue
    BY <1>2, <1>4 DEF UpdateCommits
  <2>3. CASE ~ Live(i)
    BY <1>4, <2>1, <2>2, <2>3, RowsUnchanged DEF UpdateCommits
  <2>4. CASE Live(i)
    <3>1. PICK f : f = Flush(row[i].status, session[Loop].loaded, Target(session[Loop].msg))
      OBVIOUS
    <3>2. f \notin {"none", "deleted"}
      <4>1. Target(session[Loop].msg) \in PaymentStatus
        BY <1>0, <1>4, SessionOf, TargetType DEF UpdateCommits
      <4> QED  BY <2>4, <3>1, <4>1 DEF Flush, Live, PaymentStatus, Open, Terminal
    <3>3. PICK ref : ref = IF session[Loop].msg.kind \in CallbackKinds
                           THEN session[Loop].msg.intent ELSE row[i].ref
      OBVIOUS
    <3>31. ReferenceOK(i, ref)
      BY <1>4, <2>1, <2>4, <3>3
      DEF UpdateCommits, ReferenceOK, About, Live, StripeInv, LoopOK, MessagesOK, RowsOK
    <3>4. row' = [row EXCEPT ![i].status = f, ![i].ref = ref]
      BY <1>0, <1>4, <2>1, <2>4, <3>1, <3>3 DEF UpdateCommits, TypeInv, TypeOK
    <3>5. \A k \in Intents :
              /\ row'[k].job = row[k].job /\ row'[k].ext = row[k].ext
              /\ row'[k].provider = row[k].provider /\ row'[k].meta = row[k].meta
              /\ row'[k].status = "none" <=> row[k].status = "none"
              /\ row'[k].status = "deleted" <=> row[k].status = "deleted"
              /\ ReferenceOK(k, row'[k].ref)
      BY <2>4, <3>2, <3>31, <3>4, StatusCommit, ZenonT(30)
    <3>6. Steady /\ NoSimulator'
      BY <1>4, <2>2, <3>5 DEF Steady, UpdateCommits, StripeInv, NoSimulator
    <3>7. LoopOK'
      BY <2>2, <3>6, LoopSteady
    <3> QED  BY <3>6, <3>7, SteadyStep DEF Simulates
  <2> QED  BY <2>3, <2>4
<1> QED  BY <1>1, <1>3, <1>4, SimulatesSettleCommits

\* A message about i is sent: Report, of an order that was placed.
LEMMA SimulatesEmission ==
    ASSUME StripeInv, TypeInv', NEW i \in Intents, NEW k \in StripeKinds,
           row[i].status # "none",
           emitted' = emitted \cup {Msg(k, i, TRUE)},
           \A x \in Intents : row[x].status = "none" => checkout'[x] = checkout[x],
           UNCHANGED <<jobVars, row, msgVars, session>>
    PROVE  Simulates
<1> USE DEF jobVars, msgVars
<1> DEFINE m == Msg(k, i, TRUE)
           told == {x \in Intents : Reported(x)}
<1>1. m.kind = k /\ m.intent = i /\ m.named
  BY MsgType DEF Msg
<1>2. row[i].ext > 0 /\ row[i].ext \in Nat
  BY RowOf DEF StripeInv, RowsOK
<1> HIDE DEF m
<1>3. emitted' = emitted \cup {m}
  BY DEF m
<1>4. \A x \in Intents : Reported(x)' <=> (Reported(x) \/ (x = i /\ Target(m) = "completed"))
  BY <1>1, <1>3 DEF Reported
<1>5. told' = IF Target(m) = "completed" THEN told \cup {i} ELSE told
  BY <1>4
<1>6. RowsOK'
  BY DEF StripeInv, RowsOK, ReferenceOK, Live
<1>7. NoSimulator' /\ FeaturedFromLedger'
  BY DEF StripeInv, NoSimulator, FeaturedFromLedger
<1>8. MessagesOK'
  BY <1>1, <1>3 DEF StripeInv, MessagesOK
<1>9. LoopOK'
  BY <1>3 DEF StripeInv, LoopOK, About, Live
<1>10. StripeInv'
  BY <1>6, <1>7, <1>8, <1>9 DEF StripeInv
<1>11. CASE Target(m) = "completed"
  <2>1. [x \in Intents |-> row[x].ext][i] > 0
    BY <1>2
  <2>2. Orders!Report(i)
    BY <1>5, <1>11, <2>1 DEF Orders!Report, told
  <2> QED  BY <1>10, <2>2 DEF Simulates, Orders!Next
<1>12. CASE Target(m) # "completed"
  <2>1. UNCHANGED Orders!vars
    BY <1>5, <1>12 DEF Orders!vars, told
  <2> QED  BY <1>10, <2>1 DEF Simulates
<1> QED  BY <1>11, <1>12

\* Listings go, and intents with them or with an account: Remove of FeaturedOrders.
LEMMA SimulatesRemove ==
    ASSUME StripeInv, TypeInv', NEW js \in SUBSET Jobs, NEW us, Remove(js, us),
           UNCHANGED <<provVars, msgVars, session>>
    PROVE  Simulates
<1> USE DEF provVars, msgVars
<1>0. TypeInv
  BY DEF StripeInv
<1>1. \A i \in Intents :
         /\ row'[i].job = row[i].job /\ row'[i].ext = row[i].ext
         /\ row'[i].provider = row[i].provider /\ row'[i].meta = row[i].meta
         /\ row'[i].ref = row[i].ref
         /\ row'[i].status = "none" <=> row[i].status = "none"
         /\ row[i].status = "deleted" => row'[i].status = "deleted"
         /\ Live(i)' => Live(i) /\ row[i].job \notin js
  <2> TAKE i \in Intents
  <2> DEFINE r == [row[i] EXCEPT !.status = "deleted"]
  <2>1. /\ r.job = row[i].job /\ r.ext = row[i].ext /\ r.status = "deleted"
        /\ r.provider = row[i].provider /\ r.meta = row[i].meta /\ r.ref = row[i].ref
    BY <1>0, RowOf DEF Row
  <2>2. row'[i] = IF Live(i) /\ (row[i].job \in js \/ row[i].user \in us) THEN r ELSE row[i]
    BY DEF Remove
  <2> HIDE DEF r
  <2> QED  BY <2>1, <2>2 DEF Live
<1>2. \A k \in Jobs : /\ listing'[k] = IF k \in js THEN "deleted" ELSE listing[k]
                      /\ featured'[k] = IF k \in js THEN 0 ELSE featured[k]
                      /\ history'[k] = IF k \in js THEN <<>> ELSE history[k]
  BY DEF Remove
<1>3. emitted' = emitted /\ checkout' = checkout /\ session' = session
      /\ enqueuing' = enqueuing /\ queue' = queue
  OBVIOUS
<1>4. RowsOK'
  <2>1. \A i \in Intents : ReferenceOK(i, row[i].ref)'
    BY <1>1 DEF ReferenceOK, StripeInv, RowsOK
  <2> QED  BY <1>0, <1>1, <1>2, <1>3, <2>1, RowOf DEF StripeInv, RowsOK
<1>5. NoSimulator'
  BY <1>3 DEF StripeInv, NoSimulator
<1>6. MessagesOK'
  <2>1. \A m \in emitted : m.intent \in Intents
    BY <1>0 DEF TypeInv, TypeOK, Message
  <2>2. \A k \in Jobs : \A n \in DOMAIN history[k] : history[k][n] \in Intents
    BY <1>0, ElementOfSeq DEF TypeInv, TypeOK
  <2>3. DOMAIN <<>> = {}
    OBVIOUS
  <2> QED  BY <1>1, <1>2, <1>3, <2>1, <2>2, <2>3 DEF StripeInv, MessagesOK
<1>7. FeaturedFromLedger'
  <2>1. ASSUME NEW k \in Jobs, history[k] # <<>>
        PROVE  history[k][Len(history[k])] \in Intents
    BY <1>0, <2>1, ElementOfSeq DEF TypeInv, TypeOK
  <2> QED  BY <1>1, <1>2, <2>1 DEF StripeInv, FeaturedFromLedger
<1>8. LoopOK'
  <2>1. session[Loop].pc \notin {"idle", "ack"} =>
            session[Loop].intent \in Intents /\ row[session[Loop].intent].job \in Jobs
    BY <1>0, ProcsMembers, SessionOf, RowOf
  <2>2. session[Loop].pc \in {"read_job", "settle", "update"} =>
            session[Loop].msg.intent \in Intents
    BY <1>0, ProcsMembers, SessionOf DEF Message
  <2> QED  BY <1>1, <1>2, <1>3, <2>1, <2>2 DEF StripeInv, LoopOK, About
<1>9. StripeInv'
  BY <1>4, <1>5, <1>6, <1>7, <1>8 DEF StripeInv
<1>9a. PICK is \in SUBSET Intents : is = {i \in Intents : row'[i].status = "deleted"}
  OBVIOUS
<1>10. Orders!Remove(js, is)
  <2>1. \A i \in Intents : Reported(i)' <=> Reported(i)
    BY <1>1, <1>3 DEF Reported
  <2>2. {i \in Intents : Reported(i)}' = {i \in Intents : Reported(i)}
    BY <2>1
  <2>3. {k \in Jobs : listing'[k] = "deleted"} = {k \in Jobs : listing[k] = "deleted"} \cup js
    BY <1>2
  <2>4. is = {i \in Intents : row[i].status = "deleted"} \cup is
    BY <1>1, <1>9a
  <2>5. featured' = [k \in Jobs |-> IF k \in js THEN 0 ELSE featured[k]]
        /\ history' = [k \in Jobs |-> IF k \in js THEN <<>> ELSE history[k]]
    BY DEF Remove
  <2>6. /\ [i \in Intents |-> row'[i].job] = [i \in Intents |-> row[i].job]
        /\ [i \in Intents |-> row'[i].ext] = [i \in Intents |-> row[i].ext]
    BY <1>1
  <2>7. /\ \A i \in is : [x \in Intents |-> row[x].ext][i] > 0
        /\ \A i \in Intents : /\ [x \in Intents |-> row[x].ext][i] > 0
                              /\ [x \in Intents |-> row[x].job][i] \in js
                              => i \in is
    <3>1. \A i \in is : row[i].ext > 0
      BY <1>1, <1>9a DEF StripeInv, RowsOK
    <3>2. ASSUME NEW i \in Intents, row[i].ext > 0, row[i].job \in js
          PROVE  row'[i].status = "deleted"
      BY <1>1, <3>2 DEF StripeInv, RowsOK, Live
    <3> QED  BY <1>9a, <3>1, <3>2
  <2> QED  BY <1>9a, <2>2, <2>3, <2>4, <2>5, <2>6, <2>7 DEF Orders!Remove
<1> QED  BY <1>9, <1>10 DEF Simulates, Orders!Next

LEMMA SimulatesEnvironment ==
    ASSUME StripeInv, TypeInv', Environment
    PROVE  Simulates
<1> USE DEF jobVars, provVars, msgVars
<1>0. TypeInv /\ Loop \in Procs /\ Worker \in Procs /\ Loop # Worker /\ Idle.pc = "idle"
  BY ProcsMembers DEF StripeInv, Idle
<1>1. ASSUME NEW i \in Intents, CustomerChecksOut(i)
      PROVE  Simulates
  <2>1. row[i].status # "none" /\ "completed" \in StripeKinds
    BY <1>1 DEF CustomerChecksOut, StripeInv, RowsOK, StripeKinds, Settling
  <2>2. \A x \in Intents : row[x].status = "none" => checkout'[x] = checkout[x]
    BY <1>0, <1>1, <2>1 DEF CustomerChecksOut, TypeInv, TypeOK
  <2> QED  BY <1>1, <2>1, <2>2, SimulatesEmission DEF CustomerChecksOut, Emits
<1>2. ASSUME NEW i \in Intents, DelayedPayment(i)
      PROVE  Simulates
  <2>1. row[i].status # "none"
    BY <1>2 DEF DelayedPayment, StripeInv, RowsOK
  <2>2. \A x \in Intents : row[x].status = "none" => checkout'[x] = checkout[x]
    BY <1>0, <1>2, <2>1 DEF DelayedPayment, TypeInv, TypeOK
  <2>3. \E k \in StripeKinds : emitted' = emitted \cup {Msg(k, i, TRUE)}
    BY <1>2 DEF DelayedPayment, Emits, StripeKinds, Settling
  <2> QED  BY <1>2, <2>1, <2>2, <2>3, SimulatesEmission DEF DelayedPayment
<1>3. ASSUME NEW i \in Intents, NEW k \in CallbackKinds, NEW named \in BOOLEAN
      PROVE  ~ MobileCallback(i, k, named)
  BY DEF MobileCallback, StripeInv, RowsOK, SimKinds
<1>4. ASSUME NEW m \in processed, Forget(m)
      PROVE  Simulates
  BY <1>4, RowsUnchanged DEF Forget
<1>5. ASSUME NEW j \in Jobs, ChangeListing(j)
      PROVE  Simulates
  <2>1. \A k \in Jobs : listing'[k] = "deleted" <=> listing[k] = "deleted"
    BY <1>0, <1>5 DEF ChangeListing, TypeInv, TypeOK
  <2> QED  BY <1>5, <2>1, RowsUnchanged DEF ChangeListing
<1>6. ASSUME NEW j \in Jobs, DeleteListing(j)
      PROVE  Simulates
  BY <1>6, SimulatesRemove DEF DeleteListing
<1>61. ASSUME NEW u \in Users, NEW js \in SUBSET Jobs, DeleteAccount(u, js)
       PROVE  Simulates
  BY <1>61, SimulatesRemove DEF DeleteAccount
<1>7. ASSUME NEW j \in Jobs, NEW u \in Admins, EditListing(j, u)
      PROVE  Simulates
  BY <1>7, RowsUnchanged DEF EditListing
<1>8. CASE Tick
  BY <1>8, RowsUnchanged DEF Tick
<1>9. CASE CrashApi
  <2>1. session'[Loop] = Idle /\ session'[Worker] = session[Worker]
    BY <1>0, <1>9 DEF CrashApi
  <2>2. enqueuing' = enqueuing
    BY <1>9 DEF CrashApi, StripeInv, NoSimulator
  <2> QED  BY <1>0, <1>9, <2>1, <2>2, RowsUnchanged DEF CrashApi
<1>10. CASE CrashWorker
  <2>1. session'[Loop] = session[Loop] /\ session'[Worker] = session[Worker]
    BY <1>0, <1>10 DEF CrashWorker, StripeInv, NoSimulator, TypeInv, TypeOK
  <2> QED  BY <1>10, <2>1, RowsUnchanged DEF CrashWorker
<1> QED
  BY <1>1, <1>2, <1>3, <1>4, <1>5, <1>6, <1>61, <1>7, <1>8, <1>9, <1>10
  DEF Environment

LEMMA StripeInit == Init => StripeInv
<1> SUFFICES ASSUME Init PROVE StripeInv
  OBVIOUS
<1>1. RowsOK
  BY DEF Init, RowsOK, ReferenceOK, Unused, Live
<1>2. NoSimulator /\ LoopOK
  BY ProcsMembers DEF Init, NoSimulator, LoopOK, Idle
<1>3. MessagesOK /\ FeaturedFromLedger
  <2>1. DOMAIN <<>> = {}
    OBVIOUS
  <2> QED  BY <2>1 DEF Init, MessagesOK, FeaturedFromLedger
<1> QED  BY <1>1, <1>2, <1>3, TypeInit DEF StripeInv

LEMMA StripeStep ==
    ASSUME StripeMarket, StripeInv, [Next]_vars
    PROVE  Simulates
<1>1. TypeInv'
  BY TypeStep DEF StripeInv
<1>2. CASE UNCHANGED vars
  BY <1>1, <1>2, RowsUnchanged DEF vars
<1>3. ASSUME NEW m \in queue, StartTask(m)
      PROVE  FALSE
  BY DEF StripeInv, NoSimulator
<1> QED
  BY <1>1, <1>2, <1>3, SimulatesRequest, SimulatesCancel, SimulatesWebhook,
     SimulatesSettlement, SimulatesEnvironment DEF Next

-----------------------------------------------------------------------------
\* In a market whose only provider is Stripe, the date until which a listing is
\* featured is always the one bought by the last entry of its history, although
\* settle_intent computes both from values it has read before.
THEOREM FeaturedFromLedgerHolds ==
    ASSUME StripeMarket
    PROVE  Spec => []FeaturedFromLedger
<1>1. Init => StripeInv
  BY StripeInit
<1>2. StripeInv /\ [Next]_vars => StripeInv'
  BY StripeStep DEF Simulates
<1>3. StripeInv => FeaturedFromLedger
  BY DEF StripeInv
<1> QED  BY <1>1, <1>2, <1>3, PTL DEF Spec

\* In such a market payments implement FeaturedOrders: a listing is featured, and
\* a charge entered, only by an atomic step for an order of which a success was
\* reported, or to which the report of an order gone with its account has strayed,
\* for the very date and listing of that order, and never once it is deleted.
THEOREM OrdersImplemented ==
    ASSUME StripeMarket
    PROVE  Spec => ImplementsOrders
<1>1. Init => StripeInv
  BY StripeInit
<1>2. StripeInv /\ [Next]_vars => StripeInv'
  BY StripeStep DEF Simulates
<1>3. Init => Orders!Init
  <2> SUFFICES ASSUME Init PROVE Orders!Init
    OBVIOUS
  <2>1. \A i \in Intents : /\ row[i] = Unused /\ Unused.job \in Jobs /\ Unused.ext = 0
                            /\ Unused.status # "deleted"
    BY UnusedType DEF Init, Unused, Row
  <2>2. \A i \in Intents : ~ Reported(i)
    BY DEF Init, Reported, Unused
  <2>3. \A j \in Jobs : listing[j] # "deleted"
    BY DEF Init
  <2> QED  BY <2>1, <2>2, <2>3 DEF Init, Orders!Init
<1>4. StripeInv /\ [Next]_vars => [Orders!Next]_(Orders!vars)
  BY StripeStep DEF Simulates
<1> QED  BY <1>1, <1>2, <1>3, <1>4, PTL DEF Spec, ImplementsOrders, Orders!Spec

-----------------------------------------------------------------------------
(* What is charged was reported a success, in every market.  An outcome is  *)
(* decided once: by the adapter of the simulator, while the request is on   *)
(* the loop, or by a provider that has sent its message.  Sessions, tasks   *)
(* and histories only ever hold intents whose outcome is decided, or which  *)
(* the report of one that has gone strayed to.                              *)

\* An outcome, a Checkout Session and a notification belong to an intent in use.
Issued ==
    /\ \A i \in Intents :
         /\ row[i].status = "none" => row[i].meta = "none" /\ checkout[i] = "none"
         /\ checkout[i] # "none" => row[i].provider = "stripe"
         /\ row[i].meta \in SimKinds => row[i].provider = "mobile"
    /\ \A m \in emitted :
         /\ row[m.intent].status # "none"
         /\ m.kind \in StripeKinds => m.named /\ row[m.intent].provider = "stripe"
         /\ m.kind \in CallbackKinds => row[m.intent].provider = "mobile"

References == \A i \in Intents : ReferenceOK(i, row[i].ref)

\* A task in the queue carries the outcome that the simulator recorded.
Decided ==
    \A m \in enqueuing \cup queue :
        /\ m.kind \in SimKinds /\ row[m.intent].provider = "mobile"
        /\ row[m.intent].meta = m.kind \/ row[m.intent].status = "deleted"

\* The request on the loop: its id is not used before the INSERT, and the outcome
\* of its intent is not decided before the adapter commits.
Drafted ==
    LET s == session[Loop] IN
    /\ s.pc = "save" => /\ row[s.intent].status = "none"
                        /\ s.draft.status \in Open /\ s.draft.meta = "none"
                        /\ s.draft.ref = NULL
    /\ s.pc \in {"create", "adapter"} =>
           row[s.intent].status # "none" /\ row[s.intent].meta = "none"

\* What a settling session has loaded is entitled to its period.
Charging(p) ==
    LET s == session[p] IN
    /\ s.pc \in {"read_job", "settle"} => Entitled(s.intent)
    /\ s.pc = "update" => row[s.intent].status # "none" /\ Target(s.msg) # "completed"
    /\ s.pc \in {"read_job", "settle", "update"} => ReferenceOK(s.intent, s.msg.intent)
    /\ s.pc = "settle" =>
           \A n \in DOMAIN s.loadedHistory :
               /\ row[s.loadedHistory[n]].job = row[s.intent].job
               /\ Entitled(s.loadedHistory[n])

Own(p) == IF p = Loop THEN "stripe" ELSE "mobile"

\* Without live mobile-money providers the webhooks and the task handle different
\* intents, and none completes what the other is about to complete, unless a report
\* of Stripe's has strayed.
Exclusive(p) ==
    LET s == session[p] IN
    s.pc \in {"read_job", "settle"} =>
        \/ row[s.intent].provider = Own(p) /\ row[s.intent].status # "completed"
        \/ Strayed(s.intent)

Split ==
    CallbackKinds = {} =>
      /\ \A m \in emitted : row[m.intent].provider = "stripe"
      /\ Exclusive(Loop) /\ Exclusive(Worker)

PaidInv == /\ TypeInv /\ Issued /\ References /\ Decided /\ Drafted
           /\ Charging(Loop) /\ Charging(Worker) /\ Split /\ FeaturedOnReport

-----------------------------------------------------------------------------
(* What no step takes back: an intent in use stays in use for its listing,  *)
(* date and provider, its outcome, once decided, stands, and a message that *)
(* was sent has been sent.                                                  *)

Keeps ==
    /\ emitted \subseteq emitted'
    /\ \A i \in Intents : row[i].status # "none" =>
         /\ row'[i].job = row[i].job /\ row'[i].ext = row[i].ext
         /\ row'[i].provider = row[i].provider
         /\ row'[i].status # "none"
         /\ row[i].meta # "none" => row'[i].meta = row[i].meta
         /\ row[i].status = "deleted" => row'[i].status = "deleted"

\* The session goes on as it was, or is over.
Resting(p) == session'[p] = session[p] \/ session'[p].pc \in {"idle", "ack"}

LEMMA EntitledInUse ==
    ASSUME Issued, NEW i \in Intents, Entitled(i)
    PROVE  row[i].status # "none"
BY DEF Issued, Entitled, Reported, Strayed

LEMMA StrayedLasts ==
    ASSUME TypeInv, Keeps, NEW i \in Intents, Strayed(i)
    PROVE  Strayed(i)'
<1>1. PICK m \in emitted : /\ m.kind \in Settling /\ row[m.intent].status = "deleted"
                           /\ row[m.intent].job = row[i].job
  BY DEF Strayed
<1>2. m.intent \in Intents /\ m \in emitted'
  BY DEF TypeInv, TypeOK, Message, Keeps
<1>3. row[i].status # "none"
  BY DEF Strayed
<1>4. /\ row'[m.intent].status = "deleted" /\ row'[m.intent].job = row[m.intent].job
      /\ row'[i].job = row[i].job /\ row'[i].status # "none"
  BY <1>1, <1>2, <1>3 DEF Keeps
<1> QED  BY <1>1, <1>2, <1>4 DEF Strayed

\* What an intent is entitled to is never taken back.
LEMMA EntitledLasts ==
    ASSUME TypeInv, Issued, Keeps, NEW i \in Intents, Entitled(i)
    PROVE  /\ Entitled(i)'
           /\ row'[i].job = row[i].job /\ row'[i].ext = row[i].ext
<1>1. row[i].status # "none"
  BY EntitledInUse
<1>2. CASE row[i].meta = "sim_completed"
  BY <1>1, <1>2 DEF Keeps, Entitled, Reported
<1>3. CASE \E m \in emitted : m.intent = i /\ Target(m) = "completed"
  BY <1>1, <1>3 DEF Keeps, Entitled, Reported
<1>4. CASE Strayed(i)
  BY <1>1, <1>4, StrayedLasts DEF Keeps, Entitled
<1> QED  BY <1>2, <1>3, <1>4 DEF Entitled, Reported

LEMMA ReferenceLasts ==
    ASSUME Keeps, NEW i \in Intents, NEW ref, row[i].status # "none", ReferenceOK(i, ref)
    PROVE  ReferenceOK(i, ref)'
BY DEF Keeps, ReferenceOK

\* What a resting session has loaded remains entitled.
LEMMA ChargingKept ==
    ASSUME PaidInv, Keeps, NEW p \in {Loop, Worker}, Resting(p)
    PROVE  Charging(p)'
<1>1. Charging(p) /\ TypeInv /\ Issued /\ p \in Procs
  BY ProcsMembers DEF PaidInv
<1>2. CASE session'[p].pc \in {"idle", "ack"}
  BY <1>2 DEF Charging
<1>3. CASE session'[p] = session[p]
  <2>1. /\ session[p] \in Session
        /\ session[p].pc \notin {"idle", "ack"} => session[p].intent \in Intents
    BY <1>1, SessionOf
  <2>2. ASSUME session[p].pc \in {"read_job", "settle"}
        PROVE  /\ Entitled(session[p].intent)'
               /\ row'[session[p].intent].job = row[session[p].intent].job
    <3>1. PICK i \in Intents : i = session[p].intent
      BY <2>1, <2>2
    <3>2. Entitled(i)
      BY <1>1, <2>2, <3>1 DEF Charging
    <3>3. Entitled(i)' /\ row'[i].job = row[i].job
      BY <1>1, <3>2, EntitledLasts
    <3>4. i = session'[p].intent
      BY <1>3, <3>1
    <3> QED  BY <3>1, <3>3, <3>4 DEF Entitled, Reported, Strayed
  <2>3. session[p].pc = "update" => row'[session[p].intent].status # "none"
    BY <1>1, <2>1 DEF Charging, Keeps
  <2>4. \A n \in DOMAIN session[p].loadedHistory : session[p].loadedHistory[n] \in Intents
    BY <2>1, ElementOfSeq DEF Session
  <2>5. ASSUME session[p].pc = "settle", NEW n \in DOMAIN session[p].loadedHistory
        PROVE  /\ Entitled(session[p].loadedHistory[n])'
               /\ row'[session[p].loadedHistory[n]].job = row[session[p].loadedHistory[n]].job
    <3>1. PICK i \in Intents : i = session[p].loadedHistory[n]
      BY <2>4, <2>5
    <3>2. Entitled(i)
      BY <1>1, <2>5, <3>1 DEF Charging
    <3>3. Entitled(i)' /\ row'[i].job = row[i].job
      BY <1>1, <3>2, EntitledLasts
    <3>4. i = session'[p].loadedHistory[n]
      BY <1>3, <3>1
    <3> QED  BY <3>1, <3>3, <3>4 DEF Entitled, Reported, Strayed
  <2>6. session[p].pc = "update" => Target(session[p].msg) # "completed"
    BY <1>1 DEF Charging
  <2>7. session[p].pc = "settle" =>
            \A n \in DOMAIN session[p].loadedHistory :
               row[session[p].loadedHistory[n]].job = row[session[p].intent].job
    BY <1>1 DEF Charging
  <2>8. session[p].pc \in {"read_job", "settle", "update"} =>
            ReferenceOK(session[p].intent, session[p].msg.intent)'
    <3>1. SUFFICES ASSUME session[p].pc \in {"read_job", "settle", "update"}
                   PROVE  ReferenceOK(session[p].intent, session[p].msg.intent)'
      OBVIOUS
    <3>2. PICK i \in Intents : i = session[p].intent
      BY <2>1, <3>1
    <3>3. PICK g : g = session[p].msg.intent
      OBVIOUS
    <3>4. row[i].status # "none" /\ ReferenceOK(i, g)
      BY <1>1, <3>1, <3>2, <3>3, EntitledInUse DEF Charging
    <3>5. ReferenceOK(i, g)'
      BY <3>4, ReferenceLasts
    <3>6. i = session'[p].intent /\ g = session'[p].msg.intent
      BY <1>3, <3>2, <3>3
    <3> QED  BY <3>5, <3>6
  <2> QED  BY <1>3, <2>2, <2>3, <2>5, <2>6, <2>7, <2>8 DEF Charging
<1> QED  BY <1>2, <1>3 DEF Resting

\* A task goes on carrying the recorded outcome.
LEMMA DecidedKept ==
    ASSUME PaidInv, Keeps, NEW m \in enqueuing \cup queue
    PROVE  /\ row'[m.intent].provider = "mobile"
           /\ row'[m.intent].meta = m.kind \/ row'[m.intent].status = "deleted"
<1>1. m.intent \in Intents
  BY DEF PaidInv, TypeInv, TypeOK, Message
<1>2. /\ m.kind # "none" /\ row[m.intent].provider = "mobile"
      /\ row[m.intent].meta = m.kind \/ row[m.intent].status = "deleted"
  BY DEF PaidInv, Decided, SimKinds
<1>3. row[m.intent].status # "none"
  BY <1>1, <1>2 DEF PaidInv, Issued
<1> QED  BY <1>1, <1>2, <1>3 DEF Keeps

\* Listings keep their period and their entries, or lose both.
LEMMA FeaturedKept ==
    ASSUME PaidInv, Keeps, NEW j \in Jobs,
           featured'[j] \in {featured[j], 0}, history'[j] \in {history[j], <<>>}
    PROVE  /\ featured'[j] # 0 =>
                \E i \in Intents : /\ row'[i].job = j /\ row'[i].ext = featured'[j]
                                  /\ Entitled(i)'
           /\ \A n \in DOMAIN history'[j] :
                row'[history'[j][n]].job = j /\ Entitled(history[j][n])'
<1>1. TypeInv /\ Issued /\ FeaturedOnReport
  BY DEF PaidInv
<1>2. ASSUME featured'[j] # 0
      PROVE  \E i \in Intents : /\ row'[i].job = j /\ row'[i].ext = featured'[j]
                               /\ Entitled(i)'
  <2>1. featured'[j] = featured[j] /\ featured[j] # 0
    BY <1>2
  <2>2. PICK i \in Intents : row[i].job = j /\ row[i].ext = featured[j] /\ Entitled(i)
    BY <1>1, <2>1 DEF FeaturedOnReport
  <2>3. Entitled(i)' /\ row'[i].job = row[i].job /\ row'[i].ext = row[i].ext
    BY <1>1, <2>2, EntitledLasts
  <2> QED  BY <2>1, <2>2, <2>3
<1>3. ASSUME NEW n \in DOMAIN history'[j]
      PROVE  row'[history'[j][n]].job = j /\ Entitled(history[j][n])'
  <2>1. history'[j] = history[j]
    BY <1>3
  <2>2. PICK i \in Intents : i = history[j][n]
    BY <1>1, <2>1, ElementOfSeq DEF TypeInv, TypeOK
  <2>3. row[i].job = j /\ Entitled(i)
    BY <1>1, <2>1, <2>2 DEF FeaturedOnReport
  <2>4. Entitled(i)' /\ row'[i].job = row[i].job
    BY <1>1, <2>3, EntitledLasts
  <2>5. i = history'[j][n]
    BY <2>1, <2>2
  <2> QED  BY <2>3, <2>4, <2>5 DEF Entitled, Reported, Strayed
<1> QED  BY <1>2, <1>3

\* A step completes no intent that a resting session is about to charge, unless a
\* report has strayed to it.
LEMMA SplitKept ==
    ASSUME PaidInv, Keeps, NEW p \in {Loop, Worker}, Resting(p), CallbackKinds = {},
           \A i \in Intents : row[i].provider = Own(p) /\ row'[i].status = "completed" =>
               row[i].status = "completed" \/ Strayed(i)
    PROVE  Exclusive(p)'
<1>1. CASE session'[p].pc \in {"idle", "ack"}
  BY <1>1 DEF Exclusive
<1>2. CASE session'[p] = session[p] /\ session'[p].pc \in {"read_job", "settle"}
  <2>1. PICK i \in Intents : i = session[p].intent
    BY <1>2, ProcsMembers, SessionOf DEF PaidInv
  <2>2. Entitled(i) /\ ((row[i].provider = Own(p) /\ row[i].status # "completed") \/ Strayed(i))
    <3>1. Charging(p) /\ Exclusive(p)
      BY DEF PaidInv, Split
    <3> QED  BY <1>2, <2>1, <3>1 DEF Charging, Exclusive
  <2>3. row[i].status # "none" /\ TypeInv
    BY <2>2, EntitledInUse DEF PaidInv
  <2>4. (row'[i].provider = Own(p) /\ row'[i].status # "completed") \/ Strayed(i)'
    <3>1. CASE Strayed(i)
      BY <2>3, <3>1, StrayedLasts
    <3>2. CASE ~ Strayed(i)
      BY <2>2, <2>3, <3>2 DEF Keeps
    <3> QED  BY <3>1, <3>2
  <2>5. i = session'[p].intent
    BY <1>2, <2>1
  <2> QED  BY <2>4, <2>5 DEF Exclusive, Strayed
<1>3. CASE session'[p] = session[p] /\ session'[p].pc \notin {"read_job", "settle"}
  BY <1>3 DEF Exclusive
<1> QED  BY <1>1, <1>2, <1>3 DEF Resting

\* The step formula of SettlesAsOne.
SettlesTogether ==
    \A j \in Jobs :
        featured'[j] # featured[j] /\ listing'[j] # "deleted" =>
          \E i \in Intents :
            /\ row[i].status # "completed" \/ Strayed(i)
            /\ row'[i].status = "completed"
            /\ row[i].job = j /\ featured'[j] = row[i].ext
            /\ history'[j] # <<>> /\ history'[j][Len(history'[j])] = i

Charges == PaidInv' /\ (CallbackKinds = {} => SettlesTogether)

\* A step that sends no message, completes no intent and features no listing.
\* Only a request going on on the loop uses an intent or decides its outcome, and
\* only messages that carry this outcome are enqueued.
Calm ==
    /\ Keeps /\ emitted' = emitted /\ References'
    /\ \A m \in enqueuing' \cup queue' :
         \/ m \in enqueuing \cup queue
         \/ /\ m.kind \in SimKinds /\ row'[m.intent].provider = "mobile"
            /\ row'[m.intent].meta = m.kind \/ row'[m.intent].status = "deleted"
    /\ \A j \in Jobs : /\ featured'[j] \in {featured[j], 0}
                       /\ history'[j] \in {history[j], <<>>}
                       /\ featured'[j] # featured[j] => listing'[j] = "deleted"
    /\ \A i \in Intents :
         /\ row[i].status = "none" => row'[i].meta = "none"
         /\ row'[i].meta \in SimKinds => row'[i].provider = "mobile"
         /\ row'[i].status = "completed" => row[i].status = "completed"
         /\ \/ checkout'[i] = checkout[i]
            \/ row[i].status # "none" /\ row[i].provider = "stripe"
         /\ \/ session'[Loop] # session[Loop]
            \/ /\ row'[i].meta = row[i].meta
               /\ row[i].status = "none" => row'[i].status = "none"

LEMMA CalmRows ==
    ASSUME PaidInv, Calm
    PROVE  /\ Keeps /\ Issued' /\ References' /\ Decided' /\ FeaturedOnReport'
           /\ SettlesTogether
<1>1. Keeps /\ References'
  BY DEF Calm
<1>2. Issued'
  <2>1. \A m \in emitted : m.intent \in Intents
    BY DEF PaidInv, TypeInv, TypeOK, Message
  <2> QED  BY <2>1 DEF PaidInv, Calm, Keeps, Issued
<1>3. Decided'
  <2> SUFFICES ASSUME NEW m \in (enqueuing \cup queue)'
               PROVE  /\ m.kind \in SimKinds /\ row'[m.intent].provider = "mobile"
                      /\ row'[m.intent].meta = m.kind \/ row'[m.intent].status = "deleted"
    BY DEF Decided
  <2>1. CASE m \in enqueuing \cup queue
    <3>1. m.kind \in SimKinds
      BY <2>1 DEF PaidInv, Decided
    <3> QED  BY <1>1, <2>1, <3>1, DecidedKept
  <2>2. CASE m \notin enqueuing \cup queue
    BY <2>2 DEF Calm
  <2> QED  BY <2>1, <2>2
<1>4. FeaturedOnReport'
  <2> SUFFICES ASSUME NEW j \in Jobs
               PROVE  /\ featured'[j] # 0 =>
                           \E i \in Intents : /\ row'[i].job = j /\ row'[i].ext = featured'[j]
                                             /\ Entitled(i)'
                      /\ \A n \in DOMAIN history'[j] :
                           row'[history'[j][n]].job = j /\ Entitled(history[j][n])'
    BY DEF FeaturedOnReport
  <2>1. featured'[j] \in {featured[j], 0} /\ history'[j] \in {history[j], <<>>}
    BY DEF Calm
  <2> QED  BY <1>1, <2>1, FeaturedKept
<1>5. SettlesTogether
  BY DEF Calm, SettlesTogether
<1> QED  BY <1>1, <1>2, <1>3, <1>4, <1>5

LEMMA CalmSplit ==
    ASSUME PaidInv, Calm, NEW p \in {Loop, Worker}, Resting(p), CallbackKinds = {}
    PROVE  Exclusive(p)'
<1>1. Keeps
  BY DEF Calm
<1>2. \A i \in Intents : row'[i].status = "completed" => row[i].status = "completed"
  BY DEF Calm
<1> QED  BY <1>1, <1>2, SplitKept

LEMMA CalmEmitted ==
    ASSUME PaidInv, Calm, CallbackKinds = {}
    PROVE  \A m \in emitted' : row'[m.intent].provider = "stripe"
<1>1. \A m \in emitted : m.intent \in Intents
  BY DEF PaidInv, TypeInv, TypeOK, Message
<1> QED  BY <1>1 DEF Calm, Keeps, PaidInv, Split, Issued

LEMMA CalmDrafted ==
    ASSUME PaidInv, Calm, Resting(Loop)
    PROVE  Drafted'
<1>1. session[Loop].pc \notin {"idle", "ack"} => session[Loop].intent \in Intents
  BY ProcsMembers, SessionOf DEF PaidInv
<1>2. CASE session'[Loop].pc \in {"idle", "ack"}
  BY <1>2 DEF Drafted
<1>3. CASE session'[Loop] = session[Loop]
  BY <1>1, <1>3 DEF PaidInv, Drafted, Calm, Keeps
<1> QED  BY <1>2, <1>3 DEF Resting

\* A calm step of one of the two: the other's session rests.
LEMMA CalmStep ==
    ASSUME PaidInv, TypeInv', Calm, NEW p \in {Loop, Worker},
           \A q \in {Loop, Worker} : q # p => Resting(q),
           Resting(p) \/ /\ Charging(p)'
                         /\ p = Loop => Drafted'
                         /\ CallbackKinds = {} => Exclusive(p)'
    PROVE  Charges
<1>1. /\ Keeps /\ Issued' /\ References' /\ Decided' /\ FeaturedOnReport'
      /\ SettlesTogether
  BY CalmRows
<1>2. \A q \in {Loop, Worker} : Charging(q)'
  BY <1>1, ChargingKept
<1>3. Drafted'
  BY CalmDrafted
<1>4. Split'
  <2> SUFFICES ASSUME CallbackKinds = {}
               PROVE  (\A m \in emitted' : row'[m.intent].provider = "stripe")
                      /\ \A q \in {Loop, Worker} : Exclusive(q)'
    BY DEF Split
  <2> QED  BY CalmSplit, CalmEmitted
<1> QED  BY <1>1, <1>2, <1>3, <1>4 DEF Charges, PaidInv

LEMMA CalmRest ==
    ASSUME PaidInv, TypeInv', Calm, Resting(Loop), Resting(Worker)
    PROVE  Charges
BY CalmStep

\* Nothing of the rows and listings changes, and no message is sent.
LEMMA CalmUnchanged ==
    ASSUME PaidInv, row' = row, featured' = featured, history' = history,
           emitted' = emitted, checkout' = checkout,
           enqueuing' \cup queue' \subseteq enqueuing \cup queue
    PROVE  Calm
<1>1. References'
  BY DEF PaidInv, References, ReferenceOK
<1> QED  BY <1>1 DEF Calm, Keeps, PaidInv, Issued

\* A commit that writes the status, and perhaps the reference, of a live row.
LEMMA CalmWrite ==
    ASSUME PaidInv, NEW i \in Intents, NEW status, NEW ref,
           status \notin {"none", "deleted"},
           status = "completed" => row[i].status = "completed", ReferenceOK(i, ref),
           \/ row' = row
           \/ Live(i) /\ row' = [row EXCEPT ![i].status = status]
           \/ Live(i) /\ row' = [row EXCEPT ![i].status = status, ![i].ref = ref],
           featured' = featured, history' = history,
           emitted' = emitted, checkout' = checkout,
           enqueuing' \cup queue' \subseteq enqueuing \cup queue
    PROVE  Calm
<1>1. ASSUME NEW k \in Intents
      PROVE  /\ row'[k].job = row[k].job /\ row'[k].ext = row[k].ext
             /\ row'[k].provider = row[k].provider /\ row'[k].meta = row[k].meta
             /\ row'[k].ref = row[k].ref \/ (k = i /\ row'[k].ref = ref)
             /\ \/ row'[k].status = row[k].status
                \/ k = i /\ Live(i) /\ row'[k].status = status
  <2>1. row[k] \in Row
    BY RowOf DEF PaidInv
  <2> DEFINE r1 == [row[k] EXCEPT !.status = status]
             r2 == [row[k] EXCEPT !.status = status, !.ref = ref]
  <2>2. row'[k] = row[k] \/ (k = i /\ Live(i) /\ row'[k] \in {r1, r2})
    BY DEF PaidInv, TypeInv, TypeOK
  <2>3. /\ r1.job = row[k].job /\ r1.ext = row[k].ext /\ r1.status = status
        /\ r1.provider = row[k].provider /\ r1.meta = row[k].meta /\ r1.ref = row[k].ref
    BY <2>1 DEF Row
  <2>4. /\ r2.job = row[k].job /\ r2.ext = row[k].ext /\ r2.status = status
        /\ r2.provider = row[k].provider /\ r2.meta = row[k].meta /\ r2.ref = ref
    BY <2>1 DEF Row
  <2> HIDE DEF r1, r2
  <2>5. CASE row'[k] = row[k]
    BY <2>5, Zenon
  <2>6. CASE k = i /\ Live(i) /\ row'[k] = r1
    BY <2>3, <2>6
  <2>7. CASE k = i /\ Live(i) /\ row'[k] = r2
    BY <2>4, <2>7
  <2> QED  BY <2>2, <2>5, <2>6, <2>7
<1>2. References'
  BY <1>1 DEF PaidInv, References, ReferenceOK, Live
<1> QED  BY <1>1, <1>2 DEF Calm, Keeps, Live, PaidInv, Issued

\* A commit that clears a reference at most.
LEMMA CalmReference ==
    ASSUME PaidInv, NEW i, row' \in {row, [row EXCEPT ![i].ref = NULL]},
           featured' = featured, history' = history,
           emitted' = emitted, checkout' = checkout,
           enqueuing' \cup queue' \subseteq enqueuing \cup queue
    PROVE  Calm
<1>1. ASSUME NEW k \in Intents
      PROVE  /\ row'[k].job = row[k].job /\ row'[k].ext = row[k].ext
             /\ row'[k].provider = row[k].provider /\ row'[k].meta = row[k].meta
             /\ row'[k].status = row[k].status /\ row'[k].ref \in {row[k].ref, NULL}
  <2> DEFINE r == [row[k] EXCEPT !.ref = NULL]
  <2>1. row[k] \in Row /\ row'[k] \in {row[k], r}
    BY RowOf DEF PaidInv, TypeInv, TypeOK
  <2>2. /\ r.job = row[k].job /\ r.ext = row[k].ext /\ r.status = row[k].status
        /\ r.provider = row[k].provider /\ r.meta = row[k].meta /\ r.ref = NULL
    BY <2>1 DEF Row
  <2> HIDE DEF r
  <2> QED  BY <2>1, <2>2
<1>2. References'
  BY <1>1 DEF PaidInv, References, ReferenceOK
<1> QED  BY <1>1, <1>2 DEF Calm, Keeps, PaidInv, Issued

LEMMA ChargesCancel ==
    ASSUME PaidInv, TypeInv', Cancel
    PROVE  Charges
<1> SUFFICES ASSUME NEW t \in Threads,
                    CancelCommits(t) \/ \E i \in Intents : CancelReads(t, i)
             PROVE  Charges
  BY DEF Cancel
<1> USE DEF jobVars, provVars, msgVars
<1>0. TypeInv /\ t \in Procs /\ t # Loop /\ t # Worker
  BY ProcsMembers DEF PaidInv
<1>1. Resting(Loop) /\ Resting(Worker)
  BY <1>0, ProcsMembers DEF CancelCommits, CancelReads, TypeInv, TypeOK, Resting
<1>2. ASSUME NEW i \in Intents, CancelReads(t, i)
      PROVE  Charges
  <2>1. Calm
    BY <1>2, CalmUnchanged DEF CancelReads
  <2> QED  BY <1>1, <2>1, CalmRest
<1>3. CASE CancelCommits(t)
  <2>1. PICK i \in Intents : i = session[t].intent
    BY <1>0, <1>3, SessionOf DEF CancelCommits
  <2>2. row' = row \/ (Live(i) /\ row' = [row EXCEPT ![i].status = "cancelled"])
    BY <1>3, <2>1 DEF CancelCommits
  <2>3. Calm
    <3>1. /\ featured' = featured /\ history' = history /\ emitted' = emitted
          /\ checkout' = checkout /\ enqueuing' \cup queue' \subseteq enqueuing \cup queue
      BY <1>3 DEF CancelCommits
    <3>2. CASE row' = row
      BY <3>1, <3>2, CalmUnchanged
    <3>3. CASE Live(i) /\ row' = [row EXCEPT ![i].status = "cancelled"]
      <4>1. /\ "cancelled" \notin {"none", "deleted"} /\ "cancelled" # "completed"
            /\ ReferenceOK(i, row[i].ref)
        BY DEF PaidInv, References
      <4> QED  BY <1>0, <3>1, <3>3, <4>1, CalmWrite, ZenonT(30)
    <3> QED  BY <2>2, <3>2, <3>3
  <2> QED  BY <1>1, <2>3, CalmRest
<1> QED  BY <1>2, <1>3

LEMMA KindsApart == StripeKinds \cap CallbackKinds = {} /\ StripeKinds \cap SimKinds = {}
BY DEF StripeKinds, Settling, SimKinds, NormalizedStatus

\* A message that is taken to another intent than its own: it is Stripe's, its own
\* intent has gone, and the other one is of the same listing.
LEMMA Astray ==
    ASSUME PaidInv, NEW m \in emitted, NEW i \in Intents, Handles(m, i), i # m.intent
    PROVE  ReferenceOK(i, m.intent) /\ (Target(m) = "completed" => Strayed(i))
<1>1. /\ TypeInv /\ Issued /\ m \in Message /\ m.intent \in Intents
      /\ ReferenceOK(i, row[i].ref) /\ i \in Found(m)
  BY DEF PaidInv, TypeInv, TypeOK, References, Message, Handles
<1>2. /\ Live(i) /\ ~ (m.named /\ Live(m.intent)) /\ m.kind \notin SimKinds
      /\ row[i].ref = m.intent \/ (m.kind \in StripeKinds /\ row[i].job = row[m.intent].job)
  BY <1>1, FoundOf
<1>3. row[m.intent].status # "none" /\ row[i].job = row[m.intent].job
  BY <1>1, <1>2 DEF Issued, ReferenceOK
<1>4. m.kind \in StripeKinds
  <2>1. CASE m.kind \in CallbackKinds
    <3>1. row[m.intent].provider = "mobile"
      BY <1>1, <2>1 DEF Issued
    <3>2. row[m.intent].provider = "stripe"
      BY <1>1, <1>2, <2>1, KindsApart DEF ReferenceOK
    <3> QED  BY <3>1, <3>2
  <2> QED  BY <1>1, <1>2, <2>1 DEF Message
<1>5. m.named /\ row[m.intent].provider = "stripe"
  BY <1>1, <1>4 DEF Issued
<1>6. row[m.intent].status = "deleted"
  BY <1>2, <1>3, <1>5 DEF Live
<1>7. Target(m) = "completed" => m.kind \in Settling
  BY <1>4, KindsApart DEF Target, Successes, Failures, StripeKinds, SimKinds, Settling
<1>8. Target(m) = "completed" => Strayed(i)
  BY <1>2, <1>3, <1>6, <1>7 DEF Strayed, Live
<1> QED  BY <1>3, <1>5, <1>8 DEF ReferenceOK

\* What a handler holds when it starts on a message that was sent or enqueued.
LEMMA ChargesHandling ==
    ASSUME PaidInv, TypeInv', NEW p \in {Loop, Worker}, NEW m \in Message, NEW i \in Intents,
           p = Loop => m \in emitted, p = Worker => m \in queue,
           Handles(m, i),
           session' = [session EXCEPT ![p] = Handling(m, i)],
           UNCHANGED <<row, featured, history, listing, emitted, checkout, enqueuing, queue>>
    PROVE  Charges
<1>0. /\ TypeInv /\ p \in Procs /\ m.intent \in Intents /\ Issued /\ Decided
      /\ Loop \in Procs /\ Worker \in Procs /\ Loop # Worker
  BY ProcsMembers DEF PaidInv, Message
<1>1. Calm
  BY CalmUnchanged
<1>2. session'[p] = Handling(m, i) /\ \A q \in {Loop, Worker} : q # p => session'[q] = session[q]
  BY <1>0 DEF TypeInv, TypeOK
<1>3. /\ Handling(m, i).pc = IF Target(m) = "completed" THEN "read_job" ELSE "update"
      /\ Handling(m, i).intent = i /\ Handling(m, i).msg = m
  BY DEF Handling, Idle
<1>4. /\ Live(i) /\ (Target(m) = "completed" => row[i].status # "completed")
      /\ (i = m.intent \/ m.kind \notin SimKinds)
  BY <1>0, FoundOf DEF Handles
<1>5. p = Worker => /\ m.kind \in SimKinds /\ i = m.intent /\ row[i].meta = m.kind
                    /\ row[i].provider = "mobile"
  BY <1>0, <1>4 DEF Decided, Live
<1>6. i # m.intent => ReferenceOK(i, m.intent) /\ (Target(m) = "completed" => Strayed(i))
  BY <1>5, Astray
<1>7. Target(m) = "completed" => Entitled(i)
  <2>1. CASE p = Loop
    BY <1>6, <2>1 DEF Entitled, Reported
  <2>2. CASE p = Worker /\ Target(m) = "completed"
    <3>1. m.kind # "sim_failed"
      BY <2>2 DEF Target, Successes, Failures, Settling
    <3> QED  BY <1>5, <2>2, <3>1 DEF Entitled, Reported, SimKinds
  <2> QED  BY <2>1, <2>2
<1>8. Charging(p)'
  <2>1. /\ session'[p].pc \in {"read_job", "update"} /\ session'[p].msg = m
        /\ session'[p].pc = "read_job" <=> Target(m) = "completed"
    BY <1>2, <1>3
  <2>2. PICK k \in Intents : k = i
    OBVIOUS
  <2>3. session'[p].pc = "read_job" => Entitled(k)'
    BY <1>7, <2>1, <2>2 DEF Entitled, Reported, Strayed
  <2>4. k = session'[p].intent /\ m.intent = session'[p].msg.intent
    BY <1>2, <1>3, <2>1, <2>2
  <2>5. session'[p].pc = "read_job" => Entitled(session[p].intent)'
    BY <2>3, <2>4 DEF Entitled, Reported, Strayed
  <2>6. session'[p].pc = "update" => row'[k].status # "none" /\ Target(m) # "completed"
    BY <1>4, <2>1, <2>2 DEF Live
  <2>7. ReferenceOK(session[p].intent, session[p].msg.intent)'
    BY <1>6, <2>2, <2>4 DEF ReferenceOK
  <2> QED  BY <2>1, <2>4, <2>5, <2>6, <2>7 DEF Charging
<1>9. p = Loop => Drafted'
  BY <1>2, <1>3 DEF Drafted
<1>10. CallbackKinds = {} => Exclusive(p)'
  <2>1. CallbackKinds = {} => row[i].provider = Own(p) \/ i # m.intent
    <3>1. CASE p = Loop
      BY <3>1 DEF PaidInv, Split, Own
    <3>2. CASE p = Worker
      BY <1>0, <1>5, <3>2 DEF Own
    <3> QED  BY <3>1, <3>2
  <2>2. session'[p].pc = "read_job" <=> Target(m) = "completed"
    BY <1>2, <1>3
  <2>3. PICK k \in Intents : k = i
    OBVIOUS
  <2>4. session'[p].pc \notin {"settle"} /\ k = session'[p].intent
    BY <1>2, <1>3, <2>3
  <2>5. CallbackKinds = {} /\ Target(m) = "completed" =>
            (row'[k].provider = Own(p) /\ row'[k].status # "completed") \/ Strayed(k)'
    BY <1>4, <1>6, <2>1, <2>3 DEF Strayed
  <2> QED  BY <2>2, <2>4, <2>5 DEF Exclusive, Strayed
<1>11. \A q \in {Loop, Worker} : q # p => Resting(q)
  BY <1>2 DEF Resting
<1> QED  BY <1>1, <1>8, <1>9, <1>10, <1>11, CalmStep

LEMMA ChargesReceive ==
    ASSUME PaidInv, TypeInv', Webhook \/ \E m \in queue : StartTask(m)
    PROVE  Charges
<1> USE DEF jobVars, provVars, msgVars
<1>0. /\ TypeInv /\ Loop \in Procs /\ Worker \in Procs /\ Loop # Worker /\ Idle.pc = "idle"
      /\ emitted \subseteq Message /\ queue \subseteq Message
  BY ProcsMembers DEF PaidInv, Idle, TypeInv, TypeOK
<1>1. CASE RecordsEvent
  <2>1. Resting(Loop) /\ Resting(Worker)
    BY <1>0, <1>1 DEF RecordsEvent, Resting, TypeInv, TypeOK
  <2>2. Calm
    BY <1>1, CalmUnchanged DEF RecordsEvent
  <2> QED  BY <2>1, <2>2, CalmRest
<1>2. ASSUME NEW m \in emitted, Duplicate(m) \/ AnswersAtOnce(m)
      PROVE  Charges
  <2>1. Resting(Loop) /\ Resting(Worker)
    BY <1>2 DEF Duplicate, AnswersAtOnce, Resting
  <2>2. Calm
    BY <1>2, CalmUnchanged DEF Duplicate, AnswersAtOnce
  <2> QED  BY <2>1, <2>2, CalmRest
<1>3. ASSUME NEW m \in emitted, StartsHandling(m)
      PROVE  Charges
  <2>1. PICK i \in Intents :
            Handles(m, i) /\ session' = [session EXCEPT ![Loop] = Handling(m, i)]
    BY <1>3 DEF StartsHandling
  <2>2. UNCHANGED <<row, featured, history, listing, emitted, checkout, enqueuing, queue>>
    BY <1>3 DEF StartsHandling
  <2> QED  BY <1>0, <2>1, <2>2, ChargesHandling
<1>4. ASSUME NEW m \in queue, StartTask(m), session' = session
      PROVE  Charges
  <2>1. Resting(Loop) /\ Resting(Worker)
    BY <1>4 DEF Resting
  <2>2. Calm
    BY <1>4, CalmUnchanged DEF StartTask
  <2> QED  BY <2>1, <2>2, CalmRest
<1>5. ASSUME NEW m \in queue, StartTask(m), session' # session
      PROVE  Charges
  <2>1. PICK i \in Intents :
            /\ Handles(m, i) /\ queue' = queue
            /\ session' = [session EXCEPT ![Worker] = Handling(m, i)]
    BY <1>5 DEF StartTask
  <2>2. UNCHANGED <<row, featured, history, listing, emitted, checkout, enqueuing, queue>>
    BY <1>5, <2>1 DEF StartTask
  <2> QED  BY <1>0, <2>1, <2>2, ChargesHandling
<1> QED  BY <1>1, <1>2, <1>3, <1>4, <1>5 DEF Webhook, Receive

\* Finish ends one session and leaves the others alone.
LEMMA FinishRests ==
    ASSUME TypeInv, NEW p \in {Loop, Worker}, NEW ok, Finish(p, ok)
    PROVE  Resting(Loop) /\ Resting(Worker) /\ queue' \subseteq queue
<1>1. p \in Procs /\ Loop \in Procs /\ Worker \in Procs
  BY ProcsMembers
<1> DEFINE a == [Idle EXCEPT !.pc = "ack", !.msg = session[p].msg]
<1>2. Idle.pc = "idle" /\ a.pc = "ack"
  BY DEF Idle
<1>3. session' = [session EXCEPT ![p] = a] \/ session' = [session EXCEPT ![p] = Idle]
  BY DEF Finish
<1> HIDE DEF a
<1>4. \A q \in {Loop, Worker} : session'[q] = session[q] \/ session'[q] \in {a, Idle}
  BY <1>1, <1>3 DEF TypeInv, TypeOK
<1>5. queue' \subseteq queue
  BY DEF Finish
<1> QED  BY <1>2, <1>4, <1>5 DEF Resting

LEMMA FinishEnds ==
    ASSUME TypeInv, NEW p \in {Loop, Worker}, NEW ok, Finish(p, ok)
    PROVE  session'[p].pc \in {"idle", "ack"}
<1>1. p \in Procs
  BY ProcsMembers
<1>2. Idle.pc = "idle" /\ \A m : [Idle EXCEPT !.pc = "ack", !.msg = m].pc = "ack"
  BY DEF Idle
<1> QED  BY <1>1, <1>2 DEF Finish, TypeInv, TypeOK

LEMMA ChargesReadJob ==
    ASSUME PaidInv, TypeInv', NEW p \in {Loop, Worker}, SettleReadsJob(p)
    PROVE  Charges
<1> USE DEF jobVars, provVars, msgVars
<1>0. /\ TypeInv /\ p \in Procs /\ session[p] \in Session
      /\ Loop \in Procs /\ Worker \in Procs /\ Loop # Worker
  BY ProcsMembers, SessionOf DEF PaidInv
<1>1. PICK i \in Intents : i = session[p].intent
  BY <1>0, SessionOf DEF SettleReadsJob
<1>2. PICK j \in Jobs : j = row[i].job
  BY <1>0, RowOf
<1>3. CASE listing[j] = "deleted"
  <2>1. Finish(p, FALSE)
    BY <1>1, <1>2, <1>3 DEF SettleReadsJob
  <2>2. Resting(Loop) /\ Resting(Worker) /\ queue' \subseteq queue
    BY <1>0, <2>1, FinishRests
  <2>3. Calm
    BY <2>2, CalmUnchanged DEF SettleReadsJob
  <2> QED  BY <2>2, <2>3, CalmRest
<1>4. CASE listing[j] # "deleted"
  <2> DEFINE s == [session[p] EXCEPT !.pc = "settle", !.loadedFeatured = featured[j],
                                     !.loadedHistory = history[j]]
  <2>1. /\ s.pc = "settle" /\ s.intent = i /\ s.msg = session[p].msg
        /\ s.loadedHistory = history[j]
    BY <1>0, <1>1 DEF Session
  <2>2. session' = [session EXCEPT ![p] = s] /\ queue' = queue
    BY <1>0, <1>1, <1>2, <1>4 DEF SettleReadsJob, TypeInv, TypeOK
  <2> HIDE DEF s
  <2>3. session'[p] = s /\ \A q \in {Loop, Worker} : q # p => session'[q] = session[q]
    BY <1>0, <2>2 DEF TypeInv, TypeOK
  <2>4. row' = row /\ emitted' = emitted /\ Calm
    BY <2>2, CalmUnchanged DEF SettleReadsJob
  <2>5. \A k \in Intents : (Entitled(k)' <=> Entitled(k)) /\ (Strayed(k)' <=> Strayed(k))
    BY <2>4 DEF Entitled, Reported, Strayed
  <2>6. Entitled(i)'
    BY <1>1, <2>5 DEF PaidInv, Charging, SettleReadsJob
  <2>7. ASSUME NEW n \in DOMAIN history[j]
        PROVE  /\ row'[history[j][n]].job = j
               /\ \E k \in Intents : k = history[j][n] /\ Entitled(k)'
    <3>1. PICK k \in Intents : k = history[j][n]
      BY <1>0, <2>7, ElementOfSeq DEF TypeInv, TypeOK
    <3>2. row[k].job = j /\ Entitled(k)
      BY <2>7, <3>1 DEF PaidInv, FeaturedOnReport
    <3> QED  BY <2>4, <2>5, <3>1, <3>2
  <2>8. Charging(p)'
    <3>1. i = session'[p].intent /\ session'[p].pc = "settle" /\ session'[p].loadedHistory = history[j]
      BY <2>1, <2>3
    <3>2. Entitled(session[p].intent)'
      BY <2>6, <3>1 DEF Entitled, Reported, Strayed
    <3>3. ASSUME NEW n \in DOMAIN session'[p].loadedHistory
          PROVE  Entitled(session[p].loadedHistory[n])'
      <4>1. PICK k \in Intents : k = session'[p].loadedHistory[n] /\ Entitled(k)'
        BY <2>7, <3>1, <3>3
      <4> QED  BY <4>1 DEF Entitled, Reported, Strayed
    <3>4. \A n \in DOMAIN session'[p].loadedHistory :
              row'[session'[p].loadedHistory[n]].job = row'[session'[p].intent].job
      BY <1>2, <2>4, <2>7, <3>1
    <3>5. ReferenceOK(session[p].intent, session[p].msg.intent)'
      <4>1. ReferenceOK(i, session[p].msg.intent) /\ session'[p].msg = session[p].msg
        BY <1>1, <2>1, <2>3 DEF PaidInv, Charging, SettleReadsJob
      <4> QED  BY <2>4, <3>1, <4>1 DEF ReferenceOK
    <3> QED  BY <3>1, <3>2, <3>3, <3>4, <3>5 DEF Charging
  <2>9. p = Loop => Drafted'
    BY <2>1, <2>3 DEF Drafted
  <2>10. CallbackKinds = {} => Exclusive(p)'
    <3>1. CallbackKinds = {} =>
              (row'[i].provider = Own(p) /\ row'[i].status # "completed") \/ Strayed(i)'
      BY <1>1, <2>4, <2>5 DEF PaidInv, Split, Exclusive, SettleReadsJob
    <3>2. i = session'[p].intent
      BY <2>1, <2>3
    <3> QED  BY <3>1, <3>2 DEF Exclusive, Strayed
  <2>11. \A q \in {Loop, Worker} : q # p => Resting(q)
    BY <2>3 DEF Resting
  <2> QED  BY <2>4, <2>8, <2>9, <2>10, <2>11, CalmStep
<1> QED  BY <1>3, <1>4

LEMMA ChargesUpdate ==
    ASSUME PaidInv, TypeInv', NEW p \in {Loop, Worker}, UpdateCommits(p)
    PROVE  Charges
<1> USE DEF jobVars, provVars, msgVars
<1>0. TypeInv /\ p \in Procs /\ session[p].msg \in Message
  BY ProcsMembers, SessionOf DEF PaidInv, UpdateCommits
<1>1. PICK i \in Intents : i = session[p].intent
  BY <1>0, SessionOf DEF UpdateCommits
<1>2. PICK ok : ok = Live(i)
  OBVIOUS
<1>3. Resting(Loop) /\ Resting(Worker) /\ queue' \subseteq queue
  BY <1>0, <1>1, <1>2, FinishRests DEF UpdateCommits
<1>4. /\ featured' = featured /\ history' = history /\ emitted' = emitted
      /\ checkout' = checkout /\ enqueuing' \cup queue' \subseteq enqueuing \cup queue
  BY <1>3 DEF UpdateCommits
<1>5. CASE ~ Live(i)
  <2>1. row' = row
    BY <1>1, <1>5 DEF UpdateCommits
  <2>2. Calm
    BY <1>4, <2>1, CalmUnchanged
  <2> QED  BY <1>3, <2>2, CalmRest
<1>6. CASE Live(i)
  <2>1. PICK f : f = Flush(row[i].status, session[p].loaded, Target(session[p].msg))
    OBVIOUS
  <2>2. f \notin {"none", "deleted"} /\ (f = "completed" => row[i].status = "completed")
    <3>1. Target(session[p].msg) \in PaymentStatus
      BY <1>0, TargetType
    <3>2. Target(session[p].msg) # "completed"
      BY <1>1 DEF PaidInv, Charging, UpdateCommits
    <3>3. Target(session[p].msg) \notin {"none", "deleted"}
      BY <3>1 DEF PaymentStatus, Open, Terminal
    <3> QED  BY <1>6, <2>1, <3>2, <3>3 DEF Flush, Live
  <2>3. PICK ref : ref = IF session[p].msg.kind \in CallbackKinds THEN session[p].msg.intent
                                                                  ELSE row[i].ref
    OBVIOUS
  <2>31. ReferenceOK(i, ref)
    BY <1>1, <2>3 DEF PaidInv, References, Charging, UpdateCommits
  <2>4. row' = [row EXCEPT ![i].status = f, ![i].ref = ref]
    BY <1>0, <1>1, <1>6, <2>1, <2>3 DEF UpdateCommits, TypeInv, TypeOK
  <2>5. Calm
    BY <1>0, <1>4, <1>6, <2>2, <2>31, <2>4, CalmWrite, ZenonT(30)
  <2> QED  BY <1>3, <2>5, CalmRest
<1> QED  BY <1>5, <1>6

\* The settlement of a live intent: it is entitled to its period, so is every entry
\* the session has loaded, and all are for the listing that is written.
LEMMA ChargesSettle ==
    ASSUME PaidInv, TypeInv', NEW p \in {Loop, Worker}, SettleCommits(p)
    PROVE  Charges
<1> USE DEF jobVars, provVars, msgVars
<1>0. /\ TypeInv /\ p \in Procs /\ session[p] \in Session /\ Issued
      /\ Loop \in Procs /\ Worker \in Procs /\ Loop # Worker
  BY ProcsMembers, SessionOf DEF PaidInv
<1>1. PICK i \in Intents : i = session[p].intent
  BY <1>0, SessionOf DEF SettleCommits
<1>2. PICK j \in Jobs : j = row[i].job
  BY <1>0, RowOf
<1>3. Resting(Loop) /\ Resting(Worker) /\ queue' \subseteq queue
  <2>1. PICK ok : ok = Live(i)
    OBVIOUS
  <2> QED  BY <1>0, <1>1, <2>1, FinishRests DEF SettleCommits
<1>4. /\ emitted' = emitted /\ checkout' = checkout
      /\ enqueuing' \cup queue' \subseteq enqueuing \cup queue
  BY <1>3 DEF SettleCommits
<1>5. CASE ~ Live(i)
  <2>1. Calm
    BY <1>1, <1>4, <1>5, CalmUnchanged DEF SettleCommits
  <2> QED  BY <1>3, <2>1, CalmRest
<1>6. CASE Live(i)
  <2> DEFINE h == session[p].loadedHistory
             l == LastEntries(Append(h, i))
             f == Flush(featured[j], session[p].loadedFeatured, row[i].ext)
             ref == IF p = Loop THEN session[p].msg.intent ELSE row[i].ref
             r == [row[i] EXCEPT !.status = "completed", !.ref = ref]
  <2>1. /\ h \in Seq(Intents) /\ Entitled(i) /\ row[i].status # "none"
        /\ \A n \in DOMAIN h : h[n] \in Intents /\ row[h[n]].job = j /\ Entitled(h[n])
    <3>1. h \in Seq(Intents)
      BY <1>0 DEF Session
    <3>2. \A n \in DOMAIN h : h[n] \in Intents
      BY <3>1, ElementOfSeq
    <3> QED  BY <1>1, <1>2, <1>6, <3>1, <3>2 DEF PaidInv, Charging, SettleCommits, Live
  <2>1a. ReferenceOK(i, ref)
    BY <1>1 DEF PaidInv, References, Charging, SettleCommits
  <2>2. /\ l # <<>> /\ l[Len(l)] = i
        /\ \A n \in DOMAIN l : l[n] = i \/ \E k \in DOMAIN h : l[n] = h[k]
    BY <2>1, LastEntriesOfAppend, EntriesOfLast
  <2>3. /\ row' = [row EXCEPT ![i] = r]
        /\ featured' = [featured EXCEPT ![j] = f]
        /\ history' = [history EXCEPT ![j] = l]
    <3>1. row' = [row EXCEPT ![i] = r]
      BY <1>0, <1>1, <1>6 DEF SettleCommits, TypeInv, TypeOK
    <3>2. featured' = [featured EXCEPT ![j] = f]
      BY <1>0, <1>1, <1>2, <1>6 DEF SettleCommits, TypeInv, TypeOK
    <3>3. history' = [history EXCEPT ![j] = l]
      BY <1>0, <1>1, <1>2, <1>6 DEF SettleCommits
    <3> QED  BY <3>1, <3>2, <3>3
  <2>4. f \in {featured[j], row[i].ext}
    BY DEF Flush
  <2>5. /\ r.job = row[i].job /\ r.ext = row[i].ext /\ r.provider = row[i].provider
        /\ r.meta = row[i].meta /\ r.status = "completed" /\ r.ref = ref
    BY <1>0, RowOf DEF Row
  <2> HIDE DEF h, l, f, ref, r
  <2>6. \A k \in Intents : row'[k] = IF k = i THEN r ELSE row[k]
    BY <1>0, <2>3 DEF TypeInv, TypeOK
  <2>7. \A k \in Jobs : /\ featured'[k] = IF k = j THEN f ELSE featured[k]
                        /\ history'[k] = IF k = j THEN l ELSE history[k]
    BY <1>0, <2>3 DEF TypeInv, TypeOK
  <2>8. Keeps
    BY <1>4, <1>6, <2>5, <2>6 DEF Keeps, Live
  <2>9. \A k \in Intents : /\ row'[k].job = row[k].job /\ row'[k].meta = row[k].meta
                           /\ row'[k].ext = row[k].ext /\ row'[k].provider = row[k].provider
                           /\ row'[k].status = "none" => row[k].status = "none"
                           /\ k # i => row'[k].status = row[k].status
                           /\ row'[k].ref = row[k].ref \/ (k = i /\ row'[k].ref = ref)
    BY <2>5, <2>6
  <2>9a. References'
    BY <2>1a, <2>9 DEF PaidInv, References, ReferenceOK
  <2>10. \A k \in Intents : Entitled(k) => Entitled(k)'
    BY <1>0, <2>8, EntitledLasts
  <2>11. Issued'
    <3>1. \A m \in emitted : m.intent \in Intents
      BY <1>0 DEF TypeInv, TypeOK, Message
    <3> QED  BY <1>0, <1>4, <2>9, <3>1 DEF Issued
  <2>12. Decided'
    <3> SUFFICES ASSUME NEW m \in (enqueuing \cup queue)'
                 PROVE  /\ m.kind \in SimKinds /\ row'[m.intent].provider = "mobile"
                        /\ row'[m.intent].meta = m.kind \/ row'[m.intent].status = "deleted"
      BY DEF Decided
    <3>1. m \in enqueuing \cup queue
      BY <1>4
    <3>2. m.kind \in SimKinds
      BY <3>1 DEF PaidInv, Decided
    <3> QED  BY <2>8, <3>1, <3>2, DecidedKept
  <2>13. Drafted' /\ \A q \in {Loop, Worker} : Charging(q)'
    <3>1. Drafted'
      <4>1. session[Loop].pc \notin {"idle", "ack"} => session[Loop].intent \in Intents
        BY <1>0, SessionOf
      <4>2. CASE session'[Loop].pc \in {"idle", "ack"}
        BY <4>2 DEF Drafted
      <4>3. CASE session'[Loop] = session[Loop]
        <5>1. session[Loop].pc = "save" => session[Loop].intent # i
          BY <2>1 DEF PaidInv, Drafted
        <5> QED  BY <2>9, <4>1, <4>3, <5>1 DEF PaidInv, Drafted
      <4> QED  BY <1>3, <4>2, <4>3 DEF Resting
    <3> QED  BY <1>3, <2>8, <3>1, ChargingKept
  <2>14. FeaturedOnReport'
    <3> SUFFICES ASSUME NEW k \in Jobs
                 PROVE  /\ featured'[k] # 0 =>
                             \E x \in Intents : /\ row'[x].job = k /\ row'[x].ext = featured'[k]
                                               /\ Entitled(x)'
                        /\ \A n \in DOMAIN history'[k] :
                             row'[history'[k][n]].job = k /\ Entitled(history[k][n])'
      BY DEF FeaturedOnReport
    <3>1. CASE k # j
      <4>1. featured'[k] \in {featured[k], 0} /\ history'[k] \in {history[k], <<>>}
        BY <2>7, <3>1
      <4> QED  BY <2>8, <4>1, FeaturedKept
    <3>2. CASE k = j
      <4>1. featured'[k] = f /\ history'[k] = l
        BY <2>7, <3>2
      <4>2. featured'[k] # 0 => \E x \in Intents : /\ row'[x].job = k /\ row'[x].ext = featured'[k]
                                                   /\ Entitled(x)'
        <5>1. CASE f = row[i].ext
          BY <1>2, <2>1, <2>9, <2>10, <3>2, <4>1, <5>1
        <5>2. CASE f = featured[j] /\ f # 0
          <6>1. PICK x \in Intents : row[x].job = j /\ row[x].ext = featured[j] /\ Entitled(x)
            BY <5>2 DEF PaidInv, FeaturedOnReport
          <6> QED  BY <2>9, <2>10, <3>2, <4>1, <5>2, <6>1
        <5> QED  BY <2>4, <4>1, <5>1, <5>2
      <4>3. ASSUME NEW n \in DOMAIN history'[k]
            PROVE  row'[history'[k][n]].job = k /\ Entitled(history[k][n])'
        <5>1. PICK x \in Intents : x = l[n] /\ row[x].job = j /\ Entitled(x)
          BY <1>2, <2>1, <2>2, <4>1, <4>3
        <5>2. x = history'[k][n]
          BY <4>1, <5>1
        <5>3. row'[x].job = k /\ Entitled(x)'
          BY <2>9, <2>10, <3>2, <5>1
        <5> QED  BY <5>2, <5>3 DEF Entitled, Reported, Strayed
      <4> QED  BY <4>2, <4>3
    <3> QED  BY <3>1, <3>2
  <2>15. CallbackKinds = {} =>
            (row[i].status # "completed" /\ row[i].provider = Own(p)) \/ Strayed(i)
    BY <1>1 DEF PaidInv, Split, Exclusive, SettleCommits
  <2>16. Split'
    <3> SUFFICES ASSUME CallbackKinds = {}
                 PROVE  (\A m \in emitted' : row'[m.intent].provider = "stripe")
                        /\ \A q \in {Loop, Worker} : Exclusive(q)'
      BY DEF Split
    <3>1. \A m \in emitted' : row'[m.intent].provider = "stripe"
      <4>1. \A m \in emitted : m.intent \in Intents
        BY <1>0 DEF TypeInv, TypeOK, Message
      <4> QED  BY <1>4, <2>9, <4>1 DEF PaidInv, Split
    <3>2. Exclusive(p)'
      <4>1. session'[p].pc \in {"idle", "ack"}
        BY <1>0, FinishEnds DEF SettleCommits
      <4> QED  BY <4>1 DEF Exclusive
    <3>3. ASSUME NEW q \in {Loop, Worker}, q # p
          PROVE  Exclusive(q)'
      <4>1. Own(q) # Own(p)
        BY <1>0, <3>3 DEF Own
      <4>2. \A k \in Intents : row[k].provider = Own(q) /\ row'[k].status = "completed" =>
                row[k].status = "completed" \/ Strayed(k)
        BY <2>9, <2>15, <4>1
      <4> QED  BY <1>3, <2>8, <4>2, SplitKept
    <3> QED  BY <3>1, <3>2, <3>3
  <2>17. CallbackKinds = {} => SettlesTogether
    <3> SUFFICES ASSUME CallbackKinds = {}, NEW k \in Jobs, featured'[k] # featured[k]
                 PROVE  \E x \in Intents :
                          /\ row[x].status # "completed" \/ Strayed(x)
                          /\ row'[x].status = "completed"
                          /\ row[x].job = k /\ featured'[k] = row[x].ext
                          /\ history'[k] # <<>> /\ history'[k][Len(history'[k])] = x
      BY DEF SettlesTogether
    <3>1. k = j /\ featured'[k] = row[i].ext /\ history'[k] = l
      BY <2>4, <2>7
    <3> QED  BY <1>2, <2>2, <2>5, <2>6, <2>15, <3>1
  <2> QED  BY <2>9a, <2>11, <2>12, <2>13, <2>14, <2>16, <2>17 DEF Charges, PaidInv
<1> QED  BY <1>5, <1>6

LEMMA ChargesSettlement ==
    ASSUME PaidInv, TypeInv', Settlement
    PROVE  Charges
BY ChargesReadJob, ChargesSettle, ChargesUpdate DEF Settlement

\* A provider reports on an intent in use.
LEMMA ChargesEmission ==
    ASSUME PaidInv, TypeInv', NEW i \in Intents, NEW m \in Message, m.intent = i,
           row[i].status # "none", CallbackKinds = {} => row[i].provider = "stripe",
           m.kind \in StripeKinds => m.named /\ row[i].provider = "stripe",
           m.kind \in CallbackKinds => row[i].provider = "mobile",
           emitted' = emitted \cup {m},
           \A x \in Intents : checkout'[x] = checkout[x] \/ (x = i /\ checkout[i] # "none"),
           UNCHANGED <<jobVars, row, msgVars, session>>
    PROVE  Charges
<1> USE DEF jobVars, msgVars
<1>0. TypeInv /\ \A n \in emitted : n.intent \in Intents
  BY DEF PaidInv, TypeInv, TypeOK, Message
<1>1. Keeps
  BY DEF Keeps
<1>2. Issued'
  BY <1>0 DEF PaidInv, Issued
<1>3. Decided' /\ Drafted' /\ References'
  BY DEF PaidInv, Decided, Drafted, References, ReferenceOK
<1>4. \A p \in {Loop, Worker} : Charging(p)'
  BY <1>1, ChargingKept DEF Resting
<1>5. FeaturedOnReport'
  <2> SUFFICES ASSUME NEW j \in Jobs
               PROVE  /\ featured'[j] # 0 =>
                           \E x \in Intents : /\ row'[x].job = j /\ row'[x].ext = featured'[j]
                                             /\ Entitled(x)'
                      /\ \A n \in DOMAIN history'[j] :
                           row'[history'[j][n]].job = j /\ Entitled(history[j][n])'
    BY DEF FeaturedOnReport
  <2> QED  BY <1>1, FeaturedKept
<1>6. Split'
  <2>1. CallbackKinds = {} => \A p \in {Loop, Worker} : Exclusive(p)'
    BY <1>1, SplitKept DEF Resting
  <2> QED  BY <1>0, <2>1 DEF PaidInv, Split
<1>7. SettlesTogether
  BY DEF SettlesTogether
<1> QED  BY <1>2, <1>3, <1>4, <1>5, <1>6, <1>7 DEF Charges, PaidInv

LEMMA ChargesRemove ==
    ASSUME PaidInv, TypeInv', NEW js \in SUBSET Jobs, NEW us, Remove(js, us),
           UNCHANGED <<provVars, msgVars, session>>
    PROVE  Charges
<1> USE DEF provVars, msgVars
<1>0. TypeInv
  BY DEF PaidInv
<1>1. \A i \in Intents :
         /\ row'[i].job = row[i].job /\ row'[i].ext = row[i].ext
         /\ row'[i].provider = row[i].provider /\ row'[i].meta = row[i].meta
         /\ row'[i].ref = row[i].ref
         /\ row'[i].status = "none" <=> row[i].status = "none"
         /\ row'[i].status \in {row[i].status, "deleted"}
  <2> TAKE i \in Intents
  <2> DEFINE r == [row[i] EXCEPT !.status = "deleted"]
  <2>1. /\ r.job = row[i].job /\ r.ext = row[i].ext /\ r.status = "deleted"
        /\ r.provider = row[i].provider /\ r.meta = row[i].meta /\ r.ref = row[i].ref
    BY <1>0, RowOf DEF Row
  <2>2. row'[i] = row[i] \/ (Live(i) /\ row'[i] = r)
    BY DEF Remove
  <2> HIDE DEF r
  <2> QED  BY <2>1, <2>2 DEF Live
<1>2. \A k \in Jobs : /\ listing'[k] = IF k \in js THEN "deleted" ELSE listing[k]
                      /\ featured'[k] = IF k \in js THEN 0 ELSE featured[k]
                      /\ history'[k] = IF k \in js THEN <<>> ELSE history[k]
  BY DEF Remove
<1>3. emitted' = emitted /\ checkout' = checkout /\ session' = session
      /\ enqueuing' = enqueuing /\ queue' = queue
  OBVIOUS
<1>4. References'
  BY <1>1 DEF PaidInv, References, ReferenceOK
<1>5. Calm
  BY <1>1, <1>2, <1>3, <1>4 DEF Calm, Keeps, PaidInv, Issued
<1>6. Resting(Loop) /\ Resting(Worker)
  BY <1>3 DEF Resting
<1> QED  BY <1>5, <1>6, CalmRest

LEMMA ChargesEnvironment ==
    ASSUME PaidInv, TypeInv', Environment
    PROVE  Charges
<1> USE DEF jobVars, provVars, msgVars
<1>0. /\ TypeInv /\ Issued /\ Loop \in Procs /\ Worker \in Procs /\ Loop # Worker
      /\ Idle.pc = "idle"
  BY ProcsMembers DEF PaidInv, Idle
<1>1. ASSUME NEW i \in Intents, CustomerChecksOut(i)
      PROVE  Charges
  <2>1. /\ row[i].status # "none" /\ row[i].provider = "stripe"
        /\ "completed" \in StripeKinds /\ checkout[i] # "none"
    BY <1>0, <1>1 DEF CustomerChecksOut, Issued, StripeKinds, Settling
  <2>2. \A x \in Intents : checkout'[x] = checkout[x] \/ (x = i /\ checkout[i] # "none")
    BY <1>0, <1>1, <2>1 DEF CustomerChecksOut, TypeInv, TypeOK
  <2> DEFINE m == Msg("completed", i, TRUE)
  <2>3. m \in Message /\ m.intent = i /\ m.named /\ m.kind \in StripeKinds
    BY <2>1, MsgType DEF Msg
  <2>4. emitted' = emitted \cup {m}
    BY <1>1 DEF CustomerChecksOut, Emits
  <2> HIDE DEF m
  <2>5. m.kind \notin CallbackKinds
    BY <2>3, KindsApart
  <2>6. UNCHANGED <<jobVars, row, msgVars, session>>
    BY <1>1 DEF CustomerChecksOut
  <2> QED  BY <2>1, <2>2, <2>3, <2>4, <2>5, <2>6, ChargesEmission
<1>2. ASSUME NEW i \in Intents, DelayedPayment(i)
      PROVE  Charges
  <2>1. row[i].status # "none" /\ row[i].provider = "stripe" /\ checkout[i] # "none"
    BY <1>0, <1>2 DEF DelayedPayment, Issued
  <2>2. \A x \in Intents : checkout'[x] = checkout[x] \/ (x = i /\ checkout[i] # "none")
    BY <1>0, <1>2, <2>1 DEF DelayedPayment, TypeInv, TypeOK
  <2>3. PICK k \in StripeKinds : emitted' = emitted \cup {Msg(k, i, TRUE)}
    BY <1>2 DEF DelayedPayment, Emits, StripeKinds, Settling
  <2> DEFINE m == Msg(k, i, TRUE)
  <2>4. m \in Message /\ m.intent = i /\ m.named /\ m.kind \in StripeKinds
    BY MsgType DEF Msg
  <2>5. emitted' = emitted \cup {m}
    BY <2>3
  <2> HIDE DEF m
  <2>6. m.kind \notin CallbackKinds
    BY <2>4, KindsApart
  <2>7. UNCHANGED <<jobVars, row, msgVars, session>>
    BY <1>2 DEF DelayedPayment
  <2> QED  BY <2>1, <2>2, <2>4, <2>5, <2>6, <2>7, ChargesEmission
<1>3. ASSUME NEW i \in Intents, NEW k \in CallbackKinds, NEW named \in BOOLEAN,
             MobileCallback(i, k, named)
      PROVE  Charges
  <2>1. row[i].status # "none" /\ row[i].provider = "mobile" /\ CallbackKinds # {}
    BY <1>0, <1>3 DEF MobileCallback, Issued, SimKinds
  <2> DEFINE m == Msg(k, i, named)
  <2>2. m \in Message /\ m.intent = i /\ m.kind \notin StripeKinds
    BY MsgType, KindsApart DEF Msg
  <2>3. /\ emitted' = emitted \cup {m}
        /\ UNCHANGED <<jobVars, row, checkout, msgVars, session>>
    BY <1>3 DEF MobileCallback
  <2> HIDE DEF m
  <2>4. \A x \in Intents : checkout'[x] = checkout[x] \/ (x = i /\ checkout[i] # "none")
    BY <2>3
  <2> QED  BY <2>1, <2>2, <2>3, <2>4, ChargesEmission
<1>4. CASE \/ \E m \in processed : Forget(m)
           \/ \E j \in Jobs : ChangeListing(j)
           \/ \E j \in Jobs, u \in Admins : EditListing(j, u)
           \/ Tick
  <2>1. UNCHANGED <<row, featured, history, provVars, enqueuing, queue, session>>
    BY <1>4 DEF Forget, ChangeListing, EditListing, Tick
  <2>2. Calm
    BY <2>1, CalmUnchanged
  <2> QED  BY <2>1, <2>2, CalmRest DEF Resting
<1>5. ASSUME NEW j \in Jobs, DeleteListing(j)
      PROVE  Charges
  BY <1>5, ChargesRemove DEF DeleteListing
<1>51. ASSUME NEW u \in Users, NEW js \in SUBSET Jobs, DeleteAccount(u, js)
       PROVE  Charges
  BY <1>51, ChargesRemove DEF DeleteAccount
<1>6. CASE CrashApi
  <2>1. Resting(Loop) /\ Resting(Worker)
    BY <1>0, <1>6 DEF CrashApi, Resting
  <2>2. Calm
    BY <1>6, CalmUnchanged DEF CrashApi
  <2> QED  BY <2>1, <2>2, CalmRest
<1>7. CASE CrashWorker
  <2>1. Resting(Loop) /\ Resting(Worker)
    BY <1>0, <1>7 DEF CrashWorker, Resting, TypeInv, TypeOK
  <2>2. Calm
    BY <1>7, CalmUnchanged DEF CrashWorker
  <2> QED  BY <2>1, <2>2, CalmRest
<1> QED  BY <1>1, <1>2, <1>3, <1>4, <1>5, <1>51, <1>6, <1>7 DEF Environment

LEMMA ChargesRequest ==
    ASSUME PaidInv, TypeInv', Request
    PROVE  Charges
<1> USE DEF jobVars, provVars, msgVars
<1> DEFINE i == session[Loop].intent
<1>0. /\ TypeInv /\ Issued /\ Drafted /\ Loop \in Procs /\ Worker \in Procs /\ Loop # Worker
      /\ session[Loop] \in Session /\ Idle.pc = "idle"
      /\ session[Loop].pc \notin {"idle", "ack"} => i \in Intents /\ row[i] \in Row
  BY ProcsMembers, SessionOf, RowOf DEF PaidInv, Idle
<1>a. ASSUME NEW s, session' = [session EXCEPT ![Loop] = s]
      PROVE  session'[Loop] = s /\ Resting(Worker)
  BY <1>0, <1>a DEF TypeInv, TypeOK, Resting
<1>b. ASSUME Calm, session'[Loop].pc \in {"save", "create", "adapter"}, Drafted',
             Resting(Worker)
      PROVE  Charges
  <2>1. Charging(Loop)' /\ Exclusive(Loop)'
    BY <1>b DEF Charging, Exclusive
  <2> QED  BY <1>b, <2>1, CalmStep
<1>1. ASSUME NEW j \in Jobs, NEW p \in Providers, NEW k \in Intents, Initiate(j, p, k)
      PROVE  Charges
  <2> DEFINE d == [status |-> IF p = "stripe" THEN "pending" ELSE "awaiting_user",
                   provider |-> p, job |-> j, user |-> owner[j],
                   ext |-> Later(featured[j], now) + Period,
                   ref |-> NULL, meta |-> "none"]
             s == [Idle EXCEPT !.pc = "save", !.intent = k, !.draft = d]
  <2>1. d.status \in Open /\ d.meta = "none" /\ d.ref = NULL
    BY DEF Open
  <2> HIDE DEF d
  <2>2. s.pc = "save" /\ s.intent = k /\ s.draft = d
    BY DEF Idle
  <2> HIDE DEF s
  <2>3. session'[Loop] = s /\ Resting(Worker)
    BY <1>1, <1>a DEF Initiate, s, d
  <2>4. Calm
    BY <1>1, CalmUnchanged DEF Initiate
  <2>5. Drafted'
    BY <1>1, <2>1, <2>2, <2>3 DEF Drafted, Initiate
  <2> QED  BY <1>b, <2>2, <2>3, <2>4, <2>5
<1>2. CASE SaveIntent
  <2> DEFINE n == [Idle EXCEPT !.pc = "create", !.intent = i]
             d == session[Loop].draft
  <2>1. CASE listing[d.job] = "deleted" \/ d.user \in gone
    <3>1. Calm
      BY <1>2, <2>1, CalmUnchanged DEF SaveIntent
    <3>2. Resting(Loop) /\ Resting(Worker)
      BY <1>0, <1>2, <1>a, <2>1 DEF SaveIntent, Resting
    <3> QED  BY <3>1, <3>2, CalmRest
  <2>2. CASE ~ (listing[d.job] = "deleted" \/ d.user \in gone)
    <3>1. /\ session[Loop].pc = "save" /\ i \in Intents /\ row[i].status = "none"
          /\ d.status \in Open /\ d.meta = "none" /\ d.ref = NULL
      BY <1>0, <1>2 DEF SaveIntent, Drafted
    <3>2. n.pc = "create" /\ n.intent = i
      BY DEF Idle
    <3> HIDE DEF n
    <3>3. session'[Loop] = n /\ Resting(Worker)
      BY <1>2, <1>a, <2>2 DEF SaveIntent, n
    <3>4. /\ \A k \in Intents : row'[k] = IF k = i THEN d ELSE row[k]
          /\ UNCHANGED <<emitted, history, featured, checkout, enqueuing, queue>>
      BY <1>0, <1>2, <2>2, <3>1 DEF SaveIntent, TypeInv, TypeOK
    <3>5. "none" \notin Open /\ "completed" \notin Open
      BY DEF Open
    <3>6. session'[Loop] # session[Loop]
      BY <3>1, <3>2, <3>3
    <3> HIDE DEF d
    <3>7. Calm
      <4>1. Keeps
        BY <3>1, <3>4 DEF Keeps
      <4>2. \A k \in Intents :
              /\ row[k].status = "none" => row'[k].meta = "none"
              /\ row'[k].status = "completed" => row[k].status = "completed"
        BY <1>0, <3>1, <3>4, <3>5 DEF Issued
      <4>3. \A k \in Intents : row'[k].meta \in SimKinds => row'[k].provider = "mobile"
        BY <1>0, <3>1, <3>4 DEF Issued, SimKinds
      <4>4. References'
        BY <3>1, <3>4 DEF PaidInv, References, ReferenceOK
      <4> QED  BY <3>4, <3>6, <4>1, <4>2, <4>3, <4>4 DEF Calm
    <3>8. Drafted'
      BY <3>1, <3>2, <3>3, <3>4, <3>5 DEF Drafted
    <3> QED  BY <1>b, <3>2, <3>3, <3>7, <3>8
  <2> QED  BY <2>1, <2>2
<1>3. CASE AdapterFails
  <2>1. Resting(Loop) /\ Resting(Worker)
    BY <1>0, <1>3, <1>a DEF AdapterFails, Resting
  <2>2. row' \in {row, [row EXCEPT ![i].ref = NULL]}
    BY <1>3 DEF AdapterFails
  <2>3. /\ UNCHANGED <<featured, history, emitted, checkout>>
        /\ enqueuing' \cup queue' \subseteq enqueuing \cup queue
    BY <1>3 DEF AdapterFails
  <2>4. Calm
    <3> HIDE DEF i
    <3> QED  BY <2>2, <2>3, CalmReference
  <2> QED  BY <2>1, <2>4, CalmRest
<1> DEFINE loads == [session[Loop] EXCEPT !.pc = "adapter", !.loaded = row[i].status]
<1>c. loads.pc = "adapter" /\ loads.intent = i
  BY <1>0 DEF Session
<1> HIDE DEF loads
<1>d. ASSUME Calm, session[Loop].pc = "create", session' = [session EXCEPT ![Loop] = loads],
             row' = row
      PROVE  Charges
  <2>1. session'[Loop] = loads /\ Resting(Worker)
    BY <1>a, <1>d
  <2>2. Drafted'
    BY <1>0, <1>c, <1>d, <2>1 DEF Drafted
  <2> QED  BY <1>b, <1>c, <1>d, <2>1, <2>2
<1>4. CASE StripeCreatesSession
  <2>1. /\ i \in Intents /\ row[i].status # "none" /\ row[i].provider = "stripe"
        /\ session[Loop].pc = "create"
    BY <1>0, <1>4 DEF StripeCreatesSession, Drafted
  <2>2. \A k \in Intents : \/ checkout'[k] = checkout[k]
                           \/ row[k].status # "none" /\ row[k].provider = "stripe"
    <3>1. checkout' = [checkout EXCEPT ![i] = "open"]
      BY <1>4 DEF StripeCreatesSession
    <3> QED  BY <1>0, <2>1, <3>1 DEF TypeInv, TypeOK
  <2>3. Calm
    <3>1. References'
      BY <1>4 DEF StripeCreatesSession, PaidInv, References, ReferenceOK
    <3> QED  BY <1>4, <2>2, <3>1 DEF StripeCreatesSession, Calm, Keeps, PaidInv, Issued
  <2>4. CASE session' = [session EXCEPT ![Loop] = Idle]
    <3>1. Resting(Loop) /\ Resting(Worker)
      BY <1>0, <1>a, <2>4 DEF Resting
    <3> QED  BY <2>3, <3>1, CalmRest
  <2>5. CASE session' = [session EXCEPT ![Loop] = loads]
    BY <1>4, <1>d, <2>1, <2>3, <2>5 DEF StripeCreatesSession
  <2> QED  BY <1>4, <2>4, <2>5 DEF StripeCreatesSession, loads
<1>5. CASE SimulatorLoads
  <2>1. /\ i \in Intents /\ row[i].status # "none" /\ row[i].provider = "mobile"
        /\ session[Loop].pc = "create"
    BY <1>0, <1>5 DEF SimulatorLoads, Drafted
  <2>2. CASE Live(i)
    <3>1. session' = [session EXCEPT ![Loop] = loads]
      BY <1>5, <2>2 DEF SimulatorLoads, loads
    <3>2. Calm
      BY <1>5, <2>2, CalmUnchanged DEF SimulatorLoads
    <3> QED  BY <1>5, <1>d, <2>1, <3>1, <3>2 DEF SimulatorLoads
  <2>3. CASE ~ Live(i)
    <3>1. Resting(Loop) /\ Resting(Worker)
      BY <1>0, <1>5, <1>a, <2>3 DEF SimulatorLoads, Resting
    <3>2. PICK k \in SimKinds : enqueuing' = enqueuing \cup {Msg(k, i, TRUE)}
      BY <1>5, <2>3 DEF SimulatorLoads
    <3>3. Msg(k, i, TRUE).kind = k /\ Msg(k, i, TRUE).intent = i
      BY DEF Msg
    <3>4. row[i].status = "deleted"
      BY <2>1, <2>3 DEF Live
    <3>5. Calm
      <4> DEFINE m == Msg(k, i, TRUE)
      <4>1. /\ m.kind \in SimKinds /\ row[m.intent].provider = "mobile"
            /\ row[m.intent].status = "deleted"
        BY <2>1, <3>3, <3>4
      <4> HIDE DEF m
      <4>2. UNCHANGED <<row, featured, history, emitted, checkout, queue>>
        BY <1>5 DEF SimulatorLoads
      <4>3. \A n \in enqueuing' \cup queue' : n \in enqueuing \cup queue \/ n = m
        BY <3>2, <4>2 DEF m
      <4>4. References'
        BY <4>2 DEF PaidInv, References, ReferenceOK
      <4> QED  BY <1>0, <4>1, <4>2, <4>3, <4>4 DEF Calm, Keeps, Issued
    <3> QED  BY <3>1, <3>5, CalmRest
  <2> QED  BY <2>2, <2>3
<1>6. ASSUME NEW st \in Open, NEW meta, session[Loop].pc = "adapter", AdapterWrites(i, st, meta),
             meta \in SimKinds => row[i].provider = "mobile",
             \/ enqueuing' = enqueuing
             \/ /\ meta \in SimKinds /\ Live(i) /\ row[i].provider = "mobile"
                /\ enqueuing' = enqueuing \cup {Msg(meta, i, TRUE)}
      PROVE  Charges
  <2>1. /\ i \in Intents /\ row[i] \in Row /\ row[i].status # "none" /\ row[i].meta = "none"
    BY <1>0, <1>6 DEF Drafted
  <2>2. session'[Loop] = Idle /\ Resting(Loop) /\ Resting(Worker)
    BY <1>0, <1>6, <1>a DEF AdapterWrites, Resting
  <2>3. /\ UNCHANGED <<emitted, checkout, featured, history, queue>>
        /\ session'[Loop] # session[Loop]
    BY <1>0, <1>6, <2>2 DEF AdapterWrites
  <2>4. CASE ~ Live(i)
    <3>1. row' = row /\ enqueuing' = enqueuing
      BY <1>6, <2>4 DEF AdapterWrites
    <3>2. Calm
      BY <2>3, <3>1, CalmUnchanged
    <3> QED  BY <2>2, <3>2, CalmRest
  <2>5. CASE Live(i)
    <3> DEFINE f == Flush(row[i].status, session[Loop].loaded, st)
               r == [row[i] EXCEPT !.status = f, !.ref = i, !.meta = meta]
    <3>1. f \notin {"none", "deleted"} /\ (f = "completed" => row[i].status = "completed")
      BY <2>5 DEF Flush, Live, Open
    <3>2. row' = [row EXCEPT ![i] = r]
      BY <1>0, <1>6, <2>1, <2>5 DEF AdapterWrites, TypeInv, TypeOK
    <3> HIDE DEF f
    <3>3. /\ r.job = row[i].job /\ r.ext = row[i].ext /\ r.provider = row[i].provider
          /\ r.meta = meta /\ r.status = f /\ r.ref = i
      BY <2>1 DEF Row
    <3> HIDE DEF r
    <3>4. \A k \in Intents : row'[k] = IF k = i THEN r ELSE row[k]
      BY <1>0, <3>2 DEF TypeInv, TypeOK
    <3>5. Keeps
      BY <2>1, <2>3, <2>5, <3>1, <3>3, <3>4 DEF Keeps, Live
    <3>6. \A k \in Intents :
            /\ row[k].status = "none" => row'[k].meta = "none"
            /\ row'[k].meta \in SimKinds => row'[k].provider = "mobile"
            /\ row'[k].status = "completed" => row[k].status = "completed"
      BY <1>0, <1>6, <2>1, <3>1, <3>3, <3>4 DEF Issued
    <3>6a. References'
      BY <2>1, <3>1, <3>3, <3>4 DEF PaidInv, References, ReferenceOK
    <3>7. \A m \in enqueuing' \cup queue' :
            \/ m \in enqueuing \cup queue
            \/ /\ m.kind \in SimKinds /\ row'[m.intent].provider = "mobile"
               /\ row'[m.intent].meta = m.kind \/ row'[m.intent].status = "deleted"
      <4>1. Msg(meta, i, TRUE).kind = meta /\ Msg(meta, i, TRUE).intent = i
        BY DEF Msg
      <4>2. CASE enqueuing' = enqueuing
        BY <2>3, <4>2
      <4>3. CASE /\ meta \in SimKinds /\ row[i].provider = "mobile"
                 /\ enqueuing' = enqueuing \cup {Msg(meta, i, TRUE)}
        <5> DEFINE m == Msg(meta, i, TRUE)
        <5>1. m.kind \in SimKinds /\ row'[m.intent].provider = "mobile" /\ row'[m.intent].meta = m.kind
          BY <2>1, <3>3, <3>4, <4>1, <4>3
        <5> HIDE DEF m
        <5>2. \A n \in enqueuing' \cup queue' : n \in enqueuing \cup queue \/ n = m
          BY <2>3, <4>3 DEF m
        <5> QED  BY <5>1, <5>2
      <4> QED  BY <1>6, <4>2, <4>3
    <3>8. Calm
      BY <2>3, <3>5, <3>6, <3>6a, <3>7 DEF Calm
    <3> QED  BY <2>2, <3>8, CalmRest
  <2> QED  BY <2>4, <2>5
<1>7. CASE StripeCommits
  <2>1. "pending" \in Open /\ "stripe_url" \notin SimKinds
    BY DEF Open, SimKinds
  <2> QED  BY <1>6, <1>7, <2>1 DEF StripeCommits
<1>8. CASE SimulatorCommits
  <2>1. "awaiting_user" \in Open
    BY DEF Open
  <2>2. PICK k \in SimKinds :
          /\ AdapterWrites(i, "awaiting_user", k)
          /\ enqueuing' = IF Live(i) THEN enqueuing \cup {Msg(k, i, TRUE)} ELSE enqueuing
    BY <1>8 DEF SimulatorCommits
  <2>3. session[Loop].pc = "adapter" /\ row[i].provider = "mobile"
    BY <1>8 DEF SimulatorCommits
  <2>4. \/ enqueuing' = enqueuing
        \/ Live(i) /\ enqueuing' = enqueuing \cup {Msg(k, i, TRUE)}
    BY <2>2
  <2> QED  BY <1>6, <2>1, <2>2, <2>3, <2>4
<1>9. ASSUME NEW m \in enqueuing, Enqueued(m)
      PROVE  Charges
  <2>1. Calm
    BY <1>9, CalmUnchanged DEF Enqueued
  <2> QED  BY <1>9, <2>1, CalmRest DEF Enqueued, Resting
<1>10. ASSUME NEW m \in enqueuing, EnqueueFails(m)
       PROVE  Charges
  <2>1. row' \in {row, [row EXCEPT ![m.intent].ref = NULL]}
    BY <1>10 DEF EnqueueFails
  <2>2. Calm
    <3>1. /\ featured' = featured /\ history' = history /\ emitted' = emitted
          /\ checkout' = checkout /\ enqueuing' \cup queue' \subseteq enqueuing \cup queue
      BY <1>10 DEF EnqueueFails
    <3>2. PICK k : k = m.intent
      OBVIOUS
    <3> QED  BY <2>1, <3>1, <3>2, CalmReference
  <2> QED  BY <1>10, <2>2, CalmRest DEF EnqueueFails, Resting
<1> QED  BY <1>1, <1>2, <1>3, <1>4, <1>5, <1>7, <1>8, <1>9, <1>10 DEF Request

LEMMA PaidInit == Init => PaidInv
<1> SUFFICES ASSUME Init PROVE PaidInv
  OBVIOUS
<1>1. Issued /\ References /\ Decided
  BY DEF Init, Issued, References, ReferenceOK, Decided, Unused, SimKinds
<1>2. /\ Idle.pc = "idle" /\ session[Loop] = Idle /\ session[Worker] = Idle
      /\ emitted = {} /\ DOMAIN <<>> = {}
  BY ProcsMembers DEF Init, Idle
<1>3. Drafted /\ Charging(Loop) /\ Charging(Worker) /\ Split
  BY <1>2 DEF Drafted, Charging, Split, Exclusive
<1>4. FeaturedOnReport
  BY <1>2 DEF Init, FeaturedOnReport
<1> QED  BY <1>1, <1>3, <1>4, TypeInit DEF PaidInv

LEMMA PaidStep ==
    ASSUME PaidInv, [Next]_vars
    PROVE  PaidInv' /\ (CallbackKinds = {} => SettlesTogether)
<1>1. TypeInv'
  BY TypeStep DEF PaidInv
<1>2. CASE UNCHANGED vars
  <2>1. Calm /\ Resting(Loop) /\ Resting(Worker)
    BY <1>2, CalmUnchanged DEF vars, Resting
  <2> QED  BY <1>1, <2>1, CalmRest DEF Charges
<1> QED
  BY <1>1, <1>2, ChargesRequest, ChargesCancel, ChargesReceive, ChargesSettlement,
     ChargesEnvironment DEF Next, Charges

\* In every market, and whatever cancels, callbacks, deletions, crashes and lost
\* cache entries do: settle_intent features a listing, and enters a charge, only on
\* account of an intent for that listing of which its provider, or the simulator,
\* reported a success, or to which such a report of an intent gone with its account
\* has strayed.  That money has arrived is not among what a report says.
THEOREM FeaturedOnReportHolds == Spec => []FeaturedOnReport
<1>1. Init => PaidInv
  BY PaidInit
<1>2. PaidInv /\ [Next]_vars => PaidInv'
  BY PaidStep
<1>3. PaidInv => FeaturedOnReport
  BY DEF PaidInv
<1> QED  BY <1>1, <1>2, <1>3, PTL DEF Spec

\* Where mobile-money payments are only simulated, the webhooks on the loop and the
\* task on the worker settle different intents, and so a listing becomes featured
\* only in the transaction that completes an intent and enters it in the history,
\* a completed intent only where a report has strayed from an intent that is gone.
THEOREM SettlesAsOneHolds ==
    ASSUME CallbackKinds = {}
    PROVE  Spec => SettlesAsOne
<1>1. Init => PaidInv
  BY PaidInit
<1>2. PaidInv /\ [Next]_vars => PaidInv'
  BY PaidStep
<1>3. PaidInv /\ [Next]_vars =>
        [\A j \in Jobs :
           featured'[j] # featured[j] /\ listing'[j] # "deleted" =>
             \E i \in Intents :
               /\ row[i].status # "completed" \/ Strayed(i)
               /\ row'[i].status = "completed"
               /\ row[i].job = j /\ featured'[j] = row[i].ext
               /\ history'[j] # <<>> /\ history'[j][Len(history'[j])] = i]_vars
  BY PaidStep DEF SettlesTogether
<1> QED  BY <1>1, <1>2, <1>3, PTL DEF Spec, SettlesAsOne

=============================================================================
