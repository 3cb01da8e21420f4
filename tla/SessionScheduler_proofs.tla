----------------------- MODULE SessionScheduler_proofs -----------------------
(***************************************************************************)
(* Proofs about SessionScheduler, for every set of replicas, events and    *)
(* threads and for every bound on deliveries and failures.                 *)
(***************************************************************************)
EXTENDS SessionScheduler, FiniteSetTheorems, TLAPS

-----------------------------------------------------------------------------
(* The operators on consumers and on handlers keep their types. *)

\* Every transition of the server keeps a consumer a consumer.
LEMMA ConsumerTypes ==
  ASSUME NEW S, NEW c \in [S -> Delivery], NEW m \in S
  PROVE  /\ Delivered(c, m) \in [S -> Delivery]
         /\ Acked(c, m) \in [S -> Delivery]
         /\ Termed(c, m) \in [S -> Delivery]
         /\ Returned(c, m) \in [S -> Delivery]
<1>1. ASSUME NEW st \in DeliveryStates PROVE Moved(c, m, st) \in [S -> Delivery]
  BY DEF Moved, Delivery
<1>2. Delivered(c, m) \in [S -> Delivery]
  BY DEF Delivered, Delivery, DeliveryStates
<1> QED BY <1>1, <1>2 DEF Acked, Termed, Returned, DeliveryStates

\* Publishing adds the message, in its initial state, to the consumer.
LEMMA PublishedType ==
  ASSUME NEW S, NEW c \in [S -> Delivery], NEW m
  PROVE  Published(c, m) \in [S \cup {m} -> Delivery]
BY DEF Published, Stored, Delivery, DeliveryStates

\* A record of values that are in range is a handler's work.
LEMMA HoldingType ==
  ASSUME NEW e \in Events \cup {None}, NEW s \in Nat, NEW i \in Nat, NEW k \in Nat
  PROVE  /\ Holding(e, s, i, k) \in Work
         /\ Holding(e, s, i, k).event = e
         /\ Holding(e, s, i, k).seq = s
         /\ Holding(e, s, i, k).row = i
         /\ Holding(e, s, i, k).task = k
BY DEF Holding, Work

\* An idle handler holds no event and no task.
LEMMA NoWorkType == NoWork \in Work /\ NoWork.event = None /\ NoWork.task = 0
BY DEF NoWork, Holding, Work

-----------------------------------------------------------------------------
(* Type correctness.  TypeOK alone is not inductive: that a handler passes  *)
(* an event to Nak and a task id to Publish depends on where it stands.     *)

HandlerInv ==
  \A r \in Replicas :
    /\ pc[r] \notin {"down", "idle"} => work[r].event \in Events
    /\ pc[r] = "publish" => work[r].task \in DOMAIN tasks

TInv == TypeOK /\ HandlerInv

\* Initially every handler is idle, so nothing is asked of its values.
LEMMA InitTInv == Init => TInv
<1> SUFFICES ASSUME Init PROVE TInv
  OBVIOUS
<1>1. TypeOK
  BY NoWorkType DEF Init, TypeOK, Stored, Delivery, DeliveryStates, PCs
<1>2. HandlerInv
  BY DEF Init, HandlerInv
<1> QED BY <1>1, <1>2 DEF TInv

\* A handler that is not idle belongs to a thread.
LEMMA ThreadType ==
  ASSUME TInv, NEW r \in Replicas, pc[r] \notin {"down", "idle"}
  PROVE  work[r].event \in Events /\ Thread(r) \in Threads
BY ConstantsAssumption DEF TInv, HandlerInv, Thread

\* Leaving the handler with a nak keeps the types and leaves r idle.
LEMMA NakType ==
  ASSUME TInv, NEW r \in Replicas, work[r].event \in Events, Nak(r)
  PROVE  /\ consumer' \in [Events -> Delivery]
         /\ pc' \in [Replicas -> PCs]
         /\ work' \in [Replicas -> Work]
         /\ pc' = [pc EXCEPT ![r] = "idle"]
         /\ work' = [work EXCEPT ![r] = NoWork]
<1>1. consumer' \in [Events -> Delivery]
  BY ConsumerTypes DEF Nak, TInv, TypeOK
<1>2. pc' \in [Replicas -> PCs] /\ work' \in [Replicas -> Work]
  BY NoWorkType DEF Nak, Leave, TInv, TypeOK, PCs
<1> QED BY <1>1, <1>2 DEF Nak, Leave

\* An answered call moves the handler to the next call with its new values,
\* or sends it back to idle.
LEMMA AnswerType ==
  ASSUME TInv, NEW r \in Replicas, work[r].event \in Events,
         NEW next \in PCs, NEW w \in Work, Answer(r, next, w)
  PROVE  /\ consumer' \in [Events -> Delivery]
         /\ pc' \in [Replicas -> PCs]
         /\ work' \in [Replicas -> Work]
         /\ faults' \in Nat
         /\ \/ /\ pc' = [pc EXCEPT ![r] = next]
               /\ work' = [work EXCEPT ![r] = w]
            \/ /\ pc' = [pc EXCEPT ![r] = "idle"]
               /\ work' = [work EXCEPT ![r] = NoWork]
<1>1. CASE Fault /\ Nak(r)
  BY <1>1, NakType DEF Fault, TInv, TypeOK
<1>2. CASE ~(Fault /\ Nak(r))
  BY <1>2 DEF Answer, TInv, TypeOK
<1> QED BY <1>1, <1>2

\* The handlers' invariant survives every step that moves one handler r, or
\* none, and removes no task.
LEMMA HandlerStep ==
  ASSUME TInv, NEW r \in Replicas, NEW next \in PCs, NEW w \in Work,
         pc' = [pc EXCEPT ![r] = next], work' = [work EXCEPT ![r] = w],
         DOMAIN tasks \subseteq DOMAIN tasks',
         next \notin {"down", "idle"} => w.event \in Events,
         next = "publish" => w.task \in DOMAIN tasks'
  PROVE  HandlerInv'
BY DEF TInv, TypeOK, HandlerInv

\* Unlocking keeps the lock table a lock table.
LEMMA UnlockedType ==
  ASSUME TypeOK, NEW r PROVE Unlocked(r) \in [Threads -> Replicas \cup {None}]
BY DEF Unlocked, TypeOK

\* Every step of a handler keeps the types and the handlers' invariant.
LEMMA HandleTInv ==
  ASSUME TInv, NEW r \in Replicas, Handle(r) PROVE TInv'
<1> USE DEF TInv
<1>t. pc[r] \notin {"down", "idle"} => work[r].event \in Events /\ Thread(r) \in Threads
  BY ThreadType
<1>1. CASE Deliver(r)
  <2>1. PICK e \in Events : /\ consumer' = Delivered(consumer, e)
                            /\ work' = [work EXCEPT ![r] = Holding(e, 0, 0, 0)]
    BY <1>1 DEF Deliver
  <2>2. Holding(e, 0, 0, 0) \in Work /\ Holding(e, 0, 0, 0).event = e
    BY HoldingType
  <2>3. consumer' \in [Events -> Delivery]
    BY <2>1, ConsumerTypes DEF TypeOK
  <2>4. pc' = [pc EXCEPT ![r] = "received"] /\ UNCHANGED <<db, created, faults>>
    BY <1>1 DEF Deliver
  <2>5. TypeOK'
    BY <2>1, <2>2, <2>3, <2>4 DEF TypeOK, db, PCs
  <2>6. HandlerInv'
    BY <2>1, <2>2, <2>4, HandlerStep DEF db, PCs
  <2> QED BY <2>5, <2>6
<1>2. CASE TermMalformed(r)
  <2>1. /\ consumer' = Termed(consumer, work[r].event) /\ work[r].event \in Events
        /\ pc' = [pc EXCEPT ![r] = "idle"] /\ work' = [work EXCEPT ![r] = NoWork]
        /\ UNCHANGED <<db, created, faults>>
    BY <1>2, <1>t DEF TermMalformed, Leave
  <2>2. consumer' \in [Events -> Delivery]
    BY <2>1, ConsumerTypes DEF TypeOK
  <2>3. TypeOK'
    BY <2>1, <2>2, NoWorkType DEF TypeOK, db, PCs
  <2>4. HandlerInv'
    BY <2>1, NoWorkType, HandlerStep DEF db, PCs
  <2> QED BY <2>3, <2>4
<1>3. CASE SelectSession(r)
  <2>1. PICK next \in {"insert", "persist"} : pc' = [pc EXCEPT ![r] = next]
    BY <1>3 DEF SelectSession
  <2>2. UNCHANGED <<consumer, db, created, work, faults>> /\ work[r].event \in Events
    BY <1>3, <1>t DEF SelectSession
  <2>3. TypeOK'
    BY <2>1, <2>2 DEF TypeOK, db, PCs
  <2>4. HandlerInv'
    BY <2>1, <2>2 DEF HandlerInv, TypeOK, db
  <2> QED BY <2>3, <2>4
<1>4. CASE InsertSession(r)
  <2>0. work[r].event \in Events /\ Thread(r) \in Threads /\ work[r] \in Work
    BY <1>4, <1>t DEF InsertSession, TypeOK
  <2>1. UNCHANGED <<rowLock, ingress, tasks, created>>
    BY <1>4 DEF InsertSession
  <2>2. CASE /\ nextSeq' = [nextSeq EXCEPT ![Thread(r)] = 1]
             /\ Answer(r, "persist", work[r])
    <3>1. TypeOK'
      BY <2>0, <2>1, <2>2, AnswerType DEF TypeOK, PCs
    <3>2. HandlerInv'
      BY <2>0, <2>1, <2>2, AnswerType, NoWorkType, HandlerStep DEF PCs
    <3> QED BY <3>1, <3>2
  <2>3. CASE Nak(r) /\ UNCHANGED <<nextSeq, faults>>
    <3>1. TypeOK'
      BY <2>0, <2>1, <2>3, NakType DEF TypeOK
    <3>2. HandlerInv'
      BY <2>0, <2>1, <2>3, NakType, NoWorkType, HandlerStep DEF PCs
    <3> QED BY <3>1, <3>2
  <2> QED BY <1>4, <2>2, <2>3 DEF InsertSession
<1>5. CASE IncrementSeq(r)
  <2>0. /\ work[r].event \in Events /\ nextSeq[Thread(r)] \in Nat
    BY <1>5, <1>t DEF IncrementSeq, TypeOK
  <2> DEFINE w == Holding(work[r].event, nextSeq[Thread(r)], 0, 0)
  <2>1. w \in Work /\ w.event \in Events
    BY <2>0, HoldingType
  <2>2. /\ pc' = [pc EXCEPT ![r] = "commit"] /\ work' = [work EXCEPT ![r] = w]
        /\ rowLock' = [rowLock EXCEPT ![Thread(r)] = r]
        /\ UNCHANGED <<consumer, nextSeq, ingress, tasks, created, faults>>
    BY <1>5 DEF IncrementSeq
  <2> HIDE DEF w
  <2>3. TypeOK'
    BY <2>1, <2>2 DEF TypeOK, PCs
  <2>4. HandlerInv'
    BY <2>1, <2>2, HandlerStep DEF PCs
  <2> QED BY <2>3, <2>4
<1>6. CASE CommitIngress(r)
  <2>0. /\ work[r].event \in Events /\ Thread(r) \in Threads
        /\ work[r].seq \in Nat /\ Len(ingress) + 1 \in Nat /\ 0 \in Nat
    BY <1>6, <1>t DEF CommitIngress, TypeOK, Work
  <2> DEFINE w == Holding(work[r].event, work[r].seq, Len(ingress) + 1, 0)
             row == [thread |-> Thread(r), seq |-> work[r].seq, event |-> work[r].event]
  <2>1. w \in Work /\ w.event \in Events
    BY <2>0, HoldingType
  <2>2. row \in IngressRow
    BY <2>0 DEF IngressRow
  <2>3. /\ nextSeq' = [nextSeq EXCEPT ![Thread(r)] = work[r].seq + 1]
        /\ ingress' = Append(ingress, row) /\ rowLock' = Unlocked(r)
        /\ Answer(r, "check", w) /\ UNCHANGED <<tasks, created>>
    BY <1>6 DEF CommitIngress
  <2> HIDE DEF w, row
  <2>4. nextSeq' \in [Threads -> Nat] /\ ingress' \in Seq(IngressRow)
    <3>1. nextSeq' \in [Threads -> Nat]
      BY <2>0, <2>3 DEF TypeOK
    <3>2. ingress \in Seq(IngressRow)
      BY DEF TypeOK
    <3>3. ingress' \in Seq(IngressRow)
      BY <2>2, <2>3, <3>2
    <3> QED BY <3>1, <3>3
  <2>5. TypeOK'
    BY <2>0, <2>1, <2>3, <2>4, AnswerType, UnlockedType DEF TypeOK, PCs
  <2>6. HandlerInv'
    BY <2>0, <2>1, <2>3, AnswerType, NoWorkType, HandlerStep DEF PCs
  <2> QED BY <2>5, <2>6
<1>7. CASE ShouldCreateTask(r)
  <2>1. PICK next \in {"create", "ack"} : pc' = [pc EXCEPT ![r] = next]
    BY <1>7 DEF ShouldCreateTask
  <2>2. UNCHANGED <<consumer, db, created, work, faults>> /\ work[r].event \in Events
    BY <1>7, <1>t DEF ShouldCreateTask
  <2>3. TypeOK'
    BY <2>1, <2>2 DEF TypeOK, db, PCs
  <2>4. HandlerInv'
    BY <2>1, <2>2 DEF HandlerInv, TypeOK, db
  <2> QED BY <2>3, <2>4
<1>8. CASE CreateTask(r)
  <2>0. /\ work[r].event \in Events /\ Thread(r) \in Threads
        /\ work[r].seq \in Nat /\ work[r].row \in Nat /\ Len(tasks) \in Nat
    BY <1>8, <1>t DEF CreateTask, TypeOK, Work
  <2> DEFINE w == Holding(work[r].event, work[r].seq, work[r].row, Len(tasks) + 1)
             t == TaskRecord(Thread(r), work[r].row, "new")
  <2>1. w \in Work /\ w.event \in Events /\ w.task = Len(tasks) + 1
    <3>1. work[r].event \in Events \cup {None} /\ Len(tasks) + 1 \in Nat
      BY <2>0
    <3> QED BY Z3, <2>0, <3>1, HoldingType
  <2>2. t \in Task
    BY <2>0 DEF Task, TaskRecord, TaskStatuses, ActiveStatuses
  <2>3. /\ tasks' = Append(tasks, t) /\ Answer(r, "publish", w)
        /\ UNCHANGED <<nextSeq, rowLock, ingress, created>>
    BY <1>8 DEF CreateTask
  <2> HIDE DEF w, t
  <2>4. /\ tasks' \in Seq(Task) /\ DOMAIN tasks \subseteq DOMAIN tasks'
        /\ Len(tasks) + 1 \in DOMAIN tasks'
    BY <2>0, <2>2, <2>3 DEF TypeOK
  <2>5. TypeOK'
    BY <2>0, <2>1, <2>3, <2>4, AnswerType DEF TypeOK, PCs
  <2>6. HandlerInv'
    BY <2>0, <2>1, <2>3, <2>4, AnswerType, NoWorkType, HandlerStep DEF PCs
  <2> QED BY <2>5, <2>6
<1>9. CASE PublishCreated(r)
  <2>0. /\ work[r].event \in Events /\ work[r] \in Work
        /\ work[r].task \in DOMAIN tasks
    BY <1>9, <1>t DEF PublishCreated, TypeOK, HandlerInv
  <2>1. /\ created' = Published(created, work[r].task) /\ Answer(r, "ack", work[r])
        /\ UNCHANGED db
    BY <1>9 DEF PublishCreated
  <2>2. created' \in [DOMAIN created \cup {work[r].task} -> Delivery]
    BY <2>1, PublishedType DEF TypeOK
  <2>3. DOMAIN created' = DOMAIN created \cup {work[r].task}
    BY <2>2
  <2>4. TypeOK'
    BY <2>0, <2>1, <2>2, <2>3, AnswerType DEF TypeOK, db, PCs
  <2>5. HandlerInv'
    BY <2>0, <2>1, AnswerType, NoWorkType, HandlerStep DEF db, PCs
  <2> QED BY <2>4, <2>5
<1>10. CASE AckMessage(r)
  <2>1. /\ consumer' = Acked(consumer, work[r].event) /\ work[r].event \in Events
        /\ pc' = [pc EXCEPT ![r] = "idle"] /\ work' = [work EXCEPT ![r] = NoWork]
        /\ UNCHANGED <<db, created, faults>>
    BY <1>10, <1>t DEF AckMessage, Leave
  <2>2. consumer' \in [Events -> Delivery]
    BY <2>1, ConsumerTypes DEF TypeOK
  <2>3. TypeOK'
    BY <2>1, <2>2, NoWorkType DEF TypeOK, db, PCs
  <2>4. HandlerInv'
    BY <2>1, NoWorkType, HandlerStep DEF db, PCs
  <2> QED BY <2>3, <2>4
<1> QED BY <1>1, <1>2, <1>3, <1>4, <1>5, <1>6, <1>7, <1>8, <1>9, <1>10 DEF Handle

\* So does every failure.
LEMMA FailureTInv ==
  ASSUME TInv,
         NEW r \in Replicas, StoreError(r) \/ AckLost(r) \/ Crash(r) \/ Restart(r)
  PROVE  TInv'
<1> USE DEF TInv
<1>t. pc[r] \notin {"down", "idle"} => work[r].event \in Events
  BY ThreadType
<1>1. CASE StoreError(r)
  <2>1. /\ work[r].event \in Events /\ Nak(r) /\ Fault /\ rowLock' = Unlocked(r)
        /\ UNCHANGED <<nextSeq, ingress, tasks, created>>
    BY <1>1, <1>t DEF StoreError
  <2>2. TypeOK'
    BY <2>1, NakType, UnlockedType DEF TypeOK, Fault
  <2>3. HandlerInv'
    BY <2>1, NakType, NoWorkType, HandlerStep DEF PCs
  <2> QED BY <2>2, <2>3
<1>2. CASE AckLost(r)
  <2>1. /\ Fault /\ UNCHANGED <<consumer, db, created>>
        /\ pc' = [pc EXCEPT ![r] = "idle"] /\ work' = [work EXCEPT ![r] = NoWork]
    BY <1>2 DEF AckLost, Leave
  <2>2. TypeOK'
    BY <2>1, NoWorkType DEF TypeOK, Fault, db, PCs
  <2>3. HandlerInv'
    BY <2>1, NoWorkType, HandlerStep DEF db, PCs
  <2> QED BY <2>2, <2>3
<1>3. CASE Crash(r)
  <2>1. /\ Fault /\ UNCHANGED <<consumer, nextSeq, ingress, tasks, created>>
        /\ pc' = [pc EXCEPT ![r] = "down"] /\ work' = [work EXCEPT ![r] = NoWork]
        /\ rowLock' = Unlocked(r)
    BY <1>3 DEF Crash
  <2>2. TypeOK'
    BY <2>1, NoWorkType, UnlockedType DEF TypeOK, Fault, PCs
  <2>3. HandlerInv'
    BY <2>1, NoWorkType, HandlerStep DEF PCs
  <2> QED BY <2>2, <2>3
<1>4. CASE Restart(r)
  <2>1. /\ UNCHANGED <<consumer, db, created, work, faults>>
        /\ pc' = [pc EXCEPT ![r] = "idle"]
    BY <1>4 DEF Restart
  <2>2. TypeOK'
    BY <2>1 DEF TypeOK, db, PCs
  <2>3. HandlerInv'
    BY <2>1 DEF HandlerInv, TypeOK, db
  <2> QED BY <2>2, <2>3
<1> QED BY <1>1, <1>2, <1>3, <1>4

\* And every step of the server and of the task-dispatcher, which leave the
\* handlers alone.
LEMMA EnvironmentTInv ==
  ASSUME TInv,
         \/ \E e \in Events : AckWaitExpires(e) \/ HandlerTooSlow(e)
         \/ ConsumerDropped
         \/ \E k \in DOMAIN tasks : DispatcherUpdates(k)
  PROVE  TInv'
<1> USE DEF TInv
<1>1. ASSUME NEW e \in Events, AckWaitExpires(e) \/ HandlerTooSlow(e) PROVE TInv'
  <2>1. /\ consumer' = Returned(consumer, e) /\ UNCHANGED <<db, created, pc, work>>
        /\ UNCHANGED faults \/ Fault
    BY <1>1 DEF AckWaitExpires, HandlerTooSlow
  <2>2. consumer' \in [Events -> Delivery]
    BY <2>1, ConsumerTypes DEF TypeOK
  <2> QED BY <2>1, <2>2 DEF TypeOK, HandlerInv, Fault, db
<1>2. CASE ConsumerDropped
  <2>1. consumer' \in [Events -> Delivery]
    BY <1>2 DEF ConsumerDropped, Stored, Delivery, DeliveryStates
  <2> QED BY <1>2, <2>1 DEF ConsumerDropped, TypeOK, HandlerInv, Fault, db
<1>3. ASSUME NEW k \in DOMAIN tasks, DispatcherUpdates(k) PROVE TInv'
  <2>1. PICK st \in {"dispatched", "rejected", "failed"} :
          tasks' = [tasks EXCEPT ![k] = TaskRecord(@.thread, @.row, st)]
    BY <1>3 DEF DispatcherUpdates
  <2>2. UNCHANGED <<consumer, nextSeq, rowLock, ingress, created, pc, work, faults>>
    BY <1>3 DEF DispatcherUpdates
  <2>3. tasks[k] \in Task
    BY DEF TypeOK
  <2>4. TaskRecord(tasks[k].thread, tasks[k].row, st) \in Task
    BY <2>3 DEF Task, TaskRecord, TaskStatuses
  <2>5. tasks' \in Seq(Task) /\ DOMAIN tasks' = DOMAIN tasks
    BY <2>1, <2>4 DEF TypeOK
  <2>6. TypeOK'
    BY <2>2, <2>5 DEF TypeOK
  <2>7. HandlerInv'
    BY <2>2, <2>5 DEF HandlerInv
  <2> QED BY <2>6, <2>7
<1> QED BY <1>1, <1>2, <1>3

\* The type invariant is inductive.
LEMMA NextTInv == TInv /\ [Next]_vars => TInv'
<1> SUFFICES ASSUME TInv, [Next]_vars PROVE TInv'
  OBVIOUS
<1>1. CASE UNCHANGED vars
  BY <1>1 DEF vars, TInv, TypeOK, HandlerInv
<1>2. CASE Next
  BY <1>2, HandleTInv, FailureTInv, EnvironmentTInv DEF Next, Scheduler
<1> QED BY <1>1, <1>2

\* Every variable stays within its type; in particular a handler announces only
\* tasks that are in the table, however it was interrupted before.
THEOREM TypeCorrect == Spec => []TypeOK
<1>1. Spec => []TInv
  BY InitTInv, NextTInv, PTL DEF Spec
<1> QED BY <1>1, PTL DEF TInv

-----------------------------------------------------------------------------
(* The numbering of ingress messages.  What makes it work is the row lock:   *)
(* between UPDATE ... RETURNING and the commit nobody else can number an     *)
(* event of the thread.                                                      *)

LockInv ==
  \A r \in Replicas :
    /\ pc[r] = "commit" => /\ rowLock[Thread(r)] = r
                           /\ work[r].seq = nextSeq[Thread(r)]
    /\ pc[r] \in {"persist", "commit"} => nextSeq[Thread(r)] >= 1

SInv == LockInv /\ SeqContiguous

\* What the type invariant says of one row of ingress_messages.
LEMMA IngressRows ==
  ASSUME TypeOK, NEW i \in DOMAIN ingress
  PROVE  /\ ingress[i].thread \in Threads
         /\ ingress[i].seq \in Nat
         /\ ingress[i].event \in Events
<1>1. ingress[i] \in IngressRow
  BY DEF TypeOK
<1> QED BY <1>1 DEF IngressRow

\* Initially no session has a row.
LEMMA InitSInv == Init => SInv
BY DEF Init, SInv, LockInv, SeqContiguous

\* A step that takes no part in the numbering: handler r moves to a place
\* outside PersistIngress, and at most r's own lock is given back.
LEMMA OutsideStep ==
  ASSUME TInv, SInv, NEW r \in Replicas, NEW next, NEW w,
         next \notin {"persist", "commit"},
         pc' = [pc EXCEPT ![r] = next],
         work' = [work EXCEPT ![r] = w],
         rowLock' = rowLock \/ rowLock' = Unlocked(r),
         UNCHANGED <<nextSeq, ingress>>
  PROVE  SInv'
<1>1. ASSUME NEW q \in Replicas, pc'[q] \in {"persist", "commit"}
      PROVE  q # r /\ pc[q] = pc'[q] /\ work'[q] = work[q] /\ Thread(q) \in Threads
  BY <1>1, ThreadType DEF TInv, TypeOK, Thread
<1>2. LockInv'
  BY <1>1 DEF SInv, LockInv, Thread, Unlocked
<1>3. SeqContiguous'
  BY DEF SInv, SeqContiguous
<1> QED BY <1>2, <1>3 DEF SInv

\* ResolveSession: the session exists, with its next number at least 1, before
\* the handler goes on to PersistIngress.
LEMMA SelectSInv ==
  ASSUME TInv, SInv, NEW r \in Replicas, SelectSession(r)
  PROVE  SInv'
<1>1. /\ UNCHANGED <<nextSeq, rowLock, ingress, work>> /\ Thread(r) \in Threads
  BY ThreadType DEF SelectSession, db
<1>2. CASE nextSeq[Thread(r)] = 0
  <2>1. pc' = [pc EXCEPT ![r] = "insert"] /\ work' = [work EXCEPT ![r] = work[r]]
    BY <1>1, <1>2 DEF SelectSession, TInv, TypeOK
  <2> QED BY <1>1, <2>1, OutsideStep
<1>3. CASE nextSeq[Thread(r)] # 0
  <2>1. pc' = [pc EXCEPT ![r] = "persist"]
    BY <1>3 DEF SelectSession
  <2>2. nextSeq[Thread(r)] >= 1
    BY <1>1, <1>3 DEF TInv, TypeOK
  <2>3. LockInv'
    BY <1>1, <2>1, <2>2 DEF SInv, LockInv, Thread, TInv, TypeOK
  <2>4. SeqContiguous'
    BY <1>1 DEF SInv, SeqContiguous
  <2> QED BY <2>3, <2>4 DEF SInv
<1> QED BY <1>2, <1>3

\* ResolveSession, INSERT: a session starts with number 1 and no message, and no
\* handler of its thread has got as far as PersistIngress.
LEMMA InsertSInv ==
  ASSUME TInv, SInv, NEW r \in Replicas, InsertSession(r)
  PROVE  SInv'
<1>1. /\ work[r].event \in Events /\ Thread(r) \in Threads /\ work[r] \in Work
      /\ UNCHANGED <<rowLock, ingress, tasks, created>>
  BY ThreadType DEF InsertSession, TInv, TypeOK
<1>2. CASE Nak(r) /\ UNCHANGED <<nextSeq, faults>>
  BY <1>1, <1>2, NakType, OutsideStep
<1>3. CASE /\ nextSeq[Thread(r)] = 0
           /\ nextSeq' = [nextSeq EXCEPT ![Thread(r)] = 1]
           /\ Answer(r, "persist", work[r])
  <2>1. \/ /\ pc' = [pc EXCEPT ![r] = "persist"]
           /\ work' = [work EXCEPT ![r] = work[r]]
        \/ /\ pc' = [pc EXCEPT ![r] = "idle"]
           /\ work' = [work EXCEPT ![r] = NoWork]
    BY <1>1, <1>3, AnswerType DEF PCs
  <2>2. ASSUME NEW q \in Replicas, q # r, pc[q] \in {"persist", "commit"}
        PROVE  /\ Thread(q) \in Threads /\ Thread(q) # Thread(r)
               /\ nextSeq'[Thread(q)] = nextSeq[Thread(q)]
    <3>1. Thread(q) \in Threads
      BY <2>2, ThreadType
    <3>2. nextSeq[Thread(q)] >= 1
      BY <2>2 DEF SInv, LockInv
    <3>3. Thread(q) # Thread(r)
      BY <1>3, <3>2
    <3> QED BY <1>3, <3>1, <3>3 DEF TInv, TypeOK
  <2>3. LockInv'
    <3> SUFFICES ASSUME NEW q \in Replicas
                 PROVE  /\ pc'[q] = "commit" => /\ rowLock'[Thread(q)'] = q
                                                /\ work'[q].seq = nextSeq'[Thread(q)']
                        /\ pc'[q] \in {"persist", "commit"} => nextSeq'[Thread(q)'] >= 1
      BY DEF LockInv
    <3>1. CASE q = r
      BY <1>1, <1>3, <2>1, <3>1 DEF Thread, TInv, TypeOK
    <3>2. CASE q # r
      <4>1. pc'[q] = pc[q] /\ work'[q] = work[q] /\ Thread(q)' = Thread(q)
        BY <2>1, <3>2 DEF Thread, TInv, TypeOK
      <4> QED BY <1>1, <2>2, <3>2, <4>1 DEF SInv, LockInv
    <3> QED BY <3>1, <3>2
  <2>4. SeqContiguous'
    <3>1. \A i \in DOMAIN ingress : ingress[i].thread # Thread(r)
      BY <1>3, IngressRows DEF SInv, SeqContiguous, TInv
    <3>2. \A i \in DOMAIN ingress : ingress[i].thread \in Threads
      BY IngressRows DEF TInv
    <3>3. \A t \in Threads : t # Thread(r) => nextSeq'[t] = nextSeq[t]
      BY <1>3 DEF TInv, TypeOK
    <3>4. nextSeq'[Thread(r)] = 1
      BY <1>1, <1>3 DEF TInv, TypeOK
    <3> QED BY <1>1, <3>1, <3>2, <3>3, <3>4 DEF SInv, SeqContiguous
  <2> QED BY <2>3, <2>4 DEF SInv
<1> QED BY <1>2, <1>3 DEF InsertSession

\* UPDATE ... RETURNING: the number the handler holds is the next one of the
\* session, and the row lock is now its own.
LEMMA IncrementSInv ==
  ASSUME TInv, SInv, NEW r \in Replicas, IncrementSeq(r)
  PROVE  SInv'
<1> DEFINE w == Holding(work[r].event, nextSeq[Thread(r)], 0, 0)
<1>1. /\ work[r].event \in Events /\ Thread(r) \in Threads
      /\ nextSeq[Thread(r)] \in Nat /\ 0 \in Nat /\ nextSeq[Thread(r)] >= 1
  BY ThreadType DEF IncrementSeq, TInv, TypeOK, SInv, LockInv
<1>2. w.event = work[r].event /\ w.seq = nextSeq[Thread(r)]
  BY <1>1, HoldingType
<1>3. /\ rowLock[Thread(r)] = None /\ rowLock' = [rowLock EXCEPT ![Thread(r)] = r]
      /\ pc' = [pc EXCEPT ![r] = "commit"] /\ work' = [work EXCEPT ![r] = w]
      /\ UNCHANGED <<nextSeq, ingress>>
  BY DEF IncrementSeq
<1> HIDE DEF w
<1>4. LockInv'
  <2> SUFFICES ASSUME NEW q \in Replicas
               PROVE  /\ pc'[q] = "commit" => /\ rowLock'[Thread(q)'] = q
                                              /\ work'[q].seq = nextSeq'[Thread(q)']
                      /\ pc'[q] \in {"persist", "commit"} => nextSeq'[Thread(q)'] >= 1
    BY DEF LockInv
  <2>1. CASE q = r
    BY <1>1, <1>2, <1>3, <2>1 DEF Thread, TInv, TypeOK
  <2>2. CASE q # r
    <3>1. pc'[q] = pc[q] /\ work'[q] = work[q] /\ Thread(q)' = Thread(q)
      BY <1>3, <2>2 DEF Thread, TInv, TypeOK
    <3>2. pc[q] = "commit" => Thread(q) \in Threads /\ Thread(q) # Thread(r)
      BY <1>3, ThreadType, ConstantsAssumption DEF SInv, LockInv
    <3> QED BY <1>3, <3>1, <3>2 DEF SInv, LockInv, TInv, TypeOK
  <2> QED BY <2>1, <2>2
<1>5. SeqContiguous'
  BY <1>3 DEF SInv, SeqContiguous
<1> QED BY <1>4, <1>5 DEF SInv

\* The commit: the message takes the next number, and the counter moves past it.
LEMMA CommitSInv ==
  ASSUME TInv, SInv, NEW r \in Replicas, CommitIngress(r)
  PROVE  SInv'
<1> DEFINE w == Holding(work[r].event, work[r].seq, Len(ingress) + 1, 0)
           row == [thread |-> Thread(r), seq |-> work[r].seq, event |-> work[r].event]
<1>1. /\ work[r].event \in Events /\ Thread(r) \in Threads
      /\ work[r].seq \in Nat /\ Len(ingress) + 1 \in Nat /\ 0 \in Nat
      /\ rowLock[Thread(r)] = r
      /\ nextSeq[Thread(r)] \in Nat \ {0} /\ work[r].seq = nextSeq[Thread(r)]
  <2>1. pc[r] = "commit" /\ work[r].event \in Events /\ Thread(r) \in Threads
    BY ThreadType DEF CommitIngress
  <2>2. work[r] \in Work /\ nextSeq[Thread(r)] \in Nat /\ Len(ingress) \in Nat
    BY <2>1 DEF TInv, TypeOK
  <2>3. /\ rowLock[Thread(r)] = r /\ nextSeq[Thread(r)] >= 1
        /\ work[r].seq = nextSeq[Thread(r)]
    BY <2>1 DEF SInv, LockInv
  <2> QED BY <2>1, <2>2, <2>3
<1>2. w \in Work
  BY <1>1, HoldingType
<1>3. /\ nextSeq' = [nextSeq EXCEPT ![Thread(r)] = nextSeq[Thread(r)] + 1]
      /\ ingress' = Append(ingress, row) /\ rowLock' = Unlocked(r)
      /\ Answer(r, "check", w)
  BY <1>1 DEF CommitIngress
<1>4. row.thread = Thread(r) /\ row.seq = nextSeq[Thread(r)]
  BY <1>1
<1> HIDE DEF w, row
<1>5. PICK next \in {"check", "idle"}, v \in Work :
        pc' = [pc EXCEPT ![r] = next] /\ work' = [work EXCEPT ![r] = v]
  BY <1>1, <1>2, <1>3, AnswerType, NoWorkType DEF PCs
<1>6. LockInv'
  <2> SUFFICES ASSUME NEW q \in Replicas, pc'[q] \in {"persist", "commit"}
               PROVE  /\ pc'[q] = "commit" => /\ rowLock'[Thread(q)'] = q
                                              /\ work'[q].seq = nextSeq'[Thread(q)']
                      /\ nextSeq'[Thread(q)'] >= 1
    BY DEF LockInv
  <2>1. /\ q # r /\ pc[q] = pc'[q] /\ work'[q] = work[q] /\ Thread(q)' = Thread(q)
    BY <1>5 DEF Thread, TInv, TypeOK
  <2>2. Thread(q) \in Threads
    BY <2>1, ThreadType
  <2>3. nextSeq[Thread(q)] >= 1 /\ nextSeq[Thread(q)] \in Nat
    BY <2>1, <2>2 DEF SInv, LockInv, TInv, TypeOK
  <2>4. nextSeq'[Thread(q)] >= 1
    BY <1>1, <1>3, <2>2, <2>3 DEF TInv, TypeOK
  <2>5. CASE pc'[q] = "commit"
    <3>1. rowLock[Thread(q)] = q /\ work[q].seq = nextSeq[Thread(q)]
      BY <2>1, <2>5 DEF SInv, LockInv
    <3>2. Thread(q) # Thread(r)
      BY <1>1, <2>1, <3>1
    <3>3. rowLock'[Thread(q)] = q /\ nextSeq'[Thread(q)] = nextSeq[Thread(q)]
      BY <1>3, <2>1, <2>2, <3>1, <3>2 DEF Unlocked, TInv, TypeOK
    <3> QED BY <2>1, <2>4, <3>1, <3>3
  <2> QED BY <2>1, <2>4, <2>5
<1>7. SeqContiguous'
  <2> DEFINE n == Len(ingress)
  <2>1. /\ n \in Nat /\ DOMAIN ingress = 1 .. n /\ DOMAIN ingress' = 1 .. (n + 1)
        /\ \A i \in 1 .. n : ingress'[i] = ingress[i]
        /\ ingress'[n + 1] = row
    BY <1>3 DEF TInv, TypeOK
  <2>2. \A i \in 1 .. n : /\ ingress[i].thread \in Threads /\ ingress[i].seq \in Nat
                          /\ 1 <= ingress[i].seq
                          /\ ingress[i].seq < nextSeq[ingress[i].thread]
    BY <2>1, IngressRows DEF SInv, SeqContiguous, TInv
  <2>3. /\ nextSeq'[Thread(r)] = nextSeq[Thread(r)] + 1
        /\ \A t \in Threads : t # Thread(r) => nextSeq'[t] = nextSeq[t]
        /\ \A t \in Threads : nextSeq[t] \in Nat
    BY <1>1, <1>3 DEF TInv, TypeOK
  <2> HIDE DEF n
  <2>4. ASSUME NEW i \in 1 .. (n + 1), NEW j \in 1 .. (n + 1), i < j,
               ingress'[i].thread = ingress'[j].thread
        PROVE  ingress'[i].seq < ingress'[j].seq
    <3>1. i \in 1 .. n /\ ingress'[i] = ingress[i]
      BY <2>1, <2>4
    <3>2. CASE j \in 1 .. n
      BY <2>1, <2>4, <3>1, <3>2 DEF SInv, SeqContiguous
    <3>3. CASE j = n + 1
      BY <1>4, <2>1, <2>2, <2>4, <3>1, <3>3
    <3> QED BY <2>1, <3>2, <3>3
  <2>5. ASSUME NEW i \in 1 .. (n + 1)
        PROVE  1 <= ingress'[i].seq /\ ingress'[i].seq < nextSeq'[ingress'[i].thread]
    <3>1. CASE i \in 1 .. n
      <4> DEFINE t == ingress[i].thread
                 s == ingress[i].seq
      <4>1. t \in Threads /\ s \in Nat /\ 1 <= s /\ s < nextSeq[t]
        BY <2>2, <3>1
      <4>2. ingress'[i] = ingress[i]
        BY <2>1, <3>1
      <4> HIDE DEF t, s
      <4>3. nextSeq[t] \in Nat /\ (nextSeq'[t] = nextSeq[t] \/ nextSeq'[t] = nextSeq[t] + 1)
        BY <2>3, <4>1
      <4>4. 1 <= s /\ s < nextSeq'[t]
        BY <4>1, <4>3
      <4>5. ingress'[i].seq = s /\ ingress'[i].thread = t
        BY <4>2 DEF t, s
      <4> QED BY <4>4, <4>5
    <3>2. CASE i = n + 1
      BY <1>1, <1>4, <2>1, <2>3, <3>2
    <3>3. n \in Nat
      BY <2>1
    <3>4. i \in 1 .. n \/ i = n + 1
      BY <3>3
    <3> QED BY <3>1, <3>2, <3>4
  <2>6. ASSUME NEW t \in Threads, NEW m \in 1 .. (nextSeq'[t] - 1)
        PROVE  \E i \in 1 .. (n + 1) : ingress'[i].thread = t /\ ingress'[i].seq = m
    <3>1. CASE m \in 1 .. (nextSeq[t] - 1)
      <4>1. PICK i \in 1 .. n : ingress[i].thread = t /\ ingress[i].seq = m
        BY <2>1, <3>1 DEF SInv, SeqContiguous
      <4> QED BY <2>1, <4>1
    <3>2. CASE m \notin 1 .. (nextSeq[t] - 1)
      <4>1. t = Thread(r) /\ m = nextSeq[t]
        BY <1>1, <2>3, <2>6, <3>2
      <4> QED BY <1>4, <2>1, <4>1
    <3> QED BY <3>1, <3>2
  <2> QED BY <2>1, <2>4, <2>5, <2>6 DEF SeqContiguous
<1> QED BY <1>6, <1>7 DEF SInv

\* Every other step keeps out of the numbering.
LEMMA OtherSInv ==
  ASSUME TInv, SInv, NEW r \in Replicas,
         \/ Deliver(r) \/ TermMalformed(r) \/ ShouldCreateTask(r) \/ CreateTask(r)
         \/ PublishCreated(r) \/ AckMessage(r)
         \/ StoreError(r) \/ AckLost(r) \/ Crash(r) \/ Restart(r)
  PROVE  SInv'
<1>t. /\ pc[r] \notin {"down", "idle"} => work[r].event \in Events
      /\ work = [work EXCEPT ![r] = work[r]] /\ work[r] \in Work
  BY ThreadType DEF TInv, TypeOK
<1>1. CASE Deliver(r)
  BY <1>1, OutsideStep DEF Deliver, db
<1>2. CASE TermMalformed(r) \/ AckMessage(r) \/ AckLost(r)
  BY <1>2, OutsideStep DEF TermMalformed, AckMessage, AckLost, Leave, db
<1>3. CASE ShouldCreateTask(r)
  <2>1. PICK next \in {"create", "ack"} : pc' = [pc EXCEPT ![r] = next]
    BY <1>3 DEF ShouldCreateTask
  <2>2. UNCHANGED <<nextSeq, rowLock, ingress, work>>
    BY <1>3 DEF ShouldCreateTask, db
  <2> QED BY <1>t, <2>1, <2>2, OutsideStep
<1>4. CASE CreateTask(r)
  <2> DEFINE w == Holding(work[r].event, work[r].seq, work[r].row, Len(tasks) + 1)
  <2>1. /\ UNCHANGED <<nextSeq, rowLock, ingress>> /\ Answer(r, "publish", w)
        /\ work[r].event \in Events /\ work[r].seq \in Nat /\ work[r].row \in Nat
        /\ Len(tasks) + 1 \in Nat
    BY <1>4, <1>t DEF CreateTask, Work, TInv, TypeOK
  <2>2. w \in Work
    BY <2>1, HoldingType
  <2> HIDE DEF w
  <2> QED BY SMTT(20), <2>1, <2>2, AnswerType, OutsideStep DEF PCs
<1>5. CASE PublishCreated(r)
  <2>1. /\ UNCHANGED <<nextSeq, rowLock, ingress>> /\ Answer(r, "ack", work[r])
        /\ work[r].event \in Events
    BY <1>5, <1>t DEF PublishCreated, db
  <2> QED BY SMTT(20), <1>t, <2>1, AnswerType, OutsideStep DEF PCs
<1>6. CASE StoreError(r)
  BY <1>6, <1>t, NakType, OutsideStep DEF StoreError
<1>7. CASE Crash(r)
  BY <1>7, OutsideStep DEF Crash
<1>8. CASE Restart(r)
  BY <1>8, <1>t, OutsideStep DEF Restart, db
<1> QED BY <1>1, <1>2, <1>3, <1>4, <1>5, <1>6, <1>7, <1>8

\* The numbering is inductive, together with the row lock.
LEMMA NextSInv == TInv /\ SInv /\ [Next]_vars => SInv'
<1> SUFFICES ASSUME TInv, SInv, [Next]_vars PROVE SInv'
  OBVIOUS
<1>1. CASE UNCHANGED <<nextSeq, rowLock, ingress, pc, work>>
  BY <1>1 DEF SInv, LockInv, SeqContiguous, Thread
<1>2. ASSUME NEW r \in Replicas,
             Handle(r) \/ StoreError(r) \/ AckLost(r) \/ Crash(r) \/ Restart(r)
      PROVE  SInv'
  BY <1>2, SelectSInv, InsertSInv, IncrementSInv, CommitSInv, OtherSInv DEF Handle
<1>3. CASE (\E e \in Events : AckWaitExpires(e) \/ HandlerTooSlow(e)) \/ ConsumerDropped
  BY <1>1, <1>3 DEF AckWaitExpires, HandlerTooSlow, ConsumerDropped, db
<1>4. CASE \E k \in DOMAIN tasks : DispatcherUpdates(k)
  BY <1>1, <1>4 DEF DispatcherUpdates
<1>5. CASE UNCHANGED vars
  BY <1>1, <1>5 DEF vars
<1> QED BY <1>2, <1>3, <1>4, <1>5 DEF Next, Scheduler

\* The ingress messages of every session are numbered 1, 2, 3, ... without gap or
\* repetition, with any number of replicas and whatever fails (PersistIngress).
THEOREM SequenceNumbersCorrect == Spec => []SeqContiguous
<1>1. Init => TInv /\ SInv
  BY InitTInv, InitSInv
<1>2. TInv /\ SInv /\ [Next]_vars => (TInv /\ SInv)'
  BY NextTInv, NextSInv
<1>3. Spec => [](TInv /\ SInv)
  BY <1>1, <1>2, PTL DEF Spec
<1> QED BY <1>3, PTL DEF SInv

-----------------------------------------------------------------------------
(* How many active tasks a session can have.  ShouldCreateTask and           *)
(* CreateTask are separate statements, so what is bounded is the number of   *)
(* active tasks together with the replicas that have found none and have not *)
(* created theirs yet.                                                       *)

Creating(t) == {r \in Replicas : pc[r] = "create" /\ Thread(r) = t}

CreateInv ==
  \A t \in Threads :
    Cardinality(ActiveTasks(t)) + Cardinality(Creating(t)) <= Cardinality(Replicas)

\* The sets that are counted are finite.
LEMMA FiniteActive ==
  ASSUME TypeOK, NEW t
  PROVE  /\ IsFiniteSet(ActiveTasks(t)) /\ Cardinality(ActiveTasks(t)) \in Nat
         /\ IsFiniteSet(Creating(t)) /\ Cardinality(Creating(t)) \in Nat
         /\ Cardinality(Creating(t)) <= Cardinality(Replicas)
         /\ Cardinality(Replicas) \in Nat
<1>1. DOMAIN tasks = 1 .. Len(tasks) /\ Len(tasks) \in Nat
  BY DEF TypeOK
<1>2. IsFiniteSet(1 .. Len(tasks))
  BY <1>1, FS_Interval
<1>3. IsFiniteSet(ActiveTasks(t))
  BY <1>1, <1>2, FS_Subset DEF ActiveTasks
<1>4. IsFiniteSet(Creating(t)) /\ Cardinality(Creating(t)) <= Cardinality(Replicas)
  BY ConstantsAssumption, FS_Subset DEF Creating
<1> QED BY <1>3, <1>4, ConstantsAssumption, FS_CardinalityType

\* Initially there is no task and no handler about to create one.
LEMMA InitCreateInv == Init => CreateInv
<1> SUFFICES ASSUME Init PROVE CreateInv
  OBVIOUS
<1>1. \A t \in Threads : ActiveTasks(t) = {} /\ Creating(t) = {}
  BY DEF Init, ActiveTasks, Creating
<1>2. Cardinality(Replicas) \in Nat
  BY ConstantsAssumption, FS_CardinalityType
<1> QED BY <1>1, <1>2, FS_EmptySet DEF CreateInv

\* A step that neither creates a task nor decides to.
LEMMA NoNewTask ==
  ASSUME TypeOK, CreateInv,
         \A t \in Threads : /\ ActiveTasks(t)' \subseteq ActiveTasks(t)
                            /\ Creating(t)' \subseteq Creating(t)
  PROVE  CreateInv'
<1> SUFFICES ASSUME NEW t \in Threads
             PROVE  Cardinality(ActiveTasks(t)') + Cardinality(Creating(t)')
                      <= Cardinality(Replicas)
  BY DEF CreateInv
<1>1. /\ Cardinality(ActiveTasks(t)') <= Cardinality(ActiveTasks(t))
      /\ Cardinality(ActiveTasks(t)') \in Nat
  BY FiniteActive, FS_Subset, FS_CardinalityType
<1>2. /\ Cardinality(Creating(t)') <= Cardinality(Creating(t))
      /\ Cardinality(Creating(t)') \in Nat
  BY FiniteActive, FS_Subset, FS_CardinalityType
<1> QED BY <1>1, <1>2, FiniteActive DEF CreateInv

\* Such a step, of handler r.
LEMMA HandlerNoNewTask ==
  ASSUME TypeOK, CreateInv, NEW r \in Replicas, NEW next, next # "create", NEW w,
         pc' = [pc EXCEPT ![r] = next], work' = [work EXCEPT ![r] = w],
         UNCHANGED tasks
  PROVE  CreateInv'
<1>1. \A t \in Threads : ActiveTasks(t)' \subseteq ActiveTasks(t)
  BY DEF ActiveTasks
<1>2. \A t \in Threads : Creating(t)' \subseteq Creating(t)
  BY DEF Creating, Thread, TypeOK
<1> QED BY <1>1, <1>2, NoNewTask

\* A nak is such a step.
LEMMA NakNoNewTask ==
  ASSUME TInv, CreateInv, NEW r \in Replicas, work[r].event \in Events, Nak(r),
         UNCHANGED tasks
  PROVE  CreateInv'
<1>1. pc' = [pc EXCEPT ![r] = "idle"] /\ work' = [work EXCEPT ![r] = NoWork]
  BY NakType
<1> QED BY <1>1, HandlerNoNewTask DEF TInv

\* A call that leads anywhere but to CreateTask starts no task.
LEMMA AnswerNoNewTask ==
  ASSUME TInv, CreateInv, NEW r \in Replicas, work[r].event \in Events,
         NEW next \in PCs, next # "create", NEW w \in Work, Answer(r, next, w),
         UNCHANGED tasks
  PROVE  CreateInv'
<1>1. CASE Nak(r)
  BY <1>1, NakNoNewTask
<1>2. CASE pc' = [pc EXCEPT ![r] = next] /\ work' = [work EXCEPT ![r] = w]
  BY <1>2, HandlerNoNewTask DEF TInv
<1> QED BY <1>1, <1>2 DEF Answer

\* ShouldCreateTask: a handler that is about to create a task has found none
\* active, so there are only handlers to count.
LEMMA ShouldCreateInv ==
  ASSUME TInv, CreateInv, NEW r \in Replicas, ShouldCreateTask(r)
  PROVE  CreateInv'
<1>1. UNCHANGED <<work, tasks>>
  BY DEF ShouldCreateTask, db
<1>2. CASE ActiveTasks(Thread(r)) # {}
  <2>1. pc' = [pc EXCEPT ![r] = "ack"] /\ work' = [work EXCEPT ![r] = work[r]]
    BY <1>1, <1>2 DEF ShouldCreateTask, TInv, TypeOK
  <2> QED BY <1>1, <2>1, HandlerNoNewTask DEF TInv
<1>3. CASE ActiveTasks(Thread(r)) = {}
  <2>1. pc' = [pc EXCEPT ![r] = "create"]
    BY <1>3 DEF ShouldCreateTask
  <2> SUFFICES ASSUME NEW t \in Threads
               PROVE  Cardinality(ActiveTasks(t)') + Cardinality(Creating(t)')
                        <= Cardinality(Replicas)
    BY DEF CreateInv
  <2>2. ActiveTasks(t)' = ActiveTasks(t)
    BY <1>1 DEF ActiveTasks
  <2>3. CASE t = Thread(r)
    <3>1. Creating(t)' \subseteq Replicas
      BY DEF Creating
    <3>2. Cardinality(Creating(t)') \in Nat /\ Cardinality(Creating(t)') <= Cardinality(Replicas)
      BY <3>1, ConstantsAssumption, FS_Subset, FS_CardinalityType
    <3> QED BY <1>3, <2>2, <2>3, <3>2, FS_EmptySet
  <2>4. CASE t # Thread(r)
    <3>1. Creating(t)' = Creating(t)
      BY <1>1, <2>1, <2>4 DEF Creating, Thread, TInv, TypeOK, ShouldCreateTask
    <3> QED BY <2>2, <3>1 DEF CreateInv
  <2> QED BY <2>3, <2>4
<1> QED BY <1>2, <1>3

\* CreateTask: one active task more, one handler about to create one less.
LEMMA CreateTaskInv ==
  ASSUME TInv, CreateInv, NEW r \in Replicas, CreateTask(r)
  PROVE  CreateInv'
<1> DEFINE w == Holding(work[r].event, work[r].seq, work[r].row, Len(tasks) + 1)
           k == Len(tasks) + 1
<1>1. /\ work[r].event \in Events /\ Thread(r) \in Threads /\ pc[r] = "create"
      /\ work[r].seq \in Nat /\ work[r].row \in Nat /\ Len(tasks) \in Nat /\ k \in Nat
  BY SMTT(20), ThreadType DEF CreateTask, TInv, TypeOK, Work
<1>2. w \in Work
  BY <1>1, HoldingType
<1>3. /\ tasks' = Append(tasks, TaskRecord(Thread(r), work[r].row, "new"))
      /\ Answer(r, "publish", w)
  BY DEF CreateTask
<1> HIDE DEF w
<1>4. PICK next \in {"publish", "idle"}, v \in Work :
        pc' = [pc EXCEPT ![r] = next] /\ work' = [work EXCEPT ![r] = v]
  BY <1>1, <1>2, <1>3, AnswerType, NoWorkType DEF PCs
<1>5. /\ DOMAIN tasks = 1 .. Len(tasks) /\ DOMAIN tasks' = 1 .. k
      /\ \A i \in DOMAIN tasks : tasks'[i] = tasks[i]
      /\ tasks'[k].thread = Thread(r)
  BY <1>1, <1>3 DEF TaskRecord, TInv, TypeOK
<1> SUFFICES ASSUME NEW t \in Threads
             PROVE  Cardinality(ActiveTasks(t)') + Cardinality(Creating(t)')
                      <= Cardinality(Replicas)
  BY DEF CreateInv
<1>6. CASE t = Thread(r)
  <2>1. ActiveTasks(t)' \subseteq ActiveTasks(t) \cup {k}
    BY <1>1, <1>5 DEF ActiveTasks
  <2>2. /\ IsFiniteSet(ActiveTasks(t) \cup {k})
        /\ Cardinality(ActiveTasks(t) \cup {k}) <= Cardinality(ActiveTasks(t)) + 1
    <3>1. IsFiniteSet(ActiveTasks(t)) /\ Cardinality(ActiveTasks(t)) \in Nat
      BY FiniteActive DEF TInv
    <3>2. /\ IsFiniteSet(ActiveTasks(t) \cup {k})
          /\ \/ Cardinality(ActiveTasks(t) \cup {k}) = Cardinality(ActiveTasks(t))
             \/ Cardinality(ActiveTasks(t) \cup {k}) = Cardinality(ActiveTasks(t)) + 1
      BY <3>1, FS_AddElement
    <3> QED BY <3>1, <3>2
  <2>3. /\ Cardinality(ActiveTasks(t)') <= Cardinality(ActiveTasks(t)) + 1
        /\ Cardinality(ActiveTasks(t)') \in Nat
    BY <2>1, <2>2, FiniteActive, FS_Subset, FS_CardinalityType DEF TInv
  <2>4. Creating(t)' = Creating(t) \ {r} /\ r \in Creating(t)
    BY <1>1, <1>4, <1>6 DEF Creating, Thread, TInv, TypeOK
  <2>5. Cardinality(Creating(t)') = Cardinality(Creating(t)) - 1
    BY <2>4, FiniteActive, FS_RemoveElement DEF TInv
  <2> QED BY <2>3, <2>5, FiniteActive DEF CreateInv, TInv
<1>7. CASE t # Thread(r)
  <2>1. ActiveTasks(t)' = ActiveTasks(t)
    BY <1>1, <1>5, <1>7 DEF ActiveTasks
  <2>2. Creating(t)' = Creating(t)
    BY <1>1, <1>4, <1>7 DEF Creating, Thread, TInv, TypeOK
  <2> QED BY <2>1, <2>2 DEF CreateInv
<1> QED BY <1>6, <1>7

\* The task-dispatcher only takes tasks out of the active statuses.
LEMMA DispatcherCreateInv ==
  ASSUME TInv, CreateInv, NEW k \in DOMAIN tasks, DispatcherUpdates(k)
  PROVE  CreateInv'
<1>1. PICK st \in {"dispatched", "rejected", "failed"} :
        tasks' = [tasks EXCEPT ![k] = TaskRecord(@.thread, @.row, st)]
  BY DEF DispatcherUpdates
<1>2. tasks'[k].status \notin ActiveStatuses
  BY <1>1 DEF TaskRecord, ActiveStatuses
<1>3. \A i \in DOMAIN tasks : i # k => tasks'[i] = tasks[i]
  BY <1>1
<1>4. \A t \in Threads : ActiveTasks(t)' \subseteq ActiveTasks(t)
  BY <1>1, <1>2, <1>3 DEF ActiveTasks
<1>5. \A t \in Threads : Creating(t)' \subseteq Creating(t)
  BY DEF DispatcherUpdates, Creating, Thread
<1> QED BY <1>4, <1>5, NoNewTask DEF TInv

\* The bound on active tasks and creating handlers is inductive.
LEMMA NextCreateInv == TInv /\ CreateInv /\ [Next]_vars => CreateInv'
<1> SUFFICES ASSUME TInv, CreateInv, [Next]_vars PROVE CreateInv'
  OBVIOUS
<1>1. CASE UNCHANGED <<tasks, pc, work>>
  BY <1>1 DEF CreateInv, ActiveTasks, Creating, Thread
<1>2. ASSUME NEW r \in Replicas,
             Handle(r) \/ StoreError(r) \/ AckLost(r) \/ Crash(r) \/ Restart(r)
      PROVE  CreateInv'
  <2>t. /\ pc[r] \notin {"down", "idle"} => work[r].event \in Events
        /\ work = [work EXCEPT ![r] = work[r]] /\ work[r] \in Work
    BY ThreadType DEF TInv, TypeOK
  <2>1. CASE ShouldCreateTask(r)
    BY <2>1, ShouldCreateInv
  <2>2. CASE CreateTask(r)
    BY <2>2, CreateTaskInv
  <2>3. CASE Deliver(r) \/ TermMalformed(r) \/ AckMessage(r) \/ AckLost(r) \/ Crash(r)
    <3>1. PICK next \in {"received", "idle", "down"} :
            \E w : pc' = [pc EXCEPT ![r] = next] /\ work' = [work EXCEPT ![r] = w]
      BY <2>3 DEF Deliver, TermMalformed, AckMessage, AckLost, Crash, Leave
    <3>2. PICK w : work' = [work EXCEPT ![r] = w]
      BY <3>1
    <3>3. UNCHANGED tasks
      BY <2>3 DEF Deliver, TermMalformed, AckMessage, AckLost, Crash, db
    <3> QED BY <3>1, <3>2, <3>3, HandlerNoNewTask DEF TInv
  <2>4. CASE SelectSession(r) \/ Restart(r)
    <3>1. PICK next \in {"insert", "persist", "idle"} : pc' = [pc EXCEPT ![r] = next]
      BY <2>4 DEF SelectSession, Restart
    <3>2. UNCHANGED <<tasks, work>>
      BY <2>4 DEF SelectSession, Restart, db
    <3> QED BY <2>t, <3>1, <3>2, HandlerNoNewTask DEF TInv
  <2>5. CASE IncrementSeq(r)
    BY <2>5, HandlerNoNewTask DEF IncrementSeq, TInv
  <2>6. CASE InsertSession(r)
    <3>1. CASE Nak(r)
      BY <2>6, <2>t, <3>1, NakNoNewTask DEF InsertSession
    <3>2. CASE Answer(r, "persist", work[r])
      BY <2>6, <2>t, <3>2, AnswerNoNewTask DEF InsertSession, PCs
    <3> QED BY <2>6, <3>1, <3>2 DEF InsertSession
  <2>7. CASE CommitIngress(r)
    <3> DEFINE w == Holding(work[r].event, work[r].seq, Len(ingress) + 1, 0)
    <3>1. /\ work[r].event \in Events /\ work[r].seq \in Nat /\ Len(ingress) + 1 \in Nat
          /\ 0 \in Nat /\ Answer(r, "check", w) /\ UNCHANGED tasks
      BY <2>7, <2>t DEF CommitIngress, Work, TInv, TypeOK
    <3>2. w \in Work
      BY <3>1, HoldingType
    <3> HIDE DEF w
    <3> QED BY <3>1, <3>2, AnswerNoNewTask DEF PCs
  <2>8. CASE PublishCreated(r)
    <3>1. Answer(r, "ack", work[r]) /\ work[r].event \in Events /\ UNCHANGED tasks
      BY <2>8, <2>t DEF PublishCreated, db
    <3> QED BY <2>t, <3>1, AnswerNoNewTask DEF PCs
  <2>9. CASE StoreError(r)
    BY <2>9, <2>t, NakNoNewTask DEF StoreError
  <2> QED BY <1>2, <2>1, <2>2, <2>3, <2>4, <2>5, <2>6, <2>7, <2>8, <2>9 DEF Handle
<1>3. CASE (\E e \in Events : AckWaitExpires(e) \/ HandlerTooSlow(e)) \/ ConsumerDropped
  BY <1>1, <1>3 DEF AckWaitExpires, HandlerTooSlow, ConsumerDropped, db
<1>4. CASE \E k \in DOMAIN tasks : DispatcherUpdates(k)
  BY <1>4, DispatcherCreateInv
<1>5. CASE UNCHANGED vars
  BY <1>1, <1>5 DEF vars
<1> QED BY <1>2, <1>3, <1>4, <1>5 DEF Next, Scheduler

\* A session never has more active tasks than there are replicas of the
\* scheduler: each of them can pass ShouldCreateTask before the others insert,
\* but only once.
THEOREM ActiveTasksCorrect == Spec => []ActiveTasksBounded
<1>1. Init => TInv /\ CreateInv
  BY InitTInv, InitCreateInv
<1>2. TInv /\ CreateInv /\ [Next]_vars => (TInv /\ CreateInv)'
  BY NextTInv, NextCreateInv
<1>3. TInv /\ CreateInv => ActiveTasksBounded
  BY FiniteActive DEF CreateInv, ActiveTasksBounded, TInv
<1>4. Spec => [](TInv /\ CreateInv)
  BY <1>1, <1>2, PTL DEF Spec
<1> QED BY <1>3, <1>4, PTL

-----------------------------------------------------------------------------
(* Tasks nobody announces.  A task is safe while its handler still holds it  *)
(* at "publish"; a handler that has gone on has announced the task it holds. *)

HoldsAnnounced ==
  \A r \in Replicas :
    work[r].task = 0 \/ pc[r] = "publish" \/ work[r].task \in DOMAIN created

OInv == HoldsAnnounced /\ OrphansBounded

\* There are finitely many orphans.
LEMMA FiniteOrphans ==
  ASSUME TypeOK
  PROVE  IsFiniteSet(Orphans) /\ Cardinality(Orphans) \in Nat
<1>1. DOMAIN tasks = 1 .. Len(tasks) /\ Len(tasks) \in Nat
  BY DEF TypeOK
<1>2. IsFiniteSet(1 .. Len(tasks))
  BY <1>1, FS_Interval
<1> QED BY <1>1, <1>2, FS_Subset, FS_CardinalityType DEF Orphans

\* No new orphan, or one and a failure.
LEMMA OrphansCount ==
  ASSUME TypeOK, OrphansBounded, NEW k, faults' \in {faults, faults + 1},
         \/ Orphans' \subseteq Orphans
         \/ Orphans' \subseteq Orphans \cup {k} /\ faults' = faults + 1
  PROVE  OrphansBounded'
<1>1. /\ IsFiniteSet(Orphans) /\ Cardinality(Orphans) \in Nat /\ faults \in Nat
      /\ Cardinality(Orphans) <= faults
  BY FiniteOrphans DEF OrphansBounded, TypeOK
<1>2. CASE Orphans' \subseteq Orphans
  <2>1. Cardinality(Orphans') \in Nat /\ Cardinality(Orphans') <= Cardinality(Orphans)
    BY <1>1, <1>2, FS_Subset, FS_CardinalityType
  <2> QED BY <1>1, <2>1 DEF OrphansBounded
<1>3. CASE Orphans' \subseteq Orphans \cup {k} /\ faults' = faults + 1
  <2>1. /\ IsFiniteSet(Orphans \cup {k})
        /\ \/ Cardinality(Orphans \cup {k}) = Cardinality(Orphans)
           \/ Cardinality(Orphans \cup {k}) = Cardinality(Orphans) + 1
    BY <1>1, FS_AddElement
  <2>2. /\ Cardinality(Orphans') \in Nat
        /\ Cardinality(Orphans') <= Cardinality(Orphans \cup {k})
    BY <1>3, <2>1, FS_Subset, FS_CardinalityType
  <2> QED BY <1>1, <1>3, <2>1, <2>2 DEF OrphansBounded
<1> QED BY <1>2, <1>3

\* Initially there is no task at all.
LEMMA InitOInv == Init => OInv
<1> SUFFICES ASSUME Init PROVE OInv
  OBVIOUS
<1>1. HoldsAnnounced
  BY NoWorkType DEF Init, HoldsAnnounced
<1>2. Orphans = {} /\ faults = 0
  BY DEF Init, Orphans
<1> QED BY <1>1, <1>2, FS_EmptySet DEF OInv, OrphansBounded

\* A step of handler r that creates no task: it may let go of a task that is not
\* announced only in a failure.
LEMMA HandlerOInv ==
  ASSUME TInv, OInv, NEW r \in Replicas, NEW next, NEW w,
         pc' = [pc EXCEPT ![r] = next], work' = [work EXCEPT ![r] = w],
         DOMAIN tasks' = DOMAIN tasks, DOMAIN created \subseteq DOMAIN created',
         faults' \in {faults, faults + 1},
         w.task = 0 \/ (w.task = work[r].task /\ pc[r] # "publish")
           \/ w.task \in DOMAIN created',
         \/ w.task = work[r].task
         \/ work[r].task \in DOMAIN created'
         \/ pc[r] # "publish"
         \/ faults' = faults + 1
  PROVE  OInv'
<1>1. /\ \A q \in Replicas : q # r => pc'[q] = pc[q] /\ work'[q] = work[q]
      /\ pc'[r] = next /\ work'[r] = w
  BY DEF TInv, TypeOK
<1>2. 0 \notin DOMAIN tasks
  BY DEF TInv, TypeOK
<1>3. HoldsAnnounced'
  BY <1>1 DEF OInv, HoldsAnnounced
<1>4. Orphans' \subseteq Orphans \cup {work[r].task}
  BY <1>1 DEF Orphans
<1>5. CASE faults' = faults + 1
  BY <1>4, <1>5, OrphansCount, <1>3 DEF TInv, OInv
<1>6. CASE w.task = work[r].task \/ work[r].task \in DOMAIN created' \/ pc[r] # "publish"
  <2>1. Orphans' \subseteq Orphans
    BY <1>1, <1>2, <1>6 DEF Orphans, OInv, HoldsAnnounced
  <2> QED BY <1>3, <2>1, OrphansCount DEF TInv, OInv
<1> QED BY <1>5, <1>6

\* CreateTask: the handler holds the new task, or a failure has cut it off.
LEMMA CreateOInv ==
  ASSUME TInv, OInv, NEW r \in Replicas, CreateTask(r)
  PROVE  OInv'
<1> DEFINE k == Len(tasks) + 1
           w == Holding(work[r].event, work[r].seq, work[r].row, k)
<1>1. /\ work[r].event \in Events /\ pc[r] = "create"
      /\ work[r].seq \in Nat /\ work[r].row \in Nat /\ Len(tasks) \in Nat /\ k \in Nat
  <2>1. pc[r] = "create" /\ work[r].event \in Events
    BY ThreadType DEF CreateTask
  <2>2. work[r] \in Work /\ Len(tasks) \in Nat
    BY DEF TInv, TypeOK
  <2> QED BY <2>1, <2>2 DEF Work
<1>2. w \in Work /\ w.task = k
  BY <1>1, HoldingType
<1>3. /\ tasks' = Append(tasks, TaskRecord(Thread(r), work[r].row, "new"))
      /\ UNCHANGED created /\ Answer(r, "publish", w)
  BY DEF CreateTask
<1>4. DOMAIN tasks = 1 .. Len(tasks) /\ DOMAIN tasks' = DOMAIN tasks \cup {k}
  BY <1>1, <1>3 DEF TInv, TypeOK
<1>5. work[r].task = 0 \/ work[r].task \in DOMAIN created
  BY <1>1 DEF OInv, HoldsAnnounced
<1> HIDE DEF w, k
<1>6. CASE /\ pc' = [pc EXCEPT ![r] = "publish"] /\ work' = [work EXCEPT ![r] = w]
           /\ UNCHANGED <<consumer, faults>>
  <2>1. /\ \A q \in Replicas : q # r => pc'[q] = pc[q] /\ work'[q] = work[q]
        /\ pc'[r] = "publish" /\ work'[r] = w
    BY <1>6 DEF TInv, TypeOK
  <2>2. HoldsAnnounced'
    BY <1>3, <2>1 DEF OInv, HoldsAnnounced
  <2>3. Orphans' \subseteq Orphans
    BY <1>2, <1>3, <1>4, <1>5, <2>1 DEF Orphans
  <2> QED BY <1>6, <2>2, <2>3, OrphansCount DEF TInv, OInv
<1>7. CASE Fault /\ Nak(r)
  <2>1. /\ \A q \in Replicas : q # r => pc'[q] = pc[q] /\ work'[q] = work[q]
        /\ work'[r] = NoWork
    BY <1>7 DEF Nak, Leave, TInv, TypeOK
  <2>2. HoldsAnnounced'
    BY <1>3, <2>1, NoWorkType DEF OInv, HoldsAnnounced
  <2>3. Orphans' \subseteq Orphans \cup {k}
    BY <1>3, <1>4, <1>5, <2>1 DEF Orphans
  <2>4. faults' = faults + 1
    BY <1>7 DEF Fault
  <2> QED BY <2>2, <2>3, <2>4, OrphansCount DEF TInv, OInv
<1> QED BY <1>3, <1>6, <1>7 DEF Answer

\* The answer to a call that keeps the task the handler holds.
LEMMA AnswerOInv ==
  ASSUME TInv, OInv, NEW r \in Replicas, NEW next, NEW w,
         pc[r] # "publish" \/ work[r].task \in DOMAIN created',
         w.task = 0 \/ w.task = work[r].task, Answer(r, next, w),
         UNCHANGED tasks, DOMAIN created \subseteq DOMAIN created'
  PROVE  OInv'
<1>1. CASE /\ pc' = [pc EXCEPT ![r] = next] /\ work' = [work EXCEPT ![r] = w]
           /\ UNCHANGED <<consumer, faults>>
  BY <1>1, HandlerOInv
<1>2. CASE Fault /\ Nak(r)
  BY <1>2, NoWorkType, HandlerOInv DEF Fault, Nak, Leave
<1> QED BY <1>1, <1>2 DEF Answer

\* The bound on orphans is inductive.
LEMMA NextOInv == TInv /\ OInv /\ [Next]_vars => OInv'
<1> SUFFICES ASSUME TInv, OInv, [Next]_vars PROVE OInv'
  OBVIOUS
<1>1. ASSUME UNCHANGED <<pc, work, created>>, DOMAIN tasks' = DOMAIN tasks,
             faults' \in {faults, faults + 1}
      PROVE  OInv'
  <2>1. Orphans' = Orphans /\ HoldsAnnounced'
    BY <1>1 DEF Orphans, OInv, HoldsAnnounced
  <2> QED BY <1>1, <2>1, OrphansCount DEF TInv, OInv
<1>2. ASSUME NEW r \in Replicas,
             Handle(r) \/ StoreError(r) \/ AckLost(r) \/ Crash(r) \/ Restart(r)
      PROVE  OInv'
  <2>t. work = [work EXCEPT ![r] = work[r]]
    BY DEF TInv, TypeOK
  <2>1. CASE Deliver(r)
    <3>1. PICK e \in Events : work' = [work EXCEPT ![r] = Holding(e, 0, 0, 0)]
      BY <2>1 DEF Deliver
    <3>2. Holding(e, 0, 0, 0).task = 0
      BY HoldingType
    <3>3. /\ pc' = [pc EXCEPT ![r] = "received"] /\ pc[r] = "idle"
          /\ UNCHANGED <<tasks, created, faults>>
      BY <2>1 DEF Deliver, db
    <3> QED BY <3>1, <3>2, <3>3, HandlerOInv
  <2>2. CASE TermMalformed(r) \/ AckMessage(r) \/ AckLost(r)
    BY <2>2, NoWorkType, HandlerOInv
    DEF TermMalformed, AckMessage, AckLost, Leave, Fault, db
  <2>3. CASE SelectSession(r) \/ Restart(r) \/ ShouldCreateTask(r)
    <3>1. PICK next : pc' = [pc EXCEPT ![r] = next] /\ pc[r] # "publish"
      BY <2>3 DEF SelectSession, Restart, ShouldCreateTask
    <3>2. UNCHANGED <<tasks, created, work, faults>>
      BY <2>3 DEF SelectSession, Restart, ShouldCreateTask, db
    <3> QED BY <2>t, <3>1, <3>2, HandlerOInv
  <2>4. CASE InsertSession(r)
    <3>1. UNCHANGED <<tasks, created>> /\ pc[r] = "insert"
      BY <2>4 DEF InsertSession
    <3>2. CASE Answer(r, "persist", work[r])
      BY <3>1, <3>2, AnswerOInv
    <3>3. CASE Nak(r) /\ UNCHANGED faults
      BY <3>1, <3>3, NoWorkType, HandlerOInv DEF Nak, Leave
    <3> QED BY <2>4, <3>2, <3>3 DEF InsertSession
  <2>5. CASE IncrementSeq(r)
    <3>1. Holding(work[r].event, nextSeq[Thread(r)], 0, 0).task = 0
      BY DEF Holding
    <3> QED BY <2>5, <3>1, HandlerOInv DEF IncrementSeq
  <2>6. CASE CommitIngress(r)
    <3>1. Holding(work[r].event, work[r].seq, Len(ingress) + 1, 0).task = 0
      BY DEF Holding
    <3> QED BY <2>6, <3>1, AnswerOInv DEF CommitIngress
  <2>7. CASE CreateTask(r)
    BY <2>7, CreateOInv
  <2>8. CASE PublishCreated(r)
    <3>1. created' = Published(created, work[r].task)
      BY <2>8 DEF PublishCreated
    <3>2. DOMAIN created \subseteq DOMAIN created' /\ work[r].task \in DOMAIN created'
      BY <3>1 DEF Published
    <3> QED BY <2>8, <3>2, AnswerOInv DEF PublishCreated, db
  <2>9. CASE StoreError(r)
    BY <2>9, NoWorkType, HandlerOInv DEF StoreError, Nak, Leave, Fault
  <2>10. CASE Crash(r)
    BY <2>10, NoWorkType, HandlerOInv DEF Crash, Fault
  <2> QED BY <1>2, <2>1, <2>2, <2>3, <2>4, <2>5, <2>6, <2>7, <2>8, <2>9, <2>10 DEF Handle
<1>3. CASE (\E e \in Events : AckWaitExpires(e) \/ HandlerTooSlow(e)) \/ ConsumerDropped
  BY <1>1, <1>3 DEF AckWaitExpires, HandlerTooSlow, ConsumerDropped, Fault, db
<1>4. ASSUME NEW k \in DOMAIN tasks, DispatcherUpdates(k) PROVE OInv'
  <2>1. DOMAIN tasks' = DOMAIN tasks
    BY <1>4 DEF DispatcherUpdates
  <2> QED BY <1>1, <1>4, <2>1 DEF DispatcherUpdates
<1>5. CASE UNCHANGED vars
  BY <1>1, <1>5 DEF vars
<1> QED BY <1>2, <1>3, <1>4, <1>5 DEF Next, Scheduler

\* Every task that no handler will announce any more was lost by a failure of its
\* own: an error or a crash between CreateTask and the publish.
THEOREM OrphansCorrect == Spec => []OrphansBounded
<1>1. Init => TInv /\ OInv
  BY InitTInv, InitOInv
<1>2. TInv /\ OInv /\ [Next]_vars => (TInv /\ OInv)'
  BY NextTInv, NextOInv
<1>3. Spec => [](TInv /\ OInv)
  BY <1>1, <1>2, PTL DEF Spec
<1> QED BY <1>3, PTL DEF OInv

-----------------------------------------------------------------------------
(* Rows of one event.  PersistIngress writes a row for every delivery that   *)
(* gets that far; what is bounded is the rows written, the handlers that may *)
(* still write one, and the delivery the server owes, if any.                *)

BeforeCommit == {"received", "insert", "persist", "commit"}

Copies(e) == {i \in DOMAIN ingress : ingress[i].event = e}
Writers(e) == {r \in Replicas : pc[r] \in BeforeCommit /\ work[r].event = e}

Owing(e) ==
  \/ consumer[e].st \in {"stored", "redeliver"}
  \/ consumer[e].st = "pending" /\ \A r \in Replicas : work[r].event # e

Owed(e) == IF Owing(e) THEN 1 ELSE 0

CopiesBounded(e) ==
  Cardinality(Copies(e)) + Cardinality(Writers(e)) + Owed(e) <= 1 + faults

IdleInv == \A r \in Replicas : pc[r] \in {"down", "idle"} => work[r].event = None

CopiesInv == IdleInv /\ \A e \in Events : CopiesBounded(e)

\* The rows and the writers of an event can be counted.
LEMMA FiniteCopies ==
  ASSUME TypeOK, NEW e
  PROVE  /\ IsFiniteSet(Copies(e)) /\ Cardinality(Copies(e)) \in Nat
         /\ IsFiniteSet(Writers(e)) /\ Cardinality(Writers(e)) \in Nat
<1>1. IsFiniteSet(DOMAIN ingress)
  <2>1. DOMAIN ingress = 1 .. Len(ingress) /\ Len(ingress) \in Nat
    BY DEF TypeOK
  <2> QED BY <2>1, FS_Interval
<1>2. IsFiniteSet(Copies(e)) /\ IsFiniteSet(Writers(e))
  BY <1>1, ConstantsAssumption, FS_Subset DEF Copies, Writers
<1> QED BY <1>2, FS_CardinalityType

\* The same after a step.
LEMMA FiniteCopiesPrime ==
  ASSUME TypeOK', NEW e
  PROVE  /\ IsFiniteSet(Copies(e)') /\ Cardinality(Copies(e)') \in Nat
         /\ IsFiniteSet(Writers(e)') /\ Cardinality(Writers(e)') \in Nat
<1>1. IsFiniteSet(DOMAIN ingress')
  <2>1. DOMAIN ingress' = 1 .. Len(ingress') /\ Len(ingress') \in Nat
    BY DEF TypeOK
  <2> QED BY <2>1, FS_Interval
<1>2. IsFiniteSet(Copies(e)') /\ IsFiniteSet(Writers(e)')
  BY <1>1, ConstantsAssumption, FS_Subset DEF Copies, Writers
<1> QED BY <1>2, FS_CardinalityType

\* A step that writes no row and makes nobody a writer keeps the bound if it owes
\* no new delivery, or counts a failure for it.
LEMMA NoNewCopy ==
  ASSUME TypeOK, TypeOK', NEW e, CopiesBounded(e),
         UNCHANGED ingress, Writers(e)' \subseteq Writers(e),
         \/ faults' = faults /\ (Owing(e)' => Owing(e))
         \/ faults' = faults + 1
  PROVE  CopiesBounded(e)'
<1>1. Copies(e)' = Copies(e)
  BY DEF Copies
<1>2. Cardinality(Writers(e)') <= Cardinality(Writers(e))
  BY FiniteCopies, FS_Subset
<1>3. faults \in Nat
  BY DEF TypeOK
<1> QED BY <1>1, <1>2, <1>3, FiniteCopies, FiniteCopiesPrime DEF CopiesBounded, Owed

\* A handler that goes beyond the commit, or gives up, is no writer any more.
LEMMA WriterStops ==
  ASSUME TInv, NEW r \in Replicas, NEW next \in PCs \ BeforeCommit, NEW w,
         pc' = [pc EXCEPT ![r] = next], work' = [work EXCEPT ![r] = w], NEW e
  PROVE  Writers(e)' \subseteq Writers(e) \ {r}
BY DEF TInv, TypeOK, Writers

\* A handler that goes on with its event changes nothing in what is owed.
LEMMA SameEvent ==
  ASSUME TInv, NEW r \in Replicas, NEW next \in PCs, NEW w,
         pc' = [pc EXCEPT ![r] = next], work' = [work EXCEPT ![r] = w],
         w.event = work[r].event, UNCHANGED consumer, NEW e,
         next \in BeforeCommit => pc[r] \in BeforeCommit
  PROVE  /\ Writers(e)' \subseteq Writers(e)
         /\ Owing(e)' => Owing(e)
<1>1. \A q \in Replicas : /\ work'[q].event = work[q].event
                          /\ pc'[q] \in BeforeCommit => pc[q] \in BeforeCommit
  BY DEF TInv, TypeOK
<1> QED BY <1>1 DEF Writers, Owing

\* A handler that gives its event up leaves what is owed of the others alone.
LEMMA OtherEvent ==
  ASSUME TInv, NEW r \in Replicas, NEW e \in Events, work[r].event # e,
         work' = [work EXCEPT ![r] = NoWork], consumer'[e] = consumer[e]
  PROVE  Owing(e)' => Owing(e)
<1>1. \A q \in Replicas : work'[q].event = e <=> work[q].event = e
  BY NoWorkType, ConstantsAssumption DEF TInv, TypeOK
<1> QED BY <1>1 DEF Owing

\* A step of the server for one event leaves the other events alone.
LEMMA OtherDelivery ==
  ASSUME TypeOK, NEW m \in Events, NEW e \in Events, e # m
  PROVE  /\ Delivered(consumer, m)[e] = consumer[e]
         /\ Acked(consumer, m)[e] = consumer[e]
         /\ Termed(consumer, m)[e] = consumer[e]
         /\ Returned(consumer, m)[e] = consumer[e]
BY DEF TypeOK, Delivered, Acked, Termed, Returned, Moved

\* Giving up without a failure: the unique key turned the INSERT of a writer away.
LEMMA WriterReturns ==
  ASSUME TInv, TypeOK', NEW e \in Events, CopiesBounded(e), UNCHANGED <<ingress, faults>>,
         NEW r \in Replicas, pc[r] \in BeforeCommit, Nak(r)
  PROVE  CopiesBounded(e)'
<1>1. /\ work[r].event \in Events /\ consumer' = Returned(consumer, work[r].event)
      /\ pc' = [pc EXCEPT ![r] = "idle"] /\ work' = [work EXCEPT ![r] = NoWork]
  BY ThreadType DEF Nak, Leave, BeforeCommit
<1>2. Writers(e)' \subseteq Writers(e) \ {r}
  BY <1>1, WriterStops DEF PCs, BeforeCommit
<1>3. CASE work[r].event # e
  <2>1. Owing(e)' => Owing(e)
    BY <1>1, <1>3, OtherEvent, OtherDelivery DEF TInv
  <2> QED BY <1>2, <2>1, NoNewCopy DEF TInv
<1>4. CASE work[r].event = e
  <2>1. r \in Writers(e)
    BY <1>4 DEF Writers
  <2>2. Cardinality(Writers(e) \ {r}) = Cardinality(Writers(e)) - 1
    BY <2>1, FiniteCopies, FS_RemoveElement DEF TInv
  <2>3. Cardinality(Writers(e)') <= Cardinality(Writers(e) \ {r})
    <3>1. IsFiniteSet(Writers(e) \ {r})
      BY FiniteCopies, FS_Subset DEF TInv
    <3> QED BY <1>2, <3>1, FS_Subset
  <2>4. Copies(e)' = Copies(e)
    BY DEF Copies
  <2>5. faults \in Nat
    BY DEF TInv, TypeOK
  <2> QED BY <2>2, <2>3, <2>4, <2>5, FiniteCopies, FiniteCopiesPrime DEF CopiesBounded, Owed, TInv
<1> QED BY <1>3, <1>4

\* A delivery is no longer owed: its handler may write a row instead.
LEMMA DeliverCopies ==
  ASSUME TInv, TypeOK', IdleInv, NEW e \in Events, CopiesBounded(e),
         NEW r \in Replicas, Deliver(r)
  PROVE  CopiesBounded(e)'
<1>1. PICK m \in Events : /\ Deliverable(consumer, m, MaxDeliver)
                          /\ consumer' = Delivered(consumer, m)
                          /\ work' = [work EXCEPT ![r] = Holding(m, 0, 0, 0)]
  BY DEF Deliver
<1>2. /\ pc[r] = "idle" /\ pc' = [pc EXCEPT ![r] = "received"]
      /\ UNCHANGED <<ingress, faults>>
  BY DEF Deliver, db
<1>3. work[r].event = None /\ Holding(m, 0, 0, 0).event = m
  BY <1>2, HoldingType DEF IdleInv
<1>4. \A q \in Replicas : /\ q # r => pc'[q] = pc[q] /\ work'[q] = work[q]
                          /\ q = r => work'[q].event = m
  BY <1>1, <1>2, <1>3 DEF TInv, TypeOK
<1>5. CASE m # e
  <2>1. Writers(e)' \subseteq Writers(e)
    BY <1>4, <1>5 DEF Writers
  <2>2. consumer'[e] = consumer[e]
    BY <1>1, <1>5, OtherDelivery DEF TInv
  <2>3. \A q \in Replicas : work'[q].event # e => work[q].event # e
    BY <1>3, <1>4, ConstantsAssumption
  <2>4. Owing(e)' => Owing(e)
    BY <2>2, <2>3 DEF Owing
  <2> QED BY <1>2, <2>1, <2>4, NoNewCopy DEF TInv
<1>6. CASE m = e
  <2>1. Owing(e)
    BY <1>1, <1>6 DEF Deliverable, Owing
  <2>2. consumer'[e].st = "pending"
    BY <1>1, <1>6 DEF Delivered, TInv, TypeOK
  <2>3. ~ Owing(e)'
    BY <1>4, <1>6, <2>2 DEF Owing
  <2>4. Writers(e)' \subseteq Writers(e) \cup {r}
    BY <1>4 DEF Writers
  <2>5. /\ IsFiniteSet(Writers(e) \cup {r})
        /\ Cardinality(Writers(e) \cup {r}) <= Cardinality(Writers(e)) + 1
    <3> DEFINE W == Writers(e)
    <3>1. IsFiniteSet(W) /\ Cardinality(W) \in Nat
      BY FiniteCopies DEF TInv
    <3> HIDE DEF W
    <3>2. /\ IsFiniteSet(W \cup {r})
          /\ Cardinality(W \cup {r}) = IF r \in W THEN Cardinality(W) ELSE Cardinality(W) + 1
      BY <3>1, FS_AddElement
    <3>3. IsFiniteSet(W \cup {r}) /\ Cardinality(W \cup {r}) <= Cardinality(W) + 1
      BY <3>1, <3>2
    <3> QED BY <3>3 DEF W
  <2>6. Cardinality(Writers(e)') <= Cardinality(Writers(e) \cup {r})
    BY <2>4, <2>5, FS_Subset
  <2>7. Copies(e)' = Copies(e)
    BY <1>2 DEF Copies
  <2>8. faults \in Nat /\ Cardinality(Writers(e) \cup {r}) \in Nat
    BY <2>5, FS_CardinalityType DEF TInv, TypeOK
  <2> QED BY <1>2, <2>1, <2>3, <2>5, <2>6, <2>7, <2>8, FiniteCopies, FiniteCopiesPrime
          DEF CopiesBounded, Owed, TInv
<1> QED BY <1>5, <1>6

\* A writer that commits turns into a row; if the answer is lost besides, that
\* failure pays for the delivery which follows.
LEMMA CommitCopies ==
  ASSUME TInv, TypeOK', NEW e \in Events, CopiesBounded(e),
         NEW r \in Replicas, CommitIngress(r)
  PROVE  CopiesBounded(e)'
<1> DEFINE m == work[r].event
           row == [thread |-> Thread(r), seq |-> work[r].seq, event |-> m]
           w == Holding(m, work[r].seq, Len(ingress) + 1, 0)
           n == Len(ingress)
<1>1. /\ pc[r] = "commit" /\ m \in Events
      /\ ingress' = Append(ingress, row) /\ row.event = m
      /\ Answer(r, "check", w)
  BY ThreadType DEF CommitIngress
<1>2. w \in Work /\ w.event = m
  <2>1. m \in Events /\ work[r].seq \in Nat /\ Len(ingress) + 1 \in Nat /\ 0 \in Nat
    BY <1>1 DEF TInv, TypeOK, Work
  <2> QED BY <2>1, HoldingType
<1> HIDE DEF w
<1>3. /\ \/ /\ pc' = [pc EXCEPT ![r] = "check"] /\ work' = [work EXCEPT ![r] = w]
            /\ UNCHANGED <<consumer, faults>>
         \/ /\ pc' = [pc EXCEPT ![r] = "idle"] /\ work' = [work EXCEPT ![r] = NoWork]
            /\ consumer' = Returned(consumer, m) /\ faults' = faults + 1
  BY <1>1 DEF Answer, Nak, Leave, Fault
<1>4. Writers(e)' \subseteq Writers(e) \ {r}
  BY <1>3, WriterStops DEF PCs, BeforeCommit
<1>5. \/ faults' = faults /\ (Owing(e)' => Owing(e))
      \/ faults' = faults + 1
  <2>1. CASE /\ pc' = [pc EXCEPT ![r] = "check"] /\ work' = [work EXCEPT ![r] = w]
             /\ UNCHANGED <<consumer, faults>>
    BY <1>2, <2>1, SameEvent DEF PCs, BeforeCommit
  <2> QED BY <1>3, <2>1
<1>6. /\ n \in Nat /\ DOMAIN ingress = 1 .. n /\ DOMAIN ingress' = 1 .. (n + 1)
      /\ \A i \in 1 .. n : ingress'[i] = ingress[i]
      /\ ingress'[n + 1].event = m
  <2>1. ingress \in Seq(IngressRow)
    BY DEF TInv, TypeOK
  <2> HIDE DEF row
  <2> QED BY <1>1, <2>1
<1> HIDE DEF n, m
<1>7. faults \in Nat /\ faults' \in Nat
  BY DEF TInv, TypeOK
<1>8. CASE m # e
  <2>1. Copies(e)' = Copies(e)
    BY <1>6, <1>8 DEF Copies
  <2>2. Cardinality(Writers(e)') <= Cardinality(Writers(e))
    BY <1>4, FiniteCopies, FS_Subset DEF TInv
  <2> QED BY <1>5, <1>7, <2>1, <2>2, FiniteCopies, FiniteCopiesPrime
          DEF CopiesBounded, Owed, TInv
<1>9. CASE m = e
  <2>1. r \in Writers(e)
    BY <1>1, <1>9 DEF Writers, BeforeCommit, m
  <2>2. Cardinality(Writers(e) \ {r}) = Cardinality(Writers(e)) - 1
    BY <2>1, FiniteCopies, FS_RemoveElement DEF TInv
  <2>3. Cardinality(Writers(e)') <= Cardinality(Writers(e) \ {r})
    <3>1. IsFiniteSet(Writers(e) \ {r})
      BY FiniteCopies, FS_Subset DEF TInv
    <3> QED BY <1>4, <3>1, FS_Subset
  <2>4. Copies(e)' = Copies(e) \cup {n + 1} /\ n + 1 \notin Copies(e)
    BY <1>6, <1>9 DEF Copies
  <2>5. Cardinality(Copies(e)') = Cardinality(Copies(e)) + 1
    BY <2>4, FiniteCopies, FS_AddElement DEF TInv
  <2> QED BY <1>5, <1>7, <2>2, <2>3, <2>5, FiniteCopies, FiniteCopiesPrime
          DEF CopiesBounded, Owed, TInv
<1> QED BY <1>8, <1>9

\* Settling an event, or giving one up, owes nothing new of it.
LEMMA SettleCopies ==
  ASSUME TInv, TypeOK', NEW e \in Events, CopiesBounded(e),
         NEW r \in Replicas, TermMalformed(r) \/ AckMessage(r)
  PROVE  CopiesBounded(e)'
<1> DEFINE m == work[r].event
<1>1. /\ m \in Events
      /\ consumer' = Termed(consumer, m) \/ consumer' = Acked(consumer, m)
      /\ pc' = [pc EXCEPT ![r] = "idle"] /\ work' = [work EXCEPT ![r] = NoWork]
      /\ UNCHANGED <<ingress, faults>>
  BY ThreadType DEF TermMalformed, AckMessage, Leave, db
<1>2. Writers(e)' \subseteq Writers(e)
  BY <1>1, WriterStops DEF PCs, BeforeCommit
<1>3. Owing(e)' => Owing(e)
  <2>1. CASE m # e
    BY <1>1, <2>1, OtherEvent, OtherDelivery DEF TInv
  <2>2. CASE m = e
    <3>1. consumer'[e].st \in {"acked", "termed"} \/ consumer'[e] = consumer[e]
      BY <1>1, <2>2 DEF Acked, Termed, Moved, TInv, TypeOK
    <3>2. consumer[e].st = "pending" => consumer'[e].st \in {"acked", "termed"}
      BY <1>1, <2>2 DEF Acked, Termed, Moved, TInv, TypeOK
    <3> QED BY <3>1, <3>2 DEF Owing
  <2> QED BY <2>1, <2>2
<1> QED BY <1>1, <1>2, <1>3, NoNewCopy DEF TInv

\* The bound on rows survives every step of a handler.
LEMMA HandleCopies ==
  ASSUME TInv, TInv', IdleInv, NEW e \in Events, CopiesBounded(e),
         NEW r \in Replicas, Handle(r)
  PROVE  CopiesBounded(e)'
<1>t. TypeOK /\ TypeOK'
  BY DEF TInv
<1>1. CASE SelectSession(r) \/ ShouldCreateTask(r)
  <2>1. /\ UNCHANGED <<consumer, ingress, work, faults>>
        /\ \E next \in PCs : /\ pc' = [pc EXCEPT ![r] = next]
                             /\ next \in BeforeCommit => pc[r] \in BeforeCommit
    BY <1>1 DEF SelectSession, ShouldCreateTask, db, PCs, BeforeCommit
  <2>2. work' = [work EXCEPT ![r] = work[r]]
    BY <1>t, <2>1 DEF TypeOK
  <2>3. Writers(e)' \subseteq Writers(e) /\ (Owing(e)' => Owing(e))
    BY <2>1, <2>2, SameEvent
  <2> QED BY <1>t, <2>1, <2>3, NoNewCopy
<1>2. CASE IncrementSeq(r)
  <2> DEFINE w == Holding(work[r].event, nextSeq[Thread(r)], 0, 0)
  <2>1. /\ pc[r] = "persist" /\ pc' = [pc EXCEPT ![r] = "commit"]
        /\ work' = [work EXCEPT ![r] = w] /\ UNCHANGED <<consumer, ingress, faults>>
    BY <1>2 DEF IncrementSeq
  <2>2. w.event = work[r].event
    BY DEF Holding
  <2> HIDE DEF w
  <2>3. Writers(e)' \subseteq Writers(e) /\ (Owing(e)' => Owing(e))
    BY <2>1, <2>2, SameEvent DEF PCs, BeforeCommit
  <2> QED BY <1>t, <2>1, <2>3, NoNewCopy
<1>3. ASSUME NEW next \in {"persist", "publish", "ack"}, NEW w, Answer(r, next, w),
             w.event = work[r].event, UNCHANGED ingress,
             next = "persist" => pc[r] \in BeforeCommit
      PROVE  CopiesBounded(e)'
  <2>1. CASE Fault /\ Nak(r)
    <3>1. Writers(e)' \subseteq Writers(e)
      BY <2>1, WriterStops DEF Nak, Leave, PCs, BeforeCommit
    <3> QED BY <1>t, <1>3, <2>1, <3>1, NoNewCopy DEF Fault
  <2>2. CASE ~(Fault /\ Nak(r))
    <3>1. /\ pc' = [pc EXCEPT ![r] = next] /\ work' = [work EXCEPT ![r] = w]
          /\ UNCHANGED <<consumer, faults>>
      BY <1>3, <2>2 DEF Answer
    <3>2. Writers(e)' \subseteq Writers(e) /\ (Owing(e)' => Owing(e))
      BY <1>3, <3>1, SameEvent DEF PCs, BeforeCommit
    <3> QED BY <1>t, <1>3, <3>1, <3>2, NoNewCopy
  <2> QED BY <2>1, <2>2
<1>4. CASE InsertSession(r)
  <2>1. pc[r] \in BeforeCommit /\ UNCHANGED ingress
    BY <1>4 DEF InsertSession, BeforeCommit
  <2>2. CASE Answer(r, "persist", work[r])
    BY <1>3, <2>1, <2>2
  <2>3. CASE Nak(r) /\ UNCHANGED faults
    BY <1>t, <2>1, <2>3, WriterReturns
  <2> QED BY <1>4, <2>2, <2>3 DEF InsertSession
<1>5. CASE CreateTask(r)
  <2> DEFINE w == Holding(work[r].event, work[r].seq, work[r].row, Len(tasks) + 1)
  <2>1. w.event = work[r].event
    BY DEF Holding
  <2>2. Answer(r, "publish", w) /\ UNCHANGED ingress
    BY <1>5 DEF CreateTask
  <2> QED BY <1>3, <2>1, <2>2
<1>6. CASE PublishCreated(r)
  BY <1>3, <1>6 DEF PublishCreated, db
<1> QED BY <1>t, <1>1, <1>2, <1>4, <1>5, <1>6, DeliverCopies, CommitCopies, SettleCopies
        DEF Handle

\* And every failure and every step of the environment.
LEMMA OtherCopies ==
  ASSUME TInv, TInv', NEW e \in Events, CopiesBounded(e),
         \/ \E r \in Replicas : StoreError(r) \/ AckLost(r) \/ Crash(r) \/ Restart(r)
         \/ \E m \in Events : AckWaitExpires(m) \/ HandlerTooSlow(m)
         \/ ConsumerDropped
         \/ \E k \in DOMAIN tasks : DispatcherUpdates(k)
  PROVE  CopiesBounded(e)'
<1>t. TypeOK /\ TypeOK'
  BY DEF TInv
<1>1. ASSUME NEW r \in Replicas, StoreError(r) \/ AckLost(r) \/ Crash(r)
      PROVE  CopiesBounded(e)'
  <2>1. /\ faults' = faults + 1 /\ UNCHANGED ingress
        /\ \E next \in {"idle", "down"} : pc' = [pc EXCEPT ![r] = next]
        /\ work' = [work EXCEPT ![r] = NoWork]
    BY <1>1 DEF StoreError, AckLost, Crash, Nak, Leave, Fault, db
  <2>2. Writers(e)' \subseteq Writers(e)
    BY <2>1, WriterStops DEF PCs, BeforeCommit
  <2> QED BY <1>t, <2>1, <2>2, NoNewCopy
<1>2. ASSUME NEW r \in Replicas, Restart(r) PROVE CopiesBounded(e)'
  <2>1. pc' = [pc EXCEPT ![r] = "idle"] /\ UNCHANGED <<consumer, ingress, work, faults>>
    BY <1>2 DEF Restart, db
  <2>2. work' = [work EXCEPT ![r] = work[r]]
    BY <1>t, <2>1 DEF TypeOK
  <2>3. Writers(e)' \subseteq Writers(e) /\ (Owing(e)' => Owing(e))
    BY <2>1, <2>2, SameEvent DEF PCs, BeforeCommit
  <2> QED BY <1>t, <2>1, <2>3, NoNewCopy
<1>3. ASSUME NEW m \in Events, AckWaitExpires(m) PROVE CopiesBounded(e)'
  <2>1. /\ UNCHANGED <<ingress, pc, work, faults>> /\ consumer' = Returned(consumer, m)
        /\ consumer[m].st = "pending" /\ \A r \in Replicas : work[r].event # m
    BY <1>3 DEF AckWaitExpires, db
  <2>2. Writers(e)' \subseteq Writers(e)
    BY <2>1 DEF Writers
  <2>3. e # m => consumer'[e] = consumer[e]
    BY <1>t, <2>1, OtherDelivery
  <2>4. Owing(e)' => Owing(e)
    BY <2>1, <2>3 DEF Owing
  <2> QED BY <1>t, <2>1, <2>2, <2>4, NoNewCopy
<1>4. CASE ConsumerDropped \/ \E m \in Events : HandlerTooSlow(m)
  <2>1. UNCHANGED <<ingress, pc, work>> /\ faults' = faults + 1
    BY <1>4 DEF ConsumerDropped, HandlerTooSlow, Fault, db
  <2>2. Writers(e)' \subseteq Writers(e)
    BY <2>1 DEF Writers
  <2> QED BY <1>t, <2>1, <2>2, NoNewCopy
<1>5. CASE \E k \in DOMAIN tasks : DispatcherUpdates(k)
  <2>1. UNCHANGED <<consumer, ingress, pc, work, faults>>
    BY <1>5 DEF DispatcherUpdates
  <2>2. Writers(e)' \subseteq Writers(e) /\ (Owing(e)' => Owing(e))
    BY <2>1 DEF Writers, Owing
  <2> QED BY <1>t, <2>1, <2>2, NoNewCopy
<1> QED BY <1>1, <1>2, <1>3, <1>4, <1>5

\* A handler that becomes idle has dropped its event.
LEMMA NextIdle == TInv /\ IdleInv /\ [Next]_vars => IdleInv'
<1> SUFFICES ASSUME TInv, IdleInv, [Next]_vars PROVE IdleInv'
  OBVIOUS
<1>t. pc \in [Replicas -> PCs] /\ work \in [Replicas -> Work]
  BY DEF TInv, TypeOK
<1>1. ASSUME NEW r \in Replicas, NEW next \in {"idle", "down"},
             pc' = [pc EXCEPT ![r] = next], work' = [work EXCEPT ![r] = NoWork]
      PROVE  IdleInv'
  BY <1>t, <1>1, NoWorkType DEF IdleInv
<1>2. ASSUME NEW r \in Replicas, NEW next \in PCs \ {"idle", "down"}, NEW w,
             pc' = [pc EXCEPT ![r] = next], work' = [work EXCEPT ![r] = w]
      PROVE  IdleInv'
  BY <1>t, <1>2 DEF IdleInv
<1>3. CASE UNCHANGED <<pc, work>>
  BY <1>3 DEF IdleInv
<1>4. ASSUME NEW r \in Replicas, Nak(r) \/ Leave(r) PROVE IdleInv'
  BY <1>1, <1>4 DEF Nak, Leave
<1>5. ASSUME NEW r \in Replicas, NEW next \in PCs \ {"idle", "down"}, NEW w, Answer(r, next, w)
      PROVE  IdleInv'
  BY <1>2, <1>4, <1>5 DEF Answer
<1>6. ASSUME NEW r \in Replicas, Handle(r) PROVE IdleInv'
  <2>1. CASE Deliver(r) \/ IncrementSeq(r)
    BY <1>2, <2>1 DEF Deliver, IncrementSeq, PCs
  <2>2. CASE SelectSession(r) \/ ShouldCreateTask(r)
    <3>1. work' = [work EXCEPT ![r] = work[r]]
      BY <1>t, <2>2 DEF SelectSession, ShouldCreateTask
    <3> QED BY <1>2, <2>2, <3>1 DEF SelectSession, ShouldCreateTask, PCs
  <2>3. CASE TermMalformed(r) \/ AckMessage(r)
    BY <1>4, <2>3 DEF TermMalformed, AckMessage
  <2>4. CASE InsertSession(r) \/ CommitIngress(r) \/ CreateTask(r) \/ PublishCreated(r)
    BY <1>4, <1>5, <2>4 DEF InsertSession, CommitIngress, CreateTask, PublishCreated, PCs
  <2> QED BY <1>6, <2>1, <2>2, <2>3, <2>4 DEF Handle
<1>7. ASSUME NEW r \in Replicas, StoreError(r) \/ AckLost(r) \/ Crash(r) PROVE IdleInv'
  BY <1>1, <1>4, <1>7 DEF StoreError, AckLost, Crash
<1>8. ASSUME NEW r \in Replicas, Restart(r) PROVE IdleInv'
  BY <1>t, <1>8 DEF Restart, IdleInv
<1>9. CASE \/ \E e \in Events : AckWaitExpires(e) \/ HandlerTooSlow(e)
           \/ ConsumerDropped \/ \E k \in DOMAIN tasks : DispatcherUpdates(k)
  BY <1>3, <1>9 DEF AckWaitExpires, HandlerTooSlow, ConsumerDropped, DispatcherUpdates
<1> QED BY <1>3, <1>6, <1>7, <1>8, <1>9 DEF Next, Scheduler, vars

\* The bound on rows is inductive.
LEMMA NextCopiesInv == TInv /\ CopiesInv /\ [Next]_vars => CopiesInv'
<1> SUFFICES ASSUME TInv, CopiesInv, [Next]_vars PROVE CopiesInv'
  OBVIOUS
<1>1. TInv' /\ IdleInv' /\ IdleInv
  BY NextTInv, NextIdle DEF CopiesInv
<1>2. ASSUME NEW e \in Events PROVE CopiesBounded(e)'
  <2>1. CopiesBounded(e)
    BY DEF CopiesInv
  <2>2. CASE UNCHANGED vars
    BY <2>1, <2>2 DEF vars, CopiesBounded, Copies, Writers, Owed, Owing
  <2>3. CASE Next
    BY <1>1, <2>1, <2>3, HandleCopies, OtherCopies DEF Next, Scheduler
  <2> QED BY <2>2, <2>3
<1> QED BY <1>1, <1>2 DEF CopiesInv

\* PersistIngress has no de-duplication, and yet an event is written at most once
\* more than there were failures, whatever was redelivered or replayed.
THEOREM DuplicatesCorrect == Spec => []DuplicatesBounded
<1>1. Init => TInv /\ CopiesInv
  <2> SUFFICES ASSUME Init PROVE CopiesInv
    BY InitTInv
  <2>1. IdleInv
    BY NoWorkType DEF Init, IdleInv
  <2>2. ASSUME NEW e \in Events PROVE CopiesBounded(e)
    <3>1. Copies(e) = {} /\ Writers(e) = {} /\ faults = 0
      BY DEF Init, Copies, Writers, BeforeCommit
    <3>2. Owed(e) \in {0, 1}
      BY DEF Owed
    <3> QED BY <3>1, <3>2, FS_EmptySet DEF CopiesBounded
  <2> QED BY <2>1, <2>2 DEF CopiesInv
<1>2. TInv /\ CopiesInv /\ [Next]_vars => (TInv /\ CopiesInv)'
  BY NextTInv, NextCopiesInv
<1>3. TInv /\ CopiesInv => DuplicatesBounded
  <2> SUFFICES ASSUME TInv, CopiesInv, NEW e \in Events
               PROVE  Cardinality(Copies(e)) <= 1 + faults
    BY DEF DuplicatesBounded, Copies
  <2>1. CopiesBounded(e) /\ faults \in Nat
    BY DEF CopiesInv, TInv, TypeOK
  <2> QED BY <2>1, FiniteCopies DEF CopiesBounded, Owed, TInv
<1>4. Spec => [](TInv /\ CopiesInv)
  BY <1>1, <1>2, PTL DEF Spec
<1> QED BY <1>3, <1>4, PTL

-----------------------------------------------------------------------------
(* The refinement of IngressLog.  The log of a thread is read off the rows   *)
(* by number, and a started entry off a task by its row; both are well       *)
(* defined because (thread, number) determines a row.  What a handler does   *)
(* to the log is what the log allows because its event was recorded before,  *)
(* and because no other handler and no task has its row.                     *)

Resolving == {"insert", "persist", "commit"}
Recorded == {"check", "create", "publish", "ack"}
Fresh == {"check", "create"}

RowsInv ==
  /\ \A r \in Replicas :
       /\ pc[r] \in Resolving => work[r].event \notin Malformed
       /\ pc[r] \in Recorded => /\ work[r].row \in DOMAIN ingress
                                /\ ingress[work[r].row].event = work[r].event
       /\ pc[r] \in Fresh =>
            /\ \A k \in DOMAIN tasks : tasks[k].row # work[r].row
            /\ \A q \in Replicas : pc[q] \in Fresh /\ q # r => work[q].row # work[r].row
  /\ \A i \in DOMAIN ingress : ingress[i].thread = ThreadOf[ingress[i].event]
  /\ \A k \in DOMAIN tasks : /\ tasks[k].row \in DOMAIN ingress
                             /\ ingress[tasks[k].row].thread = tasks[k].thread

\* A step that writes neither rows nor tasks: a handler may go on with its row, or
\* with an event that is well formed.
LEMMA NoNewRow ==
  ASSUME TInv, RowsInv, UNCHANGED <<ingress, tasks>>,
         NEW r \in Replicas, NEW next \in PCs, NEW w,
         pc' = [pc EXCEPT ![r] = next], work' = [work EXCEPT ![r] = w],
         next \in Resolving => w.event \notin Malformed,
         next \in Recorded =>
           pc[r] \in Recorded /\ w.event = work[r].event /\ w.row = work[r].row,
         next \in Fresh => pc[r] \in Fresh
  PROVE  RowsInv'
<1>1. /\ \A q \in Replicas : q # r => pc'[q] = pc[q] /\ work'[q] = work[q]
      /\ pc'[r] = next /\ work'[r] = w
  BY DEF TInv, TypeOK
<1>2. \A q \in Replicas : pc'[q] \in Fresh => pc[q] \in Fresh /\ work'[q].row = work[q].row
  BY <1>1 DEF Fresh, Recorded
<1>3. \A q \in Replicas :
        /\ pc'[q] \in Resolving => work'[q].event \notin Malformed
        /\ pc'[q] \in Recorded => /\ work'[q].row \in DOMAIN ingress
                                  /\ ingress[work'[q].row].event = work'[q].event
  BY <1>1 DEF RowsInv
<1>4. \A q \in Replicas : pc'[q] \in Fresh =>
        /\ \A k \in DOMAIN tasks : tasks[k].row # work'[q].row
        /\ \A p \in Replicas : pc'[p] \in Fresh /\ p # q => work'[p].row # work'[q].row
  BY <1>2 DEF RowsInv
<1> QED BY <1>3, <1>4 DEF RowsInv

\* The commit adds the handler's row, which is new.
LEMMA CommitRows ==
  ASSUME TInv, RowsInv, NEW r \in Replicas, CommitIngress(r) PROVE RowsInv'
<1> DEFINE e == work[r].event
           row == [thread |-> ThreadOf[e], seq |-> work[r].seq, event |-> e]
           w == Holding(e, work[r].seq, Len(ingress) + 1, 0)
           n == Len(ingress)
<1>1. /\ e \in Events /\ work[r].seq \in Nat /\ n \in Nat /\ 0 \in Nat /\ n + 1 \in Nat
      /\ Answer(r, "check", w) /\ UNCHANGED tasks
      /\ ingress' = Append(ingress, row)
  <2>1. pc[r] = "commit" /\ e \in Events
    BY ThreadType DEF CommitIngress
  <2>2. work[r] \in Work /\ n \in Nat
    BY DEF TInv, TypeOK
  <2>3. Answer(r, "check", w) /\ UNCHANGED tasks /\ ingress' = Append(ingress, row)
    BY DEF CommitIngress, Thread
  <2> QED BY <2>1, <2>2, <2>3 DEF Work
<1>2. w \in Work /\ w.event = e /\ w.row = n + 1
  BY <1>1, HoldingType
<1>3. /\ DOMAIN ingress = 1 .. n /\ DOMAIN ingress' = 1 .. (n + 1)
      /\ \A i \in 1 .. n : ingress'[i] = ingress[i]
      /\ ingress'[n + 1].event = e /\ ingress'[n + 1].thread = ThreadOf[e]
  <2>1. ingress \in Seq(IngressRow) /\ row.event = e /\ row.thread = ThreadOf[e]
    BY DEF TInv, TypeOK
  <2> HIDE DEF row
  <2> QED BY <1>1, <2>1
<1>4. \/ pc' = [pc EXCEPT ![r] = "check"] /\ work' = [work EXCEPT ![r] = w]
      \/ pc' = [pc EXCEPT ![r] = "idle"] /\ work' = [work EXCEPT ![r] = NoWork]
  BY <1>1, <1>2, AnswerType DEF PCs
<1> HIDE DEF w, n, e
<1>5. /\ \A q \in Replicas : q # r => pc'[q] = pc[q] /\ work'[q] = work[q]
      /\ (pc'[r] = "check" /\ work'[r] = w) \/ pc'[r] = "idle"
  BY <1>4 DEF TInv, TypeOK
<1>6. /\ \A k \in DOMAIN tasks : tasks[k].row \in 1 .. n
      /\ \A q \in Replicas : pc[q] \in Recorded => work[q].row \in 1 .. n
      /\ n + 1 \notin 1 .. n
  BY <1>1, <1>3 DEF RowsInv
<1>7. ASSUME NEW q \in Replicas
      PROVE  /\ pc'[q] \in Resolving => work'[q].event \notin Malformed
             /\ pc'[q] \in Recorded => /\ work'[q].row \in DOMAIN ingress'
                                       /\ ingress'[work'[q].row].event = work'[q].event
  <2>1. CASE q = r
    BY <1>1, <1>2, <1>3, <1>5, <2>1 DEF Resolving, Recorded
  <2>2. CASE q # r
    <3>1. \A i \in 1 .. n : i \in 1 .. (n + 1) /\ ingress'[i] = ingress[i]
      BY <1>1, <1>3
    <3>2. pc'[q] \in Recorded => work[q].row \in 1 .. n /\ ingress[work[q].row].event = work[q].event
      BY <1>5, <1>6, <2>2 DEF RowsInv
    <3> QED BY <1>3, <1>5, <2>2, <3>1, <3>2 DEF RowsInv
  <2> QED BY <2>1, <2>2
<1>8. ASSUME NEW q \in Replicas, pc'[q] \in Fresh
      PROVE  /\ \A k \in DOMAIN tasks : tasks[k].row # work'[q].row
             /\ \A p \in Replicas : pc'[p] \in Fresh /\ p # q => work'[p].row # work'[q].row
  <2>1. \A p \in Replicas : p # r /\ pc'[p] \in Fresh => pc[p] \in Fresh /\ work'[p].row \in 1 .. n
    BY <1>5, <1>6 DEF Fresh, Recorded
  <2>2. r = q => work'[q].row = n + 1
    BY <1>2, <1>5, <1>8 DEF Fresh
  <2>3. pc'[r] \in Fresh => work'[r].row = n + 1
    BY <1>2, <1>5 DEF Fresh
  <2>4. CASE q = r
    BY <1>6, <2>1, <2>2, <2>4
  <2>5. CASE q # r
    BY <1>5, <1>6, <1>8, <2>1, <2>3, <2>5 DEF RowsInv
  <2> QED BY <2>4, <2>5
<1>9. \A i \in DOMAIN ingress' : ingress'[i].thread = ThreadOf[ingress'[i].event]
  <2>1. \A i \in 1 .. (n + 1) : i \in 1 .. n \/ i = n + 1
    BY <1>1
  <2> QED BY <1>3, <2>1 DEF RowsInv
<1>10. \A k \in DOMAIN tasks : /\ tasks[k].row \in DOMAIN ingress'
                               /\ ingress'[tasks[k].row].thread = tasks[k].thread
  <2>1. \A i \in 1 .. n : i \in 1 .. (n + 1)
    BY <1>1
  <2> QED BY <1>3, <1>6, <2>1 DEF RowsInv
<1> QED BY <1>1, <1>7, <1>8, <1>9, <1>10 DEF RowsInv

\* CreateTask gives the handler's row its only task.
LEMMA CreateRows ==
  ASSUME TInv, RowsInv, NEW r \in Replicas, CreateTask(r) PROVE RowsInv'
<1> DEFINE t == TaskRecord(Thread(r), work[r].row, "new")
           n == Len(tasks)
           w == Holding(work[r].event, work[r].seq, work[r].row, Len(tasks) + 1)
<1>1. /\ pc[r] = "create" /\ work[r].event \in Events /\ work[r].seq \in Nat
      /\ work[r].row \in Nat /\ n \in Nat /\ n + 1 \in Nat
      /\ Answer(r, "publish", w) /\ UNCHANGED ingress
      /\ tasks' = Append(tasks, t) /\ t.row = work[r].row /\ t.thread = Thread(r)
  <2>1. pc[r] = "create" /\ work[r].event \in Events
    BY ThreadType DEF CreateTask
  <2>2. work[r] \in Work /\ n \in Nat
    BY DEF TInv, TypeOK
  <2>3. Answer(r, "publish", w) /\ UNCHANGED ingress /\ tasks' = Append(tasks, t)
    BY DEF CreateTask
  <2>4. t.row = work[r].row /\ t.thread = Thread(r)
    BY DEF TaskRecord
  <2>5. work[r].seq \in Nat /\ work[r].row \in Nat
    BY <2>2 DEF Work
  <2> HIDE DEF t, w
  <2> QED BY <2>1, <2>2, <2>3, <2>4, <2>5
<1>2. w \in Work /\ w.event = work[r].event /\ w.row = work[r].row
  <2>1. /\ work[r].event \in Events \cup {None} /\ work[r].seq \in Nat
        /\ work[r].row \in Nat /\ Len(tasks) + 1 \in Nat
    BY <1>1
  <2>2. w.event = work[r].event /\ w.row = work[r].row
    BY DEF Holding
  <2>3. w \in Work
    BY <2>1 DEF Holding, Work
  <2> QED BY <2>2, <2>3
<1>3. /\ DOMAIN tasks = 1 .. n /\ DOMAIN tasks' = 1 .. (n + 1)
      /\ \A k \in 1 .. n : tasks'[k] = tasks[k]
      /\ tasks'[n + 1].row = work[r].row /\ tasks'[n + 1].thread = Thread(r)
  <2>1. tasks \in Seq(Task)
    BY DEF TInv, TypeOK
  <2> HIDE DEF t
  <2> QED BY <1>1, <2>1
<1>4. \/ pc' = [pc EXCEPT ![r] = "publish"] /\ work' = [work EXCEPT ![r] = w]
      \/ pc' = [pc EXCEPT ![r] = "idle"] /\ work' = [work EXCEPT ![r] = NoWork]
  BY <1>1, <1>2, AnswerType DEF PCs
<1> HIDE DEF w, n, t
<1>5. /\ \A q \in Replicas : q # r => pc'[q] = pc[q] /\ work'[q] = work[q]
      /\ (pc'[r] = "publish" /\ work'[r] = w) \/ pc'[r] = "idle"
  BY <1>4 DEF TInv, TypeOK
<1>6. /\ work[r].row \in DOMAIN ingress
      /\ ingress[work[r].row].event = work[r].event
      /\ ingress[work[r].row].thread = Thread(r)
  BY <1>1 DEF RowsInv, Recorded, Thread
<1>7. \A k \in DOMAIN tasks' : k \in 1 .. n \/ k = n + 1
  BY <1>1, <1>3
<1>8. \A q \in Replicas :
        /\ pc'[q] \in Resolving => work'[q].event \notin Malformed
        /\ pc'[q] \in Recorded => /\ work'[q].row \in DOMAIN ingress
                                  /\ ingress[work'[q].row].event = work'[q].event
  BY <1>2, <1>5, <1>6 DEF RowsInv, Resolving, Recorded
<1>9. ASSUME NEW q \in Replicas, pc'[q] \in Fresh
      PROVE  /\ \A k \in DOMAIN tasks' : tasks'[k].row # work'[q].row
             /\ \A p \in Replicas : pc'[p] \in Fresh /\ p # q => work'[p].row # work'[q].row
  <2>1. \A p \in Replicas : pc'[p] \in Fresh => p # r /\ pc[p] \in Fresh /\ work'[p] = work[p]
    BY <1>5 DEF Fresh
  <2>2. q # r /\ work[q].row # work[r].row
    BY <1>1, <1>9, <2>1 DEF RowsInv, Fresh
  <2>3. \A k \in DOMAIN tasks' : tasks'[k].row # work'[q].row
    BY <1>3, <1>7, <1>9, <2>1, <2>2 DEF RowsInv
  <2>4. \A p \in Replicas : pc'[p] \in Fresh /\ p # q => work'[p].row # work'[q].row
    BY <1>9, <2>1 DEF RowsInv
  <2> QED BY <2>3, <2>4
<1>10. \A k \in DOMAIN tasks' : /\ tasks'[k].row \in DOMAIN ingress
                                /\ ingress[tasks'[k].row].thread = tasks'[k].thread
  BY <1>3, <1>6, <1>7 DEF RowsInv
<1> QED BY <1>1, <1>8, <1>9, <1>10 DEF RowsInv

\* Rows and tasks that the dispatcher has moved on are the same rows and tasks.
LEMMA DispatcherRows ==
  ASSUME TInv, NEW k \in DOMAIN tasks, DispatcherUpdates(k)
  PROVE  /\ DOMAIN tasks' = DOMAIN tasks
         /\ \A l \in DOMAIN tasks : tasks'[l].row = tasks[l].row /\ tasks'[l].thread = tasks[l].thread
<1>1. PICK st : tasks' = [tasks EXCEPT ![k] = TaskRecord(tasks[k].thread, tasks[k].row, st)]
  BY DEF DispatcherUpdates
<1>2. TaskRecord(tasks[k].thread, tasks[k].row, st).row = tasks[k].row
      /\ TaskRecord(tasks[k].thread, tasks[k].row, st).thread = tasks[k].thread
  BY DEF TaskRecord
<1>3. tasks \in Seq(Task)
  BY DEF TInv, TypeOK
<1> QED BY <1>1, <1>2, <1>3

\* What the handlers know of their rows is inductive.
LEMMA NextRows == TInv /\ RowsInv /\ [Next]_vars => RowsInv'
<1> SUFFICES ASSUME TInv, RowsInv, [Next]_vars PROVE RowsInv'
  OBVIOUS
<1>t. work \in [Replicas -> Work]
  BY DEF TInv, TypeOK
<1>1. CASE UNCHANGED <<ingress, tasks, pc, work>>
  BY <1>1 DEF RowsInv
<1>2. ASSUME NEW r \in Replicas, NEW next \in {"idle", "down", "received"}, NEW w,
             UNCHANGED <<ingress, tasks>>,
             pc' = [pc EXCEPT ![r] = next], work' = [work EXCEPT ![r] = w]
      PROVE  RowsInv'
  BY <1>2, NoNewRow DEF PCs, Resolving, Recorded, Fresh
<1>3. ASSUME NEW r \in Replicas, UNCHANGED <<ingress, tasks>>, Leave(r) \/ Nak(r) PROVE RowsInv'
  BY <1>2, <1>3 DEF Leave, Nak
<1>4. ASSUME NEW r \in Replicas, Handle(r) PROVE RowsInv'
  <2>1. CASE Deliver(r)
    <3>1. PICK w : work' = [work EXCEPT ![r] = w]
      BY <2>1 DEF Deliver
    <3> QED BY <1>2, <2>1, <3>1 DEF Deliver, db
  <2>2. CASE TermMalformed(r) \/ AckMessage(r)
    BY <1>3, <2>2 DEF TermMalformed, AckMessage, db
  <2>3. CASE SelectSession(r)
    <3>1. PICK next \in {"insert", "persist"} : pc' = [pc EXCEPT ![r] = next]
      BY <2>3 DEF SelectSession
    <3>2. /\ work' = [work EXCEPT ![r] = work[r]] /\ work[r].event \notin Malformed
          /\ UNCHANGED <<ingress, tasks>>
      BY <1>t, <2>3 DEF SelectSession, db
    <3> QED BY <3>1, <3>2, NoNewRow DEF PCs, Resolving, Recorded, Fresh
  <2>4. CASE InsertSession(r)
    <3>1. pc[r] = "insert" /\ UNCHANGED <<ingress, tasks>>
      BY <2>4 DEF InsertSession
    <3>2. \/ Nak(r)
          \/ pc' = [pc EXCEPT ![r] = "persist"] /\ work' = [work EXCEPT ![r] = work[r]]
      BY <2>4 DEF InsertSession, Answer
    <3>3. work[r].event \notin Malformed
      BY <3>1 DEF RowsInv, Resolving
    <3> QED BY <1>3, <3>1, <3>2, <3>3, NoNewRow DEF PCs, Resolving, Recorded, Fresh
  <2>5. CASE IncrementSeq(r)
    <3> DEFINE w == Holding(work[r].event, nextSeq[Thread(r)], 0, 0)
    <3>1. /\ pc[r] = "persist" /\ UNCHANGED <<ingress, tasks>>
          /\ pc' = [pc EXCEPT ![r] = "commit"] /\ work' = [work EXCEPT ![r] = w]
          /\ w.event = work[r].event
      BY <2>5 DEF IncrementSeq, Holding
    <3>2. work[r].event \notin Malformed
      BY <3>1 DEF RowsInv, Resolving
    <3> HIDE DEF w
    <3> QED BY <3>1, <3>2, NoNewRow DEF PCs, Resolving, Recorded, Fresh
  <2>6. CASE ShouldCreateTask(r)
    <3>1. PICK next \in {"create", "ack"} : pc' = [pc EXCEPT ![r] = next]
      BY <2>6 DEF ShouldCreateTask
    <3>2. /\ work' = [work EXCEPT ![r] = work[r]] /\ pc[r] = "check"
          /\ UNCHANGED <<ingress, tasks>>
      BY <1>t, <2>6 DEF ShouldCreateTask, db
    <3> QED BY <3>1, <3>2, NoNewRow DEF PCs, Resolving, Recorded, Fresh
  <2>7. CASE PublishCreated(r)
    <3>1. pc[r] = "publish" /\ UNCHANGED <<ingress, tasks>>
      BY <2>7 DEF PublishCreated, db
    <3>2. \/ Nak(r)
          \/ pc' = [pc EXCEPT ![r] = "ack"] /\ work' = [work EXCEPT ![r] = work[r]]
      BY <2>7 DEF PublishCreated, Answer
    <3> QED BY <1>3, <3>1, <3>2, NoNewRow DEF PCs, Resolving, Recorded, Fresh
  <2> QED BY <1>4, <2>1, <2>2, <2>3, <2>4, <2>5, <2>6, <2>7, CommitRows, CreateRows DEF Handle
<1>5. ASSUME NEW r \in Replicas, StoreError(r) \/ AckLost(r) \/ Crash(r) \/ Restart(r)
      PROVE  RowsInv'
  <2>1. CASE StoreError(r) \/ AckLost(r)
    BY <1>3, <2>1 DEF StoreError, AckLost, db
  <2>2. CASE Crash(r)
    BY <1>2, <2>2 DEF Crash
  <2>3. CASE Restart(r)
    <3>1. work' = [work EXCEPT ![r] = work[r]]
      BY <1>t, <2>3 DEF Restart
    <3> QED BY <1>2, <2>3, <3>1 DEF Restart, db
  <2> QED BY <1>5, <2>1, <2>2, <2>3
<1>6. CASE (\E e \in Events : AckWaitExpires(e) \/ HandlerTooSlow(e)) \/ ConsumerDropped
  BY <1>1, <1>6 DEF AckWaitExpires, HandlerTooSlow, ConsumerDropped, db
<1>7. ASSUME NEW k \in DOMAIN tasks, DispatcherUpdates(k) PROVE RowsInv'
  <2>1. UNCHANGED <<ingress, pc, work>>
    BY <1>7 DEF DispatcherUpdates
  <2> QED BY <1>7, <2>1, DispatcherRows DEF RowsInv
<1>8. CASE UNCHANGED vars
  BY <1>1, <1>8 DEF vars
<1> QED BY <1>4, <1>5, <1>6, <1>7, <1>8 DEF Next, Scheduler

\* How the log is read off the rows.
EventAt(rows, t, n) ==
  rows[CHOOSE i \in DOMAIN rows : rows[i].thread = t /\ rows[i].seq = n].event

Length(t) == IF nextSeq[t] = 0 THEN 0 ELSE nextSeq[t] - 1

Logs == [t \in Threads |-> [n \in 1 .. Length(t) |-> EventAt(ingress, t, n)]]

Started == {<<tasks[k].thread, ingress[tasks[k].row].seq>> : k \in DOMAIN tasks}

SettledEvents == {e \in Events : Settled(consumer, e)}

\* The steps of the abstract specification, in these terms.
LEMMA LogSteps ==
  /\ Log!Init <=> Logs = [t \in Threads |-> <<>>] /\ Started = {} /\ SettledEvents = {}
  /\ Log!vars = <<Logs, Started, SettledEvents>>
  /\ UNCHANGED <<Logs, Started, SettledEvents>> => UNCHANGED Log!vars
  /\ \A e \in Events :
       /\ e \notin Malformed /\ UNCHANGED <<Started, SettledEvents>>
       /\ Logs' = [Logs EXCEPT ![ThreadOf[e]] = Append(Logs[ThreadOf[e]], e)]
       => Log!Next
  /\ \A t \in Threads : \A n \in DOMAIN Logs[t] :
       /\ <<t, n>> \notin Started /\ Started' = Started \cup {<<t, n>>}
       /\ UNCHANGED <<Logs, SettledEvents>>
       => Log!Next
  /\ \A e \in Events :
       /\ e \in Malformed \/ \E n \in DOMAIN Logs[ThreadOf[e]] : Logs[ThreadOf[e]][n] = e
       /\ SettledEvents' = SettledEvents \cup {e} /\ UNCHANGED <<Logs, Started>>
       => Log!Next
  /\ SettledEvents' = {} /\ UNCHANGED <<Logs, Started>> => Log!Next
<1>1. Log!Init <=> Logs = [t \in Threads |-> <<>>] /\ Started = {} /\ SettledEvents = {}
  BY DEF Log!Init, Logs, Started, SettledEvents, Length, EventAt
<1>2. Log!vars = <<Logs, Started, SettledEvents>>
  BY DEF Log!vars, Logs, Started, SettledEvents, Length, EventAt
<1>3. UNCHANGED <<Logs, Started, SettledEvents>> => UNCHANGED Log!vars
  BY DEF Log!vars, Logs, Started, SettledEvents, Length, EventAt
<1>4. ASSUME NEW e \in Events, e \notin Malformed, UNCHANGED <<Started, SettledEvents>>,
             Logs' = [Logs EXCEPT ![ThreadOf[e]] = Append(Logs[ThreadOf[e]], e)]
      PROVE  Log!Next
  <2>1. Log!Record(e)
    BY <1>4 DEF Log!Record, Logs, Started, SettledEvents, Length, EventAt
  <2> QED BY <2>1 DEF Log!Next
<1>5. ASSUME NEW t \in Threads, NEW n \in DOMAIN Logs[t],
             <<t, n>> \notin Started, Started' = Started \cup {<<t, n>>},
             UNCHANGED <<Logs, SettledEvents>>
      PROVE  Log!Next
  <2>1. Log!StartTask(t, n)
    BY <1>5, Zenon DEF Log!StartTask, Logs, Started, SettledEvents, Length, EventAt
  <2>2. n \in DOMAIN [m \in 1 .. Length(t) |-> EventAt(ingress, t, m)]
    BY <1>5 DEF Logs
  <2> QED BY <2>1, <2>2 DEF Log!Next, Logs, Length, EventAt
<1>6. ASSUME NEW e \in Events,
             e \in Malformed \/ \E n \in DOMAIN Logs[ThreadOf[e]] : Logs[ThreadOf[e]][n] = e,
             SettledEvents' = SettledEvents \cup {e}, UNCHANGED <<Logs, Started>>
      PROVE  Log!Next
  <2>1. Log!Settle(e)
    BY <1>6, Zenon DEF Log!Settle, Logs, Started, SettledEvents, Length, EventAt
  <2> QED BY <2>1 DEF Log!Next
<1>7. ASSUME SettledEvents' = {}, UNCHANGED <<Logs, Started>> PROVE Log!Next
  <2>1. Log!Replay
    BY <1>7 DEF Log!Replay, Logs, Started, SettledEvents, Length, EventAt
  <2> QED BY <2>1 DEF Log!Next
<1> QED BY <1>1, <1>2, <1>3, <1>4, <1>5, <1>6, <1>7

\* One row for each thread and number.
Determined(rows) ==
  \A i, j \in DOMAIN rows :
    rows[i].thread = rows[j].thread /\ rows[i].seq = rows[j].seq => i = j

\* The entry of a row is the row's event.
LEMMA EventOfRow ==
  ASSUME NEW rows, Determined(rows), NEW i \in DOMAIN rows
  PROVE  EventAt(rows, rows[i].thread, rows[i].seq) = rows[i].event
<1> DEFINE P(j) == rows[j].thread = rows[i].thread /\ rows[j].seq = rows[i].seq
           c == CHOOSE j \in DOMAIN rows : P(j)
<1>1. c \in DOMAIN rows /\ P(c)
  <2>1. \E j \in DOMAIN rows : P(j)
    OBVIOUS
  <2> HIDE DEF P
  <2> QED BY <2>1
<1>2. c = i
  BY <1>1 DEF Determined
<1> QED BY <1>2 DEF EventAt

\* Numbers that grow from row to row of a thread determine their rows.
LEMMA RowsDetermined ==
  ASSUME NEW rows \in Seq(IngressRow),
         \A i, j \in DOMAIN rows :
           i < j /\ rows[i].thread = rows[j].thread => rows[i].seq < rows[j].seq
  PROVE  Determined(rows)
<1> SUFFICES ASSUME NEW i \in DOMAIN rows, NEW j \in DOMAIN rows,
                    rows[i].thread = rows[j].thread, rows[i].seq = rows[j].seq
             PROVE  i = j
  BY DEF Determined
<1>1. i \in Nat /\ j \in Nat /\ rows[i] \in IngressRow
  OBVIOUS
<1>2. rows[i].seq \in Nat
  BY <1>1 DEF IngressRow
<1>3. ~ (i < j) /\ ~ (j < i)
  BY <1>2
<1> QED BY <1>1, <1>3

\* Every row is an entry of its thread's log, and every entry is a row.
LEMMA EntriesAreRows ==
  ASSUME TypeOK, SeqContiguous
  PROVE  /\ \A t \in Threads : Length(t) \in Nat
         /\ \A i \in DOMAIN ingress :
              /\ ingress[i].thread \in Threads
              /\ ingress[i].seq \in 1 .. Length(ingress[i].thread)
              /\ Logs[ingress[i].thread][ingress[i].seq] = ingress[i].event
         /\ \A t \in Threads : \A n \in 1 .. Length(t) :
              \E i \in DOMAIN ingress :
                /\ ingress[i].thread = t /\ ingress[i].seq = n
                /\ EventAt(ingress, t, n) = ingress[i].event
<1>1. Determined(ingress)
  BY RowsDetermined DEF TypeOK, SeqContiguous
<1>2. \A t \in Threads : nextSeq[t] \in Nat /\ Length(t) \in Nat
  BY DEF TypeOK, Length
<1>3. ASSUME NEW i \in DOMAIN ingress
      PROVE  /\ ingress[i].thread \in Threads
             /\ ingress[i].seq \in 1 .. Length(ingress[i].thread)
             /\ Logs[ingress[i].thread][ingress[i].seq] = ingress[i].event
  <2> DEFINE t == ingress[i].thread
             n == ingress[i].seq
  <2>1. t \in Threads /\ n \in Nat /\ 1 <= n /\ n < nextSeq[t]
    BY IngressRows DEF SeqContiguous
  <2>2. n \in 1 .. Length(t)
    BY <1>2, <2>1 DEF Length
  <2>3. EventAt(ingress, t, n) = ingress[i].event
    BY <1>1, EventOfRow
  <2> HIDE DEF t, n
  <2>4. Logs[t][n] = EventAt(ingress, t, n)
    BY <2>1, <2>2 DEF Logs
  <2> QED BY <2>1, <2>2, <2>3, <2>4 DEF t, n
<1>4. ASSUME NEW t \in Threads, NEW n \in 1 .. Length(t)
      PROVE  \E i \in DOMAIN ingress : /\ ingress[i].thread = t /\ ingress[i].seq = n
                                       /\ EventAt(ingress, t, n) = ingress[i].event
  <2>1. n \in 1 .. (nextSeq[t] - 1)
    BY <1>2, <1>4 DEF Length
  <2>2. PICK i \in DOMAIN ingress : ingress[i].thread = t /\ ingress[i].seq = n
    BY <2>1 DEF SeqContiguous
  <2> QED BY <1>1, <2>2, EventOfRow
<1> QED BY <1>2, <1>3, <1>4

\* A sequence that is one element longer is the sequence with that element appended.
LEMMA OneMore ==
  ASSUME NEW S, NEW n \in Nat, NEW f \in [1 .. n -> S], NEW g \in [1 .. (n + 1) -> S],
         \A i \in 1 .. n : g[i] = f[i]
  PROVE  g = Append(f, g[n + 1])
<1>1. f \in Seq(S) /\ g \in Seq(S) /\ Len(f) = n
  OBVIOUS
<1>2. g[n + 1] \in S
  OBVIOUS
<1> DEFINE h == Append(f, g[n + 1])
<1>3. h \in Seq(S) /\ Len(h) = n + 1
  BY <1>1, <1>2
<1>4. \A i \in 1 .. (n + 1) : h[i] = g[i]
  <2>1. \A i \in 1 .. (n + 1) : i \in 1 .. n \/ i = n + 1
    OBVIOUS
  <2> QED BY <1>1, <1>2, <2>1
<1> HIDE DEF h
<1>5. h \in [1 .. (n + 1) -> S]
  BY <1>3
<1>6. h = g
  BY <1>4, <1>5
<1> QED BY <1>6 DEF h

\* A delivery, a nak and an expired ack-wait settle nothing.
LEMMA SettledStays ==
  ASSUME TypeOK, NEW m \in Events,
         \/ UNCHANGED consumer
         \/ Deliverable(consumer, m, MaxDeliver) /\ consumer' = Delivered(consumer, m)
         \/ consumer' = Returned(consumer, m)
  PROVE  SettledEvents' = SettledEvents
<1>1. ASSUME NEW e \in Events PROVE Settled(consumer', e) <=> Settled(consumer, e)
  <2>1. e # m => consumer'[e] = consumer[e]
    BY OtherDelivery
  <2>2. e = m => (Settled(consumer', e) <=> Settled(consumer, e))
    BY DEF TypeOK, Settled, Deliverable, Delivered, Returned, Moved
  <2> QED BY <2>1, <2>2 DEF Settled
<1> QED BY <1>1 DEF SettledEvents, Settled

\* An acknowledgement settles its event, or nothing.
LEMMA SettledOne ==
  ASSUME TypeOK, NEW m \in Events,
         consumer' = Acked(consumer, m) \/ consumer' = Termed(consumer, m)
  PROVE  SettledEvents' = SettledEvents \/ SettledEvents' = SettledEvents \cup {m}
<1>1. \A e \in Events : e # m => consumer'[e] = consumer[e]
  BY OtherDelivery
<1>2. consumer'[m] = consumer[m] \/ Settled(consumer', m)
  BY DEF TypeOK, Settled, Acked, Termed, Moved
<1> QED BY <1>1, <1>2 DEF SettledEvents, Settled

\* Steps that leave the tables alone leave the logs and what was started alone.
LEMMA SameLogs ==
  ASSUME UNCHANGED <<ingress, tasks>>, \A t \in Threads : Length(t)' = Length(t)
  PROVE  Logs' = Logs /\ Started' = Started
BY DEF Logs, Started

\* The commit is the log's Record.
LEMMA CommitRecords ==
  ASSUME TInv, SInv, SInv', TypeOK', RowsInv, NEW r \in Replicas, CommitIngress(r)
  PROVE  Log!Next
<1>0. PICK t0 \in Threads : t0 = ThreadOf[work[r].event]
  BY ThreadType DEF CommitIngress, Thread
<1> DEFINE e == work[r].event
           n == Len(ingress)
           row == [thread |-> t0, seq |-> work[r].seq, event |-> e]
           w == Holding(e, work[r].seq, n + 1, 0)
<1>1. /\ e \in Events /\ t0 \in Threads /\ e \notin Malformed /\ n \in Nat
      /\ work[r].seq = nextSeq[t0] /\ nextSeq[t0] \in Nat /\ nextSeq[t0] >= 1
  <2>1. pc[r] = "commit" /\ e \in Events
    BY ThreadType DEF CommitIngress
  <2>2. work[r].seq = nextSeq[t0] /\ nextSeq[t0] >= 1 /\ e \notin Malformed
    BY <1>0, <2>1 DEF SInv, LockInv, Thread, RowsInv, Resolving
  <2> QED BY <2>1, <2>2 DEF TInv, TypeOK
<1>2. /\ nextSeq' = [nextSeq EXCEPT ![t0] = nextSeq[t0] + 1]
      /\ ingress' = Append(ingress, row) /\ UNCHANGED tasks
      /\ Answer(r, "check", w)
  BY <1>0, <1>1 DEF CommitIngress, Thread
<1>3. /\ DOMAIN ingress = 1 .. n /\ DOMAIN ingress' = 1 .. (n + 1)
      /\ \A i \in 1 .. n : i \in 1 .. (n + 1) /\ ingress'[i] = ingress[i]
      /\ ingress'[n + 1].event = e /\ ingress'[n + 1].thread = t0
      /\ ingress'[n + 1].seq = nextSeq[t0]
  <2>1. /\ ingress \in Seq(IngressRow) /\ row.event = e /\ row.thread = t0
        /\ row.seq = nextSeq[t0]
    BY <1>1 DEF TInv, TypeOK
  <2> HIDE DEF row
  <2> QED BY <1>1, <1>2, <2>1
<1>4. SettledEvents' = SettledEvents
  <2>1. UNCHANGED consumer \/ consumer' = Returned(consumer, e)
    BY <1>2 DEF Answer, Nak
  <2> QED BY <1>1, <2>1, SettledStays DEF TInv
<1> HIDE DEF w, row
<1>5. Started' = Started
  <2>1. \A k \in DOMAIN tasks : ingress'[tasks[k].row] = ingress[tasks[k].row]
    BY <1>3 DEF RowsInv
  <2> QED BY <1>2, <2>1 DEF Started
<1> HIDE DEF e, n
<1>6. /\ Length(t0) \in Nat /\ Length(t0) + 1 = nextSeq[t0] /\ Length(t0)' = Length(t0) + 1
      /\ \A t \in Threads : t # t0 => Length(t)' = Length(t)
  <2>1. /\ nextSeq'[t0] = nextSeq[t0] + 1
        /\ \A t \in Threads : t # t0 => nextSeq'[t] = nextSeq[t]
    BY <1>1, <1>2 DEF TInv, TypeOK
  <2>2. nextSeq[t0] # 0 /\ nextSeq'[t0] # 0
    BY <1>1, <2>1
  <2>3. Length(t0) = nextSeq[t0] - 1 /\ Length(t0)' = nextSeq[t0]
    <3>1. Length(t0)' = nextSeq'[t0] - 1
      BY <2>2 DEF Length
    <3> QED BY <1>1, <2>1, <2>2, <3>1 DEF Length
  <2>4. \A t \in Threads : t # t0 => Length(t)' = Length(t)
    BY <2>1 DEF Length
  <2> QED BY <1>1, <2>3, <2>4
<1>7. Determined(ingress')
  BY RowsDetermined DEF SInv, TypeOK, SeqContiguous
<1>8. \A t \in Threads : \A m \in 1 .. Length(t) :
        EventAt(ingress', t, m) = EventAt(ingress, t, m) /\ EventAt(ingress, t, m) \in Events
  <2> SUFFICES ASSUME NEW t \in Threads, NEW m \in 1 .. Length(t)
               PROVE  /\ EventAt(ingress', t, m) = EventAt(ingress, t, m)
                      /\ EventAt(ingress, t, m) \in Events
    OBVIOUS
  <2>1. PICK i \in DOMAIN ingress : /\ ingress[i].thread = t /\ ingress[i].seq = m
                                    /\ EventAt(ingress, t, m) = ingress[i].event
    BY EntriesAreRows DEF TInv, SInv
  <2>2. i \in DOMAIN ingress' /\ ingress'[i] = ingress[i]
    BY <1>3
  <2>3. EventAt(ingress', t, m) = ingress[i].event
    BY <1>7, <2>1, <2>2, EventOfRow
  <2> QED BY <2>1, <2>3, IngressRows DEF TInv
<1>9. EventAt(ingress', t0, Length(t0) + 1) = e
  <2>1. n + 1 \in DOMAIN ingress'
    BY <1>1, <1>3
  <2> QED BY <1>3, <1>6, <1>7, <2>1, EventOfRow
<1>10. Logs' = [Logs EXCEPT ![t0] = Append(Logs[t0], e)]
  <2> DEFINE f == [m \in 1 .. Length(t0) |-> EventAt(ingress, t0, m)]
             g == [m \in 1 .. (Length(t0) + 1) |-> EventAt(ingress', t0, m)]
             L == Length(t0)
  <2>1. /\ L \in Nat /\ L + 1 \in 1 .. (L + 1)
        /\ \A m \in 1 .. (L + 1) : m \in 1 .. L \/ m = L + 1
        /\ \A m \in 1 .. L : m \in 1 .. (L + 1)
    BY <1>6
  <2>2. f \in [1 .. L -> Events] /\ g \in [1 .. (L + 1) -> Events]
    <3> HIDE DEF L
    <3>1. f \in [1 .. L -> Events]
      BY <1>1, <1>8 DEF L
    <3>2. \A m \in 1 .. (L + 1) : EventAt(ingress', t0, m) \in Events
      BY <1>1, <1>8, <1>9, <2>1 DEF L
    <3> QED BY <3>1, <3>2 DEF L
  <2>3. \A m \in 1 .. L : g[m] = f[m]
    BY <1>1, <1>8, <2>1
  <2>4. g[L + 1] = e
    BY <1>9, <2>1
  <2>5. Logs[t0] = f
    BY <1>1 DEF Logs
  <2>6. Logs' = [t \in Threads |-> [m \in 1 .. Length(t)' |-> EventAt(ingress', t, m)]]
    BY DEF Logs
  <2>7. Logs'[t0] = g
    <3>1. Logs'[t0] = [m \in 1 .. Length(t0)' |-> EventAt(ingress', t0, m)]
      BY <1>1, <2>6
    <3> QED BY <1>6, <3>1
  <2> HIDE DEF f, g, L
  <2>8. g = Append(f, e)
    BY <2>1, <2>2, <2>3, <2>4, OneMore
  <2>9. \A t \in Threads : t # t0 => Logs'[t] = Logs[t]
    <3> SUFFICES ASSUME NEW t \in Threads, t # t0 PROVE Logs'[t] = Logs[t]
      OBVIOUS
    <3>1. Length(t)' = Length(t)
      BY <1>6
    <3>2. Logs'[t] = [m \in 1 .. Length(t) |-> EventAt(ingress', t, m)]
      BY <2>6, <3>1
    <3>3. Logs[t] = [m \in 1 .. Length(t) |-> EventAt(ingress, t, m)]
      BY DEF Logs
    <3> QED BY <1>8, <3>2, <3>3
  <2>10. Logs' = [t \in Threads |-> Logs'[t]] /\ Logs = [t \in Threads |-> Logs[t]]
    BY <2>6 DEF Logs
  <2> QED BY <1>1, <2>5, <2>7, <2>8, <2>9, <2>10
<1> QED BY <1>0, <1>1, <1>4, <1>5, <1>10, LogSteps DEF e

\* CreateTask is the log's StartTask.
LEMMA CreateStarts ==
  ASSUME TInv, SInv, RowsInv, NEW r \in Replicas, CreateTask(r)
  PROVE  Log!Next
<1> DEFINE t == Thread(r)
           i == work[r].row
           n == Len(tasks)
           task == TaskRecord(t, i, "new")
           w == Holding(work[r].event, work[r].seq, i, n + 1)
<1>1. /\ work[r].event \in Events /\ t \in Threads /\ n \in Nat
      /\ i \in DOMAIN ingress /\ ingress[i].thread = t
      /\ \A k \in DOMAIN tasks : tasks[k].row # i
  <2>1. pc[r] = "create" /\ work[r].event \in Events /\ t \in Threads
    BY ThreadType DEF CreateTask
  <2> QED BY <2>1 DEF RowsInv, Recorded, Fresh, Thread, TInv, TypeOK
<1>2. /\ tasks' = Append(tasks, task) /\ UNCHANGED <<nextSeq, ingress>>
      /\ task.thread = t /\ task.row = i
  BY DEF CreateTask, TaskRecord
<1>3. /\ DOMAIN tasks = 1 .. n /\ DOMAIN tasks' = 1 .. (n + 1)
      /\ \A k \in 1 .. n : k \in 1 .. (n + 1) /\ tasks'[k] = tasks[k]
      /\ n + 1 \in 1 .. (n + 1)
      /\ tasks'[n + 1].thread = t /\ tasks'[n + 1].row = i
  <2>1. tasks \in Seq(Task)
    BY DEF TInv, TypeOK
  <2> HIDE DEF task
  <2> QED BY <1>1, <1>2, <2>1
<1>4. SettledEvents' = SettledEvents
  <2>1. UNCHANGED consumer \/ consumer' = Returned(consumer, work[r].event)
    BY DEF CreateTask, Answer, Nak
  <2> QED BY <1>1, <2>1, SettledStays DEF TInv
<1> HIDE DEF n, task, w
<1>5. Logs' = Logs
  BY <1>2 DEF Logs, Length
<1>6. Started' = Started \cup {<<t, ingress[i].seq>>}
  <2>1. \A k \in 1 .. (n + 1) : k \in 1 .. n \/ k = n + 1
    BY <1>1
  <2> QED BY <1>2, <1>3, <2>1 DEF Started
<1>7. <<t, ingress[i].seq>> \notin Started
  <2> SUFFICES ASSUME NEW k \in DOMAIN tasks, tasks[k].thread = t,
                      ingress[tasks[k].row].seq = ingress[i].seq
               PROVE  FALSE
    BY DEF Started
  <2>1. tasks[k].row \in DOMAIN ingress /\ ingress[tasks[k].row].thread = t
    BY DEF RowsInv
  <2>2. tasks[k].row = i
    <3>1. Determined(ingress)
      BY RowsDetermined DEF TInv, TypeOK, SInv, SeqContiguous
    <3> QED BY <1>1, <2>1, <3>1 DEF Determined
  <2> QED BY <1>1, <2>2
<1>8. ingress[i].seq \in DOMAIN Logs[t]
  <2>1. ingress[i].seq \in 1 .. Length(t)
    BY <1>1, EntriesAreRows DEF TInv, SInv
  <2> QED BY <1>1, <2>1 DEF Logs
<1> QED BY <1>1, <1>4, <1>5, <1>6, <1>7, <1>8, LogSteps

\* An event is settled when it is malformed, or recorded before.
LEMMA AnswersSettle ==
  ASSUME TInv, SInv, RowsInv, NEW r \in Replicas, TermMalformed(r) \/ AckMessage(r)
  PROVE  Log!Next \/ UNCHANGED <<Logs, Started, SettledEvents>>
<1> DEFINE e == work[r].event
<1>1. /\ e \in Events /\ UNCHANGED <<nextSeq, ingress, tasks>>
      /\ consumer' = Termed(consumer, e) \/ consumer' = Acked(consumer, e)
  BY ThreadType DEF TermMalformed, AckMessage, db
<1>2. UNCHANGED <<Logs, Started>>
  BY <1>1, SameLogs DEF Length
<1>3. SettledEvents' = SettledEvents \/ SettledEvents' = SettledEvents \cup {e}
  BY <1>1, SettledOne DEF TInv
<1>4. e \in Malformed \/ \E n \in DOMAIN Logs[ThreadOf[e]] : Logs[ThreadOf[e]][n] = e
  <2>1. CASE TermMalformed(r)
    BY <2>1 DEF TermMalformed
  <2>2. CASE AckMessage(r)
    <3> DEFINE i == work[r].row
    <3>1. i \in DOMAIN ingress /\ ingress[i].event = e /\ ingress[i].thread = ThreadOf[e]
      BY <2>2 DEF AckMessage, RowsInv, Recorded
    <3> HIDE DEF i, e
    <3>2. /\ ingress[i].seq \in 1 .. Length(ThreadOf[e])
          /\ Logs[ThreadOf[e]][ingress[i].seq] = e /\ ThreadOf[e] \in Threads
      BY <3>1, EntriesAreRows DEF TInv, SInv
    <3>3. ingress[i].seq \in DOMAIN Logs[ThreadOf[e]]
      BY <3>2 DEF Logs
    <3> QED BY <3>2, <3>3
  <2> QED BY <2>1, <2>2
<1> HIDE DEF e
<1>5. CASE SettledEvents' = SettledEvents
  BY <1>2, <1>5
<1>6. CASE SettledEvents' = SettledEvents \cup {e}
  BY <1>1, <1>2, <1>4, <1>6, LogSteps
<1> QED BY <1>3, <1>5, <1>6

\* The other steps of a handler, and its failures, are invisible to the log.
LEMMA HandlerStutters ==
  ASSUME TInv, NEW r \in Replicas,
         \/ Deliver(r) \/ SelectSession(r) \/ InsertSession(r) \/ IncrementSeq(r)
         \/ ShouldCreateTask(r) \/ PublishCreated(r)
         \/ StoreError(r) \/ AckLost(r) \/ Crash(r) \/ Restart(r)
  PROVE  UNCHANGED <<Logs, Started, SettledEvents>>
<1>t. TypeOK /\ (pc[r] \notin {"idle", "down"} => work[r].event \in Events)
  BY ThreadType DEF TInv
<1>1. ASSUME NEW m \in Events,
             UNCHANGED <<nextSeq, ingress, tasks>>,
             \/ UNCHANGED consumer
             \/ Deliverable(consumer, m, MaxDeliver) /\ consumer' = Delivered(consumer, m)
             \/ consumer' = Returned(consumer, m)
      PROVE  UNCHANGED <<Logs, Started, SettledEvents>>
  <2>1. UNCHANGED <<Logs, Started>>
    BY <1>1, SameLogs DEF Length
  <2>2. SettledEvents' = SettledEvents
    BY <1>t, <1>1, SettledStays
  <2> QED BY <2>1, <2>2
<1>2. ASSUME UNCHANGED <<consumer, nextSeq, ingress, tasks>>
      PROVE  UNCHANGED <<Logs, Started, SettledEvents>>
  BY <1>2, SameLogs DEF Length, SettledEvents, Settled
<1>3. CASE Deliver(r)
  <2>1. PICK m \in Events : /\ Deliverable(consumer, m, MaxDeliver)
                            /\ consumer' = Delivered(consumer, m)
    BY <1>3 DEF Deliver
  <2> QED BY <1>1, <1>3, <2>1 DEF Deliver, db
<1>4. CASE SelectSession(r) \/ IncrementSeq(r) \/ ShouldCreateTask(r) \/ AckLost(r)
           \/ Crash(r) \/ Restart(r)
  BY <1>2, <1>4 DEF SelectSession, IncrementSeq, ShouldCreateTask, AckLost, Crash, Restart, db
<1>5. CASE StoreError(r) \/ PublishCreated(r)
  <2>1. /\ pc[r] \notin {"idle", "down"} /\ UNCHANGED <<nextSeq, ingress, tasks>>
        /\ UNCHANGED consumer \/ consumer' = Returned(consumer, work[r].event)
    BY <1>5 DEF StoreError, PublishCreated, Answer, Nak, db
  <2> QED BY <1>t, <1>1, <2>1
<1>6. CASE InsertSession(r)
  <2>1. /\ pc[r] \notin {"idle", "down"} /\ UNCHANGED <<ingress, tasks>>
        /\ UNCHANGED consumer \/ consumer' = Returned(consumer, work[r].event)
        /\ \/ UNCHANGED nextSeq
           \/ /\ nextSeq[Thread(r)] = 0
              /\ nextSeq' = [nextSeq EXCEPT ![Thread(r)] = 1]
    BY <1>6 DEF InsertSession, Answer, Nak
  <2>2. ASSUME NEW t \in Threads PROVE Length(t)' = Length(t)
    <3>1. CASE nextSeq'[t] = nextSeq[t]
      BY <3>1 DEF Length
    <3>2. CASE nextSeq[t] = 0 /\ nextSeq'[t] = 1
      BY <3>2 DEF Length
    <3> QED BY <1>t, <2>1, <3>1, <3>2 DEF TypeOK
  <2>3. Logs' = Logs /\ Started' = Started
    BY <2>1, <2>2, SameLogs
  <2>4. SettledEvents' = SettledEvents
    BY <1>t, <2>1, SettledStays
  <2> QED BY <2>3, <2>4
<1> QED BY <1>3, <1>4, <1>5, <1>6

\* So are the server's timers and the task-dispatcher; a dropped consumer is the
\* log's Replay.
LEMMA EnvironmentSteps ==
  ASSUME TInv,
         \/ \E e \in Events : AckWaitExpires(e) \/ HandlerTooSlow(e)
         \/ ConsumerDropped
         \/ \E k \in DOMAIN tasks : DispatcherUpdates(k)
  PROVE  Log!Next \/ UNCHANGED <<Logs, Started, SettledEvents>>
<1>1. ASSUME NEW e \in Events, AckWaitExpires(e) \/ HandlerTooSlow(e)
      PROVE  UNCHANGED <<Logs, Started, SettledEvents>>
  <2>1. UNCHANGED <<nextSeq, ingress, tasks>> /\ consumer' = Returned(consumer, e)
    BY <1>1 DEF AckWaitExpires, HandlerTooSlow, db
  <2>2. Logs' = Logs /\ Started' = Started
    BY <2>1, SameLogs DEF Length
  <2> QED BY <2>1, <2>2, SettledStays DEF TInv
<1>2. CASE ConsumerDropped
  <2>1. UNCHANGED <<nextSeq, ingress, tasks>> /\ consumer' = [e \in Events |-> Stored]
    BY <1>2 DEF ConsumerDropped, db
  <2>2. Logs' = Logs /\ Started' = Started
    BY <2>1, SameLogs DEF Length
  <2>3. SettledEvents' = {}
    BY <2>1 DEF SettledEvents, Settled, Stored
  <2> QED BY <2>2, <2>3, LogSteps
<1>3. ASSUME NEW k \in DOMAIN tasks, DispatcherUpdates(k)
      PROVE  UNCHANGED <<Logs, Started, SettledEvents>>
  <2>1. UNCHANGED <<consumer, nextSeq, ingress>>
    BY <1>3 DEF DispatcherUpdates
  <2>2. Logs' = Logs /\ SettledEvents' = SettledEvents
    BY <2>1 DEF Logs, Length, SettledEvents, Settled
  <2>3. Started' = Started
    BY <1>3, <2>1, DispatcherRows DEF Started
  <2> QED BY <2>2, <2>3
<1> QED BY <1>1, <1>2, <1>3

\* Every step of the scheduler is a step of the log or leaves it alone.
LEMMA NextLog ==
  TInv /\ SInv /\ RowsInv /\ [Next]_vars => [Log!Next]_(Log!vars)
<1> SUFFICES ASSUME TInv, SInv, RowsInv, [Next]_vars
             PROVE  Log!Next \/ UNCHANGED Log!vars
  OBVIOUS
<1>1. TypeOK' /\ SInv'
  BY NextTInv, NextSInv DEF TInv
<1>2. CASE UNCHANGED vars
  <2>1. UNCHANGED <<Logs, Started, SettledEvents>>
    BY <1>2, SameLogs DEF vars, Length, SettledEvents, Settled
  <2> QED BY <2>1, LogSteps
<1>3. ASSUME NEW r \in Replicas, Handle(r) PROVE Log!Next \/ UNCHANGED Log!vars
  BY <1>1, <1>3, CommitRecords, CreateStarts, AnswersSettle, HandlerStutters, LogSteps DEF Handle
<1>4. ASSUME NEW r \in Replicas, StoreError(r) \/ AckLost(r) \/ Crash(r) \/ Restart(r)
      PROVE  Log!Next \/ UNCHANGED Log!vars
  BY <1>4, HandlerStutters, LogSteps
<1>5. CASE \/ \E e \in Events : AckWaitExpires(e) \/ HandlerTooSlow(e)
           \/ ConsumerDropped
           \/ \E k \in DOMAIN tasks : DispatcherUpdates(k)
  BY <1>5, EnvironmentSteps, LogSteps
<1> QED BY <1>2, <1>3, <1>4, <1>5 DEF Next, Scheduler

\* The scheduler implements IngressLog: whatever the replicas, failures and
\* redeliveries, HandleMessage only appends to a session's log, settles an event
\* only after its row is committed, and starts at most one task for a row.
THEOREM LogImplemented == Spec => LogSpec
<1>1. Init => TInv /\ SInv /\ RowsInv /\ Log!Init
  <2> SUFFICES ASSUME Init PROVE RowsInv /\ Log!Init
    BY InitTInv, InitSInv
  <2>1. RowsInv
    BY DEF Init, RowsInv, Resolving, Recorded, Fresh
  <2>2. Started = {} /\ SettledEvents = {}
    BY DEF Init, Started, SettledEvents, Settled, Stored
  <2>3. \A t \in Threads : Length(t) = 0
    BY DEF Init, Length
  <2>4. ASSUME NEW t \in Threads PROVE [n \in 1 .. Length(t) |-> EventAt(ingress, t, n)] = <<>>
    BY <2>3
  <2>5. Logs = [t \in Threads |-> <<>>]
    BY <2>4 DEF Logs
  <2> QED BY <2>1, <2>2, <2>5, LogSteps
<1>2. TInv /\ SInv /\ RowsInv /\ [Next]_vars => (TInv /\ SInv /\ RowsInv)'
  BY NextTInv, NextSInv, NextRows
<1>3. TInv /\ SInv /\ RowsInv /\ [Next]_vars => [Log!Next]_(Log!vars)
  BY NextLog
<1> QED BY <1>1, <1>2, <1>3, PTL DEF Spec, LogSpec, Log!Spec

=============================================================================
