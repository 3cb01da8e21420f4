------------------------ MODULE TaskDispatcher_proofs ------------------------
(***************************************************************************)
(* Proofs about TaskDispatcher, for every number of workers, tasks and     *)
(* retries, every policy, and every bound on deliveries and failures.      *)
(***************************************************************************)
EXTENDS TaskDispatcher, FiniteSetTheorems, TLAPS

Messages == (1 .. NTasks) \cup Malformed

JobType == [msg : Messages \cup {None}, attempt : Nat, outcome : Outcomes]
DispatchType == [task : 1 .. NTasks, attempt : Nat]
RowType == [status : {"new"} \cup Outcomes, attempt : Nat]

-----------------------------------------------------------------------------
(* The operators on consumers, rows and jobs keep their types. *)

\* Every transition of the server keeps a consumer a consumer.
LEMMA ConsumerTypes ==
  ASSUME NEW S, NEW c \in [S -> Delivery], NEW m \in S
  PROVE  /\ Delivered(c, m) \in [S -> Delivery]
         /\ Acked(c, m) \in [S -> Delivery]
         /\ Termed(c, m) \in [S -> Delivery]
         /\ Returned(c, m) \in [S -> Delivery]
<1>1. ASSUME NEW st \in DeliveryStates PROVE Moved(c, m, st) \in [S -> Delivery]
  BY DEF Moved, Delivery
<1>2. Delivered(c, m) \in [S -> Delivery]
  BY DEF Delivered, Delivery, DeliveryStates
<1> QED BY <1>1, <1>2 DEF Acked, Termed, Returned, DeliveryStates

\* A status and a number make a row of the table.
LEMMA RowTypes ==
  ASSUME NEW st \in {"new"} \cup Outcomes, NEW n \in Nat
  PROVE  Row(st, n) \in RowType /\ Row(st, n).attempt = n /\ Row(st, n).status = st
BY DEF Row, RowType

\* A message, a number and an outcome make a handler's job.
LEMMA JobTypes ==
  ASSUME NEW m \in Messages \cup {None}, NEW n \in Nat, NEW o \in Outcomes
  PROVE  /\ Job(m, n, o) \in JobType
         /\ Job(m, n, o).msg = m /\ Job(m, n, o).attempt = n /\ Job(m, n, o).outcome = o
BY DEF Job, JobType

\* An idle handler holds no message.
LEMMA NoJobType == NoJob \in JobType /\ NoJob.msg = None
BY DEF NoJob, Job, JobType, Outcomes

-----------------------------------------------------------------------------
(* Type correctness.  Which message a handler holds depends on how far it is: *)
(* any message while it is loading, a task's own message afterwards.          *)

HandlerInv ==
  \A w \in Workers :
    /\ pc[w] \notin {"down", "idle"} => job[w].msg \in Messages
    /\ pc[w] \notin {"down", "idle", "load"} => job[w].msg \in 1 .. NTasks

TInv == TypeOK /\ HandlerInv

\* Initially every handler is idle, so nothing is asked of its values.
LEMMA InitTInv == Init => TInv
<1> SUFFICES ASSUME Init PROVE TInv
  OBVIOUS
<1>1. tasks \in [1 .. NTasks -> [status : {"new"} \cup Outcomes, attempt : Nat]]
  BY DEF Init
<1>2. created \in [Messages -> Delivery]
  BY DEF Init, Stored, Delivery, DeliveryStates, Messages
<1>3. pc \in [Workers -> PCs] /\ job \in [Workers -> JobType]
  BY NoJobType DEF Init, PCs
<1>4. /\ dispatches \in Seq(DispatchType)
      /\ announced = {} /\ faults \in Nat
  BY DEF Init
<1>5. HandlerInv
  BY DEF Init, HandlerInv
<1> QED BY <1>1, <1>2, <1>3, <1>4, <1>5 DEF TInv, TypeOK, Messages, JobType, DispatchType

\* A nak keeps the types and leaves w idle.
LEMMA NakType ==
  ASSUME TInv, NEW w \in Workers, job[w].msg \in Messages, Nak(w)
  PROVE  /\ created' \in [Messages -> Delivery]
         /\ pc' = [pc EXCEPT ![w] = "idle"]
         /\ job' = [job EXCEPT ![w] = NoJob]
<1>1. created \in [Messages -> Delivery]
  BY DEF TInv, TypeOK, Messages
<1> QED BY <1>1, ConsumerTypes DEF Nak, Leave

\* The handlers' part of the invariant, and their types, survive every step that
\* moves one handler.
LEMMA HandlerStep ==
  ASSUME TInv, NEW w \in Workers, NEW next \in PCs, NEW j \in JobType,
         pc' = [pc EXCEPT ![w] = next], job' = [job EXCEPT ![w] = j],
         \/ next \in {"down", "idle"}
         \/ next = "load" /\ j.msg \in Messages
         \/ j.msg \in 1 .. NTasks
  PROVE  HandlerInv' /\ pc' \in [Workers -> PCs] /\ job' \in [Workers -> JobType]
<1>1. pc \in [Workers -> PCs] /\ job \in [Workers -> JobType]
  BY DEF TInv, TypeOK, JobType, Messages
<1> QED BY <1>1 DEF TInv, HandlerInv, Messages

\* TypeOK, with the names of this module.
LEMMA TypeOKFolded ==
  TypeOK <=> /\ tasks \in [1 .. NTasks -> RowType]
             /\ created \in [Messages -> Delivery]
             /\ dispatches \in Seq(DispatchType)
             /\ announced \subseteq (1 .. NTasks) \X Outcomes
             /\ pc \in [Workers -> PCs]
             /\ job \in [Workers -> JobType]
             /\ faults \in Nat
BY DEF TypeOK, RowType, JobType, DispatchType, Messages

\* The same after a step.
LEMMA TypeOKFoldedPrime ==
  TypeOK' <=> /\ tasks' \in [1 .. NTasks -> RowType]
              /\ created' \in [Messages -> Delivery]
              /\ dispatches' \in Seq(DispatchType)
              /\ announced' \subseteq (1 .. NTasks) \X Outcomes
              /\ pc' \in [Workers -> PCs]
              /\ job' \in [Workers -> JobType]
              /\ faults' \in Nat
BY DEF TypeOK, RowType, JobType, DispatchType, Messages

\* What the invariant says of one handler that holds a message.
LEMMA HandlerTypes ==
  ASSUME TInv, NEW w \in Workers
  PROVE  /\ job[w] \in JobType /\ job[w].attempt \in Nat /\ job[w].outcome \in Outcomes
         /\ job[w].msg \in Messages \cup {None}
         /\ pc[w] \notin {"down", "idle"} => job[w].msg \in Messages
         /\ pc[w] \notin {"down", "idle", "load"} =>
              /\ job[w].msg \in 1 .. NTasks
              /\ tasks[job[w].msg] \in RowType
              /\ tasks[job[w].msg].attempt \in Nat
         /\ pc[w] = "load" /\ job[w].msg \notin Malformed =>
              /\ job[w].msg \in 1 .. NTasks
              /\ tasks[job[w].msg].attempt \in Nat
<1>1. job[w] \in JobType /\ \A k \in 1 .. NTasks : tasks[k] \in RowType
  BY TypeOKFolded DEF TInv
<1> QED BY <1>1 DEF TInv, HandlerInv, JobType, RowType, Messages

\* Every step of a handler keeps the types.
LEMMA HandleTInv ==
  ASSUME TInv, NEW w \in Workers, Handle(w) PROVE TInv'
<1> USE HandlerTypes, TypeOKFolded DEF TInv
<1> SUFFICES TypeOK' /\ HandlerInv'
  OBVIOUS
<1>1. CASE Deliver(w)
  <2>1. PICK m \in Messages : /\ created' = Delivered(created, m)
                              /\ job' = [job EXCEPT ![w] = Job(m, 0, "failed")]
    BY <1>1 DEF Deliver
  <2>2. pc' = [pc EXCEPT ![w] = "load"] /\ UNCHANGED <<tasks, dispatches, announced, faults>>
    BY <1>1 DEF Deliver, Goto
  <2>3. Job(m, 0, "failed") \in JobType /\ Job(m, 0, "failed").msg = m
    BY JobTypes DEF Outcomes
  <2>4. HandlerInv' /\ pc' \in [Workers -> PCs] /\ job' \in [Workers -> JobType]
    BY <2>1, <2>2, <2>3, HandlerStep DEF PCs
  <2>5. created' \in [Messages -> Delivery]
    BY <2>1, ConsumerTypes
  <2> QED BY <2>2, <2>4, <2>5, TypeOKFoldedPrime
<1>2. CASE TermMalformed(w)
  <2>1. /\ created' = Termed(created, job[w].msg) /\ job[w].msg \in Messages
        /\ pc' = [pc EXCEPT ![w] = "idle"] /\ job' = [job EXCEPT ![w] = NoJob]
        /\ UNCHANGED <<tasks, dispatches, announced, faults>>
    BY <1>2 DEF TermMalformed, Leave
  <2>2. HandlerInv' /\ pc' \in [Workers -> PCs] /\ job' \in [Workers -> JobType]
    BY <2>1, NoJobType, HandlerStep DEF PCs
  <2>3. created' \in [Messages -> Delivery]
    BY <2>1, ConsumerTypes
  <2> QED BY <2>1, <2>2, <2>3, TypeOKFoldedPrime
<1>3. CASE GetTask(w)
  <2> DEFINE j == Job(job[w].msg, tasks[job[w].msg].attempt, "failed")
  <2>1. PICK next \in {"mark", "increment"} : pc' = [pc EXCEPT ![w] = next]
    BY <1>3 DEF GetTask, Goto
  <2>2. /\ job' = [job EXCEPT ![w] = j]
        /\ job[w].msg \in 1 .. NTasks /\ tasks[job[w].msg].attempt \in Nat
        /\ UNCHANGED <<tasks, created, dispatches, announced, faults>>
    BY <1>3 DEF GetTask
  <2>3. j \in JobType /\ j.msg = job[w].msg
    <3>1. job[w].msg \in Messages \cup {None} /\ "failed" \in Outcomes
      BY DEF Outcomes
    <3> HIDE HandlerTypes, TypeOKFolded
    <3> QED BY <2>2, <3>1, JobTypes
  <2> HIDE DEF j
  <2>4. HandlerInv' /\ pc' \in [Workers -> PCs] /\ job' \in [Workers -> JobType]
    BY <2>1, <2>2, <2>3, HandlerStep DEF PCs
  <2> QED BY <2>2, <2>4, TypeOKFoldedPrime
<1>4. CASE IncrementRunAttempt(w)
  <2> DEFINE k == job[w].msg
             j == Job(k, tasks[k].attempt + 1, "failed")
             row == Row(tasks[k].status, tasks[k].attempt + 1)
  <2>1. /\ k \in 1 .. NTasks /\ k \in Messages /\ tasks[k] \in RowType
        /\ tasks[k].attempt + 1 \in Nat /\ tasks[k].status \in {"new"} \cup Outcomes
    <3>1. pc[w] = "increment"
      BY <1>4 DEF IncrementRunAttempt
    <3>2. k \in 1 .. NTasks /\ tasks[k] \in RowType
      BY <3>1
    <3> QED BY <3>2 DEF Messages, RowType
  <2>2. tasks' = [tasks EXCEPT ![k] = row] /\ UNCHANGED <<dispatches, announced>>
    BY <1>4 DEF IncrementRunAttempt
  <2>3. row \in RowType
    BY <2>1, RowTypes
  <2>4. j \in JobType /\ j.msg = k
    BY <2>1, JobTypes DEF Outcomes
  <2>5. \/ /\ job' = [job EXCEPT ![w] = j] /\ pc' = [pc EXCEPT ![w] = "policy"]
           /\ UNCHANGED <<created, faults>>
        \/ Fault /\ Nak(w)
    BY <1>4 DEF IncrementRunAttempt, Goto
  <2> HIDE DEF row, j
  <2>6. tasks' \in [1 .. NTasks -> RowType]
    BY <2>1, <2>2, <2>3
  <2>7. CASE /\ job' = [job EXCEPT ![w] = j] /\ pc' = [pc EXCEPT ![w] = "policy"]
             /\ UNCHANGED <<created, faults>>
    <3>1. HandlerInv' /\ pc' \in [Workers -> PCs] /\ job' \in [Workers -> JobType]
      BY <2>1, <2>4, <2>7, HandlerStep DEF PCs
    <3> QED BY <2>2, <2>6, <2>7, <3>1, TypeOKFoldedPrime
  <2>8. CASE Fault /\ Nak(w)
    <3>1. HandlerInv' /\ pc' \in [Workers -> PCs] /\ job' \in [Workers -> JobType]
      BY <2>1, <2>8, NakType, NoJobType, HandlerStep DEF PCs
    <3> QED BY <2>1, <2>2, <2>6, <2>8, <3>1, NakType, TypeOKFoldedPrime DEF Fault
  <2> QED BY <2>5, <2>7, <2>8
<1>5. CASE EvaluatePolicy(w)
  <2>1. /\ UNCHANGED <<tasks, dispatches, announced, faults>>
        /\ job[w].msg \in 1 .. NTasks /\ job[w].msg \in Messages
    BY <1>5 DEF EvaluatePolicy, PolicyDecides, Messages
  <2>2. CASE PolicyDecides(w)
    <3>1. PICK o \in {"dispatched", "rejected"} :
            job' = [job EXCEPT ![w] = Job(job[w].msg, job[w].attempt, o)]
      BY <2>2 DEF PolicyDecides
    <3> DEFINE j == Job(job[w].msg, job[w].attempt, o)
    <3>2. j \in JobType /\ j.msg = job[w].msg
      BY <2>1, JobTypes DEF Outcomes
    <3>3. pc' = [pc EXCEPT ![w] = "mark"] /\ UNCHANGED created
      BY <2>2 DEF PolicyDecides, Goto
    <3>4. job' = [job EXCEPT ![w] = j]
      BY <3>1
    <3> HIDE DEF j
    <3>5. HandlerInv' /\ pc' \in [Workers -> PCs] /\ job' \in [Workers -> JobType]
      BY <2>1, <3>2, <3>3, <3>4, HandlerStep DEF PCs
    <3> QED BY <2>1, <3>3, <3>5, TypeOKFoldedPrime
  <2>3. CASE Nak(w)
    <3>1. HandlerInv' /\ pc' \in [Workers -> PCs] /\ job' \in [Workers -> JobType]
      BY <2>1, <2>3, NakType, NoJobType, HandlerStep DEF PCs
    <3> QED BY <2>1, <2>3, <3>1, NakType, TypeOKFoldedPrime
  <2> QED BY <1>5, <2>2, <2>3 DEF EvaluatePolicy
<1>6. CASE UpdateTaskStatus(w)
  <2> DEFINE row == Row(job[w].outcome, tasks[job[w].msg].attempt)
  <2>1. /\ job[w].msg \in 1 .. NTasks
        /\ UNCHANGED <<created, dispatches, announced, job>>
        /\ tasks' = [tasks EXCEPT ![job[w].msg] = row] \/ UNCHANGED tasks
        /\ faults' \in Nat
    BY <1>6 DEF UpdateTaskStatus, Fault
  <2>2. PICK next \in {"dispatch", "announce"} : pc' = [pc EXCEPT ![w] = next]
    BY <1>6 DEF UpdateTaskStatus, Goto
  <2>3. row \in RowType
    BY <1>6, RowTypes DEF UpdateTaskStatus
  <2>4. job' = [job EXCEPT ![w] = job[w]]
    BY <2>1
  <2> HIDE DEF row
  <2>5. HandlerInv' /\ pc' \in [Workers -> PCs] /\ job' \in [Workers -> JobType]
    BY <2>1, <2>2, <2>4, HandlerStep DEF PCs
  <2>6. tasks' \in [1 .. NTasks -> RowType]
    BY <2>1, <2>3
  <2> QED BY <2>1, <2>5, <2>6, TypeOKFoldedPrime
<1>7. CASE PublishDispatch(w) \/ PublishLifecycle(w)
  <2>1. /\ job[w].msg \in 1 .. NTasks /\ UNCHANGED <<tasks, created, job>>
        /\ faults' \in Nat
    BY <1>7 DEF PublishDispatch, PublishLifecycle, Fault
  <2>2. dispatches' \in Seq(DispatchType)
    <3> DEFINE d == [task |-> job[w].msg, attempt |-> job[w].attempt]
    <3>1. d \in DispatchType
      BY <2>1 DEF DispatchType
    <3>2. dispatches' = Append(dispatches, d) \/ UNCHANGED dispatches
      BY <1>7 DEF PublishDispatch, PublishLifecycle
    <3>3. dispatches \in Seq(DispatchType)
      OBVIOUS
    <3> HIDE HandlerTypes, TypeOKFolded DEF d
    <3> QED BY <3>1, <3>2, <3>3
  <2>3. announced' \subseteq (1 .. NTasks) \X Outcomes
    BY <1>7, <2>1 DEF PublishDispatch, PublishLifecycle
  <2>4. PICK next \in {"announce", "ack"} : pc' = [pc EXCEPT ![w] = next]
    BY <1>7 DEF PublishDispatch, PublishLifecycle, Goto
  <2>5. job' = [job EXCEPT ![w] = job[w]]
    BY <2>1
  <2>6. HandlerInv' /\ pc' \in [Workers -> PCs] /\ job' \in [Workers -> JobType]
    BY <2>1, <2>4, <2>5, HandlerStep DEF PCs
  <2> QED BY <2>1, <2>2, <2>3, <2>6, TypeOKFoldedPrime
<1>8. CASE AckMessage(w)
  <2>1. /\ created' = Acked(created, job[w].msg) /\ job[w].msg \in Messages
        /\ pc' = [pc EXCEPT ![w] = "idle"] /\ job' = [job EXCEPT ![w] = NoJob]
        /\ UNCHANGED <<tasks, dispatches, announced, faults>>
    BY <1>8 DEF AckMessage, Leave
  <2>2. HandlerInv' /\ pc' \in [Workers -> PCs] /\ job' \in [Workers -> JobType]
    BY <2>1, NoJobType, HandlerStep DEF PCs
  <2>3. created' \in [Messages -> Delivery]
    BY <2>1, ConsumerTypes
  <2> QED BY <2>1, <2>2, <2>3, TypeOKFoldedPrime
<1> QED BY <1>1, <1>2, <1>3, <1>4, <1>5, <1>6, <1>7, <1>8 DEF Handle

\* The steps with which a handler picks a message up or drops it.
Release(w) ==
  /\ \E next \in {"down", "idle", "load"}, j \in JobType :
       pc' = [pc EXCEPT ![w] = next] /\ job' = [job EXCEPT ![w] = j]
  /\ UNCHANGED <<tasks, dispatches, announced>>

\* The deliveries, endings and failures of a handler, and a nak after the policy
\* evaluator, are such steps.
LEMMA ReleaseSteps ==
  ASSUME TInv, NEW w \in Workers,
         \/ Deliver(w) \/ TermMalformed(w) \/ AckMessage(w) \/ StoreError(w)
         \/ AckLost(w) \/ Crash(w) \/ Restart(w) \/ (EvaluatePolicy(w) /\ Nak(w))
  PROVE  Release(w)
<1>1. CASE Deliver(w)
  <2>1. PICK m \in Messages : job' = [job EXCEPT ![w] = Job(m, 0, "failed")]
    BY <1>1 DEF Deliver, TInv, TypeOK, Messages
  <2>2. Job(m, 0, "failed") \in JobType
    BY JobTypes DEF Outcomes
  <2> QED BY <1>1, <2>1, <2>2 DEF Deliver, Goto, Release
<1>2. CASE TermMalformed(w) \/ AckMessage(w) \/ AckLost(w) \/ Crash(w)
  BY <1>2, NoJobType DEF TermMalformed, AckMessage, AckLost, Crash, Leave, Goto, Release
<1>3. CASE StoreError(w) \/ (EvaluatePolicy(w) /\ Nak(w))
  <2>1. UNCHANGED <<tasks, dispatches, announced>> /\ Nak(w)
    BY <1>3 DEF StoreError, EvaluatePolicy, PolicyDecides
  <2> QED BY <2>1, NoJobType DEF Nak, Leave, Release
<1>4. CASE Restart(w)
  <2>1. job[w] \in JobType /\ job' = [job EXCEPT ![w] = job[w]]
    BY <1>4, TypeOKFolded DEF Restart, TInv
  <2> QED BY <1>4, <2>1 DEF Restart, Goto, Release
<1> QED BY <1>1, <1>2, <1>3, <1>4

\* Every failure keeps the types.
LEMMA FailureTInv ==
  ASSUME TInv,
         NEW w \in Workers, StoreError(w) \/ AckLost(w) \/ Crash(w) \/ Restart(w)
  PROVE  TInv'
<1>1. PICK next \in {"down", "idle", "load"}, j \in JobType :
        pc' = [pc EXCEPT ![w] = next] /\ job' = [job EXCEPT ![w] = j]
  BY ReleaseSteps DEF Release
<1>2. pc'[w] \in {"down", "idle"}
  BY DEF StoreError, AckLost, Crash, Restart, Nak, Leave, Goto, TInv, TypeOK
<1>3. next \in {"down", "idle"} /\ next \in PCs
  BY <1>1, <1>2 DEF TInv, TypeOK, PCs
<1>4. HandlerInv' /\ pc' \in [Workers -> PCs] /\ job' \in [Workers -> JobType]
  BY <1>1, <1>3, HandlerStep
<1>5. UNCHANGED <<tasks, dispatches, announced>> /\ faults' \in Nat
  BY DEF StoreError, AckLost, Crash, Restart, Fault, TInv, TypeOK
<1>6. created' \in [Messages -> Delivery]
  <2>1. CASE StoreError(w)
    BY <2>1, HandlerTypes, NakType DEF StoreError
  <2>2. CASE ~StoreError(w)
    BY <2>2, TypeOKFolded DEF AckLost, Crash, Restart, TInv
  <2> QED BY <2>1, <2>2
<1> QED BY <1>4, <1>5, <1>6, TypeOKFolded, TypeOKFoldedPrime DEF TInv

\* The type invariant is inductive.
LEMMA NextTInv == TInv /\ [Next]_vars => TInv'
<1> SUFFICES ASSUME TInv, [Next]_vars PROVE TInv'
  OBVIOUS
<1>1. CASE UNCHANGED vars
  BY <1>1 DEF vars, TInv, TypeOK, HandlerInv
<1>2. ASSUME NEW m \in DOMAIN created, AckWaitExpires(m) \/ HandlerTooSlow(m) PROVE TInv'
  <2>1. /\ created' = Returned(created, m) /\ faults' \in Nat
        /\ UNCHANGED <<tasks, dispatches, announced, pc, job>>
    BY <1>2 DEF AckWaitExpires, HandlerTooSlow, Fault, TInv, TypeOK
  <2>2. created' \in [Messages -> Delivery]
    BY <2>1, ConsumerTypes, TypeOKFolded DEF TInv
  <2>3. HandlerInv'
    BY <2>1 DEF TInv, HandlerInv
  <2> QED BY <2>1, <2>2, <2>3, TypeOKFolded, TypeOKFoldedPrime DEF TInv
<1>3. CASE Next
  BY <1>2, <1>3, HandleTInv, FailureTInv DEF Next
<1> QED BY <1>1, <1>3

\* Every variable stays within its type: no status and no event outside what the
\* table's CHECK and the subjects allow, whatever is redelivered or fails.
THEOREM TypeCorrect == Spec => []TypeOK
<1>1. Spec => []TInv
  BY InitTInv, NextTInv, PTL DEF Spec
<1> QED BY <1>1, PTL DEF TInv

\* What a step can do to the tasks, the handlers and the published messages.
LEMMA NextCases ==
  ASSUME TInv, [Next]_vars
  PROVE  \/ UNCHANGED <<tasks, dispatches, announced, pc, job>>
         \/ \E w \in Workers :
              \/ Release(w) \/ GetTask(w) \/ IncrementRunAttempt(w)
              \/ /\ pc[w] = "policy" /\ PolicyDecides(w)
                 /\ UNCHANGED <<dispatches, announced>>
              \/ UpdateTaskStatus(w) \/ PublishDispatch(w) \/ PublishLifecycle(w)
<1>1. CASE UNCHANGED vars
  BY <1>1 DEF vars
<1>2. CASE \E m \in DOMAIN created : AckWaitExpires(m) \/ HandlerTooSlow(m)
  BY <1>2 DEF AckWaitExpires, HandlerTooSlow
<1>3. ASSUME NEW w \in Workers, EvaluatePolicy(w), ~Nak(w)
      PROVE  pc[w] = "policy" /\ PolicyDecides(w) /\ UNCHANGED <<dispatches, announced>>
  BY <1>3 DEF EvaluatePolicy
<1> QED BY <1>1, <1>2, <1>3, ReleaseSteps DEF Next, Handle

\* The updates a handler makes to its task: one attempt more, or a new status.
LEMMA RowUpdates ==
  ASSUME TInv, NEW w \in Workers
  PROVE  /\ IncrementRunAttempt(w) =>
              /\ tasks'[job[w].msg].attempt = tasks[job[w].msg].attempt + 1
              /\ \A k \in 1 .. NTasks : k # job[w].msg => tasks'[k] = tasks[k]
         /\ UpdateTaskStatus(w) =>
              \A k \in 1 .. NTasks : tasks'[k].attempt = tasks[k].attempt
<1>1. tasks \in [1 .. NTasks -> RowType]
  BY TypeOKFolded DEF TInv
<1>2. ASSUME IncrementRunAttempt(w)
      PROVE  /\ tasks'[job[w].msg].attempt = tasks[job[w].msg].attempt + 1
             /\ \A k \in 1 .. NTasks : k # job[w].msg => tasks'[k] = tasks[k]
  <2>1. job[w].msg \in 1 .. NTasks
    BY <1>2, HandlerTypes DEF IncrementRunAttempt
  <2> QED BY <1>1, <1>2, <2>1 DEF IncrementRunAttempt, Row
<1>3. ASSUME UpdateTaskStatus(w), NEW k \in 1 .. NTasks
      PROVE  tasks'[k].attempt = tasks[k].attempt
  <2>1. job[w].msg \in 1 .. NTasks
    BY <1>3, HandlerTypes DEF UpdateTaskStatus
  <2>2. CASE UNCHANGED tasks
    BY <2>2
  <2>3. CASE tasks' = [tasks EXCEPT ![job[w].msg] = Row(job[w].outcome, @.attempt)]
    <3>1. tasks'[job[w].msg] = Row(job[w].outcome, tasks[job[w].msg].attempt)
      BY <1>1, <2>1, <2>3
    <3>2. tasks'[job[w].msg].attempt = tasks[job[w].msg].attempt
      BY <3>1 DEF Row
    <3>3. k # job[w].msg => tasks'[k] = tasks[k]
      BY <1>1, <2>3
    <3> QED BY <3>2, <3>3
  <2> QED BY <1>3, <2>2, <2>3 DEF UpdateTaskStatus
<1> QED BY <1>2, <1>3

\* Attempts never go down.
LEMMA AttemptsGrow ==
  ASSUME TInv, [Next]_vars
  PROVE  /\ DOMAIN tasks = 1 .. NTasks /\ DOMAIN tasks' = 1 .. NTasks
         /\ \A k \in 1 .. NTasks : /\ tasks[k].attempt \in Nat /\ tasks'[k].attempt \in Nat
                                   /\ tasks'[k].attempt >= tasks[k].attempt
<1>1. TInv'
  BY NextTInv
<1>2. tasks \in [1 .. NTasks -> RowType] /\ tasks' \in [1 .. NTasks -> RowType]
  BY <1>1, TypeOKFolded, TypeOKFoldedPrime DEF TInv
<1>3. \A k \in 1 .. NTasks : tasks[k].attempt \in Nat /\ tasks'[k].attempt \in Nat
  BY <1>2 DEF RowType
<1>4. \A k \in 1 .. NTasks : tasks'[k].attempt >= tasks[k].attempt
  <2>1. CASE UNCHANGED tasks
    BY <1>3, <2>1
  <2>2. ASSUME NEW w \in Workers, IncrementRunAttempt(w) \/ UpdateTaskStatus(w)
        PROVE  \A k \in 1 .. NTasks : tasks'[k].attempt >= tasks[k].attempt
    BY <1>3, <2>2, RowUpdates
  <2> QED BY <2>1, <2>2, NextCases
          DEF Release, GetTask, PolicyDecides, PublishDispatch, PublishLifecycle
<1> QED BY <1>2, <1>3, <1>4

-----------------------------------------------------------------------------
(* tasks.failed means that the budget is spent: the handler that is about to *)
(* say so has seen it spent, and it stays spent.                             *)

ExhaustedInv ==
  /\ \A w \in Workers :
       /\ pc[w] = "dispatch" => job[w].outcome = "dispatched"
       /\ pc[w] \in {"mark", "announce"} /\ job[w].outcome = "failed" =>
            tasks[job[w].msg].attempt >= MaxRetries
  /\ FailedOnlyWhenExhausted

\* Initially no handler is under way and nothing is announced.
LEMMA InitExhausted == Init => ExhaustedInv
BY DEF Init, ExhaustedInv, FailedOnlyWhenExhausted

\* That the budget of a failed task is spent is inductive.
LEMMA NextExhausted == TInv /\ ExhaustedInv /\ [Next]_vars => ExhaustedInv'
<1> SUFFICES ASSUME TInv, ExhaustedInv, [Next]_vars PROVE ExhaustedInv'
  OBVIOUS
<1>g. MaxRetries \in Nat
  BY ConstantsAssumption
<1>1. CASE UNCHANGED <<tasks, dispatches, announced, pc, job>>
  BY <1>1 DEF ExhaustedInv, FailedOnlyWhenExhausted, TaskIds
<1>2. ASSUME NEW w \in Workers,
             \/ Release(w) \/ GetTask(w) \/ IncrementRunAttempt(w)
             \/ /\ pc[w] = "policy" /\ PolicyDecides(w)
                /\ UNCHANGED <<dispatches, announced>>
             \/ UpdateTaskStatus(w) \/ PublishDispatch(w) \/ PublishLifecycle(w)
      PROVE  ExhaustedInv'
  \* the handlers that do not move
  <2>1. \A v \in Workers : v # w => pc'[v] = pc[v] /\ job'[v] = job[v]
    BY <1>2 DEF Release, GetTask, IncrementRunAttempt, Nak, Leave, Goto, PolicyDecides,
                UpdateTaskStatus, PublishDispatch, PublishLifecycle, TInv, TypeOK
  <2>2. ASSUME NEW v \in Workers, v # w
        PROVE  /\ pc'[v] = "dispatch" => job'[v].outcome = "dispatched"
               /\ pc'[v] \in {"mark", "announce"} /\ job'[v].outcome = "failed" =>
                    tasks'[job'[v].msg].attempt >= MaxRetries
    <3>1. pc[v] \in {"mark", "announce"} => job[v].msg \in 1 .. NTasks
      BY HandlerTypes
    <3> QED BY <1>g, <2>1, <2>2, <3>1, AttemptsGrow DEF ExhaustedInv
  \* the handler that does
  <2>3. /\ pc'[w] = "dispatch" => job'[w].outcome = "dispatched"
        /\ pc'[w] \in {"mark", "announce"} /\ job'[w].outcome = "failed" =>
             tasks'[job'[w].msg].attempt >= MaxRetries
    <3>t. pc \in [Workers -> PCs] /\ job \in [Workers -> JobType]
      BY TypeOKFolded DEF TInv
    <3>1. CASE Release(w)
      BY <3>t, <3>1 DEF Release
    <3>2. CASE GetTask(w)
      <4>1. /\ job' = [job EXCEPT ![w] = Job(@.msg, tasks[@.msg].attempt, "failed")]
            /\ UNCHANGED tasks
            /\ pc' = [pc EXCEPT ![w] = IF tasks[job[w].msg].attempt >= MaxRetries
                                       THEN "mark" ELSE "increment"]
        BY <3>2 DEF GetTask, Goto
      <4> QED BY <3>t, <4>1 DEF Job
    <3>3. CASE IncrementRunAttempt(w)
      <4>1. pc'[w] \in {"policy", "idle"}
        BY <3>t, <3>3 DEF IncrementRunAttempt, Nak, Leave, Goto
      <4> QED BY <4>1
    <3>4. CASE PolicyDecides(w)
      <4>1. PICK o \in {"dispatched", "rejected"} :
              job' = [job EXCEPT ![w] = Job(@.msg, @.attempt, o)]
        BY <3>4 DEF PolicyDecides
      <4>2. job'[w].outcome = o /\ pc'[w] = "mark"
        BY <3>t, <3>4, <4>1 DEF Job, PolicyDecides, Goto
      <4> QED BY <4>2
    <3>5. CASE UpdateTaskStatus(w)
      <4>1. /\ pc[w] = "mark" /\ UNCHANGED job /\ job[w].msg \in 1 .. NTasks
            /\ pc'[w] = IF job[w].outcome = "dispatched" THEN "dispatch" ELSE "announce"
        BY <3>t, <3>5, HandlerTypes DEF UpdateTaskStatus, Goto
      <4> QED BY <3>5, <4>1, RowUpdates DEF ExhaustedInv
    <3>6. CASE PublishDispatch(w)
      <4>1. /\ pc[w] = "dispatch" /\ UNCHANGED <<job, tasks>> /\ pc'[w] = "announce"
        BY <3>t, <3>6 DEF PublishDispatch, Goto
      <4> QED BY <4>1 DEF ExhaustedInv
    <3>7. CASE PublishLifecycle(w)
      BY <3>t, <3>7 DEF PublishLifecycle, Goto
    <3> QED BY <1>2, <3>1, <3>2, <3>3, <3>4, <3>5, <3>6, <3>7
  <2>4. FailedOnlyWhenExhausted'
    <3> SUFFICES ASSUME NEW k \in 1 .. NTasks, <<k, "failed">> \in announced'
                 PROVE  tasks'[k].attempt >= MaxRetries
      BY AttemptsGrow DEF FailedOnlyWhenExhausted, TaskIds
    <3>1. CASE <<k, "failed">> \in announced
      <4>1. tasks[k].attempt >= MaxRetries
        BY <3>1, AttemptsGrow DEF ExhaustedInv, FailedOnlyWhenExhausted, TaskIds
      <4> QED BY <1>g, <4>1, AttemptsGrow
    <3>2. CASE <<k, "failed">> \notin announced
      <4>1. PublishLifecycle(w) /\ <<k, "failed">> = <<job[w].msg, job[w].outcome>>
        BY <1>2, <3>2 DEF Release, GetTask, IncrementRunAttempt,
             UpdateTaskStatus, PublishDispatch, PublishLifecycle
      <4>2. pc[w] = "announce" /\ job[w].msg = k /\ job[w].outcome = "failed"
        BY <4>1 DEF PublishLifecycle
      <4>3. tasks[k].attempt >= MaxRetries
        BY <4>2 DEF ExhaustedInv
      <4> QED BY <1>g, <4>3, AttemptsGrow
    <3> QED BY <3>1, <3>2
  <2> QED BY <2>2, <2>3, <2>4 DEF ExhaustedInv
<1> QED BY <1>1, <1>2, NextCases

\* tasks.failed is announced only for a task whose retry budget is spent, whatever
\* other workers do between the check and the announcement.
THEOREM FailedCorrect == Spec => []FailedOnlyWhenExhausted
<1>1. Init => TInv /\ ExhaustedInv
  BY InitTInv, InitExhausted
<1>2. TInv /\ ExhaustedInv /\ [Next]_vars => (TInv /\ ExhaustedInv)'
  BY NextTInv, NextExhausted
<1>3. Spec => [](TInv /\ ExhaustedInv)
  BY <1>1, <1>2, PTL DEF Spec
<1> QED BY <1>3, PTL DEF ExhaustedInv

-----------------------------------------------------------------------------
(* Run attempts as idempotency keys.  An attempt number is on its way to a   *)
(* tasks.dispatch message from the UPDATE ... RETURNING that drew it until   *)
(* it is published; no two handlers carry the same one, and none carries one *)
(* that has been published.                                                  *)

Carries(w, k) ==
  /\ job[w].msg = k
  /\ \/ pc[w] \in {"policy", "dispatch"}
     \/ pc[w] = "mark" /\ job[w].outcome = "dispatched"

UniqueInv ==
  /\ \A w \in Workers :
       pc[w] = "dispatch" => job[w].outcome = "dispatched"
  /\ \A w \in Workers, k \in 1 .. NTasks :
       Carries(w, k) =>
         /\ job[w].attempt <= tasks[k].attempt
         /\ \A v \in Workers : v # w /\ Carries(v, k) => job[v].attempt # job[w].attempt
         /\ \A i \in DOMAIN dispatches :
              dispatches[i].task = k => dispatches[i].attempt # job[w].attempt
  /\ \A i \in DOMAIN dispatches :
       dispatches[i].attempt <= tasks[dispatches[i].task].attempt
  /\ AttemptsUnique

\* Initially no handler carries a number and none is published.
LEMMA InitUnique == Init => UniqueInv
BY DEF Init, UniqueInv, AttemptsUnique, Carries

\* What the type invariant says of one tasks.dispatch message.
LEMMA DispatchTypes ==
  ASSUME TypeOK, NEW i \in DOMAIN dispatches
  PROVE  dispatches[i].task \in 1 .. NTasks /\ dispatches[i].attempt \in Nat
<1>1. dispatches[i] \in DispatchType
  BY TypeOKFolded
<1> QED BY <1>1 DEF DispatchType

\* A step that publishes nothing and lets no handler carry a new number.
LEMMA NoNewNumber ==
  ASSUME TInv, UniqueInv, [Next]_vars, UNCHANGED dispatches,
         \A w \in Workers : pc'[w] = "dispatch" => job'[w].outcome = "dispatched",
         \A w \in Workers, k \in 1 .. NTasks :
           Carries(w, k)' => Carries(w, k) /\ job'[w].attempt = job[w].attempt
  PROVE  UniqueInv'
<1>1. \A k \in 1 .. NTasks : /\ tasks'[k].attempt >= tasks[k].attempt
                             /\ tasks[k].attempt \in Nat /\ tasks'[k].attempt \in Nat
  BY AttemptsGrow
<1>2. \A w \in Workers : job[w].attempt \in Nat
  BY HandlerTypes
<1>3. ASSUME NEW w \in Workers, NEW k \in 1 .. NTasks, Carries(w, k)'
      PROVE  /\ job'[w].attempt <= tasks'[k].attempt
             /\ \A v \in Workers : v # w /\ Carries(v, k)' => job'[v].attempt # job'[w].attempt
             /\ \A i \in DOMAIN dispatches' :
                  dispatches'[i].task = k => dispatches'[i].attempt # job'[w].attempt
  BY <1>1, <1>2, <1>3 DEF UniqueInv
<1>4. ASSUME NEW i \in DOMAIN dispatches'
      PROVE  dispatches'[i].attempt <= tasks'[dispatches'[i].task].attempt
  BY <1>1, DispatchTypes DEF UniqueInv, TInv
<1>5. AttemptsUnique'
  BY DEF UniqueInv, AttemptsUnique
<1> QED BY <1>3, <1>4, <1>5 DEF UniqueInv

\* The number drawn by an increment is larger than every other of the task.
LEMMA IncrementUnique ==
  ASSUME TInv, UniqueInv, [Next]_vars, NEW w \in Workers, IncrementRunAttempt(w)
  PROVE  UniqueInv'
<1> DEFINE k == job[w].msg
<1>t. pc \in [Workers -> PCs] /\ job \in [Workers -> JobType]
  BY TypeOKFolded DEF TInv
<1>1. k \in 1 .. NTasks /\ tasks[k].attempt \in Nat /\ UNCHANGED dispatches
  BY HandlerTypes DEF IncrementRunAttempt
<1>2. /\ tasks'[k].attempt = tasks[k].attempt + 1
      /\ \A l \in 1 .. NTasks : l # k => tasks'[l] = tasks[l]
  BY RowUpdates
<1>3. CASE Nak(w)
  <2>1. /\ \A v \in Workers : v # w => pc'[v] = pc[v] /\ job'[v] = job[v]
        /\ pc'[w] = "idle"
    BY <1>t, <1>3 DEF Nak, Leave
  <2>2. \A v \in Workers, l \in 1 .. NTasks :
          Carries(v, l)' => Carries(v, l) /\ job'[v].attempt = job[v].attempt
    BY <2>1 DEF Carries
  <2>3. \A v \in Workers : pc'[v] = "dispatch" => job'[v].outcome = "dispatched"
    BY <2>1 DEF UniqueInv
  <2> QED BY <1>1, <2>2, <2>3, NoNewNumber
<1>4. CASE ~Nak(w)
  <2>1. /\ \A v \in Workers : v # w => pc'[v] = pc[v] /\ job'[v] = job[v]
        /\ pc'[w] = "policy" /\ job'[w] = Job(k, tasks[k].attempt + 1, "failed")
    BY <1>t, <1>4 DEF IncrementRunAttempt, Goto
  <2>2. job'[w].msg = k /\ job'[w].attempt = tasks[k].attempt + 1
    BY <2>1 DEF Job
  <2>3. ASSUME NEW v \in Workers, v # w, NEW l \in 1 .. NTasks
        PROVE  /\ Carries(v, l)' = Carries(v, l) /\ job'[v].attempt = job[v].attempt
               /\ job[v].attempt \in Nat
               /\ Carries(v, l) => job[v].attempt <= tasks[l].attempt
    BY <2>1, <2>3, HandlerTypes DEF Carries, UniqueInv
  <2>4. ASSUME NEW i \in DOMAIN dispatches
        PROVE  /\ dispatches[i].task \in 1 .. NTasks /\ dispatches[i].attempt \in Nat
               /\ dispatches[i].attempt <= tasks[dispatches[i].task].attempt
               /\ tasks[dispatches[i].task].attempt \in Nat
               /\ tasks'[dispatches[i].task].attempt >= tasks[dispatches[i].task].attempt
    BY DispatchTypes, AttemptsGrow DEF UniqueInv, TInv
  <2>5. ASSUME NEW v \in Workers, NEW l \in 1 .. NTasks, Carries(v, l)'
        PROVE  /\ job'[v].attempt <= tasks'[l].attempt
               /\ \A u \in Workers : u # v /\ Carries(u, l)' => job'[u].attempt # job'[v].attempt
               /\ \A i \in DOMAIN dispatches' :
                    dispatches'[i].task = l => dispatches'[i].attempt # job'[v].attempt
    <3>1. CASE v = w
      <4>1. l = k
        BY <2>2, <2>5, <3>1 DEF Carries
      <4>2. job'[v].attempt <= tasks'[l].attempt
        BY <1>1, <1>2, <2>2, <3>1, <4>1
      <4>3. \A u \in Workers : u # v /\ Carries(u, l)' => job'[u].attempt # job'[v].attempt
        BY <1>1, <2>2, <2>3, <3>1, <4>1
      <4>4. \A i \in DOMAIN dispatches' :
              dispatches'[i].task = l => dispatches'[i].attempt # job'[v].attempt
        BY <1>1, <2>2, <2>4, <3>1, <4>1
      <4> QED BY <4>2, <4>3, <4>4
    <3>2. CASE v # w
      <4>1. Carries(v, l) /\ job'[v].attempt = job[v].attempt /\ job[v].attempt \in Nat
        BY <2>3, <2>5, <3>2
      <4>2. job'[v].attempt <= tasks'[l].attempt
        <5>1. tasks[l].attempt \in Nat /\ tasks'[l].attempt \in Nat
              /\ tasks'[l].attempt >= tasks[l].attempt
          BY AttemptsGrow
        <5> QED BY <2>3, <3>2, <4>1, <5>1
      <4>3. ASSUME NEW u \in Workers, u # v, Carries(u, l)'
            PROVE  job'[u].attempt # job'[v].attempt
        <5>1. CASE u = w
          <6>1. l = k
            BY <2>2, <4>3, <5>1 DEF Carries
          <6> QED BY <1>1, <2>2, <2>3, <3>2, <4>1, <5>1, <6>1
        <5>2. CASE u # w
          BY <2>3, <4>1, <4>3, <5>2 DEF UniqueInv
        <5> QED BY <5>1, <5>2
      <4>4. \A i \in DOMAIN dispatches' :
              dispatches'[i].task = l => dispatches'[i].attempt # job'[v].attempt
        BY <1>1, <4>1 DEF UniqueInv
      <4> QED BY <4>2, <4>3, <4>4
    <3> QED BY <3>1, <3>2
  <2>6. ASSUME NEW i \in DOMAIN dispatches'
        PROVE  dispatches'[i].attempt <= tasks'[dispatches'[i].task].attempt
    <3>1. tasks'[dispatches[i].task].attempt \in Nat
      BY <1>1, <2>4, <2>6, AttemptsGrow
    <3> QED BY <1>1, <2>4, <2>6, <3>1
  <2>7. AttemptsUnique'
    BY <1>1 DEF UniqueInv, AttemptsUnique
  <2>8. \A v \in Workers : pc'[v] = "dispatch" => job'[v].outcome = "dispatched"
    BY <2>1 DEF UniqueInv
  <2> QED BY <2>5, <2>6, <2>7, <2>8 DEF UniqueInv
<1> QED BY <1>3, <1>4

\* Publishing hands the number over from the handler to the stream.
LEMMA PublishUnique ==
  ASSUME TInv, UniqueInv, [Next]_vars, NEW w \in Workers, PublishDispatch(w)
  PROVE  UniqueInv'
<1> DEFINE k == job[w].msg
           d == [task |-> k, attempt |-> job[w].attempt]
           n == Len(dispatches)
<1>1. /\ k \in 1 .. NTasks /\ pc[w] = "dispatch" /\ UNCHANGED <<tasks, job>>
      /\ job[w].attempt \in Nat /\ Carries(w, k)
      /\ dispatches' = Append(dispatches, d) \/ UNCHANGED dispatches
  BY HandlerTypes DEF PublishDispatch, Carries
<1>2. /\ \A v \in Workers : v # w => pc'[v] = pc[v]
      /\ pc'[w] = "announce"
  BY DEF PublishDispatch, Goto, TInv, TypeOK
<1>3. \A v \in Workers, l \in 1 .. NTasks : Carries(v, l)' => v # w /\ Carries(v, l)
  BY <1>1, <1>2 DEF Carries
<1>4. \A v \in Workers : pc'[v] = "dispatch" => job'[v].outcome = "dispatched"
  BY <1>1, <1>2 DEF UniqueInv
<1>5. CASE UNCHANGED dispatches
  BY <1>1, <1>3, <1>4, <1>5, NoNewNumber
<1>6. CASE dispatches' = Append(dispatches, d)
  <2>1. /\ n \in Nat /\ DOMAIN dispatches = 1 .. n /\ DOMAIN dispatches' = 1 .. (n + 1)
        /\ \A i \in 1 .. n : dispatches'[i] = dispatches[i]
        /\ dispatches'[n + 1].task = k /\ dispatches'[n + 1].attempt = job[w].attempt
    BY <1>6, TypeOKFolded DEF TInv
  <2> HIDE DEF n, d, k
  <2>2. ASSUME NEW v \in Workers, NEW l \in 1 .. NTasks, Carries(v, l)'
        PROVE  /\ job'[v].attempt <= tasks'[l].attempt
               /\ \A u \in Workers : u # v /\ Carries(u, l)' => job'[u].attempt # job'[v].attempt
               /\ \A i \in DOMAIN dispatches' :
                    dispatches'[i].task = l => dispatches'[i].attempt # job'[v].attempt
    <3>1. v # w /\ Carries(v, l)
      BY <1>3, <2>2
    <3>2. job'[v].attempt <= tasks'[l].attempt
      BY <1>1, <3>1 DEF UniqueInv
    <3>3. \A u \in Workers : u # v /\ Carries(u, l)' => job'[u].attempt # job'[v].attempt
      BY <1>1, <1>3, <3>1 DEF UniqueInv
    <3>4. ASSUME NEW i \in 1 .. (n + 1), dispatches'[i].task = l
          PROVE  dispatches'[i].attempt # job'[v].attempt
      <4>1. CASE i \in 1 .. n
        BY <1>1, <2>1, <3>1, <3>4, <4>1 DEF UniqueInv
      <4>2. CASE i = n + 1
        BY <1>1, <2>1, <3>1, <3>4, <4>2 DEF UniqueInv
      <4> QED BY <2>1, <4>1, <4>2
    <3> QED BY <2>1, <3>2, <3>3, <3>4
  <2>3. ASSUME NEW i \in 1 .. (n + 1)
        PROVE  dispatches'[i].attempt <= tasks'[dispatches'[i].task].attempt
    <3>1. CASE i \in 1 .. n
      BY <1>1, <2>1, <3>1 DEF UniqueInv
    <3>2. CASE i = n + 1
      BY <1>1, <2>1, <3>2 DEF UniqueInv
    <3> QED BY <2>1, <3>1, <3>2
  <2>4. ASSUME NEW i \in 1 .. (n + 1), NEW j \in 1 .. (n + 1),
               dispatches'[i].task = dispatches'[j].task,
               dispatches'[i].attempt = dispatches'[j].attempt
        PROVE  i = j
    <3>1. \A m \in 1 .. n : dispatches[m].task = k => dispatches[m].attempt # job[w].attempt
      BY <1>1, <2>1 DEF UniqueInv
    <3>2. CASE i \in 1 .. n /\ j \in 1 .. n
      BY <2>1, <2>4, <3>2 DEF UniqueInv, AttemptsUnique
    <3>3. CASE i = n + 1 \/ j = n + 1
      BY <2>1, <2>4, <3>1, <3>3
    <3> QED BY <2>1, <3>2, <3>3
  <2>5. AttemptsUnique'
    BY <2>1, <2>4 DEF AttemptsUnique
  <2> QED BY <1>4, <2>1, <2>2, <2>3, <2>5 DEF UniqueInv
<1> QED BY <1>1, <1>5, <1>6

\* The uniqueness of attempt numbers is inductive.
LEMMA NextUnique == TInv /\ UniqueInv /\ [Next]_vars => UniqueInv'
<1> SUFFICES ASSUME TInv, UniqueInv, [Next]_vars PROVE UniqueInv'
  OBVIOUS
<1>t. pc \in [Workers -> PCs] /\ job \in [Workers -> JobType]
  BY TypeOKFolded DEF TInv
<1>1. CASE UNCHANGED <<tasks, dispatches, announced, pc, job>>
  BY <1>1, NoNewNumber DEF Carries, UniqueInv
<1>2. ASSUME NEW w \in Workers,
             \/ Release(w) \/ GetTask(w)
             \/ /\ pc[w] = "policy" /\ PolicyDecides(w)
                /\ UNCHANGED <<dispatches, announced>>
             \/ UpdateTaskStatus(w) \/ PublishLifecycle(w)
      PROVE  UniqueInv'
  <2>1. /\ \A v \in Workers : v # w => pc'[v] = pc[v] /\ job'[v] = job[v]
        /\ UNCHANGED dispatches
    BY <1>t, <1>2 DEF Release, GetTask, Goto, PolicyDecides, UpdateTaskStatus, PublishLifecycle
  <2>2. /\ \A k \in 1 .. NTasks :
             Carries(w, k)' => Carries(w, k) /\ job'[w].attempt = job[w].attempt
        /\ pc'[w] = "dispatch" => job'[w].outcome = "dispatched"
    <3>1. CASE Release(w)
      BY <1>t, <3>1 DEF Release, Carries
    <3>2. CASE GetTask(w)
      <4>1. /\ job' = [job EXCEPT ![w] = Job(@.msg, tasks[@.msg].attempt, "failed")]
            /\ pc' = [pc EXCEPT ![w] = IF tasks[job[w].msg].attempt >= MaxRetries
                                       THEN "mark" ELSE "increment"]
        BY <3>2 DEF GetTask, Goto
      <4>2. pc'[w] \in {"mark", "increment"} /\ job'[w].outcome = "failed"
        BY <1>t, <4>1 DEF Job
      <4> QED BY <4>2 DEF Carries
    <3>3. CASE pc[w] = "policy" /\ PolicyDecides(w)
      <4>1. PICK o \in {"dispatched", "rejected"} :
              job' = [job EXCEPT ![w] = Job(@.msg, @.attempt, o)]
        BY <3>3 DEF PolicyDecides
      <4>2. /\ job'[w].msg = job[w].msg /\ job'[w].attempt = job[w].attempt
            /\ pc'[w] = "mark"
        BY <1>t, <3>3, <4>1 DEF Job, PolicyDecides, Goto
      <4> QED BY <3>3, <4>2 DEF Carries
    <3>4. CASE UpdateTaskStatus(w)
      <4>1. /\ pc[w] = "mark" /\ UNCHANGED job
            /\ pc'[w] = IF job[w].outcome = "dispatched" THEN "dispatch" ELSE "announce"
        BY <1>t, <3>4 DEF UpdateTaskStatus, Goto
      <4> QED BY <4>1 DEF Carries
    <3>5. CASE PublishLifecycle(w)
      <4>1. pc'[w] = "ack"
        BY <1>t, <3>5 DEF PublishLifecycle, Goto
      <4> QED BY <4>1 DEF Carries
    <3> QED BY <1>2, <3>1, <3>2, <3>3, <3>4, <3>5
  <2>3. \A v \in Workers, k \in 1 .. NTasks :
          Carries(v, k)' => Carries(v, k) /\ job'[v].attempt = job[v].attempt
    BY <2>1, <2>2 DEF Carries
  <2>4. \A v \in Workers : pc'[v] = "dispatch" => job'[v].outcome = "dispatched"
    BY <2>1, <2>2 DEF UniqueInv
  <2> QED BY <2>1, <2>3, <2>4, NoNewNumber
<1> QED BY <1>1, <1>2, NextCases, IncrementUnique, PublishUnique

\* No two tasks.dispatch messages of a task carry the same run_attempt, however
\* often tasks.created is redelivered and to however many workers: the loop
\* runner's idempotency keys, built from it, never collide.
THEOREM AttemptsUniqueCorrect == Spec => []AttemptsUnique
<1>1. Init => TInv /\ UniqueInv
  BY InitTInv, InitUnique
<1>2. TInv /\ UniqueInv /\ [Next]_vars => (TInv /\ UniqueInv)'
  BY NextTInv, NextUnique
<1>3. Spec => [](TInv /\ UniqueInv)
  BY <1>1, <1>2, PTL DEF Spec
<1> QED BY <1>3, PTL DEF UniqueInv

-----------------------------------------------------------------------------
(* How far the budget can be overdrawn.  It is read by GetTask and spent by  *)
(* IncrementRunAttempt: what is bounded is the number of attempts together   *)
(* with the workers that have read the budget and not drawn theirs yet.      *)

Drawing(k) == {w \in Workers : pc[w] = "increment" /\ job[w].msg = k}

BudgetInv ==
  \A k \in 1 .. NTasks :
    tasks[k].attempt + Cardinality(Drawing(k)) <= MaxRetries + Cardinality(Workers) - 1

\* The sets that are counted are finite, and there is at least one worker.
LEMMA FiniteDrawing ==
  ASSUME NEW k
  PROVE  /\ IsFiniteSet(Drawing(k)) /\ Cardinality(Drawing(k)) \in Nat
         /\ Cardinality(Drawing(k)) <= Cardinality(Workers)
         /\ Cardinality(Workers) \in Nat /\ MaxRetries \in Nat \ {0}
         /\ Cardinality(Workers) >= 1
<1>1. IsFiniteSet(Drawing(k)) /\ Cardinality(Drawing(k)) <= Cardinality(Workers)
  BY ConstantsAssumption, FS_Subset DEF Drawing
<1>2. Cardinality(Workers) \in Nat /\ Cardinality(Workers) # 0
  BY ConstantsAssumption, FS_CardinalityType, FS_EmptySet
<1>3. Cardinality(Drawing(k)) \in Nat
  BY <1>1, FS_CardinalityType
<1> QED BY <1>1, <1>2, <1>3, ConstantsAssumption

\* The same after a step.
LEMMA FiniteDrawingPrime ==
  ASSUME NEW k
  PROVE  /\ IsFiniteSet(Drawing(k)') /\ Cardinality(Drawing(k)') \in Nat
         /\ Cardinality(Drawing(k)') <= Cardinality(Workers)
<1>1. IsFiniteSet(Drawing(k)') /\ Cardinality(Drawing(k)') <= Cardinality(Workers)
  BY ConstantsAssumption, FS_Subset DEF Drawing
<1> QED BY <1>1, FS_CardinalityType

\* Initially no attempt has been made.
LEMMA InitBudget == Init => BudgetInv
<1> SUFFICES ASSUME Init, NEW k \in 1 .. NTasks
             PROVE  tasks[k].attempt + Cardinality(Drawing(k))
                      <= MaxRetries + Cardinality(Workers) - 1
  BY DEF BudgetInv
<1>1. tasks[k].attempt = 0 /\ Drawing(k) = {}
  BY DEF Init, Drawing
<1> QED BY <1>1, FiniteDrawing, FS_EmptySet

\* The bound on attempts and drawing workers is inductive.
LEMMA NextBudget == TInv /\ BudgetInv /\ [Next]_vars => BudgetInv'
<1> SUFFICES ASSUME TInv, BudgetInv, [Next]_vars, NEW k \in 1 .. NTasks
             PROVE  tasks'[k].attempt + Cardinality(Drawing(k)')
                      <= MaxRetries + Cardinality(Workers) - 1
  BY DEF BudgetInv
<1>t. /\ pc \in [Workers -> PCs] /\ job \in [Workers -> JobType]
      /\ tasks[k].attempt \in Nat /\ tasks'[k].attempt \in Nat
      /\ tasks[k].attempt + Cardinality(Drawing(k)) <= MaxRetries + Cardinality(Workers) - 1
  BY TypeOKFolded, AttemptsGrow DEF TInv, BudgetInv
\* nobody starts to draw, and no attempt is counted
<1>1. ASSUME tasks'[k].attempt = tasks[k].attempt, Drawing(k)' \subseteq Drawing(k)
      PROVE  tasks'[k].attempt + Cardinality(Drawing(k)')
               <= MaxRetries + Cardinality(Workers) - 1
  <2>1. Cardinality(Drawing(k)') <= Cardinality(Drawing(k))
    BY <1>1, FiniteDrawing, FS_Subset
  <2> QED BY <1>t, <1>1, <2>1, FiniteDrawing, FiniteDrawingPrime
<1>2. CASE UNCHANGED <<tasks, dispatches, announced, pc, job>>
  BY <1>1, <1>2 DEF Drawing
<1>3. ASSUME NEW w \in Workers,
             \/ Release(w)
             \/ pc[w] = "policy" /\ PolicyDecides(w)
             \/ UpdateTaskStatus(w) \/ PublishDispatch(w) \/ PublishLifecycle(w)
      PROVE  tasks'[k].attempt + Cardinality(Drawing(k)')
               <= MaxRetries + Cardinality(Workers) - 1
  <2>1. tasks'[k].attempt = tasks[k].attempt
    BY <1>3, RowUpdates DEF Release, PolicyDecides, PublishDispatch, PublishLifecycle
  <2>2. /\ \A v \in Workers : v # w => pc'[v] = pc[v] /\ job'[v] = job[v]
        /\ pc'[w] # "increment"
    BY <1>t, <1>3 DEF Release, PolicyDecides, Goto, UpdateTaskStatus, PublishDispatch,
                      PublishLifecycle
  <2> QED BY <1>1, <2>1, <2>2 DEF Drawing
\* a worker that finds the budget spent, or finds it not spent
<1>4. ASSUME NEW w \in Workers, GetTask(w)
      PROVE  tasks'[k].attempt + Cardinality(Drawing(k)')
               <= MaxRetries + Cardinality(Workers) - 1
  <2>1. /\ UNCHANGED tasks
        /\ job' = [job EXCEPT ![w] = Job(@.msg, tasks[@.msg].attempt, "failed")]
        /\ pc' = [pc EXCEPT ![w] = IF tasks[job[w].msg].attempt >= MaxRetries
                                   THEN "mark" ELSE "increment"]
    BY <1>4 DEF GetTask, Goto
  <2>2. /\ \A v \in Workers : v # w => pc'[v] = pc[v] /\ job'[v] = job[v]
        /\ job'[w].msg = job[w].msg
        /\ pc'[w] = IF tasks[job[w].msg].attempt >= MaxRetries THEN "mark" ELSE "increment"
    BY <1>t, <2>1 DEF Job
  <2>3. CASE job[w].msg = k /\ ~(tasks[k].attempt >= MaxRetries)
    BY <1>t, <2>1, <2>3, FiniteDrawing, FiniteDrawingPrime
  <2>4. CASE ~(job[w].msg = k /\ ~(tasks[k].attempt >= MaxRetries))
    <3>1. Drawing(k)' \subseteq Drawing(k)
      BY <2>2, <2>4 DEF Drawing
    <3> QED BY <1>1, <2>1, <3>1
  <2> QED BY <2>3, <2>4
\* a worker that draws its attempt
<1>5. ASSUME NEW w \in Workers, IncrementRunAttempt(w)
      PROVE  tasks'[k].attempt + Cardinality(Drawing(k)')
               <= MaxRetries + Cardinality(Workers) - 1
  <2>1. /\ \A v \in Workers : v # w => pc'[v] = pc[v] /\ job'[v] = job[v]
        /\ pc[w] = "increment" /\ pc'[w] # "increment"
    BY <1>t, <1>5 DEF IncrementRunAttempt, Goto, Nak, Leave
  <2>2. CASE job[w].msg = k
    <3>1. Drawing(k)' = Drawing(k) \ {w} /\ w \in Drawing(k)
      BY <2>1, <2>2 DEF Drawing
    <3>2. Cardinality(Drawing(k)') = Cardinality(Drawing(k)) - 1
      BY <3>1, FiniteDrawing, FS_RemoveElement
    <3>3. tasks'[k].attempt = tasks[k].attempt + 1
      BY <1>5, <2>2, RowUpdates
    <3> QED BY <1>t, <3>2, <3>3, FiniteDrawing
  <2>3. CASE job[w].msg # k
    <3>1. Drawing(k)' = Drawing(k)
      BY <2>1, <2>3 DEF Drawing
    <3>2. tasks'[k] = tasks[k]
      BY <1>5, <2>3, RowUpdates
    <3> QED BY <1>1, <3>1, <3>2
  <2> QED BY <2>2, <2>3
<1> QED BY <1>2, <1>3, <1>4, <1>5, NextCases

\* Workers that hold deliveries of one message can overdraw its task's budget by
\* one attempt each beyond the first; a single worker never does.
THEOREM AttemptsBoundedCorrect == Spec => []AttemptsBounded
<1>1. Init => TInv /\ BudgetInv
  BY InitTInv, InitBudget
<1>2. TInv /\ BudgetInv /\ [Next]_vars => (TInv /\ BudgetInv)'
  BY NextTInv, NextBudget
<1>3. TInv /\ BudgetInv => AttemptsBounded
  <2> SUFFICES ASSUME TInv, BudgetInv, NEW k \in 1 .. NTasks
               PROVE  tasks[k].attempt <= MaxRetries + Cardinality(Workers) - 1
    BY TypeOKFolded DEF AttemptsBounded, TaskIds, TInv
  <2>1. tasks[k] \in RowType
    BY TypeOKFolded DEF TInv
  <2>2. tasks[k].attempt \in Nat
    BY <2>1 DEF RowType
  <2> QED BY <2>2, FiniteDrawing DEF BudgetInv
<1>4. Spec => [](TInv /\ BudgetInv)
  BY <1>1, <1>2, PTL DEF Spec
<1> QED BY <1>3, <1>4, PTL

-----------------------------------------------------------------------------
(* Tasks that disappear in silence.  A task is doomed from the moment its    *)
(* handler goes on to acknowledge with nothing published: the failure is     *)
(* counted then, and the acknowledgement itself costs no other.              *)

Unheard(k) ==
  /\ \A i \in DOMAIN dispatches : dispatches[i].task # k
  /\ \A o \in Outcomes : <<k, o>> \notin announced

Acking(k) == \E w \in Workers : pc[w] = "ack" /\ job[w].msg = k

Doomed == {k \in 1 .. NTasks : Unheard(k) /\ (created[k].st = "acked" \/ Acking(k))}

DoomedInv == Cardinality(Doomed) <= faults

\* The doomed tasks can be counted, before a step and after it.
LEMMA FiniteDoomed ==
  /\ IsFiniteSet(Doomed) /\ Cardinality(Doomed) \in Nat
  /\ IsFiniteSet(Doomed') /\ Cardinality(Doomed') \in Nat
<1>1. IsFiniteSet(1 .. NTasks)
  BY ConstantsAssumption, FS_Interval
<1>2. IsFiniteSet(Doomed) /\ IsFiniteSet(Doomed')
  BY <1>1, FS_Subset DEF Doomed
<1> QED BY <1>2, FS_CardinalityType

\* Events are never taken back.
LEMMA UnheardBefore ==
  ASSUME TInv, [Next]_vars, NEW k \in 1 .. NTasks, Unheard(k)' PROVE Unheard(k)
<1>1. CASE UNCHANGED <<dispatches, announced>>
  BY <1>1 DEF Unheard
<1>2. ASSUME NEW w \in Workers, PublishDispatch(w) PROVE Unheard(k)
  <2> DEFINE d == [task |-> job[w].msg, attempt |-> job[w].attempt]
  <2>1. /\ UNCHANGED announced
        /\ dispatches' = Append(dispatches, d) \/ UNCHANGED dispatches
    BY <1>2 DEF PublishDispatch
  <2>2. dispatches \in Seq(DispatchType)
    BY TypeOKFolded DEF TInv
  <2> HIDE DEF d
  <2>3. \A i \in DOMAIN dispatches : i \in DOMAIN dispatches' /\ dispatches'[i] = dispatches[i]
    BY <2>1, <2>2
  <2> QED BY <2>1, <2>3 DEF Unheard
<1>3. ASSUME NEW w \in Workers, PublishLifecycle(w) PROVE Unheard(k)
  BY <1>3 DEF PublishLifecycle, Unheard
<1> QED BY <1>1, <1>2, <1>3, NextCases
        DEF Release, GetTask, IncrementRunAttempt, UpdateTaskStatus

\* Only a handler that has passed its publishes acknowledges.
LEMMA AckedBefore ==
  ASSUME TInv, [Next]_vars, NEW k \in 1 .. NTasks, created'[k].st = "acked"
  PROVE  created[k].st = "acked" \/ Acking(k)
<1>t. created \in [Messages -> Delivery] /\ k \in Messages
  BY TypeOKFolded DEF TInv, Messages
<1>1. ASSUME NEW m \in Messages,
             created' = Delivered(created, m) \/ created' = Termed(created, m)
             \/ created' = Returned(created, m)
      PROVE  created[k].st = "acked"
  <2>1. m # k => created'[k] = created[k]
    BY <1>t, <1>1 DEF Delivered, Termed, Returned, Moved
  <2>2. m = k => created'[k] = created[k] \/ created'[k].st \in {"pending", "termed", "redeliver"}
    BY <1>t, <1>1 DEF Delivered, Termed, Returned, Moved
  <2> QED BY <2>1, <2>2
<1>2. CASE UNCHANGED created
  BY <1>2
<1>3. ASSUME NEW w \in Workers, AckMessage(w)
      PROVE  created[k].st = "acked" \/ Acking(k)
  <2>1. pc[w] = "ack" /\ created' = Acked(created, job[w].msg)
    BY <1>3 DEF AckMessage
  <2>2. job[w].msg # k => created'[k] = created[k]
    BY <1>t, <2>1 DEF Acked, Moved
  <2> QED BY <2>1, <2>2 DEF Acking
<1>4. ASSUME NEW w \in Workers, Nak(w), pc[w] \notin {"down", "idle"}
      PROVE  created[k].st = "acked"
  BY <1>1, <1>4, HandlerTypes DEF Nak
<1>5. ASSUME NEW w \in Workers, Handle(w)
      PROVE  created[k].st = "acked" \/ Acking(k)
  <2>1. CASE Deliver(w) \/ TermMalformed(w)
    BY <1>t, <1>1, <2>1, HandlerTypes DEF Deliver, TermMalformed
  <2>2. CASE IncrementRunAttempt(w) \/ EvaluatePolicy(w)
    BY <1>2, <1>4, <2>2 DEF IncrementRunAttempt, EvaluatePolicy, PolicyDecides
  <2>3. CASE GetTask(w) \/ UpdateTaskStatus(w) \/ PublishDispatch(w) \/ PublishLifecycle(w)
    BY <1>2, <2>3 DEF GetTask, UpdateTaskStatus, PublishDispatch, PublishLifecycle
  <2> QED BY <1>3, <1>5, <2>1, <2>2, <2>3 DEF Handle
<1>6. ASSUME NEW w \in Workers, StoreError(w) \/ AckLost(w) \/ Crash(w) \/ Restart(w)
      PROVE  created[k].st = "acked"
  BY <1>2, <1>4, <1>6 DEF StoreError, AckLost, Crash, Restart
<1>7. ASSUME NEW m \in DOMAIN created, AckWaitExpires(m) \/ HandlerTooSlow(m)
      PROVE  created[k].st = "acked"
  BY <1>t, <1>1, <1>7 DEF AckWaitExpires, HandlerTooSlow
<1> QED BY <1>2, <1>5, <1>6, <1>7 DEF Next, vars

\* A handler comes to its acknowledgement by way of its last publish.
LEMMA AckingBefore ==
  ASSUME TInv, [Next]_vars, NEW k \in 1 .. NTasks, Acking(k)'
  PROVE  Acking(k) \/ \E w \in Workers : PublishLifecycle(w) /\ job[w].msg = k
<1>t. pc \in [Workers -> PCs] /\ job \in [Workers -> JobType]
  BY TypeOKFolded DEF TInv
<1>1. PICK w \in Workers : pc'[w] = "ack" /\ job'[w].msg = k
  BY DEF Acking
<1>2. CASE pc'[w] = pc[w] /\ job'[w] = job[w]
  BY <1>1, <1>2 DEF Acking
<1>3. ASSUME NEW v \in Workers,
             \/ Release(v) \/ GetTask(v) \/ IncrementRunAttempt(v)
             \/ pc[v] = "policy" /\ PolicyDecides(v)
             \/ UpdateTaskStatus(v) \/ PublishDispatch(v)
      PROVE  pc'[w] = pc[w] /\ job'[w] = job[w]
  <2>1. pc'[v] # "ack"
    BY <1>t, <1>3 DEF Release, GetTask, IncrementRunAttempt, Nak, Leave, Goto, PolicyDecides,
                      UpdateTaskStatus, PublishDispatch
  <2>2. v # w
    BY <1>1, <2>1
  <2> QED BY <1>t, <1>3, <2>2
          DEF Release, GetTask, IncrementRunAttempt, Nak, Leave, Goto, PolicyDecides,
              UpdateTaskStatus, PublishDispatch
<1>4. ASSUME NEW v \in Workers, PublishLifecycle(v)
      PROVE  \/ pc'[w] = pc[w] /\ job'[w] = job[w]
             \/ PublishLifecycle(w) /\ job[w].msg = k
  BY <1>t, <1>1, <1>4 DEF PublishLifecycle, Goto
<1>5. CASE UNCHANGED <<pc, job>>
  BY <1>2, <1>5
<1> QED BY <1>2, <1>3, <1>4, <1>5, NextCases

\* No failure is forgotten.
LEMMA FaultsGrow ==
  ASSUME TInv, [Next]_vars PROVE faults \in Nat /\ faults' \in Nat /\ faults <= faults'
<1>1. faults \in Nat
  BY TypeOKFolded DEF TInv
<1>2. faults' = faults \/ faults' = faults + 1
  <2>1. ASSUME NEW w \in Workers, Handle(w) PROVE faults' = faults \/ faults' = faults + 1
    BY <2>1 DEF Handle, Fault, Deliver, TermMalformed, GetTask, IncrementRunAttempt,
                EvaluatePolicy, UpdateTaskStatus, PublishDispatch, PublishLifecycle, AckMessage
  <2>2. ASSUME NEW w \in Workers, StoreError(w) \/ AckLost(w) \/ Crash(w) \/ Restart(w)
        PROVE  faults' = faults \/ faults' = faults + 1
    BY <2>2 DEF Fault, StoreError, AckLost, Crash, Restart
  <2>3. ASSUME NEW m \in DOMAIN created, AckWaitExpires(m) \/ HandlerTooSlow(m)
        PROVE  faults' = faults \/ faults' = faults + 1
    BY <2>3 DEF Fault, AckWaitExpires, HandlerTooSlow
  <2> QED BY <2>1, <2>2, <2>3 DEF Next, vars
<1> QED BY <1>1, <1>2

\* Tasks are doomed one by one, each by a publish that failed.
LEMMA NextDoomed == TInv /\ DoomedInv /\ [Next]_vars => DoomedInv'
<1> SUFFICES ASSUME TInv, DoomedInv, [Next]_vars PROVE Cardinality(Doomed') <= faults'
  BY DEF DoomedInv
<1>1. ASSUME Doomed' \subseteq Doomed PROVE Cardinality(Doomed') <= faults'
  <2>1. Cardinality(Doomed') <= Cardinality(Doomed)
    BY <1>1, FiniteDoomed, FS_Subset
  <2> QED BY <2>1, FiniteDoomed, FaultsGrow DEF DoomedInv
<1>2. CASE \A k \in 1 .. NTasks, w \in Workers :
             PublishLifecycle(w) /\ job[w].msg = k => ~ Unheard(k)'
  BY <1>1, <1>2, UnheardBefore, AckedBefore, AckingBefore DEF Doomed
<1>3. ASSUME NEW k \in 1 .. NTasks, NEW w \in Workers,
             PublishLifecycle(w), job[w].msg = k, Unheard(k)'
      PROVE  Cardinality(Doomed') <= faults'
  <2>1. UNCHANGED announced /\ faults' = faults + 1 /\ UNCHANGED created
        /\ job[w].outcome \in Outcomes
    BY <1>3, HandlerTypes DEF PublishLifecycle, Unheard, Fault
  <2>2. ASSUME NEW l \in 1 .. NTasks, Acking(l)', l # k PROVE Acking(l)
    <3>1. /\ \A v \in Workers : v # w => pc'[v] = pc[v]
          /\ UNCHANGED job
      BY <1>3, TypeOKFolded DEF PublishLifecycle, Goto, TInv
    <3> QED BY <1>3, <2>2, <3>1 DEF Acking
  <2>3. Doomed' \subseteq Doomed \cup {k}
    BY <2>1, <2>2, UnheardBefore DEF Doomed
  <2>4. /\ IsFiniteSet(Doomed \cup {k})
        /\ Cardinality(Doomed \cup {k}) <= Cardinality(Doomed) + 1
        /\ Cardinality(Doomed \cup {k}) \in Nat
    <3> DEFINE D == Doomed
    <3>1. IsFiniteSet(D) /\ Cardinality(D) \in Nat
      BY FiniteDoomed
    <3> HIDE DEF D
    <3>2. /\ IsFiniteSet(D \cup {k})
          /\ Cardinality(D \cup {k}) = IF k \in D THEN Cardinality(D) ELSE Cardinality(D) + 1
      BY <3>1, FS_AddElement
    <3>3. /\ IsFiniteSet(D \cup {k}) /\ Cardinality(D \cup {k}) <= Cardinality(D) + 1
          /\ Cardinality(D \cup {k}) \in Nat
      BY <3>1, <3>2
    <3> QED BY <3>3 DEF D
  <2>5. Cardinality(Doomed') <= Cardinality(Doomed \cup {k})
    BY <2>3, <2>4, FS_Subset
  <2> QED BY <2>1, <2>4, <2>5, FiniteDoomed, FaultsGrow DEF DoomedInv
<1> QED BY <1>2, <1>3

\* A task whose message is acknowledged without any event having been published
\* has cost a failed publish of its own, with whatever workers, redeliveries and
\* crashes there were.
THEOREM SilentCorrect == Spec => []SilentBounded
<1>1. Init => TInv /\ DoomedInv
  <2> SUFFICES ASSUME Init PROVE DoomedInv
    BY InitTInv
  <2>1. Doomed = {} /\ faults = 0
    BY DEF Init, Doomed, Acking, Stored
  <2> QED BY <2>1, FS_EmptySet DEF DoomedInv
<1>2. TInv /\ DoomedInv /\ [Next]_vars => (TInv /\ DoomedInv)'
  BY NextTInv, NextDoomed
<1>3. TInv /\ DoomedInv => SilentBounded
  <2> SUFFICES ASSUME TInv, DoomedInv PROVE Cardinality(Silent) <= faults
    BY DEF SilentBounded
  <2>1. Silent \subseteq Doomed
    BY TypeOKFolded DEF TInv, Silent, Doomed, Unheard, TaskIds
  <2>2. Cardinality(Silent) <= Cardinality(Doomed) /\ Cardinality(Silent) \in Nat
    BY <2>1, FiniteDoomed, FS_Subset, FS_CardinalityType
  <2> QED BY <2>2, FiniteDoomed, TypeOKFolded DEF TInv, DoomedInv
<1>4. Spec => [](TInv /\ DoomedInv)
  BY <1>1, <1>2, PTL DEF Spec
<1> QED BY <1>3, <1>4, PTL

=============================================================================
