-------------------------- MODULE SessionScheduler --------------------------
(***************************************************************************)
(* services/session-scheduler: replicas of one process consume ingress     *)
(* events from STREAM_EVENTS, write them to Postgres with a per-session    *)
(* sequence number, and start a task for the session when none is active.  *)
(*                                                                         *)
(* One action per call the handler makes to Postgres or to NATS, because   *)
(* that is where another replica, a redelivery or a crash can get between  *)
(* two calls of HandleMessage.                                             *)
(***************************************************************************)
EXTENDS Naturals, Sequences, FiniteSets, JetStream

CONSTANTS
  Replicas,      \* running instances of session-scheduler
  Events,        \* stream sequence numbers of the ingress events
  Malformed,     \* the events whose body is not valid JSON
  Threads,       \* (tenant, connector, account, thread): the key of a session
  ThreadOf,      \* the thread each event belongs to
  MaxDeliver,    \* ConsumerConfig.MaxDeliver
  MaxFaults,     \* bound on errors, crashes, lost acks and early ack-wait expiries
  None           \* no event, no lock holder

ASSUME ConstantsAssumption ==
  /\ IsFiniteSet(Replicas) /\ Replicas # {} /\ None \notin Replicas
  /\ Events \subseteq Nat /\ None \notin Events
  /\ Malformed \subseteq Events
  /\ ThreadOf \in [Events -> Threads]
  /\ MaxDeliver \in Nat \ {0}
  /\ MaxFaults \in Nat

VARIABLES
  consumer,      \* delivery state of every ingress event
  nextSeq,       \* sessions.next_ingress_seq, 0 while the thread has no session row
  rowLock,       \* the replica whose transaction holds the session row
  ingress,       \* ingress_messages, in commit order
  tasks,         \* the tasks table, in insertion order (index = id)
  created,       \* the task-dispatcher's consumer of tasks.created
  pc, work,      \* where each replica's handler is, and the values it holds
  faults         \* faults so far

db   == <<nextSeq, rowLock, ingress, tasks>>
vars == <<consumer, nextSeq, rowLock, ingress, tasks, created, pc, work, faults>>

ActiveStatuses == {"new", "queued", "running", "waiting_approval"}
TaskStatuses   == ActiveStatuses \cup {"dispatched", "rejected", "failed"}

IngressRow == [thread : Threads, seq : Nat, event : Events]
Task       == [thread : Threads, row : Nat, status : TaskStatuses]

TaskRecord(t, i, st) == [thread |-> t, row |-> i, status |-> st]

PCs == {"down", "idle", "received", "insert", "persist", "commit", "check",
        "create", "publish", "ack"}

\* work[r].seq is the number returned by UPDATE ... RETURNING inside the open
\* transaction, .row the committed ingress message, .task the inserted task.
Work == [event : Events \cup {None}, seq : Nat, row : Nat, task : Nat]

Holding(e, s, i, k) == [event |-> e, seq |-> s, row |-> i, task |-> k]
NoWork == Holding(None, 0, 0, 0)

Init ==
  /\ consumer = [e \in Events |-> Stored]
  /\ nextSeq  = [t \in Threads |-> 0]
  /\ rowLock  = [t \in Threads |-> None]
  /\ ingress  = <<>>
  /\ tasks    = <<>>
  /\ created  = [k \in {} |-> Stored]
  /\ pc       = [r \in Replicas |-> "idle"]
  /\ work     = [r \in Replicas |-> NoWork]
  /\ faults   = 0

Thread(r) == ThreadOf[work[r].event]

\* The tasks ShouldCreateTask counts.
ActiveTasks(t) ==
  {k \in DOMAIN tasks : tasks[k].thread = t /\ tasks[k].status \in ActiveStatuses}

-----------------------------------------------------------------------------
(* How a handler moves on *)

Fault == faults < MaxFaults /\ faults' = faults + 1

Leave(r) ==
  /\ pc'   = [pc EXCEPT ![r] = "idle"]
  /\ work' = [work EXCEPT ![r] = NoWork]

\* Mutant of Nak: an error path that acknowledges.
NakMutant(r) == consumer' = Acked(consumer, work[r].event) /\ Leave(r)

\* msg.Nak(); return
Nak(r) == consumer' = Returned(consumer, work[r].event) /\ Leave(r)

\* The end of a call that has taken effect: the handler goes on with w, or the
\* connection breaks before the answer arrives and the handler naks.
Answer(r, next, w) ==
  \/ /\ pc'   = [pc EXCEPT ![r] = next]
     /\ work' = [work EXCEPT ![r] = w]
     /\ UNCHANGED <<consumer, faults>>
  \/ Fault /\ Nak(r)

Unlocked(r) == [t \in Threads |-> IF rowLock[t] = r THEN None ELSE rowLock[t]]

-----------------------------------------------------------------------------
(* The handler *)

\* consumer.Consume runs one callback at a time.  First deliveries come in
\* stream order, redeliveries whenever the server chooses.
Deliver(r) ==
  /\ pc[r] = "idle"
  /\ \E e \in Events :
       /\ Deliverable(consumer, e, MaxDeliver)
       /\ consumer[e].st = "stored" =>
            \A f \in Events : f < e => consumer[f].st # "stored"
       /\ consumer' = Delivered(consumer, e)
       /\ work' = [work EXCEPT ![r] = Holding(e, 0, 0, 0)]
  /\ pc' = [pc EXCEPT ![r] = "received"]
  /\ UNCHANGED <<db, created, faults>>

TermMalformed(r) ==
  /\ pc[r] = "received" /\ work[r].event \in Malformed
  /\ consumer' = Termed(consumer, work[r].event)
  /\ Leave(r)
  /\ UNCHANGED <<db, created, faults>>

\* ResolveSession, SELECT: the session exists, or it has to be inserted.
SelectSession(r) ==
  /\ pc[r] = "received" /\ work[r].event \notin Malformed
  /\ pc' = [pc EXCEPT ![r] = IF nextSeq[Thread(r)] = 0 THEN "insert" ELSE "persist"]
  /\ UNCHANGED <<consumer, db, created, work, faults>>

\* ResolveSession, INSERT: the unique key on the thread turns away the second
\* of two racing replicas, whose error sends the event back.
InsertSession(r) ==
  /\ pc[r] = "insert"
  /\ \/ /\ nextSeq[Thread(r)] = 0
        /\ nextSeq' = [nextSeq EXCEPT ![Thread(r)] = 1]
        /\ Answer(r, "persist", work[r])
     \/ /\ nextSeq[Thread(r)] # 0
        /\ Nak(r)
        /\ UNCHANGED <<nextSeq, faults>>
  /\ UNCHANGED <<rowLock, ingress, tasks, created>>

\* Mutant of IncrementSeq: SELECT next_ingress_seq, which takes no row lock.
IncrementSeqMutant(r) ==
  /\ pc[r] = "persist"
  /\ rowLock' = [rowLock EXCEPT ![Thread(r)] = r]
  /\ work'    = [work EXCEPT ![r] = Holding(@.event, nextSeq[Thread(r)], 0, 0)]
  /\ pc'      = [pc EXCEPT ![r] = "commit"]
  /\ UNCHANGED <<consumer, nextSeq, ingress, tasks, created, faults>>

\* PersistIngress up to the commit: UPDATE sessions ... RETURNING waits for the
\* row lock and keeps it; the new value is visible only after the commit.
IncrementSeq(r) ==
  /\ pc[r] = "persist" /\ rowLock[Thread(r)] = None
  /\ rowLock' = [rowLock EXCEPT ![Thread(r)] = r]
  /\ work'    = [work EXCEPT ![r] = Holding(@.event, nextSeq[Thread(r)], 0, 0)]
  /\ pc'      = [pc EXCEPT ![r] = "commit"]
  /\ UNCHANGED <<consumer, nextSeq, ingress, tasks, created, faults>>

\* PersistIngress, INSERT INTO ingress_messages and commit.
CommitIngress(r) ==
  /\ pc[r] = "commit"
  /\ nextSeq' = [nextSeq EXCEPT ![Thread(r)] = work[r].seq + 1]
  /\ ingress' = Append(ingress, [thread |-> Thread(r), seq |-> work[r].seq,
                                 event |-> work[r].event])
  /\ rowLock' = Unlocked(r)
  /\ Answer(r, "check", Holding(work[r].event, work[r].seq, Len(ingress) + 1, 0))
  /\ UNCHANGED <<tasks, created>>

\* Mutant of ShouldCreateTask: only RUNNING and WAITING_APPROVAL count, as the
\* comment in the store says.
ShouldCreateTaskMutant(r) ==
  /\ pc[r] = "check"
  /\ LET busy == \E k \in ActiveTasks(Thread(r)) :
                   tasks[k].status \in {"running", "waiting_approval"}
     IN pc' = [pc EXCEPT ![r] = IF busy THEN "ack" ELSE "create"]
  /\ UNCHANGED <<consumer, db, created, work, faults>>

ShouldCreateTask(r) ==
  /\ pc[r] = "check"
  /\ pc' = [pc EXCEPT ![r] = IF ActiveTasks(Thread(r)) = {} THEN "create" ELSE "ack"]
  /\ UNCHANGED <<consumer, db, created, work, faults>>

\* Mutant of CreateTask: the task is not announced.
CreateTaskMutant(r) ==
  /\ pc[r] = "create"
  /\ tasks' = Append(tasks, TaskRecord(Thread(r), work[r].row, "new"))
  /\ Answer(r, "ack", work[r])
  /\ UNCHANGED <<nextSeq, rowLock, ingress, created>>

CreateTask(r) ==
  /\ pc[r] = "create"
  /\ tasks' = Append(tasks, TaskRecord(Thread(r), work[r].row, "new"))
  /\ Answer(r, "publish", Holding(work[r].event, work[r].seq, work[r].row, Len(tasks) + 1))
  /\ UNCHANGED <<nextSeq, rowLock, ingress, created>>

\* Mutant of PublishCreated: the event carries an id that is not the task's.
PublishCreatedMutant(r) ==
  /\ pc[r] = "publish"
  /\ created' = Published(created, work[r].task + 1)
  /\ Answer(r, "ack", work[r])
  /\ UNCHANGED db

PublishCreated(r) ==
  /\ pc[r] = "publish"
  /\ created' = Published(created, work[r].task)
  /\ Answer(r, "ack", work[r])
  /\ UNCHANGED db

\* Mutant of AckMessage: a handler that returns without acknowledging.
AckMessageMutant(r) ==
  /\ pc[r] = "ack"
  /\ Leave(r)
  /\ UNCHANGED <<consumer, db, created, faults>>

AckMessage(r) ==
  /\ pc[r] = "ack"
  /\ consumer' = Acked(consumer, work[r].event)
  /\ Leave(r)
  /\ UNCHANGED <<db, created, faults>>

-----------------------------------------------------------------------------
(* Failures *)

\* Mutant of StoreError: without the deferred Rollback the row lock stays.
StoreErrorMutant(r) ==
  /\ \/ pc[r] \in {"insert", "persist", "commit", "check", "create", "publish"}
     \/ pc[r] = "received" /\ work[r].event \notin Malformed
  /\ Fault /\ Nak(r)
  /\ UNCHANGED <<db, created>>

\* A call fails without effect; inside PersistIngress the deferred Rollback
\* gives the row lock back.
StoreError(r) ==
  /\ \/ pc[r] \in {"insert", "persist", "commit", "check", "create", "publish"}
     \/ pc[r] = "received" /\ work[r].event \notin Malformed
  /\ Fault /\ Nak(r)
  /\ rowLock' = Unlocked(r)
  /\ UNCHANGED <<nextSeq, ingress, tasks, created>>

\* msg.Ack() is not confirmed: the acknowledgement may be lost.
AckLost(r) ==
  /\ pc[r] = "ack"
  /\ Fault /\ Leave(r)
  /\ UNCHANGED <<consumer, db, created>>

\* The process dies; Postgres rolls its open transaction back.
Crash(r) ==
  /\ pc[r] # "down" /\ Fault
  /\ pc'   = [pc EXCEPT ![r] = "down"]
  /\ work' = [work EXCEPT ![r] = NoWork]
  /\ rowLock' = Unlocked(r)
  /\ UNCHANGED <<consumer, nextSeq, ingress, tasks, created>>

Restart(r) ==
  /\ pc[r] = "down"
  /\ pc' = [pc EXCEPT ![r] = "idle"]
  /\ UNCHANGED <<consumer, db, created, work, faults>>

\* Ack-wait (30s) of an event no live handler holds.
AckWaitExpires(e) ==
  /\ consumer[e].st = "pending"
  /\ \A r \in Replicas : work[r].event # e
  /\ consumer' = Returned(consumer, e)
  /\ UNCHANGED <<db, created, pc, work, faults>>

\* Ack-wait of an event whose handler is still working on it.
HandlerTooSlow(e) ==
  /\ consumer[e].st = "pending" /\ Fault
  /\ \E r \in Replicas : work[r].event = e
  /\ consumer' = Returned(consumer, e)
  /\ UNCHANGED <<db, created, pc, work>>

\* The consumer is created with a Name and no Durable: with no replica pulling
\* the server drops it, and the next replica starts again with the whole
\* stream (deliver all), whose limits retention has kept every event.
ConsumerDropped ==
  /\ \A r \in Replicas : pc[r] = "down"
  /\ Fault
  /\ consumer' = [e \in Events |-> Stored]
  /\ UNCHANGED <<db, created, pc, work>>

-----------------------------------------------------------------------------
(* The task-dispatcher, as far as the scheduler can see it: it takes a      *)
(* published task out of the active statuses.                               *)
DispatcherUpdates(k) ==
  /\ k \in DOMAIN created /\ tasks[k].status = "new"
  /\ \E st \in {"dispatched", "rejected", "failed"} :
       tasks' = [tasks EXCEPT ![k] = TaskRecord(@.thread, @.row, st)]
  /\ UNCHANGED <<consumer, nextSeq, rowLock, ingress, created, pc, work, faults>>

Handle(r) ==
  \/ Deliver(r) \/ TermMalformed(r) \/ SelectSession(r) \/ InsertSession(r)
  \/ IncrementSeq(r) \/ CommitIngress(r) \/ ShouldCreateTask(r)
  \/ CreateTask(r) \/ PublishCreated(r) \/ AckMessage(r)

Scheduler ==
  \/ \E r \in Replicas :
       Handle(r) \/ StoreError(r) \/ AckLost(r) \/ Crash(r) \/ Restart(r)
  \/ \E e \in Events : AckWaitExpires(e) \/ HandlerTooSlow(e)
  \/ ConsumerDropped

Next == Scheduler \/ \E k \in DOMAIN tasks : DispatcherUpdates(k)

Spec == Init /\ [][Next]_vars

\* A live replica keeps pulling and its handler keeps going, a dead one is
\* restarted by its container, and the server's timers fire.
Fairness ==
  /\ \A r \in Replicas : WF_vars(Handle(r)) /\ WF_vars(Restart(r))
  /\ \A e \in Events : WF_vars(AckWaitExpires(e))

FairSpec == Spec /\ Fairness

-----------------------------------------------------------------------------
(* Properties *)

\* Every variable stays within its type.
TypeOK ==
  /\ consumer \in [Events -> Delivery]
  /\ nextSeq \in [Threads -> Nat]
  /\ rowLock \in [Threads -> Replicas \cup {None}]
  /\ ingress \in Seq(IngressRow)
  /\ tasks \in Seq(Task)
  /\ DOMAIN created \subseteq DOMAIN tasks /\ created \in [DOMAIN created -> Delivery]
  /\ pc \in [Replicas -> PCs]
  /\ work \in [Replicas -> Work]
  /\ faults \in Nat

\* The ingress messages of a session are numbered 1, 2, 3, ... without gap or
\* repetition in the order they were committed, and next_ingress_seq is the
\* first free number, whatever races, rolled back transactions and crashes
\* PersistIngress went through.
SeqContiguous ==
  /\ \A i, j \in DOMAIN ingress :
       i < j /\ ingress[i].thread = ingress[j].thread => ingress[i].seq < ingress[j].seq
  /\ \A i \in DOMAIN ingress :
       1 <= ingress[i].seq /\ ingress[i].seq < nextSeq[ingress[i].thread]
  /\ \A t \in Threads : \A n \in 1 .. (nextSeq[t] - 1) :
       \E i \in DOMAIN ingress : ingress[i].thread = t /\ ingress[i].seq = n

\* ShouldCreateTask and CreateTask are two statements, so replicas can race;
\* but each replica can be wrong about a session only once at a time: a session
\* never has more active tasks than there are replicas (with one replica, never
\* more than one).
ActiveTasksBounded ==
  \A t \in Threads : Cardinality(ActiveTasks(t)) <= Cardinality(Replicas)

\* A task nobody has announced and no handler will announce: it stays "new" and
\* keeps its session from ever getting another task.
Orphans ==
  {k \in DOMAIN tasks : /\ k \notin DOMAIN created
                        /\ \A r \in Replicas : work[r].task # k}

\* One failure (a failed publish, a crash between CreateTask and Publish) loses
\* at most one announcement; without a failure none is lost.
OrphansBounded == Cardinality(Orphans) <= faults

\* PersistIngress does not deduplicate redelivered events; each failure adds at
\* most one more row for an event, and without a failure there is exactly one.
DuplicatesBounded ==
  \A e \in Events :
    Cardinality({i \in DOMAIN ingress : ingress[i].event = e}) <= 1 + faults

\* The promise to connectors: an event leaves the stream only after it has been
\* written to the log of its session, the log only grows at its end, and each
\* log entry starts at most one task, of its own session.
Log == INSTANCE IngressLog WITH
  log     <- [t \in Threads |->
               [n \in 1 .. (IF nextSeq[t] = 0 THEN 0 ELSE nextSeq[t] - 1) |->
                 ingress[CHOOSE i \in DOMAIN ingress :
                           ingress[i].thread = t /\ ingress[i].seq = n].event]],
  started <- {<<tasks[k].thread, ingress[tasks[k].row].seq>> : k \in DOMAIN tasks},
  settled <- {e \in Events : Settled(consumer, e)}

LogSpec == Log!Spec

\* As long as the failures do not use up MaxDeliver, every event is eventually
\* acknowledged (or terminated) for good.
EventuallySettled == \A e \in Events : <>[]Settled(consumer, e)

\* RFC-001 section 10.2: a task is created only when the session has no active
\* one.
OneActiveTask == \A t \in Threads : Cardinality(ActiveTasks(t)) <= 1

\* RFC-001 section 10.2: the scheduler selects the next unprocessed ingress
\* message of a session, so every recorded message is eventually given a task.
EveryMessageGetsTask ==
  \A i \in 1 .. Cardinality(Events) :
    (i \in DOMAIN ingress) ~> (\E k \in DOMAIN tasks : tasks[k].row = i)

=============================================================================
