--------------------------- MODULE TaskDispatcher ---------------------------
(***************************************************************************)
(* services/task-dispatcher: workers (replicas of the process) consume     *)
(* tasks.created from a JetStream work queue, count a run attempt, ask the *)
(* policy evaluator, and dispatch, reject or fail the task.                *)
(*                                                                         *)
(* As in SessionScheduler, every call to Postgres, NATS or the policy      *)
(* evaluator is an action.  The handler ignores the errors of its status   *)
(* update and of its publishes, and acknowledges all the same.             *)
(***************************************************************************)
EXTENDS Naturals, Sequences, FiniteSets, JetStream

CONSTANTS
  Workers,         \* running instances of task-dispatcher
  NTasks,          \* tasks 1 .. NTasks have been created and announced
  Malformed,       \* messages without a readable task_id
  PolicyAnswers,   \* what the policy evaluator may answer, a set of Answers
  MaxRetries,      \* tasks.max_retries
  MaxDeliver,      \* ConsumerConfig.MaxDeliver
  MaxFaults,       \* bound on errors, crashes, lost acks and early ack-wait expiries
  None             \* no message

\* "allow" and "deny" come with status 200; "forbidden" is the status 403 with
\* which policy-evaluator answers every denial; "unavailable" is a time-out or
\* another status.
Answers == {"allow", "deny", "forbidden", "unavailable"}

ASSUME ConstantsAssumption ==
  /\ IsFiniteSet(Workers) /\ Workers # {}
  /\ NTasks \in Nat
  /\ \A m \in Malformed : m \notin Nat /\ m # None
  /\ None \notin Nat
  /\ PolicyAnswers \subseteq Answers
  /\ MaxRetries \in Nat \ {0}
  /\ MaxDeliver \in Nat \ {0}
  /\ MaxFaults \in Nat

VARIABLES
  tasks,       \* the tasks table: status and run_attempt of every task id
  created,     \* the consumer of tasks.created, a message per task id
  dispatches,  \* tasks.dispatch messages, in stream order
  announced,   \* lifecycle events published: <<task, subject>>
  pc, job,     \* where each worker's handler is, and the values it holds
  faults

vars == <<tasks, created, dispatches, announced, pc, job, faults>>

Outcomes == {"dispatched", "rejected", "failed"}

PCs == {"down", "idle", "load", "increment", "policy", "mark", "dispatch",
        "announce", "ack"}

Row(st, n) == [status |-> st, attempt |-> n]

Job(m, n, o) == [msg |-> m, attempt |-> n, outcome |-> o]
NoJob == Job(None, 0, "failed")

Fault == faults < MaxFaults /\ faults' = faults + 1

Leave(w) ==
  /\ pc'  = [pc EXCEPT ![w] = "idle"]
  /\ job' = [job EXCEPT ![w] = NoJob]

\* msg.Nak(); return
Nak(w) == created' = Returned(created, job[w].msg) /\ Leave(w)

Goto(w, next) == pc' = [pc EXCEPT ![w] = next]

-----------------------------------------------------------------------------
(* The handler *)

Deliver(w) ==
  /\ pc[w] = "idle"
  /\ \E m \in DOMAIN created :
       /\ Deliverable(created, m, MaxDeliver)
       /\ created' = Delivered(created, m)
       /\ job' = [job EXCEPT ![w] = Job(m, 0, "failed")]
  /\ Goto(w, "load")
  /\ UNCHANGED <<tasks, dispatches, announced, faults>>

TermMalformed(w) ==
  /\ pc[w] = "load" /\ job[w].msg \in Malformed
  /\ created' = Termed(created, job[w].msg)
  /\ Leave(w)
  /\ UNCHANGED <<tasks, dispatches, announced, faults>>

\* Mutant of GetTask: "<=" for "<", one attempt more than the budget.
GetTaskMutant(w) ==
  /\ pc[w] = "load" /\ job[w].msg \notin Malformed
  /\ LET exhausted == tasks[job[w].msg].attempt > MaxRetries
     IN  /\ Goto(w, IF exhausted THEN "mark" ELSE "increment")
         /\ job' = [job EXCEPT ![w] = Job(@.msg, tasks[@.msg].attempt, "failed")]
  /\ UNCHANGED <<tasks, created, dispatches, announced, faults>>

\* Mutant of GetTask: the last attempt is given up before it is made.
GetTaskEagerMutant(w) ==
  /\ pc[w] = "load" /\ job[w].msg \notin Malformed
  /\ LET exhausted == tasks[job[w].msg].attempt >= MaxRetries - 1
     IN  /\ Goto(w, IF exhausted THEN "mark" ELSE "increment")
         /\ job' = [job EXCEPT ![w] = Job(@.msg, tasks[@.msg].attempt, "failed")]
  /\ UNCHANGED <<tasks, created, dispatches, announced, faults>>

\* GetTask and the retry budget: task.RunAttempt >= task.MaxRetries gives up.
GetTask(w) ==
  /\ pc[w] = "load" /\ job[w].msg \notin Malformed
  /\ LET exhausted == tasks[job[w].msg].attempt >= MaxRetries
     IN  /\ Goto(w, IF exhausted THEN "mark" ELSE "increment")
         /\ job' = [job EXCEPT ![w] = Job(@.msg, tasks[@.msg].attempt, "failed")]
  /\ UNCHANGED <<tasks, created, dispatches, announced, faults>>

\* Mutant of IncrementRunAttempt: the attempt is task.RunAttempt + 1, from the
\* row read before, and not the value the UPDATE returns.
IncrementRunAttemptMutant(w) ==
  /\ pc[w] = "increment"
  /\ tasks' = [tasks EXCEPT ![job[w].msg] = Row(@.status, @.attempt + 1)]
  /\ \/ /\ job' = [job EXCEPT ![w] = Job(@.msg, @.attempt + 1, "failed")]
        /\ Goto(w, "policy")
        /\ UNCHANGED <<created, faults>>
     \/ Fault /\ Nak(w)
  /\ UNCHANGED <<dispatches, announced>>

\* IncrementRunAttempt: one UPDATE ... RETURNING.  Its answer may be lost after
\* it has taken effect, and then the handler naks.
IncrementRunAttempt(w) ==
  /\ pc[w] = "increment"
  /\ tasks' = [tasks EXCEPT ![job[w].msg] = Row(@.status, @.attempt + 1)]
  /\ \/ /\ job' = [job EXCEPT ![w] = Job(@.msg, tasks[@.msg].attempt + 1, "failed")]
        /\ Goto(w, "policy")
        /\ UNCHANGED <<created, faults>>
     \/ Fault /\ Nak(w)
  /\ UNCHANGED <<dispatches, announced>>

\* evaluatePolicy answers with status 200.
PolicyDecides(w) ==
  /\ \E outcome \in {"dispatched", "rejected"} :
       /\ (IF outcome = "dispatched" THEN "allow" ELSE "deny") \in PolicyAnswers
       /\ job' = [job EXCEPT ![w] = Job(@.msg, @.attempt, outcome)]
  /\ Goto(w, "mark")
  /\ UNCHANGED <<tasks, created>>

PolicyErrors == PolicyAnswers \cap {"forbidden", "unavailable"}

\* Mutant of EvaluatePolicy: an error acknowledges the message.
EvaluatePolicyAckMutant(w) ==
  /\ pc[w] = "policy"
  /\ \/ PolicyDecides(w)
     \/ /\ PolicyErrors # {}
        /\ created' = Acked(created, job[w].msg) /\ Leave(w)
        /\ UNCHANGED tasks
  /\ UNCHANGED <<dispatches, announced, faults>>

\* Mutant of EvaluatePolicy: an error gives the attempt back.
EvaluatePolicyRefundMutant(w) ==
  /\ pc[w] = "policy"
  /\ \/ PolicyDecides(w)
     \/ /\ PolicyErrors # {}
        /\ tasks' = [tasks EXCEPT ![job[w].msg] = Row(@.status, @.attempt - 1)]
        /\ Nak(w)
  /\ UNCHANGED <<dispatches, announced, faults>>

\* evaluatePolicy: every status but 200 is an error, and an error is a nak.
EvaluatePolicy(w) ==
  /\ pc[w] = "policy"
  /\ \/ PolicyDecides(w)
     \/ PolicyErrors # {} /\ Nak(w) /\ UNCHANGED tasks
  /\ UNCHANGED <<dispatches, announced, faults>>

\* Mutant of UpdateTaskStatus: a status the table's CHECK does not know.
UpdateTaskStatusMutant(w) ==
  /\ pc[w] = "mark"
  /\ tasks' = [tasks EXCEPT ![job[w].msg] = Row("approved", @.attempt)]
  /\ Goto(w, IF job[w].outcome = "dispatched" THEN "dispatch" ELSE "announce")
  /\ UNCHANGED <<created, dispatches, announced, job, faults>>

\* UpdateTaskStatus, whatever the status is by now; its error is only logged.
UpdateTaskStatus(w) ==
  /\ pc[w] = "mark"
  /\ \/ /\ tasks' = [tasks EXCEPT ![job[w].msg] = Row(job[w].outcome, @.attempt)]
        /\ UNCHANGED faults
     \/ Fault /\ UNCHANGED tasks
  /\ Goto(w, IF job[w].outcome = "dispatched" THEN "dispatch" ELSE "announce")
  /\ UNCHANGED <<created, dispatches, announced, job>>

\* publishDispatch: an error is only logged.
PublishDispatch(w) ==
  /\ pc[w] = "dispatch"
  /\ \/ /\ dispatches' = Append(dispatches, [task |-> job[w].msg, attempt |-> job[w].attempt])
        /\ UNCHANGED faults
     \/ Fault /\ UNCHANGED dispatches
  /\ Goto(w, "announce")
  /\ UNCHANGED <<tasks, created, announced, job>>

\* publishLifecycleEvent and publishRejected: an error is only logged.
PublishLifecycle(w) ==
  /\ pc[w] = "announce"
  /\ \/ /\ announced' = announced \cup {<<job[w].msg, job[w].outcome>>}
        /\ UNCHANGED faults
     \/ Fault /\ UNCHANGED announced
  /\ Goto(w, "ack")
  /\ UNCHANGED <<tasks, created, dispatches, job>>

AckMessage(w) ==
  /\ pc[w] = "ack"
  /\ created' = Acked(created, job[w].msg)
  /\ Leave(w)
  /\ UNCHANGED <<tasks, dispatches, announced, faults>>

-----------------------------------------------------------------------------
(* Failures *)

\* GetTask or IncrementRunAttempt fails without effect.
StoreError(w) ==
  /\ \/ pc[w] = "load" /\ job[w].msg \notin Malformed
     \/ pc[w] = "increment"
  /\ Fault /\ Nak(w)
  /\ UNCHANGED <<tasks, dispatches, announced>>

AckLost(w) ==
  /\ pc[w] = "ack"
  /\ Fault /\ Leave(w)
  /\ UNCHANGED <<tasks, created, dispatches, announced>>

Crash(w) ==
  /\ pc[w] # "down" /\ Fault
  /\ Goto(w, "down")
  /\ job' = [job EXCEPT ![w] = NoJob]
  /\ UNCHANGED <<tasks, created, dispatches, announced>>

Restart(w) ==
  /\ pc[w] = "down"
  /\ Goto(w, "idle")
  /\ UNCHANGED <<tasks, created, dispatches, announced, job, faults>>

\* Ack-wait of a message no live handler holds.
AckWaitExpires(m) ==
  /\ created[m].st = "pending"
  /\ \A w \in Workers : job[w].msg # m
  /\ created' = Returned(created, m)
  /\ UNCHANGED <<tasks, dispatches, announced, pc, job, faults>>

\* The first back-off step is 2s, the policy evaluator's time-out 10s: a message
\* may be delivered again while its handler waits for the evaluator.
HandlerTooSlow(m) ==
  /\ created[m].st = "pending" /\ Fault
  /\ \E w \in Workers : job[w].msg = m
  /\ created' = Returned(created, m)
  /\ UNCHANGED <<tasks, dispatches, announced, pc, job>>

-----------------------------------------------------------------------------
Handle(w) ==
  \/ Deliver(w) \/ TermMalformed(w) \/ GetTask(w) \/ IncrementRunAttempt(w)
  \/ EvaluatePolicy(w) \/ UpdateTaskStatus(w) \/ PublishDispatch(w)
  \/ PublishLifecycle(w) \/ AckMessage(w)

Next ==
  \/ \E w \in Workers :
       Handle(w) \/ StoreError(w) \/ AckLost(w) \/ Crash(w) \/ Restart(w)
  \/ \E m \in DOMAIN created : AckWaitExpires(m) \/ HandlerTooSlow(m)

Init ==
  /\ tasks = [k \in 1 .. NTasks |-> [status |-> "new", attempt |-> 0]]
  /\ created = [m \in (1 .. NTasks) \cup Malformed |-> Stored]
  /\ dispatches = <<>>
  /\ announced = {}
  /\ pc = [w \in Workers |-> "idle"]
  /\ job = [w \in Workers |-> NoJob]
  /\ faults = 0

Spec == Init /\ [][Next]_vars

\* A live worker keeps pulling and its handler keeps going (every call has a
\* time-out), a dead one is restarted, and the server's timers fire.
Fairness ==
  /\ \A w \in Workers : WF_vars(Handle(w)) /\ WF_vars(Restart(w))
  /\ \A m \in (1 .. NTasks) \cup Malformed : WF_vars(AckWaitExpires(m))

FairSpec == Spec /\ Fairness

-----------------------------------------------------------------------------
(* Properties *)

TaskIds == DOMAIN tasks

\* Every variable stays within its type.
TypeOK ==
  /\ tasks \in [1 .. NTasks -> [status : {"new"} \cup Outcomes, attempt : Nat]]
  /\ created \in [(1 .. NTasks) \cup Malformed -> Delivery]
  /\ dispatches \in Seq([task : 1 .. NTasks, attempt : Nat])
  /\ announced \subseteq (1 .. NTasks) \X Outcomes
  /\ pc \in [Workers -> PCs]
  /\ job \in [Workers -> [msg : (1 .. NTasks) \cup Malformed \cup {None},
                         attempt : Nat, outcome : Outcomes]]
  /\ faults \in Nat

\* The budget is read in one statement and spent in another: workers that hold
\* deliveries of the same message can overdraw it, but by no more than one
\* attempt each beyond the first (a single worker never overdraws it).
AttemptsBounded ==
  \A k \in TaskIds : tasks[k].attempt <= MaxRetries + Cardinality(Workers) - 1

\* RFC-001 section 12.2 builds idempotency keys from the run attempt: however
\* often a message is redelivered, and to however many workers, no two
\* tasks.dispatch messages of a task carry the same run_attempt.
AttemptsUnique ==
  \A i, j \in DOMAIN dispatches :
    /\ dispatches[i].task = dispatches[j].task
    /\ dispatches[i].attempt = dispatches[j].attempt
    => i = j

\* tasks.failed is announced only for a task whose budget is spent, although the
\* check ran some steps before and other workers went on counting.
FailedOnlyWhenExhausted ==
  \A k \in TaskIds : <<k, "failed">> \in announced => tasks[k].attempt >= MaxRetries

\* The tasks whose message is gone and of which no event was ever published.
Silent ==
  {k \in TaskIds : /\ created[k].st = "acked"
                   /\ \A i \in DOMAIN dispatches : dispatches[i].task # k
                   /\ \A o \in Outcomes : <<k, o>> \notin announced}

\* The handler acknowledges also when its publishes failed; a task disappears
\* without any event only by a failure of its own.
SilentBounded == Cardinality(Silent) <= faults

\* If a message may be delivered more often than its task may be tried, every
\* message is eventually acknowledged: the policy's errors end in "failed".
EventuallySettled ==
  \A m \in (1 .. NTasks) \cup Malformed : <>Settled(created, m)

\* "evaluates policy, and publishes dispatch or rejection events": every task
\* eventually leaves "new".
EveryTaskDecided == \A k \in 1 .. NTasks : <>(tasks[k].status # "new")

=============================================================================
