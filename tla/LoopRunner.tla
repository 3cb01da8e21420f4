----------------------------- MODULE LoopRunner -----------------------------
(***************************************************************************)
(* services/loop-runner: one process that takes messages of tasks.dispatch *)
(* and runs the agent loop for each, one after another.                    *)
(*                                                                         *)
(* Its consumer pushes: everything the stream holds is handed out at once  *)
(* and waits in the client while its ack-wait, 30s by default, runs.  The  *)
(* number of deliveries is not limited.  A copy that waits in the client   *)
(* is run even if the message has been acknowledged by then.               *)
(*                                                                         *)
(* What a model or a tool answers is data.  Tool calls are published and   *)
(* not awaited.  A run is identified by its message and delivery, <<k, n>>.*)
(***************************************************************************)
EXTENDS JetStream, FiniteSets, Sequences

CONSTANTS
  Tasks,          \* messages on tasks.dispatch
  Malformed,      \* those that raise before the first model call: no JSON, a field
                  \* missing, or an agent definition that is not a dictionary
  Batches,        \* how many tool calls a model may ask for at once
  MaxIterations,  \* MAX_ITERATIONS
  MaxToolCalls,   \* MAX_TOOL_CALLS
  MaxOverdue,     \* [Tasks -> Nat]: bound on ack-waits that expire while the runner
                  \* has the message
  MaxFaults,      \* bound on failed publishes, lost acks, broken tool calls and crashes
  None            \* no task

ASSUME ConstantsAssumption ==
  /\ IsFiniteSet(Tasks) /\ Malformed \subseteq Tasks /\ None \notin Tasks
  /\ Batches \subseteq Nat \ {0}
  /\ MaxIterations \in Nat \ {0} /\ MaxToolCalls \in Nat
  /\ MaxOverdue \in [Tasks -> Nat] /\ MaxFaults \in Nat

VARIABLES
  dispatch,   \* the durable consumer "loop-runner" of STREAM_TASKS
  buffer,     \* runs delivered and not begun: the queue behind sub.messages
  up,         \* "up", "down", or "deaf": alive, but its NATS connection is closed
  pc, job,    \* where the loop is, and its LoopContext
  called,     \* how many tool calls were published for each message
  completed, answered, failed,
              \* runs on tasks.run.completed, egress.webchat.message, tasks.run.failed
  overdue,    \* ack-waits that expired too early, for each message
  faults

outcomes == <<called, completed, answered, failed>>
vars == <<dispatch, buffer, up, pc, job, outcomes, overdue, faults>>

PCs == {"idle", "model", "tools", "respond", "egress", "fail", "ack"}
NoJob == [task |-> None, n |-> 0, iteration |-> 0, calls |-> 0, todo |-> 0]

Fault == faults < MaxFaults /\ faults' = faults + 1

\* Mutant of Run: events are sent when the context has been reset.
RunMutant == <<NoJob.task, NoJob.n>>

\* The run the loop is busy with.
Run == <<job.task, job.n>>

\* The runner has a copy of message k: it is being run, or waits.
Held(k) ==
  \/ pc # "idle" /\ job.task = k
  \/ \E i \in DOMAIN buffer : buffer[i][1] = k

-----------------------------------------------------------------------------
(* Deliveries *)

\* Deliveries of malformed messages are not numbered: they go on without end.
HandedOut(k) ==
  IF k \in Malformed THEN Moved(dispatch, k, "pending") ELSE Delivered(dispatch, k)

Deliver(k) ==
  /\ up = "up" /\ dispatch[k].st \in {"stored", "redeliver"}
  /\ dispatch' = HandedOut(k)
  /\ buffer' = Append(buffer, <<k, dispatch'[k].count>>)
  /\ UNCHANGED <<up, pc, job, outcomes, overdue, faults>>

\* A wait behind a run, or a run, that takes longer than the ack-wait.
Overdue(k) ==
  /\ dispatch[k].st = "pending" /\ Held(k)
  /\ overdue[k] < MaxOverdue[k]
  /\ dispatch' = Returned(dispatch, k)
  /\ overdue' = [overdue EXCEPT ![k] = @ + 1]
  /\ UNCHANGED <<buffer, up, pc, job, outcomes, faults>>

AckWaitExpires(k) ==
  /\ dispatch[k].st = "pending" /\ ~Held(k)
  /\ dispatch' = Returned(dispatch, k)
  /\ UNCHANGED <<buffer, up, pc, job, outcomes, overdue, faults>>

\* The next message of the queue is taken, and its loop starts.
Begin ==
  /\ pc = "idle" /\ buffer # <<>> /\ Head(buffer)[1] \notin Malformed
  /\ buffer' = Tail(buffer)
  /\ pc' = "model"
  /\ job' = [NoJob EXCEPT !.task = Head(buffer)[1], !.n = Head(buffer)[2]]
  /\ UNCHANGED <<dispatch, up, outcomes, overdue, faults>>

\* Mutant of NakMalformed: the message is tried again on the spot.
NakMalformedMutant ==
  /\ pc = "idle" /\ buffer # <<>> /\ Head(buffer)[1] \in Malformed
  /\ UNCHANGED vars

NakMalformed ==
  /\ pc = "idle" /\ buffer # <<>> /\ Head(buffer)[1] \in Malformed
  /\ buffer' = Tail(buffer)
  /\ dispatch' = Returned(dispatch, Head(buffer)[1])
  /\ UNCHANGED <<up, pc, job, outcomes, overdue, faults>>

-----------------------------------------------------------------------------
(* The loop *)

\* _emit_event swallows the error of its publish.
Emit(published, run, published2) ==
  \/ published2 = published \cup {run} /\ UNCHANGED faults
  \/ published2 = published /\ Fault

\* _call_model: how many tool calls it brings; an error of the call is an answer with none.
ToolCallsAsked == {0} \cup Batches

\* An answer without tool calls is the final response.
CallModel ==
  /\ pc = "model"
  /\ \E b \in ToolCallsAsked :
       /\ pc' = IF b = 0 THEN "respond" ELSE "tools"
       /\ job' = [job EXCEPT !.todo = b]
  /\ UNCHANGED <<dispatch, buffer, up, outcomes, overdue, faults>>

\* _check_wall_time, before every model call; an hour has not passed at the first.
WallTimeExceeded ==
  /\ pc = "model" /\ job.iteration > 0
  /\ pc' = "fail"
  /\ UNCHANGED <<dispatch, buffer, up, job, outcomes, overdue, faults>>

\* The count is taken before the limit is checked; the calls of the batch that were
\* published before stay published.
ToolLimitExceeded ==
  /\ pc = "tools" /\ job.calls + 1 > MaxToolCalls
  /\ pc' = "fail"
  /\ job' = [job EXCEPT !.calls = @ + 1]
  /\ UNCHANGED <<dispatch, buffer, up, outcomes, overdue, faults>>

ToolCalled == [called EXCEPT ![job.task] = @ + 1]

\* Mutant of AfterTool: the count starts again with every model call.
AfterToolMutant ==
  IF job.todo > 1
  THEN [job EXCEPT !.calls = @ + 1, !.todo = @ - 1]
  ELSE [job EXCEPT !.calls = 0, !.todo = 0, !.iteration = @ + 1]

\* The context after a tool call: the next of the batch, or the next iteration.
AfterTool ==
  IF job.todo > 1
  THEN [job EXCEPT !.calls = @ + 1, !.todo = @ - 1]
  ELSE [job EXCEPT !.calls = @ + 1, !.todo = 0, !.iteration = @ + 1]

\* A publish error only becomes the text the model is shown.
ExecuteTool ==
  /\ pc = "tools" /\ job.calls + 1 <= MaxToolCalls
  /\ \/ called' = ToolCalled /\ UNCHANGED faults
     \/ Fault /\ UNCHANGED called
  /\ job' = AfterTool
  /\ pc' = IF job'.todo > 0 THEN "tools"
           ELSE IF job'.iteration < MaxIterations THEN "model" ELSE "respond"
  /\ UNCHANGED <<dispatch, buffer, up, completed, answered, failed, overdue>>

\* A tool call without an id raises after it was published, one whose function is
\* null before; the message is nak'd.
ToolCallBroken ==
  /\ pc = "tools" /\ job.calls + 1 <= MaxToolCalls
  /\ Fault
  /\ called' \in {called, ToolCalled}
  /\ pc' = "idle" /\ job' = NoJob
  /\ dispatch' = Returned(dispatch, job.task)
  /\ UNCHANGED <<buffer, up, completed, answered, failed, overdue>>

PublishCompleted ==
  /\ pc = "respond" /\ pc' = "egress"
  /\ Emit(completed, Run, completed')
  /\ UNCHANGED <<dispatch, buffer, up, job, called, answered, failed, overdue>>

PublishEgress ==
  /\ pc = "egress" /\ pc' = "ack"
  /\ Emit(answered, Run, answered')
  /\ UNCHANGED <<dispatch, buffer, up, job, called, completed, failed, overdue>>

\* Mutant of PublishFailed: budget errors are acknowledged in silence.
PublishFailedMutant ==
  /\ pc = "fail" /\ pc' = "ack"
  /\ UNCHANGED <<dispatch, buffer, up, job, outcomes, overdue, faults>>

PublishFailed ==
  /\ pc = "fail" /\ pc' = "ack"
  /\ Emit(failed, Run, failed')
  /\ UNCHANGED <<dispatch, buffer, up, job, called, completed, answered, overdue>>

\* Mutant of AckMessage: the message is given back once its run has ended.
AckMessageMutant ==
  /\ pc = "ack"
  /\ pc' = "idle" /\ job' = NoJob
  /\ dispatch' = Returned(dispatch, job.task)
  /\ UNCHANGED <<buffer, up, outcomes, overdue, faults>>

\* The acknowledgement is not confirmed and may get lost.
AckMessage ==
  /\ pc = "ack"
  /\ pc' = "idle" /\ job' = NoJob
  /\ \/ dispatch' = Acked(dispatch, job.task) /\ UNCHANGED faults
     \/ Fault /\ UNCHANGED dispatch
  /\ UNCHANGED <<buffer, up, outcomes, overdue>>

-----------------------------------------------------------------------------
(* The process *)

\* The process dies; or its connection is closed for good.  In the second case it
\* stays healthy, finishes its run without reaching anybody, and ends its loop.
Stop(state) ==
  /\ up = "up" /\ Fault
  /\ up' = state
  /\ buffer' = <<>> /\ pc' = "idle" /\ job' = NoJob
  /\ UNCHANGED <<dispatch, outcomes, overdue>>

Crash == Stop("down")
ConnectionClosed == Stop("deaf")

Restart ==
  /\ up # "up" /\ up' = "up"
  /\ UNCHANGED <<dispatch, buffer, pc, job, outcomes, overdue, faults>>

-----------------------------------------------------------------------------
HandleDispatch ==
  \/ Begin \/ NakMalformed
  \/ CallModel \/ WallTimeExceeded
  \/ ToolLimitExceeded \/ ExecuteTool \/ ToolCallBroken
  \/ PublishCompleted \/ PublishEgress \/ PublishFailed \/ AckMessage

Next ==
  \/ \E k \in Tasks : Deliver(k) \/ Overdue(k) \/ AckWaitExpires(k)
  \/ HandleDispatch
  \/ Crash \/ ConnectionClosed \/ Restart

Init ==
  /\ dispatch = [k \in Tasks |-> Stored]
  /\ buffer = <<>> /\ up = "up"
  /\ pc = "idle" /\ job = NoJob
  /\ called = [k \in Tasks |-> 0]
  /\ completed = {} /\ answered = {} /\ failed = {}
  /\ overdue = [k \in Tasks |-> 0] /\ faults = 0

Spec == Init /\ [][Next]_vars

\* The loop goes on (each of its calls has a time-out), the server delivers and
\* keeps time, and a dead container is started again.  A deaf one is not.
Fairness ==
  /\ WF_vars(HandleDispatch)
  /\ \A k \in Tasks : WF_vars(Deliver(k)) /\ WF_vars(AckWaitExpires(k))
  /\ WF_vars(up = "down" /\ Restart)

FairSpec == Spec /\ Fairness

-----------------------------------------------------------------------------
(* Properties *)

Runs == Tasks \X Nat

\* Every variable stays within its type.
TypeOK ==
  /\ dispatch \in [Tasks -> Delivery]
  /\ buffer \in Seq(Runs)
  /\ up \in {"up", "down", "deaf"}
  /\ pc \in PCs
  /\ job \in [task : Tasks \cup {None}, n : Nat, iteration : Nat, calls : Nat, todo : Nat]
  /\ called \in [Tasks -> Nat]
  /\ completed \subseteq Runs /\ answered \subseteq Runs /\ failed \subseteq Runs
  /\ overdue \in [Tasks -> Nat] /\ faults \in Nat

\* How often the work of message k may have been done.
Repeats(k) == 1 + overdue[k] + faults

\* The user gets the answer of a task once, and once more at most for every ack-wait
\* that expired while the runner had the message, and for every failure: in
\* particular, copies that pile up behind a slow run do not multiply by themselves.
AnswersBounded ==
  \A k \in Tasks :
    Cardinality({r \in answered \cup failed : r[1] = k}) <= Repeats(k)

\* MAX_TOOL_CALLS limits a run: over all iterations and in the middle of a batch.
\* What a task costs is limited by it and by the number of its runs.
ToolCallsBounded ==
  \A k \in Tasks : called[k] <= MaxToolCalls * Repeats(k)

\* Neither an answer nor a failure was published for message k.
Unreported(k) == \A r \in answered \cup failed : r[1] # k

\* A message is acknowledged although nobody was told what became of it only when a
\* publish failed, and by one such failure only one message is.
UnreportedBounded ==
  Cardinality({k \in Tasks : Settled(dispatch, k) /\ Unreported(k)}) <= faults

\* Every good message is settled in the end, although malformed ones come back for
\* ever, unless the runner goes deaf.
EventuallySettled ==
  \A k \in Tasks \ Malformed : <>(Settled(dispatch, k) \/ up = "deaf")

=============================================================================
