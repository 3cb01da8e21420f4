-------------------------- MODULE LoopRunner_proofs --------------------------
(***************************************************************************)
(* Proofs about LoopRunner, for any tasks and limits and every bound on    *)
(* early redeliveries and failures.                                        *)
(***************************************************************************)
EXTENDS LoopRunner, FiniteSetTheorems, SequenceTheorems, TLAPS

Good == Tasks \ Malformed
JobType == [task : Tasks \cup {None}, n : Nat, iteration : Nat, calls : Nat, todo : Nat]

-----------------------------------------------------------------------------
(* Type correctness.  While the loop is busy it holds a good message. *)

JobInv == pc # "idle" => job.task \in Good

TInv == TypeOK /\ JobInv

\* Every transition of the server keeps a consumer a consumer.
LEMMA ConsumerTypes ==
  ASSUME NEW S, NEW c \in [S -> Delivery], NEW m \in S
  PROVE  /\ Delivered(c, m) \in [S -> Delivery]
         /\ Acked(c, m) \in [S -> Delivery]
         /\ Returned(c, m) \in [S -> Delivery]
         /\ Moved(c, m, "pending") \in [S -> Delivery]
<1>1. ASSUME NEW st \in DeliveryStates PROVE Moved(c, m, st) \in [S -> Delivery]
  BY DEF Moved, Delivery
<1>2. Delivered(c, m) \in [S -> Delivery]
  BY DEF Delivered, Delivery, DeliveryStates
<1> QED BY <1>1, <1>2 DEF Acked, Returned, DeliveryStates

\* Handing out a message does too, and nothing changes but that message.
LEMMA HandedOutType ==
  ASSUME TypeOK, NEW k \in Tasks
  PROVE  /\ HandedOut(k) \in [Tasks -> Delivery]
         /\ HandedOut(k)[k].st = "pending"
         /\ HandedOut(k)[k].count = IF k \in Malformed THEN dispatch[k].count
                                                       ELSE dispatch[k].count + 1
         /\ \A j \in Tasks \ {k} : HandedOut(k)[j] = dispatch[j]
<1>1. dispatch \in [Tasks -> Delivery]
  BY DEF TypeOK
<1> QED BY <1>1, ConsumerTypes DEF HandedOut, Moved, Delivered

\* The effect of a nak or an expired ack-wait, and of an acknowledgement.
LEMMA SettleTypes ==
  ASSUME TypeOK, NEW k \in Tasks
  PROVE  /\ Returned(dispatch, k) \in [Tasks -> Delivery]
         /\ Acked(dispatch, k) \in [Tasks -> Delivery]
         /\ \A j \in Tasks : /\ Returned(dispatch, k)[j].count = dispatch[j].count
                             /\ Acked(dispatch, k)[j].count = dispatch[j].count
         /\ \A j \in Tasks \ {k} : /\ Returned(dispatch, k)[j] = dispatch[j]
                                   /\ Acked(dispatch, k)[j] = dispatch[j]
         /\ Returned(dispatch, k)[k].st =
              IF dispatch[k].st = "pending" THEN "redeliver" ELSE dispatch[k].st
         /\ dispatch[k].st \in {"pending", "redeliver"} => Acked(dispatch, k)[k].st = "acked"
         /\ dispatch[k].st \notin {"pending", "redeliver"} => Acked(dispatch, k) = dispatch
<1>1. dispatch \in [Tasks -> Delivery]
  BY DEF TypeOK
<1>2. Returned(dispatch, k) \in [Tasks -> Delivery] /\ Acked(dispatch, k) \in [Tasks -> Delivery]
  BY <1>1, ConsumerTypes
<1> QED BY <1>1, <1>2 DEF Returned, Acked, Moved

\* What the queue of a step in which a run is appended or taken looks like.
LEMMA BufferTypes ==
  ASSUME TypeOK
  PROVE  /\ Len(buffer) \in Nat /\ DOMAIN buffer = 1 .. Len(buffer)
         /\ \A i \in DOMAIN buffer : buffer[i] \in Runs
         /\ \A r \in Runs :
              /\ Append(buffer, r) \in Seq(Runs)
              /\ DOMAIN Append(buffer, r) = 1 .. Len(buffer) + 1
              /\ \A i \in DOMAIN buffer : Append(buffer, r)[i] = buffer[i]
              /\ Append(buffer, r)[Len(buffer) + 1] = r
         /\ buffer # <<>> =>
              /\ Len(buffer) > 0 /\ Head(buffer) = buffer[1] /\ Head(buffer) \in Runs
              /\ Tail(buffer) \in Seq(Runs)
              /\ DOMAIN Tail(buffer) = 1 .. Len(buffer) - 1
              /\ \A i \in 1 .. Len(buffer) - 1 : Tail(buffer)[i] = buffer[i + 1]
<1>1. buffer \in Seq(Runs)
  BY DEF TypeOK
<1>2. Len(buffer) \in Nat /\ DOMAIN buffer = 1 .. Len(buffer)
  BY <1>1, LenProperties
<1>3. \A i \in DOMAIN buffer : buffer[i] \in Runs
  BY <1>1, <1>2, ElementOfSeq
<1>4. ASSUME NEW r \in Runs
      PROVE  /\ Append(buffer, r) \in Seq(Runs)
             /\ DOMAIN Append(buffer, r) = 1 .. Len(buffer) + 1
             /\ \A i \in DOMAIN buffer : Append(buffer, r)[i] = buffer[i]
             /\ Append(buffer, r)[Len(buffer) + 1] = r
  <2>1. /\ Append(buffer, r) \in Seq(Runs)
        /\ Len(Append(buffer, r)) = Len(buffer) + 1
        /\ \A i \in 1 .. Len(buffer) : Append(buffer, r)[i] = buffer[i]
        /\ Append(buffer, r)[Len(buffer) + 1] = r
    BY <1>1, AppendProperties
  <2>2. DOMAIN Append(buffer, r) = 1 .. Len(Append(buffer, r))
    BY <2>1, LenProperties
  <2> QED BY <1>2, <2>1, <2>2
<1>5. ASSUME buffer # <<>>
      PROVE  /\ Len(buffer) > 0 /\ Head(buffer) = buffer[1] /\ Head(buffer) \in Runs
             /\ Tail(buffer) \in Seq(Runs)
             /\ DOMAIN Tail(buffer) = 1 .. Len(buffer) - 1
             /\ \A i \in 1 .. Len(buffer) - 1 : Tail(buffer)[i] = buffer[i + 1]
  <2>1. /\ Head(buffer) \in Runs /\ Tail(buffer) \in Seq(Runs)
        /\ Len(Tail(buffer)) = Len(buffer) - 1
        /\ \A i \in 1 .. Len(Tail(buffer)) : Tail(buffer)[i] = buffer[i + 1]
    BY <1>1, <1>5, HeadTailProperties
  <2>2. DOMAIN Tail(buffer) = 1 .. Len(Tail(buffer))
    BY <2>1, LenProperties
  <2>3. Len(buffer) > 0
    BY <1>1, <1>5, EmptySeq
  <2>4. Head(buffer) = buffer[1]
    BY <1>1, <1>5, <2>3
  <2> QED BY <2>1, <2>2, <2>3, <2>4
<1> QED BY <1>2, <1>3, <1>4, <1>5

\* No task holds nothing.
LEMMA NoJobType == NoJob \in JobType /\ NoJob.task = None /\ NoJob.calls = 0
BY DEF NoJob, JobType

\* One more tool call of the message that is run.
LEMMA ToolCalledType ==
  ASSUME TypeOK, job.task \in Tasks
  PROVE  /\ ToolCalled \in [Tasks -> Nat] /\ ToolCalled[job.task] = called[job.task] + 1
         /\ \A k \in Tasks \ {job.task} : ToolCalled[k] = called[k]
BY DEF ToolCalled, TypeOK

\* A publish that may be lost adds one run, or counts a failure.
LEMMA EmitType ==
  ASSUME TypeOK, NEW S \in SUBSET Runs, NEW r \in Runs, NEW T, Emit(S, r, T)
  PROVE  T \in SUBSET Runs /\ faults' \in Nat
BY DEF Emit, Fault, TypeOK

\* Initially nothing is held.
LEMMA InitTInv == Init => TInv
<1> SUFFICES ASSUME Init PROVE TInv
  OBVIOUS
<1>1. dispatch \in [Tasks -> Delivery]
  BY DEF Init, Stored, Delivery, DeliveryStates
<1>2. job \in JobType /\ pc \in PCs /\ pc = "idle"
  BY NoJobType DEF Init, PCs
<1>3. buffer \in Seq(Runs)
  BY EmptySeq DEF Init
<1> QED BY <1>1, <1>2, <1>3 DEF Init, TInv, TypeOK, JobInv, JobType, Runs

\* Every step keeps the types.
LEMMA NextTInv == TInv /\ [Next]_vars => TInv'
<1> SUFFICES ASSUME TInv, [Next]_vars PROVE TInv'
  OBVIOUS
<1> USE DEF TInv, JobInv
<1>0. TypeOK /\ job \in JobType /\ NoJob \in JobType
  BY NoJobType DEF TypeOK, JobType
<1>1. ASSUME NEW k \in Tasks, Deliver(k) PROVE TInv'
  <2>1. dispatch' \in [Tasks -> Delivery] /\ dispatch'[k].count \in Nat
    BY <1>1, HandedOutType DEF Deliver, Delivery
  <2>2. <<k, dispatch'[k].count>> \in Runs
    BY <2>1 DEF Runs
  <2>3. buffer' \in Seq(Runs)
    BY <1>1, <2>2, BufferTypes DEF Deliver
  <2> QED BY <1>1, <2>1, <2>3 DEF Deliver, outcomes, TypeOK
<1>2. ASSUME NEW k \in Tasks, Overdue(k) PROVE TInv'
  <2>1. dispatch' \in [Tasks -> Delivery]
    BY <1>2, SettleTypes DEF Overdue
  <2>2. overdue' \in [Tasks -> Nat]
    BY <1>2 DEF Overdue, TypeOK
  <2> QED BY <1>2, <2>1, <2>2 DEF Overdue, outcomes, TypeOK
<1>3. ASSUME NEW k \in Tasks, AckWaitExpires(k) PROVE TInv'
  <2>1. dispatch' \in [Tasks -> Delivery]
    BY <1>3, SettleTypes DEF AckWaitExpires
  <2> QED BY <1>3, <2>1 DEF AckWaitExpires, outcomes, TypeOK
<1>4. CASE Begin
  <2>1. Head(buffer) \in Runs /\ buffer' \in Seq(Runs)
    BY <1>4, BufferTypes DEF Begin
  <2>2. Head(buffer)[1] \in Good /\ Head(buffer)[2] \in Nat
    BY <1>4, <2>1 DEF Begin, Runs, Good
  <2>3. job' \in JobType /\ job'.task = Head(buffer)[1]
    BY <1>4, <2>2 DEF Begin, NoJob, JobType, Good
  <2> QED BY <1>4, <2>1, <2>2, <2>3 DEF Begin, outcomes, TypeOK, PCs, JobType
<1>5. CASE NakMalformed
  <2>1. Head(buffer) \in Runs /\ buffer' \in Seq(Runs)
    BY <1>5, BufferTypes DEF NakMalformed
  <2>2. dispatch' \in [Tasks -> Delivery]
    BY <1>5, <2>1, SettleTypes DEF NakMalformed, Runs
  <2> QED BY <1>5, <2>1, <2>2 DEF NakMalformed, outcomes, TypeOK
<1>6. CASE CallModel \/ WallTimeExceeded \/ ToolLimitExceeded
  <2>1. job' \in JobType /\ job'.task = job.task
    BY <1>0, <1>6, ConstantsAssumption
       DEF CallModel, ToolCallsAsked, WallTimeExceeded, ToolLimitExceeded, JobType
  <2> QED BY <1>6, <2>1
          DEF CallModel, ToolCallsAsked, WallTimeExceeded, ToolLimitExceeded, outcomes,
              TypeOK, PCs, JobType
<1>7. CASE ExecuteTool
  <2>1. job' \in JobType /\ job'.task = job.task
    <3>1. CASE job.todo > 1
      <4>1. job' = [job EXCEPT !.calls = @ + 1, !.todo = @ - 1]
        BY <1>7, <3>1 DEF ExecuteTool, AfterTool
      <4>2. job.calls + 1 \in Nat /\ job.todo - 1 \in Nat
        BY <1>0, <3>1 DEF JobType
      <4> QED BY <1>0, <4>1, <4>2 DEF JobType
    <3>2. CASE ~(job.todo > 1)
      <4>1. job' = [job EXCEPT !.calls = @ + 1, !.todo = 0, !.iteration = @ + 1]
        BY <1>7, <3>2 DEF ExecuteTool, AfterTool
      <4>2. job.calls + 1 \in Nat /\ job.iteration + 1 \in Nat
        BY <1>0 DEF JobType
      <4> QED BY <1>0, <4>1, <4>2 DEF JobType
    <3> QED BY <3>1, <3>2
  <2>2. called' \in [Tasks -> Nat] /\ faults' \in Nat
    BY SMTT(20), <1>7 DEF ExecuteTool, ToolCalled, Fault, TypeOK
  <2>3. pc' \in PCs /\ pc # "idle"
    BY <1>7 DEF ExecuteTool, PCs
  <2> QED BY <1>7, <2>1, <2>2, <2>3 DEF ExecuteTool, TypeOK, JobType
<1>8. CASE ToolCallBroken
  <2>1. job.task \in Tasks
    BY <1>8 DEF ToolCallBroken, Good
  <2>2. dispatch' \in [Tasks -> Delivery]
    BY <1>8, <2>1, SettleTypes DEF ToolCallBroken
  <2>3. called' \in [Tasks -> Nat]
    BY <1>8, <2>1, ToolCalledType DEF ToolCallBroken, TypeOK
  <2>4. faults' \in Nat
    BY <1>8 DEF ToolCallBroken, Fault, TypeOK
  <2>5. job' \in JobType /\ pc' = "idle"
    BY <1>0, <1>8 DEF ToolCallBroken
  <2> QED BY <1>8, <2>2, <2>3, <2>4, <2>5 DEF ToolCallBroken, TypeOK, PCs, JobType
<1>9. CASE PublishCompleted \/ PublishEgress \/ PublishFailed
  <2>1. Run \in Runs
    BY <1>0, <1>9 DEF PublishCompleted, PublishEgress, PublishFailed, Run, Runs, JobType, Good
  <2>2. /\ completed \in SUBSET Runs /\ answered \in SUBSET Runs /\ failed \in SUBSET Runs
    BY DEF TypeOK
  <2>3. /\ completed' \subseteq Runs /\ answered' \subseteq Runs /\ failed' \subseteq Runs
        /\ faults' \in Nat
    BY <1>9, <2>1, <2>2, EmitType DEF PublishCompleted, PublishEgress, PublishFailed
  <2> QED BY <1>9, <2>3 DEF PublishCompleted, PublishEgress, PublishFailed, TypeOK, PCs
<1>10. CASE AckMessage
  <2>1. job.task \in Tasks
    BY <1>10 DEF AckMessage, Good
  <2>2. dispatch' \in [Tasks -> Delivery] /\ faults' \in Nat
    BY <1>10, <2>1, SettleTypes DEF AckMessage, Fault, TypeOK
  <2> QED BY <1>0, <1>10, <2>2 DEF AckMessage, outcomes, TypeOK, PCs, JobType
<1>11. CASE Crash \/ ConnectionClosed \/ Restart
  <2>1. buffer' \in Seq(Runs)
    BY <1>11, EmptySeq DEF Crash, ConnectionClosed, Stop, Restart, TypeOK
  <2>2. job' \in JobType /\ pc' \in PCs /\ (pc' # "idle" => pc' = pc /\ job' = job)
    BY <1>0, <1>11 DEF Crash, ConnectionClosed, Stop, Restart, PCs, TypeOK
  <2>3. faults' \in Nat /\ up' \in {"up", "down", "deaf"}
    BY <1>11 DEF Crash, ConnectionClosed, Stop, Restart, Fault, TypeOK
  <2> QED BY <1>11, <2>1, <2>2, <2>3
          DEF Crash, ConnectionClosed, Stop, Restart, outcomes, TypeOK, JobType
<1>12. CASE UNCHANGED vars
  BY <1>12 DEF vars, outcomes, TypeOK
<1> QED BY <1>1, <1>2, <1>3, <1>4, <1>5, <1>6, <1>7, <1>8, <1>9, <1>10, <1>11, <1>12
        DEF Next, HandleDispatch

\* Every variable keeps its type.
THEOREM TypeCorrect == Spec => []TypeOK
<1>1. TInv => TypeOK
  BY DEF TInv
<1> QED BY <1>1, InitTInv, NextTInv, PTL DEF Spec

-----------------------------------------------------------------------------
(* How often a message is handed out.  A message is owed a delivery when it  *)
(* waits for one, or when its last one got lost and has yet to expire.       *)

Owed(k) ==
  IF \/ dispatch[k].st \in {"stored", "redeliver"}
     \/ dispatch[k].st = "pending" /\ ~Held(k)
  THEN 1 ELSE 0

Paid(k) == dispatch[k].count + Owed(k) <= Repeats(k)

PaidInv == \A k \in Good : Paid(k)

\* The numbers in Paid.
LEMMA PaidNumbers ==
  ASSUME TInv, NEW k \in Good
  PROVE  /\ dispatch[k].count \in Nat /\ overdue[k] \in Nat /\ faults \in Nat
         /\ Owed(k) \in {0, 1}
         /\ Paid(k) <=> dispatch[k].count + Owed(k) <= 1 + overdue[k] + faults
BY DEF TInv, TypeOK, Delivery, Owed, Paid, Repeats, Good

\* The same after a step.
LEMMA PaidNumbersPrime ==
  ASSUME TInv', NEW k \in Good
  PROVE  /\ dispatch'[k].count \in Nat /\ overdue'[k] \in Nat /\ faults' \in Nat
         /\ Owed(k)' \in {0, 1}
         /\ Paid(k)' <=> dispatch'[k].count + Owed(k)' <= 1 + overdue'[k] + faults'
BY DEF TInv, TypeOK, Delivery, Owed, Paid, Repeats, Good

\* A step that hands out nothing keeps the account of k if it does not lose a held
\* copy, or counts a failure.
LEMMA PaidStep ==
  ASSUME TInv, TInv', NEW k \in Good, Paid(k),
         overdue'[k] = overdue[k], dispatch'[k].count = dispatch[k].count,
         \/ faults' = faults + 1
         \/ /\ faults' = faults
            /\ \/ dispatch'[k].st = dispatch[k].st /\ (Held(k) => Held(k)')
               \/ dispatch'[k].st = "acked"
  PROVE  Paid(k)'
<1>1. CASE faults' = faults + 1
  BY <1>1, PaidNumbers, PaidNumbersPrime
<1>2. CASE /\ faults' = faults
           /\ \/ dispatch'[k].st = dispatch[k].st /\ (Held(k) => Held(k)')
              \/ dispatch'[k].st = "acked"
  <2>1. Owed(k)' <= Owed(k)
    BY <1>2 DEF Owed
  <2> QED BY <1>2, <2>1, PaidNumbers, PaidNumbersPrime
<1> QED BY <1>1, <1>2

\* Taking the head of the queue leaves the runner with its other copies.
LEMMA TailHeld ==
  ASSUME TInv, NEW k \in Good, buffer # <<>>, buffer' = Tail(buffer),
         Head(buffer)[1] = k => pc' # "idle" /\ job'.task = k,
         pc = "idle", Held(k)
  PROVE  Held(k)'
<1>1. PICK i \in DOMAIN buffer : buffer[i][1] = k
  BY DEF Held
<1>2. CASE i = 1
  BY <1>1, <1>2, BufferTypes DEF Held, TInv
<1>3. CASE i # 1
  <2>1. i - 1 \in DOMAIN buffer' /\ buffer'[i - 1] = buffer[i]
    BY <1>3, BufferTypes DEF TInv
  <2> QED BY <1>1, <2>1 DEF Held
<1> QED BY <1>2, <1>3

\* Every delivery beyond the first is paid for.
LEMMA NextPaid == TInv /\ TInv' /\ PaidInv /\ [Next]_vars => PaidInv'
<1> SUFFICES ASSUME TInv, TInv', PaidInv, [Next]_vars, NEW k \in Good PROVE Paid(k)'
  BY DEF PaidInv
<1>0. Paid(k) /\ k \in Tasks /\ TypeOK
  BY DEF PaidInv, Good, TInv
<1>1. ASSUME NEW j \in Tasks, Deliver(j) PROVE Paid(k)'
  <2>1. <<j, dispatch'[j].count>> \in Runs
    BY <1>0, <1>1, HandedOutType DEF Deliver, Delivery, Runs
  <2>2. /\ buffer'[Len(buffer) + 1] = <<j, dispatch'[j].count>>
        /\ Len(buffer) + 1 \in DOMAIN buffer'
        /\ \A i \in DOMAIN buffer : i \in DOMAIN buffer' /\ buffer'[i] = buffer[i]
    BY <1>0, <1>1, <2>1, BufferTypes DEF Deliver
  <2>3. CASE j = k
    <3>1. Held(k)'
      BY <2>2, <2>3 DEF Held
    <3>2. dispatch'[k].st = "pending" /\ dispatch'[k].count = dispatch[k].count + 1
      BY <1>0, <1>1, <2>3, HandedOutType DEF Deliver, Good
    <3>3. Owed(k)' = 0 /\ Owed(k) = 1
      BY <1>1, <2>3, <3>1, <3>2 DEF Owed, Deliver
    <3> QED BY <1>0, <1>1, <3>2, <3>3, PaidNumbers, PaidNumbersPrime DEF Deliver
  <2>4. CASE j # k
    <3>1. Held(k) => Held(k)'
      BY <1>1, <2>2 DEF Held, Deliver
    <3>2. dispatch'[k] = dispatch[k]
      BY <1>0, <1>1, <2>4, HandedOutType DEF Deliver
    <3> QED BY <1>0, <1>1, <3>1, <3>2, PaidStep DEF Deliver
  <2> QED BY <2>3, <2>4
<1>2. ASSUME NEW j \in Tasks, Overdue(j) PROVE Paid(k)'
  <2>1. CASE j = k
    <3>1. Owed(k) = 0 /\ dispatch'[k].count = dispatch[k].count
      BY <1>0, <1>2, <2>1, SettleTypes DEF Overdue, Owed
    <3>2. overdue'[k] = overdue[k] + 1 /\ faults' = faults
      BY <1>2, <2>1 DEF Overdue, TInv, TypeOK
    <3> QED BY <1>0, <3>1, <3>2, PaidNumbers, PaidNumbersPrime
  <2>2. CASE j # k
    <3>1. dispatch'[k] = dispatch[k] /\ overdue'[k] = overdue[k]
      BY <1>0, <1>2, <2>2, SettleTypes DEF Overdue, TypeOK
    <3> QED BY <1>0, <1>2, <3>1, PaidStep DEF Overdue, Held
  <2> QED BY <2>1, <2>2
<1>3. ASSUME NEW j \in Tasks, AckWaitExpires(j) PROVE Paid(k)'
  <2>1. CASE j = k
    <3>1. Owed(k) = 1 /\ dispatch'[k].count = dispatch[k].count
      BY <1>0, <1>3, <2>1, SettleTypes DEF AckWaitExpires, Owed
    <3> QED BY <1>0, <1>3, <3>1, PaidNumbers, PaidNumbersPrime DEF AckWaitExpires
  <2>2. CASE j # k
    <3>1. dispatch'[k] = dispatch[k]
      BY <1>0, <1>3, <2>2, SettleTypes DEF AckWaitExpires
    <3> QED BY <1>0, <1>3, <3>1, PaidStep DEF AckWaitExpires, Held
  <2> QED BY <2>1, <2>2
<1>4. CASE Begin
  <2>1. Held(k) => Held(k)'
    BY <1>4, TailHeld DEF Begin, NoJob
  <2> QED BY <1>0, <1>4, <2>1, PaidStep DEF Begin
<1>5. CASE NakMalformed
  <2>1. Head(buffer)[1] \in Tasks /\ Head(buffer)[1] # k
    BY <1>0, <1>5, BufferTypes DEF NakMalformed, Runs, Good
  <2>2. Held(k) => Held(k)'
    BY <1>5, <2>1, TailHeld DEF NakMalformed
  <2>3. dispatch'[k] = dispatch[k]
    BY <1>0, <1>5, <2>1, SettleTypes DEF NakMalformed
  <2> QED BY <1>0, <1>5, <2>2, <2>3, PaidStep DEF NakMalformed
<1>6. ASSUME dispatch' = dispatch, overdue' = overdue, buffer' = buffer,
             faults' \in {faults, faults + 1},
             pc # "idle" => pc' # "idle" /\ job'.task = job.task
      PROVE  Paid(k)'
  <2>1. Held(k) => Held(k)'
    BY <1>6 DEF Held
  <2> QED BY <1>0, <1>6, <2>1, PaidStep
<1>7. CASE CallModel \/ WallTimeExceeded \/ ToolLimitExceeded
  <2>1. job'.task = job.task
    BY <1>7 DEF CallModel, ToolCallsAsked, WallTimeExceeded, ToolLimitExceeded, TInv, TypeOK
  <2> QED BY <1>6, <1>7, <2>1
          DEF CallModel, ToolCallsAsked, WallTimeExceeded, ToolLimitExceeded, outcomes
<1>8. CASE ExecuteTool
  <2>1. job'.task = job.task /\ pc' # "idle"
    BY <1>8 DEF ExecuteTool, AfterTool, TInv, TypeOK
  <2> QED BY <1>6, <1>8, <2>1 DEF ExecuteTool, Fault
<1>9. CASE PublishCompleted \/ PublishEgress \/ PublishFailed
  BY <1>6, <1>9 DEF PublishCompleted, PublishEgress, PublishFailed, Emit, Fault
<1>10. CASE ToolCallBroken
  <2>1. dispatch'[k].count = dispatch[k].count
    BY <1>0, <1>10, SettleTypes DEF ToolCallBroken, TInv, JobInv, Good
  <2> QED BY <1>0, <1>10, <2>1, PaidStep DEF ToolCallBroken, Fault
<1>11. CASE AckMessage
  <2>1. job.task \in Tasks
    BY <1>11 DEF AckMessage, TInv, JobInv, Good
  <2>2. CASE Fault /\ UNCHANGED dispatch
    BY <1>0, <1>11, <2>2, PaidStep DEF AckMessage, Fault
  <2>3. CASE dispatch' = Acked(dispatch, job.task) /\ UNCHANGED faults
    <3>1. dispatch'[k].count = dispatch[k].count /\ overdue' = overdue
      BY <1>0, <1>11, <2>1, <2>3, SettleTypes DEF AckMessage
    <3>2. CASE job.task = k
      <4>1. CASE dispatch[k].st \in {"pending", "redeliver"}
        <5>1. dispatch'[k].st = "acked"
          BY <1>0, <2>3, <3>2, <4>1, SettleTypes
        <5> QED BY <1>0, <2>3, <3>1, <5>1, PaidStep
      <4>2. CASE dispatch[k].st \notin {"pending", "redeliver"}
        <5>1. dispatch' = dispatch
          BY <1>0, <2>3, <3>2, <4>2, SettleTypes
        <5>2. Owed(k)' = Owed(k)
          BY <4>2, <5>1 DEF Owed
        <5> QED BY <1>0, <2>3, <3>1, <5>2, PaidNumbers, PaidNumbersPrime
      <4> QED BY <4>1, <4>2
    <3>3. CASE job.task # k
      <4>1. dispatch'[k] = dispatch[k]
        BY <1>0, <2>1, <2>3, <3>3, SettleTypes
      <4>2. Held(k) => Held(k)'
        BY <1>11, <3>3 DEF AckMessage, Held
      <4> QED BY <1>0, <2>3, <3>1, <4>1, <4>2, PaidStep
    <3> QED BY <3>2, <3>3
  <2> QED BY <1>11, <2>2, <2>3 DEF AckMessage
<1>12. CASE Crash \/ ConnectionClosed
  BY <1>0, <1>12, PaidStep DEF Crash, ConnectionClosed, Stop, Fault
<1>13. CASE Restart
  BY <1>6, <1>13 DEF Restart, outcomes
<1>14. CASE UNCHANGED vars
  BY <1>6, <1>14 DEF vars
<1> QED BY <1>1, <1>2, <1>3, <1>4, <1>5, <1>7, <1>8, <1>9, <1>10, <1>11, <1>12, <1>13, <1>14
        DEF Next, HandleDispatch

-----------------------------------------------------------------------------
(* The runs of a message are numbered in the order in which they are begun:  *)
(* L is the number of the last one, those that wait come after it.  A run    *)
(* never publishes more than MaxToolCalls tool calls.                        *)

Limit(L) == MaxToolCalls * L

Busy(k) == pc # "idle" /\ job.task = k

QueueOrder(k, L) ==
  /\ \A i \in DOMAIN buffer :
       buffer[i][1] = k => L < buffer[i][2] /\ buffer[i][2] <= dispatch[k].count
  /\ \A i, j \in DOMAIN buffer :
       i < j /\ buffer[i][1] = k /\ buffer[j][1] = k => buffer[i][2] < buffer[j][2]

RunOrder(k, L) ==
  /\ Busy(k) => 1 <= job.n /\ job.n <= L
  /\ \A r \in answered \cup failed : r[1] = k => 1 <= r[2] /\ r[2] <= L

CallOrder(k, L) ==
  /\ called[k] <= Limit(L)
  /\ Busy(k) /\ pc \in {"model", "tools"} =>
       job.calls <= MaxToolCalls /\ called[k] + MaxToolCalls <= Limit(L) + job.calls

Order(k, L) ==
  L <= dispatch[k].count /\ QueueOrder(k, L) /\ RunOrder(k, L) /\ CallOrder(k, L)

OrderInv ==
  /\ \A k \in Good : \E L \in Nat : Order(k, L)
  /\ \A k \in Malformed : called[k] = 0
  /\ \A r \in answered \cup failed : r[1] \in Good

\* One more run allows MaxToolCalls more calls.
LEMMA LimitStep ==
  ASSUME NEW L \in Nat, NEW L2 \in Nat
  PROVE  /\ Limit(L) \in Nat /\ Limit(L2) \in Nat
         /\ L < L2 => Limit(L) + MaxToolCalls <= Limit(L2)
         /\ L <= L2 => Limit(L) <= Limit(L2)
<1>0. MaxToolCalls \in Nat
  BY ConstantsAssumption
<1>1. Limit(L) \in Nat /\ Limit(L2) \in Nat
  BY <1>0, SMTT(30) DEF Limit
<1>2. ASSUME L < L2 PROVE Limit(L) + MaxToolCalls <= Limit(L2)
  <2>1. PICK d \in Nat : L2 = L + 1 + d
    <3>1. L2 - L - 1 \in Nat /\ L2 = L + 1 + (L2 - L - 1)
      BY <1>2
    <3> QED BY <3>1
  <2>2. MaxToolCalls * (L + 1 + d) = MaxToolCalls * L + MaxToolCalls + MaxToolCalls * d
    BY <1>0, SMTT(30)
  <2>3. MaxToolCalls * d \in Nat /\ MaxToolCalls * L \in Nat
    BY <1>0, SMTT(30)
  <2> QED BY <1>0, <2>1, <2>2, <2>3 DEF Limit
<1>3. L <= L2 => L < L2 \/ L = L2
  OBVIOUS
<1> QED BY <1>0, <1>1, <1>2, <1>3

\* The numbers in Order.
LEMMA OrderNumbers ==
  ASSUME TInv, NEW k \in Good
  PROVE  /\ dispatch[k].count \in Nat /\ called[k] \in Nat
         /\ job.n \in Nat /\ job.calls \in Nat /\ MaxToolCalls \in Nat
         /\ \A r \in answered \cup failed : r[2] \in Nat
         /\ \A i \in DOMAIN buffer : i \in Nat /\ buffer[i][2] \in Nat
<1>1. \A i \in DOMAIN buffer : i \in Nat /\ buffer[i] \in Runs
  BY BufferTypes DEF TInv
<1> QED BY <1>1, ConstantsAssumption DEF TInv, TypeOK, Delivery, Good, Runs

\* A step that neither hands out nor begins a run of k, and publishes nothing of it.
LEMMA OrderQuiet ==
  ASSUME TInv, NEW k \in Good, NEW L \in Nat, Order(k, L),
         dispatch'[k].count = dispatch[k].count,
         buffer' = buffer \/ buffer' = <<>>,
         called'[k] = called[k],
         \A r \in answered' \cup failed' :
           r[1] = k => r \in answered \cup failed \/ (Busy(k) /\ r[2] = job.n),
         Busy(k)' =>
           /\ Busy(k) /\ job'.n = job.n
           /\ pc' \in {"model", "tools"} => pc \in {"model", "tools"} /\ job'.calls = job.calls
  PROVE  Order(k, L)'
<1>1. QueueOrder(k, L)'
  <2>1. CASE buffer' = buffer
    BY <2>1 DEF QueueOrder, Order
  <2>2. CASE buffer' = <<>>
    BY <2>2 DEF QueueOrder
  <2> QED BY <2>1, <2>2
<1>2. RunOrder(k, L)'
  BY DEF Order, RunOrder
<1>3. CallOrder(k, L)'
  BY DEF Order, CallOrder
<1> QED BY <1>1, <1>2, <1>3 DEF Order

\* The head of the queue is taken, and it is another message's.
LEMMA TailOrder ==
  ASSUME TInv, NEW k \in Good, NEW L \in Nat, QueueOrder(k, L), buffer # <<>>,
         buffer' = Tail(buffer), dispatch'[k].count = dispatch[k].count
  PROVE  /\ QueueOrder(k, L)'
         /\ \A n : Head(buffer) = <<k, n>> =>
              L < n /\ n <= dispatch[k].count /\ QueueOrder(k, n)'
<1>1. /\ DOMAIN buffer = 1 .. Len(buffer) /\ Len(buffer) \in Nat /\ Len(buffer) > 0
      /\ Head(buffer) = buffer[1]
      /\ DOMAIN buffer' = 1 .. Len(buffer) - 1
      /\ \A i \in 1 .. Len(buffer) - 1 : buffer'[i] = buffer[i + 1]
  BY BufferTypes DEF TInv
<1>2. \A i \in DOMAIN buffer' : i + 1 \in DOMAIN buffer /\ buffer'[i] = buffer[i + 1]
  BY <1>1
<1>3. \A i, j \in DOMAIN buffer' : i < j => i + 1 < j + 1
  BY <1>1
<1>4. QueueOrder(k, L)'
  BY <1>2, <1>3 DEF QueueOrder
<1>5. ASSUME NEW n, Head(buffer) = <<k, n>>
      PROVE  L < n /\ n <= dispatch[k].count /\ QueueOrder(k, n)'
  <2>1. 1 \in DOMAIN buffer /\ buffer[1][1] = k /\ buffer[1][2] = n
    BY <1>1, <1>5
  <2>2. \A i \in DOMAIN buffer' : 1 < i + 1
    BY <1>1
  <2>3. \A i \in DOMAIN buffer' : buffer'[i][1] = k => n < buffer'[i][2]
    BY <1>2, <2>1, <2>2 DEF QueueOrder
  <2>4. L < n /\ n <= dispatch[k].count
    BY <2>1 DEF QueueOrder
  <2> QED BY <1>4, <2>3, <2>4 DEF QueueOrder
<1> QED BY <1>4, <1>5

\* Every step keeps the runs of a message in order.
LEMMA NextOrder ==
  TInv /\ TInv' /\ OrderInv /\ [Next]_vars => \A k \in Good : \E L \in Nat : Order(k, L)'
<1> SUFFICES ASSUME TInv, TInv', OrderInv, [Next]_vars, NEW k \in Good
             PROVE  \E L \in Nat : Order(k, L)'
  OBVIOUS
<1> PICK L \in Nat : Order(k, L)
  BY DEF OrderInv
<1>0. k \in Tasks /\ k \notin Malformed /\ TypeOK
  BY DEF Good, TInv
<1>1. ASSUME NEW j \in Tasks, Deliver(j) PROVE Order(k, L)'
  <2>1. <<j, dispatch'[j].count>> \in Runs
    BY <1>0, <1>1, HandedOutType DEF Deliver, Delivery, Runs
  <2>2. /\ DOMAIN buffer = 1 .. Len(buffer) /\ Len(buffer) \in Nat
        /\ DOMAIN buffer' = 1 .. Len(buffer) + 1
        /\ buffer'[Len(buffer) + 1] = <<j, dispatch'[j].count>>
        /\ \A i \in DOMAIN buffer : buffer'[i] = buffer[i]
    BY <1>0, <1>1, <2>1, BufferTypes DEF Deliver
  <2>3. /\ dispatch[k].count \in Nat /\ dispatch'[k].count \in Nat
        /\ dispatch[k].count <= dispatch'[k].count
        /\ j = k => dispatch[k].count < dispatch'[k].count
    BY <1>0, <1>1, HandedOutType, PaidNumbers, PaidNumbersPrime DEF Deliver
  <2>4. \A i \in DOMAIN buffer' : i \in DOMAIN buffer \/ i = Len(buffer) + 1
    BY <2>2
  <2>5. \A i \in DOMAIN buffer : buffer[i][2] \in Nat
    BY OrderNumbers
  <2>6. L <= dispatch[k].count /\ QueueOrder(k, L)
    BY DEF Order
  <2>7. \A i \in DOMAIN buffer' :
          buffer'[i][1] = k => L < buffer'[i][2] /\ buffer'[i][2] <= dispatch'[k].count
    BY <2>2, <2>3, <2>4, <2>5, <2>6 DEF QueueOrder
  <2>8. ASSUME NEW i \in DOMAIN buffer', NEW m \in DOMAIN buffer', i < m,
               buffer'[i][1] = k, buffer'[m][1] = k
        PROVE  buffer'[i][2] < buffer'[m][2]
    <3>1. i \in DOMAIN buffer
      BY <2>2, <2>4, <2>8
    <3>2. CASE m \in DOMAIN buffer
      BY <2>2, <2>6, <2>8, <3>1, <3>2 DEF QueueOrder
    <3>3. CASE m = Len(buffer) + 1
      <4>1. buffer'[m][2] = dispatch'[k].count /\ j = k
        BY <2>2, <2>8, <3>3
      <4>2. buffer'[i][2] <= dispatch[k].count
        BY <2>2, <2>6, <2>8, <3>1 DEF QueueOrder
      <4> QED BY <2>2, <2>3, <2>5, <3>1, <4>1, <4>2
    <3> QED BY <2>4, <3>2, <3>3
  <2>9. QueueOrder(k, L)'
    BY <2>7, <2>8 DEF QueueOrder
  <2>10. L <= dispatch'[k].count
    BY <2>3, <2>6
  <2> QED BY <1>1, <2>9, <2>10 DEF Order, RunOrder, CallOrder, Busy, Deliver, outcomes
<1>2. ASSUME NEW j \in Tasks, Overdue(j) \/ AckWaitExpires(j) PROVE Order(k, L)'
  <2>1. dispatch'[k].count = dispatch[k].count
    BY <1>0, <1>2, SettleTypes DEF Overdue, AckWaitExpires
  <2> QED BY <1>2, <2>1, OrderQuiet DEF Overdue, AckWaitExpires, outcomes, Busy
<1>3. CASE Begin
  <2>1. Head(buffer) \in Runs /\ dispatch' = dispatch /\ buffer # <<>> /\ buffer' = Tail(buffer)
    BY <1>0, <1>3, BufferTypes DEF Begin
  <2>2. PICK j \in Tasks, n \in Nat : Head(buffer) = <<j, n>>
    BY <2>1 DEF Runs
  <2>3. job'.task = j /\ job'.n = n /\ job'.calls = 0 /\ pc' = "model" /\ pc = "idle"
    BY <1>3, <2>2 DEF Begin, NoJob
  <2>4. UNCHANGED <<called, answered, failed>>
    BY <1>3 DEF Begin, outcomes
  <2>5. CASE j = k
    <3>1. L < n /\ n <= dispatch[k].count /\ QueueOrder(k, n)'
      BY <2>1, <2>2, <2>5, TailOrder DEF Order
    <3>2. RunOrder(k, n)'
      <4>1. 1 <= n
        BY <2>2, <3>1
      <4>2. \A r \in answered \cup failed : r[1] = k => 1 <= r[2] /\ r[2] <= n
        BY <2>2, <3>1, OrderNumbers DEF Order, RunOrder
      <4> QED BY <2>2, <2>3, <2>4, <4>1, <4>2 DEF RunOrder, Busy
    <3>3. CallOrder(k, n)'
      <4>1. called[k] <= Limit(L) /\ called[k] \in Nat /\ MaxToolCalls \in Nat
        BY OrderNumbers DEF Order, CallOrder
      <4>2. /\ Limit(L) \in Nat /\ Limit(n) \in Nat
            /\ Limit(L) + MaxToolCalls <= Limit(n)
        BY <2>2, <3>1, LimitStep
      <4>3. called[k] <= Limit(n) /\ called[k] + MaxToolCalls <= Limit(n)
        BY <4>1, <4>2
      <4>4. job'.calls <= MaxToolCalls /\ Limit(n) + job'.calls = Limit(n)
        BY <2>3, <4>1, <4>2
      <4> QED BY <2>4, <4>3, <4>4 DEF CallOrder, Limit
    <3> QED BY <2>1, <3>1, <3>2, <3>3 DEF Order
  <2>6. CASE j # k
    <3>1. QueueOrder(k, L)'
      BY <2>1, TailOrder DEF Order
    <3> QED BY <2>1, <2>3, <2>4, <2>6, <3>1 DEF Order, RunOrder, CallOrder, Busy
  <2> QED BY <2>2, <2>5, <2>6
<1>4. CASE NakMalformed
  <2>1. Head(buffer)[1] \in Tasks
    BY <1>0, <1>4, BufferTypes DEF NakMalformed, Runs
  <2>2. dispatch'[k].count = dispatch[k].count
    BY <1>0, <1>4, <2>1, SettleTypes DEF NakMalformed
  <2>3. QueueOrder(k, L)'
    BY <1>4, <2>2, TailOrder DEF NakMalformed, Order
  <2> QED BY <1>4, <2>2, <2>3 DEF NakMalformed, Order, RunOrder, CallOrder, Busy, outcomes
<1>5. CASE CallModel \/ WallTimeExceeded \/ ToolLimitExceeded
  <2>1. /\ job'.task = job.task /\ job'.n = job.n
        /\ pc' \in {"model", "tools"} => job'.calls = job.calls
    BY <1>5 DEF CallModel, ToolCallsAsked, WallTimeExceeded, ToolLimitExceeded, TInv, TypeOK
  <2>2. /\ UNCHANGED <<dispatch, buffer, called, answered, failed>>
        /\ pc # "idle" /\ (pc' \in {"model", "tools"} => pc \in {"model", "tools"})
    BY <1>5 DEF CallModel, ToolCallsAsked, WallTimeExceeded, ToolLimitExceeded, outcomes
  <2> QED BY <2>1, <2>2, OrderQuiet DEF Busy
<1>6. CASE ExecuteTool
  <2>1. job'.task = job.task /\ job'.n = job.n /\ job'.calls = job.calls + 1
    BY <1>6 DEF ExecuteTool, AfterTool, TInv, TypeOK
  <2>2. UNCHANGED <<dispatch, buffer, answered, failed>> /\ pc = "tools" /\ job.calls + 1 <= MaxToolCalls
    BY <1>6 DEF ExecuteTool
  <2>3. CASE job.task # k
    <3>1. called'[k] = called[k]
      BY <1>0, <1>6, <2>3 DEF ExecuteTool, ToolCalled, TInv, TypeOK
    <3> QED BY <2>1, <2>2, <2>3, <3>1, OrderQuiet DEF Busy
  <2>4. CASE job.task = k
    <3>1. called'[k] \in {called[k], called[k] + 1}
      BY <1>0, <1>6, <2>4 DEF ExecuteTool, ToolCalled, TInv, TypeOK
    <3>2. job.calls <= MaxToolCalls /\ called[k] + MaxToolCalls <= Limit(L) + job.calls
      BY <2>2, <2>4 DEF Order, CallOrder, Busy
    <3>3. called'[k] + MaxToolCalls <= Limit(L) + job'.calls /\ called'[k] <= Limit(L)
      BY <2>1, <2>2, <3>1, <3>2, OrderNumbers, LimitStep
    <3>4. CallOrder(k, L)'
      BY <2>1, <2>2, <3>3 DEF CallOrder, Limit
    <3> QED BY <2>1, <2>2, <3>4 DEF Order, QueueOrder, RunOrder, Busy
  <2> QED BY <2>3, <2>4
<1>7. CASE ToolCallBroken
  <2>1. job.task \in Tasks /\ pc # "idle" /\ pc' = "idle"
    BY <1>7 DEF ToolCallBroken, TInv, JobInv, Good
  <2>2. dispatch'[k].count = dispatch[k].count
    BY <1>0, <1>7, <2>1, SettleTypes DEF ToolCallBroken
  <2>3. UNCHANGED <<buffer, answered, failed>>
    BY <1>7 DEF ToolCallBroken
  <2>4. CASE job.task # k
    <3>1. called'[k] = called[k]
      BY <1>0, <1>7, <2>1, <2>4, ToolCalledType DEF ToolCallBroken
    <3> QED BY <2>1, <2>2, <2>3, <3>1, OrderQuiet DEF Busy
  <2>5. CASE job.task = k
    <3>1. called'[k] \in {called[k], called[k] + 1}
      BY <1>0, <1>7, <2>1, <2>5, ToolCalledType DEF ToolCallBroken
    <3>2. /\ job.calls + 1 <= MaxToolCalls
          /\ called[k] + MaxToolCalls <= Limit(L) + job.calls
      BY <1>7, <2>5 DEF ToolCallBroken, Order, CallOrder, Busy
    <3>3. called'[k] <= Limit(L)
      BY <3>1, <3>2, OrderNumbers, LimitStep
    <3>4. CallOrder(k, L)' /\ RunOrder(k, L)'
      BY <2>1, <2>3, <3>3 DEF CallOrder, Order, RunOrder, Busy, Limit
    <3> QED BY <2>2, <2>3, <3>4 DEF Order, QueueOrder
  <2> QED BY <2>4, <2>5
<1>8. CASE PublishCompleted \/ PublishEgress \/ PublishFailed
  <2>1. \A r \in answered' \cup failed' : r \in answered \cup failed \/ r = Run
    BY <1>8 DEF PublishCompleted, PublishEgress, PublishFailed, Emit
  <2>2. /\ UNCHANGED <<dispatch, buffer, job, called>>
        /\ pc # "idle" /\ pc' \notin {"model", "tools"}
    BY <1>8 DEF PublishCompleted, PublishEgress, PublishFailed
  <2> QED BY <2>1, <2>2, OrderQuiet DEF Busy, Run
<1>9. CASE AckMessage
  <2>1. job.task \in Tasks
    BY <1>9 DEF AckMessage, TInv, JobInv, Good
  <2>2. dispatch'[k].count = dispatch[k].count
    BY <1>0, <1>9, <2>1, SettleTypes DEF AckMessage
  <2> QED BY <1>9, <2>2, OrderQuiet DEF AckMessage, Busy, outcomes
<1>10. CASE Crash \/ ConnectionClosed \/ Restart
  BY <1>10, OrderQuiet DEF Crash, ConnectionClosed, Stop, Restart, Busy, outcomes
<1>11. CASE UNCHANGED vars
  BY <1>11, OrderQuiet DEF vars, Busy, outcomes
<1> QED BY <1>1, <1>2, <1>3, <1>4, <1>5, <1>6, <1>7, <1>8, <1>9, <1>10, <1>11
        DEF Next, HandleDispatch

\* Initially nothing has been run, and every message is owed one delivery.
LEMMA InitAccount == Init => PaidInv /\ OrderInv
<1> SUFFICES ASSUME Init PROVE PaidInv /\ OrderInv
  OBVIOUS
<1>1. ASSUME NEW k \in Good PROVE Paid(k) /\ Order(k, 0)
  <2>1. /\ dispatch[k].st = "stored" /\ dispatch[k].count = 0
        /\ overdue[k] = 0 /\ faults = 0 /\ called[k] = 0
    BY <1>1 DEF Init, Good, Stored
  <2>2. Paid(k)
    BY <2>1 DEF Paid, Owed, Repeats
  <2>3. QueueOrder(k, 0) /\ RunOrder(k, 0)
    BY DEF Init, QueueOrder, RunOrder, Busy
  <2>4. Limit(0) \in Nat
    BY LimitStep
  <2>5. CallOrder(k, 0)
    BY <2>1, <2>4 DEF Init, CallOrder, Busy
  <2> QED BY <2>1, <2>2, <2>3, <2>5 DEF Order
<1>2. \A k \in Malformed : called[k] = 0
  BY ConstantsAssumption DEF Init
<1> QED BY <1>1, <1>2 DEF PaidInv, OrderInv, Init

\* Nothing is published of malformed messages.
LEMMA NextGood ==
  TInv /\ OrderInv /\ [Next]_vars =>
    /\ \A k \in Malformed : called'[k] = 0
    /\ \A r \in answered' \cup failed' : r[1] \in Good
<1> SUFFICES ASSUME TInv, OrderInv, [Next]_vars
             PROVE  /\ \A k \in Malformed : called'[k] = 0
                    /\ \A r \in answered' \cup failed' : r[1] \in Good
  OBVIOUS
<1>1. CASE UNCHANGED <<called, answered, failed>>
  BY <1>1 DEF OrderInv
<1>2. CASE ExecuteTool \/ ToolCallBroken
  <2>1. job.task \in Good /\ Malformed \subseteq Tasks
    BY <1>2, ConstantsAssumption DEF ExecuteTool, ToolCallBroken, TInv, JobInv
  <2>2. called' \in {called, ToolCalled} /\ UNCHANGED <<answered, failed>>
    BY <1>2 DEF ExecuteTool, ToolCallBroken
  <2>3. \A k \in Malformed : ToolCalled[k] = called[k]
    BY <2>1 DEF ToolCalled, Good, TInv, TypeOK
  <2> QED BY <2>2, <2>3 DEF OrderInv
<1>3. CASE PublishCompleted \/ PublishEgress \/ PublishFailed
  <2>1. Run[1] \in Good /\ UNCHANGED called
    BY <1>3 DEF PublishCompleted, PublishEgress, PublishFailed, Run, TInv, JobInv
  <2>2. \A r \in answered' \cup failed' : r \in answered \cup failed \/ r = Run
    BY <1>3 DEF PublishCompleted, PublishEgress, PublishFailed, Emit
  <2> QED BY <2>1, <2>2 DEF OrderInv
<1> QED BY <1>1, <1>2, <1>3
        DEF Next, HandleDispatch, Deliver, Overdue, AckWaitExpires, Begin, NakMalformed,
            CallModel, ToolCallsAsked, WallTimeExceeded, ToolLimitExceeded, AckMessage, Crash,
            ConnectionClosed, Stop, Restart, vars, outcomes

AInv == TInv /\ PaidInv /\ OrderInv

\* The account holds in every reachable state.
LEMMA Account == Spec => []AInv
<1>1. Init => AInv
  BY InitTInv, InitAccount DEF AInv
<1>2. AInv /\ [Next]_vars => AInv'
  BY NextTInv, NextPaid, NextOrder, NextGood DEF AInv, OrderInv
<1> QED BY <1>1, <1>2, PTL DEF Spec

\* A task is answered, or reported failed, once, and once more at most for each early
\* redelivery and each failure.
THEOREM AnswersCorrect == Spec => []AnswersBounded
<1>1. AInv => AnswersBounded
  <2> SUFFICES ASSUME AInv, NEW k \in Tasks
               PROVE  Cardinality({r \in answered \cup failed : r[1] = k}) <= Repeats(k)
    BY DEF AnswersBounded
  <2> DEFINE S == {r \in answered \cup failed : r[1] = k}
  <2>0. TInv /\ overdue[k] \in Nat /\ faults \in Nat
    BY DEF AInv, TInv, TypeOK
  <2>1. CASE k \in Malformed
    <3>1. S = {}
      BY <2>1 DEF AInv, OrderInv, Good
    <3>2. Cardinality(S) = 0
      BY <3>1, FS_EmptySet
    <3> QED BY <2>0, <3>2 DEF Repeats
  <2>2. CASE k \in Good
    <3>1. PICK L \in Nat : Order(k, L)
      BY <2>2 DEF AInv, OrderInv
    <3>2. L <= Repeats(k)
      BY <2>0, <2>2, <3>1, PaidNumbers DEF Order, AInv, PaidInv, Repeats
    <3>3. IsFiniteSet(1 .. L) /\ Cardinality(1 .. L) = L
      BY FS_Interval
    <3>4. \A r \in S : r \in Runs /\ r[1] = k /\ r[2] \in 1 .. L
      BY <2>0, <3>1 DEF Order, RunOrder, TInv, TypeOK, Runs
    <3>5. [r \in S |-> r[2]] \in Injection(S, 1 .. L)
      <4>1. \A r, s \in S : r[2] = s[2] => r = s
        BY <3>4 DEF Runs
      <4> QED BY <3>4, <4>1 DEF Injection, IsInjective
    <3>6. IsFiniteSet(S) /\ Cardinality(S) <= L
      BY <3>3, <3>5, FS_Injection
    <3> QED BY <2>0, <3>2, <3>6, FS_CardinalityType DEF Repeats
  <2> QED BY <2>1, <2>2 DEF Good
<1> QED BY <1>1, Account, PTL

\* The tool calls of a task are limited by MaxToolCalls for each of its runs.
THEOREM ToolCallsCorrect == Spec => []ToolCallsBounded
<1>1. AInv => ToolCallsBounded
  <2> SUFFICES ASSUME AInv, NEW k \in Tasks PROVE called[k] <= Limit(Repeats(k))
    BY DEF ToolCallsBounded, Limit
  <2>0. TInv /\ Repeats(k) \in Nat /\ called[k] \in Nat
    BY SMTT(20) DEF AInv, TInv, TypeOK, Repeats
  <2>1. CASE k \in Malformed
    BY <2>0, <2>1, LimitStep DEF AInv, OrderInv
  <2>2. CASE k \in Good
    <3>1. PICK L \in Nat : Order(k, L)
      BY <2>2 DEF AInv, OrderInv
    <3>2. L <= Repeats(k)
      BY <2>0, <2>2, <3>1, PaidNumbers DEF Order, AInv, PaidInv, Repeats
    <3>3. /\ Limit(L) <= Limit(Repeats(k)) /\ Limit(L) \in Nat /\ Limit(Repeats(k)) \in Nat
      BY <2>0, <3>2, LimitStep
    <3> QED BY <2>0, <3>1, <3>3 DEF Order, CallOrder
  <2> QED BY <2>1, <2>2 DEF Good
<1> QED BY <1>1, Account, PTL

-----------------------------------------------------------------------------
(* Messages nobody was told of: settled, or about to be.                     *)

Silent == {k \in Tasks : (Settled(dispatch, k) \/ (pc = "ack" /\ job.task = k)) /\ Unreported(k)}

SilentInv == Cardinality(Silent) <= faults

\* Sets of messages are finite.
LEMMA SilentFinite ==
  /\ IsFiniteSet(Silent) /\ Cardinality(Silent) \in Nat
  /\ IsFiniteSet(Silent') /\ Cardinality(Silent') \in Nat
<1>1. Silent \subseteq Tasks /\ Silent' \subseteq Tasks /\ IsFiniteSet(Tasks)
  BY ConstantsAssumption DEF Silent
<1> QED BY <1>1, FS_Subset, FS_CardinalityType

\* A step may add one message, if it counts a failure.
LEMMA SilentStep ==
  ASSUME TInv, SilentInv, NEW j, faults' \in {faults, faults + 1},
         Silent' \subseteq Silent \/ (Silent' \subseteq Silent \cup {j} /\ faults' = faults + 1)
  PROVE  SilentInv'
<1>0. faults \in Nat /\ Cardinality(Silent) <= faults
  BY DEF TInv, TypeOK, SilentInv
<1>1. CASE Silent' \subseteq Silent
  <2>1. Cardinality(Silent') <= Cardinality(Silent)
    BY <1>1, SilentFinite, FS_Subset
  <2> QED BY <1>0, <2>1, SilentFinite DEF SilentInv
<1>2. CASE Silent' \subseteq Silent \cup {j} /\ faults' = faults + 1
  <2>1. /\ IsFiniteSet(Silent \cup {j})
        /\ Cardinality(Silent \cup {j}) \in {Cardinality(Silent), Cardinality(Silent) + 1}
    BY SilentFinite, FS_AddElement
  <2>2. Cardinality(Silent') <= Cardinality(Silent \cup {j})
    BY <1>2, <2>1, FS_Subset
  <2> QED BY <1>0, <1>2, <2>1, <2>2, SilentFinite DEF SilentInv
<1> QED BY <1>1, <1>2

\* Initially no message is settled.
LEMMA InitSilent == Init => SilentInv
<1> SUFFICES ASSUME Init PROVE SilentInv
  OBVIOUS
<1>1. Silent = {} /\ faults = 0
  BY DEF Init, Silent, Settled, Stored
<1> QED BY <1>1, FS_EmptySet DEF SilentInv

\* Only the publish before an acknowledgement can leave a message silent.
LEMMA NextSilent == TInv /\ SilentInv /\ [Next]_vars => SilentInv'
<1> SUFFICES ASSUME TInv, SilentInv, [Next]_vars PROVE SilentInv'
  OBVIOUS
<1>0. TypeOK
  BY DEF TInv
<1>1. ASSUME \A k \in Tasks : Settled(dispatch', k) => Settled(dispatch, k),
             UNCHANGED <<answered, failed>>,
             pc' # "ack", faults' \in {faults, faults + 1}
      PROVE  SilentInv'
  <2>1. Silent' \subseteq Silent
    BY <1>1 DEF Silent, Unreported
  <2> QED BY <1>1, <2>1, SilentStep
<1>2. ASSUME \A k \in Tasks : Settled(dispatch', k) => Settled(dispatch, k),
             UNCHANGED <<pc, job, answered, failed, faults>>
      PROVE  SilentInv'
  <2>1. Silent' \subseteq Silent
    BY <1>2 DEF Silent, Unreported
  <2> QED BY <1>2, <2>1, SilentStep
<1>3. ASSUME NEW k \in Tasks
      PROVE  \A m \in Tasks : Settled(Returned(dispatch, k), m) => Settled(dispatch, m)
  <2>1. \A m \in Tasks \ {k} : Returned(dispatch, k)[m] = dispatch[m]
    BY <1>0, SettleTypes
  <2>2. Returned(dispatch, k)[k].st =
          IF dispatch[k].st = "pending" THEN "redeliver" ELSE dispatch[k].st
    BY <1>0, SettleTypes
  <2> QED BY <2>1, <2>2 DEF Settled
<1>4. ASSUME NEW k \in Tasks, Deliver(k) PROVE SilentInv'
  <2>1. dispatch'[k].st = "pending" /\ \A m \in Tasks \ {k} : dispatch'[m] = dispatch[m]
    BY <1>0, <1>4, HandedOutType DEF Deliver
  <2>2. \A m \in Tasks : Settled(dispatch', m) => Settled(dispatch, m)
    BY <2>1 DEF Settled
  <2> QED BY <1>2, <1>4, <2>2 DEF Deliver, outcomes
<1>5. ASSUME NEW k \in Tasks, Overdue(k) \/ AckWaitExpires(k) PROVE SilentInv'
  <2>1. \A m \in Tasks : Settled(dispatch', m) => Settled(dispatch, m)
    BY <1>3, <1>5 DEF Overdue, AckWaitExpires
  <2> QED BY <1>2, <1>5, <2>1 DEF Overdue, AckWaitExpires, outcomes
<1>6. CASE Begin \/ CallModel \/ WallTimeExceeded \/ ToolLimitExceeded
  BY <1>1, <1>6 DEF Begin, CallModel, ToolCallsAsked, WallTimeExceeded, ToolLimitExceeded, outcomes
<1>7. CASE NakMalformed
  <2>1. Head(buffer)[1] \in Tasks
    BY <1>0, <1>7, BufferTypes DEF NakMalformed, Runs
  <2>2. \A m \in Tasks : Settled(dispatch', m) => Settled(dispatch, m)
    BY <1>3, <1>7, <2>1 DEF NakMalformed
  <2> QED BY <1>2, <1>7, <2>2 DEF NakMalformed, outcomes
<1>8. CASE ExecuteTool \/ PublishCompleted
  <2>1. pc' # "ack" /\ UNCHANGED <<dispatch, answered, failed>>
    BY <1>8 DEF ExecuteTool, PublishCompleted
  <2>2. faults' \in {faults, faults + 1}
    BY <1>8 DEF ExecuteTool, PublishCompleted, Emit, Fault
  <2> QED BY <1>1, <2>1, <2>2
<1>9. CASE ToolCallBroken
  <2>1. job.task \in Tasks
    BY <1>9 DEF ToolCallBroken, TInv, JobInv, Good
  <2>2. \A m \in Tasks : Settled(dispatch', m) => Settled(dispatch, m)
    BY <1>3, <1>9, <2>1 DEF ToolCallBroken
  <2> QED BY <1>1, <1>9, <2>2 DEF ToolCallBroken, Fault
<1>10. CASE PublishEgress \/ PublishFailed
  <2>1. UNCHANGED <<dispatch, job>> /\ pc # "ack" /\ pc' = "ack"
    BY <1>10 DEF PublishEgress, PublishFailed
  <2>2. CASE UNCHANGED faults
    <3>1. Run \in answered' \cup failed' /\ answered \cup failed \subseteq answered' \cup failed'
      BY <1>0, <1>10, <2>2 DEF PublishEgress, PublishFailed, Emit, Fault, TypeOK
    <3>2. Run[1] = job.task
      BY DEF Run
    <3>3. Silent' \subseteq Silent
      BY <2>1, <3>1, <3>2 DEF Silent, Unreported
    <3> QED BY <2>2, <3>3, SilentStep
  <2>3. CASE faults' = faults + 1
    <3>1. answered \cup failed \subseteq answered' \cup failed'
      BY <1>10 DEF PublishEgress, PublishFailed, Emit
    <3>2. Silent' \subseteq Silent \cup {job.task}
      BY <2>1, <3>1 DEF Silent, Unreported
    <3> QED BY <2>3, <3>2, SilentStep
  <2> QED BY <1>10, <2>2, <2>3 DEF PublishEgress, PublishFailed, Emit, Fault
<1>11. CASE AckMessage
  <2>1. job.task \in Tasks
    BY <1>11 DEF AckMessage, TInv, JobInv, Good
  <2>2. \A m \in Tasks \ {job.task} : dispatch'[m] = dispatch[m]
    BY <1>0, <1>11, <2>1, SettleTypes DEF AckMessage
  <2>3. Silent' \subseteq Silent
    BY <1>11, <2>2 DEF AckMessage, Silent, Unreported, Settled, outcomes
  <2> QED BY <1>11, <2>3, SilentStep DEF AckMessage, Fault
<1>12. CASE Crash \/ ConnectionClosed
  BY <1>1, <1>12 DEF Crash, ConnectionClosed, Stop, Fault, outcomes
<1>13. CASE Restart \/ UNCHANGED vars
  BY <1>2, <1>13 DEF Restart, vars, outcomes
<1> QED BY <1>4, <1>5, <1>6, <1>7, <1>8, <1>9, <1>10, <1>11, <1>12, <1>13
        DEF Next, HandleDispatch

\* Messages that are settled in silence cost a failure each.
THEOREM UnreportedCorrect == Spec => []UnreportedBounded
<1>1. TInv /\ SilentInv => UnreportedBounded
  <2> SUFFICES ASSUME TInv, SilentInv PROVE UnreportedBounded
    OBVIOUS
  <2> DEFINE S == {k \in Tasks : Settled(dispatch, k) /\ Unreported(k)}
  <2>1. S \in SUBSET Silent
    BY DEF Silent
  <2>2. Cardinality(S) \in Nat /\ Cardinality(S) <= Cardinality(Silent)
    BY <2>1, SilentFinite, FS_Subset, FS_CardinalityType
  <2> QED BY <2>2, SilentFinite DEF UnreportedBounded, SilentInv, TInv, TypeOK
<1>2. Init => TInv /\ SilentInv
  BY InitTInv, InitSilent
<1>3. TInv /\ SilentInv /\ [Next]_vars => (TInv /\ SilentInv)'
  BY NextTInv, NextSilent
<1> QED BY <1>1, <1>2, <1>3, PTL DEF Spec

=============================================================================
