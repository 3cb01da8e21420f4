----------------------- MODULE SandboxExecutor_proofs -----------------------
(***************************************************************************)
(* Proofs about SandboxExecutor, for every number of HTTP threads,         *)
(* sandboxes, tasks and keys.                                              *)
(***************************************************************************)
EXTENDS SandboxExecutor, FiniteSetTheorems, TLAPS

ThreadType == [pc : ThreadPCs, id : SandboxIds \cup {NoSandbox}, key : CallKeys \cup {NoKey}]

\* The threads that can run commands.
Runners == ApiThreads \cup {CallThread}

-----------------------------------------------------------------------------
(* The inductive invariant.                                                  *)

\* A thread that is busy is so with a sandbox, and the cleanup destroys only.
ThreadsOK ==
  /\ thread \in [SandboxThreads -> ThreadType]
  /\ \A t \in SandboxThreads : ~On(t, "idle") => thread[t].id \in SandboxIds
  /\ thread[CleanupThread].pc \in Destroying \cup {"idle"}

ThreadsInv == SandboxTypeOK /\ ThreadsOK

\* A sandbox is stored from its creation to a deletion.  A creation that a deletion
\* overtook is on record; a stored sandbox without such a record stands as running or
\* has a thread that will write running, or delete it.  The passing statuses belong to
\* the threads that wrote them.
SandboxOK(x) ==
  /\ Exists(x) <=> x \in stored \cup destroyed
  /\ x \in destroyed \ raced => ~Held(x, Creating)
  /\ x \in stored \ raced =>
       (status[x] = "running" /\ x \notin destroyed) \/ Held(x, Destroying \cup {"create"})
  /\ status[x] = "creating" => Held(x, {"create"})
  /\ status[x] = "stopping" => Held(x, {"hold", "halt"})
  /\ Busy(x) => Exists(x)

RestInv == \A x \in SandboxIds : SandboxOK(x)

SandboxInv == ThreadsInv /\ ExecutionsBounded /\ RestInv

-----------------------------------------------------------------------------
(* Threads.                                                                  *)

\* What a step of one thread makes of the threads.
LEMMA ThreadMoves ==
  ASSUME ThreadsInv, NEW t \in SandboxThreads, NEW r \in ThreadType,
         thread' = [thread EXCEPT ![t] = r],
         r.pc = "idle" \/ r.id \in SandboxIds,
         t = CleanupThread => r.pc \in Destroying \cup {"idle"}
  PROVE  /\ ThreadsOK'
         /\ thread'[t] = r /\ \A u \in SandboxThreads \ {t} : thread'[u] = thread[u]
<1>1. thread \in [SandboxThreads -> ThreadType] /\ CleanupThread \in SandboxThreads
  BY DEF ThreadsInv, ThreadsOK, SandboxThreads
<1>2. thread'[t] = r /\ \A u \in SandboxThreads \ {t} : thread'[u] = thread[u]
  BY <1>1
<1> QED BY <1>1, <1>2 DEF ThreadsInv, ThreadsOK, On

\* The records that Step and Return store.
LEMMA ThreadRecords ==
  /\ IdleThread \in ThreadType /\ IdleThread.pc = "idle"
  /\ \A pc \in ThreadPCs, id \in SandboxIds, key \in CallKeys \cup {NoKey} :
       [pc |-> pc, id |-> id, key |-> key] \in ThreadType
BY DEF IdleThread, ThreadType, ThreadPCs

\* The steps of a thread.
LEMMA Steps ==
  /\ Creating \cup Destroying \subseteq ThreadPCs
  /\ \A pc \in Creating \cup Destroying : pc \notin {"idle", "execute", "run"}
  /\ Creating \cap Destroying = {}
  /\ DOMAIN StatusWritten = {"create", "stop", "halt"}
  /\ StatusWritten["create"] = "running" /\ StepAfter["create"] = "keep"
  /\ StatusWritten["stop"] = "stopping" /\ StepAfter["stop"] = "hold"
  /\ StatusWritten["halt"] = "stopped" /\ StepAfter["halt"] = "shelve"
  /\ StepAfter["hold"] = "halt" /\ StepAfter["shelve"] = "delete"
BY DEF Creating, Destroying, ThreadPCs, StatusWritten, StepAfter

\* Who holds a sandbox after thread t has gone on.
LEMMA HeldMoves ==
  ASSUME NEW t \in SandboxThreads, NEW r, thread'[t] = r,
         \A u \in SandboxThreads \ {t} : thread'[u] = thread[u],
         NEW x \in SandboxIds, NEW S
  PROVE  /\ Held(x, S)' => Held(x, S) \/ (r.id = x /\ r.pc \in S)
         /\ r.id = x /\ r.pc \in S => Held(x, S)'
         /\ Held(x, S) => Held(x, S)' \/ (thread[t].id = x /\ thread[t].pc \in S)
BY DEF Held

\* What a thread does with sandbox id changes nothing for another one.
LEMMA OtherSandbox ==
  ASSUME NEW t \in SandboxThreads, NEW r, thread'[t] = r,
         \A u \in SandboxThreads \ {t} : thread'[u] = thread[u],
         NEW x \in SandboxIds, SandboxOK(x),
         status'[x] = status[x], x \in stored' <=> x \in stored,
         x \in destroyed' <=> x \in destroyed, x \in raced' <=> x \in raced,
         thread[t].pc \in Creating \cup Destroying => thread[t].id # x,
         r.pc \in Creating \cup Destroying => r.id # x
  PROVE  SandboxOK(x)'
<1>1. \A S \in SUBSET (Creating \cup Destroying) : Held(x, S)' <=> Held(x, S)
  BY DEF Held
<1>2. /\ Creating \in SUBSET (Creating \cup Destroying)
      /\ Destroying \cup {"create"} \in SUBSET (Creating \cup Destroying)
      /\ {"create"} \in SUBSET (Creating \cup Destroying)
      /\ {"hold", "halt"} \in SUBSET (Creating \cup Destroying)
      /\ Creating \cup Destroying \in SUBSET (Creating \cup Destroying)
  BY DEF Creating, Destroying
<1>3. /\ Held(x, Creating)' <=> Held(x, Creating)
      /\ Held(x, Destroying \cup {"create"})' <=> Held(x, Destroying \cup {"create"})
      /\ Held(x, {"create"})' <=> Held(x, {"create"})
      /\ Held(x, {"hold", "halt"})' <=> Held(x, {"hold", "halt"})
      /\ Busy(x)' <=> Busy(x)
  BY <1>1, <1>2 DEF Busy
<1> QED BY <1>3 DEF SandboxOK, Exists

\* The threads that run a command with key k are finitely many.
LEMMA RunningFinite ==
  ASSUME ThreadsInv, NEW k \in CallKeys
  PROVE  /\ Running(k) \subseteq Runners /\ IsFiniteSet(Running(k))
         /\ Cardinality(Running(k)) \in Nat
         /\ Cardinality(Running(k)) <= Cardinality(ApiThreads) + 1
         /\ Cardinality(ApiThreads) \in Nat
<1>1. Running(k) \subseteq Runners
  BY DEF ThreadsInv, ThreadsOK, Running, On, Runners, SandboxThreads, Destroying
<1>2. IsFiniteSet(SandboxThreads) /\ ApiThreads \subseteq SandboxThreads
      /\ Runners \subseteq SandboxThreads
  BY SandboxAssumption DEF SandboxThreads, Runners
<1>3. IsFiniteSet(ApiThreads) /\ IsFiniteSet(Runners)
  BY <1>2, FS_Subset
<1>4. Cardinality(Runners) = Cardinality(ApiThreads) + 1
  BY <1>3, FS_AddElement, SandboxAssumption DEF Runners
<1> QED BY <1>1, <1>3, <1>4, FS_Subset, FS_CardinalityType

\* A key is run no more often when no thread begins to run a command.
LEMMA ExecutionsStep ==
  ASSUME ThreadsInv, ThreadsInv', ExecutionsBounded, UNCHANGED <<executions, execCache>>,
         \A u \in SandboxThreads : thread'[u].pc = "run" => thread'[u] = thread[u]
  PROVE  ExecutionsBounded'
<1> SUFFICES ASSUME NEW k \in CallKeys
             PROVE  executions'[k] + Cardinality(Running(k)') <= Cardinality(ApiThreads) + 1
  BY DEF ExecutionsBounded
<1>1. Running(k)' \subseteq Running(k)
  BY DEF Running, On
<1>2. Cardinality(Running(k)') <= Cardinality(Running(k))
      /\ Cardinality(Running(k)') \in Nat
  BY <1>1, RunningFinite, FS_Subset, FS_CardinalityType
<1>3. executions[k] \in Nat /\ executions'[k] = executions[k]
  BY DEF ThreadsInv, SandboxTypeOK
<1> QED BY <1>2, <1>3, RunningFinite DEF ExecutionsBounded

-----------------------------------------------------------------------------
\* At the start there is nothing.
LEMMA InitSandboxInv == SandboxInit => SandboxInv
<1> SUFFICES ASSUME SandboxInit PROVE SandboxInv
  OBVIOUS
<1>1. thread = [t \in SandboxThreads |-> IdleThread] /\ CleanupThread \in SandboxThreads
  BY DEF SandboxInit, SandboxThreads
<1>2. \A t \in SandboxThreads : thread[t] = IdleThread
  BY <1>1
<1>3. ThreadsOK
  BY <1>1, <1>2, ThreadRecords DEF ThreadsOK, On
<1>4. SandboxTypeOK
  BY <1>3 DEF SandboxInit, SandboxTypeOK, Statuses, ThreadsOK, ThreadType
<1>5. ExecutionsBounded
  <2> SUFFICES ASSUME NEW k \in CallKeys
               PROVE  executions[k] + Cardinality(Running(k)) <= Cardinality(ApiThreads) + 1
    BY DEF SandboxInit, ExecutionsBounded
  <2>1. executions[k] = 0
    BY DEF SandboxInit
  <2> QED BY <1>3, <1>4, <2>1, RunningFinite DEF ThreadsInv
<1>6. RestInv
  <2>1. \A x \in SandboxIds : ~Busy(x) /\ ~Held(x, Creating)
    BY <1>2, Steps DEF Busy, Held, IdleThread
  <2> QED BY <2>1 DEF SandboxInit, RestInv, SandboxOK, Exists
<1> QED BY <1>3, <1>4, <1>5, <1>6 DEF SandboxInv, ThreadsInv

-----------------------------------------------------------------------------
(* Creation.                                                                 *)

\* A new sandbox is being created; its id was never used.
LEMMA BeginCreateStep ==
  ASSUME SandboxInv, NEW t \in Runners, NEW task \in SandboxTasks, NEW key \in CallKeys \cup {NoKey},
         On(t, "idle"), BeginCreate(t, task, key),
         UNCHANGED <<taskOf, execCache, toolCache, executions, destroyed, raced>>
  PROVE  SandboxInv'
<1>1. PICK id \in SandboxIds :
        /\ ~Exists(id)
        /\ status' = [status EXCEPT ![id] = "creating"] /\ stored' = stored \cup {id}
        /\ thread' = [thread EXCEPT ![t] = [pc |-> "create", id |-> id, key |-> key]]
  BY DEF BeginCreate, Step
<1>2. /\ t \in SandboxThreads /\ t # CleanupThread
      /\ [pc |-> "create", id |-> id, key |-> key] \in ThreadType
  BY SandboxAssumption, ThreadRecords DEF Runners, SandboxThreads, ThreadPCs, Creating
<1>3. /\ ThreadsOK'
      /\ thread'[t] = [pc |-> "create", id |-> id, key |-> key]
      /\ \A u \in SandboxThreads \ {t} : thread'[u] = thread[u]
  BY <1>1, <1>2, ThreadMoves DEF SandboxInv
<1>4. status \in [SandboxIds -> Statuses] /\ status' \in [SandboxIds -> Statuses]
  BY <1>1 DEF SandboxInv, ThreadsInv, SandboxTypeOK, Statuses
<1>5. ThreadsInv'
  BY <1>1, <1>3, <1>4 DEF SandboxInv, ThreadsInv, SandboxTypeOK, ThreadsOK, ThreadType
<1>6. ExecutionsBounded'
  BY <1>3, <1>5, ExecutionsStep DEF SandboxInv
<1>7. thread[t].pc = "idle" /\ ~Busy(id) /\ id \notin stored \cup destroyed
  BY <1>1 DEF SandboxInv, RestInv, SandboxOK, On
<1>8. SandboxOK(id)'
  <2>1. status'[id] = "creating" /\ id \in stored' /\ id \notin destroyed'
    BY <1>1, <1>4, <1>7
  <2>2. Held(id, {"create"})' /\ Held(id, Destroying \cup {"create"})'
    BY <1>2, <1>3, HeldMoves
  <2> QED BY <2>1, <2>2 DEF SandboxOK, Exists
<1>9. RestInv'
  <2> SUFFICES ASSUME NEW x \in SandboxIds, x # id PROVE SandboxOK(x)'
    BY <1>8 DEF RestInv
  <2>1. SandboxOK(x) /\ status'[x] = status[x] /\ (x \in stored' <=> x \in stored)
    BY <1>1, <1>4 DEF SandboxInv, RestInv
  <2>2. thread[t].pc \notin Creating \cup Destroying
    BY <1>7, Steps
  <2> QED BY <1>2, <1>3, <2>1, <2>2, OtherSandbox
<1> QED BY <1>5, <1>6, <1>9 DEF SandboxInv

\* A status is written, by the creation or by a destroy.
LEMMA WriteStatusStep ==
  ASSUME SandboxInv, NEW t \in SandboxThreads, WriteStatus(t)
  PROVE  SandboxInv'
<1>0. PICK id, pc : id = thread[t].id /\ pc = thread[t].pc
  OBVIOUS
<1> DEFINE r == [pc |-> StepAfter[pc], id |-> id, key |-> thread[t].key]
<1>1. /\ pc \in {"create", "stop", "halt"} /\ thread[t] \in ThreadType /\ id \in SandboxIds
      /\ status' = [status EXCEPT ![id] = StatusWritten[pc]]
      /\ thread' = [thread EXCEPT ![t] = r]
      /\ UNCHANGED <<taskOf, stored, execCache, toolCache, executions, destroyed, raced>>
  BY <1>0, Steps DEF WriteStatus, Step, On, SandboxInv, ThreadsInv, ThreadsOK
<1>2. /\ r \in ThreadType /\ r.pc = StepAfter[pc] /\ r.id = id
      /\ r.pc \in Creating \cup Destroying
      /\ pc \in Creating <=> r.pc \in Creating
      /\ t = CleanupThread => r.pc \in Destroying
  <2>1. thread[t].key \in CallKeys \cup {NoKey}
    BY <1>1 DEF ThreadType
  <2>2. /\ StepAfter[pc] \in Creating \cup Destroying
        /\ pc \in Creating <=> StepAfter[pc] \in Creating
        /\ pc \in Destroying <=> StepAfter[pc] \in Destroying
    BY <1>1, Steps DEF Creating, Destroying
  <2>3. t = CleanupThread => pc \in Destroying
    BY <1>0, <1>1 DEF SandboxInv, ThreadsInv, ThreadsOK
  <2> QED BY <1>1, <2>1, <2>2, <2>3, ThreadRecords, Steps
<1> HIDE DEF r
<1>3. /\ ThreadsOK' /\ thread'[t] = r
      /\ \A u \in SandboxThreads \ {t} : thread'[u] = thread[u]
  BY <1>1, <1>2, ThreadMoves DEF SandboxInv
<1>4. status \in [SandboxIds -> Statuses] /\ status' \in [SandboxIds -> Statuses]
  BY <1>1, Steps DEF SandboxInv, ThreadsInv, SandboxTypeOK, Statuses
<1>5. ThreadsInv'
  BY <1>1, <1>3, <1>4 DEF SandboxInv, ThreadsInv, SandboxTypeOK, ThreadsOK, ThreadType
<1>6. ExecutionsBounded'
  BY <1>1, <1>2, <1>3, <1>5, Steps, ExecutionsStep DEF SandboxInv
<1>7. SandboxOK(id) /\ Exists(id) /\ pc \in Creating \cup Destroying
  <2>1. pc \in Creating \cup Destroying
    BY <1>1 DEF Creating, Destroying
  <2>2. Busy(id)
    BY <1>0, <2>1 DEF Busy, Held
  <2> QED BY <1>1, <2>1, <2>2 DEF SandboxInv, RestInv, SandboxOK
<1>8. SandboxOK(id)'
  <2>1. status'[id] = StatusWritten[pc] /\ Exists(id)'
    BY <1>1, <1>4, Steps DEF Exists
  <2>2. Held(id, Creating)' => Held(id, Creating)
    BY <1>0, <1>1, <1>2, <1>3, HeldMoves DEF Held
  <2>3. CASE pc = "create"
    <3>1. status'[id] = "running"
      BY <2>1, <2>3, Steps
    <3>2. id \notin destroyed \ raced
      BY <1>0, <1>1, <1>7, <2>3 DEF SandboxOK, Held, Creating
    <3> QED BY <1>1, <1>7, <2>1, <2>2, <3>1, <3>2 DEF SandboxOK
  <2>4. CASE pc = "stop"
    <3>1. status'[id] = "stopping" /\ r.pc = "hold"
      BY <1>2, <2>1, <2>4, Steps
    <3>2. Held(id, {"hold", "halt"})' /\ Held(id, Destroying \cup {"create"})'
      BY <1>0, <1>1, <1>2, <1>3, <3>1, HeldMoves DEF Destroying
    <3> QED BY <1>1, <1>7, <2>1, <2>2, <3>1, <3>2 DEF SandboxOK
  <2>5. CASE pc = "halt"
    <3>1. status'[id] = "stopped" /\ r.pc = "shelve"
      BY <1>2, <2>1, <2>5, Steps
    <3>2. Held(id, Destroying \cup {"create"})'
      BY <1>0, <1>1, <1>2, <1>3, <3>1, HeldMoves DEF Destroying
    <3> QED BY <1>1, <1>7, <2>1, <2>2, <3>1, <3>2 DEF SandboxOK
  <2> QED BY <1>1, <2>3, <2>4, <2>5
<1>9. RestInv'
  <2> SUFFICES ASSUME NEW x \in SandboxIds, x # id PROVE SandboxOK(x)'
    BY <1>8 DEF RestInv
  <2>1. SandboxOK(x) /\ status'[x] = status[x]
    BY <1>1, <1>4 DEF SandboxInv, RestInv
  <2> QED BY <1>0, <1>1, <1>2, <1>3, <2>1, OtherSandbox
<1> QED BY <1>5, <1>6, <1>9 DEF SandboxInv

\* The creation's second Put: a sandbox it brings back was deleted under it, as is on
\* record.
LEMMA KeepStep ==
  ASSUME SandboxInv, NEW t \in SandboxThreads, KeepSandbox(t)
  PROVE  SandboxInv'
<1>0. PICK id : id = thread[t].id
  OBVIOUS
<1> DEFINE r == IF t = CallThread THEN [pc |-> "execute", id |-> id, key |-> thread[t].key]
                                  ELSE IdleThread
<1>1. /\ thread[t].pc = "keep" /\ thread[t] \in ThreadType /\ id \in SandboxIds
      /\ t # CleanupThread
  BY <1>0 DEF KeepSandbox, On, SandboxInv, ThreadsInv, ThreadsOK, Destroying
<1>2. /\ stored' = stored \cup {id} /\ thread' = [thread EXCEPT ![t] = r]
      /\ UNCHANGED <<status, taskOf, execCache, toolCache, executions, destroyed, raced>>
  BY <1>0 DEF KeepSandbox, Step, Return
<1>3. /\ r \in ThreadType /\ r.pc \in {"idle", "execute"}
      /\ r.pc = "idle" \/ r.id \in SandboxIds
  <2>1. thread[t].key \in CallKeys \cup {NoKey}
    BY <1>1 DEF ThreadType
  <2> QED BY <1>1, <2>1, ThreadRecords DEF ThreadPCs
<1> HIDE DEF r
<1>4. /\ ThreadsOK' /\ thread'[t] = r
      /\ \A u \in SandboxThreads \ {t} : thread'[u] = thread[u]
  BY <1>1, <1>2, <1>3, ThreadMoves DEF SandboxInv
<1>5. ThreadsInv'
  BY <1>1, <1>2, <1>4 DEF SandboxInv, ThreadsInv, SandboxTypeOK, ThreadsOK, ThreadType
<1>6. ExecutionsBounded'
  BY <1>2, <1>3, <1>4, <1>5, ExecutionsStep DEF SandboxInv
<1>7. /\ SandboxOK(id) /\ Exists(id) /\ Held(id, Creating) /\ id \notin destroyed \ raced
      /\ id \notin stored => id \in raced
  <2>1. Held(id, Creating) /\ Busy(id)
    BY <1>0, <1>1 DEF Busy, Held, Creating
  <2> QED BY <1>1, <2>1 DEF SandboxInv, RestInv, SandboxOK
<1>8. SandboxOK(id)'
  <2>1. r.pc \notin Creating \cup Destroying
    BY <1>3, Steps
  <2>2. Held(id, Destroying \cup {"create"}) => Held(id, Destroying \cup {"create"})'
    BY <1>0, <1>1, <1>4, HeldMoves DEF Destroying
  <2>3. /\ Held(id, {"create"}) => Held(id, {"create"})'
        /\ Held(id, {"hold", "halt"}) => Held(id, {"hold", "halt"})'
    BY <1>0, <1>1, <1>4, HeldMoves
  <2>4. Exists(id)'
    BY <1>2, <1>7 DEF Exists
  <2> QED BY <1>2, <1>7, <2>2, <2>3, <2>4 DEF SandboxOK
<1>9. RestInv'
  <2> SUFFICES ASSUME NEW x \in SandboxIds, x # id PROVE SandboxOK(x)'
    BY <1>8 DEF RestInv
  <2>1. SandboxOK(x) /\ (x \in stored' <=> x \in stored)
    BY <1>2 DEF SandboxInv, RestInv
  <2>2. r.pc \notin Creating \cup Destroying
    BY <1>3, Steps
  <2> QED BY <1>0, <1>1, <1>2, <1>4, <2>1, <2>2, OtherSandbox
<1> QED BY <1>5, <1>6, <1>9 DEF SandboxInv

-----------------------------------------------------------------------------
(* Destruction.                                                              *)

\* A destroy has found the sandbox.
LEMMA BeginDestroyStep ==
  ASSUME SandboxInv, NEW t \in SandboxThreads, NEW id \in SandboxIds, BeginDestroy(t, id)
  PROVE  SandboxInv'
<1> DEFINE r == [pc |-> "stop", id |-> id, key |-> NoKey]
<1>1. /\ id \in stored /\ thread[t].pc = "idle"
      /\ thread' = [thread EXCEPT ![t] = r]
      /\ UNCHANGED <<status, taskOf, stored, execCache, toolCache, executions, destroyed, raced>>
  BY DEF BeginDestroy, Step, On
<1>2. r \in ThreadType /\ r.pc = "stop" /\ r.id = id /\ "stop" \in Destroying
  BY ThreadRecords DEF ThreadPCs, Destroying
<1> HIDE DEF r
<1>3. /\ ThreadsOK' /\ thread'[t] = r
      /\ \A u \in SandboxThreads \ {t} : thread'[u] = thread[u]
  BY <1>1, <1>2, ThreadMoves DEF SandboxInv
<1>4. ThreadsInv'
  BY <1>1, <1>3 DEF SandboxInv, ThreadsInv, SandboxTypeOK, ThreadsOK, ThreadType
<1>5. ExecutionsBounded'
  BY <1>1, <1>2, <1>3, <1>4, ExecutionsStep DEF SandboxInv
<1>6. thread[t].pc \notin Creating \cup Destroying /\ "stop" \notin Creating
  BY <1>1, Steps DEF Creating
<1>7. SandboxOK(id)'
  <2>1. SandboxOK(id) /\ Exists(id) /\ Exists(id)'
    BY <1>1 DEF SandboxInv, RestInv, SandboxOK, Exists
  <2>2. Held(id, Creating)' => Held(id, Creating)
    BY <1>2, <1>3, <1>6, HeldMoves
  <2>3. /\ Held(id, {"create"}) => Held(id, {"create"})'
        /\ Held(id, {"hold", "halt"}) => Held(id, {"hold", "halt"})'
    BY <1>1, <1>3, HeldMoves
  <2>4. Held(id, Destroying \cup {"create"})'
    BY <1>2, <1>3, HeldMoves
  <2> QED BY <1>1, <2>1, <2>2, <2>3, <2>4 DEF SandboxOK
<1>8. RestInv'
  <2> SUFFICES ASSUME NEW x \in SandboxIds, x # id PROVE SandboxOK(x)'
    BY <1>7 DEF RestInv
  <2>1. SandboxOK(x)
    BY DEF SandboxInv, RestInv
  <2> QED BY <1>1, <1>2, <1>3, <1>6, <2>1, OtherSandbox
<1> QED BY <1>4, <1>5, <1>8 DEF SandboxInv

\* Its Puts may bring the sandbox back, and it goes on to delete it.
LEMMA PutStep ==
  ASSUME SandboxInv, NEW t \in SandboxThreads, PutSandbox(t)
  PROVE  SandboxInv'
<1>0. PICK id, pc : id = thread[t].id /\ pc = thread[t].pc
  OBVIOUS
<1> DEFINE r == [pc |-> StepAfter[pc], id |-> id, key |-> NoKey]
<1>1. /\ pc \in {"hold", "shelve"} /\ id \in SandboxIds
      /\ stored' = stored \cup {id}
      /\ thread' = [thread EXCEPT ![t] = r]
      /\ UNCHANGED <<status, taskOf, execCache, toolCache, executions, destroyed, raced>>
  BY <1>0 DEF PutSandbox, Step, On, SandboxInv, ThreadsInv, ThreadsOK
<1>2. /\ r \in ThreadType /\ r.pc = StepAfter[pc] /\ r.id = id
      /\ r.pc \in Destroying /\ r.pc \in ThreadPCs /\ pc \in Destroying
      /\ pc = "hold" => r.pc = "halt"
  <2>1. StepAfter[pc] \in Destroying /\ StepAfter[pc] \in ThreadPCs /\ pc \in Destroying
    BY <1>1, Steps DEF Destroying, ThreadPCs
  <2> QED BY <1>1, <2>1, ThreadRecords, Steps
<1> HIDE DEF r
<1>3. /\ ThreadsOK' /\ thread'[t] = r
      /\ \A u \in SandboxThreads \ {t} : thread'[u] = thread[u]
  BY <1>1, <1>2, ThreadMoves DEF SandboxInv
<1>4. ThreadsInv'
  BY <1>1, <1>3 DEF SandboxInv, ThreadsInv, SandboxTypeOK, ThreadsOK, ThreadType
<1>5. ExecutionsBounded'
  BY <1>1, <1>2, <1>3, <1>4, Steps, ExecutionsStep DEF SandboxInv
<1>6. SandboxOK(id)'
  <2>1. Busy(id)
    BY <1>0, <1>1, <1>2 DEF Busy, Held
  <2>2. SandboxOK(id) /\ Exists(id) /\ Exists(id)'
    BY <1>1, <2>1 DEF SandboxInv, RestInv, SandboxOK, Exists
  <2>3. Held(id, Creating)' => Held(id, Creating)
    BY <1>0, <1>1, <1>2, <1>3, Steps, HeldMoves
  <2>4. Held(id, {"create"}) => Held(id, {"create"})'
    BY <1>0, <1>1, <1>3, HeldMoves
  <2>5. Held(id, {"hold", "halt"}) => Held(id, {"hold", "halt"})'
    BY <1>0, <1>1, <1>2, <1>3, HeldMoves
  <2>6. Held(id, Destroying \cup {"create"})'
    BY <1>0, <1>1, <1>2, <1>3, HeldMoves
  <2> QED BY <1>1, <2>2, <2>3, <2>4, <2>5, <2>6 DEF SandboxOK
<1>7. RestInv'
  <2> SUFFICES ASSUME NEW x \in SandboxIds, x # id PROVE SandboxOK(x)'
    BY <1>6 DEF RestInv
  <2>1. SandboxOK(x) /\ (x \in stored' <=> x \in stored)
    BY <1>1 DEF SandboxInv, RestInv
  <2> QED BY <1>0, <1>1, <1>2, <1>3, <2>1, OtherSandbox
<1> QED BY <1>4, <1>5, <1>7 DEF SandboxInv

\* The deletion: the sandbox is gone, for good unless it is still being created.
LEMMA DeleteStep ==
  ASSUME SandboxInv, NEW t \in SandboxThreads, DeleteSandbox(t)
  PROVE  SandboxInv'
<1>0. PICK id : id = thread[t].id
  OBVIOUS
<1>1. /\ thread[t].pc = "delete" /\ id \in SandboxIds
      /\ thread' = [thread EXCEPT ![t] = IdleThread]
      /\ UNCHANGED <<status, taskOf, execCache, toolCache, executions>>
  BY <1>0 DEF DeleteSandbox, Return, On, SandboxInv, ThreadsInv, ThreadsOK
<1>2. /\ stored' = stored \ {id}
      /\ \/ id \in stored /\ destroyed' = destroyed \cup {id}
            /\ raced' = IF Held(id, Creating) THEN raced \cup {id} ELSE raced
         \/ id \notin stored /\ UNCHANGED <<destroyed, raced>>
  BY <1>0 DEF DeleteSandbox
<1>3. /\ ThreadsOK' /\ thread'[t] = IdleThread
      /\ \A u \in SandboxThreads \ {t} : thread'[u] = thread[u]
  BY <1>1, ThreadRecords, ThreadMoves DEF SandboxInv
<1>4. ThreadsInv'
  BY <1>1, <1>2, <1>3 DEF SandboxInv, ThreadsInv, SandboxTypeOK, ThreadsOK, ThreadType
<1>5. ExecutionsBounded'
  BY <1>1, <1>3, <1>4, ThreadRecords, ExecutionsStep DEF SandboxInv
<1>6. IdleThread.pc \notin Creating \cup Destroying
  BY ThreadRecords, Steps
<1>7. SandboxOK(id)'
  <2>1. SandboxOK(id) /\ Exists(id)
    <3>1. Busy(id)
      BY <1>0, <1>1 DEF Busy, Held, Destroying
    <3> QED BY <1>1, <3>1 DEF SandboxInv, RestInv, SandboxOK
  <2>2. Held(id, Creating)' => Held(id, Creating)
    BY <1>0, <1>1, <1>3, <1>6, HeldMoves
  <2>3. /\ Held(id, {"create"}) => Held(id, {"create"})'
        /\ Held(id, {"hold", "halt"}) => Held(id, {"hold", "halt"})'
    BY <1>0, <1>1, <1>3, HeldMoves
  <2>4. id \notin stored' /\ id \in destroyed'
    BY <1>2, <2>1 DEF SandboxOK
  <2>5. id \in destroyed' \ raced' => ~Held(id, Creating)
    BY <1>2, <2>1 DEF SandboxOK
  <2>6. Exists(id)' /\ status'[id] = status[id]
    BY <1>1, <2>1 DEF Exists
  <2> QED BY <2>1, <2>2, <2>3, <2>4, <2>5, <2>6 DEF SandboxOK
<1>8. RestInv'
  <2> SUFFICES ASSUME NEW x \in SandboxIds, x # id PROVE SandboxOK(x)'
    BY <1>7 DEF RestInv
  <2>1. /\ SandboxOK(x) /\ (x \in stored' <=> x \in stored)
        /\ (x \in destroyed' <=> x \in destroyed) /\ (x \in raced' <=> x \in raced)
    BY <1>2 DEF SandboxInv, RestInv
  <2> QED BY <1>0, <1>1, <1>3, <1>6, <2>1, OtherSandbox
<1> QED BY <1>4, <1>5, <1>8 DEF SandboxInv

-----------------------------------------------------------------------------
(* Execution.                                                                *)

\* A step that touches no sandbox, of a thread that is busy with none.
LEMMA UntouchedStep ==
  ASSUME SandboxInv, NEW t \in SandboxThreads, NEW r \in ThreadType,
         thread' = [thread EXCEPT ![t] = r], ThreadsOK',
         thread[t].pc \in {"idle", "execute", "run"}, r.pc \in {"idle", "execute", "run"},
         UNCHANGED <<status, stored, destroyed, raced>>
  PROVE  RestInv'
<1>1. /\ thread'[t] = r
      /\ \A u \in SandboxThreads \ {t} : thread'[u] = thread[u]
  BY DEF SandboxInv, ThreadsInv, ThreadsOK
<1>2. thread[t].pc \notin Creating \cup Destroying /\ r.pc \notin Creating \cup Destroying
  BY Steps
<1> SUFFICES ASSUME NEW x \in SandboxIds PROVE SandboxOK(x)'
  BY DEF RestInv
<1>3. SandboxOK(x)
  BY DEF SandboxInv, RestInv
<1> QED BY <1>1, <1>2, <1>3, OtherSandbox

\* RunningFinite after a step.
LEMMA RunningFinitePrime ==
  ASSUME ThreadsInv', NEW k \in CallKeys
  PROVE  /\ IsFiniteSet(Running(k)') /\ Cardinality(Running(k)') \in Nat
         /\ Cardinality(Running(k)') <= Cardinality(ApiThreads) + 1
<1>1. Running(k)' \subseteq Runners
  BY DEF ThreadsInv, ThreadsOK, Running, On, Runners, SandboxThreads, Destroying
<1>2. IsFiniteSet(SandboxThreads) /\ ApiThreads \subseteq SandboxThreads
      /\ Runners \subseteq SandboxThreads
  BY SandboxAssumption DEF SandboxThreads, Runners
<1>3. IsFiniteSet(ApiThreads) /\ IsFiniteSet(Runners)
  BY <1>2, FS_Subset
<1>4. Cardinality(Runners) = Cardinality(ApiThreads) + 1
  BY <1>3, FS_AddElement, SandboxAssumption DEF Runners
<1> QED BY <1>1, <1>3, <1>4, FS_Subset, FS_CardinalityType

\* A command with a key is begun only while no result of the key is cached, that is,
\* while none has ended.
LEMMA ExecuteStep ==
  ASSUME SandboxInv, NEW t \in SandboxThreads, Execute(t)
  PROVE  SandboxInv'
<1> DEFINE id == thread[t].id
           key == thread[t].key
           r == IF key \notin execCache /\ id \in stored /\ status[id] = "running"
                THEN [pc |-> "run", id |-> id, key |-> key] ELSE IdleThread
<1>1. /\ thread[t].pc = "execute" /\ id \in SandboxIds /\ thread[t] \in ThreadType
      /\ t # CleanupThread
      /\ thread' = [thread EXCEPT ![t] = r]
      /\ toolCache' = IF key \in execCache /\ t = CallThread THEN toolCache \cup {key}
                                                             ELSE toolCache
      /\ UNCHANGED <<status, taskOf, stored, execCache, executions, destroyed, raced>>
  BY DEF Execute, Step, Return, On, SandboxInv, ThreadsInv, ThreadsOK, Destroying
<1>2. /\ r \in ThreadType
      /\ r.pc = "idle" \/ r.id \in SandboxIds
      /\ r.pc \in {"idle", "run"}
      /\ r.pc = "run" => r.key = key /\ key \notin execCache
  <2>1. key \in CallKeys \cup {NoKey}
    BY <1>1 DEF ThreadType
  <2> QED BY <1>1, <2>1, ThreadRecords DEF ThreadPCs
<1> HIDE DEF r
<1>3. /\ ThreadsOK' /\ thread'[t] = r
      /\ \A u \in SandboxThreads \ {t} : thread'[u] = thread[u]
  BY <1>1, <1>2, ThreadMoves DEF SandboxInv
<1>4. ThreadsInv'
  BY <1>1, <1>3 DEF SandboxInv, ThreadsInv, SandboxTypeOK, ThreadsOK, ThreadType
<1>5. ExecutionsBounded'
  <2> SUFFICES ASSUME NEW k \in CallKeys
               PROVE  executions[k] + Cardinality(Running(k)') <= Cardinality(ApiThreads) + 1
    BY <1>1 DEF SandboxInv, ExecutionsBounded
  <2>1. CASE k \notin execCache
    <3>1. executions[k] = 0
      BY <2>1 DEF SandboxInv, ExecutionsBounded
    <3> QED BY <1>4, <3>1, RunningFinitePrime
  <2>2. CASE k \in execCache
    <3>1. Running(k)' \subseteq Running(k)
      BY <1>2, <1>3, <2>2 DEF Running, On
    <3>2. Cardinality(Running(k)') <= Cardinality(Running(k))
      BY <3>1, RunningFinite, FS_Subset DEF SandboxInv
    <3>3. executions[k] \in Nat
      BY DEF SandboxInv, ThreadsInv, SandboxTypeOK
    <3> QED BY <1>4, <3>2, <3>3, RunningFinite, RunningFinitePrime DEF SandboxInv, ExecutionsBounded
  <2> QED BY <2>1, <2>2
<1>6. RestInv'
  BY <1>1, <1>2, <1>3, UntouchedStep
<1> QED BY <1>4, <1>5, <1>6 DEF SandboxInv

\* A command that ends moves from the running to the executed ones.
LEMMA RunStep ==
  ASSUME SandboxInv, NEW t \in SandboxThreads, RunCommand(t)
  PROVE  SandboxInv'
<1> DEFINE key == thread[t].key
<1>1. /\ thread[t].pc = "run" /\ thread[t] \in ThreadType
      /\ thread' = [thread EXCEPT ![t] = IdleThread]
      /\ executions' = [k \in CallKeys |-> executions[k] + (IF k = key THEN 1 ELSE 0)]
      /\ execCache' = execCache \cup ({key} \ {NoKey})
      /\ toolCache' = IF t = CallThread THEN toolCache \cup ({key} \ {NoKey}) ELSE toolCache
      /\ UNCHANGED <<status, taskOf, stored, destroyed, raced>>
  BY DEF RunCommand, Return, On, SandboxInv, ThreadsInv, ThreadsOK
<1>2. /\ ThreadsOK' /\ thread'[t] = IdleThread
      /\ \A u \in SandboxThreads \ {t} : thread'[u] = thread[u]
  BY <1>1, ThreadRecords, ThreadMoves DEF SandboxInv
<1>3. key \in CallKeys \cup {NoKey}
  BY <1>1 DEF ThreadType
<1>4. executions \in [CallKeys -> Nat] /\ executions' \in [CallKeys -> Nat]
  BY <1>1 DEF SandboxInv, ThreadsInv, SandboxTypeOK
<1>5. ThreadsInv'
  BY <1>1, <1>2, <1>3, <1>4 DEF SandboxInv, ThreadsInv, SandboxTypeOK, ThreadsOK, ThreadType
<1>6. ExecutionsBounded'
  <2> SUFFICES ASSUME NEW k \in CallKeys
               PROVE  /\ k \notin execCache' => executions'[k] = 0
                      /\ executions'[k] + Cardinality(Running(k)')
                           <= Cardinality(ApiThreads) + 1
    BY DEF ExecutionsBounded
  <2>1. CASE k = key
    <3>1. Running(k)' = Running(k) \ {t} /\ t \in Running(k)
      BY <1>1, <1>2, <2>1, ThreadRecords DEF Running, On
    <3>2. Cardinality(Running(k)') = Cardinality(Running(k)) - 1
      BY <3>1, RunningFinite, FS_RemoveElement DEF SandboxInv
    <3>3. executions'[k] = executions[k] + 1 /\ k \in execCache'
      BY <1>1, <2>1, SandboxAssumption
    <3> QED BY <1>4, <3>2, <3>3, RunningFinite DEF SandboxInv, ExecutionsBounded
  <2>2. CASE k # key
    <3>1. Running(k)' = Running(k)
      BY <1>1, <1>2, <2>2, ThreadRecords DEF Running, On
    <3>2. executions'[k] = executions[k]
      BY <1>1, <1>4, <2>2
    <3> QED BY <1>1, <3>1, <3>2 DEF SandboxInv, ExecutionsBounded
  <2> QED BY <2>1, <2>2
<1>7. RestInv'
  BY <1>1, <1>2, ThreadRecords, UntouchedStep
<1> QED BY <1>5, <1>6, <1>7 DEF SandboxInv

\* A request or a call takes an existing sandbox.
LEMMA TakeStep ==
  ASSUME SandboxInv, NEW t \in Runners, NEW id \in SandboxIds, NEW key \in CallKeys \cup {NoKey},
         On(t, "idle"), Step(t, "execute", id, key),
         UNCHANGED <<status, taskOf, stored, execCache, toolCache, executions, destroyed, raced>>
  PROVE  SandboxInv'
<1> DEFINE r == [pc |-> "execute", id |-> id, key |-> key]
<1>1. /\ t \in SandboxThreads /\ t # CleanupThread
      /\ thread[t].pc = "idle" /\ thread' = [thread EXCEPT ![t] = r]
  BY SandboxAssumption DEF Step, On, Runners, SandboxThreads
<1>2. r \in ThreadType /\ r.pc = "execute" /\ r.id = id
  BY ThreadRecords DEF ThreadPCs
<1> HIDE DEF r
<1>3. /\ ThreadsOK' /\ thread'[t] = r
      /\ \A u \in SandboxThreads \ {t} : thread'[u] = thread[u]
  BY <1>1, <1>2, ThreadMoves DEF SandboxInv
<1>4. ThreadsInv'
  BY <1>3 DEF SandboxInv, ThreadsInv, SandboxTypeOK, ThreadsOK, ThreadType
<1>5. ExecutionsBounded'
  BY <1>2, <1>3, <1>4, ExecutionsStep DEF SandboxInv
<1>6. RestInv'
  BY <1>1, <1>2, <1>3, UntouchedStep
<1> QED BY <1>4, <1>5, <1>6 DEF SandboxInv

-----------------------------------------------------------------------------
\* Every step.
LEMMA NextSandboxInv == SandboxInv /\ [SandboxNext]_sandboxVars => SandboxInv'
<1> SUFFICES ASSUME SandboxInv, [SandboxNext]_sandboxVars PROVE SandboxInv'
  OBVIOUS
<1>1. CASE UNCHANGED sandboxVars
  BY <1>1 DEF sandboxVars, SandboxInv, ThreadsInv, SandboxTypeOK, ThreadsOK, ExecutionsBounded, RestInv,
              SandboxOK, Running, Busy, Held, Exists, On
<1>2. ASSUME NEW t \in SandboxThreads, CreateRequest(t) PROVE SandboxInv'
  <2>1. t \in Runners /\ NoKey \in CallKeys \cup {NoKey}
    BY <1>2 DEF CreateRequest, Runners
  <2>2. PICK task \in SandboxTasks : BeginCreate(t, task, NoKey)
    BY <1>2 DEF CreateRequest
  <2> QED BY <1>2, <2>1, <2>2, BeginCreateStep DEF CreateRequest
<1>3. ASSUME NEW t \in SandboxThreads, NEW id \in SandboxIds, NEW key \in CallKeys \cup {NoKey},
             ExecRequest(t, id, key)
      PROVE  SandboxInv'
  BY <1>3, TakeStep DEF ExecRequest, Runners
<1>4. ASSUME NEW task \in SandboxTasks, NEW key \in CallKeys \cup {NoKey}, ToolCall(task, key)
      PROVE  SandboxInv'
  <2>1. CallThread \in Runners
    BY DEF Runners
  <2>2. CASE RunningFor(task) # {}
    <3>1. PICK id \in RunningFor(task) : Step(CallThread, "execute", id, key)
      BY <1>4, <2>2 DEF ToolCall
    <3>2. id \in SandboxIds
      BY DEF RunningFor, SandboxInv, ThreadsInv, SandboxTypeOK
    <3> QED BY <1>4, <2>1, <2>2, <3>1, <3>2, TakeStep DEF ToolCall
  <2>3. CASE RunningFor(task) = {}
    BY <1>4, <2>1, <2>3, BeginCreateStep DEF ToolCall
  <2> QED BY <2>2, <2>3
<1>5. CASE SandboxNext
  BY <1>2, <1>3, <1>4, <1>5, WriteStatusStep, KeepStep, BeginDestroyStep, PutStep,
     DeleteStep,
     ExecuteStep, RunStep DEF SandboxNext
<1> QED BY <1>1, <1>5

\* The variables of the executor keep their types.
THEOREM SandboxTypeCorrect == SandboxSpec => []SandboxTypeOK
<1>1. SandboxInv => SandboxTypeOK
  BY DEF SandboxInv, ThreadsInv
<1> QED BY <1>1, InitSandboxInv, NextSandboxInv, PTL DEF SandboxSpec

\* A command with an idempotency key is run at most once for each thread that can be
\* executing at the same time, and never again after its result is cached.
THEOREM ExecutionsCorrect == SandboxSpec => []ExecutionsBounded
<1>1. SandboxInv => ExecutionsBounded
  BY DEF SandboxInv
<1> QED BY <1>1, InitSandboxInv, NextSandboxInv, PTL DEF SandboxSpec

\* A sandbox at rest is running and was never reported as destroyed, unless it was deleted
\* before its creation had ended.
THEOREM RestingCorrect == SandboxSpec => []RestingSandboxes
<1>1. SandboxInv => RestingSandboxes
  <2> SUFFICES ASSUME SandboxInv, NEW x \in SandboxIds, x \in stored, ~Busy(x)
               PROVE  /\ status[x] \in {"running", "stopped"}
                      /\ (status[x] = "running" /\ x \notin destroyed) \/ x \in raced
    BY DEF RestingSandboxes
  <2>1. SandboxOK(x) /\ status[x] \in Statuses
    BY DEF SandboxInv, RestInv, ThreadsInv, SandboxTypeOK
  <2>2. /\ ~Held(x, Destroying \cup {"create"}) /\ ~Held(x, {"create"})
        /\ ~Held(x, {"hold", "halt"})
    BY DEF Busy, Held, Creating, Destroying
  <2> QED BY <2>1, <2>2 DEF SandboxOK, Statuses, Exists
<1> QED BY <1>1, InitSandboxInv, NextSandboxInv, PTL DEF SandboxSpec

=============================================================================
