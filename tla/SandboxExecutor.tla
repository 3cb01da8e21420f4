-------------------------- MODULE SandboxExecutor --------------------------
(***************************************************************************)
(* services/daytona-executor: one replica.  Three kinds of threads share   *)
(* the sandbox store and the cache of results: the NATS callback, which    *)
(* handles one tool call at a time, the HTTP handlers, and the cleanup     *)
(* that runs every 30 seconds.                                             *)
(*                                                                         *)
(* The store hands out pointers: the status of a sandbox is written with   *)
(* no lock and seen by every holder.  Each write of a status and each Put  *)
(* is an action of its own, so any other thread can come between.  A       *)
(* status is only compared with running, which no mixture of two other     *)
(* strings is, so a torn read counts as one of the two values.  All        *)
(* sandboxes are of one agent; the TTL may have passed at any moment, so   *)
(* the cleanup destroys any sandbox it has listed.                         *)
(***************************************************************************)
EXTENDS Naturals, FiniteSets

CONSTANTS
  ApiThreads,     \* HTTP handlers running at the same time
  CallThread,     \* the thread of the NATS subscription
  CleanupThread,  \* the goroutine of main that calls CleanupExpired
  SandboxIds,     \* bound: the sandboxes that can be created
  SandboxTasks,   \* correlation ids of calls, task_id of requests
  CallKeys,       \* idempotency keys
  NoKey, NoSandbox

SandboxThreads == ApiThreads \cup {CallThread, CleanupThread}

ASSUME SandboxAssumption ==
  /\ IsFiniteSet(SandboxThreads)
  /\ CallThread \notin ApiThreads /\ CleanupThread \notin ApiThreads
  /\ CallThread # CleanupThread
  /\ NoKey \notin CallKeys /\ NoSandbox \notin SandboxIds /\ SandboxTasks # {}

VARIABLES
  status,      \* [SandboxIds -> status], "new" before its creation
  taskOf,      \* TaskID of a sandbox that was created
  stored,      \* InMemorySandboxStore.data
  execCache,   \* keys with a result in SandboxManager.execCache
  toolCache,   \* keys with a result in ToolHandler.cache
  executions,  \* how often a command with that key was run
  thread,      \* what a thread is doing
  destroyed,   \* sandboxes whose deletion was reported
  raced        \* those deleted while CreateSandbox was not finished

sandboxVars == <<status, taskOf, stored, execCache, toolCache, executions, thread,
                 destroyed, raced>>

Statuses == {"new", "creating", "running", "stopping", "stopped"}

\* What a thread does next: creating and keeping belong to CreateSandbox, the five from
\* stopping to deleting to DestroySandbox.
Creating == {"create", "keep"}
Destroying == {"stop", "hold", "halt", "shelve", "delete"}
ThreadPCs == {"idle", "execute", "run"} \cup Creating \cup Destroying

\* The status written at a step, and the step after it.
StatusWritten == [create |-> "running", stop |-> "stopping", halt |-> "stopped"]
StepAfter == [create |-> "keep", stop |-> "hold", hold |-> "halt", halt |-> "shelve",
              shelve |-> "delete"]

IdleThread == [pc |-> "idle", id |-> NoSandbox, key |-> NoKey]
Step(t, pc, id, key) ==
  thread' = [thread EXCEPT ![t] = [pc |-> pc, id |-> id, key |-> key]]
Return(t) == thread' = [thread EXCEPT ![t] = IdleThread]
On(t, pc) == thread[t].pc = pc

Exists(id) == status[id] # "new"

\* Some thread is at one of the steps pcs with the sandbox.
Held(id, pcs) == \E t \in SandboxThreads : thread[t].id = id /\ thread[t].pc \in pcs

SandboxInit ==
  /\ status = [id \in SandboxIds |-> "new"]
  /\ taskOf \in [SandboxIds -> SandboxTasks]
  /\ stored = {} /\ execCache = {} /\ toolCache = {}
  /\ executions = [k \in CallKeys |-> 0]
  /\ thread = [t \in SandboxThreads |-> IdleThread]
  /\ destroyed = {} /\ raced = {}

-----------------------------------------------------------------------------
(* CreateSandbox.                                                            *)

BeginCreate(t, task, key) ==
  \E id \in SandboxIds :
    /\ ~Exists(id) /\ taskOf[id] = task
    /\ status' = [status EXCEPT ![id] = "creating"] /\ stored' = stored \cup {id}
    /\ Step(t, "create", id, key)

\* POST /v1/sandboxes
CreateRequest(t) ==
  /\ t \in ApiThreads /\ On(t, "idle")
  /\ \E task \in SandboxTasks : BeginCreate(t, task, NoKey)
  /\ UNCHANGED <<taskOf, execCache, toolCache, executions, destroyed, raced>>

\* sb.Status = running, stopping and stopped: seen at once by every holder.
WriteStatus(t) ==
  LET id == thread[t].id
      pc == thread[t].pc
  IN  /\ pc \in DOMAIN StatusWritten
      /\ status' = [status EXCEPT ![id] = StatusWritten[pc]]
      /\ Step(t, StepAfter[pc], id, thread[t].key)
      /\ UNCHANGED <<taskOf, stored, execCache, toolCache, executions, destroyed, raced>>

\* CreateSandbox's second Put: it stores the sandbox also when it was deleted in between.
KeepSandbox(t) ==
  LET id == thread[t].id
  IN  /\ On(t, "keep")
      /\ stored' = stored \cup {id}
      /\ IF t = CallThread THEN Step(t, "execute", id, thread[t].key) ELSE Return(t)
      /\ UNCHANGED <<status, taskOf, execCache, toolCache, executions, destroyed, raced>>

-----------------------------------------------------------------------------
(* DestroySandbox.                                                           *)

\* DELETE /v1/sandboxes/{id}, and an expired sandbox of the cleanup's list: Get.  One
\* that is no longer stored is not found.
BeginDestroy(t, id) ==
  /\ t \in ApiThreads \cup {CleanupThread} /\ On(t, "idle")
  /\ id \in stored
  /\ Step(t, "stop", id, NoKey)
  /\ UNCHANGED <<status, taskOf, stored, execCache, toolCache, executions, destroyed, raced>>

\* A Put of the destroy: it stores the sandbox also when another thread has deleted it.
PutSandbox(t) ==
  LET id == thread[t].id
      pc == thread[t].pc
  IN  /\ pc \in {"hold", "shelve"}
      /\ stored' = stored \cup {id}
      /\ Step(t, StepAfter[pc], id, NoKey)
      /\ UNCHANGED <<status, taskOf, execCache, toolCache, executions, destroyed, raced>>

\* Mutant of DeleteSandbox: one that was destroyed before is answered without a deletion.
DeleteSandboxMutant(t) ==
  LET id == thread[t].id
  IN  /\ On(t, "delete")
      /\ IF id \in stored \ destroyed
         THEN /\ stored' = stored \ {id} /\ destroyed' = destroyed \cup {id}
              /\ raced' = IF Held(id, Creating) THEN raced \cup {id} ELSE raced
         ELSE UNCHANGED <<stored, destroyed, raced>>
      /\ Return(t)
      /\ UNCHANGED <<status, taskOf, execCache, toolCache, executions>>

\* Delete errs when the sandbox is gone, and the caller is told so.
DeleteSandbox(t) ==
  LET id == thread[t].id
  IN  /\ On(t, "delete")
      /\ IF id \in stored
         THEN /\ stored' = stored \ {id} /\ destroyed' = destroyed \cup {id}
              /\ raced' = IF Held(id, Creating) THEN raced \cup {id} ELSE raced
         ELSE UNCHANGED <<stored, destroyed, raced>>
      /\ Return(t)
      /\ UNCHANGED <<status, taskOf, execCache, toolCache, executions>>

-----------------------------------------------------------------------------
(* Execute.                                                                  *)

\* The cache is looked up by key alone.
Execute(t) ==
  LET id == thread[t].id
      key == thread[t].key
  IN  /\ On(t, "execute")
      /\ IF key \notin execCache /\ id \in stored /\ status[id] = "running"
         THEN Step(t, "run", id, key)
         ELSE Return(t)
      /\ toolCache' = IF key \in execCache /\ t = CallThread THEN toolCache \cup {key}
                                                            ELSE toolCache
      /\ UNCHANGED <<status, taskOf, stored, execCache, executions, destroyed, raced>>

\* Mutant of RunCommand: the manager keeps no results, only the NATS callback does.
RunCommandUncached(t) ==
  LET key == thread[t].key
  IN  /\ On(t, "run")
      /\ executions' = [k \in CallKeys |-> executions[k] + (IF k = key THEN 1 ELSE 0)]
      /\ toolCache' = IF t = CallThread THEN toolCache \cup ({key} \ {NoKey}) ELSE toolCache
      /\ Return(t)
      /\ UNCHANGED <<status, taskOf, stored, execCache, destroyed, raced>>

\* The command runs and its result is cached; the NATS callback caches the
\* reply it is about to send, too.
RunCommand(t) ==
  LET key == thread[t].key
      keys == {key} \ {NoKey}
  IN  /\ On(t, "run")
      /\ executions' = [k \in CallKeys |-> executions[k] + (IF k = key THEN 1 ELSE 0)]
      /\ execCache' = execCache \cup keys
      /\ toolCache' = IF t = CallThread THEN toolCache \cup keys ELSE toolCache
      /\ Return(t)
      /\ UNCHANGED <<status, taskOf, stored, destroyed, raced>>

\* POST /v1/sandboxes/{id}/exec; a sandbox that does not exist is not found.
ExecRequest(t, id, key) ==
  /\ t \in ApiThreads /\ On(t, "idle") /\ Exists(id)
  /\ Step(t, "execute", id, key)
  /\ UNCHANGED <<status, taskOf, stored, execCache, toolCache, executions, destroyed, raced>>

-----------------------------------------------------------------------------
(* A tool call from NATS: handleMsg, findOrCreateSandbox.                    *)

RunningFor(task) == {id \in stored : taskOf[id] = task /\ status[id] = "running"}

\* A call with a cached reply changes nothing.  The list is a Go map: any of the
\* running sandboxes of the task may come first.
ToolCall(task, key) ==
  /\ On(CallThread, "idle") /\ key \notin toolCache
  /\ IF RunningFor(task) # {}
     THEN /\ \E id \in RunningFor(task) : Step(CallThread, "execute", id, key)
          /\ UNCHANGED <<status, stored>>
     ELSE BeginCreate(CallThread, task, key)
  /\ UNCHANGED <<taskOf, execCache, toolCache, executions, destroyed, raced>>

SandboxNext ==
  \/ \E t \in SandboxThreads :
       \/ CreateRequest(t) \/ WriteStatus(t) \/ KeepSandbox(t)
       \/ PutSandbox(t) \/ DeleteSandbox(t)
       \/ Execute(t) \/ RunCommand(t)
       \/ \E id \in SandboxIds :
            \/ BeginDestroy(t, id)
            \/ \E key \in CallKeys \cup {NoKey} : ExecRequest(t, id, key)
  \/ \E task \in SandboxTasks, key \in CallKeys \cup {NoKey} : ToolCall(task, key)

SandboxSpec == SandboxInit /\ [][SandboxNext]_sandboxVars

-----------------------------------------------------------------------------
(* Properties.                                                               *)

SandboxTypeOK ==
  /\ status \in [SandboxIds -> Statuses] /\ taskOf \in [SandboxIds -> SandboxTasks]
  /\ stored \subseteq SandboxIds /\ destroyed \subseteq SandboxIds
  /\ raced \subseteq destroyed
  /\ execCache \subseteq CallKeys /\ toolCache \subseteq execCache
  /\ executions \in [CallKeys -> Nat]
  /\ thread \in [SandboxThreads -> [pc : ThreadPCs, id : SandboxIds \cup {NoSandbox},
                                    key : CallKeys \cup {NoKey}]]

Running(k) == {t \in SandboxThreads : On(t, "run") /\ thread[t].key = k}

\* A command with an idempotency key is run at most once for each thread that
\* can be executing at the same time (manager.go:119-160): the check and the
\* entry into the cache are apart, but once there is a result nobody runs it
\* again.  Calls from NATS alone run it once.
ExecutionsBounded ==
  \A k \in CallKeys :
    /\ k \notin execCache => executions[k] = 0
    /\ executions[k] + Cardinality(Running(k)) <= Cardinality(ApiThreads) + 1

Busy(id) == Held(id, Creating \cup Destroying)

\* A sandbox that nobody is creating or destroying is running, and was never reported
\* as destroyed, whatever the order of the unlocked writes and Puts of any number of
\* destroys (manager.go:85-95); with one cause for an exception: it was deleted before
\* its creation had ended, whose second Put (manager.go:70) then brought it back, running
\* or stopped.  It never rests as creating or stopping.
RestingSandboxes ==
  \A id \in SandboxIds :
    id \in stored /\ ~Busy(id) =>
      /\ status[id] \in {"running", "stopped"}
      /\ (status[id] = "running" /\ id \notin destroyed) \/ id \in raced

=============================================================================
