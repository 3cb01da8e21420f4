----------------------------- MODULE MCPlatform -----------------------------
(***************************************************************************)
(* The platform services, and the tool library with its callers, share     *)
(* nothing but the stores and NATS, each through records of its own, so a  *)
(* behaviour examines one of them: `service' is chosen at the start, the   *)
(* others stay in a first state.                                           *)
(***************************************************************************)
EXTENDS PolicyEvaluator, BudgetAccounting, SandboxExecutor, ExtensionController,
        PlatformOperator, MemoryPlane, ToolProtocol

CONSTANTS Services, reader, secret, m1, m2, m3, b1, b2, q1, q2

VARIABLE service

MCQueries == {[action |-> "use_tool", tool |-> reader, class |-> Absent, model |-> Absent,
               description |-> Absent]}
Policy(tools, deny, limit) ==
  [actions |-> {}, tools |-> tools, classes |-> {}, models |-> {}, deny |-> deny, limit |-> limit]
MCPolicyVersions ==
  << <<Policy({}, {}, 2)>>, <<Policy({Any}, {}, 0), Policy({reader}, {secret}, 1)>> >>
Grant(tool) == [tools |-> {tool}, classes |-> {}]
MCGrantTables == {{}, {Grant(reader), Grant(Any)}}
MCBudgetRows == {[daily |-> d, today |-> d \div 2 + 1, monthly |-> 0, month |-> 1] : d \in {0, 2}}

MCBudgetOf == [m \in {m1, m2, m3} |-> IF m = m2 THEN b2 ELSE b1]
MCCostOf == [m \in {m1, m2, m3} |-> IF m = m1 THEN 2 ELSE 1]
MCLimitOf == [b \in {b1} |-> 3]

MCManifests == {[version |-> "v1", tier |-> "t1", enabled |-> TRUE],
                [version |-> "v2", tier |-> "t2", enabled |-> FALSE]}
MCSpecs == {{}, {q1}, {q1, q2}}

allVars == <<policyVars, budgetVars, sandboxVars, extVars, operatorVars, memoryVars, toolVars,
             service>>

MCInit ==
  /\ service \in Services
  /\ PolicyInit /\ BudgetInit /\ SandboxInit /\ ExtInit /\ OperatorInit /\ MemoryInit
  /\ ToolInit
  /\ service # "policy" => policyCache = 1
  /\ service # "extensions" => manifest = [e \in Extensions |-> NoManifest]
  /\ service # "operator" => platform = NewPlatform({q1})

MCNext ==
  /\ UNCHANGED service
  /\ \/ /\ service = "policy" /\ PolicyNext
        /\ UNCHANGED <<budgetVars, sandboxVars, extVars, operatorVars, memoryVars, toolVars>>
     \/ /\ service = "budget" /\ BudgetNext
        /\ UNCHANGED <<policyVars, sandboxVars, extVars, operatorVars, memoryVars, toolVars>>
     \/ /\ service = "sandbox" /\ SandboxNext
        /\ UNCHANGED <<policyVars, budgetVars, extVars, operatorVars, memoryVars, toolVars>>
     \/ /\ service = "extensions" /\ ExtNext
        /\ UNCHANGED <<policyVars, budgetVars, sandboxVars, operatorVars, memoryVars, toolVars>>
     \/ /\ service = "operator" /\ OperatorNext
        /\ UNCHANGED <<policyVars, budgetVars, sandboxVars, extVars, memoryVars, toolVars>>
     \/ /\ service = "memory" /\ MemoryNext
        /\ UNCHANGED <<policyVars, budgetVars, sandboxVars, extVars, operatorVars, toolVars>>
     \/ /\ service = "tools" /\ ToolNext
        /\ UNCHANGED <<policyVars, budgetVars, sandboxVars, extVars, operatorVars, memoryVars>>

\* NATS pushes what is due and the service's loop goes on; the ticker of the extension
\* controller and the work queue of the operator come back.
MCFairness ==
  /\ \A m \in Metrics : WF_budgetVars(service = "budget" /\ PushMetric(m))
  /\ WF_budgetVars(service = "budget" /\ ConsumeMetric)
  /\ WF_budgetVars(service = "budget" /\ AckMetric)
  /\ WF_budgetVars(service = "budget" /\ NakMetric)
  /\ WF_extVars(service = "extensions" /\ Reconcile)
  /\ WF_extVars(service = "extensions" /\ ApiUpdate)
  /\ WF_operatorVars(service = "operator" /\ ReconcilePlatform)

MCSpec == MCInit /\ [][MCNext]_allVars /\ MCFairness

-----------------------------------------------------------------------------
\* Every variable of the six services and of the tool library has its type.
PlatformTypeOK ==
  /\ PolicyTypeOK /\ BudgetTypeOK /\ SandboxTypeOK /\ ExtTypeOK /\ OperatorTypeOK /\ MemoryTypeOK
  /\ ToolTypeOK

\* How often a tool runs has its bound and its cause wherever a tool is called: in the sandbox
\* executor, which reads the idempotency key (manager.go:119-160), and through the tool
\* library, whose servers do not (server.py:56-75).
ToolRunsExplained == ExecutionsBounded /\ CallsExplained

\* Each service that works towards a state reaches it: every metric is recorded or given up
\* (budget main.py), the rows of extensions agree with git for good (reconciler.go:64-103), and
\* the status of a platform with its spec and the cluster (the operator's reconciler.go).
PlatformSettles ==
  /\ service = "budget" => MetricsRecorded
  /\ service = "extensions" => RowsConverge
  /\ service = "operator" => StatusConverges
=============================================================================
