-------------------------- MODULE PolicyEvaluator --------------------------
(***************************************************************************)
(* services/policy-evaluator: concurrent HTTP handlers of POST             *)
(* /v1/evaluate.  They share two structures in memory, each under a lock   *)
(* of its own: the policies of a tenant, loaded again by every request,    *)
(* and the stamps of the requests let through in the last minute.          *)
(*                                                                         *)
(* One tenant and one agent.  org_policies is written by others: it is a   *)
(* sequence of versions, of which the table holds number policyRows.       *)
(* Grants and budgets are read once by each request and written by no      *)
(* service that is modelled, so what a query returns is an input, and an   *)
(* action is what happens between two accesses to the shared state.        *)
(* Names are equal up to case and Any is the wildcard "*".                 *)
(***************************************************************************)
EXTENDS Naturals, Sequences, FiniteSets

CONSTANTS
  Evaluators,      \* handlers that may be running at the same time
  Queries,         \* the requests that arrive
  PolicyVersions,  \* the successive contents of org_policies for the tenant
  GrantTables,     \* what a query of capability_grants may return
  BudgetRows,      \* what a query of budgets may return, besides no row
  Minute,          \* the window of the rate limit
  MaxTime,         \* bound on the clock
  MaxHits,         \* bound on requests that reach the rate limiter
  Any, Absent      \* "*", and a missing field

ASSUME PolicyAssumption ==
  /\ IsFiniteSet(Evaluators) /\ Evaluators # {}
  /\ Len(PolicyVersions) \in Nat \ {0} /\ DOMAIN PolicyVersions = 1..Len(PolicyVersions)
  /\ \A v \in DOMAIN PolicyVersions :
       /\ Len(PolicyVersions[v]) \in Nat
       /\ DOMAIN PolicyVersions[v] = 1..Len(PolicyVersions[v])
       /\ \A i \in DOMAIN PolicyVersions[v] : PolicyVersions[v][i].limit \in Nat
  /\ Minute \in Nat /\ MaxTime \in Nat /\ MaxHits \in Nat

VARIABLES
  policyRows,     \* number of the version in the database
  policyCache,    \* PolicyEngine.policies: number of a version, 0 for none
  rateHits,       \* PolicyEngine.rateHits of the agent, by action, in no order
  clock,
  evaluator,      \* where a handler is, and its local variables
  admitted        \* all the requests that were ever let through

policyVars == <<policyRows, policyCache, rateHits, clock, evaluator, admitted>>

Actions == {"execute_task", "use_tool", "select_model"}
EvaluatorPCs == {"idle", "loaded", "cached", "budget", "rate"}

IdleEvaluator ==
  [pc |-> "idle", query |-> Absent, loaded |-> 0, used |-> 0, limit |-> 0,
   now |-> 0, older |-> {}]

\* A request let through: its action, its stamp, and which of those it was.
RateHit == Actions \X (0..MaxTime) \X Nat

At(h, pc) == evaluator[h].pc = pc
Answer(h) == evaluator' = [evaluator EXCEPT ![h] = IdleEvaluator]

-----------------------------------------------------------------------------
(* Pure decisions.                                                           *)

ContainsWildcardOrMatch(list, target) == Any \in list \/ target \in list

\* A list that is empty, or a field the request leaves out, restricts nothing.
Permits(list, target) ==
  list = {} \/ target = Absent \/ ContainsWildcardOrMatch(list, target)

\* CheckCapabilityGrants denies an agent without grants, and a tool or a model
\* class that no grant names.
GrantsAllow(grants, q) ==
  LET granted(field, target) ==
        target = Absent \/ \E g \in grants : ContainsWildcardOrMatch(g[field], target)
  IN  /\ grants # {}
      /\ q.action = "use_tool" => granted("tools", q.tool)
      /\ q.action = "select_model" => granted("classes", q.class)

PolicyAllows(p, q) ==
  /\ p.actions = {} \/ ContainsWildcardOrMatch(p.actions, q.action)
  /\ q.action = "use_tool" => Permits(p.tools, q.tool)
  /\ q.action = "select_model" => Permits(p.classes, q.class) /\ Permits(p.models, q.model)
  /\ q.description \notin p.deny

\* The loop over the policies returns in its first iteration, if there is one.
OrgPoliciesAllow(policies, q) ==
  \A i \in DOMAIN policies : i = 1 => PolicyAllows(policies[i], q)

PoliciesOf(version) == IF version = 0 THEN <<>> ELSE PolicyVersions[version]

\* The first policy that has a limit sets it; 0 is no limit.
RateLimitOf(policies) ==
  LET limited == {i \in DOMAIN policies : policies[i].limit > 0}
  IN  IF limited = {} THEN 0
      ELSE policies[CHOOSE i \in limited : \A j \in limited : i <= j].limit

\* checkBudget, for the row of the tenant and for the row of the agent; a limit
\* of 0 is none.  No row is Absent.
Exceeded(row) ==
  row # Absent /\ \/ row.daily > 0 /\ row.today >= row.daily
                  \/ row.monthly > 0 /\ row.month >= row.monthly

-----------------------------------------------------------------------------
(* The table and the clock.                                                  *)

PolicyInit ==
  /\ policyRows = 1
  /\ policyCache \in {0, 1}     \* main loads the policies once, and goes on without
  /\ rateHits = [a \in Actions |-> {}]
  /\ admitted = {}
  /\ clock = 0
  /\ evaluator = [h \in Evaluators |-> IdleEvaluator]

ChangePolicies ==
  /\ policyRows < Len(PolicyVersions) /\ policyRows' = policyRows + 1
  /\ UNCHANGED <<policyCache, rateHits, clock, evaluator, admitted>>

Tick ==
  /\ clock < MaxTime /\ clock' = clock + 1
  /\ UNCHANGED <<policyRows, policyCache, rateHits, evaluator, admitted>>

-----------------------------------------------------------------------------
(* One request.                                                              *)

\* The query of LoadPolicies.  older: the handlers that hold rows read earlier
\* and have not put them into the cache yet.
ReadPolicies(h, q) ==
  /\ At(h, "idle")
  /\ evaluator' = [evaluator EXCEPT ![h] =
       [IdleEvaluator EXCEPT !.pc = "loaded", !.query = q, !.loaded = policyRows,
                             !.older = {g \in Evaluators : At(g, "loaded")}]]
  /\ UNCHANGED <<policyRows, policyCache, rateHits, clock, admitted>>

\* The query fails: the handler goes on with what is cached.
ReadPoliciesFails(h, q) ==
  /\ At(h, "idle")
  /\ evaluator' = [evaluator EXCEPT ![h] = [IdleEvaluator EXCEPT !.pc = "cached", !.query = q]]
  /\ UNCHANGED <<policyRows, policyCache, rateHits, clock, admitted>>

\* Mutant of CachePolicies: only the first request of a tenant fills the cache.
CachePoliciesMutant(h) ==
  /\ At(h, "loaded")
  /\ policyCache' = IF policyCache = 0 THEN evaluator[h].loaded ELSE policyCache
  /\ evaluator' = [evaluator EXCEPT ![h].pc = "cached"]
  /\ UNCHANGED <<policyRows, rateHits, clock, admitted>>

CachePolicies(h) ==
  /\ At(h, "loaded")
  /\ policyCache' = evaluator[h].loaded
  /\ evaluator' = [evaluator EXCEPT ![h].pc = "cached"]
  /\ UNCHANGED <<policyRows, rateHits, clock, admitted>>

\* The tenant's row, then the agent's; a failed query denies.
BudgetAllows(tenant, agent) == ~Exceeded(tenant) /\ ~Exceeded(agent)

\* Evaluate up to the budget: the fields, the grants, then the policies that are
\* cached now.  A field that is missing or unknown, a failed query and grants
\* that do not cover the request deny.
CheckGrantsAndPolicies(h) ==
  LET q == evaluator[h].query
  IN  /\ At(h, "cached")
      /\ \/ Answer(h)
         \/ /\ q.action \in Actions
            /\ \E grants \in GrantTables : GrantsAllow(grants, q)
            /\ OrgPoliciesAllow(PoliciesOf(policyCache), q)
            /\ evaluator' = [evaluator EXCEPT ![h].pc = "budget", ![h].used = policyCache]
      /\ UNCHANGED <<policyRows, policyCache, rateHits, clock, admitted>>

Reached == Cardinality({h \in Evaluators : At(h, "rate")}) + Cardinality(admitted)

\* The budget, then checkRateLimit up to rateMu.Lock: the limit is read from the
\* cache, which may have changed since the policies were checked, and the time
\* is taken.
CheckBudget(h) ==
  LET limit == RateLimitOf(PoliciesOf(policyCache))
  IN  /\ At(h, "budget")
      /\ \/ Answer(h)
         \/ /\ \E tenant, agent \in BudgetRows \cup {Absent} : BudgetAllows(tenant, agent)
            /\ limit > 0 /\ Reached < MaxHits
            /\ evaluator' = [evaluator EXCEPT ![h] =
                 [IdleEvaluator EXCEPT !.pc = "rate", !.query = evaluator[h].query,
                                       !.limit = limit, !.now = clock]]
      /\ UNCHANGED <<policyRows, policyCache, rateHits, clock, admitted>>

\* The stamps still in the window that ends at time now.
Pruned(hits, now) == {x \in hits : x[2] + Minute > now}

\* The next request let through with action a and stamp now.
NewHit(a, now) == <<a, now, Cardinality({x \in admitted : x[1] = a /\ x[2] = now})>>

\* Mutant of CheckRateLimit: the result of append is not stored.
CheckRateLimitMutant(h) ==
  LET a == evaluator[h].query.action
      now == evaluator[h].now
      hits == Pruned(rateHits[a], now)
  IN  /\ At(h, "rate")
      /\ rateHits' = [rateHits EXCEPT ![a] = hits]
      /\ IF Cardinality(hits) >= evaluator[h].limit
         THEN UNCHANGED admitted
         ELSE admitted' = admitted \cup {NewHit(a, now)}
      /\ Answer(h)
      /\ UNCHANGED <<policyRows, policyCache, clock>>

\* checkRateLimit under rateMu, and the answer.
CheckRateLimit(h) ==
  LET a == evaluator[h].query.action
      now == evaluator[h].now
      hits == Pruned(rateHits[a], now)
  IN  /\ At(h, "rate")
      /\ IF Cardinality(hits) >= evaluator[h].limit
         THEN rateHits' = [rateHits EXCEPT ![a] = hits] /\ UNCHANGED admitted
         ELSE /\ rateHits' = [rateHits EXCEPT ![a] = hits \cup {NewHit(a, now)}]
              /\ admitted' = admitted \cup {NewHit(a, now)}
      /\ Answer(h)
      /\ UNCHANGED <<policyRows, policyCache, clock>>

PolicyNext ==
  \/ ChangePolicies
  \/ Tick
  \/ \E h \in Evaluators, q \in Queries : ReadPolicies(h, q) \/ ReadPoliciesFails(h, q)
  \/ \E h \in Evaluators :
       \/ CachePolicies(h) \/ CheckGrantsAndPolicies(h)
       \/ CheckBudget(h) \/ CheckRateLimit(h)

PolicySpec == PolicyInit /\ [][PolicyNext]_policyVars

-----------------------------------------------------------------------------
(* Properties.                                                               *)

PolicyTypeOK ==
  /\ policyRows \in DOMAIN PolicyVersions
  /\ policyCache \in 0..policyRows
  /\ rateHits \in [Actions -> SUBSET RateHit]
  /\ admitted \subseteq RateHit
  /\ clock \in 0..MaxTime
  /\ evaluator \in [Evaluators ->
       [pc : EvaluatorPCs, query : Queries \cup {Absent}, loaded : 0..policyRows,
        used : 0..policyRows, limit : Nat, now : 0..clock, older : SUBSET Evaluators]]

\* A request is never decided by policies older than those it has loaded itself,
\* unless another handler was between its query and the lock at that moment
\* (engine.go:43-51): the cache is written without comparing versions.
StaleNeedsOverlap ==
  \A h \in Evaluators :
    At(h, "budget") /\ evaluator[h].used < evaluator[h].loaded => evaluator[h].older # {}

LargestLimit ==
  LET limits == {RateLimitOf(PolicyVersions[v]) : v \in DOMAIN PolicyVersions}
  IN  CHOOSE n \in limits : \A m \in limits : m <= n

\* The requests with action a let through in the minute up to time end.
LetThrough(a, end) == {x \in admitted : x[1] = a /\ x[2] <= end /\ x[2] + Minute > end}

\* In no minute are more requests let through than the limit, plus one for each
\* other handler that had taken the time before another pruned the list with a
\* later time (engine.go:337-362).
RateWindowBounded ==
  LargestLimit > 0 => \A a \in Actions : \A end \in 0..clock :
    Cardinality(LetThrough(a, end)) <= LargestLimit + Cardinality(Evaluators) - 1

=============================================================================
