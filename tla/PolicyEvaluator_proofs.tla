----------------------- MODULE PolicyEvaluator_proofs -----------------------
(***************************************************************************)
(* Proofs about PolicyEvaluator, for every number of handlers, every       *)
(* history of the policy table, every request and every bound.             *)
(***************************************************************************)
EXTENDS PolicyEvaluator, FiniteSetTheorems, FunctionTheorems, WellFoundedInduction, TLAPS

\* The limits that a cached version can set.
Limits == {0} \cup {RateLimitOf(PoliciesOf(v)) : v \in Nat}

HandlerType ==
  [pc : EvaluatorPCs, query : Queries \cup {Absent}, loaded : Nat, used : Nat,
   limit : Limits, now : Nat, older : SUBSET Evaluators]

HandlersOK == evaluator \in [Evaluators -> HandlerType] /\ clock \in Nat

\* Version numbers come from the table and only grow there.
VersionsOK ==
  /\ policyRows \in Nat /\ policyCache \in Nat
  /\ \A h \in Evaluators : evaluator[h].loaded <= policyRows

\* A handler that holds older rows than one that read after it was seen by it.
QueriesOrdered ==
  \A g, h \in Evaluators :
    At(g, "loaded") /\ evaluator[h].pc \in {"loaded", "cached"}
      /\ evaluator[g].loaded < evaluator[h].loaded
        => g \in evaluator[h].older

\* The cache is older than what a handler has put there only if it saw another.
CacheOverlapped ==
  \A h \in Evaluators :
    At(h, "cached") /\ policyCache < evaluator[h].loaded => evaluator[h].older # {}

PolicyInv == HandlersOK /\ VersionsOK /\ QueriesOrdered /\ CacheOverlapped /\ StaleNeedsOverlap

-----------------------------------------------------------------------------
\* The handler before its first request and after its answer.
LEMMA IdleHandler ==
  /\ IdleEvaluator \in HandlerType
  /\ IdleEvaluator.pc = "idle" /\ IdleEvaluator.loaded = 0
BY DEF HandlerType, EvaluatorPCs, Limits, IdleEvaluator

\* Nobody has read anything at the start.
LEMMA InitPolicyInv == PolicyInit => PolicyInv
<1> SUFFICES ASSUME PolicyInit PROVE PolicyInv
  OBVIOUS
<1>1. /\ evaluator = [h \in Evaluators |-> IdleEvaluator]
      /\ policyRows = 1 /\ policyCache \in {0, 1}
  BY DEF PolicyInit
<1>2. \A h \in Evaluators : evaluator[h] = IdleEvaluator
  BY <1>1
<1>3. HandlersOK
  BY <1>1, IdleHandler DEF HandlersOK, PolicyInit
<1>4. VersionsOK
  BY <1>1, <1>2, IdleHandler DEF VersionsOK
<1>5. QueriesOrdered /\ CacheOverlapped /\ StaleNeedsOverlap
  BY <1>2, IdleHandler DEF QueriesOrdered, CacheOverlapped, StaleNeedsOverlap, At
<1> QED BY <1>3, <1>4, <1>5 DEF PolicyInv

\* A step that gives handler h the locals r, where r is at none of the places the
\* invariant speaks of, or at "cached" with nothing loaded.
LEMMA HandlerLeaves ==
  ASSUME PolicyInv, NEW h \in Evaluators, NEW r \in HandlerType,
         r.pc \in {"idle", "cached", "rate"}, r.loaded = 0,
         evaluator' = [evaluator EXCEPT ![h] = r],
         UNCHANGED <<policyRows, policyCache, clock>>
  PROVE  PolicyInv'
<1>1. evaluator'[h] = r /\ \A g \in Evaluators \ {h} : evaluator'[g] = evaluator[g]
  BY DEF PolicyInv, HandlersOK
<1>2. HandlersOK'
  BY <1>1 DEF PolicyInv, HandlersOK
<1>3. VersionsOK'
  BY <1>1 DEF PolicyInv, VersionsOK
<1>4. QueriesOrdered'
  <2> SUFFICES ASSUME NEW g \in Evaluators, NEW k \in Evaluators,
                      evaluator'[g].pc = "loaded", evaluator'[k].pc \in {"loaded", "cached"},
                      evaluator'[g].loaded < evaluator'[k].loaded
               PROVE  g \in evaluator'[k].older
    BY DEF QueriesOrdered, At
  <2>1. g # h
    BY <1>1
  <2>2. evaluator[g].loaded \in Nat
    BY DEF PolicyInv, HandlersOK, HandlerType
  <2>3. k # h
    BY <1>1, <2>1, <2>2
  <2> QED BY <1>1, <2>1, <2>3 DEF PolicyInv, QueriesOrdered, At
<1>5. CacheOverlapped' /\ StaleNeedsOverlap'
  BY <1>1 DEF PolicyInv, VersionsOK, CacheOverlapped, StaleNeedsOverlap, At
<1> QED BY <1>2, <1>3, <1>4, <1>5 DEF PolicyInv

-----------------------------------------------------------------------------
(* The steps of a request.                                                   *)

\* A reader notes who holds rows at that moment; those it reads are the newest.
LEMMA ReadStep ==
  ASSUME PolicyInv, NEW h \in Evaluators, NEW q \in Queries, ReadPolicies(h, q)
  PROVE  PolicyInv'
<1> DEFINE holders == {g \in Evaluators : At(g, "loaded")}
           r == [IdleEvaluator EXCEPT !.pc = "loaded", !.query = q, !.loaded = policyRows,
                                      !.older = holders]
<1>1. /\ evaluator' = [evaluator EXCEPT ![h] = r] /\ evaluator[h].pc = "idle"
      /\ UNCHANGED <<policyRows, policyCache, clock>>
  BY DEF ReadPolicies, At
<1>2. r \in HandlerType /\ r.pc = "loaded" /\ r.loaded = policyRows /\ r.older = holders
  <2>1. policyRows \in Nat
    BY DEF PolicyInv, VersionsOK
  <2> QED BY <2>1 DEF HandlerType, EvaluatorPCs, Limits, IdleEvaluator
<1> HIDE DEF r
<1>3. evaluator'[h] = r /\ \A g \in Evaluators \ {h} : evaluator'[g] = evaluator[g]
  BY <1>1 DEF PolicyInv, HandlersOK
<1>4. HandlersOK'
  BY <1>1, <1>2, <1>3 DEF PolicyInv, HandlersOK
<1>5. VersionsOK'
  BY <1>1, <1>2, <1>3 DEF PolicyInv, VersionsOK
<1>6. QueriesOrdered'
  <2> SUFFICES ASSUME NEW g \in Evaluators, NEW k \in Evaluators,
                      evaluator'[g].pc = "loaded", evaluator'[k].pc \in {"loaded", "cached"},
                      evaluator'[g].loaded < evaluator'[k].loaded
               PROVE  g \in evaluator'[k].older
    BY DEF QueriesOrdered, At
  <2>1. g # h
    <3>1. evaluator'[k].loaded \in Nat /\ evaluator'[k].loaded <= policyRows
      BY <1>1, <1>4, <1>5 DEF VersionsOK, HandlersOK, HandlerType
    <3>2. policyRows \in Nat
      BY DEF PolicyInv, VersionsOK
    <3> QED BY <1>2, <1>3, <3>1, <3>2
  <2>2. CASE k = h
    BY <1>2, <1>3, <2>1, <2>2 DEF At
  <2>3. CASE k # h
    BY <1>3, <2>1, <2>3 DEF PolicyInv, QueriesOrdered, At
  <2> QED BY <2>2, <2>3
<1>7. CacheOverlapped' /\ StaleNeedsOverlap'
  BY <1>1, <1>2, <1>3 DEF PolicyInv, CacheOverlapped, StaleNeedsOverlap, At
<1> QED BY <1>4, <1>5, <1>6, <1>7 DEF PolicyInv

\* What a handler puts into the cache is older than what another has put there
\* only if the other saw it.
LEMMA CacheStep ==
  ASSUME PolicyInv, NEW h \in Evaluators, CachePolicies(h)
  PROVE  PolicyInv'
<1>1. /\ evaluator' = [evaluator EXCEPT ![h].pc = "cached"] /\ evaluator[h].pc = "loaded"
      /\ UNCHANGED <<policyRows, clock>> /\ policyCache' = evaluator[h].loaded
  BY DEF CachePolicies, At
<1>2. /\ evaluator'[h] \in HandlerType /\ evaluator'[h].pc = "cached"
      /\ evaluator'[h].loaded = evaluator[h].loaded /\ evaluator'[h].older = evaluator[h].older
      /\ \A g \in Evaluators \ {h} : evaluator'[g] = evaluator[g]
  BY <1>1 DEF PolicyInv, HandlersOK, HandlerType, EvaluatorPCs
<1>3. HandlersOK'
  BY <1>1, <1>2 DEF PolicyInv, HandlersOK
<1>4. VersionsOK'
  BY <1>1, <1>2 DEF PolicyInv, HandlersOK, HandlerType, VersionsOK
<1>5. QueriesOrdered'
  BY <1>1, <1>2 DEF PolicyInv, QueriesOrdered, At
<1>6. CacheOverlapped'
  <2> SUFFICES ASSUME NEW k \in Evaluators, evaluator'[k].pc = "cached",
                      evaluator[h].loaded < evaluator'[k].loaded
               PROVE  evaluator'[k].older # {}
    BY <1>1 DEF CacheOverlapped, At
  <2>1. k # h
    BY <1>2 DEF PolicyInv, HandlersOK, HandlerType
  <2>2. h \in evaluator[k].older
    BY <1>1, <1>2, <2>1 DEF PolicyInv, QueriesOrdered, At
  <2> QED BY <1>2, <2>1, <2>2
<1>7. StaleNeedsOverlap'
  BY <1>2 DEF PolicyInv, StaleNeedsOverlap, At
<1> QED BY <1>3, <1>4, <1>5, <1>6, <1>7 DEF PolicyInv

\* The policies that decide are those of the cache.
LEMMA CheckStep ==
  ASSUME PolicyInv, NEW h \in Evaluators, CheckGrantsAndPolicies(h)
  PROVE  PolicyInv'
<1>1. /\ evaluator[h].pc = "cached"
      /\ UNCHANGED <<policyRows, policyCache, clock>>
      /\ \/ evaluator' = [evaluator EXCEPT ![h] = IdleEvaluator]
         \/ evaluator' = [evaluator EXCEPT ![h].pc = "budget", ![h].used = policyCache]
  BY DEF CheckGrantsAndPolicies, At, Answer
<1>2. CASE evaluator' = [evaluator EXCEPT ![h] = IdleEvaluator]
  BY <1>1, <1>2, IdleHandler, HandlerLeaves
<1>3. CASE evaluator' = [evaluator EXCEPT ![h].pc = "budget", ![h].used = policyCache]
  <2>a. evaluator[h] \in HandlerType /\ policyCache \in Nat
    BY DEF PolicyInv, HandlersOK, VersionsOK
  <2>1. /\ evaluator'[h] \in HandlerType /\ evaluator'[h].pc = "budget"
        /\ evaluator'[h].used = policyCache
        /\ evaluator'[h].loaded = evaluator[h].loaded
        /\ evaluator'[h].older = evaluator[h].older
        /\ \A g \in Evaluators \ {h} : evaluator'[g] = evaluator[g]
    BY <1>3, <2>a DEF PolicyInv, HandlersOK, HandlerType, EvaluatorPCs
  <2>2. HandlersOK'
    BY <1>1, <1>3, <2>1 DEF PolicyInv, HandlersOK
  <2>3. VersionsOK'
    BY <1>1, <2>1 DEF PolicyInv, VersionsOK
  <2>4. QueriesOrdered' /\ CacheOverlapped'
    BY <1>1, <2>1 DEF PolicyInv, QueriesOrdered, CacheOverlapped, At
  <2>5. StaleNeedsOverlap'
    BY <1>1, <2>1 DEF PolicyInv, CacheOverlapped, StaleNeedsOverlap, At
  <2> QED BY <2>2, <2>3, <2>4, <2>5 DEF PolicyInv
<1> QED BY <1>1, <1>2, <1>3

\* Every other step of a handler takes it where the invariant says nothing of it.
LEMMA OtherSteps ==
  ASSUME PolicyInv, NEW h \in Evaluators,
         (\E q \in Queries : ReadPoliciesFails(h, q)) \/ CheckBudget(h) \/ CheckRateLimit(h)
  PROVE  PolicyInv'
<1>1. UNCHANGED <<policyRows, policyCache, clock>>
  BY DEF ReadPoliciesFails, CheckBudget, CheckRateLimit
<1>2. CASE evaluator' = [evaluator EXCEPT ![h] = IdleEvaluator]
  BY <1>1, <1>2, IdleHandler, HandlerLeaves
<1>3. CASE \E q \in Queries : ReadPoliciesFails(h, q)
  <2>1. PICK q \in Queries : ReadPoliciesFails(h, q)
    BY <1>3
  <2> DEFINE r == [IdleEvaluator EXCEPT !.pc = "cached", !.query = q]
  <2>2. evaluator' = [evaluator EXCEPT ![h] = r]
    BY <2>1 DEF ReadPoliciesFails
  <2>3. r \in HandlerType /\ r.pc = "cached" /\ r.loaded = 0
    BY DEF HandlerType, EvaluatorPCs, Limits, IdleEvaluator
  <2> HIDE DEF r
  <2> QED BY <1>1, <2>2, <2>3, HandlerLeaves
<1>4. CASE CheckBudget(h) /\ evaluator' # [evaluator EXCEPT ![h] = IdleEvaluator]
  <2> DEFINE limit == RateLimitOf(PoliciesOf(policyCache))
             r == [IdleEvaluator EXCEPT !.pc = "rate", !.query = evaluator[h].query,
                                        !.limit = limit, !.now = clock]
  <2>1. evaluator' = [evaluator EXCEPT ![h] = r]
    BY <1>4 DEF CheckBudget, Answer
  <2>2. limit \in Limits /\ clock \in Nat /\ evaluator[h].query \in Queries \cup {Absent}
    BY DEF PolicyInv, HandlersOK, HandlerType, VersionsOK, Limits
  <2> HIDE DEF limit
  <2>3. r \in HandlerType /\ r.pc = "rate" /\ r.loaded = 0
    BY <2>2 DEF HandlerType, EvaluatorPCs, IdleEvaluator
  <2> HIDE DEF r
  <2> QED BY <1>1, <2>1, <2>3, HandlerLeaves
<1>5. CASE CheckRateLimit(h)
  BY <1>2, <1>5 DEF CheckRateLimit, Answer
<1> QED BY <1>2, <1>3, <1>4, <1>5

\* The table changes and time passes: only the bound on versions is concerned.
LEMMA EnvironmentSteps ==
  ASSUME PolicyInv, ChangePolicies \/ Tick
  PROVE  PolicyInv'
<1>1. /\ evaluator' = evaluator /\ policyCache' = policyCache
      /\ policyRows' \in {policyRows, policyRows + 1}
  BY DEF ChangePolicies, Tick
<1>2. VersionsOK' /\ HandlersOK'
  BY <1>1 DEF PolicyInv, VersionsOK, HandlersOK, HandlerType, ChangePolicies, Tick
<1> QED BY <1>1, <1>2
        DEF PolicyInv, QueriesOrdered, CacheOverlapped, StaleNeedsOverlap, At

\* Every step.
LEMMA NextPolicyInv == PolicyInv /\ [PolicyNext]_policyVars => PolicyInv'
<1> SUFFICES ASSUME PolicyInv, [PolicyNext]_policyVars PROVE PolicyInv'
  OBVIOUS
<1>1. CASE UNCHANGED policyVars
  BY <1>1 DEF policyVars, PolicyInv, HandlersOK, VersionsOK, QueriesOrdered, CacheOverlapped,
              StaleNeedsOverlap, At
<1>2. CASE ChangePolicies \/ Tick
  BY <1>2, EnvironmentSteps
<1>3. CASE \E h \in Evaluators, q \in Queries : ReadPolicies(h, q) \/ ReadPoliciesFails(h, q)
  BY <1>3, ReadStep, OtherSteps
<1>4. CASE \E h \in Evaluators : \/ CachePolicies(h) \/ CheckGrantsAndPolicies(h)
                                 \/ CheckBudget(h) \/ CheckRateLimit(h)
  BY <1>4, CacheStep, CheckStep, OtherSteps
<1> QED BY <1>1, <1>2, <1>3, <1>4 DEF PolicyNext

\* A request is never decided by older policies than it has loaded itself, unless
\* another handler was between its query and the cache at that moment.
THEOREM StaleNeedsOverlapCorrect == PolicySpec => []StaleNeedsOverlap
<1>1. PolicyInv => StaleNeedsOverlap
  BY DEF PolicyInv
<1> QED BY <1>1, InitPolicyInv, NextPolicyInv, PTL DEF PolicySpec

-----------------------------------------------------------------------------
(* Facts about finite sets of numbers.                                       *)

\* A nonempty finite set of numbers has a largest element.
LEMMA LargestExists ==
  ASSUME NEW S \in SUBSET Nat, IsFiniteSet(S), S # {}
  PROVE  \E n \in S : \A m \in S : m <= n
<1> DEFINE Bad == {T \in FiniteSubsetsOf(Nat) : T # {} /\ ~ \E n \in T : \A m \in T : m <= n}
<1> SUFFICES ASSUME Bad # {} PROVE FALSE
  BY DEF FiniteSubsetsOf
<1>1. PICK T \in Bad : \A U \in Bad : <<U, T>> \notin StrictSubsetOrdering(Nat)
  <2>1. IsWellFoundedOn(StrictSubsetOrdering(Nat), FiniteSubsetsOf(Nat))
    BY FS_StrictSubsetOrderingWellFounded
  <2>2. Bad \subseteq FiniteSubsetsOf(Nat)
    OBVIOUS
  <2> HIDE DEF Bad
  <2> QED BY <2>1, <2>2, WFMin
<1>2. T \in SUBSET Nat /\ IsFiniteSet(T) /\ T # {}
  BY DEF FiniteSubsetsOf
<1>3. PICK x \in T : TRUE
  BY <1>2
<1>4. T \ {x} \in FiniteSubsetsOf(Nat) /\ <<T \ {x}, T>> \in StrictSubsetOrdering(Nat)
  BY <1>2, <1>3, FS_RemoveElement DEF FiniteSubsetsOf, StrictSubsetOrdering
<1>5. T \ {x} \notin Bad
  BY <1>1, <1>4
<1>6. CASE T \ {x} = {}
  BY <1>1, <1>2, <1>3, <1>6
<1>7. CASE \E n \in T \ {x} : \A m \in T \ {x} : m <= n
  <2>1. PICK n \in T \ {x} : \A m \in T \ {x} : m <= n
    BY <1>7
  <2>2. \A m \in T : m <= (IF n < x THEN x ELSE n)
    BY <1>2, <1>3, <2>1
  <2> QED BY <1>1, <1>2, <1>3, <2>1, <2>2
<1> QED BY <1>4, <1>5, <1>6, <1>7

\* A nonempty set of numbers has a smallest element.
LEMMA SmallestExists ==
  ASSUME NEW S \in SUBSET Nat, S # {}
  PROVE  \E n \in S : \A m \in S : n <= m
<1>1. PICK a \in S : TRUE
  OBVIOUS
<1> DEFINE below == {n \in 0..a : \A m \in S : n <= m}
<1>2. below \in SUBSET Nat /\ IsFiniteSet(below) /\ 0 \in below
  <2>1. IsFiniteSet(0..a) /\ below \in SUBSET (0..a)
    BY FS_Interval
  <2> QED BY <2>1, FS_Subset
<1>3. PICK d \in below : \A n \in below : n <= d
  <2> HIDE DEF below
  <2> QED BY <1>2, LargestExists
<1>4. d + 1 \notin below /\ d \in Nat
  BY <1>2, <1>3
<1>5. d \in S
  BY <1>3, <1>4
<1> QED BY <1>3, <1>5

-----------------------------------------------------------------------------
(* The limits.                                                               *)

\* The limit of a version is a number, and none is above the largest.
LEMMA LimitsBounded ==
  /\ LargestLimit \in Nat
  /\ \A v \in 0..Len(PolicyVersions) :
       /\ RateLimitOf(PoliciesOf(v)) \in Nat
       /\ RateLimitOf(PoliciesOf(v)) <= LargestLimit
<1> DEFINE V == DOMAIN PolicyVersions
           lim == [v \in V |-> RateLimitOf(PolicyVersions[v])]
           limits == {RateLimitOf(PolicyVersions[v]) : v \in V}
<1>0. V = 1..Len(PolicyVersions) /\ Len(PolicyVersions) \in Nat \ {0}
  BY PolicyAssumption
<1>1. ASSUME NEW v \in V PROVE RateLimitOf(PolicyVersions[v]) \in Nat
  <2> DEFINE policies == PolicyVersions[v]
             limited == {i \in DOMAIN policies : policies[i].limit > 0}
  <2>1. limited \in SUBSET Nat /\ \A i \in limited : policies[i].limit \in Nat
    BY PolicyAssumption
  <2>2. CASE limited = {}
    BY <2>2 DEF RateLimitOf
  <2>3. CASE limited # {}
    <3> HIDE DEF limited
    <3>1. \E i \in limited : \A j \in limited : i <= j
      BY <2>1, <2>3, SmallestExists
    <3>2. (CHOOSE i \in limited : \A j \in limited : i <= j) \in limited
      BY <3>1
    <3>3. policies[CHOOSE i \in limited : \A j \in limited : i <= j].limit \in Nat
      BY <2>1, <3>2
    <3> QED BY <2>3, <3>3 DEF RateLimitOf, limited
  <2> QED BY <2>2, <2>3
<1>2. lim \in [V -> Nat] /\ Range(lim) = limits
  BY <1>1 DEF Range
<1>3. IsFiniteSet(limits)
  <2>1. IsFiniteSet(V)
    BY <1>0, FS_Interval
  <2>2. lim \in Surjection(V, limits)
    BY <1>2, Fun_RangeProperties
  <2> QED BY <2>1, <2>2, FS_Surjection
<1>4. limits # {} /\ limits \in SUBSET Nat
  BY <1>0, <1>1
<1>5. \E n \in limits : \A m \in limits : m <= n
  <2> HIDE DEF limits
  <2> QED BY <1>3, <1>4, LargestExists
<1>6. LargestLimit \in limits /\ \A m \in limits : m <= LargestLimit
  BY <1>5 DEF LargestLimit
<1>7. RateLimitOf(PoliciesOf(0)) = 0
  BY DEF RateLimitOf, PoliciesOf
<1> QED BY <1>0, <1>1, <1>4, <1>6, <1>7 DEF PoliciesOf

-----------------------------------------------------------------------------
(* The type invariant and the rate limiter.                                  *)

\* Who gets past the first checks asks for an action that exists.
ActionsKnown ==
  \A h \in Evaluators : evaluator[h].pc \in {"budget", "rate"} => evaluator[h].query.action \in Actions

TypeInv == PolicyTypeOK /\ ActionsKnown /\ IsFiniteSet(admitted)

LimitsHeld == \A h \in Evaluators : evaluator[h].limit <= LargestLimit

\* The list of an action holds requests that were let through, and no two of those are the same.
HitsAdmitted ==
  /\ \A a \in Actions : \A x \in rateHits[a] : x \in admitted /\ x[1] = a
  /\ \A x \in admitted : x[3] < Cardinality({y \in admitted : y[1] = x[1] /\ y[2] = x[2]})

\* The handlers that may still let a request through in a minute that others have left behind.
Late(end) == {h \in Evaluators : At(h, "rate") /\ evaluator[h].now <= end}

\* The list still holds all that was let through in the minute up to `end'; or a handler with
\* a later time has pruned it, and only those that had taken their time before can add to it.
WindowKept(a, end) ==
  \/ /\ LetThrough(a, end) \subseteq rateHits[a]
     /\ Cardinality(LetThrough(a, end)) <= LargestLimit
  \/ /\ clock > end
     /\ Cardinality(LetThrough(a, end)) + Cardinality(Late(end))
          <= LargestLimit + Cardinality(Evaluators) - 1

RateInv ==
  /\ TypeInv /\ LimitsHeld /\ HitsAdmitted
  /\ \A a \in Actions, end \in Nat : WindowKept(a, end)

\* What a handler holds, as PolicyTypeOK says it.
LocalsType ==
  [pc : EvaluatorPCs, query : Queries \cup {Absent}, loaded : 0..policyRows,
   used : 0..policyRows, limit : Nat, now : 0..clock, older : SUBSET Evaluators]

\* The sets of the invariant are finite.
LEMMA RateSetsFinite ==
  ASSUME TypeInv
  PROVE  /\ \A a, end : IsFiniteSet(LetThrough(a, end)) /\ Cardinality(LetThrough(a, end)) \in Nat
         /\ \A end : IsFiniteSet(Late(end)) /\ Cardinality(Late(end)) \in Nat
         /\ Cardinality(Evaluators) \in Nat \ {0}
<1>1. ASSUME NEW a, NEW end
      PROVE  IsFiniteSet(LetThrough(a, end)) /\ Cardinality(LetThrough(a, end)) \in Nat
  <2>1. LetThrough(a, end) \in SUBSET admitted /\ IsFiniteSet(admitted)
    BY DEF LetThrough, TypeInv
  <2> QED BY <2>1, FS_Subset, FS_CardinalityType
<1>2. ASSUME NEW end PROVE IsFiniteSet(Late(end)) /\ Cardinality(Late(end)) \in Nat
  <2>1. Late(end) \in SUBSET Evaluators
    BY DEF Late
  <2> QED BY <2>1, PolicyAssumption, FS_Subset, FS_CardinalityType
<1>3. Cardinality(Evaluators) \in Nat \ {0}
  BY PolicyAssumption, FS_CardinalityType, FS_EmptySet
<1> QED BY <1>1, <1>2, <1>3

LEMMA InitRateInv == PolicyInit => RateInv
<1> SUFFICES ASSUME PolicyInit PROVE RateInv
  OBVIOUS
<1>1. /\ \A h \in Evaluators : evaluator[h] = IdleEvaluator
      /\ evaluator = [h \in Evaluators |-> IdleEvaluator]
      /\ admitted = {} /\ rateHits = [a \in Actions |-> {}] /\ clock = 0
      /\ policyRows = 1 /\ policyCache \in {0, 1}
  BY DEF PolicyInit
<1>2. IdleEvaluator \in LocalsType
  BY <1>1 DEF LocalsType, IdleEvaluator, EvaluatorPCs
<1>3. PolicyTypeOK
  BY <1>1, <1>2, PolicyAssumption DEF PolicyTypeOK, LocalsType
<1>4. ActionsKnown /\ LimitsHeld /\ HitsAdmitted /\ IsFiniteSet(admitted)
  BY <1>1, LimitsBounded, FS_EmptySet DEF ActionsKnown, LimitsHeld, HitsAdmitted, IdleEvaluator
<1>5. \A a, end : LetThrough(a, end) = {}
  BY <1>1 DEF LetThrough
<1>6. \A a \in Actions, end \in Nat : WindowKept(a, end)
  <2>1. Cardinality({}) = 0 /\ LargestLimit \in Nat
    BY LimitsBounded, FS_EmptySet
  <2> QED BY <1>5, <2>1 DEF WindowKept
<1> QED BY <1>3, <1>4, <1>6 DEF RateInv, TypeInv

\* A step that lets nobody through, prunes nothing, and takes to "rate" only handlers with the
\* time of now.
LEMMA QuietStep ==
  ASSUME RateInv, TypeInv', LimitsHeld', UNCHANGED <<rateHits, admitted>>,
         clock' \in Nat, clock <= clock',
         \A end \in Nat : clock > end => Late(end)' \subseteq Late(end)
  PROVE  RateInv'
<1>1. HitsAdmitted'
  BY DEF RateInv, HitsAdmitted
<1>2. ASSUME NEW a \in Actions, NEW end \in Nat PROVE WindowKept(a, end)'
  <2>1. LetThrough(a, end)' = LetThrough(a, end)
    BY DEF LetThrough
  <2>2. clock \in Nat
    BY DEF RateInv, TypeInv, PolicyTypeOK
  <2>3. CASE clock > end
    <3>1. Cardinality(Late(end)') <= Cardinality(Late(end)) /\ Cardinality(Late(end)') \in Nat
      BY <2>3, FS_Subset, FS_CardinalityType, RateSetsFinite DEF RateInv
    <3>2. Cardinality(Late(end)) \in Nat
      BY RateSetsFinite DEF RateInv
    <3> QED BY <2>1, <2>2, <2>3, <3>1, <3>2, RateSetsFinite, LimitsBounded DEF RateInv, WindowKept
  <2>4. CASE ~ (clock > end)
    BY <2>1, <2>4 DEF RateInv, WindowKept
  <2> QED BY <2>3, <2>4
<1> QED BY <1>1, <1>2 DEF RateInv

-----------------------------------------------------------------------------
(* Steps.                                                                    *)

\* A step of the table or the clock, or of a handler h to the locals r, that leaves the
\* limiter alone.
LEMMA TypeStep ==
  ASSUME TypeInv, policyRows' \in DOMAIN PolicyVersions, policyRows <= policyRows',
         policyCache' \in 0..policyRows', clock' \in 0..MaxTime, clock <= clock',
         UNCHANGED <<rateHits, admitted>>,
         \/ UNCHANGED evaluator
         \/ \E h \in Evaluators, r \in LocalsType :
              /\ evaluator' = [evaluator EXCEPT ![h] = r]
              /\ r.pc \in {"budget", "rate"} => r.query.action \in Actions
  PROVE  TypeInv'
<1>1. /\ policyRows \in Nat /\ policyRows' \in Nat /\ clock \in Nat /\ clock' \in Nat
      /\ evaluator \in [Evaluators -> LocalsType]
  BY PolicyAssumption DEF TypeInv, PolicyTypeOK, LocalsType
<1>2. LocalsType \subseteq LocalsType'
  <2>1. 0..policyRows \subseteq 0..policyRows' /\ 0..clock \subseteq 0..clock'
    BY <1>1
  <2> QED BY <2>1 DEF LocalsType
<1>3. evaluator' \in [Evaluators -> LocalsType]
  BY <1>1
<1>4. evaluator' \in [Evaluators -> LocalsType']
  BY <1>2, <1>3
<1>5. PolicyTypeOK'
  BY <1>4 DEF TypeInv, PolicyTypeOK, LocalsType
<1>6. ActionsKnown'
  BY <1>1 DEF TypeInv, ActionsKnown
<1> QED BY <1>5, <1>6 DEF TypeInv

\* The table and the clock.
LEMMA EnvironmentRate ==
  ASSUME RateInv, ChangePolicies \/ Tick
  PROVE  RateInv'
<1>1. /\ policyRows \in 1..Len(PolicyVersions) /\ clock \in 0..MaxTime /\ policyCache \in 0..policyRows
      /\ DOMAIN PolicyVersions = 1..Len(PolicyVersions) /\ Len(PolicyVersions) \in Nat /\ MaxTime \in Nat
  BY PolicyAssumption DEF RateInv, TypeInv, PolicyTypeOK
<1>2. /\ policyRows' \in DOMAIN PolicyVersions /\ policyRows <= policyRows'
      /\ policyCache' \in 0..policyRows' /\ clock' \in 0..MaxTime /\ clock <= clock'
      /\ UNCHANGED <<rateHits, admitted, evaluator>>
  BY <1>1 DEF ChangePolicies, Tick
<1>3. TypeInv'
  BY <1>2, TypeStep DEF RateInv
<1>4. LimitsHeld' /\ \A end \in Nat : Late(end)' \subseteq Late(end)
  BY <1>2 DEF RateInv, LimitsHeld, Late, At
<1> QED BY <1>1, <1>2, <1>3, <1>4, QuietStep

\* A step of one handler before the limiter, to locals r.
LEMMA HandlerRate ==
  ASSUME RateInv, NEW h \in Evaluators, NEW r \in LocalsType,
         evaluator' = [evaluator EXCEPT ![h] = r],
         r.pc \in {"budget", "rate"} => r.query.action \in Actions,
         r.pc = "rate" => r.now = clock,
         r.limit <= LargestLimit,
         policyCache' \in 0..policyRows,
         UNCHANGED <<policyRows, rateHits, clock, admitted>>
  PROVE  RateInv'
<1>1. evaluator \in [Evaluators -> LocalsType] /\ clock \in 0..MaxTime /\ clock \in Nat
  BY PolicyAssumption DEF RateInv, TypeInv, PolicyTypeOK, LocalsType
<1>2. TypeInv'
  <2>1. /\ policyRows' \in DOMAIN PolicyVersions /\ policyRows <= policyRows'
        /\ policyCache' \in 0..policyRows' /\ clock' \in 0..MaxTime /\ clock <= clock'
        /\ UNCHANGED <<rateHits, admitted>> /\ TypeInv
    BY <1>1, PolicyAssumption DEF RateInv, TypeInv, PolicyTypeOK
  <2> QED BY <2>1, TypeStep
<1>3. LimitsHeld'
  BY <1>1 DEF RateInv, LimitsHeld
<1>4. ASSUME NEW end \in Nat, clock > end PROVE Late(end)' \subseteq Late(end)
  BY <1>1, <1>4 DEF Late, At
<1> QED BY <1>1, <1>2, <1>3, <1>4, QuietStep

\* The locals of a handler in the type invariant.
LEMMA LocalsOK ==
  ASSUME RateInv
  PROVE  /\ IdleEvaluator \in LocalsType /\ IdleEvaluator.pc = "idle" /\ IdleEvaluator.limit <= LargestLimit
         /\ \A h \in Evaluators : evaluator[h] \in LocalsType /\ evaluator[h].limit <= LargestLimit
         /\ policyRows \in Nat /\ policyRows <= Len(PolicyVersions) /\ policyCache \in 0..policyRows
         /\ clock \in Nat
<1>1. policyRows \in Nat /\ policyRows <= Len(PolicyVersions) /\ clock \in Nat
  BY PolicyAssumption DEF RateInv, TypeInv, PolicyTypeOK
<1>2. /\ IdleEvaluator \in LocalsType /\ IdleEvaluator.pc = "idle" /\ IdleEvaluator.limit <= LargestLimit
  BY <1>1, LimitsBounded DEF LocalsType, IdleEvaluator, EvaluatorPCs
<1> QED BY <1>1, <1>2 DEF RateInv, TypeInv, PolicyTypeOK, LocalsType, LimitsHeld

LEMMA BeforeLimiterRate ==
  ASSUME RateInv, NEW h \in Evaluators,
         \/ \E q \in Queries : ReadPolicies(h, q) \/ ReadPoliciesFails(h, q)
         \/ CachePolicies(h) \/ CheckGrantsAndPolicies(h) \/ CheckBudget(h)
  PROVE  RateInv'
<1>0. evaluator[h] \in LocalsType
  BY LocalsOK
<1>1. CASE evaluator' = [evaluator EXCEPT ![h] = IdleEvaluator]
           /\ UNCHANGED <<policyRows, policyCache, rateHits, clock, admitted>>
  BY <1>1, LocalsOK, HandlerRate
<1>2. ASSUME NEW q \in Queries, ReadPolicies(h, q) PROVE RateInv'
  <2> DEFINE holders == {g \in Evaluators : At(g, "loaded")}
             r == [IdleEvaluator EXCEPT !.pc = "loaded", !.query = q, !.loaded = policyRows,
                                        !.older = holders]
  <2>a. holders \in SUBSET Evaluators
    OBVIOUS
  <2>b. policyRows \in 0..policyRows /\ 0 \in 0..policyRows /\ 0 \in 0..clock /\ 0 <= LargestLimit
    BY LocalsOK, LimitsBounded
  <2> HIDE DEF holders
  <2>1. r \in LocalsType /\ r.pc = "loaded" /\ r.limit <= LargestLimit
    BY <2>a, <2>b DEF LocalsType, IdleEvaluator, EvaluatorPCs
  <2>2. /\ evaluator' = [evaluator EXCEPT ![h] = r]
        /\ UNCHANGED <<policyRows, policyCache, rateHits, clock, admitted>>
    BY <1>2 DEF ReadPolicies, holders
  <2> HIDE DEF r
  <2> QED BY <2>1, <2>2, LocalsOK, HandlerRate
<1>3. ASSUME NEW q \in Queries, ReadPoliciesFails(h, q) PROVE RateInv'
  <2> DEFINE r == [IdleEvaluator EXCEPT !.pc = "cached", !.query = q]
  <2>1. r \in LocalsType /\ r.pc = "cached" /\ r.limit <= LargestLimit
    BY LocalsOK, LimitsBounded DEF LocalsType, IdleEvaluator, EvaluatorPCs
  <2>2. /\ evaluator' = [evaluator EXCEPT ![h] = r]
        /\ UNCHANGED <<policyRows, policyCache, rateHits, clock, admitted>>
    BY <1>3 DEF ReadPoliciesFails
  <2> HIDE DEF r
  <2> QED BY <2>1, <2>2, LocalsOK, HandlerRate
<1>4. CASE CachePolicies(h)
  <2> DEFINE r == [evaluator[h] EXCEPT !.pc = "cached"]
  <2>1. r \in LocalsType /\ r.pc = "cached" /\ r.limit <= LargestLimit
    BY <1>0, LocalsOK DEF LocalsType, EvaluatorPCs
  <2>2. /\ evaluator' = [evaluator EXCEPT ![h] = r] /\ policyCache' = evaluator[h].loaded
        /\ UNCHANGED <<policyRows, rateHits, clock, admitted>>
    BY <1>4 DEF CachePolicies
  <2>3. policyCache' \in 0..policyRows
    BY <1>0, <2>2 DEF LocalsType
  <2> HIDE DEF r
  <2> QED BY <2>1, <2>2, <2>3, HandlerRate
<1>5. CASE CheckGrantsAndPolicies(h)
  <2> DEFINE r == [evaluator[h] EXCEPT !.pc = "budget", !.used = policyCache]
  <2>1. r \in LocalsType /\ r.pc = "budget" /\ r.query = evaluator[h].query /\ r.limit <= LargestLimit
    BY <1>0, LocalsOK DEF LocalsType, EvaluatorPCs
  <2>2. /\ UNCHANGED <<policyRows, policyCache, rateHits, clock, admitted>>
        /\ \/ evaluator' = [evaluator EXCEPT ![h] = IdleEvaluator]
           \/ evaluator' = [evaluator EXCEPT ![h] = r] /\ evaluator[h].query.action \in Actions
    BY <1>5 DEF CheckGrantsAndPolicies, Answer
  <2> HIDE DEF r
  <2> QED BY <1>1, <2>1, <2>2, LocalsOK, HandlerRate
<1>6. CASE CheckBudget(h)
  <2> DEFINE limit == RateLimitOf(PoliciesOf(policyCache))
             r == [IdleEvaluator EXCEPT !.pc = "rate", !.query = evaluator[h].query,
                                        !.limit = limit, !.now = clock]
  <2>1. limit \in Nat /\ limit <= LargestLimit
    BY LocalsOK, LimitsBounded, PolicyAssumption
  <2>2. evaluator[h].pc = "budget" /\ evaluator[h].query.action \in Actions
    BY <1>6 DEF CheckBudget, At, RateInv, TypeInv, ActionsKnown
  <2>3. /\ UNCHANGED <<policyRows, policyCache, rateHits, clock, admitted>>
        /\ \/ evaluator' = [evaluator EXCEPT ![h] = IdleEvaluator]
           \/ evaluator' = [evaluator EXCEPT ![h] = r]
    BY <1>6 DEF CheckBudget, Answer
  <2> HIDE DEF limit
  <2>a. evaluator[h].query \in Queries \cup {Absent} /\ clock \in 0..clock /\ 0 \in 0..policyRows
    BY <1>0, LocalsOK DEF LocalsType
  <2>4. /\ r \in LocalsType /\ r.pc = "rate" /\ r.query = evaluator[h].query
        /\ r.limit <= LargestLimit /\ r.now = clock
    BY <2>1, <2>a DEF LocalsType, IdleEvaluator, EvaluatorPCs
  <2> HIDE DEF r
  <2> QED BY <1>1, <2>2, <2>3, <2>4, LocalsOK, HandlerRate
<1> QED BY <1>2, <1>3, <1>4, <1>5, <1>6

\* The step of the limiter, in its two outcomes.
LEMMA LimiterRate ==
  ASSUME RateInv, NEW h \in Evaluators, CheckRateLimit(h)
  PROVE  RateInv'
<1> DEFINE b == evaluator[h].query.action
           now == evaluator[h].now
           hits == Pruned(rateHits[b], now)
           x == NewHit(b, now)
           Let == admitted' = admitted \cup {x} /\ Cardinality(hits) < evaluator[h].limit
                  /\ rateHits' = [rateHits EXCEPT ![b] = hits \cup {x}]
           Refuse == admitted' = admitted /\ rateHits' = [rateHits EXCEPT ![b] = hits]
<1>1. /\ b \in Actions /\ now \in 0..clock /\ clock \in 0..MaxTime /\ MaxTime \in Nat
      /\ evaluator[h].limit \in Nat /\ evaluator[h].limit <= LargestLimit
      /\ rateHits \in [Actions -> SUBSET RateHit] /\ admitted \in SUBSET RateHit
      /\ IsFiniteSet(admitted)
      /\ evaluator \in [Evaluators -> LocalsType] /\ At(h, "rate")
  BY PolicyAssumption
     DEF RateInv, TypeInv, PolicyTypeOK, ActionsKnown, LimitsHeld, CheckRateLimit, At, LocalsType
<1>2. /\ evaluator' = [evaluator EXCEPT ![h] = IdleEvaluator]
      /\ UNCHANGED <<policyRows, policyCache, clock>>
  BY DEF CheckRateLimit, Answer
<1>3. Cardinality(hits) \in Nat /\ hits \in SUBSET admitted /\ IsFiniteSet(hits)
      /\ hits \subseteq rateHits[b]
  <2>1. hits \in SUBSET admitted /\ hits \subseteq rateHits[b]
    BY <1>1 DEF RateInv, HitsAdmitted, Pruned
  <2> QED BY <1>1, <2>1, FS_Subset, FS_CardinalityType
<1>4. Let \/ Refuse
  <2>1. \/ Cardinality(hits) >= evaluator[h].limit /\ Refuse
        \/ ~ (Cardinality(hits) >= evaluator[h].limit) /\ admitted' = admitted \cup {x}
           /\ rateHits' = [rateHits EXCEPT ![b] = hits \cup {x}]
    BY DEF CheckRateLimit
  <2> QED BY <1>1, <1>3, <2>1
<1> DEFINE same == {y \in admitted : y[1] = b /\ y[2] = now}
<1>5. /\ IsFiniteSet(same) /\ Cardinality(same) \in Nat
      /\ x = <<b, now, Cardinality(same)>> /\ x \in RateHit
      /\ x[1] = b /\ x[2] = now /\ x[3] = Cardinality(same)
  <2>1. IsFiniteSet(same) /\ Cardinality(same) \in Nat
    BY <1>1, FS_Subset, FS_CardinalityType
  <2>2. x = <<b, now, Cardinality(same)>>
    BY DEF NewHit
  <2> HIDE DEF same, b, now
  <2> QED BY <1>1, <2>1, <2>2 DEF RateHit
<1>6. x \notin admitted
  <2> SUFFICES ASSUME x \in admitted PROVE FALSE
    OBVIOUS
  <2>1. x[3] < Cardinality({y \in admitted : y[1] = x[1] /\ y[2] = x[2]})
    BY DEF RateInv, HitsAdmitted
  <2> HIDE DEF x, b, now
  <2> QED BY <1>5, <2>1
<1> HIDE DEF x, b, now, hits
<1>7. TypeInv'
  <2>1. IsFiniteSet(admitted') /\ admitted' \in SUBSET RateHit
    <3>1. IsFiniteSet(admitted \cup {x})
      BY <1>1, FS_AddElement
    <3> QED BY <1>1, <1>4, <1>5, <3>1
  <2>2. rateHits' \in [Actions -> SUBSET RateHit]
    BY <1>1, <1>3, <1>4, <1>5
  <2>3. /\ evaluator' \in [Evaluators -> LocalsType'] /\ LocalsType' = LocalsType
    BY <1>1, <1>2, LocalsOK DEF LocalsType
  <2>4. PolicyTypeOK'
    BY <1>2, <2>1, <2>2, <2>3 DEF RateInv, TypeInv, PolicyTypeOK, LocalsType
  <2>5. ActionsKnown'
    BY <1>1, <1>2, LocalsOK DEF RateInv, TypeInv, ActionsKnown
  <2> QED BY <2>1, <2>4, <2>5 DEF TypeInv
<1>8. LimitsHeld'
  BY <1>1, <1>2, LocalsOK DEF RateInv, LimitsHeld
<1>9. HitsAdmitted'
  <2>1. \A a \in Actions : \A y \in rateHits'[a] : y \in admitted' /\ y[1] = a
    BY <1>1, <1>3, <1>4, <1>5 DEF RateInv, HitsAdmitted
  <2>2. ASSUME NEW y \in admitted'
        PROVE  y[3] < Cardinality({z \in admitted' : z[1] = y[1] /\ z[2] = y[2]})
    <3> DEFINE old == {z \in admitted : z[1] = y[1] /\ z[2] = y[2]}
               new == {z \in admitted' : z[1] = y[1] /\ z[2] = y[2]}
    <3>1. IsFiniteSet(old) /\ IsFiniteSet(new) /\ Cardinality(old) \in Nat /\ Cardinality(new) \in Nat
      BY <1>1, <1>7, FS_Subset, FS_CardinalityType DEF TypeInv
    <3>2. Cardinality(old) <= Cardinality(new)
      <4>1. old \in SUBSET new
        BY <1>4
      <4> HIDE DEF old, new
      <4> QED BY <3>1, <4>1, FS_Subset
    <3>3. CASE y \in admitted
      BY <1>1, <3>1, <3>2, <3>3 DEF RateInv, HitsAdmitted, RateHit
    <3>4. CASE y = x /\ Let
      <4>1. new = same \cup {x} /\ x \notin same
        BY <1>5, <1>6, <3>4
      <4>2. Cardinality(new) = Cardinality(same) + 1
        <5> HIDE DEF same, new
        <5> QED BY <1>5, <4>1, FS_AddElement
      <4> QED BY <1>5, <3>4, <4>2
    <3> QED BY <1>4, <3>3, <3>4
  <2> QED BY <2>1, <2>2 DEF HitsAdmitted
<1>10. ASSUME NEW a \in Actions, NEW end \in Nat PROVE WindowKept(a, end)'
  <2> DEFINE W == LetThrough(a, end)
  <2>0. /\ IsFiniteSet(W) /\ Cardinality(W) \in Nat /\ IsFiniteSet(Late(end))
        /\ Cardinality(Late(end)) \in Nat /\ Cardinality(Evaluators) \in Nat \ {0}
        /\ LargestLimit \in Nat /\ WindowKept(a, end)
        /\ now \in Nat /\ clock \in Nat /\ now <= clock
    BY <1>1, RateSetsFinite, LimitsBounded DEF RateInv
  <2>1. Late(end)' = Late(end) \ {h}
    BY <1>1, <1>2, LocalsOK DEF Late, At
  <2>2. h \in Late(end) <=> now <= end
    BY <1>1 DEF Late, now
  <2>3. Cardinality(Late(end)') = (IF now <= end THEN Cardinality(Late(end)) - 1 ELSE Cardinality(Late(end)))
        /\ Cardinality(Late(end)') \in Nat
    BY <2>0, <2>1, <2>2, FS_RemoveElement, FS_CardinalityType
  <2>4. Cardinality(Late(end)') <= Cardinality(Evaluators) - 1
    <3>1. Late(end)' \in SUBSET (Evaluators \ {h})
      BY <2>1 DEF Late
    <3>2. IsFiniteSet(Evaluators \ {h}) /\ Cardinality(Evaluators \ {h}) = Cardinality(Evaluators) - 1
      BY PolicyAssumption, FS_RemoveElement
    <3> QED BY <3>1, <3>2, FS_Subset
  <2>5. \/ LetThrough(a, end)' = W
        \/ Let /\ a = b /\ now <= end /\ now + Minute > end /\ LetThrough(a, end)' = W \cup {x}
    <3>1. CASE Refuse
      BY <3>1 DEF LetThrough
    <3>2. CASE Let
      BY <1>5, <3>2 DEF LetThrough
    <3> QED BY <1>4, <3>1, <3>2
  <2>6. Cardinality(W \cup {x}) <= Cardinality(W) + 1 /\ Cardinality(W \cup {x}) \in Nat
    <3>1. IsFiniteSet(W) /\ Cardinality(W) \in Nat
      BY <2>0
    <3> HIDE DEF W
    <3>2. Cardinality(W \cup {x}) = IF x \in W THEN Cardinality(W) ELSE Cardinality(W) + 1
      BY <3>1, FS_AddElement
    <3> QED BY <3>1, <3>2
  <2>7. CASE WindowKept(a, end)!2
    <3>1. clock' > end /\ Cardinality(W) + Cardinality(Late(end)) <= LargestLimit + Cardinality(Evaluators) - 1
      BY <1>2, <2>7
    <3>2. Cardinality(LetThrough(a, end)') + Cardinality(Late(end)')
            <= LargestLimit + Cardinality(Evaluators) - 1
      <4>1. CASE LetThrough(a, end)' = W
        BY <2>0, <2>3, <3>1, <4>1
      <4>2. CASE now <= end /\ LetThrough(a, end)' = W \cup {x}
        <5>1. Cardinality(Late(end)') = Cardinality(Late(end)) - 1
          BY <2>3, <4>2
        <5> QED BY <2>0, <2>6, <3>1, <4>2, <5>1
      <4> QED BY <2>5, <4>1, <4>2
    <3> QED BY <3>1, <3>2 DEF WindowKept
  <2>8. CASE WindowKept(a, end)!1 /\ now > end
    <3>1. LetThrough(a, end)' = W /\ clock' > end
      BY <1>2, <2>0, <2>5, <2>8
    <3>2. Cardinality(W) <= LargestLimit
      BY <2>8
    <3> QED BY <2>0, <2>3, <2>4, <3>1, <3>2 DEF WindowKept
  <2>9. CASE WindowKept(a, end)!1 /\ now <= end
    <3>1. W \subseteq rateHits[a] /\ Cardinality(W) <= LargestLimit
      BY <2>9
    <3>2. a = b => W \subseteq hits
      <4> SUFFICES ASSUME a = b, NEW y \in W PROVE y \in hits
        OBVIOUS
      <4>1. y \in rateHits[b] /\ y \in RateHit /\ y[2] + Minute > end
        BY <1>1, <3>1 DEF LetThrough
      <4>2. y[2] + Minute > now
        BY <2>0, <2>9, <4>1, PolicyAssumption DEF RateHit
      <4> QED BY <4>1, <4>2 DEF hits, Pruned
    <3>3. LetThrough(a, end)' \subseteq rateHits'[a]
      BY <1>1, <1>4, <2>5, <3>1, <3>2
    <3>4. Cardinality(LetThrough(a, end)') <= LargestLimit
      <4>1. CASE LetThrough(a, end)' = W
        BY <3>1, <4>1
      <4>2. CASE Let /\ a = b /\ LetThrough(a, end)' = W \cup {x}
        <5>1. Cardinality(W) <= Cardinality(hits)
          BY <1>3, <3>2, <4>2, FS_Subset
        <5> QED BY <1>1, <1>3, <2>0, <2>6, <4>2, <5>1
      <4> QED BY <2>5, <4>1, <4>2
    <3> QED BY <3>3, <3>4 DEF WindowKept
  <2> QED BY <2>0, <2>7, <2>8, <2>9 DEF WindowKept
<1> QED BY <1>7, <1>8, <1>9, <1>10 DEF RateInv

LEMMA NextRateInv == RateInv /\ [PolicyNext]_policyVars => RateInv'
<1> SUFFICES ASSUME RateInv, [PolicyNext]_policyVars PROVE RateInv'
  OBVIOUS
<1>1. CASE UNCHANGED policyVars
  BY <1>1 DEF policyVars, RateInv, TypeInv, PolicyTypeOK, ActionsKnown, LimitsHeld, HitsAdmitted,
              WindowKept, LetThrough, Late, At
<1>2. CASE ChangePolicies \/ Tick
  BY <1>2, EnvironmentRate
<1>3. CASE \E h \in Evaluators, q \in Queries : ReadPolicies(h, q) \/ ReadPoliciesFails(h, q)
  BY <1>3, BeforeLimiterRate
<1>4. CASE \E h \in Evaluators : \/ CachePolicies(h) \/ CheckGrantsAndPolicies(h)
                                 \/ CheckBudget(h) \/ CheckRateLimit(h)
  BY <1>4, BeforeLimiterRate, LimiterRate
<1> QED BY <1>1, <1>2, <1>3, <1>4 DEF PolicyNext

\* Type correctness of the policy evaluator.
THEOREM PolicyTypeCorrect == PolicySpec => []PolicyTypeOK
<1>1. RateInv => PolicyTypeOK
  BY DEF RateInv, TypeInv
<1> QED BY <1>1, InitRateInv, NextRateInv, PTL DEF PolicySpec

\* In no minute are more requests let through than the largest limit and one for each handler
\* but one: what handlers can add whose time is older than that of another's pruning.
THEOREM RateWindowCorrect == PolicySpec => []RateWindowBounded
<1>1. ASSUME RateInv PROVE RateWindowBounded
  <2> SUFFICES ASSUME NEW a \in Actions, NEW end \in 0..clock
               PROVE  Cardinality(LetThrough(a, end)) <= LargestLimit + Cardinality(Evaluators) - 1
    BY DEF RateWindowBounded
  <2>1. /\ Cardinality(LetThrough(a, end)) \in Nat /\ Cardinality(Late(end)) \in Nat
        /\ Cardinality(Evaluators) \in Nat \ {0} /\ LargestLimit \in Nat
    BY <1>1, RateSetsFinite, LimitsBounded DEF RateInv
  <2>2. WindowKept(a, end)
    BY <1>1, LocalsOK DEF RateInv
  <2> QED BY <2>1, <2>2 DEF WindowKept
<1> QED BY <1>1, InitRateInv, NextRateInv, PTL DEF PolicySpec

====
