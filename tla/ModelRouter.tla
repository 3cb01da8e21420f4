---------------------------- MODULE ModelRouter ----------------------------
(***************************************************************************)
(* services/model-router: one process that answers routing requests, from  *)
(* NATS and over HTTP, by calling the candidate models one after another.  *)
(* The requests share the model registry and a circuit breaker for each    *)
(* provider endpoint, both in memory.                                      *)
(*                                                                         *)
(* The process is one asyncio event loop: an action is what runs between   *)
(* two suspensions.  The locks of registry and breaker are never contended *)
(* because nothing suspends while it holds one, so a whole candidate chain *)
(* is built in one action; provider calls and publishes do suspend.        *)
(***************************************************************************)
EXTENDS Naturals, FiniteSets

CONSTANTS
  Requests, Models, Endpoints,
  Kind,            \* [Requests -> Kinds]: how a request arrives
  Sensitive,       \* requests with one of the _SENSITIVE_TAGS
  Fits,            \* [Requests -> SUBSET Models]: large enough for hint and context
  Preferred,       \* [Requests -> Models \cup {None}]: preferred_model_id
  Endpoint,        \* [Models -> Endpoints]: the key of a model's breaker
  LocalModels,     \* locality LOCAL; the others are in the cloud
  Cleared,         \* privacy_class sensitive or restricted
  Rank,            \* [Models -> Nat]: order by size class, then cost
  AutoRegistered,  \* models registered from the environment at start
  Threshold,       \* circuit_breaker_failure_threshold
  MaxRemovals,     \* bound on calls of DELETE /v1/models/{id}
  MaxFaults,       \* bound on failed publishes and restarts
  None             \* no model

Kinds == {"nats", "http", "stream"}

ASSUME ConstantsAssumption ==
  /\ IsFiniteSet(Requests) /\ IsFiniteSet(Models)
  /\ Kind \in [Requests -> Kinds]
  /\ Sensitive \subseteq Requests
  /\ Fits \in [Requests -> SUBSET Models]
  /\ None \notin Models /\ Preferred \in [Requests -> Models \cup {None}]
  /\ Endpoint \in [Models -> Endpoints]
  /\ LocalModels \subseteq Models /\ Cleared \subseteq Models
  /\ Rank \in [Models -> Nat] /\ \A m, o \in Models : Rank[m] = Rank[o] => m = o
  /\ AutoRegistered \subseteq Models
  /\ Threshold \in Nat \ {0}
  /\ MaxRemovals \in Nat /\ MaxFaults \in Nat

VARIABLES
  registered,  \* ModelRegistry._models
  breaker,     \* CircuitBreaker._states, a closed one without failures by default
  pc,          \* where the handler of each request is
  chain,       \* its candidates that have not been tried
  model,       \* the model it calls, or that has answered
  sent,        \* <<q, m>>: messages of request q have gone to model m
  spent,       \* requests a model has answered in one piece, and charged for
  completed, failed, metered,  \* requests on router.completed, .failed, .metrics
  removals, faults,
  hits         \* handlers that held a model when it was unregistered

request == <<pc, chain, model, sent>>
events == <<completed, failed, metered>>
vars == <<registered, breaker, request, spent, events, removals, faults, hits>>

\* "opening": a stream was handed to the response, which has not read from it yet.
PCs == {"new", "calling", "answered", "opening", "relaying", "done", "lost"}

Fault == faults < MaxFaults /\ faults' = faults + 1

-----------------------------------------------------------------------------
(* The circuit breaker.  "cooled": recovery_timeout has passed since the     *)
(* last failure.                                                             *)

Breaker(st, n, c) == [state |-> st, failures |-> n, cooled |-> c]
ClosedBreaker == Breaker("closed", 0, FALSE)

\* is_available lets a call through, and moves a cooled breaker to half_open.
Available(b) == b.state # "open" \/ b.cooled

Probed(b) ==
  IF b.state = "open" /\ b.cooled THEN Breaker("half_open", b.failures, TRUE) ELSE b

\* Mutant of RecordSuccess: the failures are kept.
RecordSuccessMutant(e) == [breaker EXCEPT ![e] = Breaker("closed", @.failures, FALSE)]

RecordSuccess(e) == [breaker EXCEPT ![e] = ClosedBreaker]

\* record_failure, n times in a row.
Failed(b, n) ==
  IF n = 0 THEN b
  ELSE Breaker(IF b.failures + n >= Threshold THEN "open" ELSE b.state,
               b.failures + n, FALSE)

RecordFailure(e) == [breaker EXCEPT ![e] = Failed(@, 1)]

-----------------------------------------------------------------------------
(* The candidate chain *)

\* The privacy filter and the gates on capability and context length.
Suits(q, m) ==
  /\ q \in Sensitive => m \in LocalModels \cap Cleared
  /\ m \in Fits[q]

Fitting(q) == {m \in registered : Suits(q, m)}

\* Mutant of Candidates: the preferred model is put in front, set or not.
CandidatesUnsetMutant(q) ==
  {m \in Fitting(q) : Available(breaker[Endpoint[m]])} \cup {Preferred[q]}

\* Mutant of Candidates: the preferred model is looked up and put in front
\* without having passed the filter.
CandidatesMutant(q) ==
  {m \in Fitting(q) : Available(breaker[Endpoint[m]])} \cup ({Preferred[q]} \cap registered)

Candidates(q) == {m \in Fitting(q) : Available(breaker[Endpoint[m]])}

\* The breakers after the availability of every fitting model was asked for.
Asked(q) ==
  [e \in Endpoints |->
     IF \E m \in Fitting(q) : Endpoint[m] = e THEN Probed(breaker[e]) ELSE breaker[e]]

\* Local before cloud, then by size and cost.
Precedes(m, o) ==
  \/ m \in LocalModels /\ o \notin LocalModels
  \/ (m \in LocalModels <=> o \in LocalModels) /\ Rank[m] <= Rank[o]

\* m is the head of the chain made of the models in S.
IsFirst(q, m, S) ==
  /\ m \in S
  /\ m = Preferred[q] \/ (Preferred[q] \notin S /\ \A o \in S : Precedes(m, o))

-----------------------------------------------------------------------------
(* Handling a request *)

Leave(q, next) ==
  /\ pc' = [pc EXCEPT ![q] = next]
  /\ chain' = [chain EXCEPT ![q] = {}]

\* router.failed, and the reply; HTTP answers 503 or 502.
PublishFailed(q) ==
  \/ (failed' = failed \cup {q} /\ UNCHANGED faults)
  \/ (Fault /\ UNCHANGED failed)

GiveUp(q) ==
  /\ Leave(q, "done")
  /\ \/ Kind[q] = "nats" /\ PublishFailed(q)
     \/ Kind[q] # "nats" /\ UNCHANGED <<failed, faults>>
  /\ UNCHANGED <<model, sent, spent, completed, metered>>

\* The messages of q, its system prompt among them, are POSTed to m.
Post(q, m) == sent' = sent \cup {<<q, m>>}

CallNext(q, S) ==
  /\ \E m \in S :
       /\ IsFirst(q, m, S)
       /\ model' = [model EXCEPT ![q] = m]
       /\ chain' = [chain EXCEPT ![q] = S \ {m}]
       /\ Post(q, m)
  /\ pc' = [pc EXCEPT ![q] = "calling"]
  /\ UNCHANGED <<spent, events, faults>>

\* The loop over the candidates goes on with those in S.
TryNext(q, S) == IF S # {} THEN CallNext(q, S) ELSE GiveUp(q)

\* Mutant of NatsIdle: callbacks of the subscription run concurrently.
NatsIdleMutant == TRUE

\* The NATS subscription awaits its callback before it takes another message.
NatsIdle == \A q \in Requests : Kind[q] = "nats" => pc[q] \notin {"calling", "answered"}

Route(q) ==
  /\ pc[q] = "new" /\ Kind[q] # "stream"
  /\ Kind[q] = "nats" => NatsIdle
  /\ breaker' = Asked(q)
  /\ TryNext(q, Candidates(q))
  /\ UNCHANGED <<registered, removals, hits>>

\* route_stream never suspends.  It returns the first iterator it can create: nothing
\* is sent before that is read.  Creation fails only when extra_params clash with the
\* arguments of the call, and then for every candidate.
RouteStream(q) ==
  /\ pc[q] = "new" /\ Kind[q] = "stream"
  /\ \/ /\ \E m \in Candidates(q) :
             /\ IsFirst(q, m, Candidates(q))
             /\ model' = [model EXCEPT ![q] = m]
        /\ breaker' = Asked(q)
        /\ Leave(q, "opening")
     \/ /\ breaker' = [e \in Endpoints |->
             Failed(Asked(q)[e], Cardinality({m \in Candidates(q) : Endpoint[m] = e}))]
        /\ Leave(q, "done")
        /\ UNCHANGED model
  /\ UNCHANGED <<registered, sent, spent, events, removals, faults, hits>>

\* The response reads the iterator, which calls the model chosen before, whether or not
\* it is still registered and its breaker closed.
OpenStream(q) ==
  /\ pc[q] = "opening"
  /\ pc' = [pc EXCEPT ![q] = "relaying"]
  /\ Post(q, model[q])
  /\ UNCHANGED <<registered, breaker, chain, model, spent, events, removals, faults, hits>>

\* The last chunk, an error of the provider in the middle of the body, or a consumer
\* that has gone: neither breaker nor budget hears of it, and no other model is tried.
EndStream(q) ==
  /\ pc[q] \in {"opening", "relaying"}
  /\ pc' = [pc EXCEPT ![q] = "done"]
  /\ UNCHANGED <<registered, breaker, chain, model, sent, spent, events, removals, faults, hits>>

\* A provider error or time-out: the next candidate is called at once.
CallFails(q) ==
  /\ pc[q] = "calling"
  /\ breaker' = RecordFailure(Endpoint[model[q]])
  /\ TryNext(q, chain[q])
  /\ UNCHANGED <<registered, removals, hits>>

\* router.metrics is published when the model is still registered.  A publish
\* error turns the response into a 500, but the model has been paid.
HttpMetrics(q) ==
  \/ model[q] \in registered /\ metered' = metered \cup {q} /\ UNCHANGED faults
  \/ model[q] \in registered /\ Fault /\ UNCHANGED metered
  \/ model[q] \notin registered /\ UNCHANGED <<metered, faults>>

\* The provider's answer has come, with the tokens that were used: the model is paid.
Paid(q) == spent' = spent \cup {q}

\* Mutant of HttpCallSucceeds: only the NATS path publishes metrics.
HttpCallSucceedsMutant(q) ==
  /\ pc[q] = "calling" /\ Kind[q] = "http"
  /\ breaker' = RecordSuccess(Endpoint[model[q]])
  /\ Paid(q)
  /\ Leave(q, "done")
  /\ UNCHANGED <<registered, model, sent, completed, failed, metered, removals, faults, hits>>

HttpCallSucceeds(q) ==
  /\ pc[q] = "calling" /\ Kind[q] = "http"
  /\ breaker' = RecordSuccess(Endpoint[model[q]])
  /\ Paid(q)
  /\ Leave(q, "done")
  /\ HttpMetrics(q)
  /\ UNCHANGED <<registered, model, sent, completed, failed, removals, hits>>

\* router.completed is published; or dropped, when NATS is not connected; or the
\* publish raises, and the request is reported failed with "internal error".
NatsCallSucceeds(q) ==
  /\ pc[q] = "calling" /\ Kind[q] = "nats"
  /\ breaker' = RecordSuccess(Endpoint[model[q]])
  /\ Paid(q)
  /\ \/ Leave(q, "answered") /\ completed' = completed \cup {q} /\ UNCHANGED <<failed, faults>>
     \/ Leave(q, "answered") /\ Fault /\ UNCHANGED <<completed, failed>>
     \/ Leave(q, "done") /\ Fault /\ failed' = failed \cup {q} /\ UNCHANGED completed
  /\ UNCHANGED <<registered, model, sent, metered, removals, hits>>

\* Mutant of NatsMetrics: the handler waits for a model that was removed.
NatsMetricsMutant(q) ==
  /\ pc[q] = "answered" /\ model[q] \in registered
  /\ Leave(q, "done")
  /\ metered' = metered \cup {q}
  /\ UNCHANGED <<registered, breaker, model, sent, spent, completed, failed, removals, faults, hits>>

\* After router.completed: the metrics and the reply.  The model is looked up
\* again; when it is gone build_metrics raises, and so may each publish, and then
\* the request is reported failed as well.
NatsMetrics(q) ==
  /\ pc[q] = "answered"
  /\ Leave(q, "done")
  /\ \/ /\ model[q] \in registered
        /\ metered' = metered \cup {q}
        /\ \/ UNCHANGED <<failed, faults>>
           \/ Fault /\ failed' = failed \cup {q}
     \/ /\ model[q] \in registered
        /\ Fault /\ failed' \in {failed, failed \cup {q}}
        /\ UNCHANGED metered
     \/ model[q] \notin registered /\ PublishFailed(q) /\ UNCHANGED metered
  /\ UNCHANGED <<registered, breaker, model, sent, spent, completed, removals, hits>>

-----------------------------------------------------------------------------
(* The registry, time and restarts *)

Register(m) ==
  /\ m \notin registered
  /\ registered' = registered \cup {m}
  /\ UNCHANGED <<breaker, request, spent, events, removals, faults, hits>>

\* The handlers that hold m: called by now, or still ahead in the chain.
BusyWith(m) ==
  {q \in Requests : pc[q] \in {"calling", "answered"} /\ m \in {model[q]} \cup chain[q]}

Unregister(m) ==
  /\ m \in registered /\ removals < MaxRemovals
  /\ registered' = registered \ {m}
  /\ removals' = removals + 1
  /\ hits' = hits + Cardinality(BusyWith(m))
  /\ UNCHANGED <<breaker, request, spent, events, faults>>

RecoveryTimeout(e) ==
  /\ breaker[e].state = "open" /\ ~breaker[e].cooled
  /\ breaker' = [breaker EXCEPT ![e] = Breaker("open", @.failures, TRUE)]
  /\ UNCHANGED <<registered, request, spent, events, removals, faults, hits>>

\* Everything in memory is gone; core NATS does not deliver a request again.
Restart ==
  /\ Fault
  /\ registered' = AutoRegistered
  /\ breaker' = [e \in Endpoints |-> ClosedBreaker]
  /\ pc' = [q \in Requests |-> IF pc[q] \in {"new", "done"} THEN pc[q] ELSE "lost"]
  /\ chain' = [q \in Requests |-> {}]
  /\ UNCHANGED <<model, sent, spent, events, removals, hits>>

-----------------------------------------------------------------------------
Progress(q) ==
  \/ CallFails(q) \/ HttpCallSucceeds(q) \/ NatsCallSucceeds(q) \/ NatsMetrics(q)
  \/ OpenStream(q) \/ EndStream(q)

Next ==
  \/ \E q \in Requests : Route(q) \/ RouteStream(q) \/ Progress(q)
  \/ \E m \in Models : Register(m) \/ Unregister(m)
  \/ \E e \in Endpoints : RecoveryTimeout(e)
  \/ Restart

Init ==
  /\ registered = AutoRegistered
  /\ breaker = [e \in Endpoints |-> ClosedBreaker]
  /\ pc = [q \in Requests |-> "new"]
  /\ chain = [q \in Requests |-> {}]
  /\ model = [q \in Requests |-> None]
  /\ sent = {} /\ spent = {}
  /\ completed = {} /\ failed = {} /\ metered = {}
  /\ removals = 0 /\ faults = 0 /\ hits = 0

Spec == Init /\ [][Next]_vars

\* A provider call answers or runs into its time-out of 120s, a publish returns
\* or raises, a stream ends, breaks off or stalls into the same time-out.  Nothing is
\* assumed of arrivals, the API and the breakers' clocks.
FairSpec == Spec /\ \A q \in Requests : WF_vars(Progress(q))

-----------------------------------------------------------------------------
(* Properties *)

\* Every variable stays within its type.
TypeOK ==
  /\ registered \subseteq Models
  /\ breaker \in [Endpoints -> [state : {"closed", "open", "half_open"},
                                failures : Nat, cooled : BOOLEAN]]
  /\ pc \in [Requests -> PCs]
  /\ chain \in [Requests -> SUBSET Models]
  /\ model \in [Requests -> Models \cup {None}]
  /\ sent \subseteq Requests \X Models /\ spent \subseteq Requests
  /\ completed \subseteq Requests /\ failed \subseteq Requests /\ metered \subseteq Requests
  /\ removals \in Nat /\ faults \in Nat /\ hits \in Nat

\* The breaker's state and its count agree, whatever the order in which calls that
\* began before and after it opened come back: it is closed exactly below the
\* threshold, and a half-open breaker reopens at the first failure.
BreakerConsistent ==
  \A e \in Endpoints : breaker[e].state = "closed" <=> breaker[e].failures < Threshold

\* "never send sensitive data to a cloud provider": along the whole fallback chain,
\* for a preferred model and for streams, and although models are registered and
\* removed while the chain is walked.
PrivacyKept ==
  \A q \in Sensitive, m \in Models : <<q, m>> \in sent => m \in LocalModels \cap Cleared

\* "publishes router.completed or router.failed".
OneOutcome == completed \cap failed = {}

\* A request has both outcomes only if a publish failed or its model was removed
\* under it, and a removal does that to one request at most: NATS requests are
\* handled one by one, and the next one no longer sees the model.
DoubleOutcomesBounded == Cardinality(completed \cap failed) <= removals + faults

\* The completions nobody will account for.
Unmetered == {q \in spent : pc[q] \in {"done", "lost"} /\ q \notin metered}

\* Budget accounting sees every completion but those whose model was removed
\* while the request was in progress, and one for each failure.
UnmeteredBounded == Cardinality(Unmetered) <= hits + faults

\* The fallback chain ends, and so does every stream: no request is served for ever.
EveryRequestEnds ==
  \A q \in Requests : pc[q] # "new" ~> pc[q] \in {"done", "lost"}

=============================================================================
