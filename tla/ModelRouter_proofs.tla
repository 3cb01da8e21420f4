------------------------- MODULE ModelRouter_proofs -------------------------
(***************************************************************************)
(* Proofs about ModelRouter, for any requests, models, endpoints, gates,   *)
(* preferences and bounds.                                                 *)
(***************************************************************************)
EXTENDS ModelRouter, FiniteSetTheorems, TLAPS

BreakerType == [state : {"closed", "open", "half_open"}, failures : Nat, cooled : BOOLEAN]

\* Closed exactly below the threshold.
Sound(b) == b.state = "closed" <=> b.failures < Threshold

\* A request that is calling, has been answered or is streamed holds a model.
HandlerInv ==
  \A q \in Requests :
    pc[q] \in {"calling", "answered", "opening", "relaying"} => model[q] \in Models

TInv == TypeOK /\ HandlerInv

-----------------------------------------------------------------------------
(* The breaker *)

\* What the breaker's operations make of a breaker is a sound breaker.
LEMMA BreakerOps ==
  /\ ClosedBreaker \in BreakerType /\ Sound(ClosedBreaker)
  /\ \A b \in BreakerType :
       /\ Probed(b) \in BreakerType /\ (Sound(b) => Sound(Probed(b)))
       /\ \A n \in Nat : Failed(b, n) \in BreakerType /\ (Sound(b) => Sound(Failed(b, n)))
       /\ b.state = "open" => LET c == Breaker("open", b.failures, TRUE)
                              IN  c \in BreakerType /\ (Sound(b) => Sound(c))
<1>1. Threshold \in Nat \ {0}
  BY ConstantsAssumption
<1>2. ClosedBreaker \in BreakerType /\ Sound(ClosedBreaker)
  BY <1>1 DEF ClosedBreaker, Breaker, BreakerType, Sound
<1>3. ASSUME NEW b \in BreakerType
      PROVE  Probed(b) \in BreakerType /\ (Sound(b) => Sound(Probed(b)))
  BY <1>3 DEF Probed, Breaker, BreakerType, Sound
<1>4. ASSUME NEW b \in BreakerType, NEW n \in Nat
      PROVE  Failed(b, n) \in BreakerType /\ (Sound(b) => Sound(Failed(b, n)))
  <2>1. CASE n = 0
    BY <2>1 DEF Failed
  <2>2. CASE n # 0 /\ b.failures + n >= Threshold
    BY <1>1, <2>2 DEF Failed, Breaker, BreakerType, Sound
  <2>3. CASE n # 0 /\ b.failures + n < Threshold
    BY <1>1, <2>3 DEF Failed, Breaker, BreakerType, Sound
  <2> QED BY <1>1, <2>1, <2>2, <2>3 DEF BreakerType
<1>5. ASSUME NEW b \in BreakerType, b.state = "open"
      PROVE  LET c == Breaker("open", b.failures, TRUE)
             IN  c \in BreakerType /\ (Sound(b) => Sound(c))
  BY <1>5 DEF Breaker, BreakerType, Sound
<1> QED BY <1>2, <1>3, <1>4, <1>5

\* Every step leaves each breaker a sound one.
LEMMA BreakerStep ==
  ASSUME TInv, [Next]_vars
  PROVE  /\ breaker' \in [Endpoints -> BreakerType]
         /\ BreakerConsistent => BreakerConsistent'
<1> DEFINE Good(f) == /\ f \in [Endpoints -> BreakerType]
                      /\ BreakerConsistent => \A e \in Endpoints : Sound(f[e])
<1>1. Good(breaker)
  BY DEF TInv, TypeOK, BreakerType, BreakerConsistent, Sound
<1>2. SUFFICES Good(breaker')
  BY DEF BreakerConsistent, Sound
<1>3. ASSUME NEW q \in Requests PROVE Good(Asked(q))
  BY <1>1, BreakerOps DEF Asked
<1>4. ASSUME NEW e \in Endpoints PROVE Good(RecordSuccess(e)) /\ Good(RecordFailure(e))
  BY <1>1, BreakerOps DEF RecordSuccess, RecordFailure
<1>5. ASSUME NEW q \in Requests, pc[q] \in {"calling", "answered"}
      PROVE  Endpoint[model[q]] \in Endpoints
  BY <1>5, ConstantsAssumption DEF TInv, HandlerInv
<1>6. ASSUME NEW q \in Requests, RouteStream(q) PROVE Good(breaker')
  <2>1. CASE breaker' = Asked(q)
    BY <1>3, <2>1
  <2>2. CASE breaker' = [e \in Endpoints |->
               Failed(Asked(q)[e], Cardinality({m \in Candidates(q) : Endpoint[m] = e}))]
    <3>1. \A e \in Endpoints : Cardinality({m \in Candidates(q) : Endpoint[m] = e}) \in Nat
      <4> SUFFICES ASSUME NEW e \in Endpoints
                   PROVE  Cardinality({m \in Candidates(q) : Endpoint[m] = e}) \in Nat
        OBVIOUS
      <4>1. {m \in Candidates(q) : Endpoint[m] = e} \subseteq Models
        BY DEF Candidates, Fitting, TInv, TypeOK
      <4> QED BY <4>1, FS_Subset, FS_CardinalityType, ConstantsAssumption
    <3> QED BY <1>3, <2>2, <3>1, BreakerOps
  <2> QED BY <1>6, <2>1, <2>2 DEF RouteStream
<1>7. ASSUME NEW e \in Endpoints, RecoveryTimeout(e) PROVE Good(breaker')
  BY <1>1, <1>7, BreakerOps DEF RecoveryTimeout
<1>8. CASE Restart
  BY <1>8, BreakerOps DEF Restart
<1>9. ASSUME NEW q \in Requests, Progress(q) PROVE Good(breaker')
  <2>1. CASE CallFails(q)
    BY <1>4, <1>5, <2>1 DEF CallFails
  <2>2. CASE HttpCallSucceeds(q)
    BY <1>4, <1>5, <2>2 DEF HttpCallSucceeds, Paid
  <2>3. CASE NatsCallSucceeds(q)
    BY <1>4, <1>5, <2>3 DEF NatsCallSucceeds, Paid
  <2>4. CASE NatsMetrics(q)
    BY <1>1, <2>4 DEF NatsMetrics
  <2>5. CASE OpenStream(q) \/ EndStream(q)
    BY <1>1, <2>5 DEF OpenStream, EndStream
  <2> QED BY <1>9, <2>1, <2>2, <2>3, <2>4, <2>5 DEF Progress
<1>10. ASSUME NEW q \in Requests, Route(q) PROVE Good(breaker')
  BY <1>3, <1>10 DEF Route
<1>11. ASSUME NEW m \in Models, Register(m) \/ Unregister(m) PROVE Good(breaker')
  BY <1>1, <1>11 DEF Register, Unregister
<1>12. CASE UNCHANGED vars
  BY <1>1, <1>12 DEF vars
<1> HIDE DEF Good
<1> QED BY <1>6, <1>7, <1>8, <1>9, <1>10, <1>11, <1>12 DEF Next

-----------------------------------------------------------------------------
(* Type correctness *)

\* What the variables of the requests must be.
RequestsOK ==
  /\ pc \in [Requests -> PCs]
  /\ chain \in [Requests -> SUBSET Models]
  /\ model \in [Requests -> Models \cup {None}]
  /\ sent \subseteq Requests \X Models /\ spent \subseteq Requests
  /\ completed \subseteq Requests /\ failed \subseteq Requests /\ metered \subseteq Requests

\* The loop over the candidates keeps the types.
LEMMA TryNextType ==
  ASSUME TInv, NEW q \in Requests, NEW S \in SUBSET Models, TryNext(q, S)
  PROVE  RequestsOK' /\ HandlerInv' /\ faults' \in Nat
<1>1. CASE S # {}
  <2>1. CallNext(q, S)
    BY <1>1 DEF TryNext
  <2>2. PICK m \in S : /\ model' = [model EXCEPT ![q] = m]
                       /\ chain' = [chain EXCEPT ![q] = S \ {m}]
                       /\ sent' = sent \cup {<<q, m>>}
    BY <2>1 DEF CallNext, Post
  <2>3. pc' = [pc EXCEPT ![q] = "calling"] /\ UNCHANGED <<spent, completed, failed, metered, faults>>
    BY <2>1 DEF CallNext, events
  <2> QED BY <2>2, <2>3 DEF TInv, TypeOK, HandlerInv, RequestsOK, PCs
<1>2. CASE S = {}
  <2>1. GiveUp(q)
    BY <1>2 DEF TryNext
  <2> QED BY <2>1 DEF TInv, TypeOK, HandlerInv, RequestsOK, PCs, GiveUp, Leave, PublishFailed, Fault
<1> QED BY <1>1, <1>2

\* A request only ever holds models.
LEMMA CandidatesType ==
  ASSUME TInv, NEW q \in Requests
  PROVE  Candidates(q) \in SUBSET Models
BY DEF Candidates, Fitting, TInv, TypeOK

\* Initially nothing is held.
LEMMA InitTInv == Init => TInv
<1> SUFFICES ASSUME Init PROVE TInv
  OBVIOUS
<1>1. breaker \in [Endpoints -> BreakerType]
  BY BreakerOps DEF Init
<1>2. registered \subseteq Models
  BY ConstantsAssumption DEF Init
<1> QED BY <1>1, <1>2 DEF Init, TInv, TypeOK, HandlerInv, BreakerType, PCs

\* The same after every step.
LEMMA NextTInv == TInv /\ [Next]_vars => TInv'
<1> SUFFICES ASSUME TInv, [Next]_vars PROVE TInv'
  OBVIOUS
<1> DEFINE Typed == /\ registered' \subseteq Models
                    /\ RequestsOK' /\ HandlerInv'
                    /\ removals' \in Nat /\ faults' \in Nat /\ hits' \in Nat
<1>1. breaker' \in [Endpoints -> BreakerType]
  BY BreakerStep
<1>2. SUFFICES Typed
  BY <1>1 DEF TInv, TypeOK, RequestsOK, BreakerType
<1>3. ASSUME NEW q \in Requests, Route(q) \/ CallFails(q) PROVE Typed
  <2>1. PICK S \in SUBSET Models : TryNext(q, S)
    BY <1>3, CandidatesType DEF Route, CallFails, TInv, TypeOK
  <2>2. UNCHANGED <<registered, removals, hits>>
    BY <1>3 DEF Route, CallFails
  <2> QED BY <2>1, <2>2, TryNextType DEF TInv, TypeOK
<1>4. ASSUME NEW q \in Requests, RouteStream(q) PROVE Typed
  <2>1. UNCHANGED <<registered, sent, spent, completed, failed, metered, removals, faults, hits>>
    BY <1>4 DEF RouteStream, events
  <2>2. \/ Leave(q, "done") /\ UNCHANGED model
        \/ Leave(q, "opening") /\ \E m \in Models : model' = [model EXCEPT ![q] = m]
    BY <1>4, CandidatesType DEF RouteStream
  <2> QED BY <2>1, <2>2 DEF TInv, TypeOK, HandlerInv, RequestsOK, Leave, PCs
<1>a. ASSUME NEW q \in Requests, OpenStream(q) PROVE Typed
  <2>1. model[q] \in Models
    BY <1>a DEF OpenStream, TInv, HandlerInv
  <2> QED BY <1>a, <2>1
          DEF OpenStream, Post, events, TInv, TypeOK, HandlerInv, RequestsOK, PCs
<1>b. ASSUME NEW q \in Requests, EndStream(q) PROVE Typed
  BY <1>b DEF EndStream, events, TInv, TypeOK, HandlerInv, RequestsOK, PCs
<1>5. ASSUME NEW q \in Requests, HttpCallSucceeds(q) PROVE Typed
  BY <1>5 DEF HttpCallSucceeds, Paid, HttpMetrics, Fault, Leave, TInv, TypeOK, HandlerInv, RequestsOK, PCs
<1>6. ASSUME NEW q \in Requests, NatsCallSucceeds(q) PROVE Typed
  BY <1>6 DEF NatsCallSucceeds, Paid, Fault, Leave, TInv, TypeOK, HandlerInv, RequestsOK, PCs
<1>7. ASSUME NEW q \in Requests, NatsMetrics(q) PROVE Typed
  BY <1>7 DEF NatsMetrics, PublishFailed, Fault, Leave, TInv, TypeOK, HandlerInv, RequestsOK, PCs
<1>8. ASSUME NEW m \in Models, Register(m) PROVE Typed
  BY <1>8 DEF Register, request, events, TInv, TypeOK, HandlerInv, RequestsOK
<1>9. ASSUME NEW m \in Models, Unregister(m) PROVE Typed
  <2>1. Cardinality(BusyWith(m)) \in Nat
    <3>1. BusyWith(m) \subseteq Requests
      BY DEF BusyWith
    <3> QED BY <3>1, FS_Subset, FS_CardinalityType, ConstantsAssumption
  <2> QED BY <1>9, <2>1 DEF Unregister, request, events, TInv, TypeOK, HandlerInv, RequestsOK
<1>10. ASSUME NEW e \in Endpoints, RecoveryTimeout(e) PROVE Typed
  BY <1>10 DEF RecoveryTimeout, request, events, TInv, TypeOK, HandlerInv, RequestsOK
<1>11. CASE Restart
  <2>1. registered' \subseteq Models
    BY <1>11, ConstantsAssumption DEF Restart
  <2> QED BY <1>11, <2>1 DEF Restart, Fault, events, TInv, TypeOK, HandlerInv, RequestsOK, PCs
<1>12. CASE UNCHANGED vars
  BY <1>12 DEF vars, request, events, TInv, TypeOK, HandlerInv, RequestsOK
<1> QED BY <1>3, <1>4, <1>a, <1>b, <1>5, <1>6, <1>7, <1>8, <1>9, <1>10, <1>11, <1>12
        DEF Next, Progress

\* Every variable keeps its type.
THEOREM TypeCorrect == Spec => []TypeOK
<1>1. TInv => TypeOK
  BY DEF TInv
<1> QED BY <1>1, InitTInv, NextTInv, PTL DEF Spec

\* The breaker's state and its count of failures always agree.
THEOREM BreakerCorrect == Spec => []BreakerConsistent
<1>1. Init => BreakerConsistent
  BY BreakerOps DEF Init, BreakerConsistent, Sound
<1>2. TInv /\ BreakerConsistent /\ [Next]_vars => BreakerConsistent'
  BY BreakerStep
<1> QED BY <1>1, <1>2, InitTInv, NextTInv, PTL DEF Spec

-----------------------------------------------------------------------------
(* Privacy: every model still ahead, in a chain or of a stream that has not  *)
(* been opened, has passed the filter.                                       *)

PInv ==
  /\ PrivacyKept
  /\ \A q \in Sensitive : chain[q] \subseteq LocalModels \cap Cleared
  /\ \A q \in Sensitive : pc[q] = "opening" => model[q] \in LocalModels \cap Cleared

\* A message goes to the head of the candidates only.
LEMMA TryNextPInv ==
  ASSUME TInv, PInv, NEW q \in Requests, NEW S, TryNext(q, S),
         q \in Sensitive => S \subseteq LocalModels \cap Cleared
  PROVE  PInv'
<1>a. ASSUME pc' = [pc EXCEPT ![q] = "calling"] \/ pc' = [pc EXCEPT ![q] = "done"],
             model' = model \/ \E m : model' = [model EXCEPT ![q] = m]
      PROVE  \A r \in Sensitive : pc'[r] = "opening" => model'[r] \in LocalModels \cap Cleared
  BY <1>a, ConstantsAssumption DEF PInv, TInv, TypeOK
<1>1. CASE S # {}
  <2>1. PICK m \in S : /\ chain' = [chain EXCEPT ![q] = S \ {m}] /\ sent' = sent \cup {<<q, m>>}
                       /\ model' = [model EXCEPT ![q] = m]
    BY <1>1 DEF TryNext, CallNext, Post
  <2>2. PrivacyKept'
    BY <2>1 DEF PInv, PrivacyKept
  <2>3. pc' = [pc EXCEPT ![q] = "calling"]
    BY <1>1 DEF TryNext, CallNext
  <2>4. \A r \in Sensitive : pc'[r] = "opening" => model'[r] \in LocalModels \cap Cleared
    BY <1>a, <2>1, <2>3
  <2> QED BY <2>1, <2>2, <2>4, ConstantsAssumption DEF PInv, TInv, TypeOK
<1>2. CASE S = {}
  <2>1. /\ pc' = [pc EXCEPT ![q] = "done"] /\ model' = model /\ sent' = sent
        /\ chain' = [chain EXCEPT ![q] = {}]
    BY <1>2 DEF TryNext, GiveUp, Leave
  <2>2. \A r \in Sensitive : pc'[r] = "opening" => model'[r] \in LocalModels \cap Cleared
    BY <1>a, <2>1
  <2> QED BY <2>1, <2>2, ConstantsAssumption DEF PInv, PrivacyKept, TInv, TypeOK
<1> QED BY <1>1, <1>2

\* Sensitive data reaches no model but a local, cleared one.
THEOREM PrivacyCorrect == Spec => []PrivacyKept
<1>1. Init => PInv
  BY ConstantsAssumption DEF Init, PInv, PrivacyKept
<1>2. TInv /\ PInv /\ [Next]_vars => PInv'
  <2> SUFFICES ASSUME TInv, PInv, [Next]_vars PROVE PInv'
    OBVIOUS
  <2>1. ASSUME NEW q \in Requests PROVE q \in Sensitive => Candidates(q) \subseteq LocalModels \cap Cleared
    BY DEF Candidates, Fitting, Suits
  <2>2. ASSUME NEW q \in Requests, Route(q) PROVE PInv'
    BY <2>1, <2>2, TryNextPInv DEF Route
  <2>3. ASSUME NEW q \in Requests, CallFails(q) PROVE PInv'
    BY <2>3, TryNextPInv DEF CallFails, PInv
  <2>4. ASSUME NEW q \in Requests, RouteStream(q) PROVE PInv'
    <3>1. sent' = sent /\ chain' = [chain EXCEPT ![q] = {}]
      BY <2>4 DEF RouteStream, Leave
    <3>2. \/ pc' = [pc EXCEPT ![q] = "done"] /\ model' = model
          \/ /\ pc' = [pc EXCEPT ![q] = "opening"]
             /\ \E m \in Candidates(q) : model' = [model EXCEPT ![q] = m]
      BY <2>4 DEF RouteStream, Leave
    <3>3. \A r \in Sensitive : pc'[r] = "opening" => model'[r] \in LocalModels \cap Cleared
      BY <2>1, <3>2, ConstantsAssumption DEF PInv, TInv, TypeOK
    <3> QED BY <3>1, <3>3, ConstantsAssumption DEF PInv, PrivacyKept, TInv, TypeOK
  <2>a. ASSUME NEW q \in Requests, OpenStream(q) PROVE PInv'
    <3>1. /\ sent' = sent \cup {<<q, model[q]>>} /\ chain' = chain /\ model' = model
          /\ pc[q] = "opening" /\ pc' = [pc EXCEPT ![q] = "relaying"]
      BY <2>a DEF OpenStream, Post
    <3>2. PrivacyKept'
      BY <3>1 DEF PInv, PrivacyKept
    <3> QED BY <3>1, <3>2, ConstantsAssumption DEF PInv, TInv, TypeOK
  <2>5. ASSUME sent' = sent, model' = model,
               chain' = chain \/ chain' = [q \in Requests |-> {}]
               \/ \E q \in Requests : chain' = [chain EXCEPT ![q] = {}],
               \A q \in Requests : pc'[q] = "opening" => pc[q] = "opening"
        PROVE  PInv'
    BY <2>5, ConstantsAssumption DEF PInv, PrivacyKept, TInv, TypeOK
  <2>6. CASE Restart
    <3>1. \A q \in Requests : pc'[q] = "opening" => pc[q] = "opening"
      BY <2>6 DEF Restart
    <3> QED BY <2>5, <2>6, <3>1 DEF Restart
  <2>7. ASSUME NEW q \in Requests,
               HttpCallSucceeds(q) \/ NatsCallSucceeds(q) \/ NatsMetrics(q) \/ EndStream(q)
        PROVE  PInv'
    <3>1. /\ sent' = sent /\ model' = model
          /\ chain' = chain \/ chain' = [chain EXCEPT ![q] = {}]
          /\ pc' = [pc EXCEPT ![q] = "done"] \/ pc' = [pc EXCEPT ![q] = "answered"]
      BY <2>7 DEF HttpCallSucceeds, NatsCallSucceeds, Paid, NatsMetrics, EndStream, Leave
    <3>2. \A r \in Requests : pc'[r] = "opening" => pc[r] = "opening"
      BY <3>1 DEF TInv, TypeOK
    <3> QED BY <2>5, <3>1, <3>2
  <2>8. ASSUME UNCHANGED request PROVE PInv'
    BY <2>5, <2>8 DEF request
  <2> QED BY <2>2, <2>3, <2>4, <2>a, <2>6, <2>7, <2>8
          DEF Next, Progress, Register, Unregister, RecoveryTimeout, vars
<1>3. PInv => PrivacyKept
  BY DEF PInv
<1> QED BY <1>1, <1>2, <1>3, InitTInv, NextTInv, PTL DEF Spec

-----------------------------------------------------------------------------
(* Accounting.  A removal threatens the requests that hold the model; a      *)
(* threatened request may end with two outcomes, or without metrics.  So it  *)
(* is the requests that have come to harm together with those under threat   *)
(* that removals and failures bound.                                         *)

InFlight(q) == pc[q] \in {"calling", "answered"}
Held(q) == {model[q]} \cup chain[q]
Threatened == {q \in Requests : InFlight(q) /\ ~(Held(q) \subseteq registered)}
NatsThreatened == {q \in Threatened : Kind[q] = "nats"}
Double == completed \cap failed

\* What has been published about a request fits the step its handler is at.
OrderInv ==
  /\ \A q \in Requests : pc[q] \in {"new", "calling", "opening", "relaying"} =>
                          q \notin completed \cup failed \cup spent
  /\ \A q \in Requests : pc[q] = "answered" => q \notin failed /\ Kind[q] = "nats"
  /\ \A q, r \in Requests :
       InFlight(q) /\ InFlight(r) /\ Kind[q] = "nats" /\ Kind[r] = "nats" => q = r

DoubleInv == Cardinality(Double) + Cardinality(NatsThreatened) <= removals + faults
MeterInv == Cardinality(Unmetered) + Cardinality(Threatened) <= hits + faults

\* How a set of requests may grow or shrink, in numbers.
LEMMA Counting ==
  ASSUME NEW A \in SUBSET Requests, NEW B \in SUBSET Requests
  PROVE  /\ Cardinality(A) \in Nat
         /\ B \subseteq A => Cardinality(B) <= Cardinality(A)
         /\ \A q : B \subseteq A \cup {q} => Cardinality(B) <= Cardinality(A) + 1
         /\ \A q \in A : B \subseteq A \ {q} => Cardinality(B) <= Cardinality(A) - 1
         /\ \A C \in SUBSET Requests :
              B \subseteq A \cup C => Cardinality(B) <= Cardinality(A) + Cardinality(C)
<1>1. \A S \in SUBSET Requests : IsFiniteSet(S) /\ Cardinality(S) \in Nat
  BY FS_Subset, FS_CardinalityType, ConstantsAssumption
<1>2. ASSUME NEW S \in SUBSET Requests, NEW T, T \subseteq S
      PROVE  Cardinality(T) <= Cardinality(S)
  BY <1>1, <1>2, FS_Subset
<1>3. ASSUME NEW q, B \subseteq A \cup {q} PROVE Cardinality(B) <= Cardinality(A) + 1
  <2>1. IsFiniteSet(A \cup {q}) /\ Cardinality(A \cup {q}) <= Cardinality(A) + 1
    <3>1. IsFiniteSet(A) /\ Cardinality(A) \in Nat
      BY <1>1
    <3>2. /\ IsFiniteSet(A \cup {q})
          /\ Cardinality(A \cup {q}) = IF q \in A THEN Cardinality(A) ELSE Cardinality(A) + 1
      BY <3>1, FS_AddElement
    <3> QED BY <3>1, <3>2
  <2>2. Cardinality(B) <= Cardinality(A \cup {q})
    BY <1>3, <2>1, FS_Subset
  <2>3. Cardinality(A \cup {q}) \in Nat /\ Cardinality(A) \in Nat /\ Cardinality(B) \in Nat
    BY <1>1, <2>1, FS_CardinalityType
  <2> QED BY <2>1, <2>2, <2>3
<1>4. ASSUME NEW q \in A, B \subseteq A \ {q} PROVE Cardinality(B) <= Cardinality(A) - 1
  <2>1. IsFiniteSet(A) /\ A \ {q} \in SUBSET Requests
    BY <1>1
  <2>2. Cardinality(A \ {q}) = Cardinality(A) - 1
    BY <2>1, FS_RemoveElement
  <2> QED BY <1>2, <1>4, <2>1, <2>2
<1>5. ASSUME NEW C \in SUBSET Requests, B \subseteq A \cup C
      PROVE  Cardinality(B) <= Cardinality(A) + Cardinality(C)
  <2>1. /\ IsFiniteSet(A) /\ IsFiniteSet(C) /\ A \cup C \in SUBSET Requests
        /\ A \cap C \in SUBSET Requests
    BY <1>1
  <2>2. Cardinality(A \cup C) = Cardinality(A) + Cardinality(C) - Cardinality(A \cap C)
    BY <2>1, FS_Union
  <2>3. Cardinality(B) <= Cardinality(A \cup C)
    BY <1>2, <1>5, <2>1
  <2>4. /\ Cardinality(A) \in Nat /\ Cardinality(C) \in Nat /\ Cardinality(A \cap C) \in Nat
        /\ Cardinality(B) \in Nat /\ Cardinality(A \cup C) \in Nat
    BY <1>1, <2>1
  <2> QED BY <2>2, <2>3, <2>4
<1> QED BY <1>1, <1>2, <1>3, <1>4, <1>5

\* The four sets are sets of requests, before a step and after it.
LEMMA RequestSets ==
  ASSUME TInv, TInv'
  PROVE  /\ Double \in SUBSET Requests /\ Double' \in SUBSET Requests
         /\ Threatened \in SUBSET Requests /\ Threatened' \in SUBSET Requests
         /\ NatsThreatened \in SUBSET Requests /\ NatsThreatened' \in SUBSET Requests
         /\ Unmetered \in SUBSET Requests /\ Unmetered' \in SUBSET Requests
BY DEF Double, Threatened, NatsThreatened, Unmetered, TInv, TypeOK

\* A step of q's handler threatens nobody: the handler holds no more than before,
\* or models that are registered.
LEMMA ThreatStep ==
  ASSUME TInv, NEW q \in Requests, NEW next \in PCs, NEW m \in Models \cup {None},
         NEW S \in SUBSET Models,
         registered' = registered,
         pc' = [pc EXCEPT ![q] = next], model' = [model EXCEPT ![q] = m],
         chain' = [chain EXCEPT ![q] = S],
         next \in {"calling", "answered"} =>
           \/ {m} \cup S \subseteq registered
           \/ InFlight(q) /\ {m} \cup S \subseteq Held(q)
  PROVE  /\ Threatened' \subseteq Threatened /\ NatsThreatened' \subseteq NatsThreatened
         /\ next = "done" => /\ Threatened' \subseteq Threatened \ {q}
                             /\ NatsThreatened' \subseteq NatsThreatened \ {q}
<1>1. /\ pc'[q] = next /\ model'[q] = m /\ chain'[q] = S
      /\ \A r \in Requests : r # q => /\ pc'[r] = pc[r]
                                      /\ model'[r] = model[r] /\ chain'[r] = chain[r]
  BY DEF TInv, TypeOK
<1>2. ASSUME NEW r \in Requests, r \in Threatened'
      PROVE  r \in Threatened /\ (next = "done" => r # q)
  <2>1. InFlight(r)' /\ ~(Held(r)' \subseteq registered)
    BY <1>2 DEF Threatened
  <2>2. CASE r = q
    BY <1>1, <2>1, <2>2 DEF Threatened, InFlight, Held
  <2>3. CASE r # q
    BY <1>1, <2>1, <2>3 DEF Threatened, InFlight, Held
  <2> QED BY <2>2, <2>3
<1>3. \A r \in Threatened' : r \in Requests
  BY DEF Threatened
<1> QED BY <1>2, <1>3 DEF NatsThreatened

\* The four ways in which a step keeps such a sum within its bound: nothing grows;
\* a failure pays for one request; a request under threat comes to harm; and the
\* requests newly under threat are paid for.
LEMMA Tally ==
  ASSUME NEW A \in SUBSET Requests, NEW B \in SUBSET Requests, NEW n \in Nat,
         NEW A2 \in SUBSET Requests, NEW B2 \in SUBSET Requests, NEW n2 \in Nat,
         Cardinality(A) + Cardinality(B) <= n,
         \/ A2 \subseteq A /\ B2 \subseteq B /\ n <= n2
         \/ \E q : A2 \subseteq A \cup {q} /\ B2 \subseteq B /\ n + 1 <= n2
         \/ \E q \in B : A2 \subseteq A \cup {q} /\ B2 \subseteq B \ {q} /\ n <= n2
         \/ \E C \in SUBSET Requests :
              A2 \subseteq A /\ B2 \subseteq B \cup C /\ n + Cardinality(C) <= n2
  PROVE  Cardinality(A2) + Cardinality(B2) <= n2
<1>1. \A S \in SUBSET Requests : Cardinality(S) \in Nat
  BY Counting
<1>2. CASE A2 \subseteq A /\ B2 \subseteq B /\ n <= n2
  <2>1. Cardinality(A2) <= Cardinality(A) /\ Cardinality(B2) <= Cardinality(B)
    BY <1>2, Counting
  <2> QED BY <1>1, <1>2, <2>1
<1>3. ASSUME NEW q, A2 \subseteq A \cup {q} /\ B2 \subseteq B /\ n + 1 <= n2
      PROVE  Cardinality(A2) + Cardinality(B2) <= n2
  <2>1. Cardinality(A2) <= Cardinality(A) + 1 /\ Cardinality(B2) <= Cardinality(B)
    BY <1>3, Counting
  <2> QED BY <1>1, <1>3, <2>1
<1>4. ASSUME NEW q \in B, A2 \subseteq A \cup {q} /\ B2 \subseteq B \ {q} /\ n <= n2
      PROVE  Cardinality(A2) + Cardinality(B2) <= n2
  <2>1. Cardinality(A2) <= Cardinality(A) + 1 /\ Cardinality(B2) <= Cardinality(B) - 1
    BY <1>4, Counting
  <2> QED BY <1>1, <1>4, <2>1
<1>5. ASSUME NEW C \in SUBSET Requests,
             A2 \subseteq A /\ B2 \subseteq B \cup C /\ n + Cardinality(C) <= n2
      PROVE  Cardinality(A2) + Cardinality(B2) <= n2
  <2>1. Cardinality(A2) <= Cardinality(A) /\ Cardinality(B2) <= Cardinality(B) + Cardinality(C)
    BY <1>5, Counting
  <2> QED BY <1>1, <1>5, <2>1
<1> QED BY <1>2, <1>3, <1>4, <1>5

\* A step of q's handler keeps the order, if q's new step fits what is published of
\* it and no two NATS requests come to be in flight.
LEMMA OrderMove ==
  ASSUME TInv, OrderInv, NEW q \in Requests, NEW next \in PCs \ {"new", "opening", "relaying"},
         pc' = [pc EXCEPT ![q] = next],
         completed' \subseteq completed \cup {q}, failed' \subseteq failed \cup {q},
         spent' \subseteq spent \cup {q},
         next = "calling" => q \notin completed' \cup failed' \cup spent',
         next = "answered" => q \notin failed' /\ Kind[q] = "nats",
         next \in {"calling", "answered"} /\ Kind[q] = "nats" => InFlight(q) \/ NatsIdle
  PROVE  OrderInv'
<1>1. pc'[q] = next /\ \A r \in Requests : r # q => pc'[r] = pc[r]
  BY DEF TInv, TypeOK
<1>2. ASSUME NEW r \in Requests, pc'[r] \in {"new", "calling", "opening", "relaying"}
      PROVE  r \notin completed' \cup failed' \cup spent'
  BY <1>1, <1>2 DEF OrderInv, PCs
<1>3. ASSUME NEW r \in Requests, pc'[r] = "answered"
      PROVE  r \notin failed' /\ Kind[r] = "nats"
  BY <1>1, <1>3 DEF OrderInv
<1>4. ASSUME NEW r \in Requests, NEW t \in Requests,
             InFlight(r)', InFlight(t)', Kind[r] = "nats", Kind[t] = "nats"
      PROVE  r = t
  BY <1>1, <1>4 DEF OrderInv, InFlight, NatsIdle
<1> QED BY <1>2, <1>3, <1>4 DEF OrderInv

\* Initially no request is in flight.
LEMMA InitCounts == Init => OrderInv /\ DoubleInv /\ MeterInv
<1> SUFFICES ASSUME Init PROVE OrderInv /\ DoubleInv /\ MeterInv
  OBVIOUS
<1>1. OrderInv
  BY DEF Init, OrderInv, InFlight
<1>2. Double = {} /\ Threatened = {} /\ NatsThreatened = {} /\ Unmetered = {}
  BY DEF Init, Double, Threatened, NatsThreatened, Unmetered, InFlight
<1> QED BY <1>1, <1>2, FS_EmptySet DEF Init, DoubleInv, MeterInv

\* The loop over the candidates in S, models that are registered or that the handler
\* of q already held.
LEMMA TryNextCounts ==
  ASSUME TInv, TInv', OrderInv, DoubleInv, MeterInv, NEW q \in Requests,
         NEW S \in SUBSET Models, TryNext(q, S),
         pc[q] \in {"new", "calling"},
         pc[q] = "new" /\ Kind[q] = "nats" => NatsIdle,
         S \subseteq registered \/ (InFlight(q) /\ S \subseteq Held(q)),
         UNCHANGED <<registered, removals, hits>>
  PROVE  OrderInv' /\ DoubleInv' /\ MeterInv'
<1>1. q \notin completed \cup failed \cup spent
  BY DEF OrderInv
<1>2. /\ registered' = registered /\ removals' = removals /\ hits' = hits
      /\ removals \in Nat /\ hits \in Nat /\ faults \in Nat
  BY DEF TInv, TypeOK
<1>3. CASE S # {}
  <2>1. CallNext(q, S)
    BY <1>3 DEF TryNext
  <2>2. PICK m \in S : model' = [model EXCEPT ![q] = m] /\ chain' = [chain EXCEPT ![q] = S \ {m}]
    BY <2>1 DEF CallNext
  <2>3. /\ pc' = [pc EXCEPT ![q] = "calling"]
        /\ completed' = completed /\ failed' = failed /\ metered' = metered
        /\ spent' = spent /\ faults' = faults
    BY <2>1 DEF CallNext, events
  <2>4. OrderInv'
    BY <1>1, <2>3, OrderMove DEF PCs, InFlight
  <2>5. Threatened' \subseteq Threatened /\ NatsThreatened' \subseteq NatsThreatened
    <3>1. \/ {m} \cup (S \ {m}) \subseteq registered
          \/ InFlight(q) /\ {m} \cup (S \ {m}) \subseteq Held(q)
      OBVIOUS
    <3>2. m \in Models \cup {None} /\ S \ {m} \in SUBSET Models /\ "calling" \in PCs
      BY DEF PCs
    <3> QED BY <1>2, <2>2, <2>3, <3>1, <3>2, ThreatStep
  <2>6. Double' = Double /\ Unmetered' \subseteq Unmetered
    BY <1>1, <2>3 DEF Double, Unmetered, TInv, TypeOK
  <2>7. DoubleInv'
    BY <1>2, <2>3, <2>5, <2>6, Tally, RequestSets DEF DoubleInv
  <2>8. MeterInv'
    BY <1>2, <2>3, <2>5, <2>6, Tally, RequestSets DEF MeterInv
  <2> QED BY <2>4, <2>7, <2>8
<1>4. CASE S = {}
  <2>1. GiveUp(q)
    BY <1>4 DEF TryNext
  <2>2. /\ pc' = [pc EXCEPT ![q] = "done"] /\ chain' = [chain EXCEPT ![q] = {}]
        /\ model' = model /\ completed' = completed /\ spent' = spent /\ metered' = metered
        /\ failed' \subseteq failed \cup {q} /\ faults' \in {faults, faults + 1}
    BY <2>1 DEF GiveUp, Leave, PublishFailed, Fault
  <2>3. OrderInv'
    BY <2>2, OrderMove DEF PCs
  <2>4. Threatened' \subseteq Threatened /\ NatsThreatened' \subseteq NatsThreatened
    <3>1. model' = [model EXCEPT ![q] = model[q]] /\ model[q] \in Models \cup {None}
      BY <2>2 DEF TInv, TypeOK
    <3>2. {} \in SUBSET Models /\ "done" \in PCs
      BY DEF PCs
    <3> QED BY <1>2, <2>2, <3>1, <3>2, ThreatStep
  <2>5. Double' \subseteq Double /\ Unmetered' \subseteq Unmetered
    BY <1>1, <2>2 DEF Double, Unmetered, TInv, TypeOK
  <2>6. DoubleInv'
    BY <1>2, <2>2, <2>4, <2>5, Tally, RequestSets DEF DoubleInv
  <2>7. MeterInv'
    BY <1>2, <2>2, <2>4, <2>5, Tally, RequestSets DEF MeterInv
  <2> QED BY <2>3, <2>6, <2>7
<1> QED BY <1>3, <1>4

\* The bounds of the two accounts are numbers, before a step and after it.
LEMMA CountersType == TInv => removals + faults \in Nat /\ hits + faults \in Nat
BY DEF TInv, TypeOK

\* The same after a step.
LEMMA CountersTypePrime == TInv' => removals' + faults' \in Nat /\ hits' + faults' \in Nat
<1>1. TInv' => removals' \in Nat /\ faults' \in Nat /\ hits' \in Nat
  BY DEF TInv, TypeOK
<1> QED BY <1>1

\* What a failure adds to them.
LEMMA Pay ==
  ASSUME NEW n \in Nat, NEW f \in Nat, NEW f2 \in Nat
  PROVE  /\ f <= f2 => n + f <= n + f2
         /\ f2 = f + 1 => n + f + 1 <= n + f2
OBVIOUS

\* Tally for the requests with two outcomes, in a step of one request.
LEMMA DoubleTally ==
  ASSUME TInv, TInv', DoubleInv, NEW q,
         \/ /\ Double' \subseteq Double /\ NatsThreatened' \subseteq NatsThreatened
            /\ removals + faults <= removals' + faults'
         \/ /\ Double' \subseteq Double \cup {q} /\ NatsThreatened' \subseteq NatsThreatened
            /\ removals + faults + 1 <= removals' + faults'
         \/ /\ q \in NatsThreatened
            /\ Double' \subseteq Double \cup {q} /\ NatsThreatened' \subseteq NatsThreatened \ {q}
            /\ removals + faults <= removals' + faults'
  PROVE  DoubleInv'
<1>1. removals + faults \in Nat /\ removals' + faults' \in Nat
  BY CountersType, CountersTypePrime
<1> QED BY <1>1, Tally, RequestSets DEF DoubleInv

\* Tally for the completions that are not metered.
LEMMA MeterTally ==
  ASSUME TInv, TInv', MeterInv, NEW q,
         \/ /\ Unmetered' \subseteq Unmetered /\ Threatened' \subseteq Threatened
            /\ hits + faults <= hits' + faults'
         \/ /\ Unmetered' \subseteq Unmetered \cup {q} /\ Threatened' \subseteq Threatened
            /\ hits + faults + 1 <= hits' + faults'
         \/ /\ q \in Threatened
            /\ Unmetered' \subseteq Unmetered \cup {q} /\ Threatened' \subseteq Threatened \ {q}
            /\ hits + faults <= hits' + faults'
  PROVE  MeterInv'
<1>1. hits + faults \in Nat /\ hits' + faults' \in Nat
  BY CountersType, CountersTypePrime
<1> QED BY <1>1, Tally, RequestSets DEF MeterInv

\* A handler that ends, or publishes that the request completed.
LEMMA AnswerCounts ==
  ASSUME TInv, TInv', OrderInv, DoubleInv, MeterInv, NEW q \in Requests,
         HttpCallSucceeds(q) \/ NatsCallSucceeds(q) \/ NatsMetrics(q)
  PROVE  OrderInv' /\ DoubleInv' /\ MeterInv'
<1>1. /\ registered' = registered /\ removals' = removals /\ hits' = hits /\ model' = model
      /\ removals \in Nat /\ hits \in Nat /\ faults \in Nat /\ faults' \in Nat
  BY DEF TInv, TypeOK, HttpCallSucceeds, NatsCallSucceeds, Paid, NatsMetrics
<1>a. /\ faults' = faults => /\ removals + faults <= removals' + faults'
                            /\ hits + faults <= hits' + faults'
      /\ faults' = faults + 1 => /\ removals + faults + 1 <= removals' + faults'
                                /\ hits + faults + 1 <= hits' + faults'
      /\ faults <= faults' => /\ removals + faults <= removals' + faults'
                             /\ hits + faults <= hits' + faults'
  <2>1. faults' = faults => faults <= faults'
    BY <1>1
  <2> QED BY <1>1, <2>1, Pay
<1>2. ASSUME NEW next \in {"answered", "done"}, Leave(q, next)
      PROVE  /\ Threatened' \subseteq Threatened /\ NatsThreatened' \subseteq NatsThreatened
             /\ next = "done" => /\ Threatened' \subseteq Threatened \ {q}
                                 /\ NatsThreatened' \subseteq NatsThreatened \ {q}
  <2>1. pc' = [pc EXCEPT ![q] = next] /\ chain' = [chain EXCEPT ![q] = {}]
    BY <1>2 DEF Leave
  <2>2. model' = [model EXCEPT ![q] = model[q]] /\ model[q] \in Models \cup {None}
    BY <1>1 DEF TInv, TypeOK
  <2>3. InFlight(q) /\ {model[q]} \cup {} \subseteq Held(q)
    BY DEF HttpCallSucceeds, NatsCallSucceeds, Paid, NatsMetrics, InFlight, Held
  <2>4. {} \in SUBSET Models /\ next \in PCs
    BY DEF PCs
  <2> QED BY <1>1, <2>1, <2>2, <2>3, <2>4, ThreatStep
<1>3. ASSUME model[q] \notin registered
      PROVE  q \in Threatened /\ (Kind[q] = "nats" => q \in NatsThreatened)
  BY <1>3 DEF HttpCallSucceeds, NatsCallSucceeds, Paid, NatsMetrics, InFlight, Held,
              Threatened, NatsThreatened
<1>4. CASE HttpCallSucceeds(q)
  <2>1. /\ pc[q] = "calling" /\ Leave(q, "done") /\ spent' = spent \cup {q}
        /\ completed' = completed /\ failed' = failed
        /\ \/ metered' = metered \cup {q} /\ faults' = faults
           \/ metered' = metered /\ faults' = faults + 1
           \/ model[q] \notin registered /\ metered' = metered /\ faults' = faults
    BY <1>4 DEF HttpCallSucceeds, Paid, HttpMetrics, Fault
  <2>2. OrderInv'
    BY <2>1, OrderMove DEF PCs, Leave
  <2>3. /\ Threatened' \subseteq Threatened \ {q} /\ Threatened' \subseteq Threatened
        /\ NatsThreatened' \subseteq NatsThreatened
    BY <1>2, <2>1
  <2>4. Double' = Double
    BY <2>1 DEF Double
  <2>5. /\ Unmetered' \subseteq Unmetered \cup {q}
        /\ metered' = metered \cup {q} => Unmetered' \subseteq Unmetered
    BY <2>1 DEF Unmetered, Leave, TInv, TypeOK
  <2>6. DoubleInv'
    <3>1. faults <= faults'
      BY <1>1, <2>1
    <3>2. removals + faults <= removals' + faults'
      BY <1>a, <3>1
    <3> QED BY <2>3, <2>4, <3>2, DoubleTally
  <2>7. MeterInv'
    <3>1. \/ /\ Unmetered' \subseteq Unmetered /\ Threatened' \subseteq Threatened
             /\ hits + faults <= hits' + faults'
          \/ /\ Unmetered' \subseteq Unmetered \cup {q} /\ Threatened' \subseteq Threatened
             /\ hits + faults + 1 <= hits' + faults'
          \/ /\ q \in Threatened
             /\ Unmetered' \subseteq Unmetered \cup {q} /\ Threatened' \subseteq Threatened \ {q}
             /\ hits + faults <= hits' + faults'
      BY <1>a, <1>3, <2>1, <2>3, <2>5
    <3> QED BY <3>1, MeterTally
  <2> QED BY <2>2, <2>6, <2>7
<1>5. CASE NatsCallSucceeds(q)
  <2>1. /\ pc[q] = "calling" /\ Kind[q] = "nats" /\ spent' = spent \cup {q}
        /\ metered' = metered
        /\ \/ /\ Leave(q, "answered") /\ completed' \subseteq completed \cup {q}
              /\ failed' = failed /\ faults' \in {faults, faults + 1}
           \/ /\ Leave(q, "done") /\ completed' = completed
              /\ failed' = failed \cup {q} /\ faults' = faults + 1
    BY <1>5 DEF NatsCallSucceeds, Paid, Fault
  <2>2. q \notin completed \cup failed
    BY <2>1 DEF OrderInv
  <2>3. OrderInv'
    <3>1. InFlight(q)
      BY <2>1 DEF InFlight
    <3>2. CASE Leave(q, "answered")
      <4>1. completed' \subseteq completed \cup {q} /\ failed' \subseteq failed \cup {q} /\ q \notin failed'
        BY <2>1, <2>2, <3>2 DEF Leave, TInv, TypeOK
      <4> QED BY <2>1, <3>1, <3>2, <4>1, OrderMove DEF PCs, Leave
    <3>3. CASE Leave(q, "done")
      <4>1. completed' \subseteq completed \cup {q} /\ failed' \subseteq failed \cup {q}
        BY <2>1
      <4> QED BY <2>1, <3>1, <3>3, <4>1, OrderMove DEF PCs, Leave
    <3> QED BY <2>1, <3>2, <3>3
  <2>4. Threatened' \subseteq Threatened /\ NatsThreatened' \subseteq NatsThreatened
    BY <1>2, <2>1
  <2>5. Double' \subseteq Double
    BY <2>1, <2>2 DEF Double
  <2>6. DoubleInv'
    <3>1. faults <= faults'
      BY <1>1, <2>1
    <3>2. removals + faults <= removals' + faults'
      BY <1>a, <3>1
    <3> QED BY <2>4, <2>5, <3>2, DoubleTally
  <2>7. \/ Unmetered' \subseteq Unmetered /\ faults <= faults'
        \/ Unmetered' \subseteq Unmetered \cup {q} /\ faults' = faults + 1
    BY <1>1, <2>1 DEF Unmetered, Leave, TInv, TypeOK
  <2>8. MeterInv'
    BY <1>a, <2>4, <2>7, MeterTally
  <2> QED BY <2>3, <2>6, <2>8
<1>6. CASE NatsMetrics(q)
  <2>1. /\ pc[q] = "answered" /\ Leave(q, "done") /\ completed' = completed /\ spent' = spent
        /\ \/ metered' = metered \cup {q} /\ failed' = failed /\ faults' = faults
           \/ /\ metered' \in {metered, metered \cup {q}} /\ faults' = faults + 1
              /\ failed' \subseteq failed \cup {q}
           \/ /\ model[q] \notin registered /\ metered' = metered /\ faults' = faults
              /\ failed' = failed \cup {q}
    BY <1>6 DEF NatsMetrics, PublishFailed, Fault
  <2>2. Kind[q] = "nats"
    BY <2>1 DEF OrderInv
  <2>3. OrderInv'
    BY <2>1, OrderMove DEF PCs, Leave
  <2>4. /\ Threatened' \subseteq Threatened \ {q} /\ NatsThreatened' \subseteq NatsThreatened \ {q}
        /\ Threatened' \subseteq Threatened /\ NatsThreatened' \subseteq NatsThreatened
    BY <1>2, <2>1
  <2>5. /\ Double' \subseteq Double \cup {q} /\ (failed' = failed => Double' = Double)
        /\ Unmetered' \subseteq Unmetered \cup {q}
        /\ metered' = metered \cup {q} => Unmetered' \subseteq Unmetered
    BY <2>1 DEF Double, Unmetered, Leave, TInv, TypeOK
  <2>6. \/ Double' \subseteq Double /\ faults' = faults
        \/ faults' = faults + 1
        \/ q \in NatsThreatened /\ faults' = faults
    BY <1>3, <2>1, <2>2, <2>5
  <2>7. DoubleInv'
    <3>1. \/ /\ Double' \subseteq Double /\ NatsThreatened' \subseteq NatsThreatened
             /\ removals + faults <= removals' + faults'
          \/ /\ Double' \subseteq Double \cup {q} /\ NatsThreatened' \subseteq NatsThreatened
             /\ removals + faults + 1 <= removals' + faults'
          \/ /\ q \in NatsThreatened
             /\ Double' \subseteq Double \cup {q}
             /\ NatsThreatened' \subseteq NatsThreatened \ {q}
             /\ removals + faults <= removals' + faults'
      BY <1>a, <2>4, <2>5, <2>6
    <3> QED BY <3>1, DoubleTally
  <2>8. \/ Unmetered' \subseteq Unmetered /\ faults' = faults
        \/ faults' = faults + 1
        \/ q \in Threatened /\ faults' = faults
    BY <1>3, <2>1, <2>5
  <2>9. MeterInv'
    <3>1. \/ /\ Unmetered' \subseteq Unmetered /\ Threatened' \subseteq Threatened
             /\ hits + faults <= hits' + faults'
          \/ /\ Unmetered' \subseteq Unmetered \cup {q} /\ Threatened' \subseteq Threatened
             /\ hits + faults + 1 <= hits' + faults'
          \/ /\ q \in Threatened
             /\ Unmetered' \subseteq Unmetered \cup {q} /\ Threatened' \subseteq Threatened \ {q}
             /\ hits + faults <= hits' + faults'
      BY <1>a, <2>4, <2>5, <2>8
    <3> QED BY <3>1, MeterTally
  <2> QED BY <2>3, <2>7, <2>9
<1> QED BY <1>4, <1>5, <1>6

\* A removal threatens the requests that hold the model, of which at most one came
\* by NATS.
LEMMA UnregisterCounts ==
  ASSUME TInv, TInv', OrderInv, DoubleInv, MeterInv, NEW m \in Models, Unregister(m)
  PROVE  OrderInv' /\ DoubleInv' /\ MeterInv'
<1>1. /\ registered' = registered \ {m} /\ removals' = removals + 1
      /\ hits' = hits + Cardinality(BusyWith(m)) /\ faults' = faults
      /\ pc' = pc /\ chain' = chain /\ model' = model /\ spent' = spent
      /\ completed' = completed /\ failed' = failed /\ metered' = metered
      /\ removals \in Nat /\ hits \in Nat /\ faults \in Nat /\ hits' \in Nat
  BY DEF Unregister, request, events, TInv, TypeOK
<1>2. OrderInv'
  BY <1>1 DEF OrderInv, InFlight
<1>3. Threatened' \subseteq Threatened \cup BusyWith(m)
  BY <1>1 DEF Threatened, InFlight, Held, BusyWith
<1>4. Double' = Double /\ Unmetered' = Unmetered
  BY <1>1 DEF Double, Unmetered
<1>5. DoubleInv'
  <2> DEFINE N == {q \in Requests : InFlight(q) /\ Kind[q] = "nats"}
  <2>1. NatsThreatened' \subseteq NatsThreatened \cup N
    BY <1>1 DEF NatsThreatened, Threatened, InFlight, Held
  <2>2. N \in SUBSET Requests /\ Cardinality(N) <= 1
    <3>1. CASE N = {}
      BY <3>1, FS_EmptySet
    <3>2. CASE N # {}
      <4>1. PICK q : q \in N
        BY <3>2
      <4>2. \A r \in N : r = q
        BY <4>1 DEF OrderInv
      <4>3. N = {q}
        BY <4>1, <4>2
      <4>4. Cardinality({q}) = 1
        BY FS_Singleton
      <4> QED BY <4>3, <4>4
    <3> QED BY <3>1, <3>2
  <2>3. Cardinality(N) \in Nat
    BY <2>2, Counting
  <2> HIDE DEF N
  <2>4. removals + faults + Cardinality(N) <= removals' + faults'
    BY <1>1, <2>2, <2>3
  <2>5. removals + faults \in Nat /\ removals' + faults' \in Nat
    BY <1>1
  <2> QED BY <1>4, <2>1, <2>2, <2>4, <2>5, Tally, RequestSets DEF DoubleInv
<1>6. MeterInv'
  <2>1. BusyWith(m) \in SUBSET Requests
    BY DEF BusyWith
  <2>2. Cardinality(BusyWith(m)) \in Nat
    BY <2>1, Counting
  <2>3. hits + faults + Cardinality(BusyWith(m)) <= hits' + faults'
    BY <1>1, <2>2
  <2>4. hits + faults \in Nat /\ hits' + faults' \in Nat
    BY <1>1
  <2> QED BY <1>3, <1>4, <2>1, <2>3, <2>4, Tally, RequestSets DEF MeterInv
<1> QED BY <1>2, <1>5, <1>6

\* A restart ends what is in flight: only an answered NATS request, of which there
\* is at most one, has been paid for and not metered.
LEMMA RestartCounts ==
  ASSUME TInv, TInv', OrderInv, DoubleInv, MeterInv, Restart
  PROVE  OrderInv' /\ DoubleInv' /\ MeterInv'
<1>1. /\ pc' = [q \in Requests |-> IF pc[q] \in {"new", "done"} THEN pc[q] ELSE "lost"]
      /\ removals' = removals /\ hits' = hits /\ faults' = faults + 1 /\ spent' = spent
      /\ completed' = completed /\ failed' = failed /\ metered' = metered
      /\ removals \in Nat /\ hits \in Nat /\ faults \in Nat
  BY DEF Restart, Fault, events, TInv, TypeOK
<1>2. OrderInv'
  BY <1>1 DEF OrderInv, InFlight
<1>3. Threatened' = {} /\ NatsThreatened' = {} /\ Double' = Double
  BY <1>1 DEF Threatened, NatsThreatened, Double, InFlight
<1>4. DoubleInv'
  BY <1>1, <1>3, Tally, RequestSets DEF DoubleInv
<1>5. \E q : Unmetered' \subseteq Unmetered \cup {q}
  <2>1. CASE \E q \in Requests : pc[q] = "answered"
    <3>1. PICK q \in Requests : pc[q] = "answered"
      BY <2>1
    <3>2. ASSUME NEW r \in Unmetered' PROVE r \in Unmetered \cup {q}
      <4>1. r \in Requests /\ r \in spent /\ r \notin metered /\ pc'[r] \in {"done", "lost"}
        BY <1>1, <3>2 DEF Unmetered, TInv, TypeOK
      <4>2. pc[r] \notin {"calling", "opening", "relaying"}
        BY <4>1 DEF OrderInv
      <4>3. CASE pc[r] = "answered"
        BY <3>1, <4>1, <4>3 DEF OrderInv, InFlight
      <4>4. CASE pc[r] # "answered"
        BY <1>1, <4>1, <4>2, <4>4 DEF Unmetered, TInv, TypeOK, PCs
      <4> QED BY <4>3, <4>4
    <3> QED BY <3>2
  <2>2. CASE ~ \E q \in Requests : pc[q] = "answered"
    <3>1. Unmetered' \subseteq Unmetered
      BY <1>1, <2>2 DEF Unmetered, OrderInv, TInv, TypeOK, PCs
    <3> QED BY <3>1
  <2> QED BY <2>1, <2>2
<1>6. MeterInv'
  <2>1. PICK q : Unmetered' \subseteq Unmetered \cup {q}
    BY <1>5
  <2>2. Threatened' \subseteq Threatened /\ hits + faults + 1 <= hits' + faults'
    BY <1>1, <1>3
  <2> QED BY <1>1, <2>1, <2>2, MeterTally
<1> QED BY <1>2, <1>4, <1>6

Account == OrderInv /\ DoubleInv /\ MeterInv

\* Every step keeps the account.
LEMMA NextCounts ==
  ASSUME TInv, TInv', Account, [Next]_vars
  PROVE  Account'
<1> USE DEF Account
<1>1. ASSUME NEW q \in Requests, Route(q) PROVE Account'
  <2>1. Candidates(q) \in SUBSET Models /\ Candidates(q) \subseteq registered
    BY CandidatesType DEF Candidates, Fitting
  <2> QED BY <1>1, <2>1, TryNextCounts DEF Route
<1>2. ASSUME NEW q \in Requests, CallFails(q) PROVE Account'
  <2>1. chain[q] \in SUBSET Models /\ InFlight(q) /\ chain[q] \subseteq Held(q)
    BY <1>2 DEF CallFails, InFlight, Held, TInv, TypeOK
  <2> QED BY <1>2, <2>1, TryNextCounts DEF CallFails
<1>3. ASSUME UNCHANGED <<spent, completed, failed, metered, removals, faults, hits>>,
             \/ UNCHANGED <<pc, chain, model>> /\ registered \subseteq registered'
             \/ \E q \in Requests : /\ pc[q] \in {"new", "opening", "relaying"}
                                    /\ \E next \in {"opening", "relaying", "done"} :
                                         pc' = [pc EXCEPT ![q] = next]
                                    /\ registered' = registered
                                    /\ \A r \in Requests \ {q} : /\ chain'[r] = chain[r]
                                                                 /\ model'[r] = model[r]
      PROVE  Account'
  <2>1. OrderInv'
    BY <1>3 DEF OrderInv, InFlight, TInv, TypeOK
  <2>2. Double' = Double /\ Unmetered' \subseteq Unmetered
    BY <1>3 DEF Double, Unmetered, OrderInv, TInv, TypeOK
  <2>3. Threatened' \subseteq Threatened
    BY <1>3 DEF Threatened, InFlight, Held, TInv, TypeOK
  <2>4. NatsThreatened' \subseteq NatsThreatened
    BY <2>3 DEF NatsThreatened
  <2>5. /\ removals' = removals /\ faults' = faults /\ hits' = hits
        /\ removals \in Nat /\ faults \in Nat /\ hits \in Nat
    BY <1>3 DEF TInv, TypeOK
  <2>6. DoubleInv'
    BY <2>2, <2>4, <2>5, Tally, RequestSets DEF DoubleInv
  <2>7. MeterInv'
    BY <2>2, <2>3, <2>5, Tally, RequestSets DEF MeterInv
  <2> QED BY <2>1, <2>6, <2>7
<1>4. ASSUME NEW q \in Requests, RouteStream(q) PROVE Account'
  <2>1. /\ UNCHANGED <<registered, spent, completed, failed, metered, removals, faults, hits>>
        /\ pc[q] = "new" /\ chain' = [chain EXCEPT ![q] = {}]
        /\ pc' = [pc EXCEPT ![q] = "done"] \/ pc' = [pc EXCEPT ![q] = "opening"]
        /\ model' = model \/ \E m \in Models : model' = [model EXCEPT ![q] = m]
    BY <1>4, CandidatesType DEF RouteStream, Leave, events
  <2>2. \A r \in Requests \ {q} : chain'[r] = chain[r] /\ model'[r] = model[r]
    BY <2>1 DEF TInv, TypeOK
  <2>3. \E next \in {"opening", "relaying", "done"} : pc' = [pc EXCEPT ![q] = next]
    BY <2>1
  <2>4. registered' = registered /\ pc[q] \in {"new", "opening", "relaying"}
    BY <2>1
  <2> QED BY <1>3, <2>1, <2>2, <2>3, <2>4
<1>a. ASSUME NEW q \in Requests, OpenStream(q) \/ EndStream(q) PROVE Account'
  <2>1. /\ UNCHANGED <<spent, completed, failed, metered, removals, faults, hits>>
        /\ registered' = registered /\ chain' = chain /\ model' = model
        /\ pc[q] \in {"new", "opening", "relaying"}
        /\ pc' = [pc EXCEPT ![q] = "done"] \/ pc' = [pc EXCEPT ![q] = "relaying"]
    BY <1>a DEF OpenStream, EndStream, events
  <2>2. \E next \in {"opening", "relaying", "done"} : pc' = [pc EXCEPT ![q] = next]
    BY <2>1
  <2> QED BY <1>3, <2>1, <2>2
<1>5. ASSUME NEW q \in Requests, HttpCallSucceeds(q) \/ NatsCallSucceeds(q) \/ NatsMetrics(q)
      PROVE  Account'
  BY <1>5, AnswerCounts
<1>6. ASSUME NEW m \in Models, Register(m) PROVE Account'
  BY <1>3, <1>6 DEF Register, request, events
<1>7. ASSUME NEW m \in Models, Unregister(m) PROVE Account'
  BY <1>7, UnregisterCounts
<1>8. ASSUME NEW e \in Endpoints, RecoveryTimeout(e) PROVE Account'
  BY <1>3, <1>8 DEF RecoveryTimeout, request, events
<1>9. CASE Restart
  BY <1>9, RestartCounts
<1>10. CASE UNCHANGED vars
  BY <1>3, <1>10 DEF vars, request, events
<1> HIDE DEF Account
<1> QED BY <1>1, <1>2, <1>4, <1>a, <1>5, <1>6, <1>7, <1>8, <1>9, <1>10 DEF Next, Progress

CInv == TInv /\ Account

\* The account holds in every reachable state.
LEMMA AccountKept == Spec => []CInv
<1>1. Init => CInv
  BY InitTInv, InitCounts DEF CInv, Account
<1>2. CInv /\ [Next]_vars => CInv'
  BY NextTInv, NextCounts DEF CInv
<1> QED BY <1>1, <1>2, PTL DEF Spec

\* Two outcomes cost a removal or a failure each.
THEOREM DoubleOutcomesCorrect == Spec => []DoubleOutcomesBounded
<1>1. CInv => DoubleOutcomesBounded
  <2> SUFFICES ASSUME CInv PROVE DoubleOutcomesBounded
    OBVIOUS
  <2>1. Double \in SUBSET Requests /\ NatsThreatened \in SUBSET Requests
    BY DEF CInv, TInv, TypeOK, Double, NatsThreatened, Threatened
  <2>2. Cardinality(Double) \in Nat /\ Cardinality(NatsThreatened) \in Nat
    BY <2>1, Counting
  <2>3. removals \in Nat /\ faults \in Nat
    BY DEF CInv, TInv, TypeOK
  <2>4. Cardinality(Double) <= removals + faults
    BY <2>2, <2>3 DEF CInv, Account, DoubleInv
  <2> QED BY <2>4 DEF DoubleOutcomesBounded, Double
<1> QED BY <1>1, AccountKept, PTL

\* A completion that is not metered costs a handler its model, or a failure.
THEOREM UnmeteredCorrect == Spec => []UnmeteredBounded
<1>1. CInv => UnmeteredBounded
  <2> SUFFICES ASSUME CInv PROVE UnmeteredBounded
    OBVIOUS
  <2>1. Unmetered \in SUBSET Requests /\ Threatened \in SUBSET Requests
    BY DEF CInv, TInv, TypeOK, Unmetered, Threatened
  <2>2. Cardinality(Unmetered) \in Nat /\ Cardinality(Threatened) \in Nat
    BY <2>1, Counting
  <2>3. hits \in Nat /\ faults \in Nat
    BY DEF CInv, TInv, TypeOK
  <2> QED BY <2>2, <2>3 DEF CInv, Account, MeterInv, UnmeteredBounded
<1> QED BY <1>1, AccountKept, PTL

=============================================================================
