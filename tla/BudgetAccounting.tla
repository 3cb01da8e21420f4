-------------------------- MODULE BudgetAccounting --------------------------
(***************************************************************************)
(* services/budget-accounting: one asyncio process that adds the cost of   *)
(* every router.metrics event to a budget.  A durable JetStream consumer   *)
(* feeds one loop; POST /v1/budgets/{id}/record adds to the same totals.   *)
(* Totals and transactions are in memory only, and no event is recognised  *)
(* when it comes a second time.                                            *)
(*                                                                         *)
(* record_spend never suspends, so decoding and recording are one action;  *)
(* the acknowledgement that follows is another.  The durable consumer has  *)
(* no limit on deliveries; MaxDeliver below bounds the model.              *)
(*                                                                         *)
(* The cost is what record_spend finds under cost_usd (main.py:218), 0.0   *)
(* when there is none.  The model-router writes its cost under `cost' and  *)
(* no budget_id (its models.py:177-190), so what it publishes costs 0 on   *)
(* budget-default; other costs stand for a publisher that sets both.       *)
(***************************************************************************)
EXTENDS JetStream, Sequences, FiniteSets

CONSTANTS
  Metrics,        \* router.metrics events
  Malformed,      \* those json.loads or record_spend raises on
  BudgetOf,       \* [Metrics -> budget ids]: budget_id, budget-default when absent
  CostOf,         \* [Metrics -> Nat]: cost_usd, 0 for an event without one (see above)
  Budgets,        \* BudgetService._budgets
  LimitOf,        \* [Budgets -> Nat]: daily_limit_usd, 0 for none
  MaxDeliver,     \* bound on the deliveries of an event
  MaxPosts,       \* bound on POST .../record, of cost 1
  MaxAckFaults,   \* bound on lost acks and expired ack-waits
  MaxBudgetCrashes, \* bound on restarts
  NoMetric

ASSUME BudgetAssumption ==
  /\ IsFiniteSet(Metrics) /\ Malformed \subseteq Metrics /\ NoMetric \notin Metrics
  /\ CostOf \in [Metrics -> Nat] /\ LimitOf \in [Budgets -> Nat]
  /\ MaxDeliver \in Nat /\ MaxPosts \in Nat /\ MaxAckFaults \in Nat
  /\ MaxBudgetCrashes \in Nat

VARIABLES
  metrics,      \* the JetStream consumer "budget-accounting"
  inbox,        \* sub.messages: events handed to the client, not yet taken
  handling,     \* the event of the loop's current turn
  spend,        \* spend_today_usd = spend_month_usd, by budget
  recorded,     \* how often an event is in _transactions
  posted,       \* transactions of the REST endpoint, by budget
  consuming,    \* the consume_metrics task has not died
  wiped,        \* events recorded before a restart emptied the memory
  budgetFaults  \* posts, ack faults and restarts so far

budgetVars == <<metrics, inbox, handling, spend, recorded, posted, consuming, wiped,
                budgetFaults>>

NoSpend == [b \in Budgets |-> 0]
NoRecords == [m \in Metrics |-> 0]

BudgetInit ==
  /\ metrics = <<>>
  /\ inbox = <<>> /\ handling = NoMetric
  /\ spend = NoSpend /\ recorded = NoRecords /\ posted = NoSpend
  /\ consuming = TRUE /\ wiped = {}
  /\ budgetFaults = [post |-> 0, ack |-> 0, crash |-> 0]

-----------------------------------------------------------------------------
(* check_budget: the answer of GET /v1/budgets/{id}/check, for thresholds of *)
(* 0.8 and 1.0.  The monthly limit is twenty times the daily one and the     *)
(* totals are never reset, so the day's total decides.                       *)

BudgetStatus(b) ==
  IF b \notin Budgets THEN "not_found"
  ELSE IF LimitOf[b] = 0 \/ 10 * spend[b] < 8 * LimitOf[b] THEN "ok"
  ELSE IF spend[b] < LimitOf[b] THEN "soft_limit" ELSE "hard_limit"

-----------------------------------------------------------------------------
(* JetStream and the subscription.                                           *)

PublishMetric(m) ==
  /\ m \notin DOMAIN metrics /\ metrics' = Published(metrics, m)
  /\ UNCHANGED <<inbox, handling, spend, recorded, posted, consuming, wiped, budgetFaults>>

PushMetric(m) ==
  /\ m \in DOMAIN metrics /\ Deliverable(metrics, m, MaxDeliver)
  /\ metrics' = Delivered(metrics, m) /\ inbox' = Append(inbox, m)
  /\ UNCHANGED <<handling, spend, recorded, posted, consuming, wiped, budgetFaults>>

\* The ack-wait runs from the delivery, also while the event waits in the inbox.
ExpireMetric(m) ==
  /\ m \in DOMAIN metrics /\ metrics[m].st = "pending"
  /\ budgetFaults.ack < MaxAckFaults
  /\ budgetFaults' = [budgetFaults EXCEPT !.ack = @ + 1]
  /\ metrics' = Returned(metrics, m)
  /\ UNCHANGED <<inbox, handling, spend, recorded, posted, consuming, wiped>>

-----------------------------------------------------------------------------
(* The loop.                                                                 *)

Add(b, cost) == IF b \in Budgets THEN [spend EXCEPT ![b] = @ + cost] ELSE spend

\* record_spend: an unknown budget gets a transaction and no total.
RecordSpend(m) ==
  /\ spend' = Add(BudgetOf[m], CostOf[m])
  /\ recorded' = [recorded EXCEPT ![m] = @ + 1]

\* The next event is decoded and recorded; the loop then awaits ack or, for an
\* event that raised, nak.
ConsumeMetric ==
  /\ consuming /\ handling = NoMetric /\ inbox # <<>>
  /\ handling' = Head(inbox) /\ inbox' = Tail(inbox)
  /\ IF Head(inbox) \in Malformed THEN UNCHANGED <<spend, recorded>>
                                  ELSE RecordSpend(Head(inbox))
  /\ UNCHANGED <<metrics, posted, consuming, wiped, budgetFaults>>

AckMetric ==
  /\ handling \in Metrics \ Malformed
  /\ metrics' = Acked(metrics, handling) /\ handling' = NoMetric
  /\ UNCHANGED <<inbox, spend, recorded, posted, consuming, wiped, budgetFaults>>

\* ack raises after the event was recorded: the handler of the exception naks it.
AckMetricFails ==
  /\ handling \in Metrics \ Malformed /\ budgetFaults.ack < MaxAckFaults
  /\ budgetFaults' = [budgetFaults EXCEPT !.ack = @ + 1]
  /\ metrics' = Returned(metrics, handling) /\ handling' = NoMetric
  /\ UNCHANGED <<inbox, spend, recorded, posted, consuming, wiped>>

\* Mutant of NakMetric: the event is acknowledged whatever happened.
NakMetricMutant ==
  /\ handling \in Malformed
  /\ metrics' = Acked(metrics, handling) /\ handling' = NoMetric
  /\ UNCHANGED <<inbox, spend, recorded, posted, consuming, wiped, budgetFaults>>

NakMetric ==
  /\ handling \in Malformed
  /\ metrics' = Returned(metrics, handling) /\ handling' = NoMetric
  /\ UNCHANGED <<inbox, spend, recorded, posted, consuming, wiped, budgetFaults>>

\* nak raises inside the handler of the exception: the task ends and nobody
\* notices, readyz still answers ok.
NakMetricFails ==
  /\ handling \in Metrics /\ budgetFaults.ack < MaxAckFaults
  /\ budgetFaults' = [budgetFaults EXCEPT !.ack = @ + 1]
  /\ consuming' = FALSE /\ handling' = NoMetric
  /\ UNCHANGED <<metrics, inbox, spend, recorded, posted, wiped>>

\* POST /v1/budgets/{id}/record of a known budget; others answer an error.
RecordTransaction(b) ==
  /\ budgetFaults.post < MaxPosts
  /\ budgetFaults' = [budgetFaults EXCEPT !.post = @ + 1]
  /\ spend' = Add(b, 1) /\ posted' = [posted EXCEPT ![b] = @ + 1]
  /\ UNCHANGED <<metrics, inbox, handling, recorded, consuming, wiped>>

\* What a restart leaves of the memory.
EmptyMemory ==
  /\ inbox' = <<>> /\ handling' = NoMetric /\ consuming' = TRUE
  /\ spend' = NoSpend /\ recorded' = NoRecords /\ posted' = NoSpend
  /\ wiped' = wiped \cup {m \in Metrics : recorded[m] > 0}

\* Mutant of RestartBudget: without a durable name the new consumer starts empty.
RestartBudgetMutant ==
  /\ budgetFaults.crash < MaxBudgetCrashes
  /\ budgetFaults' = [budgetFaults EXCEPT !.crash = @ + 1]
  /\ EmptyMemory
  /\ metrics' = [m \in DOMAIN metrics |-> [metrics[m] EXCEPT !.st = "termed"]]

\* A restart: the memory is empty again, the durable consumer stays.
RestartBudget ==
  /\ budgetFaults.crash < MaxBudgetCrashes
  /\ budgetFaults' = [budgetFaults EXCEPT !.crash = @ + 1]
  /\ EmptyMemory
  /\ metrics' = [m \in DOMAIN metrics |->
       IF metrics[m].st = "pending" THEN [metrics[m] EXCEPT !.st = "redeliver"] ELSE metrics[m]]

BudgetNext ==
  \/ \E m \in Metrics : PublishMetric(m) \/ PushMetric(m) \/ ExpireMetric(m)
  \/ ConsumeMetric \/ AckMetric \/ AckMetricFails \/ NakMetric \/ NakMetricFails
  \/ \E b \in Budgets : RecordTransaction(b)
  \/ RestartBudget

BudgetSpec == BudgetInit /\ [][BudgetNext]_budgetVars

-----------------------------------------------------------------------------
(* Properties.                                                               *)

BudgetTypeOK ==
  /\ DOMAIN metrics \subseteq Metrics /\ metrics \in [DOMAIN metrics -> Delivery]
  /\ inbox \in Seq(DOMAIN metrics) /\ handling \in DOMAIN metrics \cup {NoMetric}
  /\ spend \in [Budgets -> Nat] /\ posted \in [Budgets -> Nat]
  /\ recorded \in [Metrics -> Nat]
  /\ consuming \in BOOLEAN /\ wiped \subseteq Metrics
  /\ budgetFaults \in [post : 0..MaxPosts, ack : 0..MaxAckFaults, crash : 0..MaxBudgetCrashes]

\* Deliveries of event m that are still on their way to record_spend.
Waiting(m) == Cardinality({i \in DOMAIN inbox : inbox[i] = m})

\* An event is recorded at most once for each delivery, and one whose deliveries
\* are settled was recorded in this life of the process or in an earlier one
\* (main.py:34-42): counts are too high only by redeliveries, and too low only
\* by a restart.
RecordsExplained ==
  \A m \in DOMAIN metrics :
    /\ recorded[m] + Waiting(m) <= metrics[m].count
    /\ metrics[m].st = "acked" => recorded[m] > 0 \/ m \in wiped

\* The events for budget b that were published and can be decoded.
EventsFor(b) == {m \in DOMAIN metrics \ Malformed : BudgetOf[m] = b}

\* What the events of S cost: one unit after the other, so that they can be counted.
Units(S) == UNION {{m} \X (1..CostOf[m]) : m \in S}
Cost(S) == Cardinality(Units(S))

\* What budget b should have paid in this life of the process and for all the events.
Incurred(b) == posted[b] + Cost(EventsFor(b))

\* A budget reports its hard limit (main.py:157-187) before that much was spent
\* only if an event was delivered again.
EarlyLimitNeedsRedelivery ==
  \A b \in Budgets :
    BudgetStatus(b) = "hard_limit" /\ Incurred(b) < LimitOf[b]
      => \E m \in DOMAIN metrics : metrics[m].count > 1

\* Both of the above.
SpendExplained == RecordsExplained /\ EarlyLimitNeedsRedelivery

\* Every event that can be decoded is recorded, also behind malformed ones that
\* come again and again, unless the task has died of a failed nak.
MetricsRecorded ==
  \A m \in Metrics \ Malformed :
    m \in DOMAIN metrics ~> (recorded[m] > 0 \/ m \in wiped \/ ~consuming)

=============================================================================
