----------------------------- MODULE JetStream -----------------------------
(***************************************************************************)
(* One NATS JetStream consumer with explicit acknowledgement, as the       *)
(* services of this repository create it (AckExplicitPolicy, AckWait,      *)
(* MaxDeliver).  The server is external code: what is modelled here is the *)
(* at-least-once contract the handlers under services/ are written         *)
(* against.                                                                *)
(*                                                                         *)
(* A consumer is a function from messages to delivery records; the         *)
(* operators below return the consumer after one server-side transition.   *)
(* Durations are abstracted: an unacknowledged delivery may time out at    *)
(* any moment, also while its handler is still running.                    *)
(***************************************************************************)
EXTENDS Naturals

\* "stored"    never delivered yet
\* "pending"   delivered, the ack-wait timer is running
\* "redeliver" nak'd or timed out: waits for another delivery
DeliveryStates == {"stored", "pending", "redeliver", "acked", "termed"}

Delivery == [st : DeliveryStates, count : Nat]

Stored == [st |-> "stored", count |-> 0]

\* The publisher's message reaches the stream.
Published(c, m) ==
  [x \in DOMAIN c \cup {m} |-> IF x = m THEN Stored ELSE c[x]]

\* A message is handed out at most maxDeliver times.
Deliverable(c, m, maxDeliver) ==
  c[m].st \in {"stored", "redeliver"} /\ c[m].count < maxDeliver

Delivered(c, m) ==
  [c EXCEPT ![m] = [st |-> "pending", count |-> c[m].count + 1]]

\* Message m passes into state st.
Moved(c, m, st) == [c EXCEPT ![m] = [st |-> st, count |-> c[m].count]]

\* The acknowledgement of any delivery of the message settles it, also one
\* that comes after the ack-wait of that delivery has expired.
Acked(c, m) ==
  IF c[m].st \in {"pending", "redeliver"} THEN Moved(c, m, "acked") ELSE c

Termed(c, m) ==
  IF c[m].st \in {"pending", "redeliver"} THEN Moved(c, m, "termed") ELSE c

\* A nak, and an expired ack-wait, put a pending message up for redelivery.
Returned(c, m) ==
  IF c[m].st = "pending" THEN Moved(c, m, "redeliver") ELSE c

Settled(c, m) == c[m].st \in {"acked", "termed"}

=============================================================================
