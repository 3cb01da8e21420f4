----------------------------- MODULE IngressLog -----------------------------
(***************************************************************************)
(* What the session-scheduler promises about ingress: one append-only log  *)
(* per thread.  An event may be recorded more than once (delivery is at    *)
(* least once) but is settled only after it has been recorded; an entry of *)
(* a log starts at most one task.                                          *)
(***************************************************************************)
EXTENDS Naturals, Sequences

CONSTANTS Events, Malformed, Threads, ThreadOf

VARIABLES
  log,        \* the recorded events of each thread
  started,    \* the entries, <<thread, position>>, that have started a task
  settled     \* the events the transport will not deliver again

vars == <<log, started, settled>>

Init ==
  /\ log = [t \in Threads |-> <<>>]
  /\ started = {}
  /\ settled = {}

Record(e) ==
  /\ e \notin Malformed
  /\ log' = [log EXCEPT ![ThreadOf[e]] = Append(@, e)]
  /\ UNCHANGED <<started, settled>>

StartTask(t, n) ==
  /\ n \in DOMAIN log[t] /\ <<t, n>> \notin started
  /\ started' = started \cup {<<t, n>>}
  /\ UNCHANGED <<log, settled>>

Settle(e) ==
  /\ e \in Malformed \/ \E n \in DOMAIN log[ThreadOf[e]] : log[ThreadOf[e]][n] = e
  /\ settled' = settled \cup {e}
  /\ UNCHANGED <<log, started>>

\* The transport forgets what was settled and replays the stream.
Replay ==
  /\ settled' = {}
  /\ UNCHANGED <<log, started>>

Next ==
  \/ \E e \in Events : Record(e) \/ Settle(e)
  \/ \E t \in Threads : \E n \in DOMAIN log[t] : StartTask(t, n)
  \/ Replay

Spec == Init /\ [][Next]_vars

=============================================================================
