---------------------------- MODULE MemoryPlane ----------------------------
(***************************************************************************)
(* services/memory-plane: entries in one table, written and searched over  *)
(* REST and over the JetStream subjects memory.write and memory.search.    *)
(*                                                                         *)
(* The client library runs the write handler for one message at a time.    *)
(* Every statement of asyncpg outside a transaction commits on its own, so *)
(* an insert is one action and the two statements of a search are two.  A  *)
(* new ULID never meets an existing one.  The durable consumer has no      *)
(* limit on deliveries; MaxWriteDeliver bounds the model.                  *)
(***************************************************************************)
EXTENDS JetStream, FiniteSets

CONSTANTS
  Writes,           \* memory.write messages
  BadWrites,        \* those that WriteRequest or json.loads rejects
  NoWrite,
  SearchLimit,      \* SearchRequest.limit
  MaxWriteDeliver, MaxRestWrites, MaxPromotions, MaxMemoryFaults  \* bounds

RestWrite == "rest"

ASSUME MemoryAssumption ==
  /\ IsFiniteSet(Writes) /\ BadWrites \subseteq Writes /\ NoWrite \notin Writes
  /\ RestWrite \notin Writes \cup {NoWrite}
  /\ SearchLimit \in Nat \ {0}
  /\ {MaxWriteDeliver, MaxRestWrites, MaxPromotions, MaxMemoryFaults} \subseteq Nat

VARIABLES
  writes,       \* the consumer memory-plane-write
  writing,      \* the handler's message and what it awaits
  entries,      \* the rows of memory_entries
  search,       \* one search request
  memoryLog     \* inserts that failed, by message; bounded events; rows changed in a search

memoryVars == <<writes, writing, entries, search, memoryLog>>

Tiers == {"ephemeral", "short_term", "long_term"}
Entry == [id : Nat, from : Writes \cup {RestWrite}, tier : Tiers, expires : BOOLEAN]
NoSearch == [pc |-> "none", tier |-> "ephemeral", total |-> 0, found |-> {}]
NotWriting == [msg |-> NoWrite, pc |-> "none"]

MemoryInit ==
  /\ writes = [m \in Writes |-> Stored]
  /\ writing = NotWriting /\ entries = {} /\ search = NoSearch
  /\ memoryLog = [lost |-> [m \in Writes |-> 0], rest |-> 0, promoted |-> 0, faults |-> 0,
                  changed |-> 0]

Fault == memoryLog.faults < MaxMemoryFaults
RowsFrom(m) == {e \in entries : e.from = m}

\* Rows a search counts or reads: the tier stands for all of its filters.
Matching(tier) == {e \in entries : e.tier = tier}

-----------------------------------------------------------------------------
(* memory.write.                                                             *)

\* Mutant of DeliverWrite: the message is acknowledged when it arrives.
DeliverWriteMutant(m) ==
  /\ writing = NotWriting /\ Deliverable(writes, m, MaxWriteDeliver)
  /\ writes' = Acked(Delivered(writes, m), m)
  /\ writing' = [msg |-> m, pc |-> IF m \in BadWrites THEN "ack" ELSE "insert"]
  /\ UNCHANGED <<entries, search, memoryLog>>

\* A delivery starts the handler; a message it cannot decode goes to the ack.
DeliverWrite(m) ==
  /\ writing = NotWriting /\ Deliverable(writes, m, MaxWriteDeliver)
  /\ writes' = Delivered(writes, m)
  /\ writing' = [msg |-> m, pc |-> IF m \in BadWrites THEN "ack" ELSE "insert"]
  /\ UNCHANGED <<entries, search, memoryLog>>

\* The id stands for ULID and created_at; messages here carry the default tier.
NewEntry(from, tier) ==
  [id |-> Cardinality(entries), from |-> from, tier |-> tier, expires |-> FALSE]

\* One more row changed while a search is between its statements.
NoteChange(log) ==
  [log EXCEPT !.changed = IF search.pc = "select" THEN @ + 1 ELSE @]

InsertWrite ==
  /\ writing.pc = "insert"
  /\ entries' = entries \cup {NewEntry(writing.msg, "ephemeral")}
  /\ writing' = [writing EXCEPT !.pc = "ack"]
  /\ memoryLog' = NoteChange(memoryLog)
  /\ UNCHANGED <<writes, search>>

\* The exception is logged, and finally acknowledges.
InsertWriteFails ==
  /\ writing.pc = "insert" /\ Fault
  /\ writing' = [writing EXCEPT !.pc = "ack"]
  /\ memoryLog' = [memoryLog EXCEPT !.faults = @ + 1, !.lost[writing.msg] = @ + 1]
  /\ UNCHANGED <<writes, entries, search>>

AckWrite ==
  /\ writing.pc = "ack"
  /\ writes' = Acked(writes, writing.msg) /\ writing' = NotWriting
  /\ UNCHANGED <<entries, search, memoryLog>>

\* The ack-wait of a delivery runs out, under the handler or after its acknowledgement
\* got lost.
ExpireWrite(m) ==
  /\ writes[m].st = "pending" /\ Fault
  /\ writes' = Returned(writes, m)
  /\ writing' \in {writing} \cup (IF writing = [msg |-> m, pc |-> "ack"] THEN {NotWriting} ELSE {})
  /\ memoryLog' = [memoryLog EXCEPT !.faults = @ + 1]
  /\ UNCHANGED <<entries, search>>

\* The process dies: what it held in memory is gone, rows and stream remain.
CrashMemory ==
  /\ Fault /\ writing' = NotWriting /\ search' = NoSearch
  /\ writes' = [m \in Writes |-> Returned(writes, m)[m]]
  /\ memoryLog' = [memoryLog EXCEPT !.faults = @ + 1, !.changed = 0]
  /\ UNCHANGED entries

-----------------------------------------------------------------------------
(* REST.                                                                     *)

WriteMemory(tier) ==
  /\ memoryLog.rest < MaxRestWrites
  /\ entries' = entries \cup {NewEntry(RestWrite, tier)}
  /\ memoryLog' = [NoteChange(memoryLog) EXCEPT !.rest = @ + 1]
  /\ UNCHANGED <<writes, writing, search>>

\* promote takes any entry to either tier, also long_term back to short_term.
PromoteMemory(e, target) ==
  /\ memoryLog.promoted < MaxPromotions /\ target \in {"short_term", "long_term"}
  /\ entries' = (entries \ {e}) \cup {[e EXCEPT !.tier = target, !.expires = FALSE]}
  /\ memoryLog' = [NoteChange(memoryLog) EXCEPT !.promoted = @ + 1]
  /\ UNCHANGED <<writes, writing, search>>

\* No writer of the table sets expires_at: what is deleted is nothing.
DeleteExpired ==
  /\ entries' = {e \in entries : ~e.expires}
  /\ UNCHANGED <<writes, writing, search, memoryLog>>

\* search: the count, then the rows, newest first up to the limit.
CountMatching(tier) ==
  /\ search.pc # "select"
  /\ search' = [pc |-> "select", tier |-> tier, total |-> Cardinality(Matching(tier)),
                found |-> {}]
  /\ memoryLog' = [memoryLog EXCEPT !.changed = 0]
  /\ UNCHANGED <<writes, writing, entries>>

Newest(rows, n) ==
  {e \in rows : Cardinality({f \in rows : f.id > e.id}) < n}

SelectMatching ==
  /\ search.pc = "select"
  /\ search' = [search EXCEPT !.pc = "done",
                             !.found = Newest(Matching(search.tier), SearchLimit)]
  /\ UNCHANGED <<writes, writing, entries, memoryLog>>

MemoryNext ==
  \/ \E m \in Writes : DeliverWrite(m) \/ ExpireWrite(m)
  \/ InsertWrite \/ InsertWriteFails \/ AckWrite \/ CrashMemory
  \/ \E tier \in Tiers : WriteMemory(tier) \/ CountMatching(tier)
  \/ \E e \in entries, target \in Tiers : PromoteMemory(e, target)
  \/ DeleteExpired \/ SelectMatching

MemorySpec == MemoryInit /\ [][MemoryNext]_memoryVars

-----------------------------------------------------------------------------
MemoryTypeOK ==
  /\ writes \in [Writes -> Delivery]
  /\ writing \in [msg : Writes \cup {NoWrite}, pc : {"none", "insert", "ack"}]
  /\ entries \subseteq Entry
  /\ search \in [pc : {"none", "select", "done"}, tier : Tiers, total : Nat, found : SUBSET Entry]
  /\ memoryLog \in [lost : [Writes -> Nat], rest : 0..MaxRestWrites, promoted : 0..MaxPromotions,
                    faults : 0..MaxMemoryFaults, changed : Nat]

\* An acknowledged memory is in the table, or its insert failed, which nobody learns;
\* no message has more rows than deliveries.
WritesExplained ==
  \A m \in Writes :
    /\ writes[m].st = "acked" /\ m \notin BadWrites
         => RowsFrom(m) # {} \/ memoryLog.lost[m] > 0
    /\ Cardinality(RowsFrom(m)) + memoryLog.lost[m] <= writes[m].count

\* The total of a search and its entries come from two statements: they differ by no
\* more rows than changed in between.
SearchExplained ==
  search.pc = "done" =>
    LET n == Cardinality(search.found)
    IN  /\ n <= SearchLimit
        /\ n <= search.total + memoryLog.changed
        /\ n < SearchLimit => search.total <= n + memoryLog.changed

\* Nothing is lost, doubled or miscounted in the memory plane but by the inserts that
\* failed, the redeliveries and the rows changed under a search.
MemoryExplained == WritesExplained /\ SearchExplained

=============================================================================
