--------------------------- MODULE Platform_proofs ---------------------------
(***************************************************************************)
(* Proofs about the platform services, for every value of their constants: *)
(* memory plane, budget accounting, extension controller, operator and the *)
(* tool library, and their composition in MCPlatform.  The policy          *)
(* evaluator and the sandbox executor have proof modules of their own.     *)
(***************************************************************************)
EXTENDS MCPlatform, PolicyEvaluator_proofs, SandboxExecutor_proofs

-----------------------------------------------------------------------------
(* Memory plane.                                                             *)

\* Rows are numbered as they come, and none is ever given an expiry.
RowsNumbered ==
  /\ \A e \in entries : e.id < Cardinality(entries) /\ ~e.expires
  /\ \A e, f \in entries : e.id = f.id => e = f

\* What the handler is doing with message m when the invariant looks.
Inserting(m) == writing = [msg |-> m, pc |-> "insert"]
Acking(m) == writing = [msg |-> m, pc |-> "ack"]

\* Each delivery makes at most one row or one failed insert, before its acknowledgement.
DeliveriesSpent ==
  \A m \in Writes :
    /\ Acking(m) /\ m \notin BadWrites => RowsFrom(m) # {} \/ memoryLog.lost[m] > 0
    /\ Cardinality(RowsFrom(m)) + memoryLog.lost[m] + (IF Inserting(m) THEN 1 ELSE 0)
         <= writes[m].count

\* The total of a search under way differs from what is there by the changes since.
TotalFollowed ==
  search.pc = "select" =>
    /\ search.total <= Cardinality(Matching(search.tier)) + memoryLog.changed
    /\ Cardinality(Matching(search.tier)) <= search.total + memoryLog.changed

MemoryTypes ==
  /\ MemoryTypeOK /\ IsFiniteSet(entries)
  /\ writing.pc # "none" => writing.msg \in Writes

MemoryInv == MemoryTypes /\ RowsNumbered /\ DeliveriesSpent /\ TotalFollowed /\ MemoryExplained

\* Parts of the table are finite.
LEMMA RowsFinite ==
  ASSUME MemoryTypes
  PROVE  /\ Cardinality(entries) \in Nat
         /\ \A m : RowsFrom(m) \in SUBSET entries /\ IsFiniteSet(RowsFrom(m)) /\ Cardinality(RowsFrom(m)) \in Nat
         /\ \A t : Matching(t) \in SUBSET entries /\ IsFiniteSet(Matching(t)) /\ Cardinality(Matching(t)) \in Nat
<1>1. IsFiniteSet(entries)
  BY DEF MemoryTypes
<1>2. ASSUME NEW m PROVE RowsFrom(m) \in SUBSET entries
  BY DEF RowsFrom
<1>3. ASSUME NEW t PROVE Matching(t) \in SUBSET entries
  BY DEF Matching
<1> QED BY <1>1, <1>2, <1>3, FS_Subset, FS_CardinalityType

\* The newest n of a set of rows are n of them, or all.
LEMMA NewestSize ==
  ASSUME NEW M \in SUBSET Entry, IsFiniteSet(M), NEW n \in Nat \ {0},
         \A e, f \in M : e.id = f.id => e = f
  PROVE  LET k == Cardinality(Newest(M, n))
         IN  /\ k \in Nat /\ k <= n /\ k <= Cardinality(M)
             /\ k < n => k = Cardinality(M)
             /\ Newest(M, n) \in SUBSET M
<1> DEFINE N == Newest(M, n)
           Above(e) == {f \in M : f.id > e.id}
<1>1. N \in SUBSET M /\ IsFiniteSet(N) /\ Cardinality(N) \in Nat /\ Cardinality(N) <= Cardinality(M)
      /\ Cardinality(M) \in Nat
  <2>1. N \in SUBSET M
    BY DEF Newest
  <2> QED BY <2>1, FS_Subset, FS_CardinalityType
<1>2. ASSUME NEW e PROVE IsFiniteSet(Above(e)) /\ Cardinality(Above(e)) \in Nat
  <2>1. Above(e) \in SUBSET M
    OBVIOUS
  <2> QED BY <2>1, FS_Subset, FS_CardinalityType
<1>3. ASSUME NEW e \in M PROVE e \in N <=> Cardinality(Above(e)) < n
  BY DEF Newest
<1>4. \A e \in M : e.id \in Nat
  BY DEF Entry
<1> HIDE DEF N, Above
<1>5. Cardinality(N) <= n
  <2>1. CASE N = {}
    BY <2>1, FS_EmptySet
  <2>2. CASE N # {}
    <3> DEFINE ids == {e.id : e \in N}
    <3>1. ids \in SUBSET Nat /\ ids # {}
      BY <1>1, <1>4, <2>2
    <3>2. \E i \in ids : \A j \in ids : i <= j
      <4> HIDE DEF ids
      <4> QED BY <3>1, SmallestExists
    <3>3. PICK e \in N : \A f \in N : e.id <= f.id
      BY <3>2
    <3>4. N \ {e} \in SUBSET Above(e)
      BY <1>1, <1>4, <3>3 DEF Above
    <3>5. Cardinality(Above(e)) < n /\ IsFiniteSet(Above(e)) /\ Cardinality(Above(e)) \in Nat
      BY <1>1, <1>2, <1>3
    <3>6. Cardinality(N \ {e}) = Cardinality(N) - 1 /\ Cardinality(N \ {e}) <= Cardinality(Above(e))
      BY <1>1, <3>4, <3>5, FS_RemoveElement, FS_Subset
    <3> QED BY <1>1, <3>5, <3>6
  <2> QED BY <2>1, <2>2
<1>6. ASSUME Cardinality(N) < n PROVE N = M
  <2> SUFFICES ASSUME M \ N # {} PROVE FALSE
    BY <1>1
  <2> DEFINE ids == {e.id : e \in M \ N}
             key == [e \in M \ N |-> e.id]
  <2>1. ids \in SUBSET Nat /\ ids # {}
    BY <1>4
  <2>2. IsFiniteSet(ids)
    <3>1. IsFiniteSet(M \ N)
      <4>1. M \ N \in SUBSET M
        OBVIOUS
      <4> QED BY <4>1, FS_Subset
    <3>2. key \in [M \ N -> ids] /\ \A i \in ids : \E e \in M \ N : key[e] = i
      OBVIOUS
    <3>3. key \in Surjection(M \ N, ids)
      <4> HIDE DEF key, ids
      <4> QED BY <3>2, Fun_IsSurj
    <3> QED BY <3>1, <3>3, FS_Surjection
  <2>3. \E i \in ids : \A j \in ids : j <= i
    <3> HIDE DEF ids
    <3> QED BY <2>1, <2>2, LargestExists
  <2>4. PICK e \in M \ N : \A f \in M \ N : f.id <= e.id
    BY <2>3
  <2>5. Above(e) \in SUBSET N
    BY <1>4, <2>4 DEF Above
  <2>6. ~ (Cardinality(Above(e)) < n)
    BY <1>3, <2>4
  <2>7. Cardinality(Above(e)) <= Cardinality(N)
    BY <1>1, <2>5, FS_Subset
  <2> QED BY <1>1, <1>2, <1>6, <2>6, <2>7
<1> QED BY <1>1, <1>5, <1>6 DEF N

\* What one more row changes in the counts.
LEMMA RowAdded ==
  ASSUME MemoryInv, NEW from \in Writes \cup {RestWrite}, NEW tier \in Tiers,
         entries' = entries \cup {NewEntry(from, tier)}
  PROVE  /\ entries' \subseteq Entry /\ IsFiniteSet(entries') /\ RowsNumbered'
         /\ \A m : Cardinality(RowsFrom(m)') = Cardinality(RowsFrom(m)) + (IF m = from THEN 1 ELSE 0)
         /\ \A t : /\ Cardinality(Matching(t)) <= Cardinality(Matching(t)')
                  /\ Cardinality(Matching(t)') <= Cardinality(Matching(t)) + 1
                  /\ Cardinality(Matching(t)') \in Nat
<1> DEFINE x == NewEntry(from, tier)
<1>1. /\ entries \in SUBSET Entry /\ IsFiniteSet(entries) /\ Cardinality(entries) \in Nat
      /\ \A e \in entries : e.id < Cardinality(entries) /\ ~e.expires /\ e.id \in Nat
      /\ \A e, f \in entries : e.id = f.id => e = f
  BY RowsFinite DEF MemoryInv, MemoryTypes, MemoryTypeOK, RowsNumbered, Entry
<1>2. /\ x \in Entry /\ x.id = Cardinality(entries) /\ x.from = from /\ x.tier = tier /\ ~x.expires
  BY <1>1 DEF NewEntry, Entry
<1>3. x \notin entries
  <2> HIDE DEF x
  <2> QED BY <1>1, <1>2
<1>4. entries' = entries \cup {x}
  OBVIOUS
<1> HIDE DEF x
<1>5. IsFiniteSet(entries') /\ Cardinality(entries') = Cardinality(entries) + 1
  BY <1>1, <1>3, <1>4, FS_AddElement
<1>6. RowsNumbered'
  BY <1>1, <1>2, <1>4, <1>5 DEF RowsNumbered
<1>7. ASSUME NEW m
      PROVE  Cardinality(RowsFrom(m)') = Cardinality(RowsFrom(m)) + (IF m = from THEN 1 ELSE 0)
  <2>1. RowsFrom(m)' = IF m = from THEN RowsFrom(m) \cup {x} ELSE RowsFrom(m)
    BY <1>2, <1>4 DEF RowsFrom
  <2>2. x \notin RowsFrom(m) /\ IsFiniteSet(RowsFrom(m)) /\ Cardinality(RowsFrom(m)) \in Nat
    BY <1>3, RowsFinite DEF RowsFrom, MemoryInv
  <2> QED BY <2>1, <2>2, FS_AddElement
<1>8. ASSUME NEW t
      PROVE  /\ Cardinality(Matching(t)) <= Cardinality(Matching(t)')
             /\ Cardinality(Matching(t)') <= Cardinality(Matching(t)) + 1
             /\ Cardinality(Matching(t)') \in Nat
  <2>1. Matching(t)' = IF t = tier THEN Matching(t) \cup {x} ELSE Matching(t)
    BY <1>2, <1>4 DEF Matching
  <2>2. x \notin Matching(t) /\ IsFiniteSet(Matching(t)) /\ Cardinality(Matching(t)) \in Nat
    BY <1>3, RowsFinite DEF Matching, MemoryInv
  <2>3. Cardinality(Matching(t) \cup {x}) = Cardinality(Matching(t)) + 1
    BY <2>2, FS_AddElement
  <2> QED BY <2>1, <2>2, <2>3
<1> QED BY <1>1, <1>2, <1>4, <1>5, <1>6, <1>7, <1>8

\* What a row that is given another tier changes in the counts.
LEMMA RowChanged ==
  ASSUME MemoryInv, NEW e \in entries, NEW target \in Tiers,
         entries' = (entries \ {e}) \cup {[e EXCEPT !.tier = target, !.expires = FALSE]}
  PROVE  /\ entries' \subseteq Entry /\ IsFiniteSet(entries') /\ RowsNumbered'
         /\ \A m : Cardinality(RowsFrom(m)') = Cardinality(RowsFrom(m))
         /\ \A t : /\ Cardinality(Matching(t)) <= Cardinality(Matching(t)') + 1
                  /\ Cardinality(Matching(t)') <= Cardinality(Matching(t)) + 1
                  /\ Cardinality(Matching(t)') \in Nat
<1> DEFINE x == [e EXCEPT !.tier = target, !.expires = FALSE]
           rest == entries \ {e}
<1>1. /\ entries \in SUBSET Entry /\ IsFiniteSet(entries) /\ Cardinality(entries) \in Nat
      /\ \A f \in entries : f.id < Cardinality(entries) /\ ~f.expires /\ f.id \in Nat
      /\ \A f, g \in entries : f.id = g.id => f = g
  BY RowsFinite DEF MemoryInv, MemoryTypes, MemoryTypeOK, RowsNumbered, Entry
<1>2. /\ x \in Entry /\ x.id = e.id /\ x.from = e.from /\ x.tier = target /\ ~x.expires
  BY <1>1 DEF Entry
<1>3. entries' = rest \cup {x} /\ entries = rest \cup {e} /\ e \notin rest
  OBVIOUS
<1> HIDE DEF x
<1>4. x \notin rest
  BY <1>1, <1>2
<1>5. IsFiniteSet(rest) /\ Cardinality(rest) \in Nat
  <2>1. rest \in SUBSET entries
    OBVIOUS
  <2> QED BY <1>1, <2>1, FS_Subset, FS_CardinalityType
<1> HIDE DEF rest
<1>6. /\ IsFiniteSet(entries') /\ Cardinality(entries') = Cardinality(rest) + 1
      /\ Cardinality(entries) = Cardinality(rest) + 1
  BY <1>3, <1>4, <1>5, FS_AddElement
<1>7. RowsNumbered'
  BY <1>1, <1>2, <1>3, <1>6 DEF RowsNumbered
<1>8. ASSUME NEW m PROVE Cardinality(RowsFrom(m)') = Cardinality(RowsFrom(m))
  <2> DEFINE R == {f \in rest : f.from = m}
  <2>1. R \in SUBSET rest
    OBVIOUS
  <2>2. IsFiniteSet(R) /\ e \notin R /\ x \notin R /\ Cardinality(R) \in Nat
    BY <1>3, <1>4, <1>5, <2>1, FS_Subset, FS_CardinalityType
  <2>3. /\ RowsFrom(m) = IF e.from = m THEN R \cup {e} ELSE R
        /\ RowsFrom(m)' = IF e.from = m THEN R \cup {x} ELSE R
    BY <1>2, <1>3 DEF RowsFrom
  <2> HIDE DEF R
  <2>4. Cardinality(R \cup {e}) = Cardinality(R) + 1 /\ Cardinality(R \cup {x}) = Cardinality(R) + 1
    BY <2>2, FS_AddElement
  <2> QED BY <2>3, <2>4
<1>9. ASSUME NEW t
      PROVE  /\ Cardinality(Matching(t)) <= Cardinality(Matching(t)') + 1
             /\ Cardinality(Matching(t)') <= Cardinality(Matching(t)) + 1
             /\ Cardinality(Matching(t)') \in Nat
  <2> DEFINE R == {f \in rest : f.tier = t}
  <2>1. R \in SUBSET rest
    OBVIOUS
  <2>2. IsFiniteSet(R) /\ e \notin R /\ x \notin R /\ Cardinality(R) \in Nat
    BY <1>3, <1>4, <1>5, <2>1, FS_Subset, FS_CardinalityType
  <2>3. /\ Matching(t) = R \/ Matching(t) = R \cup {e}
        /\ Matching(t)' = R \/ Matching(t)' = R \cup {x}
    BY <1>2, <1>3 DEF Matching
  <2> HIDE DEF R
  <2>4. Cardinality(R \cup {e}) = Cardinality(R) + 1 /\ Cardinality(R \cup {x}) = Cardinality(R) + 1
    BY <2>2, FS_AddElement
  <2>5. Cardinality(Matching(t)) \in {Cardinality(R), Cardinality(R) + 1}
    BY <2>3, <2>4
  <2>6. Cardinality(Matching(t)') \in {Cardinality(R), Cardinality(R) + 1}
    BY <2>3, <2>4
  <2> QED BY <2>2, <2>5, <2>6
<1> QED BY <1>1, <1>2, <1>3, <1>6, <1>7, <1>8, <1>9

\* What the transitions of a consumer change in it.
LEMMA ConsumerSteps ==
  ASSUME NEW S, NEW c \in [S -> Delivery], NEW m \in S
  PROVE  /\ Delivered(c, m) \in [S -> Delivery] /\ Acked(c, m) \in [S -> Delivery]
         /\ Returned(c, m) \in [S -> Delivery]
         /\ Delivered(c, m)[m].count = c[m].count + 1 /\ Delivered(c, m)[m].st = "pending"
         /\ Acked(c, m)[m].count = c[m].count /\ Returned(c, m)[m].count = c[m].count
         /\ Acked(c, m)[m].st \in {c[m].st, "acked"}
         /\ Returned(c, m)[m].st = "acked" <=> c[m].st = "acked"
         /\ \A n \in S \ {m} : Delivered(c, m)[n] = c[n] /\ Acked(c, m)[n] = c[n] /\ Returned(c, m)[n] = c[n]
BY DEF Delivered, Acked, Returned, Moved, Delivery, DeliveryStates

LEMMA InitMemoryInv == MemoryInit => MemoryInv
<1> SUFFICES ASSUME MemoryInit PROVE MemoryInv
  OBVIOUS
<1>1. /\ writes = [m \in Writes |-> Stored] /\ writing = NotWriting /\ entries = {}
      /\ search = NoSearch
      /\ memoryLog = [lost |-> [m \in Writes |-> 0], rest |-> 0, promoted |-> 0, faults |-> 0,
                      changed |-> 0]
  BY DEF MemoryInit
<1>2. MemoryTypes
  BY <1>1, MemoryAssumption, FS_EmptySet
     DEF MemoryTypes, MemoryTypeOK, Delivery, DeliveryStates, Stored, NotWriting, NoSearch, Tiers
<1>3. RowsNumbered /\ TotalFollowed
  BY <1>1 DEF RowsNumbered, TotalFollowed, NoSearch
<1>4. DeliveriesSpent /\ WritesExplained
  <2>1. \A m : RowsFrom(m) = {} /\ Cardinality(RowsFrom(m)) = 0
    BY <1>1, FS_EmptySet DEF RowsFrom
  <2> QED BY <1>1, <2>1 DEF DeliveriesSpent, WritesExplained, Inserting, Acking, NotWriting, Stored
<1>5. SearchExplained
  BY <1>1 DEF SearchExplained, NoSearch
<1> QED BY <1>2, <1>3, <1>4, <1>5 DEF MemoryInv, MemoryExplained

\* The consumer's steps: the table and the search stay as they are, or the search ends.
LEMMA ConsumerMemoryInv ==
  ASSUME MemoryInv,
         \/ \E m \in Writes : DeliverWrite(m) \/ ExpireWrite(m)
         \/ AckWrite \/ CrashMemory \/ InsertWriteFails
  PROVE  MemoryInv'
<1>1. /\ writes \in [Writes -> Delivery]
      /\ writing \in [msg : Writes \cup {NoWrite}, pc : {"none", "insert", "ack"}]
      /\ writing.pc # "none" => writing.msg \in Writes
      /\ memoryLog \in [lost : [Writes -> Nat], rest : 0..MaxRestWrites, promoted : 0..MaxPromotions,
                        faults : 0..MaxMemoryFaults, changed : Nat]
      /\ {MaxWriteDeliver, MaxRestWrites, MaxPromotions, MaxMemoryFaults} \subseteq Nat
  BY MemoryAssumption DEF MemoryInv, MemoryTypes, MemoryTypeOK
<1>2. /\ entries' = entries
      /\ (search' = search /\ memoryLog'.changed = memoryLog.changed) \/ search' = NoSearch
      /\ \A m : RowsFrom(m)' = RowsFrom(m) /\ Matching(m)' = Matching(m)
  BY <1>1 DEF DeliverWrite, ExpireWrite, AckWrite, CrashMemory, InsertWriteFails, RowsFrom, Matching
<1>3. /\ memoryLog' \in [lost : [Writes -> Nat], rest : 0..MaxRestWrites, promoted : 0..MaxPromotions,
                         faults : 0..MaxMemoryFaults, changed : Nat]
      /\ \A m \in Writes :
           memoryLog'.lost[m] = IF InsertWriteFails /\ Inserting(m) THEN memoryLog.lost[m] + 1
                                ELSE memoryLog.lost[m]
  <2>1. CASE InsertWriteFails
    <3>1. /\ memoryLog' = [memoryLog EXCEPT !.faults = @ + 1, !.lost[writing.msg] = @ + 1]
          /\ writing.pc = "insert" /\ memoryLog.faults < MaxMemoryFaults
      BY <2>1 DEF InsertWriteFails, Fault
    <3>2. \A m \in Writes : Inserting(m) <=> writing.msg = m
      BY <1>1, <3>1 DEF Inserting
    <3>3. /\ memoryLog'.lost = [memoryLog.lost EXCEPT ![writing.msg] = @ + 1]
          /\ memoryLog'.faults = memoryLog.faults + 1
          /\ memoryLog'.rest = memoryLog.rest /\ memoryLog'.promoted = memoryLog.promoted
          /\ memoryLog'.changed = memoryLog.changed
          /\ memoryLog' = [lost |-> memoryLog'.lost, rest |-> memoryLog'.rest, promoted |-> memoryLog'.promoted,
                           faults |-> memoryLog'.faults, changed |-> memoryLog'.changed]
      BY <1>1, <3>1
    <3>4. memoryLog'.lost \in [Writes -> Nat]
      BY <1>1, <3>1, <3>3
    <3>5. memoryLog'.faults \in 0..MaxMemoryFaults
      BY <1>1, <3>1, <3>3
    <3>6. \A m \in Writes : memoryLog'.lost[m] = IF Inserting(m) THEN memoryLog.lost[m] + 1
                                                 ELSE memoryLog.lost[m]
      BY <1>1, <3>1, <3>2, <3>3
    <3> QED BY <1>1, <2>1, <3>3, <3>4, <3>5, <3>6
  <2>2. CASE ~InsertWriteFails
    <3>1. \/ memoryLog' = memoryLog
          \/ memoryLog' = [memoryLog EXCEPT !.faults = @ + 1] /\ memoryLog.faults < MaxMemoryFaults
          \/ memoryLog' = [memoryLog EXCEPT !.faults = @ + 1, !.changed = 0]
             /\ memoryLog.faults < MaxMemoryFaults
      BY <2>2 DEF DeliverWrite, ExpireWrite, AckWrite, CrashMemory, Fault
    <3>2. memoryLog'.lost = memoryLog.lost
      BY <1>1, <3>1
    <3>3. memoryLog' \in [lost : [Writes -> Nat], rest : 0..MaxRestWrites, promoted : 0..MaxPromotions,
                         faults : 0..MaxMemoryFaults, changed : Nat]
      <4>1. memoryLog.faults < MaxMemoryFaults => memoryLog.faults + 1 \in 0..MaxMemoryFaults
        BY <1>1
      <4>2. CASE memoryLog' = memoryLog
        BY <1>1, <4>2
      <4>3. CASE memoryLog' = [memoryLog EXCEPT !.faults = @ + 1] /\ memoryLog.faults < MaxMemoryFaults
        BY <1>1, <4>1, <4>3
      <4>4. CASE memoryLog' = [memoryLog EXCEPT !.faults = @ + 1, !.changed = 0]
                 /\ memoryLog.faults < MaxMemoryFaults
        BY <1>1, <4>1, <4>4
      <4> QED BY <3>1, <4>2, <4>3, <4>4
    <3> QED BY <2>2, <3>2, <3>3
  <2> QED BY <2>1, <2>2
<1>4. /\ writes' \in [Writes -> Delivery]
      /\ writing' \in [msg : Writes \cup {NoWrite}, pc : {"none", "insert", "ack"}]
      /\ writing'.pc # "none" => writing'.msg \in Writes
      /\ \A n \in Writes :
           /\ writes'[n].count = IF (Inserting(n)' /\ ~Inserting(n)) \/ (Acking(n)' /\ ~Acking(n) /\ ~Inserting(n))
                                 THEN writes[n].count + 1 ELSE writes[n].count
           /\ Inserting(n)' /\ Inserting(n) => writes'[n].count = writes[n].count
           /\ Acking(n)' => Acking(n) \/ n \in BadWrites \/ (Inserting(n) /\ InsertWriteFails)
           /\ Inserting(n) /\ InsertWriteFails => ~Inserting(n)'
           /\ writes'[n].st = "acked" => writes[n].st = "acked" \/ Acking(n)
  <2>1. ASSUME NEW m \in Writes, DeliverWrite(m) PROVE <1>4
    <3>1. /\ writing = NotWriting /\ writes' = Delivered(writes, m)
          /\ writing' = [msg |-> m, pc |-> IF m \in BadWrites THEN "ack" ELSE "insert"]
      BY <2>1 DEF DeliverWrite
    <3>2. ~InsertWriteFails
      BY <3>1 DEF InsertWriteFails, NotWriting
    <3> QED BY <1>1, <3>1, <3>2, ConsumerSteps DEF Inserting, Acking, NotWriting
  <2>2. ASSUME NEW m \in Writes, ExpireWrite(m) PROVE <1>4
    <3>1. /\ writes' = Returned(writes, m)
          /\ \/ writing' = writing
             \/ writing' = NotWriting /\ writing = [msg |-> m, pc |-> "ack"]
      BY <2>2 DEF ExpireWrite
    <3>2. InsertWriteFails => writing' # writing
      BY <1>1 DEF InsertWriteFails
    <3>3. /\ writes' \in [Writes -> Delivery]
          /\ \A n \in Writes : /\ writes'[n].count = writes[n].count
                               /\ writes'[n].st = "acked" => writes[n].st = "acked"
      <4>1. writes' \in [Writes -> Delivery]
        BY <1>1, <3>1, ConsumerSteps
      <4>2. /\ writes'[m].count = writes[m].count
            /\ writes'[m].st = "acked" <=> writes[m].st = "acked"
        BY <1>1, <3>1, ConsumerSteps
      <4>3. \A n \in Writes \ {m} : writes'[n] = writes[n]
        BY <1>1, <3>1, ConsumerSteps
      <4> QED BY <4>1, <4>2, <4>3
    <3>4. CASE writing' = writing
      BY <1>1, <3>2, <3>3, <3>4 DEF Inserting, Acking
    <3>5. CASE writing' = NotWriting /\ writing = [msg |-> m, pc |-> "ack"]
      <4>1. \A n \in Writes : ~Inserting(n)' /\ ~Acking(n)' /\ ~Inserting(n)
        BY <3>5, MemoryAssumption DEF Inserting, Acking, NotWriting
      <4> QED BY <1>1, <3>3, <3>5, <4>1 DEF NotWriting
    <3> QED BY <3>1, <3>4, <3>5
  <2>3. CASE AckWrite
    <3>1. /\ writing.pc = "ack" /\ writes' = Acked(writes, writing.msg) /\ writing' = NotWriting
      BY <2>3 DEF AckWrite
    <3>2. writing = [msg |-> writing.msg, pc |-> "ack"] /\ writing.msg \in Writes
      BY <1>1, <3>1
    <3> QED BY <1>1, <3>1, <3>2, ConsumerSteps, MemoryAssumption DEF Inserting, Acking, NotWriting
  <2>4. CASE CrashMemory
    <3>1. /\ writes' = [m \in Writes |-> Returned(writes, m)[m]] /\ writing' = NotWriting
      BY <2>4 DEF CrashMemory
    <3>2. \A m \in Writes : Returned(writes, m) \in [Writes -> Delivery]
      BY <1>1, ConsumerSteps
    <3>3. \A n \in Writes :
            /\ writes'[n] = Returned(writes, n)[n] /\ Returned(writes, n)[n] \in Delivery
            /\ Returned(writes, n)[n].count = writes[n].count
            /\ Returned(writes, n)[n].st = "acked" => writes[n].st = "acked"
      <4> SUFFICES ASSUME NEW n \in Writes
                   PROVE  /\ writes'[n] = Returned(writes, n)[n] /\ Returned(writes, n)[n] \in Delivery
                          /\ Returned(writes, n)[n].count = writes[n].count
                          /\ Returned(writes, n)[n].st = "acked" => writes[n].st = "acked"
        OBVIOUS
      <4>1. writes'[n] = Returned(writes, n)[n]
        BY <3>1
      <4>2. /\ Returned(writes, n) \in [Writes -> Delivery]
            /\ Returned(writes, n)[n].count = writes[n].count
            /\ Returned(writes, n)[n].st = "acked" <=> writes[n].st = "acked"
        BY <1>1, ConsumerSteps
      <4> QED BY <4>1, <4>2
    <3>4. writes' \in [Writes -> Delivery]
      BY <3>1, <3>3
    <3>5. \A n \in Writes : ~Inserting(n)' /\ ~Acking(n)'
      BY <3>1, MemoryAssumption DEF Inserting, Acking, NotWriting
    <3> QED BY <3>1, <3>3, <3>4, <3>5 DEF NotWriting
  <2>5. CASE InsertWriteFails
    <3>1. /\ writing.pc = "insert" /\ writing' = [writing EXCEPT !.pc = "ack"] /\ writes' = writes
      BY <2>5 DEF InsertWriteFails
    <3> QED BY <1>1, <2>5, <3>1 DEF Inserting, Acking
  <2> QED BY <2>1, <2>2, <2>3, <2>4, <2>5
<1>5. MemoryTypes'
  BY <1>1, <1>2, <1>3, <1>4 DEF MemoryInv, MemoryTypes, MemoryTypeOK, NoSearch, Tiers
<1>6. RowsNumbered' /\ TotalFollowed' /\ SearchExplained'
  BY <1>2 DEF MemoryInv, RowsNumbered, TotalFollowed, MemoryExplained, SearchExplained, NoSearch
<1>7. DeliveriesSpent' /\ WritesExplained'
  <2> SUFFICES ASSUME NEW m \in Writes
               PROVE  /\ Acking(m)' /\ m \notin BadWrites => RowsFrom(m)' # {} \/ memoryLog'.lost[m] > 0
                      /\ Cardinality(RowsFrom(m)') + memoryLog'.lost[m] + (IF Inserting(m)' THEN 1 ELSE 0)
                           <= writes'[m].count
                      /\ writes'[m].st = "acked" /\ m \notin BadWrites
                           => RowsFrom(m)' # {} \/ memoryLog'.lost[m] > 0
    <3>1. \A m \in Writes : Cardinality(RowsFrom(m)') \in Nat /\ memoryLog'.lost[m] \in Nat /\ writes'[m].count \in Nat
      BY <1>3, <1>4, <1>5, RowsFinite, <1>2 DEF Delivery, MemoryInv
    <3> QED BY <3>1 DEF DeliveriesSpent, WritesExplained
  <2>1. /\ Cardinality(RowsFrom(m)) \in Nat /\ memoryLog.lost[m] \in Nat /\ writes[m].count \in Nat
    BY <1>1, RowsFinite DEF Delivery, MemoryInv
  <2>2. /\ Acking(m) /\ m \notin BadWrites => RowsFrom(m) # {} \/ memoryLog.lost[m] > 0
        /\ Cardinality(RowsFrom(m)) + memoryLog.lost[m] + (IF Inserting(m) THEN 1 ELSE 0)
             <= writes[m].count
        /\ writes[m].st = "acked" /\ m \notin BadWrites => RowsFrom(m) # {} \/ memoryLog.lost[m] > 0
    BY DEF MemoryInv, DeliveriesSpent, MemoryExplained, WritesExplained
  <2> QED BY <1>2, <1>3, <1>4, <2>1, <2>2
<1> QED BY <1>5, <1>6, <1>7 DEF MemoryInv, MemoryExplained

\* What NoteChange does to the log.
LEMMA ChangeNoted ==
  ASSUME MemoryInv
  PROVE  LET log == NoteChange(memoryLog)
         IN  /\ log \in [lost : [Writes -> Nat], rest : 0..MaxRestWrites, promoted : 0..MaxPromotions,
                         faults : 0..MaxMemoryFaults, changed : Nat]
             /\ log.lost = memoryLog.lost /\ log.rest = memoryLog.rest
             /\ log.promoted = memoryLog.promoted
             /\ log.changed = IF search.pc = "select" THEN memoryLog.changed + 1 ELSE memoryLog.changed
BY MemoryAssumption DEF NoteChange, MemoryInv, MemoryTypes, MemoryTypeOK

\* Steps that change one row, or leave the table alone.
LEMMA RowsMemoryInv ==
  ASSUME MemoryInv, writes' = writes, search' = search,
         memoryLog' \in [lost : [Writes -> Nat], rest : 0..MaxRestWrites, promoted : 0..MaxPromotions,
                         faults : 0..MaxMemoryFaults, changed : Nat],
         memoryLog'.lost = memoryLog.lost,
         memoryLog'.changed = NoteChange(memoryLog).changed,
         \/ writing' = writing
         \/ writing.pc = "insert" /\ writing' = [writing EXCEPT !.pc = "ack"],
         entries' \subseteq Entry, IsFiniteSet(entries'), RowsNumbered',
         \A m \in Writes : Cardinality(RowsFrom(m)')
            = Cardinality(RowsFrom(m)) + (IF writing' # writing /\ m = writing.msg THEN 1 ELSE 0),
         \A t : /\ Cardinality(Matching(t)) <= Cardinality(Matching(t)') + 1
                /\ Cardinality(Matching(t)') <= Cardinality(Matching(t)) + 1
                /\ Cardinality(Matching(t)') \in Nat
  PROVE  MemoryInv'
<1>1. /\ writes \in [Writes -> Delivery] /\ search.total \in Nat
      /\ writing \in [msg : Writes \cup {NoWrite}, pc : {"none", "insert", "ack"}]
      /\ writing.pc # "none" => writing.msg \in Writes
      /\ memoryLog.changed \in Nat /\ memoryLog.lost \in [Writes -> Nat]
      /\ \A t : Cardinality(Matching(t)) \in Nat /\ Cardinality(RowsFrom(t)) \in Nat
  BY RowsFinite DEF MemoryInv, MemoryTypes, MemoryTypeOK
<1>2. /\ writing' \in [msg : Writes \cup {NoWrite}, pc : {"none", "insert", "ack"}]
      /\ writing'.pc # "none" => writing'.msg \in Writes
  BY <1>1
<1>3. MemoryTypes'
  BY <1>2 DEF MemoryInv, MemoryTypes, MemoryTypeOK
<1>4. TotalFollowed'
  <2>1. memoryLog'.changed = IF search.pc = "select" THEN memoryLog.changed + 1 ELSE memoryLog.changed
    BY ChangeNoted
  <2>2. ASSUME search.pc = "select"
        PROVE  /\ search.total <= Cardinality(Matching(search.tier)') + memoryLog'.changed
               /\ Cardinality(Matching(search.tier)') <= search.total + memoryLog'.changed
    <3>1. /\ search.total <= Cardinality(Matching(search.tier)) + memoryLog.changed
          /\ Cardinality(Matching(search.tier)) <= search.total + memoryLog.changed
      BY <2>2 DEF MemoryInv, TotalFollowed
    <3>2. memoryLog'.changed = memoryLog.changed + 1
      BY <2>1, <2>2
    <3>3. /\ Cardinality(Matching(search.tier)) <= Cardinality(Matching(search.tier)') + 1
          /\ Cardinality(Matching(search.tier)') <= Cardinality(Matching(search.tier)) + 1
          /\ Cardinality(Matching(search.tier)') \in Nat /\ Cardinality(Matching(search.tier)) \in Nat
      BY <1>1
    <3> QED BY <1>1, <3>1, <3>2, <3>3
  <2> QED BY <2>2 DEF TotalFollowed
<1>5. SearchExplained'
  <2>1. search.pc = "done" => memoryLog'.changed = memoryLog.changed
    BY ChangeNoted
  <2> QED BY <2>1 DEF MemoryInv, MemoryExplained, SearchExplained
<1>6. DeliveriesSpent' /\ WritesExplained'
  <2> SUFFICES ASSUME NEW m \in Writes
               PROVE  /\ Acking(m)' /\ m \notin BadWrites => RowsFrom(m)' # {} \/ memoryLog'.lost[m] > 0
                      /\ Cardinality(RowsFrom(m)') + memoryLog'.lost[m] + (IF Inserting(m)' THEN 1 ELSE 0)
                           <= writes[m].count
                      /\ writes[m].st = "acked" /\ m \notin BadWrites
                           => RowsFrom(m)' # {} \/ memoryLog'.lost[m] > 0
                      /\ Cardinality(RowsFrom(m)') \in Nat /\ memoryLog'.lost[m] \in Nat
    BY <1>1 DEF DeliveriesSpent, WritesExplained, Delivery
  <2>1. /\ Cardinality(RowsFrom(m)) \in Nat /\ memoryLog.lost[m] \in Nat /\ writes[m].count \in Nat
    BY <1>1 DEF Delivery
  <2>2. /\ Acking(m) /\ m \notin BadWrites => RowsFrom(m) # {} \/ memoryLog.lost[m] > 0
        /\ Cardinality(RowsFrom(m)) + memoryLog.lost[m] + (IF Inserting(m) THEN 1 ELSE 0)
             <= writes[m].count
        /\ writes[m].st = "acked" /\ m \notin BadWrites => RowsFrom(m) # {} \/ memoryLog.lost[m] > 0
    BY DEF MemoryInv, DeliveriesSpent, MemoryExplained, WritesExplained
  <2>3. Cardinality(RowsFrom(m)) > 0 <=> RowsFrom(m) # {}
    <3>1. IsFiniteSet(RowsFrom(m))
      BY RowsFinite DEF MemoryInv
    <3> QED BY <2>1, <3>1, FS_EmptySet
  <2>4. Cardinality(RowsFrom(m)') > 0 <=> RowsFrom(m)' # {}
    <3>1. IsFiniteSet(RowsFrom(m)') /\ Cardinality(RowsFrom(m)') \in Nat
      <4>1. RowsFrom(m)' \in SUBSET entries'
        BY DEF RowsFrom
      <4> QED BY <4>1, FS_Subset, FS_CardinalityType
    <3> QED BY <3>1, FS_EmptySet
  <2>5. CASE Inserting(m) /\ writing' # writing
    <3>1. /\ Cardinality(RowsFrom(m)') = Cardinality(RowsFrom(m)) + 1 /\ ~Inserting(m)'
      BY <2>5 DEF Inserting
    <3> QED BY <2>1, <2>2, <2>3, <2>4, <2>5, <3>1
  <2>6. CASE ~(Inserting(m) /\ writing' # writing)
    <3>1. Cardinality(RowsFrom(m)') = Cardinality(RowsFrom(m))
      BY <1>1, <2>6 DEF Inserting
    <3>2. (Inserting(m)' <=> Inserting(m)) /\ (Acking(m)' <=> Acking(m))
      BY <1>1, <2>6 DEF Inserting, Acking
    <3> QED BY <2>1, <2>2, <2>3, <2>4, <3>1, <3>2
  <2> QED BY <2>5, <2>6
<1> QED BY <1>3, <1>4, <1>5, <1>6 DEF MemoryInv, MemoryExplained

LEMMA TableMemoryInv ==
  ASSUME MemoryInv,
         \/ InsertWrite \/ DeleteExpired
         \/ \E tier \in Tiers : WriteMemory(tier)
         \/ \E e \in entries, target \in Tiers : PromoteMemory(e, target)
  PROVE  MemoryInv'
<1>1. /\ writing \in [msg : Writes \cup {NoWrite}, pc : {"none", "insert", "ack"}]
      /\ writing.pc # "none" => writing.msg \in Writes
      /\ {MaxWriteDeliver, MaxRestWrites, MaxPromotions, MaxMemoryFaults} \subseteq Nat
      /\ \A t : Cardinality(Matching(t)) \in Nat /\ Cardinality(RowsFrom(t)) \in Nat
  BY RowsFinite, MemoryAssumption DEF MemoryInv, MemoryTypes, MemoryTypeOK
<1>2. CASE InsertWrite
  <2>1. /\ writing.pc = "insert" /\ entries' = entries \cup {NewEntry(writing.msg, "ephemeral")}
        /\ writing' = [writing EXCEPT !.pc = "ack"] /\ memoryLog' = NoteChange(memoryLog)
        /\ UNCHANGED <<writes, search>>
    BY <1>2 DEF InsertWrite
  <2>2. writing.msg \in Writes /\ "ephemeral" \in Tiers /\ writing' # writing
    BY <1>1, <2>1 DEF Tiers
  <2>3. /\ entries' \subseteq Entry /\ IsFiniteSet(entries') /\ RowsNumbered'
        /\ \A m : Cardinality(RowsFrom(m)')
               = Cardinality(RowsFrom(m)) + (IF m = writing.msg THEN 1 ELSE 0)
        /\ \A t : /\ Cardinality(Matching(t)) <= Cardinality(Matching(t)')
                 /\ Cardinality(Matching(t)') <= Cardinality(Matching(t)) + 1
                 /\ Cardinality(Matching(t)') \in Nat
    BY <2>1, <2>2, RowAdded
  <2>4. \A t : Cardinality(Matching(t)) <= Cardinality(Matching(t)') + 1
    BY <1>1, <2>3
  <2>5. \A m \in Writes : Cardinality(RowsFrom(m)')
           = Cardinality(RowsFrom(m)) + (IF writing' # writing /\ m = writing.msg THEN 1 ELSE 0)
    BY <2>2, <2>3
  <2> QED BY <2>1, <2>3, <2>4, <2>5, ChangeNoted, RowsMemoryInv
<1>3. CASE DeleteExpired
  <2>1. entries' = entries
    BY <1>3 DEF DeleteExpired, MemoryInv, RowsNumbered
  <2> QED BY <1>3, <2>1
          DEF DeleteExpired, MemoryInv, MemoryTypes, MemoryTypeOK, RowsNumbered, DeliveriesSpent,
              TotalFollowed, MemoryExplained, WritesExplained, SearchExplained, RowsFrom, Matching,
              Inserting, Acking
<1>4. ASSUME NEW tier \in Tiers, WriteMemory(tier) PROVE MemoryInv'
  <2>1. /\ entries' = entries \cup {NewEntry(RestWrite, tier)}
        /\ memoryLog' = [NoteChange(memoryLog) EXCEPT !.rest = @ + 1]
        /\ memoryLog.rest < MaxRestWrites
        /\ UNCHANGED <<writes, writing, search>>
    BY <1>4 DEF WriteMemory
  <2>2. /\ entries' \subseteq Entry /\ IsFiniteSet(entries') /\ RowsNumbered'
        /\ \A m : Cardinality(RowsFrom(m)')
               = Cardinality(RowsFrom(m)) + (IF m = RestWrite THEN 1 ELSE 0)
        /\ \A t : /\ Cardinality(Matching(t)) <= Cardinality(Matching(t)')
                 /\ Cardinality(Matching(t)') <= Cardinality(Matching(t)) + 1
                 /\ Cardinality(Matching(t)') \in Nat
    BY <2>1, RowAdded
  <2>3. \A t : Cardinality(Matching(t)) <= Cardinality(Matching(t)') + 1
    BY <1>1, <2>2
  <2>4. \A m \in Writes : Cardinality(RowsFrom(m)')
           = Cardinality(RowsFrom(m)) + (IF writing' # writing /\ m = writing.msg THEN 1 ELSE 0)
    BY <1>1, <2>1, <2>2, MemoryAssumption
  <2>5. /\ memoryLog' \in [lost : [Writes -> Nat], rest : 0..MaxRestWrites, promoted : 0..MaxPromotions,
                           faults : 0..MaxMemoryFaults, changed : Nat]
        /\ memoryLog'.lost = memoryLog.lost
        /\ memoryLog'.changed = NoteChange(memoryLog).changed
    <3> DEFINE log == NoteChange(memoryLog)
    <3>1. /\ log \in [lost : [Writes -> Nat], rest : 0..MaxRestWrites, promoted : 0..MaxPromotions,
                      faults : 0..MaxMemoryFaults, changed : Nat]
          /\ log.lost = memoryLog.lost /\ log.rest = memoryLog.rest
          /\ memoryLog' = [log EXCEPT !.rest = @ + 1]
      BY <2>1, ChangeNoted
    <3> HIDE DEF log
    <3>2. log.rest + 1 \in 0..MaxRestWrites
      BY <1>1, <2>1, <3>1
    <3>3. memoryLog'.changed = log.changed
      BY <3>1
    <3> QED BY <3>1, <3>2, <3>3 DEF log
  <2> QED BY <2>1, <2>2, <2>3, <2>4, <2>5, RowsMemoryInv
<1>5. ASSUME NEW e \in entries, NEW target \in Tiers, PromoteMemory(e, target) PROVE MemoryInv'
  <2>1. /\ entries' = (entries \ {e}) \cup {[e EXCEPT !.tier = target, !.expires = FALSE]}
        /\ memoryLog' = [NoteChange(memoryLog) EXCEPT !.promoted = @ + 1]
        /\ memoryLog.promoted < MaxPromotions
        /\ UNCHANGED <<writes, writing, search>>
    BY <1>5 DEF PromoteMemory
  <2>2. /\ entries' \subseteq Entry /\ IsFiniteSet(entries') /\ RowsNumbered'
        /\ \A m : Cardinality(RowsFrom(m)') = Cardinality(RowsFrom(m))
        /\ \A t : /\ Cardinality(Matching(t)) <= Cardinality(Matching(t)') + 1
                 /\ Cardinality(Matching(t)') <= Cardinality(Matching(t)) + 1
                 /\ Cardinality(Matching(t)') \in Nat
    BY <2>1, RowChanged
  <2>3. \A m \in Writes : Cardinality(RowsFrom(m)')
           = Cardinality(RowsFrom(m)) + (IF writing' # writing /\ m = writing.msg THEN 1 ELSE 0)
    BY <1>1, <2>1, <2>2
  <2>4. /\ memoryLog' \in [lost : [Writes -> Nat], rest : 0..MaxRestWrites, promoted : 0..MaxPromotions,
                           faults : 0..MaxMemoryFaults, changed : Nat]
        /\ memoryLog'.lost = memoryLog.lost
        /\ memoryLog'.changed = NoteChange(memoryLog).changed
    <3> DEFINE log == NoteChange(memoryLog)
    <3>1. /\ log \in [lost : [Writes -> Nat], rest : 0..MaxRestWrites, promoted : 0..MaxPromotions,
                      faults : 0..MaxMemoryFaults, changed : Nat]
          /\ log.lost = memoryLog.lost /\ log.promoted = memoryLog.promoted
          /\ memoryLog' = [log EXCEPT !.promoted = @ + 1]
      BY <2>1, ChangeNoted
    <3> HIDE DEF log
    <3>2. log.promoted + 1 \in 0..MaxPromotions
      BY <1>1, <2>1, <3>1
    <3>3. memoryLog'.changed = log.changed
      BY <3>1
    <3> QED BY <3>1, <3>2, <3>3 DEF log
  <2> QED BY <2>1, <2>2, <2>3, <2>4, RowsMemoryInv
<1> QED BY <1>2, <1>3, <1>4, <1>5

\* The two statements of a search.
LEMMA SearchMemoryInv ==
  ASSUME MemoryInv, (\E tier \in Tiers : CountMatching(tier)) \/ SelectMatching
  PROVE  MemoryInv'
<1>1. /\ UNCHANGED <<writes, writing, entries>> /\ memoryLog'.lost = memoryLog.lost
      /\ memoryLog' \in [lost : [Writes -> Nat], rest : 0..MaxRestWrites, promoted : 0..MaxPromotions,
                         faults : 0..MaxMemoryFaults, changed : Nat]
  BY DEF CountMatching, SelectMatching, MemoryInv, MemoryTypes, MemoryTypeOK
<1>2. RowsNumbered' /\ DeliveriesSpent' /\ WritesExplained'
  BY <1>1 DEF MemoryInv, RowsNumbered, DeliveriesSpent, MemoryExplained, WritesExplained, RowsFrom,
              Inserting, Acking
<1>3. ASSUME NEW tier \in Tiers, CountMatching(tier)
      PROVE  MemoryTypes' /\ TotalFollowed' /\ SearchExplained'
  <2>1. /\ search' = [pc |-> "select", tier |-> tier, total |-> Cardinality(Matching(tier)), found |-> {}]
        /\ memoryLog'.changed = 0
    BY <1>3 DEF CountMatching, MemoryInv, MemoryTypes, MemoryTypeOK
  <2>2. Cardinality(Matching(tier)) \in Nat /\ Matching(tier)' = Matching(tier)
    BY <1>1, RowsFinite DEF MemoryInv, Matching
  <2>3. MemoryTypes'
    BY <1>1, <2>1, <2>2 DEF MemoryInv, MemoryTypes, MemoryTypeOK
  <2>4. TotalFollowed' /\ SearchExplained'
    BY <2>1, <2>2 DEF TotalFollowed, SearchExplained
  <2> QED BY <2>3, <2>4
<1>4. ASSUME SelectMatching PROVE MemoryTypes' /\ TotalFollowed' /\ SearchExplained'
  <2> DEFINE M == Matching(search.tier)
             N == Newest(M, SearchLimit)
  <2>1. /\ search.pc = "select" /\ search' = [search EXCEPT !.pc = "done", !.found = N]
        /\ memoryLog' = memoryLog
    BY <1>4 DEF SelectMatching
  <2>2. /\ M \in SUBSET Entry /\ IsFiniteSet(M) /\ Cardinality(M) \in Nat
        /\ \A e, f \in M : e.id = f.id => e = f
        /\ SearchLimit \in Nat \ {0}
        /\ search \in [pc : {"none", "select", "done"}, tier : Tiers, total : Nat, found : SUBSET Entry]
        /\ memoryLog.changed \in Nat
    BY RowsFinite, MemoryAssumption DEF MemoryInv, MemoryTypes, MemoryTypeOK, RowsNumbered
  <2>3. /\ search.total <= Cardinality(M) + memoryLog.changed
        /\ Cardinality(M) <= search.total + memoryLog.changed
    BY <2>1 DEF MemoryInv, TotalFollowed
  <2> HIDE DEF M
  <2>4. /\ Cardinality(N) \in Nat /\ Cardinality(N) <= SearchLimit /\ Cardinality(N) <= Cardinality(M)
        /\ Cardinality(N) < SearchLimit => Cardinality(N) = Cardinality(M)
        /\ N \in SUBSET M
    BY <2>2, NewestSize
  <2> HIDE DEF N
  <2>5. search' \in [pc : {"none", "select", "done"}, tier : Tiers, total : Nat, found : SUBSET Entry]
        /\ search'.pc = "done" /\ search'.found = N /\ search'.total = search.total
    BY <2>1, <2>2, <2>4
  <2>6. MemoryTypes'
    BY <1>1, <2>5 DEF MemoryInv, MemoryTypes, MemoryTypeOK
  <2>7. SearchExplained'
    <3>1. /\ Cardinality(N) <= search.total + memoryLog.changed
          /\ Cardinality(N) < SearchLimit => search.total <= Cardinality(N) + memoryLog.changed
      BY <2>2, <2>3, <2>4
    <3> QED BY <2>1, <2>4, <2>5, <3>1 DEF SearchExplained
  <2>8. TotalFollowed'
    BY <2>5 DEF TotalFollowed
  <2> QED BY <2>6, <2>7, <2>8
<1> QED BY <1>2, <1>3, <1>4 DEF MemoryInv, MemoryExplained

LEMMA NextMemoryInv == MemoryInv /\ [MemoryNext]_memoryVars => MemoryInv'
<1> SUFFICES ASSUME MemoryInv, [MemoryNext]_memoryVars PROVE MemoryInv'
  OBVIOUS
<1>1. CASE UNCHANGED memoryVars
  BY <1>1 DEF memoryVars, MemoryInv, MemoryTypes, MemoryTypeOK, RowsNumbered, DeliveriesSpent,
              TotalFollowed, MemoryExplained, WritesExplained, SearchExplained, RowsFrom, Matching,
              Inserting, Acking
<1>2. CASE \/ \E m \in Writes : DeliverWrite(m) \/ ExpireWrite(m)
           \/ InsertWriteFails \/ AckWrite \/ CrashMemory
  BY <1>2, ConsumerMemoryInv
<1>3. CASE \/ InsertWrite \/ DeleteExpired
           \/ \E tier \in Tiers : WriteMemory(tier)
           \/ \E e \in entries, target \in Tiers : PromoteMemory(e, target)
  BY <1>3, TableMemoryInv
<1>4. CASE (\E tier \in Tiers : CountMatching(tier)) \/ SelectMatching
  BY <1>4, SearchMemoryInv
<1> QED BY <1>1, <1>2, <1>3, <1>4 DEF MemoryNext

\* Type correctness of the memory plane.
THEOREM MemoryTypeCorrect == MemorySpec => []MemoryTypeOK
<1>1. MemoryInv => MemoryTypeOK
  BY DEF MemoryInv, MemoryTypes
<1> QED BY <1>1, InitMemoryInv, NextMemoryInv, PTL DEF MemorySpec

\* A memory that was acknowledged is stored or its insert failed, no message makes more rows than
\* it has deliveries, and the total and the rows of a search differ by what changed between
\* its statements.
THEOREM MemoryExplainedCorrect == MemorySpec => []MemoryExplained
<1>1. MemoryInv => MemoryExplained
  BY DEF MemoryInv
<1> QED BY <1>1, InitMemoryInv, NextMemoryInv, PTL DEF MemorySpec

-----------------------------------------------------------------------------
(* Budget accounting.                                                        *)

\* Who is recorded was published; the event that waits for its ack was recorded.
RecordsKnown ==
  /\ \A m \in Metrics \ DOMAIN metrics : recorded[m] = 0
  /\ handling \in Metrics \ Malformed => recorded[handling] > 0

Unrecorded(b) == {m \in EventsFor(b) : recorded[m] = 0}

\* Without redeliveries nothing is paid twice: what is spent and what is still to be
\* recorded is no more than what was incurred.
SpendCovered ==
  (\A m \in DOMAIN metrics : metrics[m].count <= 1) =>
    \A b \in Budgets : spend[b] + Cost(Unrecorded(b)) <= Incurred(b)

BudgetInv == BudgetTypeOK /\ RecordsExplained /\ RecordsKnown /\ SpendCovered

\* The cost of a set of events, and of one event more.
LEMMA CostsAdd ==
  ASSUME NEW S \in SUBSET Metrics
  PROVE  /\ Cost(S) \in Nat /\ IsFiniteSet(Units(S))
         /\ \A m \in Metrics \ S : Cost(S \cup {m}) = Cost(S) + CostOf[m]
<1>1. IsFiniteSet(Metrics) /\ CostOf \in [Metrics -> Nat]
  BY BudgetAssumption
<1>2. PICK top \in Nat : \A m \in Metrics : CostOf[m] <= top
  <2>1. CASE Metrics = {}
    BY <2>1
  <2>2. CASE Metrics # {}
    <3> DEFINE costs == Range(CostOf)
    <3>1. costs \in SUBSET Nat /\ CostOf \in Surjection(Metrics, costs)
      BY <1>1, Fun_RangeProperties
    <3>2. IsFiniteSet(costs) /\ \A m \in Metrics : CostOf[m] \in costs
      BY <1>1, <3>1, FS_Surjection DEF Range
    <3>3. \E n \in costs : \A k \in costs : k <= n
      BY <2>2, <3>1, <3>2, LargestExists
    <3> QED BY <3>1, <3>2, <3>3
  <2> QED BY <2>1, <2>2
<1>3. ASSUME NEW T \in SUBSET Metrics PROVE IsFiniteSet(Units(T)) /\ Cost(T) \in Nat
  <2>1. IsFiniteSet(Metrics \X (1..top))
    <3>1. IsFiniteSet(1..top)
      BY FS_Interval
    <3> QED BY <1>1, <3>1, FS_Product
  <2>2. Units(T) \in SUBSET (Metrics \X (1..top))
    BY <1>1, <1>2 DEF Units
  <2> QED BY <2>1, <2>2, FS_Subset, FS_CardinalityType DEF Cost
<1>4. ASSUME NEW m \in Metrics \ S PROVE Cost(S \cup {m}) = Cost(S) + CostOf[m]
  <2> DEFINE own == {m} \X (1..CostOf[m])
  <2>1. IsFiniteSet(own) /\ Cardinality(own) = CostOf[m]
    <3>1. IsFiniteSet({m}) /\ Cardinality({m}) = 1
      BY FS_Singleton
    <3>2. IsFiniteSet(1..CostOf[m]) /\ Cardinality(1..CostOf[m]) = CostOf[m] /\ CostOf[m] \in Nat
      BY <1>1, FS_Interval
    <3>3. IsFiniteSet(own) /\ Cardinality(own) = 1 * CostOf[m]
      BY ZenonT(30), <3>1, <3>2, FS_Product
    <3> QED BY <3>2, <3>3
  <2>2. Units(S \cup {m}) = Units(S) \cup own /\ Units(S) \cap own = {}
    BY DEF Units
  <2>3. Cardinality(Units(S) \cup own) = Cardinality(Units(S)) + Cardinality(own) - Cardinality({})
    <3> HIDE DEF own
    <3> QED BY <1>3, <2>1, <2>2, FS_Union
  <2>4. Cardinality({}) = 0 /\ Cardinality(Units(S)) \in Nat /\ CostOf[m] \in Nat
    BY <1>1, <1>3, FS_EmptySet DEF Cost
  <2>5. Cost(S \cup {m}) = Cardinality(Units(S) \cup own)
    BY <2>2 DEF Cost
  <2> HIDE DEF own
  <2>6. Cost(S \cup {m}) = Cost(S) + Cardinality(own) - 0
    BY <2>3, <2>4, <2>5 DEF Cost
  <2>7. Cost(S) \in Nat
    BY <2>4 DEF Cost
  <2> QED BY <2>1, <2>4, <2>6, <2>7
<1> QED BY <1>3, <1>4

\* Deliveries waiting in the inbox, when one comes and when the first is taken.
LEMMA InboxCounts ==
  ASSUME NEW S, inbox \in Seq(S)
  PROVE  /\ \A m : Waiting(m) \in Nat
         /\ \A n \in S : inbox' = Append(inbox, n)
              => \A m : Waiting(m)' = Waiting(m) + (IF m = n THEN 1 ELSE 0)
         /\ inbox # <<>> /\ inbox' = Tail(inbox)
              => \A m : Waiting(m)' \in Nat
                       /\ Waiting(m) = Waiting(m)' + (IF m = Head(inbox) THEN 1 ELSE 0)
<1> DEFINE Places(s, m) == {i \in DOMAIN s : s[i] = m}
<1>1. ASSUME NEW s \in Seq(S), NEW m PROVE IsFiniteSet(Places(s, m)) /\ Cardinality(Places(s, m)) \in Nat
  <2>1. IsFiniteSet(1..Len(s)) /\ Places(s, m) \in SUBSET (1..Len(s))
    BY FS_Interval
  <2> QED BY <2>1, FS_Subset, FS_CardinalityType
<1>2. ASSUME NEW n \in S, inbox' = Append(inbox, n), NEW m
      PROVE  Waiting(m)' = Waiting(m) + (IF m = n THEN 1 ELSE 0)
  <2> DEFINE k == Len(inbox) + 1
  <2>1. /\ Places(inbox', m) = IF m = n THEN Places(inbox, m) \cup {k} ELSE Places(inbox, m)
        /\ k \notin Places(inbox, m)
    BY <1>2
  <2> HIDE DEF Places, k
  <2>2. Cardinality(Places(inbox, m) \cup {k}) = Cardinality(Places(inbox, m)) + 1
    BY <1>1, <2>1, FS_AddElement
  <2>3. Waiting(m) = Cardinality(Places(inbox, m)) /\ Waiting(m)' = Cardinality(Places(inbox', m))
    BY DEF Waiting, Places
  <2> QED BY <1>1, <2>1, <2>2, <2>3
<1>3. ASSUME inbox # <<>>, inbox' = Tail(inbox), NEW m
      PROVE  Waiting(m)' \in Nat /\ Waiting(m) = Waiting(m)' + (IF m = Head(inbox) THEN 1 ELSE 0)
  <2> DEFINE old == Places(inbox, m)
             new == Places(inbox', m)
             shift == [i \in new |-> i + 1]
  <2>1. inbox' \in Seq(S) /\ Len(inbox') = Len(inbox) - 1 /\ \A i \in 1..Len(inbox') : inbox'[i] = inbox[i + 1]
    BY <1>3
  <2>2. /\ new \in SUBSET Nat /\ old \in SUBSET Nat
        /\ \A i \in new : i + 1 \in old \ {1}
        /\ \A j \in old \ {1} : j - 1 \in new
    BY <2>1
  <2>3. IsFiniteSet(new) /\ IsFiniteSet(old) /\ Cardinality(new) \in Nat /\ Cardinality(old) \in Nat
    BY <1>1, <2>1
  <2>4. 1 \in old <=> m = Head(inbox)
    BY <1>3
  <2> HIDE DEF Places, old, new
  <2>5. /\ shift \in [new -> old \ {1}]
        /\ \A a, b \in new : shift[a] = shift[b] => a = b
        /\ \A j \in old \ {1} : \E i \in new : shift[i] = j
    <3>1. shift \in [new -> old \ {1}] /\ \A a, b \in new : shift[a] = shift[b] => a = b
      BY <2>2
    <3>2. ASSUME NEW j \in old \ {1} PROVE \E i \in new : shift[i] = j
      <4>1. j - 1 \in new /\ shift[j - 1] = j
        BY <2>2
      <4> QED BY <4>1
    <3> QED BY <3>1, <3>2
  <2>6. ExistsBijection(new, old \ {1})
    <3> HIDE DEF shift
    <3>1. shift \in Bijection(new, old \ {1})
      BY <2>5, Fun_IsBij
    <3> QED BY <3>1 DEF ExistsBijection
  <2>7. Cardinality(old \ {1}) = Cardinality(new)
    BY <2>3, <2>6, FS_Bijection
  <2>8. Cardinality(old \ {1}) = IF 1 \in old THEN Cardinality(old) - 1 ELSE Cardinality(old)
    BY <2>3, FS_RemoveElement
  <2>9. Waiting(m) = Cardinality(old) /\ Waiting(m)' = Cardinality(new)
    BY DEF Waiting, Places, old, new
  <2> QED BY <2>3, <2>4, <2>7, <2>8, <2>9
<1>4. ASSUME NEW m PROVE Waiting(m) \in Nat
  BY <1>1 DEF Waiting
<1> QED BY <1>2, <1>3, <1>4

LEMMA InitBudgetInv == BudgetInit => BudgetInv
<1> SUFFICES ASSUME BudgetInit PROVE BudgetInv
  OBVIOUS
<1>1. /\ metrics = <<>> /\ inbox = <<>> /\ handling = NoMetric /\ spend = NoSpend
      /\ recorded = NoRecords /\ posted = NoSpend /\ consuming = TRUE /\ wiped = {}
      /\ budgetFaults = [post |-> 0, ack |-> 0, crash |-> 0] /\ DOMAIN metrics = {}
  BY DEF BudgetInit
<1>2. BudgetTypeOK
  <2>1. metrics \in [DOMAIN metrics -> Delivery] /\ inbox \in Seq(DOMAIN metrics)
    BY <1>1
  <2> QED BY <1>1, <2>1, BudgetAssumption DEF BudgetTypeOK, NoSpend, NoRecords
<1>3. RecordsExplained /\ RecordsKnown
  BY <1>1, BudgetAssumption DEF RecordsExplained, RecordsKnown, NoRecords
<1>4. \A b : EventsFor(b) = {} /\ Unrecorded(b) = {}
  BY <1>1 DEF EventsFor, Unrecorded
<1>5. SpendCovered
  <2>1. Cost({}) \in Nat
    BY CostsAdd
  <2>2. ASSUME NEW b \in Budgets PROVE spend[b] + Cost(Unrecorded(b)) <= Incurred(b)
    <3>1. spend[b] = 0 /\ posted[b] = 0
      BY <1>1 DEF NoSpend
    <3>2. Cost(Unrecorded(b)) = Cost({}) /\ Cost(EventsFor(b)) = Cost({})
      BY <1>4
    <3> QED BY <2>1, <3>1, <3>2 DEF Incurred
  <2> QED BY <2>2 DEF SpendCovered
<1> QED BY <1>2, <1>3, <1>5 DEF BudgetInv

\* The sets that SpendCovered speaks of.
LEMMA EventSets ==
  ASSUME BudgetInv, NEW b
  PROVE  /\ EventsFor(b) \in SUBSET Metrics /\ Unrecorded(b) \in SUBSET Metrics
         /\ Cost(EventsFor(b)) \in Nat /\ Cost(Unrecorded(b)) \in Nat
<1>1. EventsFor(b) \in SUBSET Metrics /\ Unrecorded(b) \in SUBSET Metrics
  BY DEF EventsFor, Unrecorded, BudgetInv, BudgetTypeOK
<1> QED BY <1>1, CostsAdd

\* Steps that move deliveries, or kill the task, or lose the memory: what was recorded
\* stays as it is or is all forgotten.
LEMMA DeliverySteps ==
  ASSUME BudgetInv, DOMAIN metrics' = DOMAIN metrics, metrics' \in [DOMAIN metrics -> Delivery],
         \A m \in DOMAIN metrics :
           /\ metrics[m].count <= metrics'[m].count
           /\ recorded'[m] + Waiting(m)' <= metrics'[m].count
           /\ metrics'[m].st = "acked" => metrics[m].st = "acked" \/ recorded'[m] > 0,
         inbox' \in Seq(DOMAIN metrics), handling' \in DOMAIN metrics \cup {NoMetric},
         handling' = handling \/ handling' = NoMetric,
         consuming' \in BOOLEAN,
         budgetFaults' \in [post : 0..MaxPosts, ack : 0..MaxAckFaults, crash : 0..MaxBudgetCrashes],
         \/ UNCHANGED <<spend, recorded, posted, wiped>>
         \/ /\ spend' = NoSpend /\ recorded' = NoRecords /\ posted' = NoSpend
            /\ wiped' = wiped \cup {m \in Metrics : recorded[m] > 0} /\ handling' = NoMetric
  PROVE  BudgetInv'
<1>1. BudgetTypeOK'
  BY SMTT(20) DEF BudgetInv, BudgetTypeOK, NoSpend, NoRecords
<1>2. RecordsExplained'
  <2>1. \A m \in DOMAIN metrics : metrics[m].st = "acked" => recorded'[m] > 0 \/ m \in wiped'
    BY DEF BudgetInv, RecordsExplained, BudgetTypeOK
  <2> QED BY <2>1 DEF RecordsExplained
<1>3. RecordsKnown'
  BY BudgetAssumption DEF BudgetInv, RecordsKnown, NoRecords
<1>4. SpendCovered'
  <2> SUFFICES ASSUME \A m \in DOMAIN metrics : metrics'[m].count <= 1, NEW b \in Budgets
               PROVE  spend'[b] + Cost(Unrecorded(b)') <= posted'[b] + Cost(EventsFor(b)')
    BY DEF SpendCovered, Incurred, Cost, Units
  <2>1. EventsFor(b)' = EventsFor(b)
    BY DEF EventsFor
  <2>2. CASE UNCHANGED <<spend, recorded, posted, wiped>>
    <3>1. \A m \in DOMAIN metrics : metrics[m].count <= 1
      BY DEF BudgetInv, BudgetTypeOK, Delivery
    <3>2. Unrecorded(b)' = Unrecorded(b)
      BY <2>1, <2>2 DEF Unrecorded
    <3> QED BY <2>1, <2>2, <3>1, <3>2 DEF BudgetInv, SpendCovered, Incurred
  <2>3. CASE spend' = NoSpend /\ recorded' = NoRecords /\ posted' = NoSpend
    <3>1. Unrecorded(b)' = EventsFor(b)
      BY <2>1, <2>3 DEF Unrecorded, EventsFor, NoRecords, BudgetInv, BudgetTypeOK
    <3> QED BY <2>1, <2>3, <3>1, EventSets DEF NoSpend
  <2> QED BY <2>2, <2>3
<1> QED BY <1>1, <1>2, <1>3, <1>4 DEF BudgetInv

\* What the invariant says of the types, ready for use.
LEMMA BudgetTypes ==
  ASSUME BudgetInv
  PROVE  /\ DOMAIN metrics \subseteq Metrics /\ metrics \in [DOMAIN metrics -> Delivery]
         /\ inbox \in Seq(DOMAIN metrics) /\ handling \in DOMAIN metrics \cup {NoMetric}
         /\ recorded \in [Metrics -> Nat] /\ consuming \in BOOLEAN
         /\ NoMetric \notin Metrics
BY BudgetAssumption DEF BudgetInv, BudgetTypeOK

LEMMA DeliveryCounts ==
  ASSUME BudgetInv, NEW m \in DOMAIN metrics
  PROVE  /\ m \in Metrics /\ recorded[m] \in Nat /\ Waiting(m) \in Nat /\ metrics[m].count \in Nat
         /\ recorded[m] + Waiting(m) <= metrics[m].count
<1>1. Waiting(m) \in Nat
  BY BudgetTypes, InboxCounts
<1>2. m \in Metrics /\ recorded[m] \in Nat /\ metrics[m].count \in Nat
  BY BudgetTypes DEF Delivery
<1> QED BY <1>1, <1>2 DEF BudgetInv, RecordsExplained

\* The bounds on faults, posts and restarts are kept by one more below them.
LEMMA FaultCounts ==
  ASSUME BudgetInv
  PROVE  LET Faults == [post : 0..MaxPosts, ack : 0..MaxAckFaults, crash : 0..MaxBudgetCrashes]
         IN  /\ budgetFaults \in Faults
             /\ budgetFaults.ack < MaxAckFaults => [budgetFaults EXCEPT !.ack = @ + 1] \in Faults
             /\ budgetFaults.post < MaxPosts => [budgetFaults EXCEPT !.post = @ + 1] \in Faults
             /\ budgetFaults.crash < MaxBudgetCrashes
                  => [budgetFaults EXCEPT !.crash = @ + 1] \in Faults
<1>1. budgetFaults \in [post : 0..MaxPosts, ack : 0..MaxAckFaults, crash : 0..MaxBudgetCrashes]
  BY DEF BudgetInv, BudgetTypeOK
<1>2. MaxPosts \in Nat /\ MaxAckFaults \in Nat /\ MaxBudgetCrashes \in Nat
  BY BudgetAssumption
<1>3. budgetFaults.ack < MaxAckFaults => budgetFaults.ack + 1 \in 0..MaxAckFaults
  BY <1>1, <1>2
<1>4. budgetFaults.post < MaxPosts => budgetFaults.post + 1 \in 0..MaxPosts
  BY <1>1, <1>2
<1>5. budgetFaults.crash < MaxBudgetCrashes => budgetFaults.crash + 1 \in 0..MaxBudgetCrashes
  BY <1>1, <1>2
<1> QED BY <1>1, <1>3, <1>4, <1>5

\* Pushed, expired, acknowledged, returned, or the task dies of a failed nak.
LEMMA AckSteps ==
  ASSUME BudgetInv,
         \/ \E m \in Metrics : PushMetric(m) \/ ExpireMetric(m)
         \/ AckMetric \/ AckMetricFails \/ NakMetric \/ NakMetricFails
  PROVE  BudgetInv'
<1> DEFINE D == DOMAIN metrics
           Faults == [post : 0..MaxPosts, ack : 0..MaxAckFaults, crash : 0..MaxBudgetCrashes]
           fault == [budgetFaults EXCEPT !.ack = @ + 1]
<1>1. budgetFaults \in Faults /\ (budgetFaults.ack < MaxAckFaults => fault \in Faults)
  BY FaultCounts
<1>2. ASSUME inbox' = inbox PROVE \A m : Waiting(m)' = Waiting(m)
  BY <1>2 DEF Waiting
<1> HIDE DEF fault, Faults
<1>3. ASSUME NEW m \in Metrics, PushMetric(m) PROVE BudgetInv'
  <2>1. /\ m \in D /\ metrics' = Delivered(metrics, m) /\ inbox' = Append(inbox, m)
        /\ UNCHANGED <<handling, spend, recorded, posted, consuming, wiped, budgetFaults>>
    BY <1>3 DEF PushMetric
  <2>2. /\ metrics' \in [D -> Delivery] /\ metrics'[m].count = metrics[m].count + 1
        /\ metrics'[m].st = "pending" /\ \A n \in D \ {m} : metrics'[n] = metrics[n]
    BY <2>1, BudgetTypes, ConsumerSteps
  <2>3. inbox' \in Seq(D) /\ \A n : Waiting(n)' = Waiting(n) + (IF n = m THEN 1 ELSE 0)
    <3>1. inbox \in Seq(D)
      BY BudgetTypes
    <3> QED BY <2>1, <3>1, InboxCounts
  <2>4. \A n \in D : /\ metrics[n].count <= metrics'[n].count
                     /\ recorded'[n] + Waiting(n)' <= metrics'[n].count
                     /\ metrics'[n].st = "acked" => metrics[n].st = "acked" \/ recorded'[n] > 0
    <3> SUFFICES ASSUME NEW n \in D
                 PROVE  /\ metrics[n].count <= metrics'[n].count
                        /\ recorded[n] + Waiting(n)' <= metrics'[n].count
                        /\ metrics'[n].st = "acked" => metrics[n].st = "acked"
      BY <2>1
    <3>1. recorded[n] \in Nat /\ Waiting(n) \in Nat /\ metrics[n].count \in Nat
          /\ recorded[n] + Waiting(n) <= metrics[n].count
      BY DeliveryCounts
    <3>2. CASE n = m
      BY <2>2, <2>3, <3>1, <3>2
    <3>3. CASE n # m
      BY <2>2, <2>3, <3>1, <3>3
    <3> QED BY <3>2, <3>3
  <2>5. DOMAIN metrics' = D
    BY <2>2
  <2>6. handling' \in D \cup {NoMetric} /\ consuming' \in BOOLEAN /\ budgetFaults' \in Faults
    BY <1>1, <2>1, BudgetTypes
  <2> QED BY <2>1, <2>2, <2>3, <2>4, <2>5, <2>6, DeliverySteps DEF Faults
<1>4. ASSUME NEW m \in D, metrics' \in {Returned(metrics, m), metrics}, inbox' = inbox,
             handling' \in {handling, NoMetric}, consuming' \in BOOLEAN, budgetFaults' \in Faults,
             UNCHANGED <<spend, recorded, posted, wiped>>
      PROVE  BudgetInv'
  <2>1. /\ metrics' \in [D -> Delivery] /\ DOMAIN metrics' = D
        /\ metrics'[m].count = metrics[m].count /\ (metrics'[m].st = "acked" => metrics[m].st = "acked")
        /\ \A n \in D \ {m} : metrics'[n] = metrics[n]
    <3>1. metrics \in [D -> Delivery]
      BY BudgetTypes
    <3> QED BY <1>4, <3>1, ConsumerSteps
  <2>2. \A n \in D : /\ metrics'[n].count = metrics[n].count
                     /\ metrics'[n].st = "acked" => metrics[n].st = "acked"
    BY <2>1
  <2>3. \A n \in D : /\ metrics[n].count <= metrics'[n].count
                     /\ recorded'[n] + Waiting(n)' <= metrics'[n].count
                     /\ metrics'[n].st = "acked" => metrics[n].st = "acked" \/ recorded'[n] > 0
    BY <1>2, <1>4, <2>2, DeliveryCounts
  <2>4. handling' \in D \cup {NoMetric} /\ inbox' \in Seq(D)
    BY <1>4, BudgetTypes
  <2> QED BY <1>4, <2>1, <2>3, <2>4, DeliverySteps DEF Faults
<1>5. ASSUME NEW m \in Metrics, ExpireMetric(m) PROVE BudgetInv'
  <2>1. /\ m \in D /\ metrics' = Returned(metrics, m) /\ inbox' = inbox /\ handling' = handling
        /\ UNCHANGED <<spend, recorded, posted, wiped, consuming>>
        /\ budgetFaults.ack < MaxAckFaults /\ budgetFaults' = fault
    BY <1>5 DEF ExpireMetric, fault
  <2>2. consuming' \in BOOLEAN /\ budgetFaults' \in Faults
    BY <1>1, <2>1, BudgetTypes
  <2> QED BY <1>4, <2>1, <2>2
<1>6. CASE AckMetricFails \/ NakMetric \/ NakMetricFails
  <2>1. /\ handling \in Metrics /\ metrics' \in {Returned(metrics, handling), metrics}
        /\ inbox' = inbox /\ handling' = NoMetric
        /\ UNCHANGED <<spend, recorded, posted, wiped>>
        /\ consuming' \in {consuming, FALSE}
        /\ budgetFaults' = budgetFaults \/ (budgetFaults.ack < MaxAckFaults /\ budgetFaults' = fault)
    BY <1>6, BudgetAssumption DEF AckMetricFails, NakMetric, NakMetricFails, fault
  <2>2. consuming' \in BOOLEAN /\ handling \in D
    BY <2>1, BudgetTypes
  <2>3. budgetFaults' \in Faults
    BY <1>1, <2>1
  <2> QED BY <1>4, <2>1, <2>2, <2>3
<1>7. CASE AckMetric
  <2>1. /\ handling \in D /\ metrics' = Acked(metrics, handling) /\ recorded[handling] > 0
        /\ inbox' = inbox /\ handling' = NoMetric
        /\ UNCHANGED <<spend, recorded, posted, consuming, wiped, budgetFaults>>
    BY <1>7, BudgetTypes DEF AckMetric, BudgetInv, RecordsKnown
  <2>2. /\ metrics' \in [D -> Delivery] /\ DOMAIN metrics' = D
        /\ metrics'[handling].count = metrics[handling].count
        /\ \A n \in D \ {handling} : metrics'[n] = metrics[n]
    <3>1. metrics \in [D -> Delivery]
      BY BudgetTypes
    <3> QED BY <2>1, <3>1, ConsumerSteps
  <2>3. \A n \in D : /\ metrics[n].count <= metrics'[n].count
                     /\ recorded'[n] + Waiting(n)' <= metrics'[n].count
                     /\ metrics'[n].st = "acked" => metrics[n].st = "acked" \/ recorded'[n] > 0
    <3>1. \A n \in D : metrics'[n].count = metrics[n].count
      BY <2>2
    <3>2. \A n \in D : n # handling => metrics'[n].st = metrics[n].st
      BY <2>2
    <3> QED BY <1>2, <2>1, <3>1, <3>2, DeliveryCounts
  <2>4. /\ handling' \in D \cup {NoMetric} /\ inbox' \in Seq(D)
        /\ consuming' \in BOOLEAN /\ budgetFaults' \in Faults
    BY <1>1, <2>1, BudgetTypes
  <2> QED BY <2>1, <2>2, <2>3, <2>4, DeliverySteps DEF Faults
<1> QED BY <1>3, <1>5, <1>6, <1>7

LEMMA RestartStep ==
  ASSUME BudgetInv, RestartBudget
  PROVE  BudgetInv'
<1> DEFINE D == DOMAIN metrics
<1>1. /\ inbox' = <<>> /\ handling' = NoMetric /\ consuming' = TRUE
      /\ spend' = NoSpend /\ recorded' = NoRecords /\ posted' = NoSpend
      /\ wiped' = wiped \cup {m \in Metrics : recorded[m] > 0}
      /\ budgetFaults.crash < MaxBudgetCrashes
      /\ budgetFaults' = [budgetFaults EXCEPT !.crash = @ + 1]
      /\ metrics' = [m \in D |-> IF metrics[m].st = "pending"
                                THEN [metrics[m] EXCEPT !.st = "redeliver"] ELSE metrics[m]]
  BY DEF RestartBudget, EmptyMemory
<1>2. /\ metrics' \in [D -> Delivery] /\ DOMAIN metrics' = D
      /\ \A m \in D : /\ metrics'[m].count = metrics[m].count
                      /\ metrics'[m].st = "acked" => metrics[m].st = "acked"
  <2>1. metrics \in [D -> Delivery] /\ metrics' = [m \in D |-> metrics'[m]]
    BY <1>1, BudgetTypes
  <2>2. ASSUME NEW m \in D
        PROVE  /\ metrics'[m] \in Delivery /\ metrics'[m].count = metrics[m].count
               /\ metrics'[m].st = "acked" => metrics[m].st = "acked"
    <3>1. metrics[m] \in Delivery
      BY <2>1
    <3>2. metrics'[m] = IF metrics[m].st = "pending"
                       THEN [metrics[m] EXCEPT !.st = "redeliver"] ELSE metrics[m]
      BY <1>1
    <3> QED BY <3>1, <3>2 DEF Delivery, DeliveryStates
  <2> QED BY <2>1, <2>2
<1>3. budgetFaults' \in [post : 0..MaxPosts, ack : 0..MaxAckFaults, crash : 0..MaxBudgetCrashes]
  BY <1>1, FaultCounts
<1>4. inbox' \in Seq(D) /\ \A m : Waiting(m)' = 0
  <2>1. \A m : {i \in DOMAIN inbox' : inbox'[i] = m} = {}
    BY <1>1
  <2> QED BY <1>1, <2>1, FS_EmptySet DEF Waiting
<1>5. \A m \in D : /\ metrics[m].count <= metrics'[m].count
                   /\ recorded'[m] + Waiting(m)' <= metrics'[m].count
                   /\ metrics'[m].st = "acked" => metrics[m].st = "acked" \/ recorded'[m] > 0
  BY <1>1, <1>2, <1>4, DeliveryCounts DEF NoRecords
<1> QED BY <1>1, <1>2, <1>3, <1>4, <1>5, DeliverySteps

\* One event more to pay for, and none of it recorded.
LEMMA PublishMetricStep ==
  ASSUME BudgetInv, NEW new \in Metrics, PublishMetric(new)
  PROVE  BudgetInv'
<1> DEFINE D == DOMAIN metrics
<1>1. /\ new \notin D /\ metrics' = Published(metrics, new)
      /\ UNCHANGED <<inbox, handling, spend, recorded, posted, consuming, wiped, budgetFaults>>
  BY DEF PublishMetric
<1>2. /\ DOMAIN metrics' = D \cup {new} /\ metrics'[new] = Stored
      /\ \A m \in D : metrics'[m] = metrics[m]
  BY <1>1 DEF Published
<1>3. BudgetTypeOK'
  <2>1. metrics' \in [DOMAIN metrics' -> Delivery]
    <3>1. metrics \in [D -> Delivery] /\ Stored \in Delivery
      BY BudgetTypes DEF Stored, Delivery, DeliveryStates
    <3>2. metrics' = [m \in D \cup {new} |-> metrics'[m]]
      BY <1>1 DEF Published
    <3> QED BY <1>2, <3>1, <3>2
  <2>2. inbox' \in Seq(DOMAIN metrics')
    <3>1. inbox \in Seq(D) /\ D \subseteq DOMAIN metrics'
      BY <1>2, BudgetTypes
    <3> QED BY <1>1, <3>1
  <2> QED BY <1>1, <1>2, <2>1, <2>2 DEF BudgetInv, BudgetTypeOK
<1>4. recorded[new] = 0 /\ Waiting(new) = 0
  <2>1. {i \in DOMAIN inbox : inbox[i] = new} = {}
    BY <1>1, BudgetTypes
  <2> QED BY <1>1, <2>1, FS_EmptySet DEF Waiting, BudgetInv, RecordsKnown
<1>5. \A m : Waiting(m)' = Waiting(m)
  BY <1>1 DEF Waiting
<1>6. RecordsExplained'
  <2> SUFFICES ASSUME NEW m \in D \cup {new}
               PROVE  /\ recorded[m] + Waiting(m) <= metrics'[m].count
                      /\ metrics'[m].st = "acked" => recorded[m] > 0 \/ m \in wiped
    BY <1>1, <1>2, <1>5 DEF RecordsExplained
  <2>1. CASE m = new
    BY <1>2, <1>4, <2>1 DEF Stored
  <2>2. CASE m \in D
    BY <1>2, <2>2 DEF BudgetInv, RecordsExplained
  <2> QED BY <2>1, <2>2
<1>7. RecordsKnown'
  BY <1>1, <1>2 DEF BudgetInv, RecordsKnown
<1>8. SpendCovered'
  <2> SUFFICES ASSUME \A m \in D \cup {new} : metrics'[m].count <= 1, NEW b \in Budgets
               PROVE  spend[b] + Cost(Unrecorded(b)') <= posted[b] + Cost(EventsFor(b)')
    BY <1>1, <1>2 DEF SpendCovered, Incurred, Cost, Units
  <2>1. spend[b] + Cost(Unrecorded(b)) <= posted[b] + Cost(EventsFor(b))
    BY <1>2 DEF BudgetInv, SpendCovered, Incurred
  <2>2. CASE new \notin Malformed /\ BudgetOf[new] = b
    <3>1. EventsFor(b)' = EventsFor(b) \cup {new} /\ Unrecorded(b)' = Unrecorded(b) \cup {new}
      BY <1>1, <1>2, <1>4, <2>2 DEF EventsFor, Unrecorded
    <3>2. new \in Metrics \ EventsFor(b) /\ new \in Metrics \ Unrecorded(b)
      BY <1>1 DEF EventsFor, Unrecorded
    <3>3. /\ EventsFor(b) \in SUBSET Metrics /\ Unrecorded(b) \in SUBSET Metrics
          /\ Cost(EventsFor(b)) \in Nat /\ Cost(Unrecorded(b)) \in Nat
      BY EventSets
    <3>4. Cost(EventsFor(b) \cup {new}) = Cost(EventsFor(b)) + CostOf[new]
      BY <3>2, <3>3, CostsAdd
    <3>5. Cost(Unrecorded(b) \cup {new}) = Cost(Unrecorded(b)) + CostOf[new]
      BY <3>2, <3>3, CostsAdd
    <3>6. spend[b] \in Nat /\ posted[b] \in Nat /\ CostOf[new] \in Nat
      BY BudgetAssumption DEF BudgetInv, BudgetTypeOK
    <3> QED BY <2>1, <3>1, <3>3, <3>4, <3>5, <3>6
  <2>3. CASE ~(new \notin Malformed /\ BudgetOf[new] = b)
    <3>1. EventsFor(b)' = EventsFor(b)
      BY <1>2, <2>3 DEF EventsFor
    <3>2. Unrecorded(b)' = Unrecorded(b)
      BY <1>1, <3>1 DEF Unrecorded
    <3> QED BY <2>1, <3>1, <3>2
  <2> QED BY <2>2, <2>3
<1> QED BY <1>3, <1>6, <1>7, <1>8 DEF BudgetInv

\* One delivery leaves the inbox for the books: while no event comes twice, its cost
\* leaves what is still to be recorded.
LEMMA ConsumeStep ==
  ASSUME BudgetInv, ConsumeMetric
  PROVE  BudgetInv'
<1> DEFINE D == DOMAIN metrics
<1>0. inbox # <<>> /\ inbox \in Seq(D)
  BY BudgetTypes DEF ConsumeMetric
<1> PICK m \in D : m = Head(inbox)
  BY <1>0
<1>1. /\ handling = NoMetric /\ inbox # <<>> /\ handling' = m /\ inbox' = Tail(inbox)
      /\ UNCHANGED <<metrics, posted, consuming, wiped, budgetFaults>>
      /\ m \in Malformed => UNCHANGED <<spend, recorded>>
      /\ m \notin Malformed => /\ spend' = Add(BudgetOf[m], CostOf[m])
                              /\ recorded' = [recorded EXCEPT ![m] = @ + 1]
  BY DEF ConsumeMetric, RecordSpend
<1>2. inbox \in Seq(D) /\ m \in D /\ m \in Metrics /\ inbox' \in Seq(D)
  BY <1>1, BudgetTypes
<1>3. \A n : Waiting(n)' \in Nat /\ Waiting(n) = Waiting(n)' + (IF n = m THEN 1 ELSE 0)
  BY <1>1, <1>2, InboxCounts
<1>4. /\ recorded \in [Metrics -> Nat] /\ recorded' \in [Metrics -> Nat]
      /\ \A n \in Metrics \ {m} : recorded'[n] = recorded[n]
      /\ recorded'[m] = recorded[m] + (IF m \in Malformed THEN 0 ELSE 1)
  <2>1. recorded \in [Metrics -> Nat] /\ m \in Metrics
    BY <1>2, BudgetTypes
  <2>2. CASE m \in Malformed
    BY <1>1, <2>1, <2>2
  <2>3. CASE m \notin Malformed
    BY <1>1, <2>1, <2>3
  <2> QED BY <2>2, <2>3
<1>5. /\ spend \in [Budgets -> Nat] /\ spend' \in [Budgets -> Nat] /\ CostOf[m] \in Nat
      /\ \A b \in Budgets : spend'[b] = spend[b] + (IF m \notin Malformed /\ b = BudgetOf[m]
                                                    THEN CostOf[m] ELSE 0)
  <2>1. spend \in [Budgets -> Nat] /\ CostOf[m] \in Nat
    BY <1>2, BudgetAssumption DEF BudgetInv, BudgetTypeOK
  <2>2. CASE m \in Malformed
    <3>1. spend' = spend
      BY <1>1, <2>2
    <3> QED BY <2>1, <2>2, <3>1
  <2>3. CASE m \notin Malformed /\ BudgetOf[m] \notin Budgets
    <3>1. spend' = spend
      BY <1>1, <2>3 DEF Add
    <3> QED BY <2>1, <2>3, <3>1
  <2>4. CASE m \notin Malformed /\ BudgetOf[m] \in Budgets
    <3>1. spend' = [spend EXCEPT ![BudgetOf[m]] = @ + CostOf[m]]
      BY <1>1, <2>4 DEF Add
    <3> QED BY <2>1, <2>4, <3>1
  <2> QED BY <2>2, <2>3, <2>4
<1>6. BudgetTypeOK'
  <2>1. posted \in [Budgets -> Nat] /\ wiped \subseteq Metrics /\ consuming \in BOOLEAN
        /\ D \subseteq Metrics /\ metrics \in [D -> Delivery]
    BY DEF BudgetInv, BudgetTypeOK
  <2> QED BY <1>1, <1>2, <1>4, <1>5, <2>1, FaultCounts DEF BudgetTypeOK
<1>7. RecordsExplained'
  <2> SUFFICES ASSUME NEW n \in D
               PROVE  /\ recorded'[n] + Waiting(n)' <= metrics[n].count
                      /\ metrics[n].st = "acked" => recorded'[n] > 0 \/ n \in wiped
    BY <1>1 DEF RecordsExplained
  <2>1. /\ n \in Metrics /\ recorded[n] \in Nat /\ Waiting(n) \in Nat /\ metrics[n].count \in Nat
        /\ recorded[n] + Waiting(n) <= metrics[n].count
    BY DeliveryCounts
  <2>2. Waiting(n)' \in Nat /\ Waiting(n) = Waiting(n)' + (IF n = m THEN 1 ELSE 0)
    BY <1>3
  <2>3. /\ recorded'[n] \in Nat /\ recorded'[n] >= recorded[n]
        /\ recorded'[n] <= recorded[n] + (IF n = m THEN 1 ELSE 0)
    BY <1>4, <2>1
  <2> QED BY <2>1, <2>2, <2>3 DEF BudgetInv, RecordsExplained
<1>8. RecordsKnown'
  <2>1. \A n \in Metrics \ D : recorded'[n] = 0
    BY <1>2, <1>4 DEF BudgetInv, RecordsKnown
  <2>2. m \notin Malformed => recorded'[m] > 0
    <3>1. recorded[m] \in Nat
      BY <1>2, <1>4
    <3> QED BY <1>4, <3>1
  <2> QED BY <1>1, <2>1, <2>2 DEF RecordsKnown
<1>9. SpendCovered'
  <2> SUFFICES ASSUME \A n \in D : metrics[n].count <= 1, NEW b \in Budgets
               PROVE  spend'[b] + Cost(Unrecorded(b)') <= posted[b] + Cost(EventsFor(b))
    BY <1>1 DEF SpendCovered, Incurred, Cost, Units, EventsFor
  <2>1. spend[b] + Cost(Unrecorded(b)) <= posted[b] + Cost(EventsFor(b))
    BY DEF BudgetInv, SpendCovered, Incurred
  <2>2. recorded[m] = 0
    <3>1. /\ recorded[m] \in Nat /\ Waiting(m) \in Nat /\ metrics[m].count \in Nat
          /\ recorded[m] + Waiting(m) <= metrics[m].count /\ metrics[m].count <= 1
      BY <1>2, DeliveryCounts
    <3>2. Waiting(m)' \in Nat /\ Waiting(m) = Waiting(m)' + 1
      BY <1>3
    <3> QED BY <3>1, <3>2
  <2>3. CASE m \notin Malformed /\ BudgetOf[m] = b
    <3>1. Unrecorded(b) = Unrecorded(b)' \cup {m} /\ m \notin Unrecorded(b)'
      BY <1>1, <1>2, <1>4, <2>2, <2>3, BudgetTypes DEF EventsFor, Unrecorded
    <3> DEFINE left == Unrecorded(b)'
    <3>2. left \in SUBSET Metrics /\ m \in Metrics \ left
      BY <1>2, <3>1, EventSets
    <3> HIDE DEF left
    <3>3. Cost(left \cup {m}) = Cost(left) + CostOf[m] /\ Cost(left) \in Nat
      BY <3>2, CostsAdd
    <3>4. Cost(Unrecorded(b)) = Cost(left) + CostOf[m]
      BY <3>1, <3>3 DEF left
    <3>5. spend'[b] = spend[b] + CostOf[m] /\ spend[b] \in Nat
      BY <1>5, <2>3
    <3>6. posted[b] \in Nat /\ Cost(EventsFor(b)) \in Nat
      BY EventSets DEF BudgetInv, BudgetTypeOK
    <3>7. spend'[b] + Cost(left) <= posted[b] + Cost(EventsFor(b))
      BY <1>5, <2>1, <3>3, <3>4, <3>5, <3>6
    <3> QED BY <3>7 DEF left
  <2>4. CASE ~(m \notin Malformed /\ BudgetOf[m] = b)
    <3>1. Unrecorded(b)' = Unrecorded(b)
      <4>1. ASSUME NEW n \in EventsFor(b) PROVE recorded'[n] = recorded[n]
        BY <1>4, <2>4, BudgetTypes DEF EventsFor
      <4> QED BY <1>1, <4>1 DEF Unrecorded, EventsFor
    <3>2. spend'[b] = spend[b]
      BY <1>5, <2>4
    <3> QED BY <2>1, <3>1, <3>2
  <2> QED BY <2>3, <2>4
<1> QED BY <1>6, <1>7, <1>8, <1>9 DEF BudgetInv

\* A posted transaction is spent and incurred at once.
LEMMA PostStep ==
  ASSUME BudgetInv, NEW b \in Budgets, RecordTransaction(b)
  PROVE  BudgetInv'
<1>1. /\ budgetFaults.post < MaxPosts /\ budgetFaults' = [budgetFaults EXCEPT !.post = @ + 1]
      /\ spend' = [spend EXCEPT ![b] = @ + 1] /\ posted' = [posted EXCEPT ![b] = @ + 1]
      /\ UNCHANGED <<metrics, inbox, handling, recorded, consuming, wiped>>
  BY DEF RecordTransaction, Add
<1>2. spend \in [Budgets -> Nat] /\ posted \in [Budgets -> Nat]
  BY DEF BudgetInv, BudgetTypeOK
<1>3. budgetFaults' \in [post : 0..MaxPosts, ack : 0..MaxAckFaults, crash : 0..MaxBudgetCrashes]
  BY <1>1, FaultCounts
<1>4. spend' \in [Budgets -> Nat] /\ posted' \in [Budgets -> Nat]
  BY <1>1, <1>2
<1>5. BudgetTypeOK'
  BY <1>1, <1>3, <1>4 DEF BudgetInv, BudgetTypeOK
<1>6. RecordsExplained' /\ RecordsKnown'
  BY <1>1 DEF BudgetInv, RecordsExplained, RecordsKnown, Waiting
<1>7. SpendCovered'
  <2> SUFFICES ASSUME \A n \in DOMAIN metrics : metrics[n].count <= 1, NEW a \in Budgets
               PROVE  spend'[a] + Cost(Unrecorded(a)) <= posted'[a] + Cost(EventsFor(a))
    BY <1>1 DEF SpendCovered, Incurred, Cost, Units, EventsFor, Unrecorded
  <2>1. spend[a] + Cost(Unrecorded(a)) <= posted[a] + Cost(EventsFor(a))
    BY DEF BudgetInv, SpendCovered, Incurred
  <2>2. Cost(EventsFor(a)) \in Nat /\ Cost(Unrecorded(a)) \in Nat
    BY EventSets
  <2>3. /\ spend[a] \in Nat /\ posted[a] \in Nat
        /\ spend'[a] = spend[a] + (IF a = b THEN 1 ELSE 0)
        /\ posted'[a] = posted[a] + (IF a = b THEN 1 ELSE 0)
    BY <1>1, <1>2
  <2> QED BY <2>1, <2>2, <2>3
<1> QED BY <1>5, <1>6, <1>7 DEF BudgetInv

LEMMA NextBudgetInv == BudgetInv /\ [BudgetNext]_budgetVars => BudgetInv'
<1> SUFFICES ASSUME BudgetInv, [BudgetNext]_budgetVars PROVE BudgetInv'
  OBVIOUS
<1>1. CASE UNCHANGED budgetVars
  BY <1>1 DEF budgetVars, BudgetInv, BudgetTypeOK, RecordsExplained, RecordsKnown, SpendCovered,
              Incurred, Cost, Units, EventsFor, Unrecorded, Waiting
<1>2. CASE BudgetNext
  BY <1>2, PublishMetricStep, AckSteps, ConsumeStep, PostStep, RestartStep DEF BudgetNext
<1> QED BY <1>1, <1>2

LEMMA BudgetInvariance == BudgetSpec => []BudgetInv
BY InitBudgetInv, NextBudgetInv, PTL DEF BudgetSpec

\* A hard limit reached by what was not incurred needs an event that came twice.
LEMMA LimitsKept == BudgetInv => EarlyLimitNeedsRedelivery
<1> SUFFICES ASSUME BudgetInv, NEW b \in Budgets, BudgetStatus(b) = "hard_limit",
                    Incurred(b) < LimitOf[b], \A m \in DOMAIN metrics : ~(metrics[m].count > 1)
             PROVE  FALSE
  BY DEF EarlyLimitNeedsRedelivery
<1>1. ~(spend[b] < LimitOf[b])
  BY DEF BudgetStatus
<1>2. \A m \in DOMAIN metrics : metrics[m].count <= 1
  BY DeliveryCounts
<1>3. spend[b] + Cost(Unrecorded(b)) <= Incurred(b)
  BY <1>2 DEF BudgetInv, SpendCovered
<1>4. spend[b] \in Nat /\ LimitOf[b] \in Nat /\ Cost(Unrecorded(b)) \in Nat
  BY EventSets, BudgetAssumption DEF BudgetInv, BudgetTypeOK
<1>5. Incurred(b) \in Nat
  BY EventSets DEF Incurred, BudgetInv, BudgetTypeOK
<1> QED BY <1>1, <1>3, <1>4, <1>5

\* Type correctness of the budget service: one event and one delivery at a time, totals
\* and transactions that only a restart forgets (budget-accounting main.py).
THEOREM BudgetTypeCorrect == BudgetSpec => []BudgetTypeOK
<1>1. BudgetInv => BudgetTypeOK
  BY DEF BudgetInv
<1> QED BY <1>1, BudgetInvariance, PTL

\* For every number of events, budgets, posts, redeliveries and restarts: an event is
\* recorded at most once per delivery, a settled one was recorded, and a budget blocks
\* before its limit was spent only if an event was delivered twice (main.py:34-42, 157-187).
THEOREM SpendExplainedCorrect == BudgetSpec => []SpendExplained
<1>1. BudgetInv => SpendExplained
  BY LimitsKept DEF BudgetInv, SpendExplained
<1> QED BY <1>1, BudgetInvariance, PTL

-----------------------------------------------------------------------------
(* Extension controller.                                                     *)

\* The inductive invariant: what the loop is about to remove was in the table when
\* it was listed.
RemovalsListed ==
  reconciler.pc \in {"apply", "publish", "delete"} =>
    \A e \in reconciler.todo :
      ~Declared(reconciler.desired[e]) => reconciler.existing[e] # NoRow

\* An event tells what the row of the extension is.
Tells(row, said) ==
  IF row = NoRow THEN said = "removing" ELSE row.status \in {said, "removing"}

\* The event that is about to be published tells what the loop has written, as long as the
\* API has not written over it.
EventPending ==
  reconciler.pc = "publish" =>
    /\ reconciler.current \in Extensions /\ reconciler.said \in ExtStatuses
    /\ reconciler.current \in silent \/ Tells(rows[reconciler.current], reconciler.said)

ExtInv == ExtTypeOK /\ RemovalsListed /\ EventPending /\ EventsExplained

ReconcilerType ==
  [pc : {"idle", "list", "apply", "publish", "delete"},
   desired : [Extensions -> Manifests \cup {NoManifest}],
   existing : [Extensions -> ExtRow \cup {NoRow}],
   todo : SUBSET Extensions, current : Extensions \cup {NoRow},
   said : ExtStatuses \cup {"none"}]

\* The row made from a manifest is a row, and its status is one.
LEMMA RowsOfManifests ==
  ASSUME NEW m \in Manifests
  PROVE  RowFor(m) \in ExtRow /\ RowFor(m) # NoRow /\ StatusOf(m) \in ExtStatuses
<1>1. RowFor(m) \in ExtRow
  BY DEF RowFor, ExtRow, StatusOf, ExtStatuses
<1> QED BY <1>1, ExtensionAssumption DEF StatusOf, ExtStatuses

\* A row of the table is a row, and keeps being one when its status changes.
LEMMA RowsRemain ==
  ASSUME NEW row \in ExtRow, NEW said \in ExtStatuses
  PROVE  /\ [row EXCEPT !.status = said] \in ExtRow
         /\ [row EXCEPT !.status = said] # NoRow
         /\ [row EXCEPT !.status = said].status = said
<1>1. /\ [row EXCEPT !.status = said] \in ExtRow
      /\ [row EXCEPT !.status = said].status = said
  BY DEF ExtRow
<1> QED BY <1>1, ExtensionAssumption

\* A step that only ends a turn of the loop keeps what it must about removals.
LEMMA ProcessedStep ==
  ASSUME ExtInv, NEW e \in Extensions, Processed(e)
  PROVE  /\ reconciler' \in ReconcilerType /\ RemovalsListed'
         /\ reconciler'.pc = reconciler.pc /\ reconciler'.current = reconciler.current
         /\ reconciler'.said = reconciler.said
<1>1. /\ reconciler \in ReconcilerType
      /\ reconciler' = [reconciler EXCEPT !.todo = @ \ {e}]
  BY DEF Processed, ExtInv, ExtTypeOK, ReconcilerType
<1> QED BY <1>1 DEF ExtInv, RemovalsListed, ReconcilerType

\* The loop writes a row, and its event comes next.
LEMMA AnnounceStep ==
  ASSUME ExtInv, NEW e \in Extensions, NEW row \in ExtRow \cup {NoRow}, NEW said \in ExtStatuses,
         reconciler.pc \in {"apply", "delete"}, Announce(e, said),
         rows' = [rows EXCEPT ![e] = row], Tells(row, said)
  PROVE  ExtInv'
<1>1. /\ reconciler \in ReconcilerType
      /\ rows \in [Extensions -> ExtRow \cup {NoRow}] /\ silent \subseteq Extensions
      /\ reconciler' = [reconciler EXCEPT !.pc = "publish", !.todo = @ \ {e}, !.current = e,
                                          !.said = said]
      /\ silent' = silent \ {e} /\ UNCHANGED <<manifest, apiCall, lastEvent>>
  BY DEF Announce, ExtInv, ExtTypeOK, ReconcilerType
<1>2. /\ reconciler' \in ReconcilerType /\ reconciler'.pc = "publish"
      /\ reconciler'.current = e /\ reconciler'.said = said
  BY <1>1 DEF ReconcilerType
<1>3. RemovalsListed'
  BY <1>1 DEF ReconcilerType, ExtInv, RemovalsListed
<1>4. /\ rows' \in [Extensions -> ExtRow \cup {NoRow}] /\ rows'[e] = row
      /\ \A x \in Extensions \ {e} : rows'[x] = rows[x]
  BY <1>1
<1>5. ExtTypeOK'
  BY <1>1, <1>2, <1>4 DEF ExtInv, ExtTypeOK, ReconcilerType, NoCall
<1>6. EventPending'
  BY <1>2, <1>4 DEF EventPending, Tells
<1>7. EventsExplained'
  <2> SUFFICES ASSUME NEW x \in Extensions, x \notin silent', ~Announced(x)'
               PROVE  IF rows'[x] = NoRow THEN lastEvent'[x] \in {"none", "removing"}
                      ELSE rows'[x].status \in {lastEvent'[x], "removing"}
    BY DEF EventsExplained
  <2>1. x # e
    BY <1>2 DEF Announced
  <2>2. x \notin silent /\ ~Announced(x)
    BY <1>1, <2>1 DEF Announced
  <2> QED BY <1>1, <1>4, <2>1, <2>2 DEF ExtInv, EventsExplained
<1> QED BY <1>3, <1>5, <1>6, <1>7 DEF ExtInv

\* The event comes out, or is lost.
LEMMA PublishStep ==
  ASSUME ExtInv, PublishEvent
  PROVE  ExtInv'
<1>1. PICK e, said : e = reconciler.current /\ said = reconciler.said
  OBVIOUS
<1>2. /\ e \in Extensions /\ said \in ExtStatuses /\ reconciler.pc = "publish"
      /\ e \in silent \/ Tells(rows[e], said)
  BY <1>1 DEF PublishEvent, ExtInv, EventPending
<1>3. /\ reconciler' = [reconciler EXCEPT !.pc = "apply", !.current = NoRow, !.said = "none"]
      /\ UNCHANGED <<manifest, rows, apiCall>>
      /\ \/ lastEvent' = [lastEvent EXCEPT ![e] = said] /\ UNCHANGED silent
         \/ silent' = silent \cup {e} /\ UNCHANGED lastEvent
  BY <1>1 DEF PublishEvent
<1>4. /\ reconciler \in ReconcilerType /\ silent \subseteq Extensions
      /\ lastEvent \in [Extensions -> ExtStatuses \cup {"none"}]
  BY DEF ExtInv, ExtTypeOK, ReconcilerType
<1>5. reconciler' \in ReconcilerType /\ reconciler'.pc = "apply"
  BY <1>3, <1>4 DEF ReconcilerType
<1>6. RemovalsListed' /\ EventPending'
  <2>1. RemovalsListed'
    BY <1>2, <1>3, <1>4 DEF ReconcilerType, ExtInv, RemovalsListed
  <2> QED BY <1>5, <2>1 DEF EventPending
<1>7. /\ lastEvent' \in [Extensions -> ExtStatuses \cup {"none"}] /\ silent' \subseteq Extensions
      /\ \A x \in Extensions \ {e} : lastEvent'[x] = lastEvent[x] /\ (x \in silent' <=> x \in silent)
      /\ e \in silent' \/ (lastEvent'[e] = said /\ e \notin silent)
  BY <1>2, <1>3, <1>4
<1>8. ExtTypeOK'
  BY <1>3, <1>5, <1>7 DEF ExtInv, ExtTypeOK, ReconcilerType, NoCall
<1>9. EventsExplained'
  <2> SUFFICES ASSUME NEW x \in Extensions, x \notin silent'
               PROVE  IF rows'[x] = NoRow THEN lastEvent'[x] \in {"none", "removing"}
                      ELSE rows'[x].status \in {lastEvent'[x], "removing"}
    BY DEF EventsExplained
  <2>1. CASE x = e
    BY <1>2, <1>3, <1>7, <2>1 DEF Tells
  <2>2. CASE x # e
    <3>1. ~Announced(x) /\ x \notin silent
      BY <1>1, <1>7, <2>2 DEF Announced
    <3> QED BY <1>3, <1>7, <2>2, <3>1 DEF ExtInv, EventsExplained
  <2> QED BY <2>1, <2>2
<1> QED BY <1>6, <1>8, <1>9 DEF ExtInv

\* At the start there are no rows and were no events.
LEMMA InitExtInv == ExtInit => ExtInv
<1> SUFFICES ASSUME ExtInit PROVE ExtInv
  OBVIOUS
<1>1. ExtTypeOK
  BY DEF ExtInit, ExtTypeOK, Nothing, IdleReconciler, NoCall, ExtStatuses
<1> QED BY <1>1 DEF ExtInit, ExtInv, RemovalsListed, EventPending, EventsExplained,
                    IdleReconciler, Nothing

\* A round begins, lists the table, and ends.
LEMMA RoundStep ==
  ASSUME ExtInv,
         ScanExtensions \/ ScanFindsNothing \/ ListExtensions \/ ListExtensionsFails \/ EndRound
  PROVE  ExtInv'
<1>1. UNCHANGED <<manifest, rows, apiCall, lastEvent, silent>>
  BY DEF ScanExtensions, ScanFindsNothing, ListExtensions, ListExtensionsFails, EndRound
<1>2. reconciler \in ReconcilerType /\ IdleReconciler \in ReconcilerType
      /\ manifest \in [Extensions -> Manifests \cup {NoManifest}]
      /\ rows \in [Extensions -> ExtRow \cup {NoRow}]
  BY DEF ExtInv, ExtTypeOK, ReconcilerType, IdleReconciler, Nothing
<1>3. reconciler' \in ReconcilerType /\ RemovalsListed'
  <2>1. CASE ScanExtensions \/ ScanFindsNothing
    BY <1>2, <2>1 DEF ScanExtensions, ScanFindsNothing, IdleReconciler, ReconcilerType,
                      RemovalsListed
  <2>2. CASE ListExtensions
    BY <1>2, <2>2 DEF ListExtensions, ReconcilerType, RemovalsListed
  <2>3. CASE ListExtensionsFails \/ EndRound
    BY <1>2, <2>3 DEF ListExtensionsFails, EndRound, IdleReconciler, RemovalsListed
  <2> QED BY <2>1, <2>2, <2>3
<1>4. ExtTypeOK'
  BY <1>1, <1>3 DEF ExtInv, ExtTypeOK, ReconcilerType, NoCall
<1>5. reconciler.pc # "publish" /\ reconciler'.pc # "publish"
  BY <1>2 DEF ScanExtensions, ScanFindsNothing, ListExtensions, ListExtensionsFails, EndRound,
              IdleReconciler, ReconcilerType
<1> QED BY <1>1, <1>3, <1>4, <1>5 DEF ExtInv, EventsExplained, EventPending, Announced

\* The checkout changes, the API reads, or a write fails.
LEMMA AsideStep ==
  ASSUME ExtInv,
         \/ \E e \in Extensions, m \in Manifests \cup {NoManifest} : ChangeManifest(e, m)
         \/ \E e \in Extensions : StoreFails(e)
         \/ \E e \in Extensions, said \in {"active", "disabled"} : ApiGet(e, said)
  PROVE  ExtInv'
<1>1. UNCHANGED <<rows, lastEvent, silent>>
  BY DEF ChangeManifest, StoreFails, ApiGet
<1>2. /\ reconciler' \in ReconcilerType /\ RemovalsListed'
      /\ reconciler'.pc = reconciler.pc /\ reconciler'.current = reconciler.current
      /\ reconciler'.said = reconciler.said
  <2>1. CASE UNCHANGED reconciler
    BY <2>1 DEF ExtInv, ExtTypeOK, ReconcilerType, RemovalsListed
  <2>2. CASE \E e \in Extensions : StoreFails(e)
    BY <2>2, ProcessedStep DEF StoreFails
  <2> QED BY <2>1, <2>2 DEF ChangeManifest, ApiGet
<1>3. manifest' \in [Extensions -> Manifests \cup {NoManifest}]
  BY DEF ChangeManifest, StoreFails, ApiGet, ExtInv, ExtTypeOK
<1>4. apiCall' = NoCall' \/ apiCall' \in [ext : Extensions, row : ExtRow]
  <2>1. CASE UNCHANGED apiCall
    BY <2>1 DEF ExtInv, ExtTypeOK, NoCall
  <2>2. ASSUME NEW e \in Extensions, NEW said \in {"active", "disabled"}, ApiGet(e, said)
        PROVE  apiCall' \in [ext : Extensions, row : ExtRow]
    <3>1. rows[e] \in ExtRow /\ said \in ExtStatuses
      BY <2>2 DEF ApiGet, ExtInv, ExtTypeOK, ExtStatuses
    <3> QED BY <2>2, <3>1, RowsRemain DEF ApiGet
  <2> QED BY <2>1, <2>2 DEF ChangeManifest, StoreFails
<1>5. ExtTypeOK'
  BY <1>1, <1>2, <1>3, <1>4 DEF ExtInv, ExtTypeOK, ReconcilerType
<1> QED BY <1>1, <1>2, <1>5 DEF ExtInv, EventsExplained, EventPending, Announced

\* The loop installs or updates an extension.
LEMMA ApplyStep ==
  ASSUME ExtInv, NEW e \in Extensions, InstallExtension(e) \/ ReconcileExtension(e)
  PROVE  ExtInv'
<1>1. PICK m : m = reconciler.desired[e]
  OBVIOUS
<1>2. m \in Manifests /\ reconciler.pc = "apply"
  BY <1>1 DEF InstallExtension, ReconcileExtension, Declared, Turn
<1>3. CASE rows' = [rows EXCEPT ![e] = RowFor(m)] /\ Announce(e, StatusOf(m))
  <2>1. Tells(RowFor(m), StatusOf(m))
    BY <1>2, RowsOfManifests DEF RowFor, Tells
  <2> QED BY <1>2, <1>3, <2>1, RowsOfManifests, AnnounceStep
<1>4. CASE Processed(e) /\ UNCHANGED <<manifest, rows, apiCall, lastEvent, silent, extFaults>>
  <2>1. /\ reconciler' \in ReconcilerType /\ RemovalsListed'
        /\ reconciler'.pc = reconciler.pc /\ reconciler'.current = reconciler.current
        /\ reconciler'.said = reconciler.said
    BY <1>4, ProcessedStep
  <2>2. ExtTypeOK'
    BY <1>4, <2>1 DEF ExtInv, ExtTypeOK, ReconcilerType, NoCall
  <2> QED BY <1>4, <2>1, <2>2 DEF ExtInv, EventsExplained, EventPending, Announced
<1> QED BY <1>1, <1>3, <1>4 DEF InstallExtension, ReconcileExtension

\* The first half of a removal: the row says so.
LEMMA MarkRemovingStep ==
  ASSUME ExtInv, NEW e \in Extensions, MarkRemoving(e)
  PROVE  ExtInv'
<1> DEFINE row == [reconciler.existing[e] EXCEPT !.status = "removing"]
<1>1. /\ reconciler \in ReconcilerType /\ rows \in [Extensions -> ExtRow \cup {NoRow}]
      /\ reconciler' = [reconciler EXCEPT !.pc = "delete", !.todo = @ \ {e}, !.current = e]
      /\ reconciler.pc = "apply" /\ UNCHANGED <<manifest, apiCall, lastEvent, silent>>
  BY DEF MarkRemoving, Turn, ExtInv, ExtTypeOK, ReconcilerType
<1>2. reconciler.existing[e] \in ExtRow
  <2>1. reconciler.existing[e] # NoRow
    BY DEF MarkRemoving, Turn, ExtInv, RemovalsListed
  <2> QED BY <1>1, <2>1 DEF ReconcilerType
<1>3. row \in ExtRow /\ row # NoRow /\ row.status = "removing"
  BY <1>2, RowsRemain DEF ExtStatuses
<1> HIDE DEF row
<1>4. rows' = [rows EXCEPT ![e] = row] \/ UNCHANGED rows
  BY DEF MarkRemoving, row
<1>5. rows' \in [Extensions -> ExtRow \cup {NoRow}]
  BY <1>1, <1>3, <1>4
<1>6. reconciler' \in ReconcilerType /\ RemovalsListed'
  BY <1>1 DEF ReconcilerType, ExtInv, RemovalsListed, MarkRemoving, Turn
<1>7. ExtTypeOK'
  BY <1>1, <1>5, <1>6 DEF ExtInv, ExtTypeOK, ReconcilerType, NoCall
<1>8. EventsExplained'
  <2>1. \A x \in Extensions : rows'[x] = rows[x] \/ rows'[x] = row
    BY <1>1, <1>4
  <2>2. \A x \in Extensions : ~Announced(x)
    BY <1>1 DEF Announced
  <2> QED BY <1>1, <1>3, <2>1, <2>2 DEF ExtInv, EventsExplained
<1>9. EventPending'
  BY <1>1 DEF ReconcilerType, EventPending
<1> QED BY <1>6, <1>7, <1>8, <1>9 DEF ExtInv

\* The second half: the row is gone.
LEMMA RowGoneStep ==
  ASSUME ExtInv, NEW e \in Extensions, DeleteExtension(e)
  PROVE  ExtInv'
<1>1. reconciler \in ReconcilerType /\ reconciler.pc = "delete"
  BY DEF DeleteExtension, ExtInv, ExtTypeOK, ReconcilerType
<1>2. CASE rows' = [rows EXCEPT ![e] = NoRow] /\ Announce(e, "removing")
  <2>1. /\ "removing" \in ExtStatuses /\ NoRow \in ExtRow \cup {NoRow}
        /\ Tells(NoRow, "removing")
    BY DEF ExtStatuses, Tells
  <2> QED BY <1>1, <1>2, <2>1, AnnounceStep
<1>3. CASE /\ reconciler' = [reconciler EXCEPT !.pc = "apply", !.current = NoRow]
           /\ UNCHANGED <<manifest, rows, apiCall, lastEvent, silent>>
  <2>1. reconciler' \in ReconcilerType /\ RemovalsListed' /\ reconciler'.pc = "apply"
    BY <1>1, <1>3 DEF ReconcilerType, ExtInv, RemovalsListed
  <2>2. ExtTypeOK'
    BY <1>3, <2>1 DEF ExtInv, ExtTypeOK, ReconcilerType, NoCall
  <2> QED BY <1>1, <1>3, <2>1, <2>2 DEF ExtInv, EventsExplained, EventPending, Announced
<1> QED BY <1>2, <1>3 DEF DeleteExtension

\* The API writes the row it has read: from now on nobody was told.
LEMMA ApiUpdateStep ==
  ASSUME ExtInv, ApiUpdate
  PROVE  ExtInv'
<1> DEFINE e == apiCall.ext
<1>1. /\ e \in Extensions /\ apiCall.row \in ExtRow /\ apiCall' = NoCall
      /\ UNCHANGED <<manifest, reconciler, lastEvent, extFaults>>
  BY DEF ApiUpdate, ExtInv, ExtTypeOK
<1>2. \/ UNCHANGED <<rows, silent>>
      \/ rows' = [rows EXCEPT ![e] = apiCall.row] /\ silent' = silent \cup {e}
  BY DEF ApiUpdate
<1>3. /\ rows \in [Extensions -> ExtRow \cup {NoRow}] /\ silent \subseteq Extensions
      /\ rows' \in [Extensions -> ExtRow \cup {NoRow}] /\ silent' \subseteq Extensions
  BY <1>1, <1>2 DEF ExtInv, ExtTypeOK
<1>4. ExtTypeOK' /\ RemovalsListed'
  BY <1>1, <1>3 DEF ExtInv, ExtTypeOK, RemovalsListed, NoCall
<1>5. EventsExplained' /\ EventPending'
  BY <1>1, <1>2, <1>3 DEF ExtInv, EventsExplained, EventPending, Announced, Tells
<1> QED BY <1>4, <1>5 DEF ExtInv

\* Every step.
LEMMA NextExtInv == ExtInv /\ [ExtNext]_extVars => ExtInv'
<1> SUFFICES ASSUME ExtInv, [ExtNext]_extVars PROVE ExtInv'
  OBVIOUS
<1>1. CASE UNCHANGED extVars
  BY <1>1 DEF extVars, ExtInv, ExtTypeOK, NoCall, RemovalsListed, EventsExplained,
              EventPending, Announced, Tells
<1>2. CASE ExtNext
  BY <1>2, RoundStep, AsideStep, ApplyStep, PublishStep, MarkRemovingStep, RowGoneStep,
     ApiUpdateStep
  DEF ExtNext, Reconcile
<1> QED BY <1>1, <1>2

\* The table, the loop and the API keep their types.
THEOREM ExtensionTypeCorrect == ExtSpec => []ExtTypeOK
<1>1. ExtInv => ExtTypeOK
  BY DEF ExtInv
<1> QED BY <1>1, InitExtInv, NextExtInv, PTL DEF ExtSpec

\* In every order of the statements of the loop and of the API, and of the publishes between
\* them: whoever follows the events knows the status of every row, but for lost events,
\* writes of the API, and the event that is about to come out.
THEOREM EventsCorrect == ExtSpec => []EventsExplained
<1>1. ExtInv => EventsExplained
  BY DEF ExtInv
<1> QED BY <1>1, InitExtInv, NextExtInv, PTL DEF ExtSpec

-----------------------------------------------------------------------------
(* Platform operator.                                                        *)

\* A generation is a change of the spec: there are never more than both together.
GenerationsCounted ==
  /\ platform.generation <= opChanges.spec + 1
  /\ round.copy.generation <= opChanges.spec + 1

OperatorInv == OperatorTypeOK /\ GenerationsCounted

Rounds == [pc : {"idle", "finalizer", "check"}, copy : Objects, stale : BOOLEAN,
           left : SUBSET PlatformParts, healthy : SUBSET PlatformParts]

\* What a change of the object, or of a copy of it, leaves an object.
LEMMA ObjectsRemain ==
  /\ NoPlatform \in Objects /\ NoPlatform.generation = 1
  /\ \A spec \in SUBSET PlatformParts :
       NewPlatform(spec) \in Objects /\ NewPlatform(spec).generation = 1
  /\ \A o \in Objects :
       /\ [o EXCEPT !.finalizer = TRUE] \in Objects /\ [o EXCEPT !.deleting = TRUE] \in Objects
       /\ [o EXCEPT !.finalizer = TRUE].generation = o.generation
       /\ [o EXCEPT !.deleting = TRUE].generation = o.generation
       /\ \A st \in Status : /\ [o EXCEPT !.status = st] \in Objects
                            /\ [o EXCEPT !.status = st].generation = o.generation
<1>1. MaxSpecChanges \in Nat /\ 1 \in 1..MaxSpecChanges + 1 /\ 0 \in 0..MaxSpecChanges + 1
  BY OperatorAssumption
<1>2. NewStatus \in Status
  BY <1>1 DEF NewStatus, Status, Phases
<1>3. \A spec \in SUBSET PlatformParts :
        NewPlatform(spec) \in Objects /\ NewPlatform(spec).generation = 1
  BY <1>1, <1>2 DEF NewPlatform, Objects
<1>4. NoPlatform \in Objects /\ NoPlatform.generation = 1
  BY <1>3 DEF NoPlatform, Objects, NewPlatform
<1>5. ASSUME NEW o \in Objects
      PROVE  /\ [o EXCEPT !.finalizer = TRUE] \in Objects /\ [o EXCEPT !.deleting = TRUE] \in Objects
             /\ [o EXCEPT !.finalizer = TRUE].generation = o.generation
             /\ [o EXCEPT !.deleting = TRUE].generation = o.generation
             /\ \A st \in Status : /\ [o EXCEPT !.status = st] \in Objects
                                  /\ [o EXCEPT !.status = st].generation = o.generation
  BY DEF Objects
<1> QED BY <1>3, <1>4, <1>5

\* The status made of a copy and its checks is one.
LEMMA StatusMade ==
  ASSUME NEW o \in Objects, NEW healthy
  PROVE  StatusOfHealth(o, healthy) \in Status
<1>1. o.generation \in 0..MaxSpecChanges + 1 /\ o.spec \in SUBSET PlatformParts
      /\ o.status.degraded \in BOOLEAN
  BY OperatorAssumption DEF Objects, Status
<1> QED BY <1>1 DEF StatusOfHealth, Status, Phases

\* A step of Reconcile that keeps the generations it has read.
LEMMA RoundKept ==
  ASSUME OperatorInv, platform' \in Objects, round' \in Rounds,
         platform'.generation \in {platform.generation, round.copy.generation, 1},
         round'.copy.generation \in {platform.generation, round.copy.generation, 1},
         partReady' \subseteq PlatformParts,
         opChanges' \in [spec : 0..MaxSpecChanges, ready : 0..MaxReadyChanges, read : 0..MaxReadErrors],
         opChanges'.spec = opChanges.spec
  PROVE  OperatorInv'
<1>1. opChanges.spec \in Nat
  BY OperatorAssumption DEF OperatorInv, OperatorTypeOK
<1>2. GenerationsCounted'
  BY <1>1 DEF OperatorInv, GenerationsCounted
<1> QED BY <1>2 DEF OperatorInv, OperatorTypeOK, Rounds

LEMMA InitOperatorInv == OperatorInit => OperatorInv
<1> SUFFICES ASSUME OperatorInit PROVE OperatorInv
  OBVIOUS
<1>1. PICK spec \in Specs : platform = NewPlatform(spec)
  BY DEF OperatorInit
<1>2. platform \in Objects /\ platform.generation = 1
  BY <1>1, ObjectsRemain, OperatorAssumption
<1>3. IdleRound \in Rounds /\ IdleRound.copy.generation = 1
  BY ObjectsRemain DEF IdleRound, Rounds
<1>4. [spec |-> 0, ready |-> 0, read |-> 0]
        \in [spec : 0..MaxSpecChanges, ready : 0..MaxReadyChanges, read : 0..MaxReadErrors]
  BY OperatorAssumption
<1> QED BY <1>2, <1>3, <1>4 DEF OperatorInit, OperatorInv, OperatorTypeOK, GenerationsCounted, Rounds

\* Users write the object, the cluster changes.
LEMMA UserStep ==
  ASSUME OperatorInv,
         \/ \E spec \in Specs : ChangeSpec(spec)
         \/ DeletePlatform
         \/ \E part \in PlatformParts : ChangeReadiness(part)
  PROVE  OperatorInv'
<1>1. /\ platform \in Objects /\ round \in Rounds /\ partReady \subseteq PlatformParts
      /\ opChanges \in [spec : 0..MaxSpecChanges, ready : 0..MaxReadyChanges, read : 0..MaxReadErrors]
      /\ MaxSpecChanges \in Nat /\ MaxReadyChanges \in Nat /\ MaxReadErrors \in Nat
  BY OperatorAssumption DEF OperatorInv, OperatorTypeOK, Rounds
<1>2. platform.generation <= opChanges.spec + 1 /\ round.copy.generation <= opChanges.spec + 1
  BY DEF OperatorInv, GenerationsCounted
<1>3. ASSUME NEW obj \in Objects, obj.generation <= opChanges.spec + 2, WriteByUser(obj)
      PROVE  OperatorInv'
  <2>1. /\ platform' = obj /\ round' = [round EXCEPT !.stale = round.pc # "idle"]
        /\ opChanges.spec < MaxSpecChanges
        /\ opChanges' = [opChanges EXCEPT !.spec = @ + 1] /\ partReady' = partReady
    BY <1>3 DEF WriteByUser
  <2>2. round' \in Rounds /\ round'.copy = round.copy
    BY <1>1, <2>1 DEF Rounds
  <2>3. opChanges.spec + 1 \in 0..MaxSpecChanges
    BY <1>1, <2>1
  <2>4. /\ opChanges' \in [spec : 0..MaxSpecChanges, ready : 0..MaxReadyChanges, read : 0..MaxReadErrors]
        /\ opChanges'.spec = opChanges.spec + 1
    BY <1>1, <2>1, <2>3
  <2>5. GenerationsCounted'
    <3>1. opChanges.spec \in Nat /\ obj.generation \in Nat /\ round.copy.generation \in Nat
      BY <1>1 DEF Objects, Rounds
    <3> QED BY <1>2, <1>3, <2>1, <2>2, <2>4, <3>1 DEF GenerationsCounted
  <2> QED BY <1>1, <2>1, <2>2, <2>4, <2>5 DEF OperatorInv, OperatorTypeOK, Rounds
<1>4. ASSUME NEW spec \in Specs, ChangeSpec(spec) PROVE OperatorInv'
  <2> DEFINE obj == [platform EXCEPT !.spec = spec, !.generation = @ + 1]
  <2>1. WriteByUser(obj) /\ opChanges.spec < MaxSpecChanges
    BY <1>4 DEF ChangeSpec, WriteByUser
  <2>2. opChanges.spec \in Nat /\ platform.generation \in Nat /\ platform.generation >= 1
    BY <1>1 DEF Objects
  <2>3. platform.generation + 1 \in 1..MaxSpecChanges + 1
    BY <1>1, <1>2, <2>1, <2>2
  <2>4. spec \in SUBSET PlatformParts
    BY OperatorAssumption
  <2>5. obj \in Objects /\ obj.generation = platform.generation + 1
    BY <1>1, <2>3, <2>4 DEF Objects
  <2> HIDE DEF obj
  <2>6. obj.generation <= opChanges.spec + 2
    BY <1>2, <2>2, <2>5
  <2> QED BY <1>3, <2>1, <2>5, <2>6
<1>5. ASSUME DeletePlatform PROVE OperatorInv'
  <2> DEFINE obj == IF platform.finalizer THEN [platform EXCEPT !.deleting = TRUE] ELSE NoPlatform
  <2>1. obj \in Objects /\ obj.generation \in {platform.generation, 1}
    BY <1>1, ObjectsRemain
  <2>2. WriteByUser(obj)
    BY <1>5 DEF DeletePlatform
  <2> HIDE DEF obj
  <2>3. opChanges.spec \in Nat /\ platform.generation \in Nat
    BY <1>1 DEF Objects
  <2>4. obj.generation <= opChanges.spec + 2
    BY <1>2, <2>1, <2>3
  <2> QED BY <1>3, <2>1, <2>2, <2>4
<1>6. ASSUME NEW part \in PlatformParts, ChangeReadiness(part) PROVE OperatorInv'
  <2>1. /\ opChanges.ready < MaxReadyChanges /\ UNCHANGED <<platform, round>>
        /\ opChanges' = [opChanges EXCEPT !.ready = @ + 1] /\ partReady' \subseteq PlatformParts
    BY <1>1, <1>6 DEF ChangeReadiness
  <2>2. opChanges.ready + 1 \in 0..MaxReadyChanges
    BY <1>1, <2>1
  <2>3. /\ opChanges' \in [spec : 0..MaxSpecChanges, ready : 0..MaxReadyChanges, read : 0..MaxReadErrors]
        /\ opChanges'.spec = opChanges.spec
    BY <1>1, <2>1, <2>2
  <2> QED BY <1>1, <2>1, <2>3, RoundKept
<1> QED BY <1>4, <1>5, <1>6

\* Reconcile: fetch, finalizer, health checks, status.
LEMMA ReconcileStep ==
  ASSUME OperatorInv,
         ReconcilePlatform \/ \E part \in PlatformParts : CheckHealthFails(part)
  PROVE  OperatorInv'
<1>1. /\ platform \in Objects /\ round \in Rounds /\ round.copy \in Objects
      /\ partReady \subseteq PlatformParts
      /\ opChanges \in [spec : 0..MaxSpecChanges, ready : 0..MaxReadyChanges, read : 0..MaxReadErrors]
      /\ MaxSpecChanges \in Nat /\ MaxReadyChanges \in Nat /\ MaxReadErrors \in Nat
  BY OperatorAssumption DEF OperatorInv, OperatorTypeOK, Rounds
<1>2. /\ IdleRound \in Rounds /\ IdleRound.copy.generation = 1
      /\ \A o \in Objects :
           /\ [IdleRound EXCEPT !.pc = "finalizer", !.copy = o] \in Rounds
           /\ [IdleRound EXCEPT !.pc = "finalizer", !.copy = o].copy = o
           /\ [IdleRound EXCEPT !.pc = "check", !.copy = o, !.left = o.spec] \in Rounds
           /\ [IdleRound EXCEPT !.pc = "check", !.copy = o, !.left = o.spec].copy = o
  <2>1. IdleRound \in Rounds /\ IdleRound.copy.generation = 1
    BY ObjectsRemain DEF IdleRound, Rounds
  <2>2. \A o \in Objects : o.spec \in SUBSET PlatformParts
    BY DEF Objects
  <2>3. ASSUME NEW o \in Objects
        PROVE  /\ [IdleRound EXCEPT !.pc = "finalizer", !.copy = o] \in Rounds
               /\ [IdleRound EXCEPT !.pc = "finalizer", !.copy = o].copy = o
    BY <2>1 DEF Rounds
  <2>4. ASSUME NEW o \in Objects
        PROVE  /\ [IdleRound EXCEPT !.pc = "check", !.copy = o, !.left = o.spec] \in Rounds
               /\ [IdleRound EXCEPT !.pc = "check", !.copy = o, !.left = o.spec].copy = o
    BY <2>1, <2>2 DEF Rounds
  <2> QED BY <2>1, <2>3, <2>4
<1>3. CASE FetchPlatform
  <2> DEFINE finalize == [IdleRound EXCEPT !.pc = "finalizer", !.copy = platform]
             check == [IdleRound EXCEPT !.pc = "check", !.copy = platform, !.left = platform.spec]
  <2>1. UNCHANGED <<platform, partReady, opChanges>> /\ round' \in {finalize, check}
    BY <1>3 DEF FetchPlatform, Check
  <2>2. finalize \in Rounds /\ finalize.copy = platform /\ check \in Rounds /\ check.copy = platform
    BY Zenon, <1>1, <1>2
  <2> HIDE DEF finalize, check
  <2>3. round' \in Rounds /\ round'.copy = platform
    BY <2>1, <2>2
  <2> QED BY <1>1, <2>1, <2>3, RoundKept
<1>4. CASE UpdateFinalizer
  <2> DEFINE finalized == [round.copy EXCEPT !.finalizer = TRUE]
  <2>1. finalized \in Objects /\ finalized.generation = round.copy.generation
        /\ NoPlatform \in Objects /\ NoPlatform.generation = 1
    BY <1>1, ObjectsRemain
  <2>2. /\ UNCHANGED <<partReady, opChanges>>
        /\ \/ round' = IdleRound /\ platform' \in {platform, NoPlatform}
           \/ /\ platform' = finalized
              /\ round' = [IdleRound EXCEPT !.pc = "check", !.copy = finalized, !.left = finalized.spec]
    BY <1>4 DEF UpdateFinalizer, Check
  <2> HIDE DEF finalized
  <2>3. /\ round' \in Rounds /\ round'.copy.generation \in {round.copy.generation, 1}
        /\ platform' \in Objects
        /\ platform'.generation \in {platform.generation, round.copy.generation, 1}
    <3>1. CASE round' = IdleRound /\ platform' \in {platform, NoPlatform}
      BY <1>1, <1>2, <2>1, <3>1
    <3>2. ASSUME platform' = finalized,
                 round' = [IdleRound EXCEPT !.pc = "check", !.copy = finalized, !.left = finalized.spec]
          PROVE  round' \in Rounds /\ round'.copy = finalized
      BY <1>2, <2>1, <3>2
    <3> QED BY <2>1, <2>2, <3>1, <3>2
  <2> QED BY <1>1, <2>2, <2>3, RoundKept
<1>5. CASE UpdateStatus
  <2> DEFINE st == StatusOfHealth(round.copy, round.healthy)
  <2>1. st \in Status
    BY <1>1, StatusMade
  <2>2. /\ UNCHANGED <<partReady, opChanges>> /\ round' = IdleRound
        /\ platform' \in {platform, [platform EXCEPT !.status = st]}
    BY <1>5 DEF UpdateStatus
  <2> HIDE DEF st
  <2>3. platform' \in Objects /\ platform'.generation = platform.generation
    BY ZenonT(30), <1>1, <2>1, <2>2, ObjectsRemain
  <2> QED BY <1>1, <1>2, <2>2, <2>3, RoundKept
<1>6. ASSUME NEW part \in PlatformParts, CheckHealth(part) \/ CheckHealthFails(part)
      PROVE  OperatorInv'
  <2>1. /\ UNCHANGED <<platform, partReady>>
        /\ \E isReady \in BOOLEAN :
             round' = [round EXCEPT !.left = @ \ {part},
                                    !.healthy = IF isReady THEN @ \cup {part} ELSE @]
    BY <1>6 DEF CheckHealth, CheckHealthFails, CheckPart
  <2>2. round' \in Rounds /\ round'.copy = round.copy
    <3> PICK isReady \in BOOLEAN :
          round' = [round EXCEPT !.left = @ \ {part},
                                 !.healthy = IF isReady THEN @ \cup {part} ELSE @]
      BY <2>1
    <3> DEFINE passed == IF isReady THEN round.healthy \cup {part} ELSE round.healthy
    <3>1. passed \in SUBSET PlatformParts /\ round.left \ {part} \in SUBSET PlatformParts
      BY <1>1 DEF Rounds
    <3>2. round' = [round EXCEPT !.left = round.left \ {part}, !.healthy = passed]
      OBVIOUS
    <3> HIDE DEF passed
    <3> QED BY <1>1, <3>1, <3>2 DEF Rounds
  <2>3. opChanges' = opChanges
        \/ (opChanges.read < MaxReadErrors /\ opChanges' = [opChanges EXCEPT !.read = @ + 1])
    BY <1>6 DEF CheckHealth, CheckHealthFails
  <2>4. opChanges.read < MaxReadErrors => opChanges.read + 1 \in 0..MaxReadErrors
    BY <1>1
  <2>5. /\ opChanges' \in [spec : 0..MaxSpecChanges, ready : 0..MaxReadyChanges, read : 0..MaxReadErrors]
        /\ opChanges'.spec = opChanges.spec
    BY <1>1, <2>3, <2>4
  <2> QED BY <1>1, <2>1, <2>2, <2>5, RoundKept
<1> QED BY <1>3, <1>4, <1>5, <1>6 DEF ReconcilePlatform

LEMMA NextOperatorInv == OperatorInv /\ [OperatorNext]_operatorVars => OperatorInv'
<1> SUFFICES ASSUME OperatorInv, [OperatorNext]_operatorVars PROVE OperatorInv'
  OBVIOUS
<1>1. CASE UNCHANGED operatorVars
  BY <1>1 DEF operatorVars, OperatorInv, OperatorTypeOK, GenerationsCounted
<1>2. CASE OperatorNext
  BY <1>2, UserStep, ReconcileStep DEF OperatorNext
<1> QED BY <1>1, <1>2

\* The object, the copy a round works on and its checks keep their types through conflicts,
\* deletions and failed reads (the operator's reconciler.go).
THEOREM OperatorTypeCorrect == OperatorSpec => []OperatorTypeOK
<1>1. OperatorInv => OperatorTypeOK
  BY DEF OperatorInv
<1> QED BY <1>1, InitOperatorInv, NextOperatorInv, PTL DEF OperatorSpec

-----------------------------------------------------------------------------
(* Tool library.                                                             *)

QueuedOf(c) == {j \in queued : j.call = c}

\* A copy that still waits will be a run: both together are what the tries have sent.
RunsCounted ==
  /\ IsFiniteSet(queued)
  /\ \A c \in ToolCalls : runs[c] + Cardinality(QueuedOf(c)) <= caller[c].tries * Replicas(c)

\* Nothing is queued or was begun for a try that was not made.
TriesKnown ==
  /\ \A j \in queued : j.call \in NatsCalls /\ j.try <= caller[j.call].tries
  /\ \A j \in working : <<j.call, j.try>> \in began
  /\ \A c \in ToolCalls : \A n \in 1..MaxTries : <<c, n>> \in began => n <= caller[c].tries

OutcomesKnown ==
  \A c \in ToolCalls :
    /\ caller[c].pc = "answered" => <<c, caller[c].tries>> \in began
    /\ caller[c].pc = "raised" /\ c \in NatsCalls =>
         /\ <<c, caller[c].tries>> \notin began
         /\ \A j \in QueuedOf(c) : j.try # caller[c].tries
    /\ c \in RefusedCalls => runs[c] = 0

ToolInv == ToolTypeOK /\ RunsCounted /\ TriesKnown /\ OutcomesKnown

ToolJobs == [server : ToolServers \cup {HttpServer}, call : ToolCalls, try : 1..MaxTries]
CallerType == [pc : {"new", "waiting", "answered", "timed_out", "raised", "refused"},
               tries : 0..MaxTries]

LEMMA ToolTypeFolded ==
  ToolTypeOK <=>
    /\ serving \subseteq ToolServers \cup {HttpServer}
    /\ queued \subseteq ToolJobs /\ working \subseteq ToolJobs
    /\ caller \in [ToolCalls -> CallerType]
    /\ began \subseteq ToolCalls \X (1..MaxTries)
    /\ runs \in [ToolCalls -> Nat]
BY DEF ToolTypeOK, ToolJobs, CallerType

LEMMA ToolTypeFoldedPrime ==
  ToolTypeOK' <=>
    /\ serving' \subseteq ToolServers \cup {HttpServer}
    /\ queued' \subseteq ToolJobs /\ working' \subseteq ToolJobs
    /\ caller' \in [ToolCalls -> CallerType]
    /\ began' \subseteq ToolCalls \X (1..MaxTries)
    /\ runs' \in [ToolCalls -> Nat]
BY DEF ToolTypeOK, ToolJobs, CallerType

LEMMA ReplicasNat == \A c : Replicas(c) \in Nat
<1>1. Cardinality(ToolServers) \in Nat
  BY ToolAssumption, FS_CardinalityType
<1> QED BY <1>1 DEF Replicas

\* Fewer copies of a call are fewer in number.
LEMMA QueuedCounts ==
  ASSUME RunsCounted
  PROVE  \A c : IsFiniteSet(QueuedOf(c)) /\ Cardinality(QueuedOf(c)) \in Nat
<1> SUFFICES ASSUME NEW c PROVE IsFiniteSet(QueuedOf(c)) /\ Cardinality(QueuedOf(c)) \in Nat
  OBVIOUS
<1>1. QueuedOf(c) \in SUBSET queued
  BY DEF QueuedOf
<1>2. IsFiniteSet(QueuedOf(c))
  BY <1>1, FS_Subset DEF RunsCounted
<1> QED BY <1>2, FS_CardinalityType

LEMMA FewerQueued ==
  ASSUME RunsCounted, queued' \subseteq queued
  PROVE  /\ IsFiniteSet(queued')
         /\ \A c : /\ Cardinality(QueuedOf(c)') \in Nat
                   /\ Cardinality(QueuedOf(c)') <= Cardinality(QueuedOf(c))
<1>1. IsFiniteSet(queued')
  BY FS_Subset DEF RunsCounted
<1>2. ASSUME NEW c
      PROVE  /\ Cardinality(QueuedOf(c)') \in Nat
             /\ Cardinality(QueuedOf(c)') <= Cardinality(QueuedOf(c))
  <2>1. QueuedOf(c)' \in SUBSET QueuedOf(c) /\ IsFiniteSet(QueuedOf(c))
    BY QueuedCounts DEF QueuedOf
  <2>2. IsFiniteSet(QueuedOf(c)') /\ Cardinality(QueuedOf(c)') <= Cardinality(QueuedOf(c))
    BY <2>1, FS_Subset
  <2> QED BY <2>2, FS_CardinalityType
<1> QED BY <1>1, <1>2

LEMMA InitToolInv == ToolInit => ToolInv
<1> SUFFICES ASSUME ToolInit PROVE ToolInv
  OBVIOUS
<1>1. /\ serving = {} /\ queued = {} /\ working = {} /\ began = {}
      /\ caller = [c \in ToolCalls |-> [pc |-> "new", tries |-> 0]]
      /\ runs = [c \in ToolCalls |-> 0]
  BY DEF ToolInit
<1>2. ToolTypeOK
  BY <1>1, ToolAssumption, ToolTypeFolded DEF CallerType
<1>3. RunsCounted
  <2>1. \A c : QueuedOf(c) = {}
    BY <1>1 DEF QueuedOf
  <2>2. \A c \in ToolCalls : runs[c] = 0 /\ caller[c].tries = 0 /\ 0 * Replicas(c) = 0
    BY <1>1, ReplicasNat
  <2> QED BY <1>1, <2>1, <2>2, FS_EmptySet DEF RunsCounted
<1>4. TriesKnown /\ OutcomesKnown
  BY <1>1 DEF TriesKnown, OutcomesKnown
<1> QED BY <1>2, <1>3, <1>4 DEF ToolInv

\* A server joins or leaves.
LEMMA ServerTools ==
  ASSUME ToolInv, NEW s \in ToolServers \cup {HttpServer}, Serve(s) \/ StopServing(s)
  PROVE  ToolInv'
<1>1. /\ serving \subseteq ToolServers \cup {HttpServer}
      /\ queued \subseteq ToolJobs /\ working \subseteq ToolJobs
      /\ caller \in [ToolCalls -> CallerType] /\ runs \in [ToolCalls -> Nat]
      /\ began \subseteq ToolCalls \X (1..MaxTries)
  BY ToolTypeFolded DEF ToolInv
<1>2. /\ queued' \subseteq queued /\ working' \subseteq working /\ UNCHANGED <<began, runs>>
      /\ serving' \subseteq ToolServers \cup {HttpServer}
  BY <1>1 DEF Serve, StopServing
<1>3. /\ caller' \in [ToolCalls -> CallerType]
      /\ \A c \in ToolCalls :
           /\ caller'[c].tries = caller[c].tries
           /\ caller'[c].pc = caller[c].pc \/ (c \notin NatsCalls /\ caller'[c].pc = "raised")
  <2>1. CASE Serve(s)
    BY <1>1, <2>1 DEF Serve
  <2>2. CASE StopServing(s)
    <3>1. caller' = [c \in ToolCalls |->
                      IF s = HttpServer /\ c \notin NatsCalls /\ Awaits(c)
                      THEN [caller[c] EXCEPT !.pc = "raised"] ELSE caller[c]]
      BY <2>2 DEF StopServing
    <3>2. \A c \in ToolCalls : /\ [caller[c] EXCEPT !.pc = "raised"] \in CallerType
                               /\ [caller[c] EXCEPT !.pc = "raised"].tries = caller[c].tries
                               /\ [caller[c] EXCEPT !.pc = "raised"].pc = "raised"
      BY <1>1 DEF CallerType
    <3> QED BY <1>1, <3>1, <3>2
  <2> QED BY <2>1, <2>2
<1>4. ToolTypeOK'
  BY <1>1, <1>2, <1>3, ToolTypeFoldedPrime
<1>5. RunsCounted'
  <2>1. \A c \in ToolCalls : /\ runs[c] \in Nat
                             /\ Cardinality(QueuedOf(c)) \in Nat
                             /\ Cardinality(QueuedOf(c)') \in Nat
                             /\ Cardinality(QueuedOf(c)') <= Cardinality(QueuedOf(c))
    BY <1>1, <1>2, FewerQueued, QueuedCounts DEF ToolInv
  <2>2. \A c \in ToolCalls : /\ runs[c] + Cardinality(QueuedOf(c)) <= caller[c].tries * Replicas(c)
                             /\ caller[c].tries * Replicas(c) \in Nat
    BY <1>1, ReplicasNat DEF ToolInv, RunsCounted, CallerType
  <2>3. \A c \in ToolCalls : runs'[c] + Cardinality(QueuedOf(c)') <= caller[c].tries * Replicas(c)
    BY <1>2, <2>1, <2>2
  <2> QED BY <1>2, <1>3, <2>3, FewerQueued DEF ToolInv, RunsCounted, Replicas
<1>6. TriesKnown'
  BY <1>1, <1>2, <1>3 DEF ToolInv, TriesKnown, ToolJobs
<1>7. OutcomesKnown'
  BY <1>2, <1>3 DEF ToolInv, OutcomesKnown, QueuedOf
<1> QED BY <1>4, <1>5, <1>6, <1>7 DEF ToolInv

\* A handler begins with a copy that waited.
LEMMA MessageTools ==
  ASSUME ToolInv, NEW j \in queued, OnMessage(j)
  PROVE  ToolInv'
<1> DEFINE c == j.call
<1>1. /\ serving \subseteq ToolServers \cup {HttpServer}
      /\ queued \subseteq ToolJobs /\ working \subseteq ToolJobs
      /\ caller \in [ToolCalls -> CallerType] /\ runs \in [ToolCalls -> Nat]
      /\ began \subseteq ToolCalls \X (1..MaxTries)
  BY ToolTypeFolded DEF ToolInv
<1>2. /\ j \in queued /\ queued' = queued \ {j} /\ working' = working \cup {j}
      /\ began' = began \cup {<<c, j.try>>} /\ runs' = [runs EXCEPT ![c] = @ + 1]
      /\ UNCHANGED <<serving, caller>>
  BY DEF OnMessage, BeginHandler
<1>3. /\ c \in ToolCalls /\ j.try \in 1..MaxTries /\ c \in NatsCalls /\ j.try <= caller[c].tries
      /\ j \in QueuedOf(c)
  BY <1>1, <1>2 DEF ToolInv, TriesKnown, ToolJobs, QueuedOf
<1> HIDE DEF c
<1>4. ToolTypeOK'
  BY <1>1, <1>2, <1>3, ToolTypeFoldedPrime
<1>5. RunsCounted'
  <2>1. IsFiniteSet(queued')
    BY <1>2, FewerQueued DEF ToolInv
  <2>2. ASSUME NEW x \in ToolCalls
        PROVE  runs'[x] + Cardinality(QueuedOf(x)') <= caller'[x].tries * Replicas(x)'
    <3>1. /\ runs[x] \in Nat /\ Cardinality(QueuedOf(x)) \in Nat /\ Cardinality(QueuedOf(x)') \in Nat
          /\ Cardinality(QueuedOf(x)') <= Cardinality(QueuedOf(x)) /\ IsFiniteSet(QueuedOf(x))
      BY <1>1, <1>2, FewerQueued, QueuedCounts DEF ToolInv
    <3>2. /\ runs[x] + Cardinality(QueuedOf(x)) <= caller[x].tries * Replicas(x)
          /\ caller[x].tries * Replicas(x) \in Nat
      BY <1>1, ReplicasNat DEF ToolInv, RunsCounted, CallerType
    <3>3. caller'[x].tries * Replicas(x)' = caller[x].tries * Replicas(x)
      BY <1>2 DEF Replicas
    <3>4. CASE x = c
      <4>1. QueuedOf(x)' = QueuedOf(x) \ {j}
        BY <1>2 DEF QueuedOf
      <4>2. Cardinality(QueuedOf(x)') = Cardinality(QueuedOf(x)) - 1
        BY <1>3, <3>1, <3>4, <4>1, FS_RemoveElement
      <4>3. runs'[x] = runs[x] + 1
        BY <1>1, <1>2, <3>4
      <4> QED BY <3>1, <3>2, <3>3, <4>2, <4>3
    <3>5. CASE x # c
      <4>1. runs'[x] = runs[x]
        BY <1>1, <1>2, <3>5
      <4> QED BY <3>1, <3>2, <3>3, <4>1
    <3> QED BY <3>4, <3>5
  <2> QED BY <2>1, <2>2 DEF RunsCounted
<1>6. TriesKnown'
  BY <1>1, <1>2, <1>3 DEF ToolInv, TriesKnown, c
<1>7. OutcomesKnown'
  <2> SUFFICES ASSUME NEW x \in ToolCalls
               PROVE  /\ caller[x].pc = "answered" => <<x, caller[x].tries>> \in began'
                      /\ caller[x].pc = "raised" /\ x \in NatsCalls =>
                           /\ <<x, caller[x].tries>> \notin began'
                           /\ \A k \in QueuedOf(x)' : k.try # caller[x].tries
                      /\ x \in RefusedCalls => runs'[x] = 0
    BY <1>2 DEF OutcomesKnown
  <2>1. x \in RefusedCalls => x # c
    BY <1>3, ToolAssumption
  <2>2. QueuedOf(x)' \subseteq QueuedOf(x)
    BY <1>2 DEF QueuedOf
  <2>3. caller[x].pc = "raised" /\ x \in NatsCalls => <<x, caller[x].tries>> # <<c, j.try>>
    BY <1>3 DEF ToolInv, OutcomesKnown
  <2> QED BY <1>1, <1>2, <2>1, <2>2, <2>3 DEF ToolInv, OutcomesKnown
<1> QED BY <1>4, <1>5, <1>6, <1>7 DEF ToolInv

\* A handler ends or a caller has waited long enough: nothing begins.
LEMMA EndTools ==
  ASSUME ToolInv,
         \/ \E j \in working : Respond(j)
         \/ \E c \in ToolCalls : TimeOut(c)
  PROVE  ToolInv'
<1>1. /\ serving \subseteq ToolServers \cup {HttpServer}
      /\ queued \subseteq ToolJobs /\ working \subseteq ToolJobs
      /\ caller \in [ToolCalls -> CallerType] /\ runs \in [ToolCalls -> Nat]
      /\ began \subseteq ToolCalls \X (1..MaxTries)
  BY ToolTypeFolded DEF ToolInv
<1>2. UNCHANGED <<serving, queued, began, runs>> /\ working' \subseteq working
  BY DEF Respond, TimeOut
<1>3. /\ caller' \in [ToolCalls -> CallerType]
      /\ \A c \in ToolCalls :
           /\ caller'[c].tries = caller[c].tries
           /\ \/ caller'[c].pc = caller[c].pc \/ caller'[c].pc = "timed_out"
              \/ caller'[c].pc = "answered" /\ <<c, caller[c].tries>> \in began
  <2>1. ASSUME NEW j \in working, Respond(j), caller' # caller
        PROVE  /\ j.call \in ToolCalls /\ caller' = [caller EXCEPT ![j.call].pc = "answered"]
               /\ <<j.call, caller[j.call].tries>> \in began
    BY <1>1, <2>1 DEF Respond, ToolJobs, ToolInv, TriesKnown
  <2>2. ASSUME NEW c \in ToolCalls, TimeOut(c)
        PROVE  caller' = [caller EXCEPT ![c].pc = "timed_out"]
    BY <2>2 DEF TimeOut
  <2>3. ASSUME NEW c \in ToolCalls, NEW pc \in {"answered", "timed_out"},
               caller' = [caller EXCEPT ![c].pc = pc]
        PROVE  /\ caller' \in [ToolCalls -> CallerType]
               /\ \A x \in ToolCalls : /\ caller'[x].tries = caller[x].tries
                                       /\ caller'[x].pc = IF x = c THEN pc ELSE caller[x].pc
    <3>1. /\ [caller[c] EXCEPT !.pc = pc] \in CallerType
          /\ [caller[c] EXCEPT !.pc = pc].tries = caller[c].tries
          /\ [caller[c] EXCEPT !.pc = pc].pc = pc
      BY <1>1 DEF CallerType
    <3>2. caller' = [caller EXCEPT ![c] = [caller[c] EXCEPT !.pc = pc]]
      BY <1>1, <2>3
    <3> QED BY <1>1, <3>1, <3>2
  <2>4. CASE caller' = caller
    BY <1>1, <2>4
  <2>5. CASE \E j \in working : Respond(j) /\ caller' # caller
    BY <2>1, <2>3, <2>5
  <2>6. CASE \E c \in ToolCalls : TimeOut(c)
    BY <2>2, <2>3, <2>6
  <2> QED BY <2>4, <2>5, <2>6
<1>4. ToolTypeOK'
  BY <1>1, <1>2, <1>3, ToolTypeFoldedPrime
<1>5. RunsCounted'
  <2>1. \A c : QueuedOf(c)' = QueuedOf(c)
    BY <1>2 DEF QueuedOf
  <2> QED BY <1>2, <1>3, <2>1 DEF ToolInv, RunsCounted, Replicas
<1>6. TriesKnown'
  BY <1>1, <1>2, <1>3 DEF ToolInv, TriesKnown, ToolJobs
<1>7. OutcomesKnown'
  BY <1>2, <1>3 DEF ToolInv, OutcomesKnown, QueuedOf
<1> QED BY <1>4, <1>5, <1>6, <1>7 DEF ToolInv

\* A try of call c, before what it does to the servers is looked at.
LEMMA TriedCaller ==
  ASSUME ToolInv, NEW c \in ToolCalls, MayTry(c),
         NEW pc \in {"waiting", "raised", "refused"}, Tried(c, pc)
  PROVE  /\ caller' \in [ToolCalls -> CallerType]
         /\ caller'[c].tries = caller[c].tries + 1 /\ caller'[c].pc = pc
         /\ \A x \in ToolCalls \ {c} : caller'[x] = caller[x]
         /\ caller[c].tries + 1 \in 1..MaxTries
         /\ caller'[c].tries * Replicas(c) = caller[c].tries * Replicas(c) + Replicas(c)
         /\ \A x \in ToolCalls : caller'[x].tries >= caller[x].tries
<1>1. caller \in [ToolCalls -> CallerType]
  BY ToolTypeFolded DEF ToolInv
<1>2. caller' = [caller EXCEPT ![c] = [pc |-> pc, tries |-> caller[c].tries + 1]]
  BY <1>1 DEF Tried
<1>3. caller[c].tries \in Nat /\ caller[c].tries + 1 \in 0..MaxTries /\ caller[c].tries + 1 \in 1..MaxTries
  BY <1>1, ToolAssumption DEF MayTry, CallerType
<1>4. [pc |-> pc, tries |-> caller[c].tries + 1] \in CallerType
  BY <1>3 DEF CallerType
<1>5. caller' \in [ToolCalls -> CallerType]
  BY <1>1, <1>2, <1>4
<1>6. /\ caller'[c].tries = caller[c].tries + 1 /\ caller'[c].pc = pc
      /\ \A x \in ToolCalls \ {c} : caller'[x] = caller[x]
  BY <1>1, <1>2
<1>7. \A n, k \in Nat : (n + 1) * k = n * k + k
  OBVIOUS
<1>8. caller'[c].tries * Replicas(c) = caller[c].tries * Replicas(c) + Replicas(c)
  BY <1>3, <1>6, <1>7, ReplicasNat
<1>9. \A x \in ToolCalls : caller'[x].tries >= caller[x].tries
  BY <1>1, <1>3, <1>6 DEF CallerType
<1> QED BY <1>3, <1>5, <1>6, <1>8, <1>9

\* The copies of a request go to the servers that are subscribed.
LEMMA NatsCallTools ==
  ASSUME ToolInv, NEW c \in ToolCalls, NatsCall(c)
  PROVE  ToolInv'
<1> DEFINE heard == serving \cap ToolServers
           pc == IF heard = {} THEN "raised" ELSE "waiting"
           n == caller[c].tries + 1
           copies == {Job(s, c, n) : s \in heard}
<1>1. /\ serving \subseteq ToolServers \cup {HttpServer}
      /\ queued \subseteq ToolJobs /\ working \subseteq ToolJobs
      /\ caller \in [ToolCalls -> CallerType] /\ runs \in [ToolCalls -> Nat]
      /\ began \subseteq ToolCalls \X (1..MaxTries)
  BY ToolTypeFolded DEF ToolInv
<1>2. /\ c \in NatsCalls /\ MayTry(c) /\ Tried(c, pc)
      /\ queued' = queued \cup copies
      /\ UNCHANGED <<serving, working, began, runs>>
  BY DEF NatsCall
<1>3. /\ caller' \in [ToolCalls -> CallerType]
      /\ caller'[c].tries = n /\ caller'[c].pc = pc
      /\ \A x \in ToolCalls \ {c} : caller'[x] = caller[x]
      /\ n \in 1..MaxTries
      /\ caller'[c].tries * Replicas(c) = caller[c].tries * Replicas(c) + Replicas(c)
      /\ \A x \in ToolCalls : caller'[x].tries >= caller[x].tries
  BY <1>2, TriedCaller
<1>4. /\ copies \subseteq ToolJobs
      /\ \A j \in copies : j.call = c /\ j.try = n
  BY <1>3 DEF Job, ToolJobs
<1>5. IsFiniteSet(copies) /\ Cardinality(copies) \in Nat /\ Cardinality(copies) <= Replicas(c)
  <2>1. IsFiniteSet(heard) /\ Cardinality(heard) <= Cardinality(ToolServers)
    BY ToolAssumption, FS_Subset
  <2> DEFINE f == [s \in heard |-> Job(s, c, n)]
  <2>2. f \in Surjection(heard, copies)
    BY DEF Surjection
  <2> HIDE DEF f, heard, copies
  <2>3. IsFiniteSet(copies) /\ Cardinality(copies) <= Cardinality(heard)
    BY <2>1, <2>2, FS_Surjection
  <2>4. Cardinality(copies) \in Nat /\ Cardinality(heard) \in Nat /\ Cardinality(ToolServers) \in Nat
    BY <2>1, <2>3, ToolAssumption, FS_CardinalityType
  <2> QED BY <1>2, <2>1, <2>3, <2>4 DEF Replicas
<1>6. n = caller[c].tries + 1 /\ caller[c].tries \in Nat /\ (pc = "raised" => copies = {})
      /\ pc \in {"raised", "waiting"}
  BY <1>1 DEF CallerType
<1> HIDE DEF heard, pc, n, copies
<1>7. ToolTypeOK'
  BY <1>1, <1>2, <1>3, <1>4, ToolTypeFoldedPrime
<1>8. RunsCounted'
  <2>1. IsFiniteSet(queued')
    BY <1>2, <1>5, FS_Union DEF ToolInv, RunsCounted
  <2>2. ASSUME NEW x \in ToolCalls
        PROVE  runs'[x] + Cardinality(QueuedOf(x)') <= caller'[x].tries * Replicas(x)'
    <3>1. /\ runs[x] \in Nat /\ Cardinality(QueuedOf(x)) \in Nat /\ IsFiniteSet(QueuedOf(x))
      BY <1>1, QueuedCounts DEF ToolInv
    <3>2. /\ runs[x] + Cardinality(QueuedOf(x)) <= caller[x].tries * Replicas(x)
          /\ caller[x].tries * Replicas(x) \in Nat
      BY <1>1, ReplicasNat DEF ToolInv, RunsCounted, CallerType
    <3>3. Replicas(x)' = Replicas(x) /\ Replicas(x) \in Nat
      BY ReplicasNat DEF Replicas
    <3>4. CASE x = c
      <4>1. QueuedOf(x)' = QueuedOf(x) \cup copies
        BY <1>2, <1>4, <3>4 DEF QueuedOf
      <4>2. Cardinality(QueuedOf(x)')
              = Cardinality(QueuedOf(x)) + Cardinality(copies) - Cardinality(QueuedOf(x) \cap copies)
        BY <1>5, <3>1, <4>1, FS_Union
      <4>3. Cardinality(QueuedOf(x) \cap copies) \in Nat
        <5>1. IsFiniteSet(QueuedOf(x) \cap copies)
          BY <3>1, FS_Subset
        <5> QED BY <5>1, FS_CardinalityType
      <4>4. caller'[x].tries * Replicas(x) = caller[x].tries * Replicas(x) + Replicas(x)
        BY <1>3, <3>4
      <4> QED BY <1>2, <1>5, <3>1, <3>2, <3>3, <3>4, <4>2, <4>3, <4>4
    <3>5. CASE x # c
      <4>1. QueuedOf(x)' = QueuedOf(x)
        BY <1>2, <1>4, <3>5 DEF QueuedOf
      <4> QED BY <1>2, <1>3, <3>2, <3>3, <3>5, <4>1
    <3> QED BY <3>4, <3>5
  <2> QED BY <2>1, <2>2 DEF RunsCounted
<1>9. TriesKnown'
  <2>1. ASSUME NEW j \in queued' PROVE j.call \in NatsCalls /\ j.try <= caller'[j.call].tries
    <3>1. CASE j \in queued
      <4>1. /\ j.call \in NatsCalls /\ j.call \in ToolCalls /\ j.try \in Nat
            /\ j.try <= caller[j.call].tries
        BY <1>1, <3>1 DEF ToolInv, TriesKnown, ToolJobs
      <4>2. /\ caller'[j.call].tries >= caller[j.call].tries
            /\ caller'[j.call].tries \in Nat /\ caller[j.call].tries \in Nat
        BY <1>1, <1>3, <4>1 DEF CallerType
      <4> QED BY <4>1, <4>2
    <3>2. CASE j \in copies
      BY <1>2, <1>3, <1>4, <1>6, <3>2
    <3> QED BY <1>2, <3>1, <3>2
  <2>2. ASSUME NEW x \in ToolCalls, NEW k \in 1..MaxTries, <<x, k>> \in began'
        PROVE  k <= caller'[x].tries
    <3>1. k <= caller[x].tries /\ caller[x].tries <= caller'[x].tries
      BY <1>2, <1>3, <2>2 DEF ToolInv, TriesKnown
    <3>2. caller[x].tries \in Nat /\ caller'[x].tries \in Nat
      BY <1>1, <1>3 DEF CallerType
    <3> QED BY <3>1, <3>2
  <2> QED BY <1>2, <2>1, <2>2 DEF ToolInv, TriesKnown
<1>10. OutcomesKnown'
  <2> SUFFICES ASSUME NEW x \in ToolCalls
               PROVE  /\ caller'[x].pc = "answered" => <<x, caller'[x].tries>> \in began
                      /\ caller'[x].pc = "raised" /\ x \in NatsCalls =>
                           /\ <<x, caller'[x].tries>> \notin began
                           /\ \A k \in QueuedOf(x)' : k.try # caller'[x].tries
                      /\ x \in RefusedCalls => runs[x] = 0
    BY <1>2 DEF OutcomesKnown
  <2>1. CASE x # c
    <3>1. QueuedOf(x)' = QueuedOf(x) /\ caller'[x] = caller[x]
      BY <1>2, <1>3, <1>4, <2>1 DEF QueuedOf
    <3> QED BY <3>1 DEF ToolInv, OutcomesKnown
  <2>2. CASE x = c
    <3>1. <<c, n>> \notin began
      BY <1>3, <1>6 DEF ToolInv, TriesKnown
    <3>2. \A k \in QueuedOf(c) : k.try # n
      <4>1. ASSUME NEW k \in QueuedOf(c) PROVE k.try \in Nat /\ k.try <= caller[c].tries
        BY <1>1 DEF QueuedOf, ToolInv, TriesKnown, ToolJobs
      <4> QED BY <1>6, <4>1
    <3>3. pc = "raised" => QueuedOf(c)' = QueuedOf(c)
      BY <1>2, <1>6 DEF QueuedOf
    <3> QED BY <1>2, <1>3, <1>6, <2>2, <3>1, <3>2, <3>3, ToolAssumption
  <2> QED BY <2>1, <2>2
<1> QED BY <1>7, <1>8, <1>9, <1>10 DEF ToolInv

\* An HTTP call fails at once, is refused, or its handler begins.
LEMMA HttpCallTools ==
  ASSUME ToolInv, NEW c \in ToolCalls, HttpCall(c)
  PROVE  ToolInv'
<1> DEFINE n == caller[c].tries + 1
           job == Job(HttpServer, c, n)
<1>1. /\ serving \subseteq ToolServers \cup {HttpServer}
      /\ queued \subseteq ToolJobs /\ working \subseteq ToolJobs
      /\ caller \in [ToolCalls -> CallerType] /\ runs \in [ToolCalls -> Nat]
      /\ began \subseteq ToolCalls \X (1..MaxTries)
  BY ToolTypeFolded DEF ToolInv
<1>2. c \notin NatsCalls /\ MayTry(c) /\ UNCHANGED <<serving, queued>>
  BY DEF HttpCall
<1>3. PICK pc \in {"waiting", "raised", "refused"} :
        /\ Tried(c, pc)
        /\ \/ UNCHANGED <<working, began, runs>>
           \/ c \notin RefusedCalls /\ BeginHandler(job)
  BY DEF HttpCall, Refuse
<1>4. /\ caller' \in [ToolCalls -> CallerType]
      /\ caller'[c].tries = n /\ caller'[c].pc = pc
      /\ \A x \in ToolCalls \ {c} : caller'[x] = caller[x]
      /\ n \in 1..MaxTries
      /\ caller'[c].tries * Replicas(c) = caller[c].tries * Replicas(c) + Replicas(c)
      /\ \A x \in ToolCalls : caller'[x].tries >= caller[x].tries
  BY <1>2, <1>3, TriedCaller
<1>5. job \in ToolJobs /\ job.call = c /\ job.try = n
  BY <1>4 DEF Job, ToolJobs
<1>6. \/ UNCHANGED <<working, began, runs>>
      \/ /\ c \notin RefusedCalls /\ working' = working \cup {job}
         /\ began' = began \cup {<<c, n>>} /\ runs' = [runs EXCEPT ![c] = @ + 1]
  BY <1>3, <1>5 DEF BeginHandler
<1>7. n = caller[c].tries + 1 /\ caller[c].tries \in Nat /\ Replicas(c) = 1
  BY <1>1, <1>2 DEF CallerType, Replicas
<1> HIDE DEF n, job
<1>8. ToolTypeOK'
  BY <1>1, <1>2, <1>4, <1>5, <1>6, ToolTypeFoldedPrime
<1>9. RunsCounted'
  <2>1. IsFiniteSet(queued') /\ \A x : QueuedOf(x)' = QueuedOf(x) /\ Replicas(x)' = Replicas(x)
    BY <1>2 DEF ToolInv, RunsCounted, QueuedOf, Replicas
  <2>2. ASSUME NEW x \in ToolCalls
        PROVE  runs'[x] + Cardinality(QueuedOf(x)) <= caller'[x].tries * Replicas(x)
    <3>1. runs[x] \in Nat /\ Cardinality(QueuedOf(x)) \in Nat /\ Replicas(x) \in Nat
      BY <1>1, QueuedCounts, ReplicasNat DEF ToolInv
    <3>2. /\ runs[x] + Cardinality(QueuedOf(x)) <= caller[x].tries * Replicas(x)
          /\ caller[x].tries * Replicas(x) \in Nat
      BY <1>1, ReplicasNat DEF ToolInv, RunsCounted, CallerType
    <3>3. CASE x = c
      <4>1. runs'[x] = runs[x] \/ runs'[x] = runs[x] + 1
        BY <1>1, <1>6, <3>3
      <4>2. caller'[x].tries * Replicas(x) = caller[x].tries * Replicas(x) + 1
        BY <1>4, <1>7, <3>3
      <4> QED BY <3>1, <3>2, <4>1, <4>2
    <3>4. CASE x # c
      <4>1. runs'[x] = runs[x] /\ caller'[x] = caller[x]
        BY <1>1, <1>4, <1>6, <3>4
      <4> QED BY <3>2, <4>1
    <3> QED BY <3>3, <3>4
  <2> QED BY <2>1, <2>2 DEF RunsCounted
<1>10. TriesKnown'
  <2>1. ASSUME NEW j \in queued' PROVE j.call \in NatsCalls /\ j.try <= caller'[j.call].tries
    <3>1. /\ j.call \in NatsCalls /\ j.call \in ToolCalls /\ j.try \in Nat
          /\ j.try <= caller[j.call].tries
      BY <1>1, <1>2 DEF ToolInv, TriesKnown, ToolJobs
    <3>2. /\ caller'[j.call].tries >= caller[j.call].tries
          /\ caller'[j.call].tries \in Nat /\ caller[j.call].tries \in Nat
      BY <1>1, <1>4, <3>1 DEF CallerType
    <3> QED BY <3>1, <3>2
  <2>2. \A j \in working' : <<j.call, j.try>> \in began'
    BY <1>5, <1>6 DEF ToolInv, TriesKnown
  <2>3. ASSUME NEW x \in ToolCalls, NEW k \in 1..MaxTries, <<x, k>> \in began'
        PROVE  k <= caller'[x].tries
    <3>1. caller[x].tries \in Nat /\ caller'[x].tries \in Nat /\ caller[x].tries <= caller'[x].tries
      BY <1>1, <1>4 DEF CallerType
    <3>2. CASE <<x, k>> \in began
      BY <3>1, <3>2 DEF ToolInv, TriesKnown
    <3>3. CASE <<x, k>> = <<c, n>>
      BY <1>4, <3>1, <3>3
    <3> QED BY <1>6, <2>3, <3>2, <3>3
  <2> QED BY <2>1, <2>2, <2>3 DEF TriesKnown
<1>11. OutcomesKnown'
  <2> SUFFICES ASSUME NEW x \in ToolCalls
               PROVE  /\ caller'[x].pc = "answered" => <<x, caller'[x].tries>> \in began'
                      /\ caller'[x].pc = "raised" /\ x \in NatsCalls =>
                           /\ <<x, caller'[x].tries>> \notin began'
                           /\ \A k \in QueuedOf(x)' : k.try # caller'[x].tries
                      /\ x \in RefusedCalls => runs'[x] = 0
    BY DEF OutcomesKnown
  <2>1. CASE x # c
    <3>1. QueuedOf(x)' = QueuedOf(x) /\ caller'[x] = caller[x] /\ runs'[x] = runs[x]
      BY <1>1, <1>2, <1>4, <1>6, <2>1 DEF QueuedOf
    <3>2. \A k : <<x, k>> \in began' <=> <<x, k>> \in began
      BY <1>6, <2>1
    <3> QED BY <3>1, <3>2 DEF ToolInv, OutcomesKnown
  <2>2. CASE x = c
    <3>1. c \in RefusedCalls => runs'[c] = 0
      BY <1>6 DEF ToolInv, OutcomesKnown
    <3> QED BY <1>2, <1>3, <1>4, <2>2, <3>1
  <2> QED BY <2>1, <2>2
<1> QED BY <1>8, <1>9, <1>10, <1>11 DEF ToolInv

LEMMA NextToolInv == ToolInv /\ [ToolNext]_toolVars => ToolInv'
<1> SUFFICES ASSUME ToolInv, [ToolNext]_toolVars PROVE ToolInv'
  OBVIOUS
<1>1. CASE UNCHANGED toolVars
  <2>1. UNCHANGED <<serving, queued, working, caller, began, runs>>
    BY <1>1 DEF toolVars
  <2> QED BY <2>1 DEF ToolInv, ToolTypeOK, RunsCounted, TriesKnown, OutcomesKnown, QueuedOf, Replicas
<1>2. CASE \E s \in ToolServers \cup {HttpServer} : Serve(s) \/ StopServing(s)
  BY <1>2, ServerTools
<1>3. CASE \E j \in queued : OnMessage(j)
  BY <1>3, MessageTools
<1>4. CASE (\E j \in working : Respond(j)) \/ \E c \in ToolCalls : TimeOut(c)
  BY <1>4, EndTools
<1>5. CASE \E c \in ToolCalls : NatsCall(c) \/ HttpCall(c)
  BY <1>5, NatsCallTools, HttpCallTools
<1> QED BY <1>1, <1>2, <1>3, <1>4, <1>5 DEF ToolNext

\* Servers, copies, handlers and callers of a tool keep their types (server.py, client.py).
THEOREM ToolTypeCorrect == ToolSpec => []ToolTypeOK
<1>1. ToolInv => ToolTypeOK
  BY DEF ToolInv
<1> QED BY <1>1, InitToolInv, NextToolInv, PTL DEF ToolSpec

\* A call is run at most once for each try and each process that serves its tool, and what its
\* caller is told of a run is so, for any number of servers, calls and tries.
THEOREM CallsCorrect == ToolSpec => []CallsExplained
<1>1. ToolInv => CallsExplained
  <2> SUFFICES ASSUME ToolInv, NEW c \in ToolCalls
               PROVE  runs[c] <= caller[c].tries * Replicas(c)
    BY DEF CallsExplained, ToolInv, OutcomesKnown
  <2>1. runs[c] \in Nat /\ Cardinality(QueuedOf(c)) \in Nat /\ caller[c].tries * Replicas(c) \in Nat
    BY ToolTypeFolded, QueuedCounts, ReplicasNat DEF ToolInv, CallerType
  <2> QED BY <2>1 DEF ToolInv, RunsCounted
<1> QED BY <1>1, InitToolInv, NextToolInv, PTL DEF ToolSpec

-----------------------------------------------------------------------------
(* The six services and the tool library together.                           *)

\* A behaviour of the composition is one of each part, which may rest throughout.
LEMMA ServiceBehaviours ==
  MCSpec => /\ PolicySpec /\ BudgetSpec /\ SandboxSpec /\ ExtSpec /\ OperatorSpec /\ MemorySpec
            /\ ToolSpec
<1>1. MCInit => /\ PolicyInit /\ BudgetInit /\ SandboxInit /\ ExtInit /\ OperatorInit /\ MemoryInit
                /\ ToolInit
  BY DEF MCInit
<1>2. [MCNext]_allVars => [PolicyNext]_policyVars
  BY DEF MCNext, allVars
<1>3. [MCNext]_allVars => [BudgetNext]_budgetVars
  BY DEF MCNext, allVars
<1>4. [MCNext]_allVars => [SandboxNext]_sandboxVars
  BY DEF MCNext, allVars
<1>5. [MCNext]_allVars => [ExtNext]_extVars
  BY DEF MCNext, allVars
<1>6. [MCNext]_allVars => [OperatorNext]_operatorVars
  BY DEF MCNext, allVars
<1>7. [MCNext]_allVars => [MemoryNext]_memoryVars
  BY DEF MCNext, allVars
<1>8. [MCNext]_allVars => [ToolNext]_toolVars
  BY DEF MCNext, allVars
<1> QED BY <1>1, <1>2, <1>3, <1>4, <1>5, <1>6, <1>7, <1>8, PTL
        DEF MCSpec, PolicySpec, BudgetSpec, SandboxSpec, ExtSpec, OperatorSpec, MemorySpec,
            ToolSpec

\* Every variable of the services and of the tool library keeps its type in the composition.
THEOREM PlatformTypeCorrect == MCSpec => []PlatformTypeOK
<1>1. (/\ PolicyTypeOK /\ BudgetTypeOK /\ SandboxTypeOK /\ ExtTypeOK /\ OperatorTypeOK
       /\ MemoryTypeOK /\ ToolTypeOK) => PlatformTypeOK
  BY DEF PlatformTypeOK
<1> QED BY <1>1, ServiceBehaviours, PolicyTypeCorrect, BudgetTypeCorrect, SandboxTypeCorrect,
           ExtensionTypeCorrect, OperatorTypeCorrect, MemoryTypeCorrect, ToolTypeCorrect, PTL

\* How often a tool runs has its bound in the executor (manager.go) and its cause through the
\* tool library (server.py, client.py), in the composition.
THEOREM ToolRunsCorrect == MCSpec => []ToolRunsExplained
<1>1. ExecutionsBounded /\ CallsExplained => ToolRunsExplained
  BY DEF ToolRunsExplained
<1> QED BY <1>1, ServiceBehaviours, ExecutionsCorrect, CallsCorrect, PTL

\* The properties of the services hold in the composition, the form the run checks them in.
THEOREM PlatformCorrect ==
  MCSpec => [](StaleNeedsOverlap /\ RateWindowBounded /\ SpendExplained /\ ToolRunsExplained
               /\ RestingSandboxes /\ EventsExplained /\ MemoryExplained)
BY ServiceBehaviours, StaleNeedsOverlapCorrect, RateWindowCorrect, SpendExplainedCorrect,
   ToolRunsCorrect, RestingCorrect, EventsCorrect, MemoryExplainedCorrect, PTL

=============================================================================
