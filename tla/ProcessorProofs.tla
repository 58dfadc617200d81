---------------------------- MODULE ProcessorProofs ----------------------------
(* Lemmas about Processor's operators, for any number of event files, in   *)
(* any order, and any events: what the proofs about FileHistory and        *)
(* ProcessTree need of the sort and of the fold.                           *)
EXTENDS Processor, FiniteSetTheorems, SequenceTheorems, WellFoundedInduction, TLAPS

\* Event files: sequences of events with stamps.
FilesOK(fs) ==
    /\ \E n \in Nat : DOMAIN fs = 1..n
    /\ \A i \in DOMAIN fs :
        /\ \E m \in Nat : DOMAIN fs[i] = 1..m
        /\ \A k \in DOMAIN fs[i] : fs[i][k].ts \in Nat

Ts(fs, x) == fs[x[1]][x[2]].ts
LabelledAt(fs, x) == Labelled(fs[x[1]], fs[x[1]][x[2]])

\* The fold of ProcessedData after the events at a set of places.
Fold(fs, originals) ==
    CHOOSE iter : iter =
        [s \in SUBSET Places(fs) |->
            IF s = {} THEN Nothing
            ELSE Processed(iter[s \ {LastOf(fs, s)}], originals, LabelledAt(fs, LastOf(fs, s)))]

\* With a place, a prefix has all that come before it.
EventPrefixes(fs) ==
    {s \in SUBSET Places(fs) : \A x \in s : \A y \in Places(fs) : NotAfter(fs, y, x) => y \in s}
-----------------------------------------------------------------------------
LEMMA LeastNumber ==
    ASSUME NEW T \in SUBSET Nat, T # {}
    PROVE  \E m \in T : \A n \in T : m <= n
<1> DEFINE R == OpToRel(<, Nat)
<1>1. IsWellFoundedOn(R, Nat)
  BY NatLessThanWellFounded
<1> HIDE DEF R
<1>2. PICK m \in T : \A n \in T : ~(<<n, m>> \in R)
  BY <1>1, WFMin
<1>3. \A n \in T : n < m => <<n, m>> \in R
  BY DEF R, OpToRel
<1>4. \A n \in T : n \in Nat
  OBVIOUS
<1>5. \A n \in T : ~(n < m)
  BY <1>2, <1>3, Zenon
<1> QED
  BY <1>4, <1>5

\* A set of finite sets, if it is not empty, has a smallest.
LEMMA SmallestSet ==
    ASSUME NEW S, IsFiniteSet(S), NEW T \in SUBSET SUBSET S, T # {}
    PROVE  \E m \in T : \A t \in T : Cardinality(m) <= Cardinality(t)
<1> DEFINE N == {Cardinality(t) : t \in T}
<1>1. \A t \in T : Cardinality(t) \in Nat
  BY FS_Subset, FS_CardinalityType
<1>2. N \in SUBSET Nat /\ N # {}
  BY <1>1
<1> HIDE DEF N
<1>3. PICK n \in N : \A k \in N : n <= k
  BY <1>2, LeastNumber
<1> QED
  BY <1>3 DEF N

LEMMA PlacesAre ==
    ASSUME NEW fs, FilesOK(fs)
    PROVE  /\ IsFiniteSet(Places(fs))
           /\ \A x \in Places(fs) :
                /\ x = <<x[1], x[2]>>
                /\ x[1] \in DOMAIN fs /\ x[2] \in DOMAIN fs[x[1]]
                /\ x[1] \in Nat /\ x[2] \in Nat /\ Ts(fs, x) \in Nat
           /\ \A i \in DOMAIN fs : \A k \in DOMAIN fs[i] : <<i, k>> \in Places(fs)
<1> DEFINE rows == {{i} \X DOMAIN fs[i] : i \in DOMAIN fs}
<1>1. IsFiniteSet(DOMAIN fs) /\ \A i \in DOMAIN fs : IsFiniteSet(DOMAIN fs[i])
  BY FS_Interval DEF FilesOK
<1>2. \A i \in DOMAIN fs : IsFiniteSet({i} \X DOMAIN fs[i])
  BY <1>1, FS_Product, FS_Singleton
<1>3. IsFiniteSet(rows)
  <2> DEFINE f == [i \in DOMAIN fs |-> {i} \X DOMAIN fs[i]]
  <2>1. f \in Surjection(DOMAIN fs, rows)
    BY DEF Surjection
  <2> QED
    BY <1>1, <2>1, FS_Surjection
<1>4. IsFiniteSet(Places(fs))
  <2>1. \A r \in rows : IsFiniteSet(r)
    BY <1>2
  <2> HIDE DEF rows
  <2>2. IsFiniteSet(UNION rows)
    BY <1>3, <2>1, FS_UNION
  <2> QED
    BY <2>2 DEF Places, rows
<1>5. ASSUME NEW x \in Places(fs)
      PROVE  /\ x = <<x[1], x[2]>>
             /\ x[1] \in DOMAIN fs /\ x[2] \in DOMAIN fs[x[1]]
             /\ x[1] \in Nat /\ x[2] \in Nat /\ Ts(fs, x) \in Nat
  <2>1. PICK i \in DOMAIN fs : x \in {i} \X DOMAIN fs[i]
    BY DEF Places
  <2>2. x = <<x[1], x[2]>> /\ x[1] = i /\ x[2] \in DOMAIN fs[i]
    BY <2>1
  <2>3. i \in Nat /\ x[2] \in Nat
    BY <2>2 DEF FilesOK
  <2> QED
    BY <2>2, <2>3 DEF FilesOK, Ts
<1>6. ASSUME NEW i \in DOMAIN fs, NEW k \in DOMAIN fs[i]
      PROVE  <<i, k>> \in Places(fs)
  BY DEF Places
<1> QED
  BY <1>4, <1>5, <1>6

\* NotAfter is a total order of the places.
LEMMA OrderIsTotal ==
    ASSUME NEW fs, FilesOK(fs), NEW x \in Places(fs), NEW y \in Places(fs)
    PROVE  /\ NotAfter(fs, x, x)
           /\ NotAfter(fs, x, y) \/ NotAfter(fs, y, x)
           /\ NotAfter(fs, x, y) /\ NotAfter(fs, y, x) => x = y
           /\ \A z \in Places(fs) : NotAfter(fs, x, y) /\ NotAfter(fs, y, z) => NotAfter(fs, x, z)
           /\ Ts(fs, x) < Ts(fs, y) => NotAfter(fs, x, y) /\ ~NotAfter(fs, y, x)
           /\ NotAfter(fs, x, y) => Ts(fs, x) <= Ts(fs, y)
  BY PlacesAre DEF NotAfter, Ts

LEMMA LastIs ==
    ASSUME NEW fs, FilesOK(fs), NEW s \in SUBSET Places(fs), s # {}
    PROVE  /\ LastOf(fs, s) \in s
           /\ \A y \in s : NotAfter(fs, y, LastOf(fs, s))
<1> DEFINE T == {t \in SUBSET Places(fs) :
                    t # {} /\ ~\E x \in t : \A y \in t : NotAfter(fs, y, x)}
<1>1. T = {}
  <2> SUFFICES ASSUME T # {} PROVE FALSE
    OBVIOUS
  <2>0. T \in SUBSET SUBSET Places(fs)
    OBVIOUS
  <2> HIDE DEF T
  <2>1. PICK m \in T : \A t \in T : Cardinality(m) <= Cardinality(t)
    BY <2>0, SmallestSet, PlacesAre
  <2>2. m \in SUBSET Places(fs) /\ m # {} /\ ~\E x \in m : \A y \in m : NotAfter(fs, y, x)
    BY DEF T
  <2>3. PICK x \in m : TRUE
    BY <2>2
  <2> DEFINE r == m \ {x}
  <2>4. IsFiniteSet(m)
    BY <2>2, FS_Subset, PlacesAre
  <2>5. Cardinality(r) = Cardinality(m) - 1 /\ Cardinality(m) \in Nat
    BY <2>4, FS_RemoveElement, FS_CardinalityType
  <2>6. r \notin T
    BY <2>1, <2>5
  <2>7. PICK z \in m : \A y \in r : NotAfter(fs, y, z)
    BY <2>2, <2>6 DEF T
  <2>8. CASE NotAfter(fs, x, z)
    BY <2>2, <2>7, <2>8
  <2>9. CASE NotAfter(fs, z, x)
    <3>1. \A y \in m : NotAfter(fs, y, x)
      BY <2>2, <2>7, <2>9, OrderIsTotal
    <3> QED
      BY <2>2, <3>1
  <2> QED
    BY <2>2, <2>8, <2>9, OrderIsTotal
<1>2. \E x \in s : \A y \in s : NotAfter(fs, y, x)
  BY <1>1
<1> QED
  BY <1>2 DEF LastOf
-----------------------------------------------------------------------------
\* The fold as far as sets of n places.
IsFold(fs, originals, g, n) ==
    g = [s \in {t \in SUBSET Places(fs) : Cardinality(t) <= n} |->
            IF s = {} THEN Nothing
            ELSE Processed(g[s \ {LastOf(fs, s)}], originals, LabelledAt(fs, LastOf(fs, s)))]

\* There is a function that meets the equation.
LEMMA FoldExists ==
    ASSUME NEW fs, FilesOK(fs), NEW originals, NEW n \in Nat
    PROVE  \E g : IsFold(fs, originals, g, n)
<1> DEFINE T == {m \in Nat : ~\E g : IsFold(fs, originals, g, m)}
<1> SUFFICES ASSUME T # {} PROVE FALSE
  OBVIOUS
<1>1. T \in SUBSET Nat
  OBVIOUS
<1> HIDE DEF T
<1>2. PICK m \in T : \A k \in T : m <= k
  BY <1>1, LeastNumber
<1>3. m \in Nat /\ ~\E g : IsFold(fs, originals, g, m)
  BY DEF T
<1> DEFINE P == Places(fs)
           Upto(k) == {t \in SUBSET P : Cardinality(t) <= k}
<1>4. \A t \in SUBSET P : IsFiniteSet(t) /\ Cardinality(t) \in Nat
  BY PlacesAre, FS_Subset, FS_CardinalityType
<1>5. ASSUME NEW t \in SUBSET P, t # {}
      PROVE  /\ t \ {LastOf(fs, t)} \in SUBSET P
             /\ Cardinality(t \ {LastOf(fs, t)}) = Cardinality(t) - 1
             /\ Cardinality(t) # 0
  BY <1>4, <1>5, LastIs, FS_RemoveElement, FS_EmptySet
<1>6. CASE m = 0
  <2> DEFINE h == [s \in Upto(0) |-> Nothing]
  <2>1. \A s \in Upto(0) : s = {}
    BY <1>4, FS_EmptySet
  <2>2. IsFold(fs, originals, h, 0)
    BY <2>1 DEF IsFold
  <2> QED
    BY <1>3, <1>6, <2>2
<1>7. CASE m # 0
  <2>1. m - 1 \in Nat /\ m - 1 \notin T
    BY <1>2, <1>3, <1>7
  <2>2. PICK g : IsFold(fs, originals, g, m - 1)
    BY <2>1 DEF T
  <2> DEFINE Step(f, s) == IF s = {} THEN Nothing
                           ELSE Processed(f[s \ {LastOf(fs, s)}], originals, LabelledAt(fs, LastOf(fs, s)))
             h == [s \in Upto(m) |-> Step(g, s)]
  <2>3. \A s \in Upto(m - 1) : s \in Upto(m) /\ g[s] = Step(g, s)
    <3>1. g = [s \in Upto(m - 1) |-> Step(g, s)]
      BY <2>2 DEF IsFold
    <3>2. \A s \in Upto(m - 1) : s \in Upto(m)
      BY <1>3, <1>4, <2>1
    <3> HIDE DEF Upto, Step
    <3> QED
      BY <3>1, <3>2
  <2>4. \A s \in Upto(m - 1) : h[s] = g[s]
    BY <2>3
  <2>5. \A s \in Upto(m) : s # {} => s \ {LastOf(fs, s)} \in Upto(m - 1)
    BY <1>3, <1>4, <1>5
  <2> HIDE DEF h
  <2>6. \A s \in Upto(m) : Step(h, s) = Step(g, s)
    BY <2>4, <2>5
  <2>7. h = [s \in Upto(m) |-> Step(h, s)]
    BY <2>6 DEF h
  <2>8. IsFold(fs, originals, h, m)
    BY <2>7 DEF IsFold
  <2> QED
    BY <1>3, <2>8
<1> QED
  BY <1>6, <1>7

LEMMA FoldIs ==
    ASSUME NEW fs, FilesOK(fs), NEW originals
    PROVE  Fold(fs, originals) =
              [s \in SUBSET Places(fs) |->
                  IF s = {} THEN Nothing
                  ELSE Processed(Fold(fs, originals)[s \ {LastOf(fs, s)}], originals,
                                 LabelledAt(fs, LastOf(fs, s)))]
<1> DEFINE n == Cardinality(Places(fs))
<1>1. n \in Nat /\ \A t \in SUBSET Places(fs) : Cardinality(t) <= n
  BY PlacesAre, FS_CardinalityType, FS_Subset
<1> HIDE DEF n
<1>2. PICK g : IsFold(fs, originals, g, n)
  BY <1>1, FoldExists
<1>3. {t \in SUBSET Places(fs) : Cardinality(t) <= n} = SUBSET Places(fs)
  BY <1>1
<1>4. g = [s \in SUBSET Places(fs) |->
              IF s = {} THEN Nothing
              ELSE Processed(g[s \ {LastOf(fs, s)}], originals, LabelledAt(fs, LastOf(fs, s)))]
  BY <1>2, <1>3 DEF IsFold
<1> QED
  BY <1>4 DEF Fold

LEMMA ProcessedDataIs ==
    ASSUME NEW fs, NEW originals
    PROVE  ProcessedData(fs, originals) = Fold(fs, originals)[Places(fs)]
  BY DEF ProcessedData, MapThenFoldSet, Fold, LabelledAt

\* The fold starts from nothing and takes the events of a prefix one by one, the
\* last one last.
LEMMA FoldSteps ==
    ASSUME NEW fs, FilesOK(fs), NEW originals
    PROVE  /\ Fold(fs, originals)[{}] = Nothing
           /\ \A s \in SUBSET Places(fs) : s # {} =>
                Fold(fs, originals)[s] =
                    Processed(Fold(fs, originals)[s \ {LastOf(fs, s)}], originals,
                              LabelledAt(fs, LastOf(fs, s)))
<1> DEFINE F == Fold(fs, originals)
           Step(f, s) == IF s = {} THEN Nothing
                         ELSE Processed(f[s \ {LastOf(fs, s)}], originals, LabelledAt(fs, LastOf(fs, s)))
<1>1. F = [s \in SUBSET Places(fs) |-> Step(F, s)]
  BY FoldIs
<1> HIDE DEF F
<1>2. \A s \in SUBSET Places(fs) : F[s] = Step(F, s)
  BY <1>1
<1>3. F[{}] = Nothing
  BY <1>2
<1>4. \A s \in SUBSET Places(fs) : s # {} =>
         F[s] = Processed(F[s \ {LastOf(fs, s)}], originals, LabelledAt(fs, LastOf(fs, s)))
  BY <1>2
<1> QED
  BY <1>3, <1>4 DEF F

\* A set of prefixes that has the empty one, and with a prefix the one that is
\* one event longer, has them all.
LEMMA PrefixInduction ==
    ASSUME NEW fs, FilesOK(fs), NEW G, {} \in G,
           \A s \in EventPrefixes(fs) :
               (s # {} /\ s \ {LastOf(fs, s)} \in EventPrefixes(fs) /\ s \ {LastOf(fs, s)} \in G) => s \in G
    PROVE  EventPrefixes(fs) \subseteq G /\ Places(fs) \in G
<1> DEFINE P == Places(fs)
           T == EventPrefixes(fs) \ G
<1>1. ASSUME NEW s \in EventPrefixes(fs), s # {}
      PROVE  s \ {LastOf(fs, s)} \in EventPrefixes(fs)
  <2> DEFINE l == LastOf(fs, s)
  <2>1. s \in SUBSET P /\ l \in s /\ \A y \in s : NotAfter(fs, y, l)
    BY <1>1, LastIs DEF EventPrefixes
  <2>2. ASSUME NEW x \in s \ {l}, NEW y \in P, NotAfter(fs, y, x)
        PROVE  y \in s \ {l}
    <3>1. y \in s
      BY <2>2 DEF EventPrefixes
    <3>2. y = l => x = l
      BY <2>1, <2>2, OrderIsTotal
    <3> QED
      BY <2>2, <3>1, <3>2
  <2> HIDE DEF l
  <2> QED
    BY <2>1, <2>2 DEF EventPrefixes, l
<1>2. T = {}
  <2> SUFFICES ASSUME T # {} PROVE FALSE
    OBVIOUS
  <2>1. T \in SUBSET SUBSET P
    BY DEF EventPrefixes
  <2> HIDE DEF T
  <2>2. PICK m \in T : \A t \in T : Cardinality(m) <= Cardinality(t)
    BY <2>1, SmallestSet, PlacesAre
  <2>3. m \in EventPrefixes(fs) /\ m \notin G /\ m # {} /\ m \in SUBSET P
    BY <2>1 DEF T
  <2> DEFINE r == m \ {LastOf(fs, m)}
  <2>4. IsFiniteSet(m) /\ Cardinality(m) \in Nat
    BY <2>3, PlacesAre, FS_Subset, FS_CardinalityType
  <2>5. Cardinality(r) = Cardinality(m) - 1
    BY <2>3, <2>4, LastIs, FS_RemoveElement
  <2>6. r \in EventPrefixes(fs) /\ r \notin T
    BY <1>1, <2>2, <2>3, <2>4, <2>5
  <2> QED
    BY <2>3, <2>6 DEF T
<1>3. P \in EventPrefixes(fs)
  BY DEF EventPrefixes
<1> QED
  BY <1>2, <1>3
-----------------------------------------------------------------------------
(* What a step of the fold does. *)

Ops(d, id) == At(d.process_map, id, NoProcess).operation_map

DataShape(d) ==
    /\ d = [process_map |-> d.process_map, rename_map |-> d.rename_map,
            seen_files |-> d.seen_files, enqueued_execs |-> d.enqueued_execs,
            undefined |-> d.undefined]
    /\ \A id \in DOMAIN d.process_map :
          d.process_map[id] = [named |-> d.process_map[id].named,
                               operation_map |-> d.process_map[id].operation_map]

\* r is d but for its processes, and keeps the names of those of d.
KeepsRest(d, r) ==
    /\ r.rename_map = d.rename_map /\ r.enqueued_execs = d.enqueued_execs
    /\ r.undefined = d.undefined
    /\ DOMAIN d.process_map \subseteq DOMAIN r.process_map
    /\ \A id \in DOMAIN d.process_map : r.process_map[id].named = d.process_map[id].named

LEMMA NothingIs ==
    /\ DataShape(Nothing) /\ DOMAIN Nothing.process_map = {} /\ DOMAIN Nothing.rename_map = {}
    /\ Nothing.seen_files = {} /\ DOMAIN Nothing.enqueued_execs = {} /\ Nothing.undefined = FALSE
    /\ \A id : DOMAIN Ops(Nothing, id) = {}
<1>1. DOMAIN Nothing.process_map = {} /\ DOMAIN Nothing.rename_map = {}
      /\ DOMAIN Nothing.enqueued_execs = {}
  BY DEF Nothing
<1>2. DataShape(Nothing) /\ Nothing.seen_files = {} /\ Nothing.undefined = FALSE
  BY DEF Nothing, DataShape
<1>3. \A id : Ops(Nothing, id) = << >>
  BY <1>1 DEF Ops, At, NoProcess
<1> QED
  BY <1>1, <1>2, <1>3

LEMMA WithProcessIs ==
    ASSUME NEW d, DataShape(d), NEW id, NEW named, NEW ops
    PROVE  LET r == WithProcess(d, id, [named |-> named, operation_map |-> ops])
           IN /\ DataShape(r)
              /\ r.rename_map = d.rename_map /\ r.seen_files = d.seen_files
              /\ r.enqueued_execs = d.enqueued_execs /\ r.undefined = d.undefined
              /\ DOMAIN r.process_map = DOMAIN d.process_map \cup {id}
              /\ r.process_map[id].named = named
              /\ \A other \in DOMAIN d.process_map \ {id} : r.process_map[other] = d.process_map[other]
              /\ Ops(r, id) = ops
              /\ \A other : other # id => Ops(r, other) = Ops(d, other)
<1> DEFINE p == [named |-> named, operation_map |-> ops]
           r == WithProcess(d, id, p)
           m == With(d.process_map, id, p)
<1>1. r = [process_map |-> m, rename_map |-> d.rename_map,
           seen_files |-> d.seen_files, enqueued_execs |-> d.enqueued_execs,
           undefined |-> d.undefined]
  BY DEF WithProcess, DataShape
<1>2. DOMAIN m = DOMAIN d.process_map \cup {id} /\ m[id] = p
      /\ \A other \in DOMAIN d.process_map \ {id} : m[other] = d.process_map[other]
  BY DEF With
<1> HIDE DEF r, m
<1>3. r.process_map = m /\ r.rename_map = d.rename_map /\ r.seen_files = d.seen_files
      /\ r.enqueued_execs = d.enqueued_execs /\ r.undefined = d.undefined
  BY <1>1
<1>4. DataShape(r)
  <2>1. \A i \in DOMAIN m : m[i] = [named |-> m[i].named, operation_map |-> m[i].operation_map]
    BY <1>2 DEF DataShape
  <2> QED
    BY <1>1, <1>3, <2>1 DEF DataShape
<1>5. Ops(r, id) = ops
  BY <1>2, <1>3 DEF Ops, At
<1>6. \A other : other # id => Ops(r, other) = Ops(d, other)
  BY <1>2, <1>3 DEF Ops, At
<1> QED
  BY <1>2, <1>3, <1>4, <1>5, <1>6 DEF r

LEMMA StartStep ==
    ASSUME NEW d, DataShape(d), NEW id
    PROVE  LET r == log_process_start(d, id)
           IN /\ DataShape(r) /\ KeepsRest(d, r) /\ r.seen_files = d.seen_files
              /\ DOMAIN r.process_map = DOMAIN d.process_map \cup {id}
              /\ id \notin DOMAIN d.process_map => r.process_map[id].named = TRUE
              /\ \A other : Ops(r, other) = Ops(d, other)
<1> DEFINE r == log_process_start(d, id)
<1>1. CASE id \in DOMAIN d.process_map
  BY <1>1 DEF log_process_start, KeepsRest
<1>2. CASE id \notin DOMAIN d.process_map
  <2>1. [NoProcess EXCEPT !.named = TRUE] = [named |-> TRUE, operation_map |-> << >>]
    <3> DEFINE n == NoProcess
    <3>1. n = [named |-> FALSE, operation_map |-> << >>]
      BY DEF NoProcess
    <3> HIDE DEF n
    <3>2. \A v : [n EXCEPT !.named = v] = [named |-> v, operation_map |-> << >>]
      BY <3>1
    <3> QED
      BY <3>2 DEF n
  <2>2. r = WithProcess(d, id, [named |-> TRUE, operation_map |-> << >>])
    BY <1>2, <2>1 DEF log_process_start
  <2>3. Ops(d, id) = << >>
    BY <1>2 DEF Ops, At, NoProcess
  <2> HIDE DEF r
  <2>4. /\ DataShape(r)
        /\ r.rename_map = d.rename_map /\ r.seen_files = d.seen_files
        /\ r.enqueued_execs = d.enqueued_execs /\ r.undefined = d.undefined
        /\ DOMAIN r.process_map = DOMAIN d.process_map \cup {id}
        /\ r.process_map[id].named = TRUE
        /\ \A other \in DOMAIN d.process_map \ {id} : r.process_map[other] = d.process_map[other]
        /\ Ops(r, id) = << >>
        /\ \A other : other # id => Ops(r, other) = Ops(d, other)
    BY <2>2, WithProcessIs
  <2> QED
    BY <1>2, <2>3, <2>4 DEF KeepsRest, r
<1> QED
  BY <1>1, <1>2

\* The operation with a flag more, and the checksum if there is one.
Flagged(old, op_type, checksum) ==
    [read |-> old.read \/ op_type = "READ",
     write |-> old.write \/ op_type = "WRITE",
     deleted |-> old.deleted \/ op_type = "UNLINK",
     start |-> IF checksum = NoChecksum THEN old.start ELSE checksum]

LEMMA OperationStep ==
    ASSUME NEW d, DataShape(d), NEW path, NEW id, NEW op_type, NEW checksum
    PROVE  LET r == log_operation(d, path, id, op_type, checksum)
           IN /\ DataShape(r) /\ KeepsRest(d, r) /\ r.seen_files = d.seen_files
              /\ DOMAIN r.process_map = DOMAIN d.process_map \cup {id}
              /\ Ops(r, id) = With(Ops(d, id), path,
                                   Flagged(At(Ops(d, id), path, NoOperations), op_type, checksum))
              /\ \A other : other # id => Ops(r, other) = Ops(d, other)
<1> DEFINE r == log_operation(d, path, id, op_type, checksum)
           process == At(d.process_map, id, NoProcess)
           new == Flagged(At(Ops(d, id), path, NoOperations), op_type, checksum)
           ops == With(Ops(d, id), path, new)
<1>1. process = [named |-> process.named, operation_map |-> process.operation_map]
  BY DEF At, NoProcess, DataShape
<1>2. r = WithProcess(d, id, [process EXCEPT !.operation_map = ops])
  BY DEF log_operation, Flagged, Ops
<1>3. Ops(d, id) = process.operation_map
  BY DEF Ops
<1> HIDE DEF ops, process, r
<1>4. [process EXCEPT !.operation_map = ops] = [named |-> process.named, operation_map |-> ops]
  BY <1>1
<1>5. /\ DataShape(r)
      /\ r.rename_map = d.rename_map /\ r.seen_files = d.seen_files
      /\ r.enqueued_execs = d.enqueued_execs /\ r.undefined = d.undefined
      /\ DOMAIN r.process_map = DOMAIN d.process_map \cup {id}
      /\ r.process_map[id].named = process.named
      /\ \A other \in DOMAIN d.process_map \ {id} : r.process_map[other] = d.process_map[other]
      /\ Ops(r, id) = ops
      /\ \A other : other # id => Ops(r, other) = Ops(d, other)
  BY <1>2, <1>4, WithProcessIs
<1>6. id \in DOMAIN d.process_map => process = d.process_map[id]
  BY DEF process, At
<1> QED
  BY <1>5, <1>6 DEF KeepsRest, r, ops

LEMMA SeenStep ==
    ASSUME NEW d, DataShape(d), NEW path
    PROVE  /\ DataShape(Seen(d, path)) /\ KeepsRest(d, Seen(d, path))
           /\ Seen(d, path).process_map = d.process_map
           /\ Seen(d, path).seen_files = d.seen_files \cup {At(d.rename_map, path, path)}
           /\ \A id : Ops(Seen(d, path), id) = Ops(d, id)
<1>1. Seen(d, path) = [process_map |-> d.process_map, rename_map |-> d.rename_map,
                       seen_files |-> d.seen_files \cup {At(d.rename_map, path, path)},
                       enqueued_execs |-> d.enqueued_execs, undefined |-> d.undefined]
  BY DEF Seen, DataShape
<1> QED
  BY <1>1 DEF DataShape, KeepsRest, Ops

\* Accessed: the operation is logged, with the checksum of a file seen first.
LEMMA AccessStep ==
    ASSUME NEW d, DataShape(d), NEW originals, NEW path, NEW id, NEW op_type
    PROVE  LET r == Accessed(d, originals, path, id, op_type)
               checksum == get_checksum(d, originals, path)
           IN /\ DataShape(r) /\ KeepsRest(d, r)
              /\ r.seen_files = d.seen_files \cup {At(d.rename_map, path, path)}
              /\ DOMAIN r.process_map = DOMAIN d.process_map \cup {id}
              /\ Ops(r, id) = With(Ops(d, id), path,
                                   Flagged(At(Ops(d, id), path, NoOperations), op_type, checksum))
              /\ \A other : other # id => Ops(r, other) = Ops(d, other)
<1> DEFINE s == Seen(d, path)
           checksum == get_checksum(d, originals, path)
           r == log_operation(s, path, id, op_type, checksum)
<1>1. /\ DataShape(s) /\ KeepsRest(d, s) /\ s.process_map = d.process_map
      /\ s.seen_files = d.seen_files \cup {At(d.rename_map, path, path)}
      /\ \A i : Ops(s, i) = Ops(d, i)
  BY SeenStep
<1> HIDE DEF s, checksum
<1>2. /\ DataShape(r) /\ KeepsRest(s, r) /\ r.seen_files = s.seen_files
      /\ DOMAIN r.process_map = DOMAIN s.process_map \cup {id}
      /\ Ops(r, id) = With(Ops(s, id), path,
                           Flagged(At(Ops(s, id), path, NoOperations), op_type, checksum))
      /\ \A other : other # id => Ops(r, other) = Ops(s, other)
  BY <1>1, OperationStep
<1>3. r = Accessed(d, originals, path, id, op_type)
  BY DEF Accessed, s, checksum
<1> HIDE DEF r
<1>4. KeepsRest(d, r)
  BY <1>1, <1>2 DEF KeepsRest
<1> QED
  BY <1>1, <1>2, <1>3, <1>4 DEF checksum

LEMMA TransferStep ==
    ASSUME NEW d, DataShape(d), NEW originals, NEW from, NEW to, NEW id
    PROVE  LET a == Accessed(d, originals, from, id, "READ")
               r == log_operation(a, to, id, "WRITE", NoChecksum)
           IN /\ DataShape(r) /\ KeepsRest(d, r) /\ r.seen_files = a.seen_files
              /\ DOMAIN r.process_map = DOMAIN d.process_map \cup {id}
              /\ Ops(r, id) = With(Ops(a, id), to,
                                   Flagged(At(Ops(a, id), to, NoOperations), "WRITE", NoChecksum))
              /\ \A other : other # id => Ops(r, other) = Ops(d, other)
<1> DEFINE a == Accessed(d, originals, from, id, "READ")
           r == log_operation(a, to, id, "WRITE", NoChecksum)
<1>1. /\ DataShape(a) /\ KeepsRest(d, a)
      /\ DOMAIN a.process_map = DOMAIN d.process_map \cup {id}
      /\ \A other : other # id => Ops(a, other) = Ops(d, other)
  BY AccessStep
<1> HIDE DEF a
<1>2. /\ DataShape(r) /\ KeepsRest(a, r) /\ r.seen_files = a.seen_files
      /\ DOMAIN r.process_map = DOMAIN a.process_map \cup {id}
      /\ Ops(r, id) = With(Ops(a, id), to,
                           Flagged(At(Ops(a, id), to, NoOperations), "WRITE", NoChecksum))
      /\ \A other : other # id => Ops(r, other) = Ops(a, other)
  BY <1>1, OperationStep
<1> HIDE DEF r
<1>3. KeepsRest(d, r)
  BY <1>1, <1>2 DEF KeepsRest
<1> QED
  BY <1>1, <1>2, <1>3 DEF r, a

\* log_rename: the operations of every process on one path move to the other.
LEMMA RenameStep ==
    ASSUME NEW d, DataShape(d), NEW from, NEW to
    PROVE  LET r == log_rename(d, from, to)
           IN /\ DataShape(r) /\ r.seen_files = d.seen_files
              /\ r.enqueued_execs = d.enqueued_execs /\ r.undefined = d.undefined
              /\ DOMAIN r.process_map = DOMAIN d.process_map
              /\ \A id \in DOMAIN d.process_map : r.process_map[id].named = d.process_map[id].named
              /\ \A id : Ops(r, id) = Moved(Ops(d, id), from, to)
              /\ r.rename_map = IF from \in DOMAIN d.rename_map THEN Moved(d.rename_map, from, to)
                                ELSE With(d.rename_map, to, from)
<1> DEFINE r == log_rename(d, from, to)
           m == MovedAll(d.process_map, from, to)
           names == IF from \in DOMAIN d.rename_map THEN Moved(d.rename_map, from, to)
                    ELSE With(d.rename_map, to, from)
<1>1. r = [process_map |-> m, rename_map |-> names,
           seen_files |-> d.seen_files, enqueued_execs |-> d.enqueued_execs,
           undefined |-> d.undefined]
  <2>1. r = [d EXCEPT !.rename_map = names, !.process_map = m]
    BY DEF log_rename
  <2>2. d = [process_map |-> d.process_map, rename_map |-> d.rename_map,
             seen_files |-> d.seen_files, enqueued_execs |-> d.enqueued_execs,
             undefined |-> d.undefined]
    BY DEF DataShape
  <2> HIDE DEF r, m, names
  <2> QED
    BY <2>1, <2>2
<1>2. DOMAIN m = DOMAIN d.process_map
  BY DEF MovedAll
<1>3. \A id \in DOMAIN d.process_map :
        /\ m[id] = [named |-> m[id].named, operation_map |-> m[id].operation_map]
        /\ m[id].named = d.process_map[id].named
        /\ m[id].operation_map = Moved(d.process_map[id].operation_map, from, to)
  <2> SUFFICES ASSUME NEW id \in DOMAIN d.process_map
               PROVE  /\ m[id] = [named |-> m[id].named, operation_map |-> m[id].operation_map]
                      /\ m[id].named = d.process_map[id].named
                      /\ m[id].operation_map = Moved(d.process_map[id].operation_map, from, to)
    OBVIOUS
  <2> DEFINE p == d.process_map[id]
             ops == Moved(p.operation_map, from, to)
  <2>1. m[id] = [p EXCEPT !.operation_map = ops]
    BY DEF MovedAll
  <2>2. p = [named |-> p.named, operation_map |-> p.operation_map]
    BY DEF DataShape
  <2> HIDE DEF p, ops
  <2>3. [p EXCEPT !.operation_map = ops] = [named |-> p.named, operation_map |-> ops]
    BY <2>2
  <2>4. m[id] = [named |-> p.named, operation_map |-> ops]
    BY <2>1, <2>3
  <2> HIDE DEF m
  <2> QED
    BY <2>4 DEF p, ops
<1> HIDE DEF r, m, names
<1>4. r.process_map = m /\ r.rename_map = names /\ r.seen_files = d.seen_files
      /\ r.enqueued_execs = d.enqueued_execs /\ r.undefined = d.undefined
  BY <1>1
<1>5. DataShape(r)
  BY <1>1, <1>2, <1>3, <1>4 DEF DataShape
<1>6. \A id : Ops(r, id) = Moved(Ops(d, id), from, to)
  <2> SUFFICES ASSUME NEW id PROVE Ops(r, id) = Moved(Ops(d, id), from, to)
    OBVIOUS
  <2>1. CASE id \in DOMAIN d.process_map
    <3>1. Ops(r, id) = m[id].operation_map /\ Ops(d, id) = d.process_map[id].operation_map
      BY <1>2, <1>4, <2>1 DEF Ops, At
    <3> QED
      BY <1>3, <2>1, <3>1
  <2>2. CASE id \notin DOMAIN d.process_map
    <3>1. Ops(r, id) = << >> /\ Ops(d, id) = << >>
      BY <1>2, <1>4, <2>2 DEF Ops, At, NoProcess
    <3>2. DOMAIN << >> = {}
      OBVIOUS
    <3>3. Moved(<< >>, from, to) = << >>
      BY <3>2 DEF Moved
    <3> QED
      BY <3>1, <3>3
  <2> QED
    BY <2>1, <2>2
<1> QED
  <2>1. \A id \in DOMAIN d.process_map : r.process_map[id].named = d.process_map[id].named
    BY <1>3, <1>4
  <2>2. DOMAIN r.process_map = DOMAIN d.process_map
    BY <1>2, <1>4
  <2> QED
    BY <1>4, <1>5, <1>6, <2>1, <2>2 DEF r, names

LEMMA ExecStep ==
    ASSUME NEW d, DataShape(d), NEW labelled, NEW id, NEW r \in {PushExec(d, labelled), PopExec(d, id)}
    PROVE  /\ DataShape(r) /\ r.process_map = d.process_map /\ r.rename_map = d.rename_map
           /\ r.seen_files = d.seen_files
<1>1. \E execs, undef : r = [process_map |-> d.process_map, rename_map |-> d.rename_map,
           seen_files |-> d.seen_files, enqueued_execs |-> execs, undefined |-> undef]
  <2>1. CASE r = PushExec(d, labelled)
    BY <2>1 DEF PushExec, DataShape
  <2>2. CASE r = PopExec(d, id)
    BY <2>2 DEF PopExec, DataShape
  <2> QED
    BY <2>1, <2>2
<1> QED
  BY <1>1 DEF DataShape
LEMMA ProcessedIs ==
    ASSUME NEW d, NEW originals, NEW labelled
    PROVE  LET e == labelled.event
               id == labelled.process_id
               r == Processed(d, originals, labelled)
           IN /\ e.op = "START" => r = log_process_start(d, id)
              /\ e.op \in {"READ", "WRITE", "UNLINK"} => r = Accessed(d, originals, e.path, id, e.op)
              /\ e.op = "TRANSFER" =>
                    r = log_operation(Accessed(d, originals, e.from, id, "READ"), e.to, id,
                                      "WRITE", NoChecksum)
              /\ e.op = "RENAME" => r = log_rename(d, e.from, e.to)
              /\ e.op = "EXEC" => r = PushExec(d, labelled)
              /\ e.op = "EXEC_FAIL" => r = PopExec(d, id)
              /\ e.op \notin {"START", "READ", "WRITE", "UNLINK", "TRANSFER", "RENAME", "EXEC",
                              "EXEC_FAIL"} => r = d
  BY DEF Processed

\* A step keeps the processes there are and their names; a new one is that of the
\* event, and has a name if the event is its START.
LEMMA NameStep ==
    ASSUME NEW d, DataShape(d), NEW originals, NEW labelled
    PROVE  LET r == Processed(d, originals, labelled)
               id == labelled.process_id
           IN /\ DataShape(r)
              /\ DOMAIN d.process_map \subseteq DOMAIN r.process_map
              /\ DOMAIN r.process_map \subseteq DOMAIN d.process_map \cup {id}
              /\ \A i \in DOMAIN d.process_map : r.process_map[i].named = d.process_map[i].named
              /\ labelled.event.op = "START" =>
                    /\ id \in DOMAIN r.process_map
                    /\ id \notin DOMAIN d.process_map => r.process_map[id].named = TRUE
<1> DEFINE e == labelled.event
           id == labelled.process_id
           r == Processed(d, originals, labelled)
           Goal == /\ DataShape(r)
                   /\ DOMAIN d.process_map \subseteq DOMAIN r.process_map
                   /\ DOMAIN r.process_map \subseteq DOMAIN d.process_map \cup {id}
                   /\ \A i \in DOMAIN d.process_map : r.process_map[i].named = d.process_map[i].named
                   /\ e.op = "START" =>
                         /\ id \in DOMAIN r.process_map
                         /\ id \notin DOMAIN d.process_map => r.process_map[id].named = TRUE
<1> SUFFICES Goal
  OBVIOUS
<1>1. /\ e.op = "START" => r = log_process_start(d, id)
      /\ e.op \in {"READ", "WRITE", "UNLINK"} => r = Accessed(d, originals, e.path, id, e.op)
      /\ e.op = "TRANSFER" =>
            r = log_operation(Accessed(d, originals, e.from, id, "READ"), e.to, id,
                              "WRITE", NoChecksum)
      /\ e.op = "RENAME" => r = log_rename(d, e.from, e.to)
      /\ e.op = "EXEC" => r = PushExec(d, labelled)
      /\ e.op = "EXEC_FAIL" => r = PopExec(d, id)
      /\ e.op \notin {"START", "READ", "WRITE", "UNLINK", "TRANSFER", "RENAME", "EXEC",
                      "EXEC_FAIL"} => r = d
  BY ProcessedIs
<1> HIDE DEF r, e, id
<1>2. CASE e.op = "START"
  <2>1. r = log_process_start(d, id)
    BY <1>1, <1>2
  <2>2. /\ DataShape(r) /\ KeepsRest(d, r)
        /\ DOMAIN r.process_map = DOMAIN d.process_map \cup {id}
        /\ id \notin DOMAIN d.process_map => r.process_map[id].named = TRUE
    BY <2>1, StartStep
  <2>3. \A i \in DOMAIN d.process_map : r.process_map[i].named = d.process_map[i].named
    BY <2>2 DEF KeepsRest
  <2> QED
    BY <1>2, <2>2, <2>3
<1>3. CASE e.op \in {"READ", "WRITE", "UNLINK"}
  <2>1. e.op # "START" /\ r = Accessed(d, originals, e.path, id, e.op)
    BY <1>1, <1>3
  <2> QED
    BY <2>1, AccessStep DEF KeepsRest
<1>4. CASE e.op = "TRANSFER"
  <2>1. e.op # "START" /\ r = log_operation(Accessed(d, originals, e.from, id, "READ"), e.to, id,
                                            "WRITE", NoChecksum)
    BY <1>1, <1>4
  <2> QED
    BY <2>1, TransferStep DEF KeepsRest
<1>5. CASE e.op = "RENAME"
  <2>1. e.op # "START" /\ r = log_rename(d, e.from, e.to)
    BY <1>1, <1>5
  <2> QED
    BY <2>1, RenameStep
<1>6. CASE e.op \in {"EXEC", "EXEC_FAIL"}
  <2>1. e.op # "START" /\ r \in {PushExec(d, labelled), PopExec(d, id)}
    BY <1>1, <1>6
  <2>2. DataShape(r) /\ r.process_map = d.process_map
    BY <2>1, ExecStep
  <2> QED
    BY <2>1, <2>2
<1>7. CASE e.op \notin {"START", "READ", "WRITE", "UNLINK", "TRANSFER", "RENAME", "EXEC", "EXEC_FAIL"}
  BY <1>1, <1>7
<1> QED
  BY <1>2, <1>3, <1>4, <1>5, <1>6, <1>7
\* The first event of a file that is a START is the START of the file.
LEMMA StartOfIs ==
    ASSUME NEW S, NEW file \in Seq(S), file # << >>, file[1].op = "START"
    PROVE  StartOf(file) = file[1]
<1> DEFINE I == {i \in 1..Len(file) : file[i].op = "START"}
<1>1. 1 \in I /\ I \subseteq Nat \ {0}
  OBVIOUS
<1> HIDE DEF I
<1>2. \E x \in I : \A y \in I : x <= y
  BY <1>1
<1>3. Min(I) = 1
  <2>1. Min(I) \in I /\ \A y \in I : Min(I) <= y
    BY <1>2 DEF Min
  <2> DEFINE m == Min(I)
  <2>2. m \in Nat /\ m # 0 /\ m <= 1
    BY <1>1, <2>1
  <2> HIDE DEF m
  <2>3. m = 1
    BY <2>2
  <2> QED
    BY <2>3 DEF m
<1>4. SelectInSeq(file, LAMBDA e : e.op = "START") = 1
  BY <1>1, <1>3 DEF SelectInSeq, I
<1> QED
  BY <1>4 DEF StartOf

\* When the START of a file is its first event and has the first stamp, every
\* process has a name; "early" has the ids of the files of which it has not.
LEMMA AllNamed ==
    ASSUME NEW fs, FilesOK(fs), NEW originals, NEW early,
           \A i \in DOMAIN fs :
               /\ 1 \in DOMAIN fs[i] /\ fs[i][1].op = "START" /\ StartOf(fs[i]) = fs[i][1]
               /\ \A k \in DOMAIN fs[i] \ {1} : fs[i][1].ts < fs[i][k].ts \/ fs[i][1].id \in early
    PROVE  LET result == ProcessedData(fs, originals)
           IN \A id \in DOMAIN result.process_map \ early : result.process_map[id].named = TRUE
<1> DEFINE F == Fold(fs, originals)
           Good(s) == /\ DataShape(F[s])
                      /\ \A id \in DOMAIN F[s].process_map \ early : F[s].process_map[id].named = TRUE
                      /\ \A i \in DOMAIN fs : <<i, 1>> \in s => fs[i][1].id \in DOMAIN F[s].process_map
           G == {s \in EventPrefixes(fs) : Good(s)}
<1>1. {} \in EventPrefixes(fs)
  BY DEF EventPrefixes
<1>2. F[{}] = Nothing
  BY FoldSteps
<1>3. Good({})
  BY <1>2, NothingIs
<1>4. ASSUME NEW s \in EventPrefixes(fs), s # {},
             s \ {LastOf(fs, s)} \in EventPrefixes(fs), Good(s \ {LastOf(fs, s)})
      PROVE  Good(s)
  <2> DEFINE l == LastOf(fs, s)
             d == F[s \ {l}]
             labelled == LabelledAt(fs, l)
             r == F[s]
             i == l[1]
             k == l[2]
             id == fs[i][1].id
  <2>1. s \in SUBSET Places(fs) /\ l \in s
    BY <1>4, LastIs DEF EventPrefixes
  <2>2. r = Processed(d, originals, labelled)
    BY <1>4, <2>1, FoldSteps
  <2>3. l \in Places(fs) /\ l = <<i, k>> /\ i \in DOMAIN fs /\ k \in DOMAIN fs[i]
    BY <2>1, PlacesAre
  <2>4. labelled.process_id = id /\ labelled.event = fs[i][k]
    BY <2>3 DEF LabelledAt, Labelled
  <2>5. k # 1 => id \in DOMAIN d.process_map \/ id \in early
    <3> SUFFICES ASSUME k # 1, id \notin early PROVE id \in DOMAIN d.process_map
      OBVIOUS
    <3>1. Ts(fs, <<i, 1>>) < Ts(fs, l)
      BY <2>3 DEF Ts
    <3>2. <<i, 1>> \in Places(fs)
      BY <2>3, PlacesAre
    <3>3. <<i, 1>> \in s
      BY <2>1, <2>3, <3>1, <3>2, OrderIsTotal DEF EventPrefixes
    <3>4. <<i, 1>> \in s \ {l}
      BY <2>3, <3>3
    <3> HIDE DEF F, l
    <3> QED
      BY <1>4, <2>3, <3>4 DEF l
  <2>6. k = 1 => labelled.event.op = "START"
    BY <2>3, <2>4
  <2>7. /\ DataShape(d)
        /\ \A other \in DOMAIN d.process_map \ early : d.process_map[other].named = TRUE
        /\ \A j \in DOMAIN fs : <<j, 1>> \in s \ {l} => fs[j][1].id \in DOMAIN d.process_map
    BY <1>4
  <2>a. LET q == Processed(d, originals, labelled)
            p == labelled.process_id
        IN /\ DataShape(q)
           /\ DOMAIN d.process_map \subseteq DOMAIN q.process_map
           /\ DOMAIN q.process_map \subseteq DOMAIN d.process_map \cup {p}
           /\ \A other \in DOMAIN d.process_map : q.process_map[other].named = d.process_map[other].named
           /\ labelled.event.op = "START" =>
                 /\ p \in DOMAIN q.process_map
                 /\ p \notin DOMAIN d.process_map => q.process_map[p].named = TRUE
    <3> HIDE DEF d, labelled, F
    <3> QED
      BY <2>7, NameStep
  <2> HIDE DEF d, r, labelled, F, id
  <2>8. /\ DataShape(r)
        /\ DOMAIN d.process_map \subseteq DOMAIN r.process_map
        /\ DOMAIN r.process_map \subseteq DOMAIN d.process_map \cup {id}
        /\ \A other \in DOMAIN d.process_map : r.process_map[other].named = d.process_map[other].named
        /\ labelled.event.op = "START" =>
              /\ id \in DOMAIN r.process_map
              /\ id \notin DOMAIN d.process_map => r.process_map[id].named = TRUE
    BY <2>2, <2>4, <2>a
  <2> HIDE DEF i, k, l
  <2>9. ASSUME NEW other \in DOMAIN r.process_map \ early PROVE r.process_map[other].named = TRUE
    <3>1. CASE other \in DOMAIN d.process_map
      BY <2>7, <2>8, <2>9, <3>1
    <3>2. CASE other = id /\ id \notin DOMAIN d.process_map
      BY <2>5, <2>6, <2>8, <2>9, <3>2
    <3> QED
      BY <2>8, <2>9, <3>1, <3>2
  <2>10. ASSUME NEW j \in DOMAIN fs, <<j, 1>> \in s PROVE fs[j][1].id \in DOMAIN r.process_map
    <3>1. CASE <<j, 1>> \in s \ {l}
      BY <2>7, <2>8, <3>1
    <3>2. CASE <<j, 1>> = l
      <4>1. j = i /\ k = 1
        BY <2>3, <3>2
      <4> QED
        BY <2>6, <2>8, <4>1 DEF id
    <3> QED
      BY <2>10, <3>1, <3>2
  <2> QED
    BY <2>8, <2>9, <2>10 DEF r
<1> HIDE DEF Good
<1>5. Places(fs) \in G
  BY <1>1, <1>3, <1>4, PrefixInduction
<1>6. ProcessedData(fs, originals) = F[Places(fs)]
  BY ProcessedDataIs
<1> HIDE DEF F
<1> QED
  BY <1>5, <1>6 DEF Good
-----------------------------------------------------------------------------
(* The stacks of EXECs. *)

Stack(d, id) == At(d.enqueued_execs, id, << >>)

\* EXEC pushes on the stack of its id, EXEC_FAIL pops from it, and nothing else
\* touches a stack.
LEMMA StackStep ==
    ASSUME NEW d, DataShape(d), NEW originals, NEW labelled
    PROVE  LET r == Processed(d, originals, labelled)
               id == labelled.process_id
               op == labelled.event.op
           IN /\ DataShape(r)
              /\ op = "EXEC" =>
                    /\ Stack(r, id) = Append(Stack(d, id), labelled)
                    /\ r.undefined = d.undefined
              /\ op = "EXEC_FAIL" =>
                    /\ Stack(d, id) = << >> => Stack(r, id) = << >>
                    /\ Stack(d, id) # << >> =>
                          Stack(r, id) = Front(Stack(d, id)) /\ r.undefined = d.undefined
              /\ op \notin {"EXEC", "EXEC_FAIL"} =>
                    r.enqueued_execs = d.enqueued_execs /\ r.undefined = d.undefined
              /\ \A other : other # id => Stack(r, other) = Stack(d, other)
<1> DEFINE e == labelled.event
           id == labelled.process_id
           r == Processed(d, originals, labelled)
           Goal == /\ DataShape(r)
                   /\ e.op = "EXEC" =>
                         /\ Stack(r, id) = Append(Stack(d, id), labelled)
                         /\ r.undefined = d.undefined
                   /\ e.op = "EXEC_FAIL" =>
                         /\ Stack(d, id) = << >> => Stack(r, id) = << >>
                         /\ Stack(d, id) # << >> =>
                               Stack(r, id) = Front(Stack(d, id)) /\ r.undefined = d.undefined
                   /\ e.op \notin {"EXEC", "EXEC_FAIL"} =>
                         r.enqueued_execs = d.enqueued_execs /\ r.undefined = d.undefined
                   /\ \A other : other # id => Stack(r, other) = Stack(d, other)
<1> SUFFICES Goal
  OBVIOUS
<1>1. /\ e.op = "START" => r = log_process_start(d, id)
      /\ e.op \in {"READ", "WRITE", "UNLINK"} => r = Accessed(d, originals, e.path, id, e.op)
      /\ e.op = "TRANSFER" =>
            r = log_operation(Accessed(d, originals, e.from, id, "READ"), e.to, id,
                              "WRITE", NoChecksum)
      /\ e.op = "RENAME" => r = log_rename(d, e.from, e.to)
      /\ e.op = "EXEC" => r = PushExec(d, labelled)
      /\ e.op = "EXEC_FAIL" => r = PopExec(d, id)
      /\ e.op \notin {"START", "READ", "WRITE", "UNLINK", "TRANSFER", "RENAME", "EXEC",
                      "EXEC_FAIL"} => r = d
  BY ProcessedIs
<1>2. CASE e.op = "EXEC"
  <2> DEFINE stack == Append(At(d.enqueued_execs, id, << >>), labelled)
             execs == With(d.enqueued_execs, id, stack)
  <2>1. r = PushExec(d, labelled)
    BY <1>1, <1>2
  <2>2. PushExec(d, labelled) = [d EXCEPT !.enqueued_execs = execs]
    BY DEF PushExec
  <2>3. \A v : [d EXCEPT !.enqueued_execs = v] =
                  [process_map |-> d.process_map, rename_map |-> d.rename_map,
                   seen_files |-> d.seen_files, enqueued_execs |-> v, undefined |-> d.undefined]
    BY DEF DataShape
  <2>4. id \in DOMAIN execs /\ execs[id] = stack
        /\ \A other : other # id => /\ other \in DOMAIN execs <=> other \in DOMAIN d.enqueued_execs
                                    /\ other \in DOMAIN execs => execs[other] = d.enqueued_execs[other]
    BY DEF With
  <2> HIDE DEF r, execs
  <2>5. r = [process_map |-> d.process_map, rename_map |-> d.rename_map,
             seen_files |-> d.seen_files, enqueued_execs |-> execs, undefined |-> d.undefined]
    BY <2>1, <2>2, <2>3
  <2>6. DataShape(r) /\ r.enqueued_execs = execs /\ r.undefined = d.undefined
    BY <2>5 DEF DataShape
  <2>7. Stack(r, id) = stack /\ stack = Append(Stack(d, id), labelled)
    BY <2>4, <2>6 DEF Stack, At
  <2>8. \A other : other # id => Stack(r, other) = Stack(d, other)
    BY <2>4, <2>6 DEF Stack, At
  <2> QED
    BY <1>2, <2>6, <2>7, <2>8
<1>3. CASE e.op = "EXEC_FAIL" /\ Stack(d, id) = << >>
  <2>1. r = PopExec(d, id)
    BY <1>1, <1>3
  <2>2. PopExec(d, id) = [d EXCEPT !.undefined = TRUE]
    BY <1>3 DEF PopExec, Stack
  <2>3. \A v : [d EXCEPT !.undefined = v] =
                  [process_map |-> d.process_map, rename_map |-> d.rename_map,
                   seen_files |-> d.seen_files, enqueued_execs |-> d.enqueued_execs, undefined |-> v]
    BY DEF DataShape
  <2> HIDE DEF r
  <2>4. \E v : r = [process_map |-> d.process_map, rename_map |-> d.rename_map,
                    seen_files |-> d.seen_files, enqueued_execs |-> d.enqueued_execs, undefined |-> v]
    BY <2>1, <2>2, <2>3
  <2>5. DataShape(r) /\ r.enqueued_execs = d.enqueued_execs
    BY <2>4 DEF DataShape
  <2>6. \A other : Stack(r, other) = Stack(d, other)
    BY <2>5 DEF Stack
  <2> QED
    BY <1>3, <2>5, <2>6
<1>4. CASE e.op = "EXEC_FAIL" /\ Stack(d, id) # << >>
  <2> DEFINE stack == Front(d.enqueued_execs[id])
             execs == With(d.enqueued_execs, id, stack)
  <2>1. r = PopExec(d, id)
    BY <1>1, <1>4
  <2>2. PopExec(d, id) = [d EXCEPT !.enqueued_execs = execs]
    BY <1>4 DEF PopExec, Stack
  <2>3. \A v : [d EXCEPT !.enqueued_execs = v] =
                  [process_map |-> d.process_map, rename_map |-> d.rename_map,
                   seen_files |-> d.seen_files, enqueued_execs |-> v, undefined |-> d.undefined]
    BY DEF DataShape
  <2>4. id \in DOMAIN execs /\ execs[id] = stack
        /\ \A other : other # id => /\ other \in DOMAIN execs <=> other \in DOMAIN d.enqueued_execs
                                    /\ other \in DOMAIN execs => execs[other] = d.enqueued_execs[other]
    BY DEF With
  <2>a. stack = Front(Stack(d, id))
    BY <1>4 DEF Stack, At
  <2> HIDE DEF r, execs, stack
  <2>5. r = [process_map |-> d.process_map, rename_map |-> d.rename_map,
             seen_files |-> d.seen_files, enqueued_execs |-> execs, undefined |-> d.undefined]
    BY <2>1, <2>2, <2>3
  <2>6. DataShape(r) /\ r.enqueued_execs = execs /\ r.undefined = d.undefined
    BY <2>5 DEF DataShape
  <2>7. Stack(r, id) = stack
    BY <2>4, <2>6 DEF Stack, At
  <2>8. \A other : other # id => Stack(r, other) = Stack(d, other)
    BY <2>4, <2>6 DEF Stack, At
  <2> QED
    BY <1>4, <2>a, <2>6, <2>7, <2>8
<1>5. CASE e.op \notin {"EXEC", "EXEC_FAIL"}
  <2> HIDE DEF r, e, id
  <2>1. DataShape(r) /\ r.enqueued_execs = d.enqueued_execs /\ r.undefined = d.undefined
    <3>1. CASE e.op = "START"
      <4>1. r = log_process_start(d, id)
        BY <1>1, <3>1
      <4> QED
        BY <4>1, StartStep DEF KeepsRest
    <3>2. CASE e.op \in {"READ", "WRITE", "UNLINK"}
      <4>1. r = Accessed(d, originals, e.path, id, e.op)
        BY <1>1, <3>2
      <4> QED
        BY <4>1, AccessStep DEF KeepsRest
    <3>3. CASE e.op = "TRANSFER"
      <4>1. r = log_operation(Accessed(d, originals, e.from, id, "READ"), e.to, id, "WRITE", NoChecksum)
        BY <1>1, <3>3
      <4> QED
        BY <4>1, TransferStep DEF KeepsRest
    <3>4. CASE e.op = "RENAME"
      <4>1. r = log_rename(d, e.from, e.to)
        BY <1>1, <3>4
      <4> QED
        BY <4>1, RenameStep
    <3>5. CASE e.op \notin {"START", "READ", "WRITE", "UNLINK", "TRANSFER", "RENAME"}
      <4>1. r = d
        BY <1>1, <1>5, <3>5
      <4> QED
        BY <4>1
    <3> QED
      BY <3>1, <3>2, <3>3, <3>4, <3>5
  <2> QED
    BY <1>5, <2>1 DEF Stack
<1> QED
  BY <1>2, <1>3, <1>4, <1>5

\* What is on a stack are events of the files, with the id of the START of their file.
LEMMA StacksAre ==
    ASSUME NEW fs, FilesOK(fs), NEW originals, NEW id
    PROVE  Stack(ProcessedData(fs, originals), id) \in Seq({LabelledAt(fs, x) : x \in Places(fs)})
<1> DEFINE F == Fold(fs, originals)
           L == {LabelledAt(fs, x) : x \in Places(fs)}
           Good(s) == DataShape(F[s]) /\ \A n : Stack(F[s], n) \in Seq(L)
           G == {s \in EventPrefixes(fs) : Good(s)}
<1>1. {} \in EventPrefixes(fs)
  BY DEF EventPrefixes
<1>2. F[{}] = Nothing
  BY FoldSteps
<1>3. Good({})
  <2>1. \A n : Stack(Nothing, n) = << >>
    BY NothingIs DEF Stack, At
  <2>2. DataShape(Nothing)
    BY NothingIs
  <2> DEFINE r == F[{}]
  <2>3. r = Nothing
    BY <1>2
  <2> HIDE DEF r, F, L
  <2>4. \A n : Stack(r, n) = << >>
    BY <2>1, <2>3
  <2>5. ASSUME NEW n PROVE Stack(r, n) \in Seq(L)
    <3>1. Stack(r, n) = << >>
      BY <2>4
    <3>2. << >> \in Seq(L)
      OBVIOUS
    <3> QED
      BY <3>1, <3>2
  <2>6. DataShape(r)
    BY <2>2, <2>3
  <2> QED
    BY <2>5, <2>6 DEF r
<1>4. ASSUME NEW s \in EventPrefixes(fs), s # {},
             s \ {LastOf(fs, s)} \in EventPrefixes(fs), Good(s \ {LastOf(fs, s)})
      PROVE  Good(s)
  <2> DEFINE l == LastOf(fs, s)
             d == F[s \ {l}]
             labelled == LabelledAt(fs, l)
             r == F[s]
  <2>1. s \in SUBSET Places(fs) /\ l \in s
    BY <1>4, LastIs DEF EventPrefixes
  <2>2. r = Processed(d, originals, labelled)
    BY <1>4, <2>1, FoldSteps
  <2>3. labelled \in L
    BY <2>1
  <2>4. DataShape(d) /\ \A n : Stack(d, n) \in Seq(L)
    BY <1>4
  <2> HIDE DEF d, r, labelled, F, L
  <2>5. DataShape(r)
    BY <2>2, <2>4, StackStep
  <2>6. ASSUME NEW n PROVE Stack(r, n) \in Seq(L)
    <3> DEFINE a == Stack(d, n)
    <3>1. Stack(r, n) \in {a, Append(a, labelled), << >>} \/ (a # << >> /\ Stack(r, n) = Front(a))
      <4>1. CASE n # labelled.process_id
        BY <2>2, <2>4, <4>1, StackStep
      <4>2. CASE n = labelled.process_id
        <5>1. CASE labelled.event.op = "EXEC"
          BY <2>2, <2>4, <4>2, <5>1, StackStep
        <5>2. CASE labelled.event.op = "EXEC_FAIL"
          BY <2>2, <2>4, <4>2, <5>2, StackStep
        <5>3. CASE labelled.event.op \notin {"EXEC", "EXEC_FAIL"}
          <6>1. r.enqueued_execs = d.enqueued_execs
            BY <2>2, <2>4, <5>3, StackStep
          <6> QED
            BY <6>1 DEF Stack
        <5> QED
          BY <5>1, <5>2, <5>3
      <4> QED
        BY <4>1, <4>2
    <3>2. a \in Seq(L)
      BY <2>4
    <3> HIDE DEF a
    <3>3. a # << >> => Front(a) \in Seq(L)
      BY <3>2 DEF Front
    <3>4. Append(a, labelled) \in Seq(L) /\ << >> \in Seq(L)
      BY <2>3, <3>2
    <3> QED
      BY <3>1, <3>2, <3>3, <3>4
  <2> QED
    BY <2>5, <2>6 DEF r
<1> HIDE DEF Good, L
<1>5. Places(fs) \in G
  BY <1>1, <1>3, <1>4, PrefixInduction
<1>6. ProcessedData(fs, originals) = F[Places(fs)]
  BY ProcessedDataIs
<1> HIDE DEF F
<1> QED
  BY <1>5, <1>6 DEF Good, L
Labels(fs, s, n, op) ==
    {x \in s : LabelledAt(fs, x).process_id = n /\ LabelledAt(fs, x).event.op = op}

LEMMA LabelsGrow ==
    ASSUME NEW fs, FilesOK(fs), NEW s \in SUBSET Places(fs), NEW l \in s, NEW n, NEW op
    PROVE  /\ Cardinality(Labels(fs, s, n, op)) \in Nat
           /\ Cardinality(Labels(fs, s \ {l}, n, op)) \in Nat
           /\ Cardinality(Labels(fs, s, n, op)) =
                 IF LabelledAt(fs, l).process_id = n /\ LabelledAt(fs, l).event.op = op
                 THEN Cardinality(Labels(fs, s \ {l}, n, op)) + 1
                 ELSE Cardinality(Labels(fs, s \ {l}, n, op))
<1> DEFINE A == Labels(fs, s, n, op)
           B == Labels(fs, s \ {l}, n, op)
<1>1. IsFiniteSet(s) /\ A \subseteq s /\ B \subseteq s /\ l \notin B
  BY PlacesAre, FS_Subset DEF Labels
<1>2. IsFiniteSet(A) /\ IsFiniteSet(B) /\ Cardinality(A) \in Nat /\ Cardinality(B) \in Nat
  BY <1>1, FS_Subset, FS_CardinalityType
<1>3. CASE LabelledAt(fs, l).process_id = n /\ LabelledAt(fs, l).event.op = op
  <2>1. A = B \cup {l}
    BY <1>3 DEF Labels
  <2> HIDE DEF A, B
  <2>2. Cardinality(B \cup {l}) = Cardinality(B) + 1
    BY <1>1, <1>2, FS_AddElement
  <2> QED
    BY <1>2, <1>3, <2>1, <2>2 DEF A, B
<1>4. CASE ~(LabelledAt(fs, l).process_id = n /\ LabelledAt(fs, l).event.op = op)
  <2>1. A = B
    BY <1>4 DEF Labels
  <2> HIDE DEF A, B
  <2> QED
    BY <1>2, <1>4, <2>1 DEF A, B
<1> QED
  BY <1>3, <1>4

\* push gives every EXEC_FAIL an EXEC of the same id before it, and no two of them
\* the same one.
Pushing(fs, push) ==
    /\ \A x \in Places(fs) : LabelledAt(fs, x).event.op = "EXEC_FAIL" =>
           /\ push[x] \in Places(fs) /\ LabelledAt(fs, push[x]).event.op = "EXEC"
           /\ LabelledAt(fs, push[x]).process_id = LabelledAt(fs, x).process_id
           /\ Ts(fs, push[x]) < Ts(fs, x)
    /\ \A x, y \in Places(fs) :
           /\ LabelledAt(fs, x).event.op = "EXEC_FAIL"
           /\ LabelledAt(fs, y).event.op = "EXEC_FAIL"
           /\ push[x] = push[y]
           => x = y

\* When every EXEC_FAIL has an EXEC of its own before it, no EXEC_FAIL pops an empty
\* stack.
LEMMA NoEmptyPop ==
    ASSUME NEW fs, FilesOK(fs), NEW originals, NEW push, Pushing(fs, push)
    PROVE  ProcessedData(fs, originals).undefined = FALSE
<1>a. /\ \A x \in Places(fs) : LabelledAt(fs, x).event.op = "EXEC_FAIL" =>
             /\ push[x] \in Places(fs) /\ LabelledAt(fs, push[x]).event.op = "EXEC"
             /\ LabelledAt(fs, push[x]).process_id = LabelledAt(fs, x).process_id
             /\ Ts(fs, push[x]) < Ts(fs, x)
      /\ \A x, y \in Places(fs) :
             /\ LabelledAt(fs, x).event.op = "EXEC_FAIL"
             /\ LabelledAt(fs, y).event.op = "EXEC_FAIL"
             /\ push[x] = push[y]
             => x = y
  BY DEF Pushing
<1> DEFINE F == Fold(fs, originals)
           L == {LabelledAt(fs, x) : x \in Places(fs)}
           Pushed(s, n) == Cardinality(Labels(fs, s, n, "EXEC"))
           Popped(s, n) == Cardinality(Labels(fs, s, n, "EXEC_FAIL"))
           Good(s) == /\ DataShape(F[s]) /\ F[s].undefined = FALSE
                      /\ \A n : /\ Stack(F[s], n) \in Seq(L)
                                /\ Len(Stack(F[s], n)) + Popped(s, n) = Pushed(s, n)
           G == {s \in EventPrefixes(fs) : Good(s)}
<1>1. {} \in EventPrefixes(fs)
  BY DEF EventPrefixes
<1>2. F[{}] = Nothing
  BY FoldSteps
<1>3. Good({})
  <2>1. \A n : Stack(Nothing, n) = << >>
    BY NothingIs DEF Stack, At
  <2>2. DataShape(Nothing) /\ Nothing.undefined = FALSE
    BY NothingIs
  <2> DEFINE r == F[{}]
  <2>3. r = Nothing
    BY <1>2
  <2> HIDE DEF r, F, L
  <2>4. ASSUME NEW n PROVE Stack(r, n) \in Seq(L) /\ Len(Stack(r, n)) + Popped({}, n) = Pushed({}, n)
    <3>1. Stack(r, n) = << >>
      BY <2>1, <2>3
    <3>2. << >> \in Seq(L) /\ Len(<< >>) = 0
      OBVIOUS
    <3>3. Labels(fs, {}, n, "EXEC") = {} /\ Labels(fs, {}, n, "EXEC_FAIL") = {}
      BY DEF Labels
    <3>4. Popped({}, n) = 0 /\ Pushed({}, n) = 0
      BY <3>3, FS_EmptySet
    <3> QED
      BY <3>1, <3>2, <3>4
  <2>5. DataShape(r) /\ r.undefined = FALSE
    BY <2>2, <2>3
  <2> QED
    BY <2>4, <2>5 DEF r
<1>4. ASSUME NEW s \in EventPrefixes(fs), s # {},
             s \ {LastOf(fs, s)} \in EventPrefixes(fs), Good(s \ {LastOf(fs, s)})
      PROVE  Good(s)
  <2> DEFINE l == LastOf(fs, s)
             t == s \ {l}
             d == F[t]
             labelled == LabelledAt(fs, l)
             r == F[s]
             id == labelled.process_id
             op == labelled.event.op
  <2>1. s \in SUBSET Places(fs) /\ l \in s /\ \A y \in s : NotAfter(fs, y, l)
    BY <1>4, LastIs DEF EventPrefixes
  <2>2. r = Processed(d, originals, labelled)
    BY <1>4, <2>1, FoldSteps
  <2>3. labelled \in L
    BY <2>1
  <2>4. DataShape(d) /\ d.undefined = FALSE
        /\ \A n : Stack(d, n) \in Seq(L) /\ Len(Stack(d, n)) + Popped(t, n) = Pushed(t, n)
    BY <1>4
  <2>5. ASSUME NEW n
        PROVE  /\ Pushed(s, n) \in Nat /\ Pushed(t, n) \in Nat
               /\ Popped(s, n) \in Nat /\ Popped(t, n) \in Nat
               /\ Pushed(s, n) = IF id = n /\ op = "EXEC" THEN Pushed(t, n) + 1 ELSE Pushed(t, n)
               /\ Popped(s, n) = IF id = n /\ op = "EXEC_FAIL" THEN Popped(t, n) + 1 ELSE Popped(t, n)
    <3>1. l \in s /\ s \in SUBSET Places(fs)
      BY <2>1
    <3> HIDE DEF l, F, L
    <3>2. /\ Pushed(s, n) \in Nat /\ Pushed(t, n) \in Nat
          /\ Pushed(s, n) = IF id = n /\ op = "EXEC" THEN Pushed(t, n) + 1 ELSE Pushed(t, n)
      BY <3>1, LabelsGrow
    <3>3. /\ Popped(s, n) \in Nat /\ Popped(t, n) \in Nat
          /\ Popped(s, n) = IF id = n /\ op = "EXEC_FAIL" THEN Popped(t, n) + 1 ELSE Popped(t, n)
      BY <3>1, LabelsGrow
    <3> QED
      BY <3>2, <3>3
  <2>6. op = "EXEC_FAIL" => Popped(s, id) <= Pushed(t, id)
    <3> SUFFICES ASSUME op = "EXEC_FAIL" PROVE Popped(s, id) <= Pushed(t, id)
      OBVIOUS
    <3> DEFINE A == Labels(fs, s, id, "EXEC_FAIL")
               B == Labels(fs, t, id, "EXEC")
    <3>1. A \subseteq Places(fs) /\ B \subseteq Places(fs) /\ IsFiniteSet(B)
      BY <2>1, PlacesAre, FS_Subset DEF Labels
    <3>2. ASSUME NEW x \in A PROVE push[x] \in B
      <4>1. /\ x \in s /\ x \in Places(fs) /\ LabelledAt(fs, x).event.op = "EXEC_FAIL"
            /\ LabelledAt(fs, x).process_id = id
        BY <2>1 DEF Labels
      <4>2. /\ push[x] \in Places(fs) /\ LabelledAt(fs, push[x]).event.op = "EXEC"
            /\ LabelledAt(fs, push[x]).process_id = id /\ Ts(fs, push[x]) < Ts(fs, x)
        BY <1>a, <4>1
      <4> DEFINE y == push[x]
      <4> HIDE DEF y
      <4>3. y \in Places(fs) /\ Ts(fs, y) < Ts(fs, x)
        BY <4>2 DEF y
      <4>4. NotAfter(fs, y, x) /\ ~NotAfter(fs, x, y)
        BY <4>1, <4>3, OrderIsTotal
      <4>5. y \in s
        BY <4>1, <4>3, <4>4 DEF EventPrefixes
      <4>6. y # l
        BY <2>1, <4>1, <4>4
      <4> QED
        BY <4>2, <4>5, <4>6 DEF Labels, y
    <3> DEFINE f == [x \in A |-> push[x]]
    <3>3. \A x, y \in A : push[x] = push[y] => x = y
      BY <1>a, <3>1 DEF Labels
    <3>4. f \in Injection(A, B)
      <4>1. f \in [A -> B]
        BY <3>2
      <4>2. \A x, y \in DOMAIN f : f[x] = f[y] => x = y
        BY <3>3
      <4> HIDE DEF f
      <4> QED
        BY <4>1, <4>2 DEF Injection, IsInjective
    <3> HIDE DEF f
    <3> QED
      BY <3>1, <3>4, FS_Injection
  <2> HIDE DEF d, r, labelled, F, L, t, Pushed, Popped, id, op
  <2>7. /\ DataShape(r)
        /\ op = "EXEC" => Stack(r, id) = Append(Stack(d, id), labelled) /\ r.undefined = d.undefined
        /\ op = "EXEC_FAIL" =>
              (Stack(d, id) # << >> =>
                  Stack(r, id) = Front(Stack(d, id)) /\ r.undefined = d.undefined)
        /\ op \notin {"EXEC", "EXEC_FAIL"} =>
              r.enqueued_execs = d.enqueued_execs /\ r.undefined = d.undefined
        /\ \A other : other # id => Stack(r, other) = Stack(d, other)
    BY <2>2, <2>4, StackStep DEF id, op
  <2>8. op = "EXEC_FAIL" => Stack(d, id) # << >>
    <3> SUFFICES ASSUME op = "EXEC_FAIL", Stack(d, id) = << >> PROVE FALSE
      OBVIOUS
    <3>1. Len(Stack(d, id)) = 0
      OBVIOUS
    <3> QED
      BY <2>4, <2>5, <2>6, <3>1
  <2>9. ASSUME NEW n PROVE Stack(r, n) \in Seq(L) /\ Len(Stack(r, n)) + Popped(s, n) = Pushed(s, n)
    <3> DEFINE a == Stack(d, n)
    <3>1. a \in Seq(L) /\ Len(a) + Popped(t, n) = Pushed(t, n) /\ Len(a) \in Nat
      BY <2>4
    <3>2. CASE n = id /\ op = "EXEC"
      <4>1. Stack(r, n) = Append(a, labelled)
        BY <2>7, <3>2
      <4> HIDE DEF a
      <4>2. Append(a, labelled) \in Seq(L) /\ Len(Append(a, labelled)) = Len(a) + 1
        BY <2>3, <3>1
      <4> QED
        BY <2>5, <3>1, <3>2, <4>1, <4>2
    <3>3. CASE n = id /\ op = "EXEC_FAIL"
      <4>1. a # << >> /\ Stack(r, n) = Front(a)
        BY <2>7, <2>8, <3>3
      <4> HIDE DEF a
      <4>2. Front(a) \in Seq(L) /\ Len(Front(a)) = Len(a) - 1
        <5>1. Len(a) \in Nat \ {0} /\ Front(a) = SubSeq(a, 1, Len(a) - 1)
          BY <3>1, <4>1 DEF Front
        <5>2. SubSeq(a, 1, Len(a) - 1) \in Seq(L) /\ Len(SubSeq(a, 1, Len(a) - 1)) = Len(a) - 1
          <6> DEFINE k == Len(a) - 1
          <6>1. k \in Nat /\ k \in Int /\ 1 \in Int
            BY <5>1
          <6>2. \A i \in 1..k : a[i] \in L
            BY <3>1, <5>1
          <6> HIDE DEF k
          <6>3. SubSeq(a, 1, k) \in Seq(L) /\ Len(SubSeq(a, 1, k)) = IF 1 <= k THEN k - 1 + 1 ELSE 0
            BY <6>1, <6>2, SubSeqProperties
          <6>4. Len(SubSeq(a, 1, k)) = k
            BY <6>1, <6>3
          <6> QED
            BY <6>3, <6>4 DEF k
        <5> QED
          BY <5>1, <5>2
      <4> QED
        BY <2>5, <3>1, <3>3, <4>1, <4>2
    <3>4. CASE n # id \/ op \notin {"EXEC", "EXEC_FAIL"}
      <4>1. Stack(r, n) = a
        BY <2>7, <3>4 DEF Stack
      <4>2. Pushed(s, n) = Pushed(t, n) /\ Popped(s, n) = Popped(t, n)
        BY <2>5, <3>4
      <4> QED
        BY <3>1, <4>1, <4>2
    <3> QED
      BY <3>2, <3>3, <3>4
  <2>10. r.undefined = FALSE
    BY <2>4, <2>7, <2>8
  <2> QED
    BY <2>7, <2>9, <2>10 DEF r
<1> HIDE DEF Good, L
<1>5. Places(fs) \in G
  BY <1>1, <1>3, <1>4, PrefixInduction
<1>6. ProcessedData(fs, originals) = F[Places(fs)]
  BY ProcessedDataIs
<1> HIDE DEF F
<1> QED
  BY <1>5, <1>6 DEF Good
-----------------------------------------------------------------------------
(* An EXEC whose own exec succeeded stays on its stack.                    *)

\* Of a set of places, the events of op and of the id of the one at x0, after x0.
Since(fs, s, x0, op) ==
    {x \in Labels(fs, s, LabelledAt(fs, x0).process_id, op) : ~NotAfter(fs, x, x0)}

LEMMA SinceGrow ==
    ASSUME NEW fs, FilesOK(fs), NEW s \in SUBSET Places(fs), NEW l \in s, NEW x0, NEW op
    PROVE  /\ Cardinality(Since(fs, s, x0, op)) \in Nat
           /\ Cardinality(Since(fs, s \ {l}, x0, op)) \in Nat
           /\ Cardinality(Since(fs, s, x0, op)) =
                 IF /\ LabelledAt(fs, l).process_id = LabelledAt(fs, x0).process_id
                    /\ LabelledAt(fs, l).event.op = op
                    /\ ~NotAfter(fs, l, x0)
                 THEN Cardinality(Since(fs, s \ {l}, x0, op)) + 1
                 ELSE Cardinality(Since(fs, s \ {l}, x0, op))
<1> DEFINE A == Since(fs, s, x0, op)
           B == Since(fs, s \ {l}, x0, op)
           Is == /\ LabelledAt(fs, l).process_id = LabelledAt(fs, x0).process_id
                 /\ LabelledAt(fs, l).event.op = op
                 /\ ~NotAfter(fs, l, x0)
<1>1. IsFiniteSet(s) /\ A \subseteq s /\ B \subseteq s /\ l \notin B
  BY PlacesAre, FS_Subset DEF Since, Labels
<1>2. IsFiniteSet(A) /\ IsFiniteSet(B) /\ Cardinality(A) \in Nat /\ Cardinality(B) \in Nat
  BY <1>1, FS_Subset, FS_CardinalityType
<1>3. CASE Is
  <2>1. A = B \cup {l}
    BY <1>3 DEF Since, Labels
  <2> HIDE DEF A, B
  <2>2. Cardinality(B \cup {l}) = Cardinality(B) + 1
    BY <1>1, <1>2, FS_AddElement
  <2> QED
    BY <1>2, <1>3, <2>1, <2>2 DEF A, B
<1>4. CASE ~Is
  <2>1. A = B
    BY <1>4 DEF Since, Labels
  <2> HIDE DEF A, B
  <2> QED
    BY <1>2, <1>4, <2>1 DEF A, B
<1> QED
  BY <1>3, <1>4

\* push gives every EXEC_FAIL of the id of the EXEC at x0 and after it an EXEC
\* between the two, and no two of them the same one.
FailsSince(fs, x0, x) ==
    /\ LabelledAt(fs, x).event.op = "EXEC_FAIL"
    /\ LabelledAt(fs, x).process_id = LabelledAt(fs, x0).process_id
    /\ ~NotAfter(fs, x, x0)
PushingSince(fs, push, x0) ==
    /\ x0 \in Places(fs) /\ LabelledAt(fs, x0).event.op = "EXEC"
    /\ \A x \in Places(fs) : FailsSince(fs, x0, x) =>
           /\ push[x] \in Places(fs) /\ LabelledAt(fs, push[x]).event.op = "EXEC"
           /\ LabelledAt(fs, push[x]).process_id = LabelledAt(fs, x0).process_id
           /\ Ts(fs, push[x]) < Ts(fs, x) /\ ~NotAfter(fs, push[x], x0)
    /\ \A x, y \in Places(fs) :
           FailsSince(fs, x0, x) /\ FailsSince(fs, x0, y) /\ push[x] = push[y] => x = y

\* A stack that has e, and above it as many as were pushed since and not popped.
Keeps(stack, e, pushed, popped) ==
    \E k \in 1..Len(stack) : stack[k] = e /\ Len(stack) + popped = k + pushed

LEMMA KeepsPush ==
    ASSUME NEW L, NEW a \in Seq(L), NEW e, NEW x \in L,
           NEW pushed \in Nat, NEW popped \in Nat, Keeps(a, e, pushed, popped)
    PROVE  Keeps(Append(a, x), e, pushed + 1, popped)
<1>1. PICK k \in 1..Len(a) : a[k] = e /\ Len(a) + popped = k + pushed
  BY DEF Keeps
<1> DEFINE b == Append(a, x)
<1>2. Len(b) = Len(a) + 1 /\ Len(a) \in Nat /\ b[k] = a[k]
  OBVIOUS
<1> HIDE DEF b
<1>3. k \in 1..Len(b) /\ b[k] = e /\ Len(b) + popped = k + (pushed + 1)
  BY <1>1, <1>2
<1> QED
  BY <1>3 DEF Keeps, b

LEMMA KeepsPop ==
    ASSUME NEW L, NEW a \in Seq(L), NEW e,
           NEW pushed \in Nat, NEW popped \in Nat, Keeps(a, e, pushed, popped),
           popped + 1 <= pushed
    PROVE  a # << >> /\ Keeps(Front(a), e, pushed, popped + 1)
<1>1. PICK k \in 1..Len(a) : a[k] = e /\ Len(a) + popped = k + pushed
  BY DEF Keeps
<1> DEFINE n == Len(a) - 1
           b == SubSeq(a, 1, n)
<1>2. Len(a) \in Nat \ {0} /\ n \in Nat /\ n \in Int /\ k \in 1..n /\ Len(a) = n + 1
  BY <1>1
<1>3. \A i \in 1..n : a[i] \in L
  BY <1>2
<1>4. Front(a) = b
  BY <1>2 DEF Front
<1>5. Len(b) = n /\ b[k] = a[k]
  <2> HIDE DEF n
  <2>1. /\ Len(b) = IF 1 <= n THEN n - 1 + 1 ELSE 0
        /\ \A i \in 1..(n - 1 + 1) : b[i] = a[1 + i - 1]
    BY <1>2, <1>3, SubSeqProperties
  <2>2. k \in 1..(n - 1 + 1) /\ 1 + k - 1 = k
    BY <1>2
  <2> QED
    BY <1>2, <2>1, <2>2
<1> HIDE DEF b, n
<1>6. Len(b) + (popped + 1) = k + pushed
  BY <1>1, <1>2, <1>5
<1>7. Keeps(b, e, pushed, popped + 1)
  BY <1>1, <1>2, <1>5, <1>6 DEF Keeps
<1> QED
  BY <1>2, <1>4, <1>7
\* When every later EXEC_FAIL of its id has a later EXEC of its own, an EXEC is on
\* the stack of its id in the end.
LEMMA ExecStays ==
    ASSUME NEW fs, FilesOK(fs), NEW originals, NEW push, NEW x0, PushingSince(fs, push, x0)
    PROVE  LET stack == Stack(ProcessedData(fs, originals), LabelledAt(fs, x0).process_id)
           IN \E h \in DOMAIN stack : stack[h] = LabelledAt(fs, x0)
<1> DEFINE F == Fold(fs, originals)
           L == {LabelledAt(fs, x) : x \in Places(fs)}
           n == LabelledAt(fs, x0).process_id
           e0 == LabelledAt(fs, x0)
           Pushed(s) == Cardinality(Since(fs, s, x0, "EXEC"))
           Popped(s) == Cardinality(Since(fs, s, x0, "EXEC_FAIL"))
           Good(s) == /\ DataShape(F[s]) /\ Stack(F[s], n) \in Seq(L)
                      /\ x0 \in s => Keeps(Stack(F[s], n), e0, Pushed(s), Popped(s))
           G == {s \in EventPrefixes(fs) : Good(s)}
<1>a. /\ x0 \in Places(fs) /\ e0.event.op = "EXEC"
      /\ \A x \in Places(fs) : FailsSince(fs, x0, x) =>
             /\ push[x] \in Places(fs) /\ LabelledAt(fs, push[x]).event.op = "EXEC"
             /\ LabelledAt(fs, push[x]).process_id = n
             /\ Ts(fs, push[x]) < Ts(fs, x) /\ ~NotAfter(fs, push[x], x0)
      /\ \A x, y \in Places(fs) :
             FailsSince(fs, x0, x) /\ FailsSince(fs, x0, y) /\ push[x] = push[y] => x = y
  BY DEF PushingSince
<1>1. {} \in EventPrefixes(fs)
  BY DEF EventPrefixes
<1>2. F[{}] = Nothing
  BY FoldSteps
<1>3. Good({})
  <2>1. \A m : Stack(Nothing, m) = << >>
    BY NothingIs DEF Stack, At
  <2>2. DataShape(Nothing)
    BY NothingIs
  <2> DEFINE r == F[{}]
  <2>3. r = Nothing
    BY <1>2
  <2> HIDE DEF r, F, L, n, e0
  <2>4. Stack(r, n) \in Seq(L)
    <3>1. Stack(r, n) = << >>
      BY <2>1, <2>3
    <3> QED
      BY <3>1
  <2>5. DataShape(r) /\ x0 \notin {}
    BY <2>2, <2>3
  <2> QED
    BY <2>4, <2>5 DEF r
<1>4. ASSUME NEW s \in EventPrefixes(fs), s # {},
             s \ {LastOf(fs, s)} \in EventPrefixes(fs), Good(s \ {LastOf(fs, s)})
      PROVE  Good(s)
  <2> DEFINE l == LastOf(fs, s)
             t == s \ {l}
             d == F[t]
             labelled == LabelledAt(fs, l)
             r == F[s]
             id == labelled.process_id
             op == labelled.event.op
             a == Stack(d, n)
             Is(o) == id = n /\ op = o /\ ~NotAfter(fs, l, x0)
  <2>1. s \in SUBSET Places(fs) /\ l \in s /\ l \in Places(fs) /\ \A y \in s : NotAfter(fs, y, l)
    BY <1>4, LastIs DEF EventPrefixes
  <2>2. r = Processed(d, originals, labelled)
    BY <1>4, <2>1, FoldSteps
  <2>3. labelled \in L
    BY <2>1
  <2>4. DataShape(d) /\ a \in Seq(L) /\ (x0 \in t => Keeps(a, e0, Pushed(t), Popped(t)))
    BY <1>4
  <2>5. /\ Pushed(s) \in Nat /\ Pushed(t) \in Nat /\ Popped(s) \in Nat /\ Popped(t) \in Nat
        /\ Pushed(s) = IF Is("EXEC") THEN Pushed(t) + 1 ELSE Pushed(t)
        /\ Popped(s) = IF Is("EXEC_FAIL") THEN Popped(t) + 1 ELSE Popped(t)
    <3>1. l \in s /\ s \in SUBSET Places(fs)
      BY <2>1
    <3> HIDE DEF l, F, L
    <3>2. /\ Pushed(s) \in Nat /\ Pushed(t) \in Nat
          /\ Pushed(s) = IF Is("EXEC") THEN Pushed(t) + 1 ELSE Pushed(t)
      BY <3>1, SinceGrow
    <3>3. /\ Popped(s) \in Nat /\ Popped(t) \in Nat
          /\ Popped(s) = IF Is("EXEC_FAIL") THEN Popped(t) + 1 ELSE Popped(t)
      BY <3>1, SinceGrow
    <3> QED
      BY <3>2, <3>3
  <2>6. x0 \in t => ~NotAfter(fs, l, x0)
    BY <1>a, <2>1, OrderIsTotal
  <2>7. Is("EXEC_FAIL") => Popped(s) <= Pushed(t)
    <3> SUFFICES ASSUME Is("EXEC_FAIL") PROVE Popped(s) <= Pushed(t)
      OBVIOUS
    <3> DEFINE A == Since(fs, s, x0, "EXEC_FAIL")
               B == Since(fs, t, x0, "EXEC")
    <3>1. A \subseteq Places(fs) /\ B \subseteq Places(fs) /\ IsFiniteSet(B)
      BY <2>1, PlacesAre, FS_Subset DEF Since, Labels
    <3>2. ASSUME NEW x \in A PROVE push[x] \in B
      <4>1. x \in s /\ x \in Places(fs) /\ FailsSince(fs, x0, x)
        BY <2>1 DEF Since, Labels, FailsSince
      <4>2. /\ push[x] \in Places(fs) /\ LabelledAt(fs, push[x]).event.op = "EXEC"
            /\ LabelledAt(fs, push[x]).process_id = n /\ Ts(fs, push[x]) < Ts(fs, x)
            /\ ~NotAfter(fs, push[x], x0)
        BY <1>a, <4>1
      <4> DEFINE y == push[x]
      <4> HIDE DEF y
      <4>3. y \in Places(fs) /\ Ts(fs, y) < Ts(fs, x)
        BY <4>2 DEF y
      <4>4. NotAfter(fs, y, x) /\ ~NotAfter(fs, x, y)
        BY <4>1, <4>3, OrderIsTotal
      <4>5. y \in s
        BY <4>1, <4>3, <4>4 DEF EventPrefixes
      <4>6. y # l
        BY <2>1, <4>1, <4>4
      <4> QED
        BY <4>2, <4>5, <4>6 DEF Since, Labels, y
    <3> DEFINE f == [x \in A |-> push[x]]
    <3>3. \A x, y \in A : push[x] = push[y] => x = y
      BY <1>a, <3>1 DEF Since, Labels, FailsSince
    <3>4. f \in Injection(A, B)
      <4>1. f \in [A -> B]
        BY <3>2
      <4>2. \A x, y \in DOMAIN f : f[x] = f[y] => x = y
        BY <3>3
      <4> HIDE DEF f
      <4> QED
        BY <4>1, <4>2 DEF Injection, IsInjective
    <3> HIDE DEF f
    <3> QED
      BY <3>1, <3>4, FS_Injection
  <2>8. l = x0 => Pushed(s) = 0 /\ Popped(s) = 0
    <3> SUFFICES ASSUME l = x0 PROVE Pushed(s) = 0 /\ Popped(s) = 0
      OBVIOUS
    <3>1. Since(fs, s, x0, "EXEC") = {} /\ Since(fs, s, x0, "EXEC_FAIL") = {}
      BY <2>1 DEF Since, Labels
    <3> QED
      BY <3>1, FS_EmptySet
  <2>9. l = x0 => labelled = e0 /\ id = n /\ op = "EXEC"
    BY <1>a
  <2>10. x0 \in s => x0 \in t \/ l = x0
    OBVIOUS
  <2> HIDE DEF d, r, labelled, F, L, l, t, Pushed, Popped, e0, n, id, op
  <2>11. /\ DataShape(r)
         /\ op = "EXEC" => Stack(r, id) = Append(Stack(d, id), labelled)
         /\ op = "EXEC_FAIL" =>
               /\ Stack(d, id) = << >> => Stack(r, id) = << >>
               /\ Stack(d, id) # << >> => Stack(r, id) = Front(Stack(d, id))
         /\ op \notin {"EXEC", "EXEC_FAIL"} => Stack(r, id) = Stack(d, id)
         /\ \A other : other # id => Stack(r, other) = Stack(d, other)
    BY <2>2, <2>4, StackStep DEF id, op, Stack
  <2>12. CASE id = n /\ op = "EXEC"
    <3>1. Stack(r, n) = Append(a, labelled)
      BY <2>11, <2>12
    <3> DEFINE b == Append(a, labelled)
    <3> HIDE DEF a
    <3>2. b \in Seq(L) /\ Len(b) = Len(a) + 1 /\ Len(a) \in Nat /\ b[Len(a) + 1] = labelled
      BY <2>3, <2>4
    <3>3. CASE x0 \in t
      <4>1. Pushed(s) = Pushed(t) + 1 /\ Popped(s) = Popped(t)
        BY <2>5, <2>6, <2>12, <3>3
      <4>2. Keeps(b, e0, Pushed(t) + 1, Popped(t))
        BY <2>3, <2>4, <2>5, <3>3, KeepsPush
      <4> QED
        BY <2>11, <3>1, <3>2, <4>1, <4>2 DEF r
    <3>4. CASE l = x0
      <4>1. Pushed(s) = 0 /\ Popped(s) = 0 /\ labelled = e0
        BY <2>8, <2>9, <3>4
      <4> HIDE DEF b
      <4>2. Keeps(b, e0, 0, 0)
        BY <3>2, <4>1 DEF Keeps
      <4> QED
        BY <2>11, <3>1, <3>2, <4>1, <4>2 DEF r, b
    <3>5. CASE x0 \notin s
      BY <2>11, <3>1, <3>2, <3>5 DEF r
    <3> QED
      BY <2>10, <3>3, <3>4, <3>5
  <2>13. CASE id = n /\ op = "EXEC_FAIL"
    <3>0. l # x0
      BY <2>9, <2>13
    <3>1. CASE x0 \in t
      <4>1. Pushed(s) = Pushed(t) /\ Popped(s) = Popped(t) + 1 /\ Popped(t) + 1 <= Pushed(t)
        BY <2>5, <2>6, <2>7, <2>13, <3>1
      <4>2. a # << >> /\ Keeps(Front(a), e0, Pushed(t), Popped(t) + 1)
        BY <2>4, <2>5, <3>1, <4>1, KeepsPop
      <4>3. Stack(r, n) = Front(a)
        BY <2>11, <2>13, <4>2
      <4>4. Front(a) \in Seq(L)
        BY <2>4, <4>2 DEF Front
      <4> QED
        BY <2>11, <4>1, <4>2, <4>3, <4>4 DEF r
    <3>2. CASE x0 \notin t
      <4>1. x0 \notin s
        BY <2>10, <3>0, <3>2
      <4>2. CASE a = << >>
        <5>1. Stack(r, n) = << >>
          BY <2>11, <2>13, <4>2
        <5>2. Stack(r, n) \in Seq(L)
          BY <5>1
        <5> QED
          BY <2>11, <4>1, <5>2 DEF r
      <4>3. CASE a # << >>
        <5>1. Stack(r, n) = Front(a)
          BY <2>11, <2>13, <4>3
        <5>2. Front(a) \in Seq(L)
          BY <2>4, <4>3 DEF Front
        <5> QED
          BY <2>11, <4>1, <5>1, <5>2 DEF r
      <4> QED
        BY <4>2, <4>3
    <3> QED
      BY <3>1, <3>2
  <2>14. CASE id # n \/ op \notin {"EXEC", "EXEC_FAIL"}
    <3>0. l # x0
      BY <2>9, <2>14
    <3>1. Stack(r, n) = a
      BY <2>11, <2>14
    <3>2. Pushed(s) = Pushed(t) /\ Popped(s) = Popped(t)
      BY <2>5, <2>14
    <3>3. x0 \in s => Keeps(a, e0, Pushed(s), Popped(s))
      BY <2>4, <2>10, <3>0, <3>2
    <3> QED
      BY <2>4, <2>11, <3>1, <3>3 DEF r
  <2> QED
    BY <2>12, <2>13, <2>14
<1> HIDE DEF Good, L
<1>5. Places(fs) \in G
  BY <1>1, <1>3, <1>4, PrefixInduction
<1>6. ProcessedData(fs, originals) = F[Places(fs)]
  BY ProcessedDataIs
<1> HIDE DEF F
<1>7. Keeps(Stack(F[Places(fs)], n), e0, Pushed(Places(fs)), Popped(Places(fs)))
      /\ Stack(F[Places(fs)], n) \in Seq(L)
  BY <1>a, <1>5 DEF Good
<1> DEFINE stack == Stack(F[Places(fs)], n)
<1>8. PICK k \in 1..Len(stack) : stack[k] = e0
  BY <1>7 DEF Keeps
<1>9. k \in DOMAIN stack
  <2> HIDE DEF stack
  <2>1. stack \in Seq(L)
    BY <1>7 DEF stack
  <2> QED
    BY <1>8, <2>1
<1> QED
  BY <1>6, <1>8, <1>9
=============================================================================
