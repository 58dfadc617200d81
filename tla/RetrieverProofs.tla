---------------------------- MODULE RetrieverProofs ----------------------------
(* Theorems about Retriever, for every number of execs, processes, paths,  *)
(* contents and calls.                                                     *)
EXTENDS Retriever, SequenceTheorems, WellFoundedInduction, TLAPS

(* The inductive invariant. *)

Checksum == Content \cup {NoChecksum}
OperationsWith(S) == [read : BOOLEAN, write : BOOLEAN, deleted : BOOLEAN, start : S]
Row == [deleted : BOOLEAN, start : Checksum, end : Checksum]
Rows == UNION {[paths -> Row] : paths \in SUBSET Path}

\* The checksums an exec knows from before its command.
Sums(e) == {originals[e][path] : path \in DOMAIN originals[e]} \cup {NoChecksum}

\* processed_exec_data with checksums from S.
DataOK(d, S) ==
    /\ d = [process_map |-> d.process_map, rename_map |-> d.rename_map,
            seen_files |-> d.seen_files, enqueued_execs |-> d.enqueued_execs,
            undefined |-> d.undefined]
    /\ \A i \in DOMAIN d.process_map :
        /\ d.process_map[i] = [named |-> d.process_map[i].named,
                               operation_map |-> d.process_map[i].operation_map]
        /\ DOMAIN d.process_map[i].operation_map \subseteq Path
        /\ \A path \in DOMAIN d.process_map[i].operation_map :
              d.process_map[i].operation_map[path] \in OperationsWith(S)

\* What is known of a checksum is recorded,
ShapeInv ==
    /\ TypeOK
    /\ stored \in Seq(Rows)
    /\ snapshots \in Seq([Path -> Content \cup {Absent}])
    /\ (stored # << >> \/ Running # {}) => snapshots # << >>
    /\ DOMAIN data = Exec /\ DOMAIN originals = Exec
    /\ \A e \in Exec :
        /\ phase[e] = "new" => data[e] = Nothing
        /\ DOMAIN originals[e] \subseteq Root /\ Sums(e) \subseteq artifacts \cup {NoChecksum}
        /\ DataOK(data[e], Sums(e))
    /\ \A n \in DOMAIN stored : \A path \in DOMAIN stored[n] :
        {stored[n][path].start, stored[n][path].end} \subseteq artifacts \cup {NoChecksum}

\* the operations on a path that was not renamed, and its first checksum o;
OpsOf(d, path) ==
    {d.process_map[i].operation_map[path] :
        i \in {j \in DOMAIN d.process_map : path \in DOMAIN d.process_map[j].operation_map}}
Unmoved(d, path) ==
    path \notin DOMAIN d.rename_map /\ \A q \in DOMAIN d.rename_map : d.rename_map[q] # path
Counted(d, path, o) ==
    /\ path \in d.seen_files <=> OpsOf(d, path) # {}
    /\ \A op \in OpsOf(d, path) : op.start \in {NoChecksum, o}
    /\ OpsOf(d, path) # {} => \E op \in OpsOf(d, path) : op.start = o
Original(e, path) == At(originals[e], path, NoChecksum)
OpsInv == \A e \in Exec, path \in Path : Plain(path) =>
    Unmoved(data[e], path) /\ Counted(data[e], path, Original(e, path))

ChangedIn(d, path) == \E op \in OpsOf(d, path) : op.write \/ op.deleted
DeletedIn(d, path) == \E op \in OpsOf(d, path) : op.deleted
UsedIn(d, path) == OpsOf(d, path) # {}
Changers(path) == {e \in Running : ChangedIn(data[e], path)}

\* while nobody who runs has changed it, it is as it was;
SameInv == \A path \in Root : Plain(path) =>
    ((Running # {} /\ Changers(path) = {}) => workspace[path] = Last(snapshots)[path])
GoneInv == \A path \in Root : Plain(path) =>
    ((workspace[path] = Absent /\ Changers(path) # {}) => \E e \in Running : DeletedIn(data[e], path))
ReadInv == \A path \in Root : Plain(path) => \A e \in Running :
    UsedIn(data[e], path) /\ ~ChangedIn(data[e], path) => Last(snapshots)[path] # Absent \/ Changers(path) # {}
BeforeInv == \A path \in Root : Plain(path) => (path \notin Mentioned =>
    /\ snapshots # << >> => Last(snapshots)[path] = snapshots[1][path]
    /\ \A e \in Running : Original(e, path) = snapshots[1][path] \/ Changers(path) \ {e} # {})

\* the row of an exec says what the exec did.
RowTrue(n, path) ==
    LET row == stored[n][path]
        before == snapshots[n][path]
        after == snapshots[n + 1][path]
    IN IF path \notin DOMAIN stored[n] THEN after = before
       ELSE IF row.deleted THEN after = Absent
       ELSE IF row.end # NoChecksum THEN after = row.end
       ELSE after = before /\ before # Absent
FirstTrue(n, path) ==
    (path \in DOMAIN stored[n] /\ \A m \in 1..n - 1 : path \notin DOMAIN stored[m]) =>
        stored[n][path].start = snapshots[1][path]
RowsInv == \A path \in Root : Plain(path) => \A n \in DOMAIN stored :
    RowTrue(n, path) /\ FirstTrue(n, path)

\* No exec is beside a retriever.  A path where nothing was and nobody put anything
\* is empty until it is its turn; then it holds what it should, unless the
\* artifact was wrong or something was put below it first.
Held(path, rebuilt) ==
    IF path \notin DOMAIN rebuilt THEN workspace[path] = Absent
    ELSE \/ workspace[path] = rebuilt[path]
         \/ rebuilt[path] \in wrong
         \/ \E q \in Path : path \in Above[q] /\ q \in DOMAIN rebuilt
RetrievalInv ==
    /\ retrieval = [at |-> retrieval.at, exec |-> retrieval.exec, state |-> retrieval.state,
                    path |-> retrieval.path, clear |-> retrieval.clear]
    /\ retrieval # Nowhere => LET rebuilt == StateAfter(retrieval.exec) IN
        /\ Running = {} /\ retrieval.exec \in 0..Len(stored)
        /\ retrieval.clear \subseteq Path
        /\ \A path \in DOMAIN retrieval.state :
              /\ retrieval.state[path] \in artifacts
              /\ path \in DOMAIN rebuilt /\ retrieval.state[path] = rebuilt[path]
        /\ retrieval.at \in {"copy", "dead"} => retrieval.path \in DOMAIN retrieval.state
        /\ retrieval.at = "copy" /\ retrieval.path \in retrieval.clear => ~Exists(retrieval.path)
        /\ retrieval.at = "done" => DOMAIN retrieval.state = {}
        /\ \A path \in retrieval.clear :
              IF path \in DOMAIN retrieval.state THEN workspace[path] = Absent
              ELSE Held(path, rebuilt)
        /\ \A path \in retrieval.clear, q \in Path :
              (q = path \/ path \in Above[q]) /\ workspace[q] # Absent => q \in DOMAIN rebuilt

\* No file is below another one.
TreeOf(files) == \A path \in Path : \A q \in Above[path] : files[path] = Absent \/ files[q] = Absent
TreeInv == TreeOf(workspace) /\ \A n \in DOMAIN snapshots : TreeOf(snapshots[n])

IInv == ShapeInv /\ OpsInv /\ SameInv /\ GoneInv /\ ReadInv /\ BeforeInv /\ RowsInv
        /\ RetrievalInv /\ RetrieverDiesOfOthers
-----------------------------------------------------------------------------
(* What Processor's functions do to the operations on a path. *)

Process(d, id) == At(d.process_map, id, NoProcess)
OpOf(d, path, id) == At(Process(d, id).operation_map, path, NoOperations)
Flagged(op, op_type, checksum) ==
    [read |-> op.read \/ op_type = "READ",
     write |-> op.write \/ op_type = "WRITE",
     deleted |-> op.deleted \/ op_type = "UNLINK",
     start |-> IF checksum = NoChecksum THEN op.start ELSE checksum]

\* A process that has no entry has no operations.
LEMMA ProcessShape ==
    ASSUME NEW S, NEW d, DataOK(d, S), NEW id
    PROVE  /\ Process(d, id) = [named |-> Process(d, id).named,
                                operation_map |-> Process(d, id).operation_map]
           /\ DOMAIN Process(d, id).operation_map \subseteq Path
           /\ \A path \in DOMAIN Process(d, id).operation_map :
                 Process(d, id).operation_map[path] \in OperationsWith(S)
           /\ id \notin DOMAIN d.process_map => DOMAIN Process(d, id).operation_map = {}
<1>1. CASE id \in DOMAIN d.process_map
  BY <1>1 DEF Process, At, DataOK
<1>2. CASE id \notin DOMAIN d.process_map
  <2>1. Process(d, id) = [named |-> FALSE, operation_map |-> << >>]
    BY <1>2 DEF Process, At, NoProcess
  <2> QED
    BY <1>2, <2>1
<1> QED
  BY <1>1, <1>2

\* log_operation touches the entry of one path in the map of one process.
LEMMA LogMaps ==
    ASSUME NEW S, NEW d, DataOK(d, S), NEW path, NEW id, NEW op_type, NEW checksum
    PROVE  LET r == log_operation(d, path, id, op_type, checksum)
               old == Process(d, id).operation_map
           IN
           /\ r = [d EXCEPT !.process_map = r.process_map]
           /\ DOMAIN r.process_map = DOMAIN d.process_map \cup {id}
           /\ \A i \in DOMAIN d.process_map : i # id => r.process_map[i] = d.process_map[i]
           /\ r.process_map[id] = [named |-> Process(d, id).named,
                                   operation_map |-> r.process_map[id].operation_map]
           /\ DOMAIN r.process_map[id].operation_map = DOMAIN old \cup {path}
           /\ r.process_map[id].operation_map[path] = Flagged(OpOf(d, path, id), op_type, checksum)
           /\ \A q \in DOMAIN old : q # path => r.process_map[id].operation_map[q] = old[q]
<1> DEFINE new == Flagged(OpOf(d, path, id), op_type, checksum)
           map == With(Process(d, id).operation_map, path, new)
           process == [Process(d, id) EXCEPT !.operation_map = map]
           r == [d EXCEPT !.process_map = With(@, id, process)]
<1>1. log_operation(d, path, id, op_type, checksum) = r
  BY DEF log_operation, WithProcess, Flagged, OpOf, Process
<1>2. /\ DOMAIN map = DOMAIN Process(d, id).operation_map \cup {path}
      /\ map[path] = new
      /\ \A q \in DOMAIN Process(d, id).operation_map : q # path => map[q] = Process(d, id).operation_map[q]
  BY DEF With
<1> HIDE DEF map, new
<1>3. process = [named |-> Process(d, id).named, operation_map |-> map]
  BY ProcessShape
<1> HIDE DEF process
<1>4. r.process_map = With(d.process_map, id, process) /\ r = [d EXCEPT !.process_map = r.process_map]
  BY DEF DataOK
<1> HIDE DEF r
<1>5. /\ DOMAIN r.process_map = DOMAIN d.process_map \cup {id}
      /\ r.process_map[id] = process
      /\ \A i \in DOMAIN d.process_map : i # id => r.process_map[i] = d.process_map[i]
  BY <1>4 DEF With
<1>6. r.process_map[id].operation_map = map
  BY <1>3, <1>5
<1> QED
  BY <1>1, <1>2, <1>3, <1>4, <1>5, <1>6 DEF new

LEMMA InOps ==
    ASSUME NEW d, NEW path, NEW op
    PROVE  op \in OpsOf(d, path) <=>
              \E i \in DOMAIN d.process_map :
                  /\ path \in DOMAIN d.process_map[i].operation_map
                  /\ op = d.process_map[i].operation_map[path]
  BY DEF OpsOf

LEMMA OldOp ==
    ASSUME NEW S, NoChecksum \in S, NEW d, DataOK(d, S), NEW path \in Path, NEW id
    PROVE  /\ OpOf(d, path, id) \in OperationsWith(S)
           /\ OpOf(d, path, id) \in OpsOf(d, path) \cup {NoOperations}
<1>1. CASE path \in DOMAIN Process(d, id).operation_map
  <2>1. OpOf(d, path, id) = Process(d, id).operation_map[path]
    BY <1>1 DEF OpOf, At
  <2>2. id \in DOMAIN d.process_map
    BY <1>1, ProcessShape
  <2>3. Process(d, id) = d.process_map[id]
    BY <2>2 DEF Process, At
  <2>4. OpOf(d, path, id) \in OpsOf(d, path)
    BY <1>1, <2>1, <2>2, <2>3, InOps
  <2> QED
    BY <1>1, <2>1, <2>4, ProcessShape
<1>2. CASE path \notin DOMAIN Process(d, id).operation_map
  <2>1. OpOf(d, path, id) = NoOperations
    BY <1>2 DEF OpOf, At
  <2>2. NoOperations \in OperationsWith(S)
    BY DEF NoOperations, OperationsWith
  <2> QED
    BY <2>1, <2>2
<1> QED
  BY <1>1, <1>2

\* log_operation changes the operation of one process on one path.
LEMMA LogOps ==
    ASSUME NEW S, NoChecksum \in S, NEW d, DataOK(d, S), NEW path \in Path, NEW id,
           NEW op_type, NEW checksum \in S,
           NEW r, r = log_operation(d, path, id, op_type, checksum)
    PROVE  /\ DataOK(r, S)
           /\ r.rename_map = d.rename_map /\ r.seen_files = d.seen_files
           /\ \A q : q # path => OpsOf(r, q) = OpsOf(d, q)
           /\ Flagged(OpOf(d, path, id), op_type, checksum) \in OpsOf(r, path)
           /\ \A op \in OpsOf(r, path) :
                 op \in OpsOf(d, path) \/ op = Flagged(OpOf(d, path, id), op_type, checksum)
           /\ \A op \in OpsOf(d, path) : op \in OpsOf(r, path) \/ op = OpOf(d, path, id)
<1> DEFINE old == Process(d, id).operation_map
           new == Flagged(OpOf(d, path, id), op_type, checksum)
<1>1. /\ r = [d EXCEPT !.process_map = r.process_map]
      /\ DOMAIN r.process_map = DOMAIN d.process_map \cup {id}
      /\ \A i \in DOMAIN d.process_map : i # id => r.process_map[i] = d.process_map[i]
      /\ r.process_map[id] = [named |-> Process(d, id).named,
                              operation_map |-> r.process_map[id].operation_map]
      /\ DOMAIN r.process_map[id].operation_map = DOMAIN old \cup {path}
      /\ r.process_map[id].operation_map[path] = new
      /\ \A q \in DOMAIN old : q # path => r.process_map[id].operation_map[q] = old[q]
  BY LogMaps
<1>2. /\ Process(d, id) = [named |-> Process(d, id).named, operation_map |-> old]
      /\ DOMAIN old \subseteq Path
      /\ \A q \in DOMAIN old : old[q] \in OperationsWith(S)
      /\ id \notin DOMAIN d.process_map => DOMAIN old = {}
      /\ id \in DOMAIN d.process_map => old = d.process_map[id].operation_map
  BY ProcessShape DEF Process, At
<1>3. new \in OperationsWith(S)
  BY OldOp DEF Flagged, OperationsWith
<1>4. OpOf(d, path, id) = IF path \in DOMAIN old THEN old[path] ELSE NoOperations
  BY DEF OpOf, At
<1> HIDE DEF old, new
<1>5. DataOK(r, S)
  <2>1. r = [process_map |-> r.process_map, rename_map |-> r.rename_map,
             seen_files |-> r.seen_files, enqueued_execs |-> r.enqueued_execs,
             undefined |-> r.undefined]
    BY <1>1 DEF DataOK
  <2>2. ASSUME NEW i \in DOMAIN r.process_map
        PROVE  /\ r.process_map[i] = [named |-> r.process_map[i].named,
                                      operation_map |-> r.process_map[i].operation_map]
               /\ DOMAIN r.process_map[i].operation_map \subseteq Path
               /\ \A q \in DOMAIN r.process_map[i].operation_map :
                     r.process_map[i].operation_map[q] \in OperationsWith(S)
    <3>1. CASE i = id
      <4>1. r.process_map[id] = [named |-> r.process_map[id].named,
                                 operation_map |-> r.process_map[id].operation_map]
        BY <1>1
      <4>2. DOMAIN r.process_map[id].operation_map \subseteq Path
        BY <1>1, <1>2
      <4>3. \A q \in DOMAIN r.process_map[id].operation_map :
                r.process_map[id].operation_map[q] \in OperationsWith(S)
        BY <1>1, <1>2, <1>3
      <4> QED
        BY <3>1, <4>1, <4>2, <4>3
    <3>2. CASE i # id
      BY <1>1, <2>2, <3>2 DEF DataOK
    <3> QED
      BY <3>1, <3>2
  <2> QED
    BY <2>1, <2>2 DEF DataOK
<1>6. r.rename_map = d.rename_map /\ r.seen_files = d.seen_files
  BY <1>1 DEF DataOK
<1>7. ASSUME NEW q, q # path PROVE OpsOf(r, q) = OpsOf(d, q)
  <2>1. ASSUME NEW op \in OpsOf(r, q) PROVE op \in OpsOf(d, q)
    BY <1>1, <1>2, <1>7, <2>1, InOps
  <2>2. ASSUME NEW op \in OpsOf(d, q) PROVE op \in OpsOf(r, q)
    BY <1>1, <1>2, <1>7, <2>2, InOps
  <2> QED
    BY <2>1, <2>2
<1>8. new \in OpsOf(r, path)
  BY <1>1, InOps
<1>9. ASSUME NEW op \in OpsOf(r, path) PROVE op \in OpsOf(d, path) \/ op = new
  <2>1. PICK i \in DOMAIN r.process_map :
            /\ path \in DOMAIN r.process_map[i].operation_map
            /\ op = r.process_map[i].operation_map[path]
    BY <1>9, InOps
  <2> QED
    BY <1>1, <2>1, InOps
<1>10. ASSUME NEW op \in OpsOf(d, path) PROVE op \in OpsOf(r, path) \/ op = OpOf(d, path, id)
  <2>1. PICK i \in DOMAIN d.process_map :
            /\ path \in DOMAIN d.process_map[i].operation_map
            /\ op = d.process_map[i].operation_map[path]
    BY <1>10, InOps
  <2>2. CASE i = id
    BY <1>2, <1>4, <2>1, <2>2
  <2>3. CASE i # id
    BY <1>1, <2>1, <2>3, InOps
  <2> QED
    BY <2>2, <2>3
<1> QED
  BY <1>5, <1>6, <1>7, <1>8, <1>9, <1>10 DEF new

\* What an operation does to the marks on its path.
Marks(d, r, path, op_type) ==
    /\ UsedIn(r, path)
    /\ ChangedIn(r, path) <=> ChangedIn(d, path) \/ op_type \in {"WRITE", "UNLINK"}
    /\ DeletedIn(r, path) <=> DeletedIn(d, path) \/ op_type = "UNLINK"

\* It adds the mark of its kind, and no other.
LEMMA LogMarks ==
    ASSUME NEW S, NoChecksum \in S, NEW d, DataOK(d, S), NEW path \in Path, NEW id,
           NEW op_type \in {"READ", "WRITE", "UNLINK"}, NEW checksum \in S,
           NEW r, r = log_operation(d, path, id, op_type, checksum)
    PROVE  Marks(d, r, path, op_type)
<1> DEFINE old == OpOf(d, path, id)
           new == Flagged(old, op_type, checksum)
<1>1. /\ new \in OpsOf(r, path)
      /\ \A op \in OpsOf(r, path) : op \in OpsOf(d, path) \/ op = new
      /\ \A op \in OpsOf(d, path) : op \in OpsOf(r, path) \/ op = old
  BY LogOps
<1>2. /\ new.write = (old.write \/ op_type = "WRITE")
      /\ new.deleted = (old.deleted \/ op_type = "UNLINK")
  BY DEF Flagged
<1>3. old \in OpsOf(d, path) \/ old = NoOperations
  BY OldOp
<1>4. ~NoOperations.write /\ ~NoOperations.deleted
  BY DEF NoOperations
<1> HIDE DEF old, new
<1>5. ASSUME NEW op \in OpsOf(r, path), op.write \/ op.deleted
      PROVE  (\E o \in OpsOf(d, path) : o.write \/ o.deleted) \/ op_type \in {"WRITE", "UNLINK"}
  BY <1>1, <1>2, <1>3, <1>4, <1>5
<1>6. ASSUME NEW op \in OpsOf(r, path), op.deleted
      PROVE  (\E o \in OpsOf(d, path) : o.deleted) \/ op_type = "UNLINK"
  BY <1>1, <1>2, <1>3, <1>4, <1>6
<1>7. ASSUME \/ \E o \in OpsOf(d, path) : o.write \/ o.deleted
             \/ op_type \in {"WRITE", "UNLINK"}
      PROVE  \E op \in OpsOf(r, path) : op.write \/ op.deleted
  BY <1>1, <1>2, <1>7
<1>8. ASSUME (\E o \in OpsOf(d, path) : o.deleted) \/ op_type = "UNLINK"
      PROVE  \E op \in OpsOf(r, path) : op.deleted
  BY <1>1, <1>2, <1>8
<1>9. OpsOf(r, path) # {}
  BY <1>1
<1> QED
  BY <1>5, <1>6, <1>7, <1>8, <1>9 DEF Marks, UsedIn, ChangedIn, DeletedIn

\* Paths that are seen once one is accessed.
Sees(d, r, path) ==
    \A p : Unmoved(d, p) => (p \in r.seen_files <=> p \in d.seen_files \/ p = path)

\* The checksum is that of the first access, and the first one only.
LEMMA AccessOps ==
    ASSUME NEW S, NoChecksum \in S, NEW d, DataOK(d, S), NEW path \in Path, NEW id,
           NEW op_type \in {"READ", "WRITE", "UNLINK"},
           NEW orig, \A q : At(orig, q, NoChecksum) \in S,
           NEW r, r = Accessed(d, orig, path, id, op_type)
    PROVE  /\ DataOK(r, S)
           /\ r.rename_map = d.rename_map
           /\ \A p : p # path => OpsOf(r, p) = OpsOf(d, p)
           /\ Marks(d, r, path, op_type)
           /\ Sees(d, r, path)
           /\ \A o : (Unmoved(d, path) /\ o = At(orig, path, NoChecksum) /\ Counted(d, path, o)) =>
                        Counted(r, path, o)
<1> DEFINE resolved == At(d.rename_map, path, path)
           s == [d EXCEPT !.seen_files = @ \cup {resolved}]
           checksum == get_checksum(d, orig, path)
<1>1. r = log_operation(s, path, id, op_type, checksum)
  BY DEF Accessed, Seen
<1>2. checksum = IF resolved \in d.seen_files THEN NoChecksum ELSE At(orig, resolved, NoChecksum)
  BY DEF get_checksum
<1>3. /\ s.process_map = d.process_map /\ s.rename_map = d.rename_map
      /\ s.seen_files = d.seen_files \cup {resolved}
      /\ s = [process_map |-> s.process_map, rename_map |-> s.rename_map,
              seen_files |-> s.seen_files, enqueued_execs |-> s.enqueued_execs,
              undefined |-> s.undefined]
  BY DEF DataOK
<1>4. resolved = path \/ \E q \in DOMAIN d.rename_map : resolved = d.rename_map[q]
  BY DEF At
<1>5. path \notin DOMAIN d.rename_map => resolved = path
  BY DEF At
<1> HIDE DEF s, resolved
<1>6. checksum \in S
  BY <1>2
<1> HIDE DEF checksum
<1>7. DataOK(s, S) /\ \A p : OpsOf(s, p) = OpsOf(d, p)
  BY <1>3 DEF DataOK, OpsOf
<1>8. OpOf(s, path, id) = OpOf(d, path, id)
  BY <1>3 DEF OpOf, Process
<1>9. /\ DataOK(r, S)
      /\ r.rename_map = d.rename_map /\ r.seen_files = s.seen_files
  BY <1>1, <1>3, <1>6, <1>7, LogOps
<1>10. \A p : p # path => OpsOf(r, p) = OpsOf(d, p)
  BY <1>1, <1>6, <1>7, LogOps
<1>11. Marks(d, r, path, op_type)
  <2>1. Marks(s, r, path, op_type)
    BY <1>1, <1>6, <1>7, LogMarks
  <2> QED
    BY <1>7, <2>1 DEF Marks, UsedIn, ChangedIn, DeletedIn
<1>12. ASSUME NEW p, Unmoved(d, p)
       PROVE  p \in r.seen_files <=> p \in d.seen_files \/ p = path
  BY <1>3, <1>4, <1>5, <1>9, <1>12 DEF Unmoved
<1>13. ASSUME NEW o, Unmoved(d, path), o = At(orig, path, NoChecksum), Counted(d, path, o)
       PROVE  Counted(r, path, o)
  <2> DEFINE old == OpOf(d, path, id)
             new == Flagged(old, op_type, checksum)
  <2>1. resolved = path
    BY <1>5, <1>13 DEF Unmoved
  <2>2. /\ new \in OpsOf(r, path)
        /\ \A op \in OpsOf(r, path) : op \in OpsOf(d, path) \/ op = new
        /\ \A op \in OpsOf(d, path) : op \in OpsOf(r, path) \/ op = old
    BY <1>1, <1>6, <1>7, <1>8, LogOps
  <2>3. old \in OpsOf(d, path) \/ old = NoOperations
    BY OldOp
  <2>4. new.start = IF checksum = NoChecksum THEN old.start ELSE checksum
    BY DEF Flagged
  <2>5. path \in r.seen_files /\ OpsOf(r, path) # {}
    BY <1>12, <1>13, <2>2
  <2>6. NoOperations.start = NoChecksum
    BY DEF NoOperations
  <2> HIDE DEF old, new
  <2>7. CASE path \in d.seen_files
    <3>1. checksum = NoChecksum /\ new.start = old.start
      BY <1>2, <2>1, <2>4, <2>7
    <3>2. old.start \in {NoChecksum, o}
      BY <1>13, <2>3, <2>6 DEF Counted
    <3>3. \A op \in OpsOf(r, path) : op.start \in {NoChecksum, o}
      BY <1>13, <2>2, <3>1, <3>2 DEF Counted
    <3>4. \E op \in OpsOf(r, path) : op.start = o
      BY <1>13, <2>2, <2>7, <3>1 DEF Counted
    <3> QED
      BY <2>5, <3>3, <3>4 DEF Counted
  <2>8. CASE path \notin d.seen_files
    <3>1. OpsOf(d, path) = {} /\ old = NoOperations
      BY <1>13, <2>3, <2>8 DEF Counted
    <3>2. new.start = o
      BY <1>2, <1>13, <2>1, <2>4, <2>6, <2>8, <3>1
    <3> QED
      BY <2>2, <2>5, <3>1, <3>2 DEF Counted
  <2> QED
    BY <2>7, <2>8
<1> QED
  BY <1>9, <1>10, <1>11, <1>12, <1>13 DEF Sees

\* Of its source, a transfer is a read.
LEMMA TransferOps ==
    ASSUME NEW S, NoChecksum \in S, NEW d, DataOK(d, S), NEW from \in Path, NEW to \in Path,
           from # to, NEW id, NEW orig, \A q : At(orig, q, NoChecksum) \in S,
           NEW r, r = log_operation(Accessed(d, orig, from, id, "READ"), to, id, "WRITE", NoChecksum)
    PROVE  /\ DataOK(r, S)
           /\ r.rename_map = d.rename_map
           /\ \A p : p # from /\ p # to => OpsOf(r, p) = OpsOf(d, p)
           /\ Marks(d, r, from, "READ")
           /\ Sees(d, r, from)
           /\ \A o : (Unmoved(d, from) /\ o = At(orig, from, NoChecksum) /\ Counted(d, from, o)) =>
                        Counted(r, from, o)
<1> DEFINE s == Accessed(d, orig, from, id, "READ")
<1>1. /\ DataOK(s, S)
      /\ s.rename_map = d.rename_map
      /\ \A p : p # from => OpsOf(s, p) = OpsOf(d, p)
      /\ Marks(d, s, from, "READ")
      /\ Sees(d, s, from)
      /\ \A o : (Unmoved(d, from) /\ o = At(orig, from, NoChecksum) /\ Counted(d, from, o)) =>
                   Counted(s, from, o)
  <2>1. "READ" \in {"READ", "WRITE", "UNLINK"} /\ s = Accessed(d, orig, from, id, "READ")
    OBVIOUS
  <2> HIDE DEF s
  <2>2. DataOK(s, S)
    BY <2>1, AccessOps
  <2>3. s.rename_map = d.rename_map
    BY <2>1, AccessOps
  <2>4. \A p : p # from => OpsOf(s, p) = OpsOf(d, p)
    BY <2>1, AccessOps
  <2>5. Marks(d, s, from, "READ")
    BY <2>1, AccessOps
  <2>6. Sees(d, s, from)
    BY <2>1, AccessOps
  <2>7. \A o : (Unmoved(d, from) /\ o = At(orig, from, NoChecksum) /\ Counted(d, from, o)) =>
                   Counted(s, from, o)
    BY <2>1, AccessOps
  <2> QED
    BY <2>2, <2>3, <2>4, <2>5, <2>6, <2>7
<1> HIDE DEF s
<1>2. r = log_operation(s, to, id, "WRITE", NoChecksum)
  BY DEF s
<1>3. /\ DataOK(r, S)
      /\ r.rename_map = s.rename_map /\ r.seen_files = s.seen_files
      /\ \A q : q # to => OpsOf(r, q) = OpsOf(s, q)
  BY <1>1, <1>2, LogOps
<1>4. Marks(d, r, from, "READ")
  BY <1>1, <1>3 DEF Marks, UsedIn, ChangedIn, DeletedIn
<1>5. ASSUME NEW o, Unmoved(d, from), o = At(orig, from, NoChecksum), Counted(d, from, o)
      PROVE  Counted(r, from, o)
  BY <1>1, <1>3, <1>5 DEF Counted
<1>6. Sees(d, r, from)
  BY <1>1, <1>3 DEF Sees
<1> QED
  BY <1>1, <1>3, <1>4, <1>5, <1>6

LEMMA MovedMap ==
    ASSUME NEW map, NEW from, NEW to, from # to, NEW r, r = Moved(map, from, to)
    PROVE  /\ DOMAIN r \subseteq DOMAIN map \cup {to}
           /\ \A q : q # from /\ q # to => (q \in DOMAIN r <=> q \in DOMAIN map)
           /\ \A q \in DOMAIN r : q # to /\ q # from => r[q] = map[q]
           /\ \A q \in DOMAIN r : (q \in DOMAIN map /\ r[q] = map[q])
                                     \/ (from \in DOMAIN map /\ r[q] = map[from])
<1>1. CASE from \in DOMAIN map
  <2>1. r = [q \in (DOMAIN map \cup {to}) \ {from} |-> IF q = to THEN map[from] ELSE map[q]]
    BY <1>1 DEF Moved, Without, With, Restrict
  <2> QED
    BY <1>1, <2>1
<1>2. CASE from \notin DOMAIN map
  <2>1. r = map
    BY <1>2 DEF Moved
  <2> QED
    BY <2>1
<1> QED
  BY <1>1, <1>2

\* A rename leaves all paths but its two alone.
LEMMA RenameOps ==
    ASSUME NEW S, NEW d, DataOK(d, S), NEW from \in Path, NEW to \in Path, from # to,
           NEW r, r = log_rename(d, from, to)
    PROVE  /\ DataOK(r, S)
           /\ r.seen_files = d.seen_files
           /\ \A p : p # from /\ p # to => OpsOf(r, p) = OpsOf(d, p)
           /\ \A p : p # from /\ p # to /\ Unmoved(d, p) => Unmoved(r, p)
<1> DEFINE Own(i) == Moved(d.process_map[i].operation_map, from, to)
           names == IF from \in DOMAIN d.rename_map THEN Moved(d.rename_map, from, to)
                    ELSE With(d.rename_map, to, from)
           map == [i \in DOMAIN d.process_map |->
                      [d.process_map[i] EXCEPT !.operation_map = Own(i)]]
<1>1. r = [d EXCEPT !.rename_map = names, !.process_map = map]
  BY DEF log_rename, MovedAll
<1> HIDE DEF names, map
<1>2. /\ r.process_map = map /\ r.rename_map = names /\ r.seen_files = d.seen_files
      /\ r = [process_map |-> r.process_map, rename_map |-> r.rename_map,
              seen_files |-> r.seen_files, enqueued_execs |-> r.enqueued_execs,
              undefined |-> r.undefined]
  BY <1>1 DEF DataOK
<1>3. /\ DOMAIN map = DOMAIN d.process_map
      /\ \A i \in DOMAIN d.process_map :
            map[i] = [named |-> d.process_map[i].named, operation_map |-> Own(i)]
  BY DEF map, DataOK
<1>4. ASSUME NEW i \in DOMAIN d.process_map
      PROVE  /\ DOMAIN Own(i) \subseteq Path
             /\ \A q \in DOMAIN Own(i) : Own(i)[q] \in OperationsWith(S)
             /\ \A q : q # from /\ q # to =>
                    (q \in DOMAIN Own(i) <=> q \in DOMAIN d.process_map[i].operation_map)
             /\ \A q \in DOMAIN Own(i) : q # to /\ q # from =>
                    Own(i)[q] = d.process_map[i].operation_map[q]
  <2> DEFINE m == d.process_map[i].operation_map
  <2>1. DOMAIN m \subseteq Path /\ \A q \in DOMAIN m : m[q] \in OperationsWith(S)
    BY DEF DataOK
  <2> HIDE DEF m
  <2>2. Own(i) = Moved(m, from, to)
    BY DEF m
  <2> HIDE DEF Own
  <2>3. /\ DOMAIN Own(i) \subseteq DOMAIN m \cup {to}
        /\ \A q : q # from /\ q # to => (q \in DOMAIN Own(i) <=> q \in DOMAIN m)
        /\ \A q \in DOMAIN Own(i) : q # to /\ q # from => Own(i)[q] = m[q]
        /\ \A q \in DOMAIN Own(i) : (q \in DOMAIN m /\ Own(i)[q] = m[q])
                                       \/ (from \in DOMAIN m /\ Own(i)[q] = m[from])
    BY <2>2, MovedMap
  <2>4. DOMAIN Own(i) \subseteq Path /\ \A q \in DOMAIN Own(i) : Own(i)[q] \in OperationsWith(S)
    BY <2>1, <2>3
  <2> QED
    BY <2>3, <2>4 DEF m
<1> HIDE DEF Own
<1>5. DataOK(r, S)
  BY <1>2, <1>3, <1>4 DEF DataOK
<1>8. /\ DOMAIN r.process_map = DOMAIN d.process_map
      /\ \A i \in DOMAIN d.process_map : r.process_map[i].operation_map = Own(i)
  <2>1. r.process_map = map
    BY <1>2
  <2>2. ASSUME NEW i \in DOMAIN d.process_map PROVE map[i].operation_map = Own(i)
    <3>1. map[i] = [named |-> d.process_map[i].named, operation_map |-> Own(i)]
      BY <1>3
    <3> QED
      BY <3>1
  <2> QED
    BY <1>3, <2>1, <2>2
<1>6. ASSUME NEW p, p # from, p # to PROVE OpsOf(r, p) = OpsOf(d, p)
  <2>1. ASSUME NEW op \in OpsOf(r, p) PROVE op \in OpsOf(d, p)
    <3>1. PICK i \in DOMAIN r.process_map :
              /\ p \in DOMAIN r.process_map[i].operation_map
              /\ op = r.process_map[i].operation_map[p]
      BY <2>1, InOps
    <3>2. i \in DOMAIN d.process_map /\ r.process_map[i].operation_map = Own(i)
      BY <1>8, <3>1
    <3>3. /\ p \in DOMAIN d.process_map[i].operation_map
          /\ op = d.process_map[i].operation_map[p]
      BY <1>4, <1>6, <3>1, <3>2
    <3> QED
      BY <3>2, <3>3, InOps
  <2>2. ASSUME NEW op \in OpsOf(d, p) PROVE op \in OpsOf(r, p)
    <3>1. PICK i \in DOMAIN d.process_map :
              /\ p \in DOMAIN d.process_map[i].operation_map
              /\ op = d.process_map[i].operation_map[p]
      BY <2>2, InOps
    <3>2. i \in DOMAIN r.process_map /\ r.process_map[i].operation_map = Own(i)
      BY <1>8, <3>1
    <3>3. p \in DOMAIN Own(i) /\ op = Own(i)[p]
      BY <1>4, <1>6, <3>1
    <3> QED
      BY <3>2, <3>3, InOps
  <2> QED
    BY <2>1, <2>2
<1>7. ASSUME NEW p, p # from, p # to, Unmoved(d, p) PROVE Unmoved(r, p)
  <2>1. CASE from \in DOMAIN d.rename_map
    <3>1. names = Moved(d.rename_map, from, to)
      BY <2>1 DEF names
    <3>2. /\ DOMAIN names \subseteq DOMAIN d.rename_map \cup {to}
          /\ \A q \in DOMAIN names :
                (q \in DOMAIN d.rename_map /\ names[q] = d.rename_map[q])
                \/ (from \in DOMAIN d.rename_map /\ names[q] = d.rename_map[from])
      BY <3>1, MovedMap
    <3> QED
      BY <1>2, <1>7, <3>2 DEF Unmoved
  <2>2. CASE from \notin DOMAIN d.rename_map
    <3>1. /\ DOMAIN names = DOMAIN d.rename_map \cup {to}
          /\ \A q \in DOMAIN names : names[q] = IF q = to THEN from ELSE d.rename_map[q]
      BY <2>2 DEF names, With
    <3> QED
      BY <1>2, <1>7, <3>1 DEF Unmoved
  <2> QED
    BY <2>1, <2>2
<1> QED
  BY <1>2, <1>5, <1>6, <1>7
-----------------------------------------------------------------------------
(* What a call does to a path that nothing odd happened to. *)

\* What is odd once stays so.
LEMMA OddGrows == ASSUME [Next]_vars PROVE \A path : Plain(path)' => Plain(path)
<1>1. odd \subseteq odd'
  <2>1. CASE \E e \in Exec : Begin(e)
    BY <2>1 DEF Begin
  <2>5. CASE \E e \in Exec : End(e)
    <3>1. PICK e \in Exec : End(e)
      BY <2>5
    <3>2. \E X, Y : odd' = (odd \cup X) \cup Y
      BY <3>1, Zenon DEF End
    <3> QED
      BY <3>2
  <2>2. CASE \E e \in Exec, i \in Id : CommandCall(e, i)
    <3>1. \A e, i, path : Read(e, i, path) \/ Unlink(e, i, path) => odd' = odd
      BY DEF Read, Unlink
    <3>2. \A e, i, path, c : Write(e, i, path, c) => odd' = odd
      BY DEF Write
    <3>3. \A e, i, path, to : Rename(e, i, path, to) => \E X : odd' = odd \cup X
      BY Zenon DEF Rename
    <3>4. \A e, i, path, to : Transfer(e, i, path, to) => \E X : odd' = odd \cup X
      BY Zenon DEF Transfer
    <3> QED
      BY <2>2, <3>1, <3>2, <3>3, <3>4 DEF CommandCall
  <2>3. CASE \E path \in Path : \E c \in Content \cup {Absent} : Other(path, c)
    BY <2>3 DEF Other
  <2>4. CASE \/ \E path \in Path : OtherFolder(path)
             \/ \E c \in Content : Spoil(c) \/ MoveCopies(c)
             \/ \E exec \in 0..Len(stored) : Retrieve(exec)
             \/ MoveThrows \/ Retrieved \/ UNCHANGED vars
    BY <2>4 DEF OtherFolder, Spoil, Retrieve, MoveCopies, MoveThrows, Retrieved, vars
  <2>6. CASE \E path \in Path : MoveDies(path) \/ MoveSkips(path) \/ MoveFinds(path)
    BY <2>6 DEF MoveDies, MoveSkips, MoveFinds, Moving
  <2> QED
    BY <2>1, <2>2, <2>3, <2>4, <2>5, <2>6 DEF Next
<1> QED
  BY <1>1 DEF Plain

\* The four kinds of effect.
Effect(e, path) ==
    \/ OpsOf(data'[e], path) = OpsOf(data[e], path) /\ workspace'[path] = workspace[path]
    \/ Marks(data[e], data'[e], path, "READ")
       /\ workspace'[path] = workspace[path] /\ workspace[path] # Absent
    \/ Marks(data[e], data'[e], path, "WRITE") /\ workspace'[path] # Absent
    \/ Marks(data[e], data'[e], path, "UNLINK") /\ workspace'[path] = Absent

StillCounted(e, path) ==
    (Unmoved(data[e], path) /\ Counted(data[e], path, Original(e, path))) =>
        (Unmoved(data'[e], path) /\ Counted(data'[e], path, Original(e, path)))

LEMMA SumsAt ==
    ASSUME ShapeInv, NEW e \in Exec
    PROVE  NoChecksum \in Sums(e) /\ \A q : At(originals[e], q, NoChecksum) \in Sums(e)
  BY DEF Sums, At

LEMMA AccessEffect ==
    ASSUME NEW S, NoChecksum \in S, NEW d, DataOK(d, S), NEW path \in Path, NEW id,
           NEW op_type \in {"READ", "WRITE", "UNLINK"},
           NEW orig, \A q : At(orig, q, NoChecksum) \in S,
           NEW r, r = Accessed(d, orig, path, id, op_type),
           NEW p, Unmoved(d, p), Counted(d, p, At(orig, p, NoChecksum))
    PROVE  Unmoved(r, p) /\ Counted(r, p, At(orig, p, NoChecksum))
<1>1. r.rename_map = d.rename_map
  BY AccessOps
<1>2. Unmoved(r, p)
  BY <1>1 DEF Unmoved
<1>3. CASE p = path
  BY <1>2, <1>3, AccessOps
<1>4. CASE p # path
  <2>1. Sees(d, r, path)
    BY AccessOps
  <2>2. OpsOf(r, p) = OpsOf(d, p)
    BY <1>4, AccessOps
  <2> QED
    BY <1>2, <1>4, <2>1, <2>2 DEF Sees, Counted
<1> QED
  BY <1>3, <1>4

LEMMA CallFrame ==
    ASSUME ShapeInv, NEW e \in Exec, NEW i, NEW event, NEW files, Call(e, i, event, files)
    PROVE  /\ e \in Running /\ Running' = Running
           /\ calls' = calls + 1 /\ calls < MaxCalls /\ workspace' = files
           /\ DOMAIN data' = Exec /\ \A f \in Exec : f # e => data'[f] = data[f]
           /\ data'[e] = Processed(data[e], originals[e],
                                   [process_id |-> i, file_pid |-> i, event |-> event])
           /\ UNCHANGED <<phase, originals, stored, snapshots, artifacts, lost, wrong, retrieval>>
  BY DEF Call, Running, ShapeInv

LEMMA ReadStep ==
    ASSUME ShapeInv, NEW e \in Exec, NEW i, NEW op_type \in {"READ", "WRITE", "UNLINK"},
           NEW path \in Path, NEW files, Call(e, i, [op |-> op_type, path |-> path], files)
    PROVE  data'[e] = Accessed(data[e], originals[e], path, i, op_type)
<1>1. data'[e] = Processed(data[e], originals[e],
                           [process_id |-> i, file_pid |-> i,
                            event |-> [op |-> op_type, path |-> path]])
  BY CallFrame
<1>2. op_type # "START"
  OBVIOUS
<1> QED
  BY <1>1, <1>2 DEF Processed

LEMMA AccessStep ==
    ASSUME IInv, NEW e \in Exec, NEW i, NEW op_type \in {"READ", "WRITE", "UNLINK"},
           NEW path \in Path, NEW files, Call(e, i, [op |-> op_type, path |-> path], files)
    PROVE  /\ DataOK(data'[e], Sums(e))
           /\ \A p : StillCounted(e, p)
           /\ \A p : p # path => OpsOf(data'[e], p) = OpsOf(data[e], p)
           /\ Marks(data[e], data'[e], path, op_type)
<1> DEFINE S == Sums(e)
           d == data[e]
           r == data'[e]
           orig == originals[e]
<1>1. ShapeInv
  BY DEF IInv
<1>2. r = Accessed(d, orig, path, i, op_type)
  BY <1>1, ReadStep
<1>3. DataOK(d, S) /\ NoChecksum \in S /\ \A q : At(orig, q, NoChecksum) \in S
  BY <1>1, SumsAt DEF ShapeInv
<1>7. \A p : Original(e, p) = At(orig, p, NoChecksum)
  BY DEF Original
<1> HIDE DEF S, d, r, orig
<1>4. DataOK(r, S)
  BY <1>2, <1>3, AccessOps
<1>5. \A p : p # path => OpsOf(r, p) = OpsOf(d, p)
  BY <1>2, <1>3, AccessOps
<1>6. Marks(d, r, path, op_type)
  BY <1>2, <1>3, AccessOps
<1>8. ASSUME NEW p, Unmoved(d, p), Counted(d, p, Original(e, p))
      PROVE  Unmoved(r, p) /\ Counted(r, p, Original(e, p))
  BY <1>2, <1>3, <1>7, <1>8, AccessEffect
<1> QED
  BY <1>4, <1>5, <1>6, <1>8 DEF StillCounted, S, d, r

LEMMA TransferStep ==
    ASSUME IInv, NEW e \in Exec, NEW i, NEW from \in Path, NEW to \in Path, from # to,
           NEW files, Call(e, i, [op |-> "TRANSFER", from |-> from, to |-> to], files)
    PROVE  /\ DataOK(data'[e], Sums(e))
           /\ \A p : p # to => StillCounted(e, p)
           /\ \A p : p # from /\ p # to => OpsOf(data'[e], p) = OpsOf(data[e], p)
           /\ Marks(data[e], data'[e], from, "READ")
<1> DEFINE S == Sums(e)
           d == data[e]
           r == data'[e]
           orig == originals[e]
<1>1. ShapeInv
  BY DEF IInv
<1>2. r = log_operation(Accessed(d, orig, from, i, "READ"), to, i, "WRITE", NoChecksum)
  <2>1. r = Processed(d, orig, [process_id |-> i, file_pid |-> i,
                                event |-> [op |-> "TRANSFER", from |-> from, to |-> to]])
    BY <1>1, CallFrame
  <2> QED
    BY <2>1 DEF Processed
<1>3. DataOK(d, S) /\ NoChecksum \in S /\ \A q : At(orig, q, NoChecksum) \in S
  BY <1>1, SumsAt DEF ShapeInv
<1>7. \A p : Original(e, p) = At(orig, p, NoChecksum)
  BY DEF Original
<1> HIDE DEF S, d, r, orig
<1>4. DataOK(r, S)
  BY <1>2, <1>3, TransferOps
<1>5. \A p : p # from /\ p # to => OpsOf(r, p) = OpsOf(d, p)
  BY <1>2, <1>3, TransferOps
<1>6. Marks(d, r, from, "READ")
  BY <1>2, <1>3, TransferOps
<1>9. r.rename_map = d.rename_map
  BY <1>2, <1>3, TransferOps
<1>10. Sees(d, r, from)
  BY <1>2, <1>3, TransferOps
<1>8. ASSUME NEW p, p # to, Unmoved(d, p), Counted(d, p, Original(e, p))
      PROVE  Unmoved(r, p) /\ Counted(r, p, Original(e, p))
  <2>1. Unmoved(r, p)
    BY <1>8, <1>9 DEF Unmoved
  <2>2. CASE p = from
    BY <1>2, <1>3, <1>7, <1>8, <2>1, <2>2, TransferOps
  <2>3. CASE p # from
    BY <1>5, <1>8, <1>10, <2>1, <2>3 DEF Sees, Counted
  <2> QED
    BY <2>2, <2>3
<1> QED
  BY <1>4, <1>5, <1>6, <1>8 DEF StillCounted, S, d, r

LEMMA RenameStep ==
    ASSUME IInv, NEW e \in Exec, NEW i, NEW from \in Path, NEW to \in Path, from # to,
           NEW files, Call(e, i, [op |-> "RENAME", from |-> from, to |-> to], files)
    PROVE  /\ DataOK(data'[e], Sums(e))
           /\ \A p : p # from /\ p # to =>
                  StillCounted(e, p) /\ OpsOf(data'[e], p) = OpsOf(data[e], p)
<1> DEFINE S == Sums(e)
           d == data[e]
           r == data'[e]
<1>1. ShapeInv
  BY DEF IInv
<1>2. r = log_rename(d, from, to)
  <2>1. r = Processed(d, originals[e], [process_id |-> i, file_pid |-> i,
                                event |-> [op |-> "RENAME", from |-> from, to |-> to]])
    BY <1>1, CallFrame
  <2> QED
    BY <2>1 DEF Processed
<1>3. DataOK(d, S)
  BY <1>1 DEF ShapeInv
<1> HIDE DEF S, d, r
<1>4. DataOK(r, S)
  BY <1>2, <1>3, RenameOps
<1>5. r.seen_files = d.seen_files
  BY <1>2, <1>3, RenameOps
<1>6. ASSUME NEW p, p # from, p # to PROVE OpsOf(r, p) = OpsOf(d, p)
  BY <1>2, <1>3, <1>6, RenameOps
<1>7. ASSUME NEW p, p # from, p # to, Unmoved(d, p) PROVE Unmoved(r, p)
  BY <1>2, <1>3, <1>7, RenameOps
<1>8. ASSUME NEW p, p # from, p # to, Unmoved(d, p), Counted(d, p, Original(e, p))
      PROVE  Unmoved(r, p) /\ Counted(r, p, Original(e, p))
  BY <1>5, <1>6, <1>7, <1>8 DEF Counted
<1> QED
  BY <1>4, <1>6, <1>8 DEF StillCounted, S, d, r

\* What every call leaves alone.
CallFrames(e) ==
    /\ e \in Running /\ Running' = Running
    /\ calls' \in 0..MaxCalls
    /\ workspace' \in [Path -> Content \cup {Absent}]
    /\ odd' \subseteq Oddities \X Path
    /\ DOMAIN data' = Exec /\ \A f \in Exec : f # e => data'[f] = data[f]
    /\ DataOK(data'[e], Sums(e))
    /\ UNCHANGED <<phase, originals, stored, snapshots, artifacts, lost, wrong, retrieval>>

\* Every call of a command is one of the four on a path that stays plain.
LEMMA CallsAre ==
    ASSUME IInv, NEW e \in Exec, NEW i \in Id, CommandCall(e, i)
    PROVE  /\ CallFrames(e)
           /\ \A path \in Path : Plain(path)' => Effect(e, path) /\ StillCounted(e, path)
<1>1. ShapeInv /\ TypeOK
  BY DEF IInv, ShapeInv
<1>2. Absent \notin Content /\ MaxCalls \in Nat
  BY RetrieverAssumption
<1>3. PICK path \in Path :
        \/ Read(e, i, path) \/ Unlink(e, i, path)
        \/ \E c \in Content : Write(e, i, path, c)
        \/ \E to \in Path : Rename(e, i, path, to) \/ Transfer(e, i, path, to)
  BY DEF CommandCall
<1>4. workspace \in [Path -> Content \cup {Absent}] /\ odd \subseteq Oddities \X Path /\ calls \in 0..MaxCalls
  BY <1>1 DEF TypeOK
<1>5. ASSUME NEW event, NEW files \in [Path -> Content \cup {Absent}], Call(e, i, event, files),
             odd' \subseteq Oddities \X Path, DataOK(data'[e], Sums(e))
      PROVE  CallFrames(e) /\ workspace' = files
  <2>1. /\ e \in Running /\ Running' = Running
        /\ calls' = calls + 1 /\ calls < MaxCalls /\ workspace' = files
        /\ DOMAIN data' = Exec /\ \A f \in Exec : f # e => data'[f] = data[f]
        /\ UNCHANGED <<phase, originals, stored, snapshots, artifacts, lost, wrong, retrieval>>
    BY <1>1, <1>5, CallFrame
  <2>2. calls' \in 0..MaxCalls
    BY <1>2, <1>4, <2>1
  <2> QED
    BY <1>5, <2>1, <2>2 DEF CallFrames
<1>6. CASE Read(e, i, path)
  <2>1. Call(e, i, [op |-> "READ", path |-> path], workspace) /\ odd' = odd /\ workspace[path] # Absent
    BY <1>6 DEF Read
  <2>2. /\ DataOK(data'[e], Sums(e))
        /\ \A p : StillCounted(e, p)
        /\ \A p : p # path => OpsOf(data'[e], p) = OpsOf(data[e], p)
        /\ Marks(data[e], data'[e], path, "READ")
    BY <2>1, AccessStep
  <2>3. CallFrames(e) /\ workspace' = workspace
    BY <1>4, <1>5, <2>1, <2>2
  <2> QED
    BY <2>1, <2>2, <2>3 DEF Effect
<1>7. CASE Unlink(e, i, path)
  <2> DEFINE files == [workspace EXCEPT ![path] = Absent]
  <2>1. Call(e, i, [op |-> "UNLINK", path |-> path], files) /\ odd' = odd
    BY <1>7 DEF Unlink
  <2>2. /\ DataOK(data'[e], Sums(e))
        /\ \A p : StillCounted(e, p)
        /\ \A p : p # path => OpsOf(data'[e], p) = OpsOf(data[e], p)
        /\ Marks(data[e], data'[e], path, "UNLINK")
    BY <2>1, AccessStep
  <2>3. /\ files \in [Path -> Content \cup {Absent}] /\ files[path] = Absent
        /\ \A p : p # path => files[p] = workspace[p]
    BY <1>4
  <2> HIDE DEF files
  <2>4. CallFrames(e) /\ workspace' = files
    BY <1>4, <1>5, <2>1, <2>2, <2>3
  <2> QED
    BY <2>2, <2>3, <2>4 DEF Effect
<1>8. ASSUME NEW c \in Content, Write(e, i, path, c)
      PROVE  /\ CallFrames(e)
             /\ \A p \in Path : Plain(p)' => Effect(e, p) /\ StillCounted(e, p)
  <2> DEFINE files == [workspace EXCEPT ![path] = c]
  <2>1. Call(e, i, [op |-> "WRITE", path |-> path], files) /\ odd' = odd
    BY <1>8 DEF Write
  <2>2. /\ DataOK(data'[e], Sums(e))
        /\ \A p : StillCounted(e, p)
        /\ \A p : p # path => OpsOf(data'[e], p) = OpsOf(data[e], p)
        /\ Marks(data[e], data'[e], path, "WRITE")
    BY <2>1, AccessStep
  <2>3. /\ files \in [Path -> Content \cup {Absent}] /\ files[path] = c
        /\ \A p : p # path => files[p] = workspace[p]
    BY <1>4, <1>8
  <2> HIDE DEF files
  <2>4. CallFrames(e) /\ workspace' = files
    BY <1>4, <1>5, <2>1, <2>2, <2>3
  <2> QED
    BY <1>2, <2>2, <2>3, <2>4 DEF Effect
<1>9. ASSUME NEW to \in Path, Rename(e, i, path, to)
      PROVE  /\ CallFrames(e)
             /\ \A p \in Path : Plain(p)' => Effect(e, p) /\ StillCounted(e, p)
  <2> DEFINE files == [workspace EXCEPT ![to] = workspace[path], ![path] = Absent]
  <2>1. /\ Call(e, i, [op |-> "RENAME", from |-> path, to |-> to], files)
        /\ odd' = odd \cup Odd("renamed", {path, to}) /\ path # to
    BY <1>9 DEF Rename
  <2>2. /\ DataOK(data'[e], Sums(e))
        /\ \A p : p # path /\ p # to =>
               StillCounted(e, p) /\ OpsOf(data'[e], p) = OpsOf(data[e], p)
    BY <2>1, RenameStep
  <2>3. /\ files \in [Path -> Content \cup {Absent}]
        /\ \A p : p # path /\ p # to => files[p] = workspace[p]
    <3> DEFINE first == [workspace EXCEPT ![to] = workspace[path]]
    <3>1. /\ first \in [Path -> Content \cup {Absent}]
          /\ \A p : p # to => first[p] = workspace[p]
      BY <1>4
    <3>2. files = [first EXCEPT ![path] = Absent]
      OBVIOUS
    <3> HIDE DEF first, files
    <3>3. files \in [Path -> Content \cup {Absent}]
      BY <3>1, <3>2
    <3> QED
      BY <3>1, <3>2, <3>3
  <2> HIDE DEF files
  <2>4. odd' \subseteq Oddities \X Path
    BY <1>4, <2>1 DEF Odd, Oddities
  <2>5. CallFrames(e) /\ workspace' = files
    BY <1>4, <1>5, <2>1, <2>2, <2>3, <2>4
  <2>6. ASSUME NEW p, Plain(p)' PROVE p # path /\ p # to
    BY <2>1, <2>6 DEF Plain, Odd, Oddities
  <2> QED
    BY <2>2, <2>3, <2>5, <2>6 DEF Effect
<1>10. ASSUME NEW to \in Path, Transfer(e, i, path, to)
      PROVE  /\ CallFrames(e)
             /\ \A p \in Path : Plain(p)' => Effect(e, p) /\ StillCounted(e, p)
  <2> DEFINE files == [workspace EXCEPT ![to] = workspace[path]]
  <2>1. /\ Call(e, i, [op |-> "TRANSFER", from |-> path, to |-> to], files)
        /\ odd' = odd \cup Odd("transferred", {to}) /\ path # to /\ workspace[path] # Absent
    BY <1>10 DEF Transfer
  <2>2. /\ DataOK(data'[e], Sums(e))
        /\ \A p : p # to => StillCounted(e, p)
        /\ \A p : p # path /\ p # to => OpsOf(data'[e], p) = OpsOf(data[e], p)
        /\ Marks(data[e], data'[e], path, "READ")
    BY <2>1, TransferStep
  <2>3. /\ files \in [Path -> Content \cup {Absent}]
        /\ \A p : p # to => files[p] = workspace[p]
    BY <1>4
  <2> HIDE DEF files
  <2>4. odd' \subseteq Oddities \X Path
    BY <1>4, <2>1 DEF Odd, Oddities
  <2>5. CallFrames(e) /\ workspace' = files
    BY <1>4, <1>5, <2>1, <2>2, <2>3, <2>4
  <2>6. ASSUME NEW p, Plain(p)' PROVE p # to
    BY <2>1, <2>6 DEF Plain, Odd, Oddities
  <2> QED
    BY <2>1, <2>2, <2>3, <2>5, <2>6 DEF Effect
<1> QED
  BY <1>3, <1>6, <1>7, <1>8, <1>9, <1>10

LEMMA BusyIsIdle ==
    ASSUME IInv, Running # {}
    PROVE  retrieval = Nowhere
  BY DEF IInv, RetrievalInv

LEMMA IdleKeeps ==
    ASSUME retrieval' = Nowhere
    PROVE  RetrievalInv' /\ RetrieverDiesOfOthers'
<1>1. retrieval'.at = "idle"
  BY DEF Nowhere
<1>2. retrieval' = [at |-> retrieval'.at, exec |-> retrieval'.exec, state |-> retrieval'.state,
                    path |-> retrieval'.path, clear |-> retrieval'.clear]
  BY DEF Nowhere
<1>3. RetrievalInv'
  BY <1>2 DEF RetrievalInv
<1>4. RetrieverDiesOfOthers'
  BY <1>1 DEF RetrieverDiesOfOthers
<1> QED
  BY <1>3, <1>4

\* A change that leaves the operations on a path alone leaves its marks alone.
LEMMA SameMarks ==
    ASSUME NEW d, NEW r, NEW path, OpsOf(r, path) = OpsOf(d, path)
    PROVE  /\ UsedIn(r, path) <=> UsedIn(d, path)
           /\ ChangedIn(r, path) <=> ChangedIn(d, path)
           /\ DeletedIn(r, path) <=> DeletedIn(d, path)
  BY DEF UsedIn, ChangedIn, DeletedIn

LEMMA DeletedChanges ==
    ASSUME NEW d, NEW path, DeletedIn(d, path)
    PROVE  ChangedIn(d, path) /\ UsedIn(d, path)
  BY DEF UsedIn, ChangedIn, DeletedIn

LEMMA CallKeepsShape ==
    ASSUME IInv, NEW e \in Exec, NEW i \in Id, CommandCall(e, i)
    PROVE  ShapeInv' /\ OpsInv'
<1>1. ShapeInv /\ TypeOK /\ OpsInv
  BY DEF IInv, ShapeInv
<1>2. CallFrames(e) /\ \A path \in Path : Plain(path)' => Effect(e, path) /\ StillCounted(e, path)
  BY CallsAre
<1>3. \A path : Plain(path)' => Plain(path)
  BY OddGrows DEF Next
<1>4. TypeOK'
  BY <1>1, <1>2 DEF CallFrames, TypeOK
<1>5. \A f \in Exec : f # e => data'[f] = data[f]
  BY <1>2 DEF CallFrames
<1>6. \A f \in Exec : Sums(f)' = Sums(f)
  BY <1>2 DEF CallFrames, Sums
<1>7. phase[e] = "running"
  BY <1>2 DEF CallFrames, Running
<1>8. ShapeInv'
  <2>1. ASSUME NEW f \in Exec
        PROVE  /\ phase'[f] = "new" => data'[f] = Nothing
               /\ DOMAIN originals'[f] \subseteq Root /\ Sums(f)' \subseteq artifacts' \cup {NoChecksum}
               /\ DataOK(data'[f], Sums(f)')
    <3>1. /\ phase'[f] = phase[f] /\ originals'[f] = originals[f] /\ artifacts' = artifacts
          /\ Sums(f)' = Sums(f)
      BY <1>2, <1>6 DEF CallFrames
    <3>2. CASE f = e
      BY <1>1, <1>2, <1>7, <3>1, <3>2 DEF CallFrames, ShapeInv
    <3>3. CASE f # e
      BY <1>1, <1>5, <3>1, <3>3 DEF ShapeInv
    <3> QED
      BY <3>2, <3>3
  <2> QED
    BY <1>1, <1>2, <1>4, <2>1 DEF CallFrames, ShapeInv
<1>9. OpsInv'
  <2> SUFFICES ASSUME NEW f \in Exec, NEW path \in Path, Plain(path)'
               PROVE  Unmoved(data'[f], path) /\ Counted(data'[f], path, Original(f, path)')
    BY DEF OpsInv
  <2>1. Unmoved(data[f], path) /\ Counted(data[f], path, Original(f, path))
    BY <1>1, <1>3 DEF OpsInv
  <2>2. Original(f, path)' = Original(f, path)
    BY <1>2 DEF Original, CallFrames
  <2>3. CASE f = e
    BY <1>2, <2>1, <2>2, <2>3 DEF StillCounted
  <2>4. CASE f # e
    BY <1>5, <2>1, <2>2, <2>4
  <2> QED
    BY <2>3, <2>4
<1> QED
  BY <1>8, <1>9

\* A call that changes a path makes its exec a changer of it; a read finds the
\* path as the last exec left it, or changed.
LEMMA CallKeepsTruth ==
    ASSUME IInv, NEW e \in Exec, NEW i \in Id, CommandCall(e, i)
    PROVE  SameInv' /\ GoneInv' /\ ReadInv' /\ BeforeInv' /\ RowsInv'
<1>1. CallFrames(e) /\ \A path \in Path : Plain(path)' => Effect(e, path)
  BY CallsAre
<1>2. \A path : Plain(path)' => Plain(path)
  BY OddGrows DEF Next
<1>3. Root \subseteq Path
  BY RetrieverAssumption
<1>4. /\ e \in Running /\ Running' = Running /\ Running \subseteq Exec
      /\ \A f \in Running : f # e => data'[f] = data[f]
      /\ UNCHANGED <<originals, stored, snapshots>>
  BY <1>1 DEF CallFrames, Running
<1>5. SameInv /\ GoneInv /\ ReadInv /\ BeforeInv /\ RowsInv
  BY DEF IInv
<1>6. ASSUME NEW path \in Root, Plain(path)'
      PROVE  /\ Plain(path) /\ Effect(e, path)
             /\ \A f : f \in Changers(path) => f \in Changers(path)'
             /\ \A f : f \in Changers(path)' => f \in Changers(path) \/ f = e
             /\ ChangedIn(data'[e], path) => e \in Changers(path)'
             /\ ChangedIn(data[e], path) => ChangedIn(data'[e], path)
  <2>1. Plain(path) /\ Effect(e, path)
    BY <1>1, <1>2, <1>3, <1>6
  <2>2. ChangedIn(data[e], path) => ChangedIn(data'[e], path)
    BY <2>1, SameMarks DEF Effect, Marks
  <2> QED
    BY <1>4, <2>1, <2>2 DEF Changers
<1>7. ASSUME NEW path \in Root, Plain(path)', Changers(path)' = {}
      PROVE  workspace'[path] = Last(snapshots)[path] /\ Changers(path) = {}
  <2>1. Changers(path) = {} /\ ~ChangedIn(data'[e], path)
    BY <1>6, <1>7
  <2>2. workspace[path] = Last(snapshots)[path]
    BY <1>4, <1>5, <1>6, <1>7, <2>1 DEF SameInv
  <2>3. workspace'[path] = workspace[path]
    BY <1>6, <1>7, <2>1 DEF Effect, Marks
  <2> QED
    BY <2>1, <2>2, <2>3
<1>8. SameInv'
  BY <1>4, <1>7 DEF SameInv
<1>9. ASSUME NEW path \in Root, Plain(path)', workspace'[path] = Absent, Changers(path)' # {}
      PROVE  \E f \in Running : DeletedIn(data'[f], path)
  <2>1. CASE OpsOf(data'[e], path) = OpsOf(data[e], path) /\ workspace'[path] = workspace[path]
    <3>1. \A f \in Running : /\ ChangedIn(data'[f], path) <=> ChangedIn(data[f], path)
                             /\ DeletedIn(data'[f], path) <=> DeletedIn(data[f], path)
      BY <1>4, <2>1, SameMarks
    <3>2. Changers(path) # {}
      BY <1>4, <1>9, <3>1 DEF Changers
    <3> QED
      BY <1>5, <1>6, <1>9, <2>1, <3>1, <3>2 DEF GoneInv
  <2>2. CASE Marks(data[e], data'[e], path, "UNLINK")
    BY <1>4, <2>2 DEF Marks
  <2> QED
    BY <1>6, <1>9, <2>1, <2>2 DEF Effect
<1>10. GoneInv'
  BY <1>4, <1>9 DEF GoneInv
<1>11. ASSUME NEW path \in Root, Plain(path)', NEW f \in Running,
              UsedIn(data'[f], path), ~ChangedIn(data'[f], path), Changers(path)' = {}
       PROVE  Last(snapshots)[path] # Absent
  <2>1. Changers(path) = {} /\ Plain(path) /\ Effect(e, path)
    BY <1>6, <1>7, <1>11
  <2>2. CASE UsedIn(data[f], path) /\ ~ChangedIn(data[f], path)
    BY <1>5, <2>1, <2>2 DEF ReadInv
  <2>3. CASE ~UsedIn(data[f], path) \/ ChangedIn(data[f], path)
    <3>1. f = e
      BY <1>4, <1>11, <2>3
    <3>2. Marks(data[e], data'[e], path, "READ") /\ workspace[path] # Absent
      BY <1>11, <2>1, <2>3, <3>1, SameMarks DEF Effect, Marks
    <3>3. workspace[path] = Last(snapshots)[path]
      BY <1>4, <1>5, <2>1 DEF SameInv
    <3> QED
      BY <3>2, <3>3
  <2> QED
    BY <2>2, <2>3
<1>12. ReadInv'
  BY <1>4, <1>11 DEF ReadInv
<1>13. BeforeInv'
  <2> SUFFICES ASSUME NEW path \in Root, Plain(path)', path \notin Mentioned'
               PROVE  /\ snapshots # << >> => Last(snapshots)[path] = snapshots[1][path]
                      /\ \A f \in Running : \/ Original(f, path)' = snapshots[1][path]
                                            \/ Changers(path)' \ {f} # {}
    BY <1>4 DEF BeforeInv
  <2>1. path \notin Mentioned /\ Plain(path)
    BY <1>4, <1>6 DEF Mentioned
  <2>2. \A f \in Running : Original(f, path)' = Original(f, path)
    BY <1>4 DEF Original
  <2> QED
    BY <1>5, <1>6, <2>1, <2>2 DEF BeforeInv
<1>14. RowsInv'
  BY <1>4, <1>5, <1>6 DEF RowsInv, RowTrue, FirstTrue
<1> QED
  BY <1>8, <1>10, <1>12, <1>13, <1>14

LEMMA CallKeeps ==
    ASSUME IInv, NEW e \in Exec, NEW i \in Id, CommandCall(e, i)
    PROVE  IInv'
<1>1. CallFrames(e)
  BY CallsAre
<1>2. retrieval' = Nowhere
  BY <1>1, BusyIsIdle DEF CallFrames
<1> QED
  BY <1>2, CallKeepsShape, CallKeepsTruth, IdleKeeps DEF IInv
-----------------------------------------------------------------------------
(* An exec begins. *)

LEMMA NothingIs ==
    /\ \A S : DataOK(Nothing, S)
    /\ \A path : OpsOf(Nothing, path) = {} /\ Unmoved(Nothing, path)
    /\ \A path, o : Counted(Nothing, path, o)
    /\ \A path : ~UsedIn(Nothing, path) /\ ~ChangedIn(Nothing, path) /\ ~DeletedIn(Nothing, path)
<1>1. DOMAIN Nothing.process_map = {} /\ DOMAIN Nothing.rename_map = {} /\ Nothing.seen_files = {}
  BY DEF Nothing
<1>2. \A path : OpsOf(Nothing, path) = {} /\ Unmoved(Nothing, path)
  BY <1>1 DEF OpsOf, Unmoved
<1>3. \A S : DataOK(Nothing, S)
  BY DEF Nothing, DataOK
<1> QED
  BY <1>1, <1>2, <1>3 DEF Counted, UsedIn, ChangedIn, DeletedIn

\* What the files under the path of the execs hold is known to the exec.
BeginFrames(e) ==
    /\ e \notin Running /\ Running' = Running \cup {e} /\ data[e] = Nothing
    /\ originals'[e] = Restrict(workspace, Present(Root))
    /\ DOMAIN originals' = Exec /\ \A f \in Exec : f # e => originals'[f] = originals[f]
    /\ artifacts' = artifacts \cup {workspace[path] : path \in Present(Root)}
    /\ snapshots' = IF snapshots = << >> THEN <<workspace>> ELSE snapshots
    /\ \A path \in Path : (Plain(path)' /\ snapshots # << >> /\ Running = {}) =>
           workspace[path] = Last(snapshots)[path]
    /\ odd' \subseteq Oddities \X Path
    /\ phase' \in [Exec -> {"new", "running", "posted"}] /\ phase'[e] = "running"
    /\ \A f \in Exec : f # e => phase'[f] = phase[f]
    /\ retrieval = Nowhere
    /\ UNCHANGED <<workspace, data, stored, lost, wrong, calls, retrieval>>

LEMMA BeginFrame ==
    ASSUME IInv, NEW e \in Exec, Begin(e)
    PROVE  BeginFrames(e)
<1>1. ShapeInv /\ TypeOK
  BY DEF IInv, ShapeInv
<1>2. /\ phase' \in [Exec -> {"new", "running", "posted"}] /\ phase'[e] = "running" /\ phase[e] = "new"
      /\ \A f \in Exec : f # e => phase'[f] = phase[f]
  BY <1>1 DEF Begin, TypeOK
<1>3. e \notin Running /\ Running' = Running \cup {e}
  BY <1>2 DEF Running
<1>4. data[e] = Nothing
  BY <1>1, <1>2 DEF ShapeInv
<1>5. /\ originals'[e] = Restrict(workspace, Present(Root))
      /\ DOMAIN originals' = Exec /\ \A f \in Exec : f # e => originals'[f] = originals[f]
  BY <1>1 DEF Begin, ShapeInv
<1>6. odd' \subseteq Oddities \X Path
  BY <1>1 DEF Begin, TypeOK, Odd, Oddities
<1>7. ASSUME NEW path \in Path, Plain(path)', snapshots # << >>, Running = {}
      PROVE  workspace[path] = Last(snapshots)[path]
  BY <1>7 DEF Begin, Plain, Odd, Oddities
<1> QED
  BY <1>2, <1>3, <1>4, <1>5, <1>6, <1>7 DEF Begin, BeginFrames

LEMMA BeginKeepsShape ==
    ASSUME IInv, NEW e \in Exec, Begin(e)
    PROVE  ShapeInv' /\ OpsInv'
<1>1. ShapeInv /\ TypeOK /\ OpsInv
  BY DEF IInv, ShapeInv
<1>2. BeginFrames(e)
  BY BeginFrame
<1>3. \A path : Plain(path)' => Plain(path)
  BY OddGrows DEF Next
<1>4. workspace \in [Path -> Content \cup {Absent}] /\ Root \subseteq Path
  BY <1>1, RetrieverAssumption DEF TypeOK
<1>5. snapshots' \in Seq([Path -> Content \cup {Absent}]) /\ snapshots' # << >>
  <2> DEFINE T == [Path -> Content \cup {Absent}]
  <2>1. workspace \in T /\ snapshots \in Seq(T)
    BY <1>1, <1>4 DEF ShapeInv
  <2> HIDE DEF T
  <2>2. <<workspace>> \in Seq(T) /\ <<workspace>> # << >>
    BY <2>1
  <2>3. snapshots' \in Seq(T) /\ snapshots' # << >>
    BY <1>2, <2>1, <2>2 DEF BeginFrames
  <2> QED
    BY <2>3 DEF T
<1>6. Len(snapshots') = Len(stored') + 1
  <2>1. CASE snapshots = << >>
    BY <1>1, <1>2, <2>1 DEF BeginFrames, ShapeInv
  <2>2. CASE snapshots # << >>
    BY <1>1, <1>2, <2>2 DEF BeginFrames, TypeOK
  <2> QED
    BY <2>1, <2>2
<1>7. artifacts \subseteq artifacts' /\ artifacts' \subseteq Content
  BY <1>1, <1>2, <1>4 DEF BeginFrames, TypeOK, Present
<1>8. TypeOK'
  BY <1>1, <1>2, <1>5, <1>6, <1>7 DEF BeginFrames, TypeOK
<1>9. DOMAIN originals'[e] \subseteq Root /\ Sums(e)' \subseteq artifacts' \cup {NoChecksum}
  <2>1. originals'[e] = [path \in Present(Root) |-> workspace[path]]
    BY <1>2 DEF BeginFrames, Restrict
  <2>2. \A path \in Present(Root) : workspace[path] \in artifacts'
    BY <1>2 DEF BeginFrames
  <2>3. Present(Root) \subseteq Root
    BY DEF Present
  <2> QED
    BY <2>1, <2>2, <2>3 DEF Sums
<1>10. \A f \in Exec : f # e => Sums(f)' = Sums(f)
  BY <1>2 DEF BeginFrames, Sums
<1>11. ShapeInv'
  <2>1. ASSUME NEW f \in Exec
        PROVE  /\ phase'[f] = "new" => data'[f] = Nothing
               /\ DOMAIN originals'[f] \subseteq Root /\ Sums(f)' \subseteq artifacts' \cup {NoChecksum}
               /\ DataOK(data'[f], Sums(f)')
    <3>1. CASE f = e
      BY <1>2, <1>9, <3>1, NothingIs DEF BeginFrames
    <3>2. CASE f # e
      BY <1>1, <1>2, <1>7, <1>10, <3>2 DEF BeginFrames, ShapeInv
    <3> QED
      BY <3>1, <3>2
  <2>2. \A n \in DOMAIN stored' : \A path \in DOMAIN stored'[n] :
            {stored'[n][path].start, stored'[n][path].end} \subseteq artifacts' \cup {NoChecksum}
    BY <1>1, <1>2, <1>7 DEF BeginFrames, ShapeInv
  <2>3. stored' \in Seq(Rows) /\ DOMAIN data' = Exec /\ DOMAIN originals' = Exec
    BY <1>1, <1>2 DEF BeginFrames, ShapeInv
  <2> QED
    BY <1>5, <1>8, <2>1, <2>2, <2>3 DEF ShapeInv
<1>12. OpsInv'
  <2> SUFFICES ASSUME NEW f \in Exec, NEW path \in Path, Plain(path)'
               PROVE  Unmoved(data'[f], path) /\ Counted(data'[f], path, Original(f, path)')
    BY DEF OpsInv
  <2>1. data'[f] = data[f]
    BY <1>2 DEF BeginFrames
  <2>2. CASE f = e
    BY <1>2, <2>1, <2>2, NothingIs DEF BeginFrames
  <2>3. CASE f # e
    <3>1. Original(f, path)' = Original(f, path)
      BY <1>2, <2>3 DEF BeginFrames, Original
    <3> QED
      BY <1>1, <1>3, <2>1, <3>1 DEF OpsInv
  <2> QED
    BY <2>2, <2>3
<1> QED
  BY <1>11, <1>12

\* An exec that begins alone finds what the last one left; one that begins beside
\* others finds that, or what they have changed.
LEMMA BeginKeepsTruth ==
    ASSUME IInv, NEW e \in Exec, Begin(e)
    PROVE  SameInv' /\ GoneInv' /\ ReadInv' /\ BeforeInv' /\ RowsInv'
<1>1. ShapeInv /\ SameInv /\ GoneInv /\ ReadInv /\ BeforeInv /\ RowsInv
  BY DEF IInv
<1>2. BeginFrames(e)
  BY BeginFrame
<1>3. \A path : Plain(path)' => Plain(path)
  BY OddGrows DEF Next
<1>4. Root \subseteq Path
  BY RetrieverAssumption
<1>5. /\ UNCHANGED <<workspace, data, stored>> /\ e \notin Running /\ Running' = Running \cup {e}
      /\ \A path : ~UsedIn(data[e], path) /\ ~ChangedIn(data[e], path)
      /\ \A f \in Running : f \in Exec /\ f # e
  BY <1>2, NothingIs DEF BeginFrames, Running
<1>6. \A path : Changers(path)' = Changers(path)
  BY <1>5 DEF Changers
<1>7. ASSUME NEW path \in Root, Plain(path)', Changers(path) = {}
      PROVE  workspace[path] = Last(snapshots')[path]
  <2>1. CASE snapshots = << >>
    <3>1. snapshots' = <<workspace>>
      BY <1>2, <2>1 DEF BeginFrames
    <3> QED
      BY <3>1 DEF Last
  <2>2. CASE snapshots # << >> /\ Running = {}
    BY <1>2, <1>4, <1>7, <2>2 DEF BeginFrames
  <2>3. CASE snapshots # << >> /\ Running # {}
    BY <1>1, <1>2, <1>3, <1>7, <2>3 DEF BeginFrames, SameInv
  <2> QED
    BY <2>1, <2>2, <2>3
<1>8. SameInv'
  BY <1>5, <1>6, <1>7 DEF SameInv
<1>9. GoneInv'
  BY <1>1, <1>3, <1>5, <1>6 DEF GoneInv
<1>10. Running # {} => snapshots # << >> /\ snapshots' = snapshots
  BY <1>1, <1>2 DEF ShapeInv, BeginFrames
<1>11. ReadInv'
  BY <1>1, <1>3, <1>5, <1>6, <1>10 DEF ReadInv
<1>12. BeforeInv'
  <2> SUFFICES ASSUME NEW path \in Root, Plain(path)', path \notin Mentioned'
               PROVE  /\ snapshots' # << >> => Last(snapshots')[path] = snapshots'[1][path]
                      /\ \A f \in Running' : \/ Original(f, path)' = snapshots'[1][path]
                                             \/ Changers(path) \ {f} # {}
    BY <1>6 DEF BeforeInv
  <2>1. path \notin Mentioned /\ Plain(path)
    BY <1>3, <1>5 DEF Mentioned
  <2>2. Last(snapshots')[path] = snapshots'[1][path]
    <3>1. CASE snapshots = << >>
      <4>1. snapshots' = <<workspace>>
        BY <1>2, <3>1 DEF BeginFrames
      <4> QED
        BY <4>1 DEF Last
    <3>2. CASE snapshots # << >>
      BY <1>1, <1>2, <2>1, <3>2 DEF BeginFrames, BeforeInv
    <3> QED
      BY <3>1, <3>2
  <2>3. ASSUME NEW f \in Running
        PROVE  Original(f, path)' = snapshots'[1][path] \/ Changers(path) \ {f} # {}
    <3>1. Original(f, path)' = Original(f, path)
      BY <1>2, <1>5 DEF BeginFrames, Original
    <3> QED
      BY <1>1, <1>10, <2>1, <3>1 DEF BeforeInv
  <2>4. CASE Changers(path) # {}
    <3>1. Changers(path) \ {e} # {}
      BY <1>5, <2>4 DEF Changers
    <3> QED
      BY <1>5, <2>2, <2>3, <3>1
  <2>5. CASE Changers(path) = {}
    <3>1. Original(e, path)' = workspace[path]
      BY <1>2 DEF BeginFrames, Original, At, Restrict, Present, Absent
    <3> QED
      BY <1>5, <1>7, <2>2, <2>3, <2>5, <3>1
  <2> QED
    BY <2>4, <2>5
<1>13. RowsInv'
  <2>1. CASE snapshots = << >>
    BY <1>1, <1>5, <2>1 DEF ShapeInv, RowsInv
  <2>2. CASE snapshots # << >>
    <3>1. snapshots' = snapshots
      BY <1>2, <2>2 DEF BeginFrames
    <3> QED
      BY <1>1, <1>3, <1>5, <3>1 DEF RowsInv, RowTrue, FirstTrue
  <2> QED
    BY <2>1, <2>2
<1> QED
  BY <1>8, <1>9, <1>11, <1>12, <1>13

LEMMA BeginKeeps ==
    ASSUME IInv, NEW e \in Exec, Begin(e)
    PROVE  IInv'
<1>1. retrieval' = Nowhere
  BY BeginFrame DEF BeginFrames
<1> QED
  BY <1>1, BeginKeepsShape, BeginKeepsTruth, IdleKeeps DEF IInv
-----------------------------------------------------------------------------
(* Least and greatest numbers, and the greatest checksum. *)

LEMMA LeastNat ==
    ASSUME NEW T \in SUBSET Nat, T # {}
    PROVE  \E m \in T : \A n \in T : m <= n
<1> DEFINE R == OpToRel(<, Nat)
<1>1. IsWellFoundedOn(R, Nat)
  BY NatLessThanWellFounded
<1> HIDE DEF R
<1>2. PICK m \in T : \A n \in T : ~(<<n, m>> \in R)
  BY <1>1, WFMin
<1>3. \A n \in T : n < m => <<n, m>> \in R
  BY DEF R, OpToRel
<1>4. \A n \in T : n \in Nat
  OBVIOUS
<1>5. \A n \in T : ~(n < m)
  BY <1>2, <1>3, Zenon
<1> QED
  BY <1>4, <1>5

LEMMA MinIs ==
    ASSUME NEW T \in SUBSET Nat, T # {}
    PROVE  Min(T) \in T /\ \A n \in T : Min(T) <= n
  BY LeastNat DEF Min

LEMMA MaxIn ==
    ASSUME NEW bound \in Nat, NEW T \in SUBSET (1..bound), T # {}
    PROVE  Max(T) \in T
<1> DEFINE Bounds == {k \in Nat : \A n \in T : n <= k}
<1>1. Bounds \in SUBSET Nat /\ bound \in Bounds
  OBVIOUS
<1>2. PICK m \in Bounds : \A k \in Bounds : m <= k
  BY <1>1, LeastNat
<1>3. m \in T
  <2>1. CASE m = 0
    <3>1. PICK n \in T : TRUE
      OBVIOUS
    <3>2. n \in 1..bound /\ n <= m
      BY <1>2
    <3> QED
      BY <2>1, <3>2
  <2>2. CASE m # 0 /\ m \notin T
    <3>1. m - 1 \in Nat /\ \A n \in T : n \in Nat /\ n <= m /\ n # m
      BY <1>2, <2>2
    <3>2. \A n \in T : n <= m - 1
      BY <1>2, <3>1
    <3> QED
      BY <1>2, <3>1, <3>2
  <2> QED
    BY <2>1, <2>2
<1>4. \E x \in T : \A y \in T : x >= y
  BY <1>2, <1>3
<1> QED
  BY <1>4 DEF Max

\* MAX of one checksum and empty strings is that checksum.
LEMMA GreatestIs ==
    ASSUME NEW T
    PROVE  /\ Greatest(T) \in T \cup {NoChecksum}
           /\ Greatest(T) \in Content \cup {NoChecksum}
           /\ \A c \in Content \cup {NoChecksum} :
                 (c \in T /\ T \subseteq {c, NoChecksum}) => Greatest(T) = c
<1> DEFINE places == {n \in DOMAIN ByText : ByText[n] \in T}
<1>1. ByText \in Seq(Content) /\ NoChecksum \notin Content
  BY RetrieverAssumption DEF Absent
<1>2. Greatest(T) = IF places = {} THEN NoChecksum ELSE ByText[Max(places)]
  BY DEF Greatest
<1>3. places \in SUBSET (1..Len(ByText)) /\ Len(ByText) \in Nat
  BY <1>1
<1>4. \A c : c \in Content <=> \E n \in DOMAIN ByText : ByText[n] = c
  BY DEF Content, ToSet
<1>5. places = {} <=> T \cap Content = {}
  BY <1>4
<1>6. places # {} => Max(places) \in places
  BY <1>3, MaxIn
<1>7. places # {} => Greatest(T) \in T /\ Greatest(T) \in Content
  BY <1>2, <1>4, <1>6
<1> HIDE DEF places
<1> QED
  BY <1>1, <1>2, <1>5, <1>7
-----------------------------------------------------------------------------
(* An exec ends. *)

\* The row that fetch_job_operations makes of the operations of an exec on a path.
LEMMA MergedIs ==
    ASSUME IInv, NEW e \in Exec, NEW path \in Path
    PROVE  /\ Merged(e, path) \in Row
           /\ Merged(e, path).deleted <=> DeletedIn(data[e], path)
           /\ Merged(e, path).start \in artifacts \cup {NoChecksum}
           /\ (Plain(path) /\ UsedIn(data[e], path)) => Merged(e, path).start = Original(e, path)
           /\ ~ChangedIn(data[e], path) => Merged(e, path).end = NoChecksum
           /\ (path \in Root /\ ChangedIn(data[e], path) /\ ~DeletedIn(data[e], path)) =>
                  Merged(e, path).end = workspace[path]
<1> DEFINE ops == OpsOf(data[e], path)
           starts == {op.start : op \in ops}
           ends == {EndChecksum(op, path) : op \in ops}
<1>1. ShapeInv /\ TypeOK /\ OpsInv
  BY DEF IInv, ShapeInv
<1>2. OperationsOn(e, path) = ops
  BY DEF OperationsOn, OpsOf
<1>3. Merged(e, path) = [deleted |-> \E op \in ops : op.deleted,
                         start |-> Greatest(starts), end |-> Greatest(ends)]
  BY <1>2 DEF Merged
<1>4. ASSUME NEW op \in ops PROVE op \in OperationsWith(Sums(e))
  <2>1. PICK i \in DOMAIN data[e].process_map :
            /\ path \in DOMAIN data[e].process_map[i].operation_map
            /\ op = data[e].process_map[i].operation_map[path]
    BY <1>4, InOps
  <2>2. DataOK(data[e], Sums(e))
    BY <1>1 DEF ShapeInv
  <2> QED
    BY <2>1, <2>2 DEF DataOK
<1> HIDE DEF ops
<1>5. Merged(e, path).deleted <=> DeletedIn(data[e], path)
  BY <1>3 DEF DeletedIn, ops
<1>6. /\ Greatest(starts) \in starts \cup {NoChecksum}
      /\ Greatest(starts) \in Content \cup {NoChecksum}
      /\ Greatest(ends) \in Content \cup {NoChecksum}
  BY GreatestIs
<1>7. starts \subseteq artifacts \cup {NoChecksum}
  BY <1>1, <1>4 DEF ShapeInv, OperationsWith
<1>8. Merged(e, path) \in Row
  <2>1. (\E op \in ops : op.deleted) \in BOOLEAN
    OBVIOUS
  <2> HIDE DEF starts, ends
  <2> QED
    BY <1>3, <1>6, <2>1 DEF Row, Checksum
<1>9. ASSUME Plain(path), UsedIn(data[e], path)
      PROVE  Greatest(starts) = Original(e, path)
  <2>1. /\ \A op \in ops : op.start \in {NoChecksum, Original(e, path)}
        /\ \E op \in ops : op.start = Original(e, path)
    BY <1>1, <1>9 DEF OpsInv, Counted, UsedIn, ops
  <2>2. Original(e, path) \in Content \cup {NoChecksum}
    BY <1>1, SumsAt DEF ShapeInv, TypeOK, Original
  <2>3. Original(e, path) \in starts /\ starts \subseteq {Original(e, path), NoChecksum}
    BY <2>1
  <2> HIDE DEF starts
  <2> QED
    BY <2>2, <2>3, GreatestIs
<1>10. ASSUME ~ChangedIn(data[e], path)
       PROVE  Greatest(ends) = NoChecksum
  <2>1. ends \subseteq {NoChecksum}
    BY <1>10 DEF ChangedIn, EndChecksum, ops
  <2> HIDE DEF ends
  <2> QED
    BY <2>1, GreatestIs
<1>11. ASSUME path \in Root, ChangedIn(data[e], path), ~DeletedIn(data[e], path)
       PROVE  Greatest(ends) = workspace[path]
  <2>1. \A op \in ops : ~op.deleted
    BY <1>11 DEF DeletedIn, ops
  <2>2. PICK op \in ops : op.write
    BY <1>11, <2>1 DEF ChangedIn, ops
  <2>3. workspace[path] \in ends
    BY <1>11, <2>1, <2>2 DEF EndChecksum
  <2>4. ends \subseteq {workspace[path], NoChecksum}
    BY DEF EndChecksum
  <2>5. workspace[path] \in Content \cup {NoChecksum}
    BY <1>1 DEF TypeOK, Absent
  <2> HIDE DEF ends
  <2> QED
    BY <2>3, <2>4, <2>5, GreatestIs
<1> HIDE DEF starts, ends
<1>12. Merged(e, path).start = Greatest(starts) /\ Merged(e, path).end = Greatest(ends)
  BY <1>3
<1> QED
  BY <1>5, <1>6, <1>7, <1>8, <1>9, <1>10, <1>11, <1>12

EndFrames(e) ==
    /\ e \in Running /\ Running' = Running \ {e} /\ Running \subseteq Exec
    /\ phase' \in [Exec -> {"new", "running", "posted"}]
    /\ \A f \in Exec : phase'[f] = "new" => phase[f] = "new"
    /\ stored' = Append(stored, [path \in Used(e) |-> Merged(e, path)])
    /\ artifacts \subseteq artifacts' /\ artifacts' \subseteq Content
    /\ \A path \in Used(e) : Merged(e, path).end \in artifacts' \cup {NoChecksum}
    /\ snapshots' = Append(snapshots, workspace)
    /\ odd' \subseteq Oddities \X Path
    /\ \A path \in Path : Plain(path)' =>
        /\ Changers(path) \subseteq {e}
        /\ (UsedIn(data[e], path) /\ DeletedIn(data[e], path)) =>
               workspace[path] = Absent /\ \A f \in Running \ {e} : ~UsedIn(data[f], path)
    /\ \A path : path \in Used(e) <=> path \in Path /\ UsedIn(data[e], path)
    /\ retrieval = Nowhere
    /\ UNCHANGED <<workspace, originals, data, lost, wrong, calls, retrieval>>

LEMMA EndFrame ==
    ASSUME IInv, NEW e \in Exec, End(e)
    PROVE  EndFrames(e)
<1> DEFINE rows == [path \in Used(e) |-> Merged(e, path)]
           gone == {path \in Used(e) : rows[path].deleted}
<1>1. ShapeInv /\ TypeOK
  BY DEF IInv, ShapeInv
<1>2. /\ phase[e] = "running" /\ phase' = [phase EXCEPT ![e] = "posted"]
      /\ stored' = Append(stored, rows)
      /\ artifacts' = artifacts \cup Collected(rows)
      /\ snapshots' = Append(snapshots, workspace)
      /\ odd' = odd \cup Odd("revived", {path \in gone : workspace[path] # Absent})
                    \cup Odd("overlapped", UNION {Changed(d) \cup (Used(d) \cap gone) : d \in Running \ {e}})
      /\ UNCHANGED <<workspace, originals, data, lost, wrong, calls, retrieval>>
  BY DEF End
<1>3. /\ e \in Running /\ Running' = Running \ {e} /\ Running \subseteq Exec
      /\ phase' \in [Exec -> {"new", "running", "posted"}]
      /\ \A f \in Exec : phase'[f] = "new" => phase[f] = "new"
  BY <1>1, <1>2 DEF Running, TypeOK
<1>4. retrieval = Nowhere
  BY <1>3, BusyIsIdle
<1>5. \A f, path : /\ path \in Used(f) <=> path \in Path /\ UsedIn(data[f], path)
                   /\ path \in Changed(f) <=> path \in Path /\ ChangedIn(data[f], path)
  BY DEF Used, Changed, OperationsOn, OpsOf, UsedIn, ChangedIn
<1>6. \A path : path \in gone <=> path \in Path /\ UsedIn(data[e], path) /\ DeletedIn(data[e], path)
  BY <1>5, MergedIs
<1>7. \A path \in Used(e) : Merged(e, path).end \in Content \cup {NoChecksum}
  BY <1>5, MergedIs DEF Row, Checksum
<1>8. \A c : c \in Collected(rows) <=> c # NoChecksum /\ \E path \in Used(e) : c = Merged(e, path).end
  BY DEF Collected
<1> HIDE DEF gone, rows
<1>9. /\ artifacts \subseteq artifacts' /\ artifacts' \subseteq Content
      /\ \A path \in Used(e) : Merged(e, path).end \in artifacts' \cup {NoChecksum}
  BY <1>1, <1>2, <1>7, <1>8 DEF TypeOK
<1>10. odd' \subseteq Oddities \X Path
  <2>1. Odd("revived", {path \in gone : workspace[path] # Absent}) \subseteq Oddities \X Path
    BY <1>6 DEF Odd, Oddities
  <2>2. UNION {Changed(d) \cup (Used(d) \cap gone) : d \in Running \ {e}} \subseteq Path
    BY <1>5
  <2>3. Odd("overlapped", UNION {Changed(d) \cup (Used(d) \cap gone) : d \in Running \ {e}})
            \subseteq Oddities \X Path
    BY <2>2 DEF Odd, Oddities
  <2> QED
    BY <1>1, <1>2, <2>1, <2>3 DEF TypeOK
<1>11. ASSUME NEW path \in Path, Plain(path)'
       PROVE  /\ \A f \in Running \ {e} : path \notin Changed(f) /\ path \notin Used(f) \cap gone
              /\ path \in gone => workspace[path] = Absent
  <2>1. <<"overlapped", path>> \notin odd' /\ <<"revived", path>> \notin odd'
    BY <1>11 DEF Plain, Oddities
  <2>2. path \notin UNION {Changed(d) \cup (Used(d) \cap gone) : d \in Running \ {e}}
    BY <1>2, <2>1 DEF Odd
  <2>3. path \notin {p \in gone : workspace[p] # Absent}
    BY <1>2, <2>1 DEF Odd
  <2> QED
    BY <2>2, <2>3
<1>12. ASSUME NEW path \in Path, Plain(path)'
       PROVE  /\ Changers(path) \subseteq {e}
              /\ (UsedIn(data[e], path) /\ DeletedIn(data[e], path)) =>
                     workspace[path] = Absent /\ \A f \in Running \ {e} : ~UsedIn(data[f], path)
  BY <1>5, <1>6, <1>11, <1>12 DEF Changers
<1> QED
  BY <1>2, <1>3, <1>4, <1>5, <1>9, <1>10, <1>12 DEF EndFrames, rows

LEMMA EndKeepsShape ==
    ASSUME IInv, NEW e \in Exec, End(e)
    PROVE  ShapeInv' /\ OpsInv'
<1> DEFINE rows == [path \in Used(e) |-> Merged(e, path)]
           T == [Path -> Content \cup {Absent}]
<1>1. ShapeInv /\ TypeOK /\ OpsInv
  BY DEF IInv, ShapeInv
<1>2. EndFrames(e)
  BY EndFrame
<1>3. \A path : Plain(path)' => Plain(path)
  BY OddGrows DEF Next
<1>4. rows \in [Used(e) -> Row] /\ Used(e) \subseteq Path
  BY <1>2, MergedIs DEF EndFrames
<1>5. rows \in Rows
  BY <1>4 DEF Rows
<1>6. \A path \in DOMAIN rows : {rows[path].start, rows[path].end} \subseteq artifacts' \cup {NoChecksum}
  BY <1>2, MergedIs DEF EndFrames
<1>7. stored \in Seq(Rows) /\ stored' = Append(stored, rows) /\ DOMAIN rows \subseteq Path
  BY <1>1, <1>2 DEF EndFrames, ShapeInv
<1>8. snapshots \in Seq(T) /\ workspace \in T /\ snapshots' = Append(snapshots, workspace)
  BY <1>1, <1>2 DEF EndFrames, ShapeInv, TypeOK
<1> HIDE DEF rows, T
<1>9. /\ stored' \in Seq(Rows) /\ Len(stored') = Len(stored) + 1
      /\ DOMAIN stored' = DOMAIN stored \cup {Len(stored) + 1}
      /\ \A n \in DOMAIN stored : stored'[n] = stored[n]
      /\ stored'[Len(stored) + 1] = rows
  BY <1>5, <1>7
<1>10. snapshots' \in Seq(T) /\ Len(snapshots') = Len(snapshots) + 1 /\ snapshots' # << >>
  BY <1>8
<1>11. Len(snapshots) = Len(stored) + 1
  BY <1>1, <1>2 DEF EndFrames, ShapeInv, TypeOK
<1>12. TypeOK'
  <2>1. \A n \in DOMAIN stored' : DOMAIN stored'[n] \subseteq Path
    BY <1>1, <1>7, <1>9 DEF TypeOK
  <2>2. Len(snapshots') = IF snapshots' = << >> THEN 0 ELSE Len(stored') + 1
    BY <1>9, <1>10, <1>11
  <2> QED
    BY <1>1, <1>2, <2>1, <2>2 DEF EndFrames, TypeOK
<1>13. \A f \in Exec : Sums(f)' = Sums(f)
  BY <1>2 DEF EndFrames, Sums
<1>14. ShapeInv'
  <2>1. ASSUME NEW f \in Exec
        PROVE  /\ phase'[f] = "new" => data'[f] = Nothing
               /\ DOMAIN originals'[f] \subseteq Root /\ Sums(f)' \subseteq artifacts' \cup {NoChecksum}
               /\ DataOK(data'[f], Sums(f)')
    BY <1>1, <1>2, <1>13 DEF EndFrames, ShapeInv
  <2>2. \A n \in DOMAIN stored' : \A path \in DOMAIN stored'[n] :
            {stored'[n][path].start, stored'[n][path].end} \subseteq artifacts' \cup {NoChecksum}
    BY <1>1, <1>2, <1>6, <1>9 DEF EndFrames, ShapeInv
  <2>3. DOMAIN data' = Exec /\ DOMAIN originals' = Exec
    BY <1>1, <1>2 DEF EndFrames, ShapeInv
  <2> QED
    BY <1>9, <1>10, <1>12, <2>1, <2>2, <2>3 DEF ShapeInv, T
<1>15. OpsInv'
  <2> SUFFICES ASSUME NEW f \in Exec, NEW path \in Path, Plain(path)'
               PROVE  Unmoved(data'[f], path) /\ Counted(data'[f], path, Original(f, path)')
    BY DEF OpsInv
  <2>1. data'[f] = data[f] /\ Original(f, path)' = Original(f, path)
    BY <1>2 DEF EndFrames, Original
  <2> QED
    BY <1>1, <1>3, <2>1 DEF OpsInv
<1> QED
  BY <1>14, <1>15

\* The row of an exec that ends is true: on a plain path nobody else has changed
\* anything since the last exec ended.
LEMMA EndKeepsTruth ==
    ASSUME IInv, NEW e \in Exec, End(e)
    PROVE  SameInv' /\ GoneInv' /\ ReadInv' /\ BeforeInv' /\ RowsInv'
<1> DEFINE rows == [path \in Used(e) |-> Merged(e, path)]
<1>1. ShapeInv /\ TypeOK /\ SameInv /\ GoneInv /\ ReadInv /\ BeforeInv /\ RowsInv
  BY DEF IInv, ShapeInv
<1>2. EndFrames(e)
  BY EndFrame
<1>3. \A path : Plain(path)' => Plain(path)
  BY OddGrows DEF Next
<1>4. Root \subseteq Path
  BY RetrieverAssumption
<1>20. PICK last \in Nat : last = Len(stored) + 1
  BY <1>1 DEF ShapeInv
<1>5. /\ e \in Running /\ Running' = Running \ {e} /\ Running \subseteq Exec
      /\ snapshots # << >> /\ last = Len(stored) + 1 /\ Len(snapshots) = last /\ Len(stored) \in Nat
      /\ UNCHANGED <<workspace, data, originals>>
  BY <1>1, <1>2, <1>20 DEF EndFrames, ShapeInv, TypeOK
<1>6. /\ Last(snapshots') = workspace
      /\ \A n \in 1..last : snapshots'[n] = snapshots[n]
      /\ snapshots'[last + 1] = workspace
      /\ Last(snapshots) = snapshots[last]
  BY <1>1, <1>2, <1>5 DEF EndFrames, ShapeInv, Last
<1>7. /\ DOMAIN stored = 1..Len(stored) /\ DOMAIN stored' = 1..last
      /\ \A n \in DOMAIN stored : stored'[n] = stored[n]
      /\ stored'[last] = rows
  BY <1>1, <1>2, <1>5 DEF EndFrames, ShapeInv
<1>8. DOMAIN rows = Used(e) /\ \A path \in Used(e) : rows[path] = Merged(e, path)
  OBVIOUS
<1> HIDE DEF rows
<1>9. ASSUME NEW path \in Root, Plain(path)'
      PROVE  /\ Plain(path) /\ path \in Path
             /\ Changers(path) \subseteq {e} /\ Changers(path)' = {}
             /\ (UsedIn(data[e], path) /\ DeletedIn(data[e], path)) =>
                    workspace[path] = Absent /\ \A f \in Running \ {e} : ~UsedIn(data[f], path)
             /\ path \in Used(e) <=> UsedIn(data[e], path)
             /\ Changers(path) = {} => ~ChangedIn(data[e], path)
             /\ ~ChangedIn(data[e], path) => Changers(path) = {}
  BY <1>2, <1>3, <1>4, <1>5, <1>9 DEF EndFrames, Changers
<1>10. ASSUME NEW path \in Root, Plain(path)', ~ChangedIn(data[e], path)
       PROVE  workspace[path] = Last(snapshots)[path]
  BY <1>1, <1>5, <1>9, <1>10 DEF SameInv
<1>11. ASSUME NEW path \in Root, Plain(path)', ChangedIn(data[e], path), ~DeletedIn(data[e], path)
       PROVE  workspace[path] # Absent
  <2> SUFFICES ASSUME workspace[path] = Absent PROVE FALSE
    OBVIOUS
  <2>1. Changers(path) # {} /\ Plain(path)
    BY <1>9, <1>11
  <2>2. PICK f \in Running : DeletedIn(data[f], path)
    BY <1>1, <2>1 DEF GoneInv
  <2>3. f = e
    BY <1>9, <1>11, <2>2, DeletedChanges DEF Changers
  <2> QED
    BY <1>11, <2>2, <2>3
<1>12. ASSUME NEW path \in Root, Plain(path)', NEW f \in Running,
              UsedIn(data[f], path), ~ChangedIn(data[f], path), ~ChangedIn(data[e], path)
       PROVE  workspace[path] # Absent
  BY <1>1, <1>9, <1>10, <1>12 DEF ReadInv
<1>13. SameInv'
  BY <1>5, <1>6 DEF SameInv
<1>14. GoneInv'
  BY <1>9 DEF GoneInv
<1>15. ReadInv'
  <2> SUFFICES ASSUME NEW path \in Root, Plain(path)', NEW f \in Running, f # e,
                      UsedIn(data[f], path), ~ChangedIn(data[f], path)
               PROVE  workspace[path] # Absent
    BY <1>5, <1>6 DEF ReadInv
  <2>1. CASE ~ChangedIn(data[e], path)
    BY <1>12, <2>1
  <2>2. CASE ChangedIn(data[e], path)
    <3>1. ~DeletedIn(data[e], path)
      BY <1>9, DeletedChanges
    <3> QED
      BY <1>11, <2>2, <3>1
  <2> QED
    BY <2>1, <2>2
<1>16. BeforeInv'
  <2> SUFFICES ASSUME NEW path \in Root, Plain(path)', path \notin Mentioned'
               PROVE  /\ workspace[path] = snapshots[1][path]
                      /\ \A f \in Running : Original(f, path) = snapshots[1][path]
    <3>1. \A f, path : Original(f, path)' = Original(f, path)
      BY <1>5 DEF Original
    <3>2. snapshots'[1] = snapshots[1]
      BY <1>5, <1>6
    <3> QED
      BY <1>5, <1>6, <3>1, <3>2 DEF BeforeInv
  <2>1. path \notin Mentioned /\ path \notin Used(e)
    <3>1. \A n \in DOMAIN stored' : path \notin DOMAIN stored'[n]
      BY DEF Mentioned
    <3>2. \A n \in DOMAIN stored : path \notin DOMAIN stored[n]
      BY <1>5, <1>7, <3>1
    <3>3. path \notin DOMAIN rows
      BY <1>5, <1>7, <3>1
    <3> QED
      BY <1>8, <3>2, <3>3 DEF Mentioned
  <2>2. ~ChangedIn(data[e], path) /\ Changers(path) = {} /\ Plain(path)
    BY <1>9, <2>1 DEF ChangedIn, UsedIn
  <2>3. /\ Last(snapshots)[path] = snapshots[1][path]
        /\ \A f \in Running : Original(f, path) = snapshots[1][path]
    BY <1>1, <1>5, <2>1, <2>2 DEF BeforeInv
  <2> QED
    BY <1>10, <2>2, <2>3
<1>17. ASSUME NEW path \in Root, Plain(path)'
       PROVE  RowTrue(last, path)' /\ FirstTrue(last, path)'
  <2>1. snapshots'[last] = Last(snapshots) /\ snapshots'[last + 1] = workspace
    BY <1>5, <1>6
  <2>2. CASE path \notin Used(e)
    <3>1. ~ChangedIn(data[e], path)
      BY <1>9, <1>17, <2>2 DEF ChangedIn, UsedIn
    <3>2. workspace[path] = Last(snapshots)[path]
      BY <1>10, <1>17, <3>1
    <3> QED
      BY <1>7, <1>8, <2>1, <2>2, <3>2 DEF RowTrue, FirstTrue
  <2>3. CASE path \in Used(e)
    <3> DEFINE row == Merged(e, path)
    <3>1. UsedIn(data[e], path) /\ path \in Path /\ Plain(path)
      BY <1>9, <1>17, <2>3
    <3>2. stored'[last][path] = row /\ path \in DOMAIN stored'[last]
      BY <1>7, <1>8, <2>3
    <3>3. /\ row.deleted <=> DeletedIn(data[e], path)
          /\ row.start = Original(e, path)
          /\ ~ChangedIn(data[e], path) => row.end = NoChecksum
          /\ (ChangedIn(data[e], path) /\ ~DeletedIn(data[e], path)) => row.end = workspace[path]
      BY <1>5, <3>1, MergedIs
    <3> HIDE DEF row
    <3>4. RowTrue(last, path)'
      <4>1. CASE DeletedIn(data[e], path)
        BY <1>9, <1>17, <2>1, <3>1, <3>2, <3>3, <4>1 DEF RowTrue
      <4>2. CASE ~DeletedIn(data[e], path) /\ ChangedIn(data[e], path)
        <5>1. workspace[path] # Absent /\ row.end = workspace[path]
          BY <1>11, <1>17, <3>3, <4>2
        <5> QED
          BY <2>1, <3>2, <3>3, <4>2, <5>1 DEF RowTrue, Absent
      <4>3. CASE ~ChangedIn(data[e], path)
        <5>1. workspace[path] # Absent /\ workspace[path] = Last(snapshots)[path]
          BY <1>5, <1>10, <1>12, <1>17, <3>1, <4>3
        <5>2. ~DeletedIn(data[e], path)
          BY <4>3, DeletedChanges
        <5> QED
          BY <2>1, <3>2, <3>3, <4>3, <5>1, <5>2 DEF RowTrue
      <4> QED
        BY <4>1, <4>2, <4>3
    <3>5. FirstTrue(last, path)'
      <4> SUFFICES ASSUME \A m \in 1..last - 1 : path \notin DOMAIN stored'[m]
                   PROVE  row.start = snapshots'[1][path]
        BY <3>2 DEF FirstTrue
      <4>1. path \notin Mentioned
        BY <1>5, <1>7 DEF Mentioned
      <4>2. Changers(path) \ {e} = {}
        BY <1>9, <1>17
      <4>3. Original(e, path) = snapshots[1][path]
        BY <1>1, <1>5, <3>1, <4>1, <4>2 DEF BeforeInv
      <4>4. snapshots'[1] = snapshots[1]
        BY <1>5, <1>6
      <4> QED
        BY <3>3, <4>3, <4>4
    <3> QED
      BY <3>4, <3>5
  <2> QED
    BY <2>2, <2>3
<1>18. ASSUME NEW path \in Root, Plain(path)', NEW n \in DOMAIN stored
       PROVE  RowTrue(n, path)' /\ FirstTrue(n, path)'
  <2>1. RowTrue(n, path) /\ FirstTrue(n, path)
    BY <1>1, <1>9, <1>18 DEF RowsInv
  <2>2. /\ snapshots'[n] = snapshots[n] /\ snapshots'[n + 1] = snapshots[n + 1]
        /\ snapshots'[1] = snapshots[1] /\ stored'[n] = stored[n]
        /\ \A m \in 1..n - 1 : stored'[m] = stored[m]
    BY <1>5, <1>6, <1>7
  <2> QED
    BY <2>1, <2>2 DEF RowTrue, FirstTrue
<1>19. RowsInv'
  BY <1>5, <1>7, <1>17, <1>18 DEF RowsInv
<1> QED
  BY <1>13, <1>14, <1>15, <1>16, <1>19

LEMMA EndKeeps ==
    ASSUME IInv, NEW e \in Exec, End(e)
    PROVE  IInv'
<1>1. retrieval' = Nowhere
  BY EndFrame DEF EndFrames
<1> QED
  BY <1>1, EndKeepsShape, EndKeepsTruth, IdleKeeps DEF IInv
-----------------------------------------------------------------------------
(* The state that is rebuilt. *)

IsRun(g, N) ==
    g = [n \in 0..N |-> IF n = 0 THEN InitialState ELSE AfterOperations(g[n - 1], stored[n])]

\* There is a function that meets the equation of StateAfter, for every exec.
LEMMA RunExists == ASSUME NEW N \in Nat PROVE \E g : IsRun(g, N)
<1> DEFINE T == {m \in Nat : ~\E g : IsRun(g, m)}
<1> SUFFICES ASSUME T # {} PROVE FALSE
  OBVIOUS
<1>1. T \in SUBSET Nat
  OBVIOUS
<1> HIDE DEF T
<1>2. PICK m \in T : \A n \in T : m <= n
  BY <1>1, LeastNat
<1>3. m \in Nat /\ ~\E g : IsRun(g, m)
  BY DEF T
<1>4. CASE m = 0
  <2> DEFINE h == [n \in 0..0 |-> InitialState]
  <2>1. IsRun(h, 0)
    BY DEF IsRun
  <2> QED
    BY <1>3, <1>4, <2>1
<1>5. CASE m # 0
  <2>1. m - 1 \in Nat /\ m - 1 \notin T
    BY <1>2, <1>3, <1>5
  <2>2. PICK g : IsRun(g, m - 1)
    BY <2>1 DEF T
  <2> DEFINE h == [n \in 0..m |-> IF n = m THEN AfterOperations(g[m - 1], stored[m]) ELSE g[n]]
  <2>3. IsRun(h, m)
    BY <1>3, <1>5, <2>2 DEF IsRun
  <2> QED
    BY <1>3, <2>3
<1> QED
  BY <1>4, <1>5

LEMMA StateAfterIs ==
    ASSUME NEW N \in Nat
    PROVE  \E g : IsRun(g, N) /\ StateAfter(N) = g[N]
<1> DEFINE g == CHOOSE f : IsRun(f, N)
<1>1. IsRun(g, N)
  BY RunExists
<1>2. StateAfter(N) = g[N]
  BY DEF StateAfter, IsRun
<1> QED
  BY <1>1, <1>2

LEMMA StateAfterStays ==
    ASSUME UNCHANGED stored
    PROVE  \A n : StateAfter(n)' = StateAfter(n)
  BY DEF StateAfter, InitialState, AfterOperations

LEMMA InitialStateIs ==
    ASSUME ShapeInv, NEW path
    PROVE  /\ path \in DOMAIN InitialState =>
                  path \in Path /\ InitialState[path] \in artifacts
           /\ path \in Mentioned => \E k \in DOMAIN stored :
                  /\ path \in DOMAIN stored[k] /\ \A m \in 1..k - 1 : path \notin DOMAIN stored[m]
                  /\ At(InitialState, path, Absent) = stored[k][path].start
<1> DEFINE firsts == [p \in UNION {DOMAIN stored[n] : n \in DOMAIN stored} |->
                         stored[Min({n \in DOMAIN stored : p \in DOMAIN stored[n]})][p].start]
           places == {n \in DOMAIN stored : path \in DOMAIN stored[n]}
           k == Min(places)
<1>1. InitialState = Restrict(firsts, {p \in DOMAIN firsts : firsts[p] # NoChecksum})
  BY DEF InitialState
<1>2. DOMAIN firsts = Mentioned
  BY DEF Mentioned
<1>3. path \in Mentioned => firsts[path] = stored[k][path].start
  BY DEF Mentioned
<1> HIDE DEF firsts
<1>4. /\ path \in DOMAIN InitialState <=> path \in Mentioned /\ firsts[path] # NoChecksum
      /\ path \in DOMAIN InitialState => InitialState[path] = firsts[path]
  BY <1>1, <1>2 DEF Restrict
<1>5. DOMAIN stored = 1..Len(stored) /\ Len(stored) \in Nat
  BY DEF ShapeInv
<1>6. places \in SUBSET Nat /\ (path \in Mentioned => places # {})
  BY <1>5 DEF Mentioned
<1> HIDE DEF k
<1>7. path \in Mentioned => k \in places /\ \A n \in places : k <= n
  <2>1. k = Min(places)
    BY DEF k
  <2> HIDE DEF places
  <2> QED
    BY <1>6, <2>1, MinIs
<1>8. ASSUME path \in Mentioned
      PROVE  /\ k \in DOMAIN stored /\ path \in DOMAIN stored[k]
             /\ \A m \in 1..k - 1 : path \notin DOMAIN stored[m]
  <2>1. k \in DOMAIN stored /\ path \in DOMAIN stored[k] /\ k \in 1..Len(stored)
    BY <1>5, <1>7, <1>8
  <2>2. ASSUME NEW m \in 1..k - 1, path \in DOMAIN stored[m] PROVE FALSE
    <3>1. m \in 1..Len(stored) /\ ~(k <= m)
      BY <1>5, <2>1
    <3>2. m \in places
      BY <1>5, <2>2, <3>1
    <3> QED
      BY <1>7, <1>8, <3>1, <3>2
  <2> QED
    BY <2>1, <2>2
<1>9. At(InitialState, path, Absent) = IF path \in DOMAIN InitialState THEN InitialState[path] ELSE Absent
  BY DEF At
<1>10. path \in Mentioned => At(InitialState, path, Absent) = stored[k][path].start
  BY <1>3, <1>4, <1>9 DEF Absent
<1>11. path \in DOMAIN InitialState => path \in Path /\ InitialState[path] \in artifacts
  BY <1>3, <1>4, <1>8 DEF ShapeInv, TypeOK
<1> QED
  BY <1>8, <1>10, <1>11

\* What the operations of an exec n make of a state.
LEMMA AfterIs ==
    ASSUME NEW state, NEW rows, NEW path,
           NEW next, next = AfterOperations(state, rows)
    PROVE  /\ (path \notin DOMAIN rows) => At(next, path, Absent) = At(state, path, Absent)
           /\ (path \in DOMAIN rows /\ rows[path].deleted) => At(next, path, Absent) = Absent
           /\ (path \in DOMAIN rows /\ ~rows[path].deleted /\ rows[path].end # NoChecksum) =>
                  At(next, path, Absent) = rows[path].end
           /\ (path \in DOMAIN rows /\ ~rows[path].deleted /\ rows[path].end = NoChecksum
               /\ path \in DOMAIN state) => At(next, path, Absent) = state[path]
           /\ path \in DOMAIN next =>
                  \/ path \in DOMAIN state /\ next[path] = state[path]
                  \/ /\ path \in DOMAIN rows
                     /\ next[path] \in {rows[path].start, rows[path].end} \ {NoChecksum}
<1> DEFINE gone == {p \in DOMAIN rows : rows[p].deleted}
           ended == {p \in DOMAIN rows \ gone : rows[p].end # NoChecksum}
           started == {p \in DOMAIN rows \ (gone \cup ended \cup DOMAIN state) :
                          rows[p].start # NoChecksum}
<1>1. next = [p \in (DOMAIN state \ gone) \cup ended \cup started |->
                 IF p \in ended THEN rows[p].end
                 ELSE IF p \in started THEN rows[p].start ELSE state[p]]
  BY DEF AfterOperations
<1>2. /\ path \in gone <=> path \in DOMAIN rows /\ rows[path].deleted
      /\ path \in ended <=> path \in DOMAIN rows /\ path \notin gone /\ rows[path].end # NoChecksum
      /\ path \in started <=> /\ path \in DOMAIN rows /\ path \notin gone /\ path \notin ended
                              /\ path \notin DOMAIN state /\ rows[path].start # NoChecksum
  OBVIOUS
<1> HIDE DEF gone, ended, started
<1>3. /\ path \in DOMAIN next <=> (path \in DOMAIN state /\ path \notin gone)
                                     \/ path \in ended \/ path \in started
      /\ path \in DOMAIN next =>
             next[path] = IF path \in ended THEN rows[path].end
                          ELSE IF path \in started THEN rows[path].start ELSE state[path]
  BY <1>1
<1> QED
  BY <1>2, <1>3 DEF At

\* All that is rebuilt was recorded.
LEMMA StateShape ==
    ASSUME ShapeInv, NEW exec \in 0..Len(stored), NEW path \in DOMAIN StateAfter(exec)
    PROVE  path \in Path /\ StateAfter(exec)[path] \in artifacts
<1>1. Len(stored) \in Nat /\ DOMAIN stored = 1..Len(stored) /\ exec \in Nat
  BY DEF ShapeInv
<1>2. PICK g : IsRun(g, exec) /\ StateAfter(exec) = g[exec]
  BY <1>1, StateAfterIs
<1> DEFINE Good(n) == path \in DOMAIN g[n] => path \in Path /\ g[n][path] \in artifacts
           T == {n \in 0..exec : ~Good(n)}
<1> SUFFICES ASSUME T # {} PROVE FALSE
  BY <1>1, <1>2
<1>3. T \in SUBSET Nat
  BY <1>1
<1>4. PICK m \in T : \A n \in T : m <= n
  BY <1>3, LeastNat
<1>5. m \in 0..exec /\ ~Good(m)
  OBVIOUS
<1>6. CASE m = 0
  <2>1. g[m] = InitialState
    BY <1>1, <1>2, <1>6 DEF IsRun
  <2> QED
    BY <1>5, <2>1, InitialStateIs
<1>7. CASE m # 0
  <2>1. m - 1 \in 0..exec /\ m - 1 \notin T /\ m \in DOMAIN stored
    BY <1>1, <1>4, <1>5, <1>7
  <2>2. Good(m - 1)
    BY <2>1
  <2>3. g[m] = AfterOperations(g[m - 1], stored[m])
    BY <1>1, <1>2, <1>5, <1>7 DEF IsRun
  <2>4. path \in DOMAIN g[m] =>
            \/ path \in DOMAIN g[m - 1] /\ g[m][path] = g[m - 1][path]
            \/ /\ path \in DOMAIN stored[m]
               /\ g[m][path] \in {stored[m][path].start, stored[m][path].end} \ {NoChecksum}
    BY <2>3, AfterIs
  <2>5. DOMAIN stored[m] \subseteq Path
        /\ \A p \in DOMAIN stored[m] :
              {stored[m][p].start, stored[m][p].end} \subseteq artifacts \cup {NoChecksum}
    BY <2>1 DEF ShapeInv, TypeOK
  <2> QED
    BY <1>5, <2>2, <2>4, <2>5
<1> QED
  BY <1>6, <1>7

\* Exec after exec, the state that is rebuilt follows the snapshots.
LEMMA Rebuilt ==
    ASSUME ShapeInv, RowsInv, NEW exec \in 0..Len(stored),
           NEW path \in Mentioned \cap Root, Plain(path)
    PROVE  At(StateAfter(exec), path, Absent) = snapshots[exec + 1][path]
<1>1. Len(stored) \in Nat /\ DOMAIN stored = 1..Len(stored) /\ exec \in Nat
  BY DEF ShapeInv
<1>2. PICK g : IsRun(g, exec) /\ StateAfter(exec) = g[exec]
  BY <1>1, StateAfterIs
<1> DEFINE Good(n) == At(g[n], path, Absent) = snapshots[n + 1][path]
           T == {n \in 0..exec : ~Good(n)}
<1> SUFFICES ASSUME T # {} PROVE FALSE
  BY <1>1, <1>2
<1>3. T \in SUBSET Nat
  BY <1>1
<1>4. PICK m \in T : \A n \in T : m <= n
  BY <1>3, LeastNat
<1>5. m \in 0..exec /\ ~Good(m)
  OBVIOUS
<1>6. CASE m = 0
  <2>1. g[m] = InitialState
    BY <1>1, <1>2, <1>6 DEF IsRun
  <2>2. PICK k \in DOMAIN stored :
            /\ path \in DOMAIN stored[k] /\ \A n \in 1..k - 1 : path \notin DOMAIN stored[n]
            /\ At(InitialState, path, Absent) = stored[k][path].start
    BY InitialStateIs
  <2>3. stored[k][path].start = snapshots[1][path]
    BY <2>2 DEF RowsInv, FirstTrue
  <2> QED
    BY <1>5, <1>6, <2>1, <2>2, <2>3
<1>7. CASE m # 0
  <2>1. /\ m - 1 \in 0..exec /\ m - 1 \notin T /\ m \in DOMAIN stored
        /\ (m - 1) + 1 = m /\ m \in Nat
    BY <1>1, <1>4, <1>5, <1>7
  <2>2. At(g[m - 1], path, Absent) = snapshots[m][path]
    <3>1. Good(m - 1)
      BY <2>1
    <3> QED
      BY <2>1, <3>1
  <2>3. g[m] = AfterOperations(g[m - 1], stored[m])
    BY <1>1, <1>2, <1>5, <1>7 DEF IsRun
  <2>4. RowTrue(m, path)
    BY <2>1 DEF RowsInv
  <2> DEFINE old == g[m - 1]
             rows == stored[m]
             next == g[m]
  <2>5. /\ (path \notin DOMAIN rows) => At(next, path, Absent) = At(old, path, Absent)
        /\ (path \in DOMAIN rows /\ rows[path].deleted) => At(next, path, Absent) = Absent
        /\ (path \in DOMAIN rows /\ ~rows[path].deleted /\ rows[path].end # NoChecksum) =>
               At(next, path, Absent) = rows[path].end
        /\ (path \in DOMAIN rows /\ ~rows[path].deleted /\ rows[path].end = NoChecksum
            /\ path \in DOMAIN old) => At(next, path, Absent) = old[path]
    BY <2>3, AfterIs
  <2>6. At(old, path, Absent) = IF path \in DOMAIN old THEN old[path] ELSE Absent
    BY DEF At
  <2>7. At(next, path, Absent) = snapshots[m + 1][path]
    <3>1. CASE path \notin DOMAIN rows
      BY <2>2, <2>4, <2>5, <3>1 DEF RowTrue
    <3>2. CASE path \in DOMAIN rows /\ rows[path].deleted
      BY <2>4, <2>5, <3>2 DEF RowTrue
    <3>3. CASE path \in DOMAIN rows /\ ~rows[path].deleted /\ rows[path].end # NoChecksum
      BY <2>4, <2>5, <3>3 DEF RowTrue
    <3>4. CASE path \in DOMAIN rows /\ ~rows[path].deleted /\ rows[path].end = NoChecksum
      <4>1. snapshots[m + 1][path] = snapshots[m][path] /\ snapshots[m][path] # Absent
        BY <2>4, <3>4 DEF RowTrue
      <4> QED
        BY <2>2, <2>5, <2>6, <3>4, <4>1
    <3> QED
      BY <3>1, <3>2, <3>3, <3>4
  <2> QED
    BY <1>5, <2>7
<1> QED
  BY <1>6, <1>7
-----------------------------------------------------------------------------
(* Steps in which no exec takes part. *)

\* While an exec runs, only it and oddities change plain paths.
LEMMA QuietKeeps ==
    ASSUME IInv, UNCHANGED <<execVars, artifacts>>, TypeOK',
           \A path : Plain(path)' => Plain(path),
           \A path \in Path : Plain(path)' => Running = {} \/ workspace'[path] = workspace[path]
    PROVE  ShapeInv' /\ OpsInv' /\ SameInv' /\ GoneInv' /\ ReadInv' /\ BeforeInv' /\ RowsInv'
<1>1. ShapeInv /\ OpsInv /\ SameInv /\ GoneInv /\ ReadInv /\ BeforeInv /\ RowsInv
  BY DEF IInv
<1>2. UNCHANGED <<phase, originals, data, stored, snapshots, artifacts>>
  BY DEF execVars
<1>3. Running' = Running /\ Mentioned' = Mentioned
  BY <1>2 DEF Running, Mentioned
<1>4. /\ \A path : Changers(path)' = Changers(path)
      /\ \A path, e : Original(e, path)' = Original(e, path)
      /\ \A e : Sums(e)' = Sums(e)
  BY <1>2, <1>3 DEF Changers, Original, Sums
<1>5. Root \subseteq Path
  BY RetrieverAssumption
<1>6. ShapeInv'
  BY <1>1, <1>2, <1>3, <1>4 DEF ShapeInv
<1>7. OpsInv'
  BY <1>1, <1>2, <1>4 DEF OpsInv
<1>8. SameInv'
  BY <1>1, <1>2, <1>3, <1>4, <1>5 DEF SameInv
<1>9. GoneInv'
  <2> SUFFICES ASSUME NEW path \in Root, Plain(path)', workspace'[path] = Absent, Changers(path) # {}
               PROVE  \E e \in Running : DeletedIn(data[e], path)
    BY <1>2, <1>3, <1>4 DEF GoneInv
  <2>1. Running # {}
    BY DEF Changers
  <2> QED
    BY <1>1, <1>5, <2>1 DEF GoneInv
<1>10. ReadInv'
  BY <1>1, <1>2, <1>3, <1>4 DEF ReadInv
<1>11. BeforeInv'
  BY <1>1, <1>2, <1>3, <1>4 DEF BeforeInv
<1>12. RowsInv'
  BY <1>1, <1>2 DEF RowsInv, RowTrue, FirstTrue
<1> QED
  BY <1>6, <1>7, <1>8, <1>9, <1>10, <1>11, <1>12

\* A retriever's program counter and record after a step that leaves the execs alone.
LEMMA ElsewhereIs ==
    ASSUME IInv, NEW path \in Path, Elsewhere(path)
    PROVE  /\ retrieval' = [at |-> retrieval.at, exec |-> retrieval.exec, state |-> retrieval.state,
                            path |-> retrieval.path,
                            clear |-> retrieval.clear \ ({path} \cup Above[path])]
           /\ calls' \in 0..MaxCalls /\ retrieval.at # "dead"
           /\ UNCHANGED <<execVars, phase, stored, snapshots, artifacts, lost, wrong>>
           /\ Running' = Running
<1>1. RetrievalInv /\ calls \in 0..MaxCalls /\ MaxCalls \in Nat
  BY RetrieverAssumption DEF IInv, ShapeInv, TypeOK
<1>2. /\ calls < MaxCalls /\ calls' = calls + 1 /\ retrieval.at # "dead"
      /\ retrieval' = [retrieval EXCEPT !.clear = @ \ ({path} \cup Above[path])]
      /\ UNCHANGED <<execVars, artifacts, lost, wrong>>
  BY DEF Elsewhere
<1>3. UNCHANGED <<phase, stored, snapshots>> /\ Running' = Running
  BY <1>2 DEF execVars, Running
<1>4. calls' \in 0..MaxCalls
  BY <1>1, <1>2
<1>5. retrieval = [at |-> retrieval.at, exec |-> retrieval.exec, state |-> retrieval.state,
                   path |-> retrieval.path, clear |-> retrieval.clear]
  BY <1>1 DEF RetrievalInv
<1>6. retrieval' = [at |-> retrieval.at, exec |-> retrieval.exec, state |-> retrieval.state,
                    path |-> retrieval.path,
                    clear |-> retrieval.clear \ ({path} \cup Above[path])]
  BY <1>2, <1>5
<1> QED
  BY <1>2, <1>3, <1>4, <1>6

\* What others do to a path, the retriever no longer answers for.
LEMMA ElsewhereKeeps ==
    ASSUME IInv, NEW path \in Path, Elsewhere(path), \A p : Plain(p)' => Plain(p),
           workspace' \in [Path -> Content \cup {Absent}], odd' \subseteq Oddities \X Path,
           \A p \in Path : p # path => workspace'[p] = workspace[p],
           Running # {} /\ Plain(path)' => workspace'[path] = workspace[path]
    PROVE  IInv'
<1>1. ShapeInv /\ TypeOK /\ RetrievalInv /\ RetrieverDiesOfOthers
  BY DEF IInv, ShapeInv
<1>2. /\ retrieval' = [at |-> retrieval.at, exec |-> retrieval.exec, state |-> retrieval.state,
                       path |-> retrieval.path,
                       clear |-> retrieval.clear \ ({path} \cup Above[path])]
      /\ calls' \in 0..MaxCalls /\ retrieval.at # "dead"
      /\ UNCHANGED <<execVars, phase, stored, snapshots, artifacts, lost, wrong>>
      /\ Running' = Running
  BY ElsewhereIs
<1>3. TypeOK'
  BY <1>1, <1>2 DEF TypeOK
<1>4. ShapeInv' /\ OpsInv' /\ SameInv' /\ GoneInv' /\ ReadInv' /\ BeforeInv' /\ RowsInv'
  BY <1>2, <1>3, QuietKeeps
<1>5. RetrievalInv' /\ RetrieverDiesOfOthers'
  <2>1. CASE retrieval = Nowhere
    <3>1. retrieval' = Nowhere
      BY <1>2, <2>1 DEF Nowhere
    <3> QED
      BY <3>1, IdleKeeps
  <2>2. CASE retrieval # Nowhere
    <3> DEFINE rebuilt == StateAfter(retrieval.exec)
    <3>1. StateAfter(retrieval.exec)' = rebuilt
      BY <1>2, StateAfterStays
    <3>2. /\ retrieval'.at = retrieval.at /\ retrieval'.exec = retrieval.exec
          /\ retrieval'.state = retrieval.state /\ retrieval'.path = retrieval.path
          /\ retrieval'.clear = retrieval.clear \ ({path} \cup Above[path])
      BY <1>2
    <3>3. \A p \in retrieval'.clear : p \in retrieval.clear /\ p \in Path /\ workspace'[p] = workspace[p]
      BY <1>1, <2>2, <3>2 DEF RetrievalInv
    <3>4. \A p \in retrieval'.clear, q \in Path : (q = p \/ p \in Above[q]) => workspace'[q] = workspace[q]
      BY <3>2, <3>3
    <3>5. ASSUME retrieval.at = "copy", retrieval.path \in retrieval'.clear
          PROVE  ~Exists(retrieval.path)'
      <4>1. ~Exists(retrieval.path) /\ retrieval.path \in Path
        BY <1>1, <2>2, <3>2, <3>5 DEF RetrievalInv
      <4> QED
        BY <3>2, <3>4, <3>5, <4>1 DEF Exists, Present
    <3>6. ASSUME NEW p \in retrieval'.clear, Held(p, rebuilt) PROVE Held(p, rebuilt)'
      BY <1>2, <3>1, <3>2, <3>3, <3>6 DEF Held
    <3>7. RetrievalInv'
      <4>1. ASSUME NEW p \in retrieval'.clear
            PROVE  IF p \in DOMAIN retrieval'.state THEN workspace'[p] = Absent ELSE Held(p, rebuilt)'
        BY <1>1, <2>2, <3>2, <3>3, <3>6 DEF RetrievalInv
      <4>2. ASSUME NEW p \in retrieval'.clear, NEW q \in Path, q = p \/ p \in Above[q],
                   workspace'[q] # Absent
            PROVE  q \in DOMAIN rebuilt
        BY <1>1, <2>2, <3>2, <3>3, <3>4, <4>2 DEF RetrievalInv
      <4>3. rebuilt' = StateAfter(retrieval.exec)'
        BY <3>2
      <4>4. /\ Running' = {} /\ retrieval'.exec \in 0..Len(stored')
            /\ retrieval'.clear \subseteq Path
            /\ \A p \in DOMAIN retrieval'.state :
                  /\ retrieval'.state[p] \in artifacts'
                  /\ p \in DOMAIN rebuilt /\ retrieval'.state[p] = rebuilt[p]
            /\ retrieval'.at \in {"copy", "dead"} => retrieval'.path \in DOMAIN retrieval'.state
            /\ retrieval'.at = "done" => DOMAIN retrieval'.state = {}
        BY <1>1, <1>2, <2>2, <3>2 DEF RetrievalInv
      <4>5. (retrieval'.at = "copy" /\ retrieval'.path \in retrieval'.clear) => ~Exists(retrieval.path)'
        BY <3>2, <3>5
      <4>6. retrieval' = [at |-> retrieval'.at, exec |-> retrieval'.exec, state |-> retrieval'.state,
                          path |-> retrieval'.path, clear |-> retrieval'.clear]
        BY <1>2, <3>2
      <4> QED
        BY <3>1, <3>2, <4>1, <4>2, <4>3, <4>4, <4>5, <4>6 DEF RetrievalInv
    <3>8. RetrieverDiesOfOthers'
      BY <1>2, <3>2 DEF RetrieverDiesOfOthers
    <3> QED
      BY <3>7, <3>8
  <2> QED
    BY <2>1, <2>2
<1> QED
  BY <1>4, <1>5 DEF IInv

LEMMA OtherKeeps ==
    ASSUME IInv, NEW path \in Path, NEW c \in Content \cup {Absent}, Other(path, c)
    PROVE  IInv'
<1>1. TypeOK /\ workspace \in [Path -> Content \cup {Absent}]
  BY DEF IInv, ShapeInv, TypeOK
<1>2. /\ workspace' = [workspace EXCEPT ![path] = c]
      /\ odd' = IF Running # {} THEN odd \cup Odd("other", {path}) ELSE odd
      /\ Elsewhere(path)
  BY DEF Other
<1>3. \A p : Plain(p)' => Plain(p)
  BY OddGrows DEF Next
<1>4. /\ workspace' \in [Path -> Content \cup {Absent}]
      /\ \A p \in Path : p # path => workspace'[p] = workspace[p]
  BY <1>1, <1>2
<1>5. odd' \subseteq Oddities \X Path
  BY <1>1, <1>2 DEF TypeOK, Odd, Oddities
<1>6. ASSUME Running # {}, Plain(path)' PROVE workspace'[path] = workspace[path]
  BY <1>2, <1>6 DEF Plain, Odd, Oddities
<1> QED
  BY <1>2, <1>3, <1>4, <1>5, <1>6, ElsewhereKeeps

LEMMA FolderKeeps ==
    ASSUME IInv, NEW path \in Path, OtherFolder(path)
    PROVE  IInv'
<1>1. TypeOK
  BY DEF IInv, ShapeInv
<1>2. Elsewhere(path) /\ UNCHANGED <<workspace, odd>>
  BY DEF OtherFolder
<1>3. \A p : Plain(p)' => Plain(p)
  BY <1>2 DEF Plain
<1> QED
  BY <1>1, <1>2, <1>3, ElsewhereKeeps DEF TypeOK

\* The retriever's own steps.
RetrieverFrames ==
    /\ UNCHANGED <<execVars, artifacts, calls, odd>>
    /\ workspace' \in [Path -> Content \cup {Absent}]
    /\ workspace' = workspace \/ Running = {}

LEMMA RetrieverFrameKeeps ==
    ASSUME IInv, RetrieverFrames, lost' \cup wrong' \subseteq artifacts,
           retrieval'.at \in {"idle", "move", "copy", "done", "dead"},
           DOMAIN retrieval'.state \subseteq Path
    PROVE  ShapeInv' /\ OpsInv' /\ SameInv' /\ GoneInv' /\ ReadInv' /\ BeforeInv' /\ RowsInv'
<1>1. TypeOK
  BY DEF IInv, ShapeInv
<1>2. TypeOK'
  BY <1>1 DEF TypeOK, RetrieverFrames, execVars
<1>3. \A path : Plain(path)' => Plain(path)
  BY DEF RetrieverFrames, Plain
<1> QED
  BY <1>2, <1>3, QuietKeeps DEF RetrieverFrames

LEMMA SpoilKeeps ==
    ASSUME IInv, NEW c \in Content, Spoil(c)
    PROVE  IInv'
<1>1. TypeOK /\ RetrievalInv /\ RetrieverDiesOfOthers
  BY DEF IInv, ShapeInv
<1>2. /\ retrieval.at = "copy" /\ c = retrieval.state[retrieval.path]
      /\ lost \subseteq lost' /\ lost' \subseteq lost \cup {c}
      /\ wrong \subseteq wrong' /\ wrong' \subseteq wrong \cup {c}
      /\ UNCHANGED <<workspace, execVars, artifacts, calls, retrieval, odd>>
  BY DEF Spoil
<1>3. retrieval # Nowhere
  BY <1>2 DEF Nowhere
<1>4. c \in artifacts
  BY <1>1, <1>2, <1>3 DEF RetrievalInv
<1>5. RetrieverFrames
  BY <1>1, <1>2 DEF RetrieverFrames, TypeOK
<1>6. lost' \cup wrong' \subseteq artifacts
  BY <1>1, <1>2, <1>4 DEF TypeOK
<1>7. ShapeInv' /\ OpsInv' /\ SameInv' /\ GoneInv' /\ ReadInv' /\ BeforeInv' /\ RowsInv'
  BY <1>1, <1>2, <1>5, <1>6, RetrieverFrameKeeps DEF TypeOK
<1>8. Running' = Running /\ stored' = stored
  BY <1>2 DEF execVars, Running
<1>9. \A n : StateAfter(n)' = StateAfter(n)
  BY <1>8, StateAfterStays
<1>10. \A path, rebuilt : Held(path, rebuilt) => Held(path, rebuilt)'
  BY <1>2 DEF Held
<1>11. \A path : Exists(path)' = Exists(path)
  BY <1>2 DEF Exists, Present
<1>12. RetrievalInv'
  BY <1>1, <1>2, <1>8, <1>9, <1>10, <1>11 DEF RetrievalInv
<1>13. RetrieverDiesOfOthers'
  BY <1>2 DEF RetrieverDiesOfOthers
<1> QED
  BY <1>7, <1>12, <1>13 DEF IInv

LEMMA RetrieveKeeps ==
    ASSUME IInv, NEW exec \in 0..Len(stored), Retrieve(exec)
    PROVE  IInv'
<1>1. ShapeInv /\ TypeOK
  BY DEF IInv, ShapeInv
<1>2. /\ Running = {}
      /\ retrieval' = [at |-> "move", exec |-> exec, state |-> StateAfter(exec), path |-> Absent,
                       clear |-> {path \in Path : ~Exists(path)}]
      /\ UNCHANGED <<workspace, execVars, artifacts, lost, wrong, calls, odd>>
  BY DEF Retrieve
<1>3. DOMAIN StateAfter(exec) \subseteq Path
      /\ \A path \in DOMAIN StateAfter(exec) : StateAfter(exec)[path] \in artifacts
  BY <1>1, StateShape
<1>4. RetrieverFrames
  BY <1>1, <1>2 DEF RetrieverFrames, TypeOK
<1>5. /\ retrieval'.at = "move" /\ retrieval'.exec = exec /\ retrieval'.state = StateAfter(exec)
      /\ retrieval'.clear = {path \in Path : ~Exists(path)}
  BY <1>2
<1>6. ShapeInv' /\ OpsInv' /\ SameInv' /\ GoneInv' /\ ReadInv' /\ BeforeInv' /\ RowsInv'
  BY <1>1, <1>2, <1>3, <1>4, <1>5, RetrieverFrameKeeps DEF TypeOK
<1>7. Running' = {} /\ stored' = stored
  BY <1>2 DEF execVars, Running
<1>8. \A n : StateAfter(n)' = StateAfter(n)
  BY <1>7, StateAfterStays
<1>9. RetrievalInv'
  <2>1. retrieval' = [at |-> retrieval'.at, exec |-> retrieval'.exec, state |-> retrieval'.state,
                      path |-> retrieval'.path, clear |-> retrieval'.clear]
    BY <1>2
  <2>2. \A path \in retrieval'.clear, q \in Path :
            (q = path \/ path \in Above[q]) => workspace'[q] = Absent
    BY <1>2, <1>5 DEF Exists, Present
  <2>3. \A path \in retrieval'.clear : workspace'[path] = Absent
    BY <1>5, <2>2
  <2>4. \A path \in retrieval'.clear :
            path \notin DOMAIN StateAfter(exec) => Held(path, StateAfter(exec))'
    BY <1>5, <1>8, <2>3 DEF Held
  <2> QED
    BY <1>2, <1>3, <1>5, <1>7, <1>8, <2>1, <2>2, <2>3, <2>4 DEF RetrievalInv
<1>10. RetrieverDiesOfOthers'
  BY <1>5 DEF RetrieverDiesOfOthers
<1> QED
  BY <1>6, <1>9, <1>10 DEF IInv

Retrieving(at, state, path) ==
    [at |-> at, exec |-> retrieval.exec, state |-> state, path |-> path, clear |-> retrieval.clear]

\* A step of a retriever on its way drops paths from the state it rebuilds, and
\* those among them that nobody touched are held.
LEMMA MoveKeeps ==
    ASSUME IInv, retrieval.at \in {"move", "copy"}, RetrieverFrames, UNCHANGED <<lost, wrong>>,
           NEW at \in {"move", "copy", "done", "dead"}, NEW state, NEW place,
           retrieval' = Retrieving(at, state, place),
           DOMAIN state \subseteq DOMAIN retrieval.state,
           \A path \in DOMAIN state : state[path] = retrieval.state[path],
           \A path \in Path : workspace'[path] = workspace[path]
                              \/ path \in DOMAIN retrieval.state \ DOMAIN state,
           \A path \in retrieval.clear \cap (DOMAIN retrieval.state \ DOMAIN state) :
               Held(path, StateAfter(retrieval.exec))',
           at \in {"copy", "dead"} => place \in DOMAIN state,
           at = "copy" => ~Exists(place)',
           at = "done" => DOMAIN state = {},
           RetrieverDiesOfOthers'
    PROVE  IInv'
<1>1. TypeOK /\ RetrievalInv
  BY DEF IInv, ShapeInv
<1>2. retrieval # Nowhere
  BY DEF Nowhere
<1>3. retrieval' = [at |-> at, exec |-> retrieval.exec, state |-> state, path |-> place,
                    clear |-> retrieval.clear]
  BY DEF Retrieving
<1>4. /\ retrieval'.at = at /\ retrieval'.exec = retrieval.exec /\ retrieval'.state = state
      /\ retrieval'.path = place /\ retrieval'.clear = retrieval.clear
  BY <1>3
<1>5. DOMAIN state \subseteq Path
  BY <1>1 DEF TypeOK
<1>6. lost' \cup wrong' \subseteq artifacts
  BY <1>1 DEF TypeOK
<1>7. ShapeInv' /\ OpsInv' /\ SameInv' /\ GoneInv' /\ ReadInv' /\ BeforeInv' /\ RowsInv'
  BY <1>4, <1>5, <1>6, RetrieverFrameKeeps
<1>8. Running' = Running /\ stored' = stored /\ artifacts' = artifacts
  BY DEF RetrieverFrames, execVars, Running
<1>9. StateAfter(retrieval.exec)' = StateAfter(retrieval.exec)
  BY <1>4, <1>8, StateAfterStays
<1>10. RetrievalInv'
  <2> DEFINE rebuilt == StateAfter(retrieval.exec)
  <2>1. /\ Running = {} /\ retrieval.exec \in 0..Len(stored)
        /\ retrieval.clear \subseteq Path
        /\ \A path \in DOMAIN retrieval.state :
              /\ retrieval.state[path] \in artifacts
              /\ path \in DOMAIN rebuilt /\ retrieval.state[path] = rebuilt[path]
        /\ \A path \in retrieval.clear :
              IF path \in DOMAIN retrieval.state THEN workspace[path] = Absent
              ELSE Held(path, rebuilt)
        /\ \A path \in retrieval.clear, q \in Path :
              (q = path \/ path \in Above[q]) /\ workspace[q] # Absent => q \in DOMAIN rebuilt
    BY <1>1, <1>2 DEF RetrievalInv
  <2>2. ASSUME NEW path \in retrieval.clear
        PROVE  IF path \in DOMAIN state THEN workspace'[path] = Absent ELSE Held(path, rebuilt)'
    <3>1. CASE path \in DOMAIN state
      BY <2>1, <3>1
    <3>2. CASE path \in DOMAIN retrieval.state \ DOMAIN state
      BY <2>2, <3>2
    <3>3. CASE path \notin DOMAIN retrieval.state
      <4>1. Held(path, rebuilt) /\ workspace'[path] = workspace[path]
        BY <2>1, <3>3
      <4>2. rebuilt' = rebuilt
        BY <1>4, <1>9
      <4> QED
        BY <3>3, <4>1, <4>2 DEF Held
    <3> QED
      BY <3>1, <3>2, <3>3
  <2>3. ASSUME NEW path \in retrieval.clear, NEW q \in Path, q = path \/ path \in Above[q],
               workspace'[q] # Absent
        PROVE  q \in DOMAIN rebuilt
    BY <2>1, <2>3
  <2>4. StateAfter(retrieval.exec)' = rebuilt
    BY <1>9
  <2>5. /\ \A path \in DOMAIN state :
              /\ state[path] \in artifacts'
              /\ path \in DOMAIN rebuilt /\ state[path] = rebuilt[path]
        /\ Running' = {} /\ retrieval.exec \in 0..Len(stored') /\ retrieval.clear \subseteq Path
    BY <1>8, <2>1
  <2>6. at = "copy" => ~Exists(retrieval.path)'
    BY <1>4
  <2>7. rebuilt' = StateAfter(retrieval.exec)' /\ rebuilt' = rebuilt
    BY <1>9
  <2> HIDE DEF rebuilt
  <2>8. /\ Running' = {} /\ retrieval'.exec \in 0..Len(stored') /\ retrieval'.clear \subseteq Path
        /\ \A path \in DOMAIN retrieval'.state :
              /\ retrieval'.state[path] \in artifacts'
              /\ path \in DOMAIN rebuilt' /\ retrieval'.state[path] = rebuilt'[path]
        /\ retrieval'.at \in {"copy", "dead"} => retrieval'.path \in DOMAIN retrieval'.state
        /\ (retrieval'.at = "copy" /\ retrieval'.path \in retrieval'.clear) => ~Exists(retrieval.path)'
        /\ retrieval'.at = "done" => DOMAIN retrieval'.state = {}
    BY <1>4, <2>5, <2>6, <2>7
  <2>9. /\ \A path \in retrieval'.clear :
              IF path \in DOMAIN retrieval'.state THEN workspace'[path] = Absent ELSE Held(path, rebuilt)'
        /\ \A path \in retrieval'.clear, q \in Path :
              (q = path \/ path \in Above[q]) /\ workspace'[q] # Absent => q \in DOMAIN rebuilt'
    BY <1>4, <2>2, <2>3, <2>7
  <2> QED
    BY <1>3, <1>4, <2>7, <2>8, <2>9 DEF RetrievalInv
<1> QED
  BY <1>7, <1>10 DEF IInv

LEMMA WithoutIs ==
    ASSUME NEW map, NEW key
    PROVE  /\ DOMAIN Without(map, key) = DOMAIN map \ {key}
           /\ \A k \in DOMAIN map \ {key} : Without(map, key)[k] = map[k]
  BY DEF Without, Restrict

\* What a retriever on its way knows.
LEMMA OnItsWay ==
    ASSUME IInv, retrieval.at \in {"move", "copy"}
    PROVE  /\ Running = {} /\ retrieval.exec \in 0..Len(stored)
           /\ retrieval.clear \subseteq Path /\ DOMAIN retrieval.state \subseteq Path
           /\ \A path \in DOMAIN retrieval.state :
                 /\ retrieval.state[path] \in artifacts
                 /\ path \in DOMAIN StateAfter(retrieval.exec)
                 /\ retrieval.state[path] = StateAfter(retrieval.exec)[path]
           /\ \A path \in retrieval.clear \cap DOMAIN retrieval.state : workspace[path] = Absent
           /\ \A path \in retrieval.clear, q \in Path :
                 (q = path \/ path \in Above[q]) /\ workspace[q] # Absent =>
                     q \in DOMAIN StateAfter(retrieval.exec)
           /\ retrieval.at = "copy" =>
                 /\ retrieval.path \in DOMAIN retrieval.state
                 /\ retrieval.path \in retrieval.clear => ~Exists(retrieval.path)
           /\ retrieval = [at |-> retrieval.at, exec |-> retrieval.exec, state |-> retrieval.state,
                           path |-> retrieval.path, clear |-> retrieval.clear]
           /\ workspace \in [Path -> Content \cup {Absent}]
           /\ artifacts \subseteq Content
<1>1. retrieval # Nowhere
  BY DEF Nowhere
<1> QED
  BY <1>1 DEF IInv, ShapeInv, TypeOK, RetrievalInv

\* Of two paths the record tells of, one below the other, only one is rebuilt.
LEMMA NotBoth ==
    ASSUME IInv, TreeInv, NEW exec \in 0..Len(stored), NEW path \in Sure, NEW q \in Sure,
           q \in Above[path]
    PROVE  path \notin DOMAIN StateAfter(exec) \/ q \notin DOMAIN StateAfter(exec)
<1>1. ShapeInv /\ RowsInv
  BY DEF IInv
<1>2. /\ At(StateAfter(exec), path, Absent) = snapshots[exec + 1][path]
      /\ At(StateAfter(exec), q, Absent) = snapshots[exec + 1][q]
  BY <1>1, Rebuilt DEF Sure
<1>3. exec + 1 \in DOMAIN snapshots
  <2>1. Len(stored) \in Nat /\ Len(snapshots) = IF snapshots = << >> THEN 0 ELSE Len(stored) + 1
    BY <1>1 DEF ShapeInv, TypeOK
  <2>2. snapshots # << >>
    <3>1. stored # << >>
      BY <1>1 DEF Sure, Mentioned
    <3> QED
      BY <1>1, <3>1 DEF ShapeInv
  <2> QED
    BY <1>1, <2>1, <2>2 DEF ShapeInv
<1>4. path \in Path
  BY RetrieverAssumption DEF Sure
<1>5. snapshots[exec + 1][path] = Absent \/ snapshots[exec + 1][q] = Absent
  BY <1>3, <1>4 DEF TreeInv, TreeOf
<1>6. \A p \in DOMAIN StateAfter(exec) : StateAfter(exec)[p] # Absent
  BY <1>1, StateShape, RetrieverAssumption DEF ShapeInv, TypeOK
<1> QED
  BY <1>2, <1>5, <1>6 DEF At

\* A file where a directory should be was there, came, or was rebuilt by mistake.
LEMMA InTheWay ==
    ASSUME IInv, TreeInv, retrieval.at \in {"move", "copy"},
           NEW path \in DOMAIN retrieval.state, NEW q \in Present(Above[path])
    PROVE  q \notin retrieval.clear \/ {q, path} \cap Sure # {q, path}
<1> SUFFICES ASSUME q \in retrieval.clear, {q, path} \cap Sure = {q, path} PROVE FALSE
  OBVIOUS
<1>1. path \in Path /\ q \in Above[path] /\ workspace[q] # Absent
  BY OnItsWay DEF Present
<1>2. q \in Path
  BY <1>1, RetrieverAssumption
<1>3. path \in DOMAIN StateAfter(retrieval.exec) /\ q \in DOMAIN StateAfter(retrieval.exec)
  BY <1>1, <1>2, OnItsWay
<1>4. path \in Sure /\ q \in Sure
  OBVIOUS
<1> QED
  BY <1>1, <1>3, <1>4, OnItsWay, NotBoth

LEMMA MoveDiesKeeps ==
    ASSUME IInv, TreeInv, NEW path \in Path, MoveDies(path)
    PROVE  IInv'
<1>1. /\ retrieval.at = "move" /\ path \in DOMAIN retrieval.state /\ ~Rootable(path)
      /\ UNCHANGED <<workspace, execVars, artifacts, lost, wrong, calls, odd>>
      /\ retrieval' = [retrieval EXCEPT !.at = "dead", !.path = path]
  BY DEF MoveDies, Moving
<1>2. retrieval' = Retrieving("dead", retrieval.state, path)
  BY <1>1, OnItsWay DEF Retrieving
<1>3. RetrieverFrames
  BY <1>1, OnItsWay DEF RetrieverFrames
<1>4. RetrieverDiesOfOthers'
  <2>1. /\ retrieval'.at = "dead" /\ retrieval'.path = path /\ retrieval'.clear = retrieval.clear
        /\ retrieval'.state = retrieval.state
    BY <1>2 DEF Retrieving
  <2>2. Sure' = Sure /\ Present(Above[path])' = Present(Above[path])
    BY <1>1 DEF Sure, Mentioned, Plain, Present, execVars
  <2>3. path \in Bare \/ \E q \in Present(Above[path]) :
                             q \notin retrieval.clear \/ {q, path} \cap Sure # {q, path}
    BY <1>1, InTheWay DEF Rootable
  <2> QED
    BY <2>1, <2>2, <2>3 DEF RetrieverDiesOfOthers
<1> QED
  BY <1>1, <1>2, <1>3, <1>4, MoveKeeps

LEMMA MoveSkipsKeeps ==
    ASSUME IInv, NEW path \in Path, MoveSkips(path)
    PROVE  IInv'
<1> DEFINE place == retrieval.path
           state == Without(retrieval.state, path)
<1>1. /\ retrieval.at = "move" /\ path \in DOMAIN retrieval.state
      /\ Exists(path) \/ path \notin retrieval.clear
      /\ UNCHANGED <<workspace, execVars, artifacts, lost, wrong, calls, odd>>
      /\ retrieval' = [retrieval EXCEPT !.state = state]
  BY DEF MoveSkips, Moving
<1>2. retrieval' = Retrieving("move", state, place)
  BY <1>1, OnItsWay DEF Retrieving
<1>3. DOMAIN state = DOMAIN retrieval.state \ {path}
      /\ \A p \in DOMAIN state : state[p] = retrieval.state[p]
  BY WithoutIs
<1>4. RetrieverFrames
  BY <1>1, OnItsWay DEF RetrieverFrames
<1>5. ASSUME path \in retrieval.clear PROVE Held(path, StateAfter(retrieval.exec))'
  <2>1. workspace[path] = Absent /\ path \in DOMAIN StateAfter(retrieval.exec)
    BY <1>1, <1>5, OnItsWay
  <2>2. PICK q \in Path : path \in Above[q] /\ workspace[q] # Absent
    BY <1>1, <1>5, <2>1 DEF Exists, Present
  <2>3. q \in DOMAIN StateAfter(retrieval.exec)
    BY <1>1, <1>5, <2>2, OnItsWay
  <2>4. retrieval'.exec = retrieval.exec
    BY <1>2 DEF Retrieving
  <2>5. StateAfter(retrieval.exec)' = StateAfter(retrieval.exec)
    BY <1>1, <2>4, StateAfterStays DEF execVars
  <2> QED
    BY <2>1, <2>2, <2>3, <2>5 DEF Held
<1>6. RetrieverDiesOfOthers'
  BY <1>2 DEF RetrieverDiesOfOthers, Retrieving
<1> HIDE DEF state, place
<1>7. \A p \in retrieval.clear \cap (DOMAIN retrieval.state \ DOMAIN state) :
          Held(p, StateAfter(retrieval.exec))'
  BY <1>3, <1>5
<1> QED
  BY <1>1, <1>2, <1>3, <1>4, <1>6, <1>7, MoveKeeps

LEMMA MoveFindsKeeps ==
    ASSUME IInv, NEW path \in Path, MoveFinds(path)
    PROVE  IInv'
<1>1. /\ retrieval.at = "move" /\ path \in DOMAIN retrieval.state /\ ~Exists(path)
      /\ UNCHANGED <<workspace, execVars, artifacts, lost, wrong, calls, odd>>
      /\ retrieval' = [retrieval EXCEPT !.at = "copy", !.path = path]
  BY DEF MoveFinds, Moving
<1>2. retrieval' = Retrieving("copy", retrieval.state, path)
  BY <1>1, OnItsWay DEF Retrieving
<1>3. RetrieverFrames
  BY <1>1, OnItsWay DEF RetrieverFrames
<1>4. RetrieverDiesOfOthers'
  BY <1>2 DEF RetrieverDiesOfOthers, Retrieving
<1>5. ~Exists(path)'
  BY <1>1 DEF Exists, Present
<1> QED
  BY <1>1, <1>2, <1>3, <1>4, <1>5, MoveKeeps

LEMMA MoveCopiesKeeps ==
    ASSUME IInv, NEW c \in Content, MoveCopies(c)
    PROVE  IInv'
<1> DEFINE place == retrieval.path
           state == Without(retrieval.state, place)
<1>1. /\ retrieval.at = "copy" /\ retrieval.state[place] \in wrong \cup {c}
      /\ workspace' = [workspace EXCEPT ![place] = c]
      /\ UNCHANGED <<execVars, artifacts, lost, wrong, calls, odd>>
      /\ retrieval' = [retrieval EXCEPT !.at = "move", !.state = state]
  BY DEF MoveCopies
<1>2. retrieval' = Retrieving("move", state, place)
  BY <1>1, OnItsWay DEF Retrieving
<1>3. place \in DOMAIN retrieval.state /\ place \in Path
  BY <1>1, OnItsWay
<1>4. DOMAIN state = DOMAIN retrieval.state \ {place}
      /\ \A p \in DOMAIN state : state[p] = retrieval.state[p]
  BY WithoutIs
<1>5. /\ workspace' \in [Path -> Content \cup {Absent}] /\ workspace'[place] = c
      /\ \A p \in Path : p # place => workspace'[p] = workspace[p]
  BY <1>1, <1>3, OnItsWay
<1>6. RetrieverFrames
  BY <1>1, <1>5, OnItsWay DEF RetrieverFrames
<1>7. Held(place, StateAfter(retrieval.exec))'
  <2>1. /\ place \in DOMAIN StateAfter(retrieval.exec)
        /\ retrieval.state[place] = StateAfter(retrieval.exec)[place]
    BY <1>1, <1>3, OnItsWay
  <2>2. retrieval'.exec = retrieval.exec /\ retrieval'.path = retrieval.path
    BY <1>2 DEF Retrieving
  <2>3. StateAfter(retrieval.exec)' = StateAfter(retrieval.exec)
    BY <1>1, <2>2, StateAfterStays DEF execVars
  <2>4. place' = place
    BY <2>2
  <2> QED
    BY <1>1, <1>5, <2>1, <2>3, <2>4 DEF Held
<1>8. RetrieverDiesOfOthers'
  BY <1>2 DEF RetrieverDiesOfOthers, Retrieving
<1> HIDE DEF state
<1>9. \A p \in retrieval.clear \cap (DOMAIN retrieval.state \ DOMAIN state) :
          Held(p, StateAfter(retrieval.exec))'
  <2>1. place' = place
    BY <1>2 DEF Retrieving
  <2> QED
    BY <1>4, <1>7, <2>1
<1>10. \A p \in Path : workspace'[p] = workspace[p] \/ p \in DOMAIN retrieval.state \ DOMAIN state
  BY <1>3, <1>4, <1>5
<1> QED
  BY <1>1, <1>2, <1>4, <1>6, <1>8, <1>9, <1>10, MoveKeeps

LEMMA MoveThrowsKeeps ==
    ASSUME IInv, TreeInv, MoveThrows
    PROVE  IInv'
<1> DEFINE place == retrieval.path
<1>1. /\ ~Copyable \/ place \notin retrieval.clear
      /\ UNCHANGED <<workspace, execVars, artifacts, lost, wrong, calls, odd>>
      /\ retrieval' = [retrieval EXCEPT !.at = "dead"]
  BY DEF MoveThrows
<1>2. retrieval.at = "copy"
  BY DEF MoveThrows
<1>3. retrieval' = Retrieving("dead", retrieval.state, place)
  BY <1>1, <1>2, OnItsWay DEF Retrieving
<1>4. RetrieverFrames
  BY <1>1, <1>2, OnItsWay DEF RetrieverFrames
<1>5. RetrieverDiesOfOthers'
  <2>1. /\ retrieval'.at = "dead" /\ retrieval'.path = place /\ retrieval'.clear = retrieval.clear
        /\ retrieval'.state = retrieval.state
    BY <1>3 DEF Retrieving
  <2>2. Sure' = Sure /\ Present(Above[retrieval.path])' = Present(Above[place])
    BY <1>1, <2>1 DEF Sure, Mentioned, Plain, Present, execVars
  <2>3. \/ retrieval.state[place] \in lost
        \/ place \notin retrieval.clear
        \/ \E q \in Present(Above[place]) : q \notin retrieval.clear \/ {q, place} \cap Sure # {q, place}
    <3> SUFFICES ASSUME retrieval.state[place] \notin lost, place \in retrieval.clear
                 PROVE  \E q \in Present(Above[place]) :
                            q \notin retrieval.clear \/ {q, place} \cap Sure # {q, place}
      OBVIOUS
    <3>1. place \in DOMAIN retrieval.state /\ retrieval.state[place] \in artifacts /\ ~Exists(place)
      BY <1>2, OnItsWay
    <3>2. ~Room(place)
      BY <1>1, <3>1 DEF Copyable, Exists
    <3>3. PICK q \in Present(Above[place]) : TRUE
      BY <3>1, <3>2 DEF Room, Exists
    <3> QED
      BY <1>2, <3>1, <3>3, InTheWay
  <2> QED
    BY <1>1, <2>1, <2>2, <2>3 DEF RetrieverDiesOfOthers
<1>6. place \in DOMAIN retrieval.state
  BY <1>2, OnItsWay
<1> QED
  BY <1>1, <1>2, <1>3, <1>4, <1>5, <1>6, MoveKeeps

LEMMA RetrievedKeeps ==
    ASSUME IInv, Retrieved
    PROVE  IInv'
<1>1. /\ retrieval.at = "move" /\ DOMAIN retrieval.state = {}
      /\ UNCHANGED <<workspace, execVars, artifacts, lost, wrong, calls, odd>>
      /\ retrieval' = [retrieval EXCEPT !.at = "done"]
  BY DEF Retrieved
<1>2. retrieval' = Retrieving("done", retrieval.state, retrieval.path)
  BY <1>1, OnItsWay DEF Retrieving
<1>3. RetrieverFrames
  BY <1>1, OnItsWay DEF RetrieverFrames
<1>4. RetrieverDiesOfOthers'
  BY <1>2 DEF RetrieverDiesOfOthers, Retrieving
<1> QED
  BY <1>1, <1>2, <1>3, <1>4, MoveKeeps
-----------------------------------------------------------------------------
(* The tree. *)

LEMMA TreeWith ==
    ASSUME IInv, TreeOf(workspace), NEW path \in Path, NEW c, c = Absent \/ Room(path),
           NEW files, files = [workspace EXCEPT ![path] = c]
    PROVE  TreeOf(files)
<1>1. workspace \in [Path -> Content \cup {Absent}]
  BY DEF IInv, ShapeInv, TypeOK
<1> SUFFICES ASSUME NEW p \in Path, NEW q \in Above[p], files[p] # Absent, files[q] # Absent
             PROVE  FALSE
  BY DEF TreeOf
<1>2. q \in Path /\ p # q
  BY RetrieverAssumption
<1>3. \A r \in Path : files[r] = IF r = path THEN c ELSE workspace[r]
  BY <1>1
<1> QED
  BY <1>2, <1>3 DEF TreeOf, Room, Present

LEMMA TreeWithout ==
    ASSUME NEW files \in [Path -> Content \cup {Absent}], TreeOf(files), NEW path \in Path,
           NEW rest, rest = [files EXCEPT ![path] = Absent]
    PROVE  TreeOf(rest)
<1>1. \A r \in Path : rest[r] = IF r = path THEN Absent ELSE files[r]
  OBVIOUS
<1>2. \A p \in Path : Above[p] \subseteq Path
  BY RetrieverAssumption
<1> QED
  BY <1>1, <1>2 DEF TreeOf

LEMMA CallKeepsTree ==
    ASSUME IInv, TreeInv, NEW e \in Exec, NEW i \in Id, CommandCall(e, i)
    PROVE  TreeInv'
<1>1. workspace \in [Path -> Content \cup {Absent}] /\ TreeOf(workspace)
  BY DEF IInv, ShapeInv, TypeOK, TreeInv
<1>2. PICK path \in Path :
        \/ Read(e, i, path) \/ Unlink(e, i, path)
        \/ \E c \in Content : Write(e, i, path, c)
        \/ \E to \in Path : Rename(e, i, path, to) \/ Transfer(e, i, path, to)
  BY DEF CommandCall
<1>3. \A event, files : Call(e, i, event, files) => workspace' = files /\ snapshots' = snapshots
  BY DEF Call
<1>4. snapshots' = snapshots /\ TreeOf(workspace')
  <2>1. CASE Read(e, i, path)
    BY <1>1, <1>3, <2>1 DEF Read
  <2>2. CASE Unlink(e, i, path)
    <3>1. workspace' = [workspace EXCEPT ![path] = Absent] /\ snapshots' = snapshots
      BY <1>3, <2>2 DEF Unlink
    <3>2. TreeOf(workspace')
      BY <1>1, <3>1, TreeWithout
    <3> QED
      BY <3>1, <3>2
  <2>3. ASSUME NEW c \in Content, Write(e, i, path, c) PROVE snapshots' = snapshots /\ TreeOf(workspace')
    <3>1. workspace' = [workspace EXCEPT ![path] = c] /\ snapshots' = snapshots /\ Room(path)
      BY <1>3, <2>3 DEF Write
    <3> QED
      BY <1>1, <3>1, TreeWith
  <2>4. ASSUME NEW to \in Path, Rename(e, i, path, to) PROVE snapshots' = snapshots /\ TreeOf(workspace')
    <3> DEFINE first == [workspace EXCEPT ![to] = workspace[path]]
    <3>1. workspace' = [first EXCEPT ![path] = Absent] /\ snapshots' = snapshots /\ Room(to)
      BY <1>3, <2>4 DEF Rename
    <3>2. TreeOf(first)
      BY <1>1, <3>1, TreeWith
    <3>3. first \in [Path -> Content \cup {Absent}]
      BY <1>1
    <3> HIDE DEF first
    <3> QED
      BY <3>1, <3>2, <3>3, TreeWithout
  <2>5. ASSUME NEW to \in Path, Transfer(e, i, path, to) PROVE snapshots' = snapshots /\ TreeOf(workspace')
    <3>1. workspace' = [workspace EXCEPT ![to] = workspace[path]] /\ snapshots' = snapshots /\ Room(to)
      BY <1>3, <2>5 DEF Transfer
    <3> QED
      BY <1>1, <3>1, TreeWith
  <2> QED
    BY <1>2, <2>1, <2>2, <2>3, <2>4, <2>5
<1> QED
  BY <1>4 DEF TreeInv

LEMMA TreeKeeps ==
    ASSUME IInv, TreeInv, [Next]_vars
    PROVE  TreeInv'
<1>1. /\ workspace \in [Path -> Content \cup {Absent}] /\ TreeOf(workspace)
      /\ snapshots \in Seq([Path -> Content \cup {Absent}])
      /\ \A n \in DOMAIN snapshots : TreeOf(snapshots[n])
  BY DEF IInv, ShapeInv, TypeOK, TreeInv
<1>2. CASE \E e \in Exec : Begin(e)
  <2>1. workspace' = workspace /\ snapshots' = IF snapshots = << >> THEN <<workspace>> ELSE snapshots
    BY <1>2 DEF Begin
  <2> QED
    BY <1>1, <2>1 DEF TreeInv
<1>3. CASE \E e \in Exec : End(e)
  <2>1. workspace' = workspace /\ snapshots' = Append(snapshots, workspace)
    BY <1>3 DEF End
  <2>2. \A n \in DOMAIN snapshots' :
            snapshots'[n] = workspace \/ (n \in DOMAIN snapshots /\ snapshots'[n] = snapshots[n])
    BY <1>1, <2>1
  <2> QED
    BY <1>1, <2>1, <2>2 DEF TreeInv
<1>4. CASE \E e \in Exec : \E i \in Id : CommandCall(e, i)
  BY <1>4, CallKeepsTree
<1>5. ASSUME NEW path \in Path, NEW c \in Content \cup {Absent}, Other(path, c) PROVE TreeInv'
  <2>1. /\ workspace' = [workspace EXCEPT ![path] = c] /\ (c = Absent \/ Room(path))
        /\ snapshots' = snapshots
    BY <1>5 DEF Other, Elsewhere, execVars
  <2>2. TreeOf(workspace')
    BY <1>1, <2>1, TreeWith
  <2> QED
    BY <1>1, <2>1, <2>2 DEF TreeInv
<1>6. ASSUME NEW c \in Content, MoveCopies(c) PROVE TreeInv'
  <2>1. /\ workspace' = [workspace EXCEPT ![retrieval.path] = c] /\ Room(retrieval.path)
        /\ snapshots' = snapshots /\ retrieval.at = "copy"
    BY <1>6 DEF MoveCopies, Copyable, execVars
  <2>2. retrieval.path \in Path
    BY <2>1, OnItsWay
  <2>3. TreeOf(workspace')
    BY <1>1, <2>1, <2>2, TreeWith
  <2> QED
    BY <1>1, <2>1, <2>3 DEF TreeInv
<1>7. ASSUME workspace' = workspace, snapshots' = snapshots PROVE TreeInv'
  BY <1>1, <1>7 DEF TreeInv
<1>8. CASE \/ \E path \in Path : OtherFolder(path)
           \/ \E c \in Content : Spoil(c)
           \/ \E exec \in 0..Len(stored) : Retrieve(exec)
           \/ MoveThrows \/ Retrieved \/ UNCHANGED vars
  BY <1>7, <1>8 DEF OtherFolder, Elsewhere, Spoil, Retrieve, MoveThrows, Retrieved, vars, execVars
<1>9. CASE \E path \in Path : MoveDies(path) \/ MoveSkips(path) \/ MoveFinds(path)
  BY <1>7, <1>9 DEF MoveDies, MoveSkips, MoveFinds, Moving, execVars
<1> QED
  BY <1>2, <1>3, <1>4, <1>5, <1>6, <1>8, <1>9 DEF Next
-----------------------------------------------------------------------------
LEMMA InitHolds == ASSUME Init PROVE IInv
<1>1. /\ workspace = FirstContent /\ phase = [e \in Exec |-> "new"]
      /\ originals = [e \in Exec |-> << >>] /\ data = [e \in Exec |-> Nothing]
      /\ stored = << >> /\ artifacts = {} /\ lost = {} /\ wrong = {} /\ calls = 0
      /\ retrieval = Nowhere /\ snapshots = << >> /\ odd = {}
  BY DEF Init
<1>2. FirstContent \in [Path -> Content \cup {Absent}] /\ MaxCalls \in Nat
  BY RetrieverAssumption
<1>3. Running = {}
  BY <1>1 DEF Running
<1>4. \A path : Changers(path) = {}
  BY <1>3 DEF Changers
<1>5. retrieval.at = "idle" /\ DOMAIN retrieval.state = {}
  BY <1>1 DEF Nowhere
<1>6. TypeOK
  BY <1>1, <1>2, <1>5 DEF TypeOK
<1>7. \A e \in Exec : DOMAIN originals[e] = {} /\ Sums(e) = {NoChecksum}
  BY <1>1 DEF Sums
<1>8. ShapeInv
  <2>1. stored \in Seq(Rows) /\ snapshots \in Seq([Path -> Content \cup {Absent}])
    BY <1>1
  <2>2. \A e \in Exec : data[e] = Nothing /\ DataOK(data[e], Sums(e))
    BY <1>1, NothingIs
  <2>3. DOMAIN data = Exec /\ DOMAIN originals = Exec
    BY <1>1
  <2> QED
    BY <1>1, <1>3, <1>6, <1>7, <2>1, <2>2, <2>3 DEF ShapeInv
<1>9. OpsInv
  BY <1>1, NothingIs DEF OpsInv
<1>10. SameInv /\ GoneInv /\ ReadInv /\ BeforeInv /\ RowsInv
  BY <1>1, <1>3, <1>4 DEF SameInv, GoneInv, ReadInv, BeforeInv, RowsInv
<1>11. RetrievalInv /\ RetrieverDiesOfOthers
  BY <1>1, <1>5 DEF RetrievalInv, RetrieverDiesOfOthers, Nowhere
<1> QED
  BY <1>8, <1>9, <1>10, <1>11 DEF IInv

LEMMA StutterKeeps == ASSUME IInv, UNCHANGED vars PROVE IInv'
<1>1. /\ UNCHANGED <<execVars, artifacts, workspace, lost, wrong, calls, retrieval, odd>>
      /\ UNCHANGED <<phase, stored>>
  BY DEF vars, execVars
<1>2. TypeOK /\ RetrievalInv /\ RetrieverDiesOfOthers
  BY DEF IInv, ShapeInv
<1>3. RetrieverFrames
  BY <1>1, <1>2 DEF RetrieverFrames, TypeOK
<1>4. ShapeInv' /\ OpsInv' /\ SameInv' /\ GoneInv' /\ ReadInv' /\ BeforeInv' /\ RowsInv'
  BY <1>1, <1>2, <1>3, RetrieverFrameKeeps DEF TypeOK
<1>5. Running' = Running /\ \A n : StateAfter(n)' = StateAfter(n)
  BY <1>1, StateAfterStays DEF Running
<1>6. RetrievalInv'
  <2>1. \A path, rebuilt : Held(path, rebuilt)' <=> Held(path, rebuilt)
    BY <1>1 DEF Held
  <2>2. \A path : Exists(path)' <=> Exists(path)
    BY <1>1 DEF Exists, Present
  <2> QED
    BY <1>1, <1>2, <1>5, <2>1, <2>2 DEF RetrievalInv
<1>7. RetrieverDiesOfOthers'
  <2>1. Sure' = Sure /\ \A paths : Present(paths)' = Present(paths)
    BY <1>1 DEF Sure, Mentioned, Plain, Present
  <2> QED
    BY <1>1, <1>2, <2>1 DEF RetrieverDiesOfOthers
<1> QED
  BY <1>4, <1>6, <1>7 DEF IInv

LEMMA StepHolds == ASSUME IInv, TreeInv, [Next]_vars PROVE IInv'
<1>1. CASE \E e \in Exec : Begin(e)
  BY <1>1, BeginKeeps
<1>2. CASE \E e \in Exec : End(e)
  BY <1>2, EndKeeps
<1>3. CASE \E e \in Exec : \E i \in Id : CommandCall(e, i)
  BY <1>3, CallKeeps
<1>4. CASE \E path \in Path : \E c \in Content \cup {Absent} : Other(path, c)
  BY <1>4, OtherKeeps
<1>5. CASE \/ \E path \in Path : OtherFolder(path)
           \/ \E c \in Content : Spoil(c)
  BY <1>5, FolderKeeps, SpoilKeeps
<1>6. CASE \E exec \in 0..Len(stored) : Retrieve(exec)
  BY <1>6, RetrieveKeeps
<1>7. CASE \/ \E path \in Path : MoveDies(path) \/ MoveSkips(path) \/ MoveFinds(path)
           \/ \E c \in Content : MoveCopies(c)
           \/ MoveThrows \/ Retrieved
  BY <1>7, MoveDiesKeeps, MoveSkipsKeeps, MoveFindsKeeps, MoveCopiesKeeps, MoveThrowsKeeps,
     RetrievedKeeps
<1>8. CASE UNCHANGED vars
  BY <1>8, StutterKeeps
<1> QED
  BY <1>1, <1>2, <1>3, <1>4, <1>5, <1>6, <1>7, <1>8 DEF Next

LEMMA InvariantHolds == Spec => [](IInv /\ TreeInv)
<1>1. Init => IInv /\ TreeInv
  <2>1. ASSUME Init PROVE TreeInv
    BY <2>1, RetrieverAssumption DEF Init, TreeInv, TreeOf
  <2> QED
    BY <2>1, InitHolds
<1>2. (IInv /\ TreeInv) /\ [Next]_vars => (IInv /\ TreeInv)'
  BY StepHolds, TreeKeeps
<1> QED
  BY <1>1, <1>2, PTL DEF Spec

\* The variables keep their types.
THEOREM TypeCorrect == Spec => []TypeOK
<1>1. IInv => TypeOK
  BY DEF IInv, ShapeInv
<1> QED
  BY <1>1, InvariantHolds, PTL

LEMMA RebuiltHolds == ASSUME IInv PROVE RebuiltIsTrue
<1>1. ShapeInv /\ RowsInv
  BY DEF IInv
<1> SUFFICES ASSUME NEW exec \in 0..Len(stored), NEW path \in Sure
             PROVE  At(StateAfter(exec), path, Absent) = snapshots[exec + 1][path]
  BY DEF RebuiltIsTrue
<1>2. path \in Mentioned \cap Root /\ Plain(path)
  BY DEF Sure
<1> QED
  BY <1>1, <1>2, Rebuilt

\* What get_initial_state_before_first_exec and get_state_after_exec make of the
\* rows of any number of execs that overlap in any way is what the files held
\* then, on every path that nothing happened to that the rows do not tell.
THEOREM RebuiltStaysTrue == Spec => []RebuiltIsTrue
  BY InvariantHolds, RebuiltHolds, PTL

LEMMA RestoredHolds == ASSUME IInv, TreeInv PROVE RestoredIsTrue
<1> DEFINE rebuilt == StateAfter(retrieval.exec)
           then(path) == snapshots[retrieval.exec + 1][path]
<1> SUFFICES ASSUME retrieval.at = "done", NEW path \in retrieval.clear \cap Sure,
                    then(path) \notin wrong,
                    \A q \in Path \ Sure : ~(path \in Above[q] /\ q \in DOMAIN rebuilt)
             PROVE  workspace[path] = then(path)
  BY DEF RestoredIsTrue
<1>1. retrieval # Nowhere
  BY DEF Nowhere
<1>2. retrieval.exec \in 0..Len(stored) /\ Held(path, rebuilt)
  BY <1>1 DEF IInv, RetrievalInv
<1>3. At(rebuilt, path, Absent) = then(path)
  BY <1>2, RebuiltHolds DEF RebuiltIsTrue
<1>4. CASE path \notin DOMAIN rebuilt
  BY <1>2, <1>3, <1>4 DEF Held, At
<1>5. CASE path \in DOMAIN rebuilt
  <2>1. rebuilt[path] = then(path)
    BY <1>3, <1>5 DEF At
  <2>2. \A q \in Path : ~(path \in Above[q] /\ q \in DOMAIN rebuilt)
    BY <1>2, <1>5, NotBoth
  <2> QED
    BY <1>2, <1>5, <2>1, <2>2 DEF Held
<1> QED
  BY <1>4, <1>5

\* A retriever that gets to its end has put back what was missing, but for wrong
\* artifacts and files that were rebuilt below by mistake.
THEOREM RestoredStaysTrue == Spec => []RestoredIsTrue
  BY InvariantHolds, RestoredHolds, PTL

\* A retriever dies of a lost artifact, of something that came meanwhile, of a
\* name without a directory, or of a file where a directory should be that was
\* there before or that the record is mistaken about.
THEOREM DeathsHaveCauses == Spec => []RetrieverDiesOfOthers
<1>1. IInv => RetrieverDiesOfOthers
  BY DEF IInv
<1> QED
  BY <1>1, InvariantHolds, PTL
=============================================================================
