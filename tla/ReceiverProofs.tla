---------------------------- MODULE ReceiverProofs ----------------------------
(* Theorems about Receiver, for every number of jobs, every assignment of   *)
(* keys to them, every payload and every number of posts, with kills and    *)
(* late execs where the constants allow them.                               *)
EXTENDS Receiver, SequenceTheorems, FiniteSetTheorems, TLAPS

(* The inductive invariant. *)

\* The tables that an open transaction has filled so far hold what is committed.
Includes(t, u) ==
    /\ u.execs \subseteq t.execs /\ u.pairs \subseteq t.pairs /\ u.procs \subseteq t.procs
    /\ u.ops \subseteq t.ops /\ u.maps \subseteq t.maps /\ u.renames \subseteq t.renames

\* Rows are numbered from 1 and never get a number twice.
IdsOK(rows) ==
    /\ IsFiniteSet(rows)
    /\ \A r \in rows : r.id \in 1..Cardinality(rows)
    /\ \A r, s \in rows : r.id = s.id => r = s

Shape(t) ==
    /\ t = [jobs |-> t.jobs, execs |-> t.execs, pairs |-> t.pairs, procs |-> t.procs,
            ops |-> t.ops, maps |-> t.maps, renames |-> t.renames]
    /\ IsFiniteSet({j \in Job : t.jobs[j] # NoJob})
    /\ IdsOK(t.execs) /\ IdsOK(t.procs)
    /\ IsFiniteSet(t.ops) /\ IsFiniteSet(t.maps) /\ IsFiniteSet(t.renames)
ShapeInv == Shape(disk) /\ Shape(txn)

InExec == pc \notin {"wait", "take"}

\* The worker sleeps with nothing in hand, has a transaction open only within
\* an exec, and a daemon that is down holds nothing.
QueueInv ==
    /\ pc = "wait" <=> localQueue = <<>>
    /\ ~up => pc = "wait" /\ requestQueue = <<>>
    /\ ~InExec => txn = disk
    /\ InExec => /\ req.type = "exec" /\ active[key] = "open"
                 /\ txn.jobs = disk.jobs /\ Includes(txn, disk)

\* The exec in hand has the row add_exec gave it, or all of it is refused.
ExecRow == [id |-> execId, req |-> req]
CurrentInv == InExec =>
    \/ /\ disk.jobs[req.job] # NoJob
       /\ txn.execs = disk.execs \cup {ExecRow}
    \/ /\ disk.jobs[req.job] = NoJob
       /\ txn.execs = disk.execs
       /\ \A n \in DOMAIN req.body.procs : <<req.ts, n>> \in refused

\* Its processes with an id have a row of their own, or are refused.
OwnRow(n) == \E p \in txn.procs : p.id = processIds[n] /\ p.exec = execId /\ p.name = n
Owned(n) == <<req.ts, n>> \in refused \/ OwnRow(n)
ProcessInv ==
    /\ IsFiniteSet(DOMAIN processIds)
    /\ \A n \in DOMAIN processIds : processIds[n] \in Nat
    /\ pc \in {"procs", "ops", "maps", "renames", "commit"} =>
          /\ DOMAIN processIds \subseteq DOMAIN req.body.procs
          /\ \A n \in DOMAIN processIds : Owned(n)
    /\ pc \in {"ops", "maps", "renames", "commit"} => DOMAIN processIds = DOMAIN req.body.procs

\* What has been stored of it when its later tables are filled.
Stored(r, ids, ops, R) == \A n \in DOMAIN r.body.procs : <<r.ts, n>> \notin R =>
    \A f \in r.body.procs[n].paths :
        \E o \in ops : /\ o.proc = ids[n] /\ o.path = f
                       /\ o.from = <<r.ts, n>> \/ o.from \in R
OpsDone == Stored(req, processIds, txn.ops, refused)
MapsDone == \A m \in req.body.maps :
    (/\ {m[1], m[2]} \subseteq DOMAIN req.body.procs
     /\ {<<req.ts, m[1]>>, <<req.ts, m[2]>>} \cap refused = {}) =>
        <<processIds[m[1]], processIds[m[2]]>> \in txn.maps
DoneInv ==
    /\ pc \in {"maps", "renames", "commit"} => OpsDone
    /\ pc \in {"renames", "commit"} => MapsDone

\* OperationsBelong and ExecIsWhole of any tables t, R being refused.
Belong(t, R) == \A o \in t.ops : o.from \in R \/
    \E e \in t.execs : \E p \in t.procs :
        o.from = <<e.req.ts, p.name>> /\ p.exec = e.id /\ p.id = o.proc
ProcsWhole(t, id, r, R) ==
    \A n \in DOMAIN r.body.procs : <<r.ts, n>> \notin R =>
        \E p \in t.procs :
            /\ p.exec = id /\ p.name = n
            /\ \A f \in r.body.procs[n].paths :
                  \E o \in t.ops : /\ o.proc = p.id /\ o.path = f
                                   /\ o.from = <<r.ts, n>> \/ o.from \in R
MapsWhole(t, id, r, R) ==
    \A m \in r.body.maps :
        (/\ {m[1], m[2]} \subseteq DOMAIN r.body.procs
         /\ {<<r.ts, m[1]>>, <<r.ts, m[2]>>} \cap R = {}) =>
            \E p, q \in t.procs : /\ p.exec = id /\ p.name = m[1]
                                  /\ q.exec = id /\ q.name = m[2]
                                  /\ <<p.id, q.id>> \in t.maps
Whole(t, e, R) == ProcsWhole(t, e.id, e.req, R) /\ MapsWhole(t, e.id, e.req, R)
BelongInv == Belong(disk, refused) /\ Belong(txn, refused)
WholeInv == \A e \in disk.execs : Whole(disk, e, refused)

BaseInv == TypeOK /\ ShapeInv /\ QueueInv /\ ProcessInv
IInv == BaseInv /\ CurrentInv /\ DoneInv /\ BelongInv /\ WholeInv

\* With queue q and active_jobs_ a, the connection of job j is open once the
\* first i - 1 requests are served.
Starts(r, j) == r.type = "start" /\ r.job = j
Ends(r, j) == r.type = "end" /\ r.job = j
Opens(a, q, i, j) ==
    \/ a[KeyOf[j]] = "open" /\ \A k \in 1..i - 1 : ~Ends(q[k], j)
    \/ \E s \in 1..i - 1 : Starts(q[s], j) /\ \A k \in s..i - 1 : ~Ends(q[k], j)

\* Every exec in the queue comes to an open connection, and so will the next
\* exec of a job that runs.
QueueOpens(a, q) == \A i \in 1..Len(q) : q[i].type = "exec" => Opens(a, q, i, q[i].job)
RunningOpens(a, q, p) == \A j \in Job : p[j] = "running" => Opens(a, q, Len(q) + 1, j)
OpenInv == up /\ QueueOpens(active, Inbox) /\ RunningOpens(active, Inbox, phase)
-----------------------------------------------------------------------------
(* Lemmas about payloads, queues and tables. *)

LEMMA BodyFinite ==
    ASSUME NEW b \in Bodies \cup {NoBody}
    PROVE  /\ IsFiniteSet(DOMAIN b.procs)
           /\ \A n \in DOMAIN b.procs : IsFiniteSet(b.procs[n].paths)
           /\ IsFiniteSet(b.pairs) /\ b.pairs \subseteq Nat
           /\ IsFiniteSet(b.maps) /\ IsFiniteSet(b.renames)
<1>1. CASE b \in Bodies
  BY <1>1, ReceiverAssumption
<1>2. CASE b = NoBody
  <2>1. DOMAIN NoBody.procs = {} /\ NoBody.pairs = {} /\ NoBody.maps = {} /\ NoBody.renames = {}
    BY DEF NoBody
  <2> QED
    BY <1>2, <2>1, FS_EmptySet
<1> QED
  BY <1>1, <1>2

\* The image of a finite set.
LEMMA ImageFinite ==
    ASSUME NEW S, NEW T, IsFiniteSet(S), NEW f \in [S -> T], \A y \in T : \E x \in S : f[x] = y
    PROVE  IsFiniteSet(T)
<1>1. f \in Surjection(S, T)
  BY DEF Surjection
<1> QED
  BY <1>1, FS_Surjection

LEMMA ReqType ==
    ASSUME TypeOK, localQueue # <<>>
    PROVE  /\ req \in Request /\ req.job \in Job /\ req.ts \in 1..MaxPosts
           /\ req.body \in Bodies \cup {NoBody} /\ key \in Key
<1>1. req \in Request
  BY HeadTailProperties DEF TypeOK, req
<1> QED
  BY <1>1 DEF Request, key, Key

LEMMA PopQueue ==
    ASSUME TypeOK, localQueue # <<>>, Pop
    PROVE  /\ localQueue' \in Seq(Request) /\ localQueue' = Tail(localQueue)
           /\ pc' \in {"wait", "take"}
           /\ pc' = "wait" <=> localQueue' = <<>>
<1>1. localQueue \in Seq(Request)
  BY DEF TypeOK
<1>2. Tail(localQueue) \in Seq(Request) /\ Len(Tail(localQueue)) = Len(localQueue) - 1
  BY <1>1, HeadTailProperties
<1>3. Len(localQueue) \in Nat /\ (Tail(localQueue) = <<>> <=> Len(Tail(localQueue)) = 0)
  BY <1>1, <1>2
<1>4. Tail(localQueue) = <<>> <=> Len(localQueue) = 1
  BY ONLY <1>2, <1>3
<1> QED
  BY <1>2, <1>4 DEF Pop

LEMMA IdsAdd ==
    ASSUME NEW T, IdsOK(T), NEW r, r.id = Cardinality(T) + 1
    PROVE  IdsOK(T \cup {r}) /\ Cardinality(T) \in Nat /\ \A s \in T : s.id # r.id
<1>1. Cardinality(T) \in Nat /\ IsFiniteSet(T)
  BY FS_CardinalityType DEF IdsOK
<1>2. \A s \in T : s.id \in 1..Cardinality(T) /\ s.id # r.id
  BY <1>1 DEF IdsOK
<1>3. r \notin T
  BY <1>2
<1>4. IsFiniteSet(T \cup {r}) /\ Cardinality(T \cup {r}) = Cardinality(T) + 1
  BY <1>1, <1>3, FS_AddElement
<1>5. \A s \in T \cup {r} : s.id \in 1..Cardinality(T \cup {r})
  BY <1>1, <1>2, <1>4
<1>6. \A s, t \in T \cup {r} : s.id = t.id => s = t
  BY <1>2 DEF IdsOK
<1> QED
  BY <1>1, <1>2, <1>4, <1>5, <1>6 DEF IdsOK

LEMMA NextIdType == ASSUME NEW T, IdsOK(T) PROVE NextId(T) \in Nat \ {0}
  BY FS_CardinalityType DEF IdsOK, NextId

LEMMA ExecAdded ==
    ASSUME NEW t, TablesOK(t), Shape(t), NEW r \in Request,
           NEW u, u = [t EXCEPT !.execs = @ \cup {[id |-> NextId(t.execs), req |-> r]}]
    PROVE  /\ TablesOK(u) /\ Shape(u) /\ Includes(u, t) /\ u.jobs = t.jobs
           /\ u.execs = t.execs \cup {[id |-> NextId(t.execs), req |-> r]}
           /\ u.pairs = t.pairs /\ u.procs = t.procs /\ u.ops = t.ops
           /\ u.maps = t.maps /\ u.renames = t.renames
<1> DEFINE e == [id |-> NextId(t.execs), req |-> r]
<1>1. /\ u = [jobs |-> t.jobs, execs |-> t.execs \cup {e}, pairs |-> t.pairs, procs |-> t.procs,
              ops |-> t.ops, maps |-> t.maps, renames |-> t.renames]
  BY DEF Shape
<1>2. e.id = Cardinality(t.execs) + 1 /\ e.req = r
  BY DEF NextId
<1> HIDE DEF e
<1>3. IdsOK(t.execs \cup {e}) /\ e.id \in Nat
  BY <1>2, IdsAdd DEF Shape
<1>4. /\ u.jobs = t.jobs /\ u.execs = t.execs \cup {e} /\ u.pairs = t.pairs /\ u.procs = t.procs
      /\ u.ops = t.ops /\ u.maps = t.maps /\ u.renames = t.renames
  BY <1>1
<1>5. Shape(u)
  BY <1>1, <1>3, <1>4 DEF Shape
<1>6. TablesOK(u)
  BY <1>2, <1>3, <1>4 DEF TablesOK, Ids
<1> QED
  BY <1>4, <1>5, <1>6 DEF Includes, e

LEMMA PairsAdded ==
    ASSUME NEW t, TablesOK(t), Shape(t), NEW new, IsFiniteSet(new),
           NEW u, u = [t EXCEPT !.pairs = @ \cup new]
    PROVE  /\ TablesOK(u) /\ Shape(u) /\ Includes(u, t) /\ u.jobs = t.jobs
           /\ u.execs = t.execs /\ u.pairs = t.pairs \cup new /\ u.procs = t.procs
           /\ u.ops = t.ops /\ u.maps = t.maps /\ u.renames = t.renames
<1>1. /\ u = [jobs |-> t.jobs, execs |-> t.execs, pairs |-> t.pairs \cup new, procs |-> t.procs,
              ops |-> t.ops, maps |-> t.maps, renames |-> t.renames]
  BY DEF Shape
<1>2. /\ u.jobs = t.jobs /\ u.execs = t.execs /\ u.pairs = t.pairs \cup new /\ u.procs = t.procs
      /\ u.ops = t.ops /\ u.maps = t.maps /\ u.renames = t.renames
  BY <1>1
<1>3. Shape(u)
  BY <1>1, <1>2 DEF Shape
<1>4. TablesOK(u)
  BY <1>2 DEF TablesOK
<1> QED
  BY <1>2, <1>3, <1>4 DEF Includes

\* The row of a process and the tables with it.
ProcessRow(t, x, name, env) ==
    [id |-> NextId(t.procs), exec |-> x, name |-> name, env |-> env]
WithProcess(t, x, name, env) == [t EXCEPT !.procs = @ \cup {ProcessRow(t, x, name, env)}]

LEMMA ProcessAdded ==
    ASSUME NEW t, TablesOK(t), Shape(t), NEW x \in Ids(t.execs), NEW name, NEW env \in t.pairs
    PROVE  LET u == WithProcess(t, x, name, env) IN
           /\ TablesOK(u) /\ Shape(u) /\ Includes(u, t) /\ u.jobs = t.jobs
           /\ u.execs = t.execs /\ u.pairs = t.pairs
           /\ u.procs = t.procs \cup {ProcessRow(t, x, name, env)}
           /\ u.ops = t.ops /\ u.maps = t.maps /\ u.renames = t.renames
<1> DEFINE p == ProcessRow(t, x, name, env)
           u == WithProcess(t, x, name, env)
<1>1. /\ u = [jobs |-> t.jobs, execs |-> t.execs, pairs |-> t.pairs, procs |-> t.procs \cup {p},
              ops |-> t.ops, maps |-> t.maps, renames |-> t.renames]
  BY DEF Shape, WithProcess
<1>2. p.id = Cardinality(t.procs) + 1 /\ p.exec = x /\ p.env = env
  BY DEF NextId, ProcessRow
<1> HIDE DEF p, u
<1>3. IdsOK(t.procs \cup {p}) /\ p.id \in Nat
  <2>1. IdsOK(t.procs)
    BY DEF Shape
  <2>2. IdsOK(t.procs \cup {p}) /\ Cardinality(t.procs) \in Nat
    BY <1>2, <2>1, IdsAdd
  <2> QED
    BY <1>2, <2>2
<1>4. /\ u.jobs = t.jobs /\ u.execs = t.execs /\ u.pairs = t.pairs /\ u.procs = t.procs \cup {p}
      /\ u.ops = t.ops /\ u.maps = t.maps /\ u.renames = t.renames
  BY <1>1
<1>5. Shape(u)
  BY <1>1, <1>3, <1>4 DEF Shape
<1>6. Ids(t.procs) \subseteq Ids(u.procs)
  BY <1>4 DEF Ids
<1>7. TablesOK(u)
  <2>1. u.jobs \in [Job -> {NoJob} \cup [start : 1..MaxPosts, end : 0..MaxPosts]]
    BY <1>4 DEF TablesOK
  <2>2. \A e \in u.execs : e.id \in Nat /\ e.req \in Request
    BY <1>4 DEF TablesOK
  <2>3. \A q \in u.procs : q.id \in Nat /\ q.exec \in Ids(u.execs) /\ q.env \in u.pairs
    BY <1>2, <1>3, <1>4 DEF TablesOK
  <2>4. \A o \in u.ops : o.proc \in Ids(u.procs)
    BY <1>4, <1>6 DEF TablesOK
  <2>5. u.maps \subseteq Ids(u.procs) \X Ids(u.procs)
    <3>1. t.maps \subseteq Ids(t.procs) \X Ids(t.procs)
      BY DEF TablesOK
    <3>2. u.maps = t.maps
      BY <1>4
    <3> QED
      BY ONLY <1>6, <3>1, <3>2
  <2>6. \A r \in u.renames : r[1] \in Ids(u.execs)
    BY <1>4 DEF TablesOK
  <2> QED
    BY <2>1, <2>2, <2>3, <2>4, <2>5, <2>6 DEF TablesOK
<1> QED
  BY <1>4, <1>5, <1>7 DEF Includes, p, u

LEMMA OpsAdded ==
    ASSUME NEW t, TablesOK(t), Shape(t), NEW new, IsFiniteSet(new),
           \A o \in new : o.proc \in Ids(t.procs),
           NEW u, u = [t EXCEPT !.ops = @ \cup new]
    PROVE  /\ TablesOK(u) /\ Shape(u) /\ Includes(u, t) /\ u.jobs = t.jobs
           /\ u.execs = t.execs /\ u.pairs = t.pairs /\ u.procs = t.procs
           /\ u.ops = t.ops \cup new /\ u.maps = t.maps /\ u.renames = t.renames
<1>1. /\ u = [jobs |-> t.jobs, execs |-> t.execs, pairs |-> t.pairs, procs |-> t.procs,
              ops |-> t.ops \cup new, maps |-> t.maps, renames |-> t.renames]
  BY DEF Shape
<1>2. /\ u.jobs = t.jobs /\ u.execs = t.execs /\ u.pairs = t.pairs /\ u.procs = t.procs
      /\ u.ops = t.ops \cup new /\ u.maps = t.maps /\ u.renames = t.renames
  BY <1>1
<1>3. IsFiniteSet(t.ops \cup new)
  BY FS_Union DEF Shape
<1>4. Shape(u)
  BY <1>1, <1>2, <1>3 DEF Shape
<1>5. TablesOK(u)
  BY <1>2 DEF TablesOK
<1> QED
  BY <1>2, <1>4, <1>5 DEF Includes

LEMMA MapsAdded ==
    ASSUME NEW t, TablesOK(t), Shape(t), NEW new, IsFiniteSet(new),
           new \subseteq Ids(t.procs) \X Ids(t.procs),
           NEW u, u = [t EXCEPT !.maps = @ \cup new]
    PROVE  /\ TablesOK(u) /\ Shape(u) /\ Includes(u, t) /\ u.jobs = t.jobs
           /\ u.execs = t.execs /\ u.pairs = t.pairs /\ u.procs = t.procs
           /\ u.ops = t.ops /\ u.maps = t.maps \cup new /\ u.renames = t.renames
<1>1. /\ u = [jobs |-> t.jobs, execs |-> t.execs, pairs |-> t.pairs, procs |-> t.procs,
              ops |-> t.ops, maps |-> t.maps \cup new, renames |-> t.renames]
  BY DEF Shape
<1>2. /\ u.jobs = t.jobs /\ u.execs = t.execs /\ u.pairs = t.pairs /\ u.procs = t.procs
      /\ u.ops = t.ops /\ u.maps = t.maps \cup new /\ u.renames = t.renames
  BY <1>1
<1>3. IsFiniteSet(t.maps \cup new)
  BY FS_Union DEF Shape
<1>4. Shape(u)
  BY <1>1, <1>2, <1>3 DEF Shape
<1>5. TablesOK(u)
  BY <1>2 DEF TablesOK
<1> QED
  BY <1>2, <1>4, <1>5 DEF Includes

LEMMA RenamesAdded ==
    ASSUME NEW t, TablesOK(t), Shape(t), NEW new, IsFiniteSet(new),
           \A r \in new : r[1] \in Ids(t.execs),
           NEW u, u = [t EXCEPT !.renames = @ \cup new]
    PROVE  /\ TablesOK(u) /\ Shape(u) /\ Includes(u, t) /\ u.jobs = t.jobs
           /\ u.execs = t.execs /\ u.pairs = t.pairs /\ u.procs = t.procs
           /\ u.ops = t.ops /\ u.maps = t.maps /\ u.renames = t.renames \cup new
<1>1. /\ u = [jobs |-> t.jobs, execs |-> t.execs, pairs |-> t.pairs, procs |-> t.procs,
              ops |-> t.ops, maps |-> t.maps, renames |-> t.renames \cup new]
  BY DEF Shape
<1>2. /\ u.jobs = t.jobs /\ u.execs = t.execs /\ u.pairs = t.pairs /\ u.procs = t.procs
      /\ u.ops = t.ops /\ u.maps = t.maps /\ u.renames = t.renames \cup new
  BY <1>1
<1>3. IsFiniteSet(t.renames \cup new)
  BY FS_Union DEF Shape
<1>4. Shape(u)
  BY <1>1, <1>2, <1>3 DEF Shape
<1>5. TablesOK(u)
  BY <1>2 DEF TablesOK
<1> QED
  BY <1>2, <1>4, <1>5 DEF Includes
-----------------------------------------------------------------------------
(* What each step of the worker within an exec does to the tables. *)

InExecStep ==
    \/ AddExec \/ AddPairs \/ AddProcess \/ ProcessesDone
    \/ AddOperations \/ AddMappings \/ AddRenames

\* The facts a step within an exec can rest on.
LEMMA ExecContext ==
    ASSUME BaseInv, InExec
    PROVE  /\ localQueue # <<>> /\ req.type = "exec" /\ req \in Request /\ req.job \in Job
           /\ req.ts \in 1..MaxPosts /\ key \in Key /\ active[key] = "open" /\ up
           /\ IsFiniteSet(DOMAIN req.body.procs)
           /\ \A n \in DOMAIN req.body.procs : IsFiniteSet(req.body.procs[n].paths)
           /\ IsFiniteSet(req.body.pairs) /\ req.body.pairs \subseteq Nat
           /\ IsFiniteSet(req.body.maps) /\ IsFiniteSet(req.body.renames)
           /\ txn.jobs = disk.jobs /\ Includes(txn, disk)
<1>1. localQueue # <<>> /\ up
  BY DEF BaseInv, QueueInv, InExec
<1> QED
  BY <1>1, ReqType, BodyFinite DEF BaseInv, QueueInv

LEMMA AddExecTables ==
    ASSUME BaseInv, AddExec
    PROVE  /\ TablesOK(txn') /\ Shape(txn') /\ Includes(txn', disk) /\ txn'.jobs = disk.jobs
           /\ lastRowid' \in [Key -> Nat] /\ execId' \in Nat
           /\ req' = req /\ key' = key /\ pc' = "pairs" /\ disk' = disk /\ txn = disk
           /\ \/ /\ disk.jobs[req.job] # NoJob
                 /\ txn'.execs = disk.execs \cup {[id |-> execId', req |-> req]}
              \/ /\ disk.jobs[req.job] = NoJob /\ txn' = disk
                 /\ \A n \in DOMAIN req.body.procs : <<req.ts, n>> \in refused'
           /\ refused \subseteq refused'
           /\ txn'.procs = disk.procs /\ txn'.ops = disk.ops /\ txn'.pairs = disk.pairs
           /\ txn'.maps = disk.maps /\ txn'.renames = disk.renames
<1>1. /\ txn = disk /\ localQueue # <<>> /\ TypeOK /\ Shape(txn)
  BY DEF BaseInv, ShapeInv, QueueInv, InExec, AddExec, Taking
<1>2. req \in Request /\ key \in Key
  BY <1>1, ReqType
<1>3. req' = req /\ key' = key
  BY DEF AddExec, req, key
<1>4. NextId(txn.execs) \in Nat
  BY <1>1, NextIdType DEF Shape
<1>5. CASE txn.jobs[req.job] # NoJob
  <2>1. /\ txn' = [txn EXCEPT !.execs = @ \cup {[id |-> NextId(txn.execs), req |-> req]}]
        /\ lastRowid' = [lastRowid EXCEPT ![key] = NextId(txn.execs)]
        /\ refused' = refused /\ execId' = lastRowid'[key]
    BY <1>3, <1>5 DEF AddExec
  <2>2. /\ TablesOK(txn') /\ Shape(txn') /\ Includes(txn', txn) /\ txn'.jobs = txn.jobs
        /\ txn'.execs = txn.execs \cup {[id |-> NextId(txn.execs), req |-> req]}
        /\ txn'.pairs = txn.pairs /\ txn'.procs = txn.procs /\ txn'.ops = txn.ops
        /\ txn'.maps = txn.maps /\ txn'.renames = txn.renames
    BY <1>1, <1>2, <2>1, ExecAdded DEF TypeOK
  <2>3. lastRowid' \in [Key -> Nat] /\ execId' = NextId(txn.execs)
    BY <1>1, <1>2, <1>4, <2>1 DEF TypeOK
  <2> QED
    BY <1>1, <1>3, <1>4, <1>5, <2>1, <2>2, <2>3 DEF AddExec
<1>6. CASE txn.jobs[req.job] = NoJob
  <2>1. /\ txn' = txn /\ lastRowid' = lastRowid /\ execId' = lastRowid[key]
        /\ refused' = refused \cup {<<req.ts, n>> : n \in DOMAIN req.body.procs}
    BY <1>3, <1>6 DEF AddExec
  <2>2. execId' \in Nat
    BY <1>1, <1>2, <2>1 DEF TypeOK
  <2> QED
    BY <1>1, <1>3, <1>6, <2>1, <2>2 DEF AddExec, TypeOK, Includes
<1> QED
  BY <1>5, <1>6

LEMMA AddPairsTables ==
    ASSUME BaseInv, AddPairs
    PROVE  /\ TablesOK(txn') /\ Shape(txn') /\ Includes(txn', txn) /\ txn'.jobs = txn.jobs
           /\ lastRowid' \in [Key -> Nat] /\ InExec
           /\ txn'.execs = txn.execs /\ txn'.procs = txn.procs /\ txn'.ops = txn.ops
           /\ txn'.maps = txn.maps /\ txn'.renames = txn.renames
           /\ req' = req /\ key' = key /\ processIds' = <<>>
<1>1. InExec /\ TypeOK /\ Shape(txn)
  BY DEF BaseInv, ShapeInv, InExec, AddPairs
<1>2. key \in Key /\ req.body.pairs \subseteq Nat
  BY <1>1, ExecContext
<1>3. req' = req /\ key' = key
  BY DEF AddPairs, req, key
<1> DEFINE new == req.body.pairs \ txn.pairs
<1>4. /\ txn' = [txn EXCEPT !.pairs = @ \cup new] /\ processIds' = <<>>
      /\ lastRowid' = lastRowid \/ \E h \in new : lastRowid' = [lastRowid EXCEPT ![key] = h]
  BY DEF AddPairs
<1>5. lastRowid' \in [Key -> Nat]
  BY <1>1, <1>2, <1>4 DEF TypeOK
<1>6. IsFiniteSet(new)
  BY <1>1, ExecContext, FS_Difference
<1> HIDE DEF new
<1> QED
  BY <1>1, <1>3, <1>4, <1>5, <1>6, PairsAdded DEF TypeOK

LEMMA AddProcessTables ==
    ASSUME BaseInv, AddProcess
    PROVE  /\ TablesOK(txn') /\ Shape(txn') /\ Includes(txn', txn) /\ txn'.jobs = txn.jobs
           /\ lastRowid' \in [Key -> Nat] /\ InExec
           /\ txn'.execs = txn.execs /\ txn'.ops = txn.ops
           /\ txn'.maps = txn.maps /\ txn'.renames = txn.renames
           /\ req' = req /\ key' = key /\ refused \subseteq refused'
           /\ \E name \in DOMAIN req.body.procs \ DOMAIN processIds : \E id \in Nat :
                /\ processIds' = [n \in DOMAIN processIds \cup {name} |->
                        IF n = name THEN id ELSE processIds[n]]
                /\ \/ <<req.ts, name>> \in refused'
                   \/ \E p \in txn'.procs : p.id = id /\ p.exec = execId /\ p.name = name
<1>1. InExec /\ TypeOK /\ Shape(txn)
  BY DEF BaseInv, ShapeInv, InExec, AddProcess
<1>2. key \in Key
  BY <1>1, ExecContext
<1>3. req' = req /\ key' = key
  BY DEF AddProcess, req, key
<1>4. NextId(txn.procs) \in Nat
  BY <1>1, NextIdType DEF Shape
<1>5. PICK name \in DOMAIN req.body.procs \ DOMAIN processIds :
        /\ IF CanInsertProcess(req.body.procs[name].env)
           THEN /\ txn' = [txn EXCEPT !.procs = @ \cup
                        {[id |-> NextId(txn.procs), exec |-> execId, name |-> name,
                          env |-> req.body.procs[name].env]}]
                /\ lastRowid' = [lastRowid EXCEPT ![key] = NextId(txn.procs)]
                /\ refused' = refused
           ELSE /\ refused' = refused \cup {<<req.ts, name>>}
                /\ txn' = txn /\ lastRowid' = lastRowid
        /\ processIds' = [n \in DOMAIN processIds \cup {name} |->
                IF n = name THEN lastRowid'[key] ELSE processIds[n]]
  BY <1>3 DEF AddProcess
<1> DEFINE env == req.body.procs[name].env
<1>6. CASE CanInsertProcess(env)
  <2>1. execId \in Ids(txn.execs) /\ env \in txn.pairs
    BY <1>6 DEF CanInsertProcess
  <2>2. /\ txn' = [txn EXCEPT !.procs = @ \cup
                        {[id |-> NextId(txn.procs), exec |-> execId, name |-> name, env |-> env]}]
        /\ lastRowid' = [lastRowid EXCEPT ![key] = NextId(txn.procs)]
        /\ refused' = refused
    BY <1>5, <1>6
  <2> HIDE DEF env
  <2>3. /\ TablesOK(txn') /\ Shape(txn') /\ Includes(txn', txn) /\ txn'.jobs = txn.jobs
        /\ txn'.execs = txn.execs /\ txn'.ops = txn.ops
        /\ txn'.maps = txn.maps /\ txn'.renames = txn.renames
        /\ txn'.procs = txn.procs \cup
              {[id |-> NextId(txn.procs), exec |-> execId, name |-> name, env |-> env]}
    <3>1. TablesOK(txn)
      BY <1>1 DEF TypeOK
    <3>2. txn' = WithProcess(txn, execId, name, env)
      BY <2>2 DEF WithProcess, ProcessRow
    <3>3. LET u == WithProcess(txn, execId, name, env) IN
          /\ TablesOK(u) /\ Shape(u) /\ Includes(u, txn) /\ u.jobs = txn.jobs
          /\ u.execs = txn.execs /\ u.pairs = txn.pairs
          /\ u.procs = txn.procs \cup {ProcessRow(txn, execId, name, env)}
          /\ u.ops = txn.ops /\ u.maps = txn.maps /\ u.renames = txn.renames
      BY <1>1, <2>1, <3>1, ProcessAdded
    <3> QED
      BY <3>2, <3>3 DEF ProcessRow
  <2>4. \E p \in txn'.procs : p.id = NextId(txn.procs) /\ p.exec = execId /\ p.name = name
    <3>1. [id |-> NextId(txn.procs), exec |-> execId, name |-> name, env |-> env] \in txn'.procs
      BY <2>3
    <3> QED
      BY <3>1
  <2>5. lastRowid' \in [Key -> Nat] /\ lastRowid'[key] = NextId(txn.procs)
    BY <1>1, <1>2, <1>4, <2>2 DEF TypeOK
  <2> QED
    BY <1>1, <1>3, <1>4, <1>5, <2>2, <2>3, <2>4, <2>5
<1>7. CASE ~CanInsertProcess(env)
  <2>1. txn' = txn /\ lastRowid' = lastRowid /\ refused' = refused \cup {<<req.ts, name>>}
    BY <1>5, <1>7
  <2>2. lastRowid'[key] \in Nat
    BY <1>1, <1>2, <2>1 DEF TypeOK
  <2> QED
    BY <1>1, <1>3, <1>5, <2>1, <2>2 DEF TypeOK, Includes
<1> QED
  BY <1>6, <1>7
LEMMA WantedFinite ==
    ASSUME BaseInv, InExec
    PROVE  IsFiniteSet(Wanted)
<1> DEFINE D == DOMAIN req.body.procs
           sets == {req.body.procs[m].paths : m \in D}
           I == DOMAIN processIds
           g == [m \in D |-> req.body.procs[m].paths]
           f == [x \in I \X UNION sets |->
                    [proc |-> processIds[x[1]], path |-> x[2], from |-> <<req.ts, x[1]>>]]
<1>1. IsFiniteSet(D) /\ (\A m \in D : IsFiniteSet(req.body.procs[m].paths)) /\ IsFiniteSet(I)
  BY ExecContext DEF BaseInv, ProcessInv
<1>2. IsFiniteSet(sets)
  <2>1. g \in [D -> sets] /\ \A y \in sets : \E m \in D : g[m] = y
    OBVIOUS
  <2> HIDE DEF g, sets, D
  <2> QED
    BY <1>1, <2>1, ImageFinite
<1>3. \A S \in sets : IsFiniteSet(S)
  BY <1>1
<1>4. IsFiniteSet(UNION sets)
  <2> HIDE DEF sets
  <2> QED
    BY <1>2, <1>3, FS_UNION
<1>5. IsFiniteSet(I \X UNION sets)
  <2> HIDE DEF sets, I
  <2> QED
    BY <1>1, <1>4, FS_Product
<1>6. f \in [I \X UNION sets -> Wanted] /\ \A o \in Wanted : \E x \in I \X UNION sets : f[x] = o
  <2>1. ASSUME NEW x \in I \X UNION sets PROVE f[x] \in Wanted
    BY <2>1 DEF Wanted
  <2>2. ASSUME NEW o \in Wanted PROVE \E x \in I \X UNION sets : f[x] = o
    <3>1. PICK n \in I, p \in UNION sets :
              o = [proc |-> processIds[n], path |-> p, from |-> <<req.ts, n>>]
      BY <2>2 DEF Wanted
    <3>2. <<n, p>> \in I \X UNION sets /\ f[<<n, p>>] = o
      BY <3>1
    <3> QED
      BY <3>2
  <2> QED
    BY <2>1, <2>2
<1> HIDE DEF f, sets, I
<1> QED
  BY <1>5, <1>6, ImageFinite

LEMMA AddOperationsTables ==
    ASSUME BaseInv, AddOperations
    PROVE  /\ TablesOK(txn') /\ Shape(txn') /\ Includes(txn', txn) /\ txn'.jobs = txn.jobs
           /\ lastRowid' \in [Key -> Nat] /\ InExec
           /\ txn'.execs = txn.execs /\ txn'.procs = txn.procs
           /\ txn'.maps = txn.maps /\ txn'.renames = txn.renames
           /\ req' = req /\ key' = key
           /\ \E new \in SUBSET Legal :
                /\ \A o \in Legal : \E x \in new : x.proc = o.proc /\ x.path = o.path
                /\ txn'.ops = txn.ops \cup new
<1>1. InExec /\ TypeOK /\ Shape(txn) /\ TablesOK(txn)
  BY DEF BaseInv, ShapeInv, InExec, AddOperations, TypeOK
<1>2. req' = req /\ key' = key
  BY DEF AddOperations, req, key
<1>3. PICK new \in SUBSET Legal :
        /\ \A o \in Legal : \E x \in new : <<x.proc, x.path>> = <<o.proc, o.path>>
        /\ txn' = [txn EXCEPT !.ops = @ \cup new]
        /\ lastRowid' = IF new = {} THEN lastRowid
                        ELSE [lastRowid EXCEPT ![key] = Cardinality(txn'.ops)]
  BY DEF AddOperations
<1>4. IsFiniteSet(new) /\ \A o \in new : o.proc \in Ids(txn.procs)
  <2>1. new \in SUBSET Wanted /\ \A o \in new : o.proc \in Ids(txn.procs)
    BY <1>3 DEF Legal
  <2> QED
    BY <1>1, <2>1, WantedFinite, FS_Subset
<1>5. /\ TablesOK(txn') /\ Shape(txn') /\ Includes(txn', txn) /\ txn'.jobs = txn.jobs
      /\ txn'.execs = txn.execs /\ txn'.pairs = txn.pairs /\ txn'.procs = txn.procs
      /\ txn'.ops = txn.ops \cup new /\ txn'.maps = txn.maps /\ txn'.renames = txn.renames
  BY <1>1, <1>3, <1>4, OpsAdded
<1>6. lastRowid' \in [Key -> Nat]
  <2>1. Cardinality(txn'.ops) \in Nat
    BY <1>5, FS_CardinalityType DEF Shape
  <2> QED
    BY <1>1, <1>3, <2>1, ExecContext DEF TypeOK
<1>7. \A o \in Legal : \E x \in new : x.proc = o.proc /\ x.path = o.path
  BY <1>3
<1> QED
  BY <1>1, <1>2, <1>5, <1>6, <1>7

LEMMA AddMappingsTables ==
    ASSUME BaseInv, AddMappings
    PROVE  /\ TablesOK(txn') /\ Shape(txn') /\ Includes(txn', txn) /\ txn'.jobs = txn.jobs
           /\ lastRowid' \in [Key -> Nat] /\ InExec
           /\ txn'.execs = txn.execs /\ txn'.procs = txn.procs
           /\ txn'.ops = txn.ops /\ txn'.renames = txn.renames
           /\ req' = req /\ key' = key
           /\ \A x \in req.body.maps :
                {IdOf(x[1]), IdOf(x[2])} \subseteq Ids(txn.procs) =>
                    <<IdOf(x[1]), IdOf(x[2])>> \in txn'.maps
<1>1. InExec /\ TypeOK /\ Shape(txn) /\ TablesOK(txn)
  BY DEF BaseInv, ShapeInv, InExec, AddMappings, TypeOK
<1>2. req' = req /\ key' = key
  BY DEF AddMappings, req, key
<1> DEFINE M == req.body.maps
           image == {<<IdOf(x[1]), IdOf(x[2])>> : x \in M}
           f == [x \in M |-> <<IdOf(x[1]), IdOf(x[2])>>]
           legal == {m \in image : {m[1], m[2]} \subseteq Ids(txn.procs)}
           new == legal \ txn.maps
<1>3. IsFiniteSet(image)
  <2>1. IsFiniteSet(M)
    BY <1>1, ExecContext
  <2>2. f \in [M -> image] /\ \A y \in image : \E x \in M : f[x] = y
    OBVIOUS
  <2> HIDE DEF f, image, M
  <2> QED
    BY <2>1, <2>2, ImageFinite
<1>4. IsFiniteSet(new)
  <2>1. new \in SUBSET image
    OBVIOUS
  <2> HIDE DEF new, image
  <2> QED
    BY <1>3, <2>1, FS_Subset
<1>5. new \subseteq Ids(txn.procs) \X Ids(txn.procs)
  <2>1. ASSUME NEW m \in new PROVE m \in Ids(txn.procs) \X Ids(txn.procs)
    <3>1. PICK x \in M : m = <<IdOf(x[1]), IdOf(x[2])>>
      BY <2>1
    <3>2. m[1] \in Ids(txn.procs) /\ m[2] \in Ids(txn.procs)
      BY <2>1
    <3> QED
      BY <3>1, <3>2
  <2> QED
    BY <2>1
<1>6. /\ txn' = [txn EXCEPT !.maps = @ \cup new]
      /\ lastRowid' = IF new = {} THEN lastRowid
                      ELSE [lastRowid EXCEPT ![key] = Cardinality(txn'.maps)]
  BY DEF AddMappings
<1>7. ASSUME NEW x \in M, {IdOf(x[1]), IdOf(x[2])} \subseteq Ids(txn.procs)
      PROVE  <<IdOf(x[1]), IdOf(x[2])>> \in txn.maps \cup new
  <2>1. <<IdOf(x[1]), IdOf(x[2])>> \in image
    OBVIOUS
  <2>2. <<IdOf(x[1]), IdOf(x[2])>> \in legal
    BY <1>7, <2>1
  <2> QED
    BY <2>2
<1> HIDE DEF new
<1>8. /\ TablesOK(txn') /\ Shape(txn') /\ Includes(txn', txn) /\ txn'.jobs = txn.jobs
      /\ txn'.execs = txn.execs /\ txn'.pairs = txn.pairs /\ txn'.procs = txn.procs
      /\ txn'.ops = txn.ops /\ txn'.maps = txn.maps \cup new /\ txn'.renames = txn.renames
  BY <1>1, <1>4, <1>5, <1>6, MapsAdded
<1>9. lastRowid' \in [Key -> Nat]
  <2>1. Cardinality(txn'.maps) \in Nat
    BY <1>8, FS_CardinalityType DEF Shape
  <2> QED
    BY <1>1, <1>6, <2>1, ExecContext DEF TypeOK
<1> QED
  BY <1>1, <1>2, <1>7, <1>8, <1>9

LEMMA AddRenamesTables ==
    ASSUME BaseInv, AddRenames
    PROVE  /\ TablesOK(txn') /\ Shape(txn') /\ Includes(txn', txn) /\ txn'.jobs = txn.jobs
           /\ lastRowid' \in [Key -> Nat] /\ InExec
           /\ txn'.execs = txn.execs /\ txn'.procs = txn.procs
           /\ txn'.ops = txn.ops /\ txn'.maps = txn.maps
           /\ req' = req /\ key' = key
<1>1. InExec /\ TypeOK /\ Shape(txn) /\ TablesOK(txn)
  BY DEF BaseInv, ShapeInv, InExec, AddRenames, TypeOK
<1>2. req' = req /\ key' = key
  BY DEF AddRenames, req, key
<1> DEFINE M == Parsed(req.body).renames
           image == {<<execId, x[1], x[2]>> : x \in M}
           f == [x \in M |-> <<execId, x[1], x[2]>>]
           new == IF execId \in Ids(txn.execs) THEN image \ txn.renames ELSE {}
<1>3. IsFiniteSet(image)
  <2>1. IsFiniteSet(M)
    BY FS_EmptySet DEF Parsed
  <2>2. f \in [M -> image] /\ \A y \in image : \E x \in M : f[x] = y
    OBVIOUS
  <2> HIDE DEF f, image, M
  <2> QED
    BY <2>1, <2>2, ImageFinite
<1>4. IsFiniteSet(new)
  <2>1. new \in SUBSET image
    OBVIOUS
  <2> HIDE DEF new, image
  <2> QED
    BY <1>3, <2>1, FS_Subset
<1>5. \A r \in new : r[1] \in Ids(txn.execs)
  OBVIOUS
<1>6. /\ txn' = [txn EXCEPT !.renames = @ \cup new]
      /\ lastRowid' = IF new = {} THEN lastRowid
                      ELSE [lastRowid EXCEPT ![key] = Cardinality(txn'.renames)]
  BY DEF AddRenames
<1> HIDE DEF new
<1>8. /\ TablesOK(txn') /\ Shape(txn') /\ Includes(txn', txn) /\ txn'.jobs = txn.jobs
      /\ txn'.execs = txn.execs /\ txn'.pairs = txn.pairs /\ txn'.procs = txn.procs
      /\ txn'.ops = txn.ops /\ txn'.maps = txn.maps /\ txn'.renames = txn.renames \cup new
  BY <1>1, <1>4, <1>5, <1>6, RenamesAdded
<1>9. lastRowid' \in [Key -> Nat]
  <2>1. Cardinality(txn'.renames) \in Nat
    BY <1>8, FS_CardinalityType DEF Shape
  <2> QED
    BY <1>1, <1>6, <2>1, ExecContext DEF TypeOK
<1> QED
  BY <1>1, <1>2, <1>8, <1>9

LEMMA JobSet ==
    ASSUME NEW t, TablesOK(t), Shape(t), NEW j \in Job,
           NEW x \in [start : 1..MaxPosts, end : 0..MaxPosts]
    PROVE  LET u == [t EXCEPT !.jobs[j] = x] IN
           /\ TablesOK(u) /\ Shape(u)
           /\ u.execs = t.execs /\ u.pairs = t.pairs /\ u.procs = t.procs
           /\ u.ops = t.ops /\ u.maps = t.maps /\ u.renames = t.renames
           /\ u.jobs = [t.jobs EXCEPT ![j] = x]
<1> DEFINE u == [t EXCEPT !.jobs[j] = x]
<1>1. /\ u = [jobs |-> [t.jobs EXCEPT ![j] = x], execs |-> t.execs, pairs |-> t.pairs,
              procs |-> t.procs, ops |-> t.ops, maps |-> t.maps, renames |-> t.renames]
  BY DEF Shape
<1> HIDE DEF u
<1>2. /\ u.jobs = [t.jobs EXCEPT ![j] = x] /\ u.execs = t.execs /\ u.pairs = t.pairs
      /\ u.procs = t.procs /\ u.ops = t.ops /\ u.maps = t.maps /\ u.renames = t.renames
  BY <1>1
<1>3. IsFiniteSet({i \in Job : u.jobs[i] # NoJob})
  <2> DEFINE A == {i \in Job : t.jobs[i] # NoJob}
             B == {i \in Job : u.jobs[i] # NoJob}
  <2>1. IsFiniteSet(A)
    BY DEF Shape
  <2>2. IsFiniteSet(A \cup {j})
    <3> HIDE DEF A
    <3> QED
      BY <2>1, FS_AddElement
  <2>3. B \in SUBSET (A \cup {j})
    BY <1>2 DEF TablesOK
  <2> HIDE DEF A, B
  <2>4. IsFiniteSet(B)
    BY <2>2, <2>3, FS_Subset
  <2> QED
    BY <2>4 DEF B
<1>4. Shape(u)
  BY <1>1, <1>2, <1>3 DEF Shape
<1>5. TablesOK(u)
  BY <1>2 DEF TablesOK
<1> QED
  BY <1>2, <1>4, <1>5 DEF u

LEMMA StartTables ==
    ASSUME BaseInv, StartJob
    PROVE  /\ TablesOK(disk') /\ Shape(disk') /\ txn' = disk' /\ localQueue # <<>> /\ up
           /\ lastRowid' \in [Key -> Nat]
           /\ disk'.execs = disk.execs /\ disk'.procs = disk.procs /\ disk'.ops = disk.ops
           /\ disk'.maps = disk.maps /\ disk'.renames = disk.renames
           /\ disk'.pairs = disk.pairs
           /\ disk'.jobs = IF disk.jobs[req.job] = NoJob
                           THEN [disk.jobs EXCEPT ![req.job] = [start |-> req.ts, end |-> 0]]
                           ELSE disk.jobs
<1>1. TypeOK /\ TablesOK(disk) /\ Shape(disk) /\ localQueue # <<>> /\ up
  BY DEF BaseInv, ShapeInv, StartJob, Taking, TypeOK
<1>2. req.job \in Job /\ req.ts \in 1..MaxPosts /\ key \in Key
  BY <1>1, ReqType
<1> DEFINE x == [start |-> req.ts, end |-> 0]
<1>3. x \in [start : 1..MaxPosts, end : 0..MaxPosts]
  BY <1>2, ReceiverAssumption
<1>4. lastRowid' \in [Key -> Nat]
  <2>1. Cardinality({j \in Job : disk.jobs[j] # NoJob}) \in Nat
    BY <1>1, FS_CardinalityType DEF Shape
  <2> HIDE DEF x
  <2> QED
    BY <1>1, <1>2, <2>1 DEF StartJob, TypeOK
<1>5. disk' = IF disk.jobs[req.job] = NoJob THEN [disk EXCEPT !.jobs[req.job] = x] ELSE disk
  BY DEF StartJob, WithJob
<1>6. txn' = disk'
  BY DEF StartJob
<1>7. CASE disk.jobs[req.job] = NoJob
  <2> HIDE DEF x
  <2>1. LET u == [disk EXCEPT !.jobs[req.job] = x] IN
        /\ TablesOK(u) /\ Shape(u)
        /\ u.execs = disk.execs /\ u.pairs = disk.pairs /\ u.procs = disk.procs
        /\ u.ops = disk.ops /\ u.maps = disk.maps /\ u.renames = disk.renames
        /\ u.jobs = [disk.jobs EXCEPT ![req.job] = x]
    BY <1>1, <1>2, <1>3, JobSet
  <2>2. disk' = [disk EXCEPT !.jobs[req.job] = x]
    BY <1>5, <1>7
  <2> QED
    BY <1>1, <1>4, <1>6, <1>7, <2>1, <2>2 DEF x
<1>8. CASE disk.jobs[req.job] # NoJob
  BY <1>1, <1>4, <1>5, <1>6, <1>8
<1> QED
  BY <1>7, <1>8

LEMMA EndTables ==
    ASSUME BaseInv, EndJob
    PROVE  /\ TablesOK(disk') /\ Shape(disk') /\ txn' = disk' /\ localQueue # <<>> /\ up
           /\ lastRowid' \in [Key -> Nat]
           /\ disk'.execs = disk.execs /\ disk'.procs = disk.procs /\ disk'.ops = disk.ops
           /\ disk'.maps = disk.maps /\ disk'.renames = disk.renames
           /\ disk'.pairs = disk.pairs
           /\ disk'.jobs = IF active[KeyOf[req.job]] = "open" /\ disk.jobs[req.job] # NoJob
                           THEN [disk.jobs EXCEPT ![req.job].end = req.ts]
                           ELSE disk.jobs
<1>1. TypeOK /\ TablesOK(disk) /\ Shape(disk) /\ localQueue # <<>> /\ up
  BY DEF BaseInv, ShapeInv, EndJob, Taking, TypeOK
<1>2. req.job \in Job /\ req.ts \in 1..MaxPosts /\ key \in Key
  BY <1>1, ReqType
<1>3. lastRowid' \in [Key -> Nat]
  BY <1>1, <1>2 DEF EndJob, TypeOK
<1>4. txn' = disk' /\ disk' = WithEnd(disk, req)
  BY DEF EndJob
<1>5. CASE active[KeyOf[req.job]] = "open" /\ disk.jobs[req.job] # NoJob
  <2> DEFINE x == [disk.jobs[req.job] EXCEPT !.end = req.ts]
  <2>1. x \in [start : 1..MaxPosts, end : 0..MaxPosts]
    BY <1>1, <1>2, <1>5, ReceiverAssumption DEF TablesOK
  <2>2. disk' = [disk EXCEPT !.jobs[req.job] = x]
    BY <1>4, <1>5 DEF WithEnd
  <2>3. [disk.jobs EXCEPT ![req.job].end = req.ts] = [disk.jobs EXCEPT ![req.job] = x]
    OBVIOUS
  <2> HIDE DEF x
  <2>4. LET u == [disk EXCEPT !.jobs[req.job] = x] IN
        /\ TablesOK(u) /\ Shape(u)
        /\ u.execs = disk.execs /\ u.pairs = disk.pairs /\ u.procs = disk.procs
        /\ u.ops = disk.ops /\ u.maps = disk.maps /\ u.renames = disk.renames
        /\ u.jobs = [disk.jobs EXCEPT ![req.job] = x]
    BY <1>1, <1>2, <2>1, JobSet
  <2> QED
    BY <1>1, <1>3, <1>4, <1>5, <2>2, <2>3, <2>4
<1>6. CASE ~(active[KeyOf[req.job]] = "open" /\ disk.jobs[req.job] # NoJob)
  BY <1>1, <1>3, <1>4, <1>6 DEF WithEnd
<1> QED
  BY <1>5, <1>6
-----------------------------------------------------------------------------
(* Type correctness and the shape of the tables. *)

LEMMA BaseInit == Init => BaseInv
<1> SUFFICES ASSUME Init PROVE BaseInv
  OBVIOUS
<1> DEFINE E == EmptyTables
<1>1. /\ E.jobs = [j \in Job |-> NoJob] /\ E.execs = {} /\ E.pairs = {} /\ E.procs = {}
      /\ E.ops = {} /\ E.maps = {} /\ E.renames = {}
      /\ E = [jobs |-> E.jobs, execs |-> E.execs, pairs |-> E.pairs, procs |-> E.procs,
              ops |-> E.ops, maps |-> E.maps, renames |-> E.renames]
  BY DEF EmptyTables
<1> HIDE DEF E
<1>2. TablesOK(E)
  BY <1>1 DEF TablesOK
<1>3. {j \in Job : E.jobs[j] # NoJob} = {}
  BY <1>1
<1>4. Shape(E)
  BY <1>1, <1>3, FS_EmptySet DEF Shape, IdsOK
<1>5. disk = E /\ txn = E
  BY DEF Init, E
<1>6. <<>> \in Seq(Request)
  OBVIOUS
<1>7. TypeOK
  BY <1>2, <1>5, <1>6, ReceiverAssumption DEF Init, TypeOK, Pcs
<1>8. ProcessInv
  <2>1. DOMAIN processIds = {} /\ pc = "wait"
    BY DEF Init
  <2> QED
    BY <2>1, FS_EmptySet DEF ProcessInv
<1>9. QueueInv
  BY DEF Init, QueueInv, InExec
<1> QED
  BY <1>4, <1>5, <1>7, <1>8, <1>9 DEF BaseInv, ShapeInv
LEMMA PostBase ==
    ASSUME BaseInv, NEW type \in Types, NEW j \in Job, NEW b \in Bodies \cup {NoBody},
           Post(type, j, b), phase' \in [Job -> {"new", "running", "ended"}]
    PROVE  BaseInv'
<1>1. posts + 1 \in 1..MaxPosts /\ posts' \in 0..MaxPosts
  BY ReceiverAssumption DEF BaseInv, TypeOK, Post
<1>2. [type |-> type, job |-> j, ts |-> posts + 1, body |-> b] \in Request
  BY <1>1 DEF Request
<1>3. requestQueue' \in Seq(Request)
  BY <1>2, AppendProperties DEF BaseInv, TypeOK, Post, Enqueued
<1>4. UNCHANGED <<up, worker, store>>
  BY DEF Post
<1>5. TypeOK'
  BY <1>1, <1>3, <1>4 DEF BaseInv, TypeOK, TablesOK, worker, store
<1>6. req' = req /\ key' = key
  BY <1>4 DEF req, key, worker
<1>7. QueueInv'
  BY <1>4, <1>6 DEF BaseInv, QueueInv, InExec, worker, store, Post
<1>8. ShapeInv'
  BY <1>4 DEF BaseInv, ShapeInv, store
<1>9. ProcessInv'
  BY <1>4, <1>6 DEF BaseInv, ProcessInv, Owned, OwnRow, worker, store
<1> QED
  BY <1>5, <1>7, <1>8, <1>9 DEF BaseInv

LEMMA PostSteps ==
    ASSUME NEW j \in Job, PostStart(j) \/ PostExec(j) \/ PostEnd(j)
    PROVE  \E type \in Types : \E b \in Bodies \cup {NoBody} :
              /\ Post(type, j, b)
              /\ TypeOK => phase' \in [Job -> {"new", "running", "ended"}]
  BY DEF PostStart, PostExec, PostEnd, Types, TypeOK

LEMMA DownBase == ASSUME BaseInv, Down PROVE BaseInv'
<1>1. <<>> \in Seq(Request) /\ DOMAIN <<>> = {}
  OBVIOUS
<1>2. TypeOK'
  BY <1>1 DEF BaseInv, TypeOK, TablesOK, Down, senders, Pcs
<1>3. ShapeInv'
  BY DEF BaseInv, ShapeInv, Down
<1>4. QueueInv'
  BY DEF QueueInv, InExec, Down
<1>5. ProcessInv'
  BY <1>1, FS_EmptySet DEF ProcessInv, Down
<1> QED
  BY <1>2, <1>3, <1>4, <1>5 DEF BaseInv

\* Whatever a step within an exec adds, what was found of it stays.
LEMMA OwnedStays ==
    ASSUME req' = req, execId' = execId, refused \subseteq refused',
           txn.procs \subseteq txn'.procs, NEW n, Owned(n), processIds'[n] = processIds[n]
    PROVE  Owned(n)'
  BY DEF Owned, OwnRow

LEMMA InExecBase ==
    ASSUME BaseInv, InExec, InExec', TablesOK(txn'), Shape(txn'), Includes(txn', txn),
           txn'.jobs = txn.jobs, lastRowid' \in [Key -> Nat], execId' \in Nat,
           req' = req, key' = key, pc' \in Pcs, ProcessInv',
           UNCHANGED <<up, senders, requestQueue, localQueue, active, disk>>
    PROVE  BaseInv'
<1>1. TypeOK'
  BY DEF BaseInv, TypeOK, TablesOK, senders
<1>2. ShapeInv'
  BY DEF BaseInv, ShapeInv
<1>3. QueueInv'
  BY DEF BaseInv, QueueInv, InExec, Includes
<1> QED
  BY <1>1, <1>2, <1>3 DEF BaseInv

LEMMA BaseNext == BaseInv /\ [Next]_vars => BaseInv'
<1> SUFFICES ASSUME BaseInv, [Next]_vars PROVE BaseInv'
  OBVIOUS
<1>1. ASSUME NEW j \in Job, PostStart(j) \/ PostExec(j) \/ PostEnd(j) PROVE BaseInv'
  BY <1>1, PostSteps, PostBase DEF BaseInv
<1>2. ASSUME Crash \/ ExecWithoutJob PROVE BaseInv'
  BY <1>2, DownBase DEF Crash, ExecWithoutJob
<1>3. ASSUME Restart PROVE BaseInv'
  <2>1. req' = req /\ key' = key
    BY <1>3 DEF Restart, req, key, worker
  <2>2. TypeOK'
    BY <1>3 DEF BaseInv, Restart, TypeOK, TablesOK, senders, worker, store
  <2>3. ShapeInv' /\ QueueInv' /\ ProcessInv'
    BY <1>3, <2>1 DEF BaseInv, ShapeInv, QueueInv, InExec, ProcessInv, Owned, OwnRow,
                      Restart, senders, worker, store
  <2> QED
    BY <2>2, <2>3 DEF BaseInv
<1>4. ASSUME TakeAll PROVE BaseInv'
  <2>1. TypeOK'
    <3>1. <<>> \in Seq(Request)
      OBVIOUS
    <3> QED
      BY <1>4, <3>1 DEF BaseInv, TakeAll, TypeOK, TablesOK, senders, store, Pcs
  <2>2. ShapeInv' /\ QueueInv' /\ ProcessInv'
    BY <1>4 DEF BaseInv, ShapeInv, QueueInv, InExec, ProcessInv, TakeAll, senders, store
  <2> QED
    BY <2>1, <2>2 DEF BaseInv
<1>5. ASSUME StartJob \/ EndJob PROVE BaseInv'
  <2>1. /\ TablesOK(disk') /\ Shape(disk') /\ txn' = disk' /\ localQueue # <<>> /\ up
        /\ lastRowid' \in [Key -> Nat]
    BY <1>5, StartTables, EndTables
  <2>2. Pop /\ UNCHANGED <<up, senders, requestQueue, execId, processIds, refused>>
    BY <1>5 DEF StartJob, EndJob
  <2>3. localQueue' \in Seq(Request) /\ pc' \in {"wait", "take"} /\ (pc' = "wait" <=> localQueue' = <<>>)
    BY <2>1, <2>2, PopQueue DEF BaseInv
  <2>4. active' \in [Key -> {"none", "open"}]
    BY <1>5 DEF BaseInv, TypeOK, StartJob, EndJob, InitJob, FinishJob
  <2>5. TypeOK'
    BY <2>1, <2>2, <2>3, <2>4 DEF BaseInv, TypeOK, TablesOK, senders, Pcs
  <2>6. ShapeInv' /\ QueueInv' /\ ProcessInv'
    BY <2>1, <2>2, <2>3 DEF BaseInv, ShapeInv, QueueInv, InExec, ProcessInv
  <2> QED
    BY <2>5, <2>6 DEF BaseInv
<1>6. ASSUME AddExec PROVE BaseInv'
  <2>1. /\ TablesOK(txn') /\ Shape(txn') /\ Includes(txn', disk) /\ txn'.jobs = disk.jobs
        /\ lastRowid' \in [Key -> Nat] /\ execId' \in Nat
        /\ req' = req /\ key' = key /\ pc' = "pairs" /\ disk' = disk
    BY <1>6, AddExecTables
  <2>2. TypeOK'
    BY <1>6, <2>1 DEF BaseInv, TypeOK, TablesOK, AddExec, senders, Pcs
  <2>3. ShapeInv' /\ ProcessInv'
    BY <1>6, <2>1 DEF BaseInv, ShapeInv, ProcessInv, AddExec
  <2>4. QueueInv'
    BY <1>6, <2>1 DEF BaseInv, QueueInv, InExec, AddExec, Taking
  <2> QED
    BY <2>2, <2>3, <2>4 DEF BaseInv
<1>7. ASSUME AddPairs PROVE BaseInv'
  <2>1. DOMAIN <<>> = {}
    OBVIOUS
  <2>2. ProcessInv'
    BY <1>7, <2>1, FS_EmptySet, AddPairsTables DEF AddPairs, ProcessInv
  <2> QED
    BY <1>7, <2>2, AddPairsTables, InExecBase DEF AddPairs, BaseInv, TypeOK, InExec, Pcs
<1>8. ASSUME AddProcess PROVE BaseInv'
  <2>1. PICK name \in DOMAIN req.body.procs \ DOMAIN processIds, id \in Nat :
            /\ processIds' = [n \in DOMAIN processIds \cup {name} |->
                    IF n = name THEN id ELSE processIds[n]]
            /\ \/ <<req.ts, name>> \in refused'
               \/ \E p \in txn'.procs : p.id = id /\ p.exec = execId /\ p.name = name
    BY <1>8, AddProcessTables
  <2>2. /\ req' = req /\ execId' = execId /\ refused \subseteq refused'
        /\ txn.procs \subseteq txn'.procs /\ pc = "procs" /\ pc' = "procs"
    BY <1>8, AddProcessTables DEF AddProcess, Includes
  <2>3. /\ DOMAIN processIds' = DOMAIN processIds \cup {name} /\ processIds'[name] = id
        /\ \A n \in DOMAIN processIds : processIds'[n] = processIds[n]
    BY <2>1
  <2>4. Owned(name)'
    BY <2>1, <2>2, <2>3 DEF Owned, OwnRow
  <2>5. \A n \in DOMAIN processIds : Owned(n)'
    BY <2>2, <2>3, OwnedStays DEF BaseInv, ProcessInv
  <2>6. IsFiniteSet(DOMAIN processIds')
    BY <2>3, FS_AddElement DEF BaseInv, ProcessInv
  <2>7. ProcessInv'
    BY <2>1, <2>2, <2>3, <2>4, <2>5, <2>6 DEF BaseInv, ProcessInv
  <2> QED
    BY <1>8, <2>2, <2>7, AddProcessTables, InExecBase DEF AddProcess, BaseInv, TypeOK, InExec, Pcs
<1>9. ASSUME ProcessesDone PROVE BaseInv'
  <2>1. req' = req /\ key' = key /\ InExec /\ txn' = txn /\ lastRowid' = lastRowid
    BY <1>9 DEF ProcessesDone, req, key, InExec, store
  <2>2. ProcessInv'
    BY <1>9, <2>1 DEF BaseInv, ProcessInv, ProcessesDone, Owned, OwnRow
  <2>3. Includes(txn', txn)
    BY <2>1 DEF Includes
  <2> QED
    BY <1>9, <2>1, <2>2, <2>3, InExecBase
       DEF ProcessesDone, BaseInv, ShapeInv, TypeOK, InExec, Pcs, store
<1>10. ASSUME AddOperations \/ AddMappings \/ AddRenames PROVE BaseInv'
  <2>1. /\ TablesOK(txn') /\ Shape(txn') /\ Includes(txn', txn) /\ txn'.jobs = txn.jobs
        /\ lastRowid' \in [Key -> Nat] /\ InExec /\ req' = req /\ key' = key
        /\ txn'.procs = txn.procs
    BY <1>10, AddOperationsTables, AddMappingsTables, AddRenamesTables
  <2>2. /\ UNCHANGED <<up, senders, requestQueue, localQueue, execId, processIds, refused,
                       active, disk>>
        /\ pc \in {"ops", "maps", "renames"} /\ pc' \in {"maps", "renames", "commit"}
    BY <1>10 DEF AddOperations, AddMappings, AddRenames
  <2>3. ProcessInv'
    BY <2>1, <2>2 DEF BaseInv, ProcessInv, Owned, OwnRow
  <2> QED
    BY <2>1, <2>2, <2>3, InExecBase DEF BaseInv, TypeOK, InExec, Pcs
<1>11. ASSUME CommitExec PROVE BaseInv'
  <2>1. localQueue # <<>> /\ up
    BY <1>11, ExecContext DEF CommitExec, InExec
  <2>2. localQueue' \in Seq(Request) /\ pc' \in {"wait", "take"} /\ (pc' = "wait" <=> localQueue' = <<>>)
    BY <1>11, <2>1, PopQueue DEF CommitExec, BaseInv
  <2>3. disk' = txn /\ txn' = txn /\ DOMAIN processIds' = {} /\ execId' = 0
    BY <1>11 DEF CommitExec
  <2>4. TypeOK'
    BY <1>11, <2>2, <2>3 DEF BaseInv, TypeOK, TablesOK, CommitExec, senders, Pcs
  <2>5. ShapeInv' /\ QueueInv' /\ ProcessInv'
    BY <1>11, <2>1, <2>2, <2>3, FS_EmptySet
       DEF BaseInv, ShapeInv, QueueInv, InExec, ProcessInv, CommitExec
  <2> QED
    BY <2>4, <2>5 DEF BaseInv
<1>12. CASE UNCHANGED vars
  <2>1. req' = req /\ key' = key
    BY <1>12 DEF vars, worker, req, key
  <2>2. TypeOK' /\ ShapeInv' /\ QueueInv'
    BY <1>12, <2>1 DEF BaseInv, TypeOK, TablesOK, ShapeInv, QueueInv, InExec, vars, senders, worker, store
  <2>3. ProcessInv'
    BY <1>12, <2>1 DEF BaseInv, ProcessInv, Owned, OwnRow, vars, worker, store
  <2> QED
    BY <2>2, <2>3 DEF BaseInv
<1> QED
  BY <1>1, <1>2, <1>3, <1>4, <1>5, <1>6, <1>7, <1>8, <1>9, <1>10, <1>11, <1>12 DEF Next, Worker

\* The queues hold requests, the tables hold rows whose foreign keys find what
\* they name (the schema of db.cpp), on disk and within an open transaction.
THEOREM TypeCorrect == Spec => []TypeOK
<1>1. BaseInv => TypeOK
  BY DEF BaseInv
<1> QED
  BY <1>1, BaseInit, BaseNext, PTL DEF Spec
-----------------------------------------------------------------------------
(* What is stored of the exec in hand. *)

LEMMA CurrentNext ==
    ASSUME BaseInv, CurrentInv, [Next]_vars
    PROVE  CurrentInv'
<1>1. ASSUME AddExec PROVE CurrentInv'
  BY <1>1, AddExecTables DEF CurrentInv, ExecRow
<1>2. ASSUME InExec, execId' = execId, req' = req, disk' = disk, txn'.execs = txn.execs,
             refused \subseteq refused'
      PROVE  CurrentInv'
  BY <1>2 DEF CurrentInv, ExecRow
<1>3. ASSUME AddPairs PROVE CurrentInv'
  BY <1>2, <1>3, AddPairsTables DEF AddPairs
<1>4. ASSUME AddProcess PROVE CurrentInv'
  BY <1>2, <1>4, AddProcessTables DEF AddProcess
<1>5. ASSUME ProcessesDone PROVE CurrentInv'
  BY <1>2, <1>5 DEF ProcessesDone, InExec, req, store
<1>6. ASSUME AddOperations \/ AddMappings \/ AddRenames PROVE CurrentInv'
  BY <1>2, <1>6, AddOperationsTables, AddMappingsTables, AddRenamesTables
     DEF AddOperations, AddMappings, AddRenames
<1>7. ASSUME StartJob \/ EndJob \/ CommitExec PROVE CurrentInv'
  BY <1>7 DEF StartJob, EndJob, CommitExec, Pop, CurrentInv, InExec
<1>8. ASSUME TakeAll \/ Crash \/ ExecWithoutJob PROVE CurrentInv'
  BY <1>8 DEF TakeAll, Crash, ExecWithoutJob, Down, CurrentInv, InExec
<1>9. ASSUME UNCHANGED <<worker, store>> PROVE CurrentInv'
  BY <1>9 DEF worker, store, CurrentInv, InExec, ExecRow, req
<1>10. ASSUME \/ \E j \in Job : PostStart(j) \/ PostExec(j) \/ PostEnd(j)
              \/ Restart \/ UNCHANGED vars
       PROVE  UNCHANGED <<worker, store>>
  BY <1>10 DEF PostStart, PostExec, PostEnd, Post, Restart, vars
<1> QED
  BY <1>1, <1>3, <1>4, <1>5, <1>6, <1>7, <1>8, <1>9, <1>10 DEF Next, Worker

LEMMA BelongGrows ==
    ASSUME NEW t, NEW R, Belong(t, R), NEW u, NEW Q, R \subseteq Q,
           t.execs \subseteq u.execs, t.procs \subseteq u.procs,
           \A o \in u.ops : o \in t.ops \/ o.from \in Q \/
              \E e \in u.execs : \E p \in u.procs :
                  o.from = <<e.req.ts, p.name>> /\ p.exec = e.id /\ p.id = o.proc
    PROVE  Belong(u, Q)
  BY DEF Belong

LEMMA WholeGrows ==
    ASSUME NEW t, NEW e, NEW R, Whole(t, e, R), NEW u, NEW Q, R \subseteq Q, Includes(u, t)
    PROVE  Whole(u, e, Q)
<1> DEFINE id == e.id
           r == e.req
<1>1. ProcsWhole(t, id, r, R) /\ MapsWhole(t, id, r, R)
  BY DEF Whole
<1> HIDE DEF id, r
<1>2. ASSUME NEW n \in DOMAIN r.body.procs, <<r.ts, n>> \notin Q
      PROVE  \E p \in u.procs :
                /\ p.exec = id /\ p.name = n
                /\ \A f \in r.body.procs[n].paths :
                      \E o \in u.ops : /\ o.proc = p.id /\ o.path = f
                                       /\ o.from = <<r.ts, n>> \/ o.from \in Q
  <2>1. PICK p \in t.procs :
                /\ p.exec = id /\ p.name = n
                /\ \A f \in r.body.procs[n].paths :
                      \E o \in t.ops : /\ o.proc = p.id /\ o.path = f
                                       /\ o.from = <<r.ts, n>> \/ o.from \in R
    BY <1>1, <1>2 DEF ProcsWhole
  <2>2. \A f \in r.body.procs[n].paths :
            \E o \in u.ops : /\ o.proc = p.id /\ o.path = f
                             /\ o.from = <<r.ts, n>> \/ o.from \in Q
    BY <2>1 DEF Includes
  <2>3. p \in u.procs
    BY <2>1 DEF Includes
  <2> QED
    BY ONLY <2>1, <2>2, <2>3
<1>3. ASSUME NEW m \in r.body.maps, {m[1], m[2]} \subseteq DOMAIN r.body.procs,
             {<<r.ts, m[1]>>, <<r.ts, m[2]>>} \cap Q = {}
      PROVE  \E p, q \in u.procs : /\ p.exec = id /\ p.name = m[1]
                                   /\ q.exec = id /\ q.name = m[2]
                                   /\ <<p.id, q.id>> \in u.maps
  <2>1. {<<r.ts, m[1]>>, <<r.ts, m[2]>>} \cap R = {}
    BY <1>3
  <2>2. PICK p, q \in t.procs : /\ p.exec = id /\ p.name = m[1]
                                /\ q.exec = id /\ q.name = m[2]
                                /\ <<p.id, q.id>> \in t.maps
    BY <1>1, <1>3, <2>1 DEF MapsWhole
  <2>3. p \in u.procs /\ q \in u.procs /\ <<p.id, q.id>> \in u.maps
    BY <2>2 DEF Includes
  <2> QED
    BY <2>2, <2>3
<1>5. ProcsWhole(u, id, r, Q)
  BY <1>2 DEF ProcsWhole
<1>6. MapsWhole(u, id, r, Q)
  BY <1>3 DEF MapsWhole
<1> QED
  BY <1>5, <1>6 DEF Whole, id, r

\* A process of the exec in hand that is not refused has a row of its own.
LEMMA OwnRowOf ==
    ASSUME BaseInv, CurrentInv, pc \in {"ops", "maps", "renames", "commit"},
           NEW n \in DOMAIN req.body.procs, <<req.ts, n>> \notin refused
    PROVE  /\ n \in DOMAIN processIds /\ OwnRow(n)
           /\ ExecRow \in txn.execs
           /\ processIds[n] \in Ids(txn.procs)
<1>1. n \in DOMAIN processIds /\ OwnRow(n)
  BY DEF BaseInv, ProcessInv, Owned
<1>2. ExecRow \in txn.execs
  BY DEF CurrentInv, InExec
<1> QED
  BY <1>1, <1>2 DEF OwnRow, Ids

LEMMA BelongNext ==
    ASSUME BaseInv, CurrentInv, BelongInv, [Next]_vars
    PROVE  BelongInv'
<1>1. ASSUME disk' = disk, refused \subseteq refused', txn'.ops = txn.ops,
             txn.execs \subseteq txn'.execs, txn.procs \subseteq txn'.procs
      PROVE  BelongInv'
  BY <1>1 DEF BelongInv, Belong
<1>2. ASSUME AddExec PROVE BelongInv'
  BY <1>1, <1>2, AddExecTables
<1>3. ASSUME AddPairs \/ AddProcess PROVE BelongInv'
  BY <1>1, <1>3, AddPairsTables, AddProcessTables DEF AddPairs, AddProcess, Includes
<1>4. ASSUME AddMappings \/ AddRenames PROVE BelongInv'
  BY <1>1, <1>4, AddMappingsTables, AddRenamesTables DEF AddMappings, AddRenames
<1>5. ASSUME AddOperations PROVE BelongInv'
  <2>1. PICK new \in SUBSET Legal : txn'.ops = txn.ops \cup new
    BY <1>5, AddOperationsTables
  <2>2. /\ txn'.execs = txn.execs /\ txn'.procs = txn.procs /\ disk' = disk
        /\ refused' = refused /\ pc = "ops"
    BY <1>5, AddOperationsTables DEF AddOperations
  <2>3. ASSUME NEW o \in new
        PROVE  o.from \in refused \/ \E e \in txn.execs : \E p \in txn.procs :
                   o.from = <<e.req.ts, p.name>> /\ p.exec = e.id /\ p.id = o.proc
    <3>1. PICK n \in DOMAIN processIds : o.proc = processIds[n] /\ o.from = <<req.ts, n>>
      BY DEF Legal, Wanted
    <3>2. n \in DOMAIN req.body.procs
      BY <2>2 DEF BaseInv, ProcessInv
    <3>3. CASE o.from \notin refused
      <4>1. OwnRow(n) /\ ExecRow \in txn.execs
        BY <2>2, <3>1, <3>2, <3>3, OwnRowOf
      <4>2. PICK p \in txn.procs : p.id = processIds[n] /\ p.exec = execId /\ p.name = n
        BY <4>1 DEF OwnRow
      <4>3. ExecRow.id = execId /\ ExecRow.req = req
        BY DEF ExecRow
      <4> QED
        BY <3>1, <4>1, <4>2, <4>3
    <3> QED
      BY <3>3
  <2>4. Belong(txn', refused')
    BY <2>1, <2>2, <2>3 DEF BelongInv, Belong
  <2> QED
    BY <2>2, <2>4 DEF BelongInv
<1>6. ASSUME StartJob \/ EndJob PROVE BelongInv'
  <2>1. /\ disk'.execs = disk.execs /\ disk'.procs = disk.procs /\ disk'.ops = disk.ops
        /\ txn' = disk' /\ refused' = refused
    BY <1>6, StartTables, EndTables DEF StartJob, EndJob
  <2> QED
    BY <2>1 DEF BelongInv, Belong
<1>7. ASSUME CommitExec PROVE BelongInv'
  BY <1>7 DEF CommitExec, BelongInv
<1>8. ASSUME Crash \/ ExecWithoutJob PROVE BelongInv'
  BY <1>8 DEF Crash, ExecWithoutJob, Down, BelongInv
<1>9. ASSUME UNCHANGED <<disk, txn, refused>> PROVE BelongInv'
  BY <1>9 DEF BelongInv
<1>10. ASSUME \/ \E j \in Job : PostStart(j) \/ PostExec(j) \/ PostEnd(j)
              \/ Restart \/ TakeAll \/ ProcessesDone \/ UNCHANGED vars
       PROVE  UNCHANGED <<disk, txn, refused>>
  BY <1>10 DEF PostStart, PostExec, PostEnd, Post, Restart, TakeAll, ProcessesDone, vars, worker, store
<1> QED
  BY <1>2, <1>3, <1>4, <1>5, <1>6, <1>7, <1>8, <1>9, <1>10 DEF Next, Worker

\* Every path of a process that is not refused finds its key in operations
\* free, or taken by an operation of its own or of a refused process.
LEMMA OperationsDone ==
    ASSUME BaseInv, CurrentInv, BelongInv, AddOperations
    PROVE  OpsDone'
<1>1. /\ req' = req /\ processIds' = processIds /\ refused' = refused /\ pc = "ops"
      /\ txn'.procs = txn.procs /\ txn'.execs = txn.execs
  BY AddOperationsTables DEF AddOperations
<1>2. PICK new \in SUBSET Legal :
          /\ \A o \in Legal : \E x \in new : x.proc = o.proc /\ x.path = o.path
          /\ txn'.ops = txn.ops \cup new
  BY AddOperationsTables
<1> SUFFICES Stored(req, processIds, txn.ops \cup new, refused)
  BY <1>1, <1>2 DEF OpsDone
<1> SUFFICES ASSUME NEW n \in DOMAIN req.body.procs, <<req.ts, n>> \notin refused,
                    NEW f \in req.body.procs[n].paths
             PROVE  \E o \in txn.ops \cup new :
                        /\ o.proc = processIds[n] /\ o.path = f
                        /\ o.from = <<req.ts, n>> \/ o.from \in refused
  BY DEF Stored
<1>3. n \in DOMAIN processIds /\ OwnRow(n) /\ ExecRow \in txn.execs
      /\ processIds[n] \in Ids(txn.procs)
  BY <1>1, OwnRowOf
<1>4. PICK p \in txn.procs : p.id = processIds[n] /\ p.exec = execId /\ p.name = n
  BY <1>3 DEF OwnRow
<1>5. IdsOK(txn.procs) /\ IdsOK(txn.execs)
  BY DEF BaseInv, ShapeInv, Shape
<1> DEFINE mine == [proc |-> processIds[n], path |-> f, from |-> <<req.ts, n>>]
<1>6. mine \in Wanted
  BY <1>3 DEF Wanted
<1>7. CASE mine \in Legal
  <2>1. PICK x \in new : x.proc = processIds[n] /\ x.path = f
    BY <1>2, <1>7
  <2>2. PICK m \in DOMAIN processIds : x.proc = processIds[m] /\ x.from = <<req.ts, m>>
    BY <2>1 DEF Legal, Wanted
  <2>3. CASE <<req.ts, m>> \notin refused
    <3>1. m \in DOMAIN req.body.procs
      BY <1>1, <2>2 DEF BaseInv, ProcessInv
    <3>2. OwnRow(m)
      BY <1>1, <2>3, <3>1, OwnRowOf
    <3>3. PICK q \in txn.procs : q.id = processIds[m] /\ q.name = m
      BY <3>2 DEF OwnRow
    <3>4. p = q
      BY <1>4, <1>5, <2>1, <2>2, <3>3 DEF IdsOK
    <3> QED
      BY <1>4, <2>1, <2>2, <3>3, <3>4
  <2> QED
    BY <2>1, <2>2, <2>3
<1>8. CASE mine \notin Legal
  <2>1. mine.path = f /\ mine.proc = processIds[n] /\ mine.from[2] = n
    OBVIOUS
  <2>2. PICK x \in txn.ops : x.proc = processIds[n] /\ x.path = f
    <3>1. PICK x \in txn.ops : ~(<<x.proc, x.path>> # <<mine.proc, mine.path>>)
      BY <1>3, <1>6, <1>8, <2>1 DEF Legal
    <3> QED
      BY <2>1, <3>1
  <2>3. CASE x.from \notin refused
    <3>1. PICK e \in txn.execs, q \in txn.procs :
              x.from = <<e.req.ts, q.name>> /\ q.exec = e.id /\ q.id = x.proc
      BY <2>3 DEF BelongInv, Belong
    <3>2. p = q
      BY <1>4, <1>5, <2>2, <3>1 DEF IdsOK
    <3>3. ExecRow.id = execId /\ ExecRow.req = req
      BY DEF ExecRow
    <3>4. e = ExecRow
      BY <1>3, <1>4, <1>5, <3>1, <3>2, <3>3 DEF IdsOK
    <3> QED
      BY <1>4, <2>2, <3>1, <3>2, <3>3, <3>4
  <2> QED
    BY <2>2, <2>3
<1> QED
  BY <1>7, <1>8

LEMMA MappingsDone ==
    ASSUME BaseInv, CurrentInv, AddMappings
    PROVE  MapsDone'
<1>1. /\ req' = req /\ processIds' = processIds /\ refused' = refused /\ pc = "maps"
  BY AddMappingsTables DEF AddMappings
<1> SUFFICES ASSUME NEW m \in req.body.maps, {m[1], m[2]} \subseteq DOMAIN req.body.procs,
                    {<<req.ts, m[1]>>, <<req.ts, m[2]>>} \cap refused = {}
             PROVE  <<processIds[m[1]], processIds[m[2]]>> \in txn'.maps
  BY <1>1 DEF MapsDone
<1>2. \A i \in {m[1], m[2]} : i \in DOMAIN processIds /\ processIds[i] \in Ids(txn.procs)
  BY <1>1, OwnRowOf
<1>3. IdOf(m[1]) = processIds[m[1]] /\ IdOf(m[2]) = processIds[m[2]]
  BY <1>2 DEF IdOf
<1> QED
  BY <1>2, <1>3, AddMappingsTables

LEMMA DoneNext ==
    ASSUME BaseInv, CurrentInv, BelongInv, DoneInv, [Next]_vars
    PROVE  DoneInv'
<1>1. ASSUME AddOperations PROVE DoneInv'
  BY <1>1, OperationsDone DEF AddOperations, DoneInv
<1>2. ASSUME req' = req, processIds' = processIds, refused' = refused, OpsDone, txn.ops \subseteq txn'.ops
      PROVE  OpsDone'
  BY <1>2 DEF OpsDone, Stored
<1>3. ASSUME AddMappings PROVE DoneInv'
  <2>1. /\ req' = req /\ processIds' = processIds /\ refused' = refused /\ pc = "maps"
        /\ txn'.ops = txn.ops /\ pc' = "renames"
    BY <1>3, AddMappingsTables DEF AddMappings
  <2>2. OpsDone'
    BY <1>2, <2>1 DEF DoneInv
  <2> QED
    BY <1>3, <2>1, <2>2, MappingsDone DEF DoneInv
<1>4. ASSUME AddRenames PROVE DoneInv'
  <2>1. /\ req' = req /\ processIds' = processIds /\ refused' = refused /\ pc = "renames"
        /\ txn'.ops = txn.ops /\ txn'.maps = txn.maps /\ txn'.execs = txn.execs
        /\ execId' = execId /\ pc' = "commit"
    BY <1>4, AddRenamesTables DEF AddRenames
  <2>2. OpsDone'
    BY <1>2, <2>1 DEF DoneInv
  <2>3. MapsDone'
    BY <2>1 DEF DoneInv, MapsDone
  <2> QED
    BY <2>1, <2>2, <2>3 DEF DoneInv
<1>5. ASSUME AddExec \/ AddPairs \/ AddProcess \/ ProcessesDone PROVE DoneInv'
  BY <1>5 DEF AddExec, AddPairs, AddProcess, ProcessesDone, DoneInv
<1>6. ASSUME StartJob \/ EndJob \/ CommitExec PROVE DoneInv'
  BY <1>6 DEF StartJob, EndJob, CommitExec, Pop, DoneInv
<1>7. ASSUME TakeAll \/ Crash \/ ExecWithoutJob PROVE DoneInv'
  BY <1>7 DEF TakeAll, Crash, ExecWithoutJob, Down, DoneInv
<1>8. ASSUME UNCHANGED <<worker, store>> PROVE DoneInv'
  BY <1>8 DEF worker, store, DoneInv, OpsDone, MapsDone, ExecRow, req
<1>9. ASSUME \/ \E j \in Job : PostStart(j) \/ PostExec(j) \/ PostEnd(j)
             \/ Restart \/ UNCHANGED vars
      PROVE  UNCHANGED <<worker, store>>
  BY <1>9 DEF PostStart, PostExec, PostEnd, Post, Restart, vars
<1> QED
  BY <1>1, <1>3, <1>4, <1>5, <1>6, <1>7, <1>8, <1>9 DEF Next, Worker
\* At its commit the exec in hand is whole.
LEMMA CommittedWhole ==
    ASSUME BaseInv, CurrentInv, DoneInv, pc = "commit", ExecRow \in txn.execs
    PROVE  Whole(txn, ExecRow, refused)
<1>1. ExecRow.id = execId /\ ExecRow.req = req
  BY DEF ExecRow
<1>2. OpsDone /\ MapsDone
  BY DEF DoneInv
<1>3. \A n \in DOMAIN req.body.procs : <<req.ts, n>> \notin refused =>
          \E p \in txn.procs : p.id = processIds[n] /\ p.exec = execId /\ p.name = n
  BY OwnRowOf DEF OwnRow
<1>4. ASSUME NEW n \in DOMAIN req.body.procs, <<req.ts, n>> \notin refused
      PROVE  \E p \in txn.procs :
                /\ p.exec = execId /\ p.name = n
                /\ \A f \in req.body.procs[n].paths :
                      \E o \in txn.ops : /\ o.proc = p.id /\ o.path = f
                                         /\ o.from = <<req.ts, n>> \/ o.from \in refused
  <2>1. PICK p \in txn.procs : p.id = processIds[n] /\ p.exec = execId /\ p.name = n
    BY <1>3, <1>4
  <2>2. \A f \in req.body.procs[n].paths :
            \E o \in txn.ops : /\ o.proc = processIds[n] /\ o.path = f
                               /\ o.from = <<req.ts, n>> \/ o.from \in refused
    BY <1>2, <1>4 DEF OpsDone, Stored
  <2> QED
    BY <2>1, <2>2
<1>5. ASSUME NEW m \in req.body.maps, {m[1], m[2]} \subseteq DOMAIN req.body.procs,
             {<<req.ts, m[1]>>, <<req.ts, m[2]>>} \cap refused = {}
      PROVE  \E p, q \in txn.procs : /\ p.exec = execId /\ p.name = m[1]
                                     /\ q.exec = execId /\ q.name = m[2]
                                     /\ <<p.id, q.id>> \in txn.maps
  <2>1. <<processIds[m[1]], processIds[m[2]]>> \in txn.maps
    BY <1>2, <1>5 DEF MapsDone
  <2>2. PICK p \in txn.procs : p.id = processIds[m[1]] /\ p.exec = execId /\ p.name = m[1]
    BY <1>3, <1>5
  <2>3. PICK q \in txn.procs : q.id = processIds[m[2]] /\ q.exec = execId /\ q.name = m[2]
    BY <1>3, <1>5
  <2> QED
    BY <2>1, <2>2, <2>3
<1>7. ProcsWhole(txn, execId, req, refused)
  BY <1>4 DEF ProcsWhole
<1>8. MapsWhole(txn, execId, req, refused)
  BY <1>5 DEF MapsWhole
<1> HIDE DEF ExecRow
<1> QED
  BY <1>1, <1>7, <1>8 DEF Whole

LEMMA WholeNext ==
    ASSUME BaseInv, CurrentInv, DoneInv, WholeInv, [Next]_vars
    PROVE  WholeInv'
<1>1. Includes(disk, disk)
  BY DEF Includes
<1>2. ASSUME disk' = disk, refused \subseteq refused' PROVE WholeInv'
  BY <1>1, <1>2, WholeGrows DEF WholeInv
<1>3. ASSUME AddExec \/ AddPairs \/ AddProcess PROVE WholeInv'
  BY <1>2, <1>3, AddExecTables, AddProcessTables DEF AddPairs, AddProcess
<1>4. ASSUME StartJob \/ EndJob PROVE WholeInv'
  <2>1. /\ disk'.execs = disk.execs /\ disk'.procs = disk.procs /\ disk'.ops = disk.ops
        /\ disk'.maps = disk.maps /\ disk'.renames = disk.renames /\ disk'.pairs = disk.pairs
        /\ refused' = refused
    BY <1>4, StartTables, EndTables DEF StartJob, EndJob
  <2>2. Includes(disk', disk) /\ refused \subseteq refused'
    BY <2>1, StartTables, EndTables, <1>4 DEF Includes
  <2> QED
    BY <2>1, <2>2, WholeGrows DEF WholeInv
<1>5. ASSUME CommitExec PROVE WholeInv'
  <2>1. disk' = txn /\ refused' = refused /\ pc = "commit"
    BY <1>5 DEF CommitExec
  <2>2. Includes(txn, disk)
    BY <2>1 DEF BaseInv, QueueInv, InExec
  <2>3. \A e \in disk.execs : Whole(txn, e, refused)
    BY <2>2, WholeGrows DEF WholeInv
  <2>4. \A e \in txn.execs : e \in disk.execs \/ e = ExecRow
    BY <2>1 DEF CurrentInv, InExec
  <2> QED
    BY <2>1, <2>3, <2>4, CommittedWhole DEF WholeInv
<1>6. ASSUME AddOperations \/ AddMappings \/ AddRenames \/ ProcessesDone \/ Crash \/ ExecWithoutJob
      PROVE  disk' = disk /\ refused' = refused
  BY <1>6 DEF AddOperations, AddMappings, AddRenames, ProcessesDone, store, Crash, ExecWithoutJob, Down
<1>7. ASSUME \/ \E j \in Job : PostStart(j) \/ PostExec(j) \/ PostEnd(j)
             \/ TakeAll \/ Restart \/ UNCHANGED vars
      PROVE  disk' = disk /\ refused' = refused
  BY <1>7 DEF PostStart, PostExec, PostEnd, Post, TakeAll, Restart, vars, worker, store
<1> QED
  BY <1>2, <1>3, <1>4, <1>5, <1>6, <1>7 DEF Next, Worker

LEMMA InvInit == Init => IInv
<1> SUFFICES ASSUME Init PROVE IInv
  OBVIOUS
<1>1. pc = "wait" /\ disk.ops = {} /\ disk.execs = {} /\ txn = disk
  BY DEF Init, EmptyTables
<1>2. CurrentInv /\ DoneInv
  BY <1>1 DEF CurrentInv, DoneInv, InExec
<1>3. BelongInv /\ WholeInv
  BY <1>1 DEF BelongInv, Belong, WholeInv
<1> QED
  BY <1>2, <1>3, BaseInit DEF IInv

LEMMA InvNext == IInv /\ [Next]_vars => IInv'
  BY BaseNext, CurrentNext, DoneNext, BelongNext, WholeNext DEF IInv

LEMMA Invariance == Spec => []IInv
  BY InvInit, InvNext, PTL DEF Spec

\* What save_db_data commits of an exec is all of it, except for processes whose
\* INSERT was refused and for the paths their operations took first: whatever
\* keys jobs share, whatever is lost, and whenever the daemon is killed.
THEOREM ExecsStayWhole == Spec => []ExecIsWhole
<1>1. IInv => ExecIsWhole
  <2> SUFFICES ASSUME IInv, NEW e \in disk.execs
               PROVE  LET b == e.req.body IN
        /\ \A n \in DOMAIN b.procs : <<e.req.ts, n>> \notin refused =>
            \E p \in Row(disk, e, n) : \A f \in b.procs[n].paths :
                \E o \in disk.ops : /\ o.proc = p.id /\ o.path = f
                                    /\ o.from = <<e.req.ts, n>> \/ o.from \in refused
        /\ \A m \in b.maps :
            (/\ {m[1], m[2]} \subseteq DOMAIN b.procs
             /\ {<<e.req.ts, m[1]>>, <<e.req.ts, m[2]>>} \cap refused = {}) =>
                \E p \in Row(disk, e, m[1]), q \in Row(disk, e, m[2]) :
                    <<p.id, q.id>> \in disk.maps
    BY DEF ExecIsWhole
  <2>1. ProcsWhole(disk, e.id, e.req, refused) /\ MapsWhole(disk, e.id, e.req, refused)
    BY DEF IInv, WholeInv, Whole
  <2>2. \A n, p : p \in Row(disk, e, n) <=> p \in disk.procs /\ p.exec = e.id /\ p.name = n
    BY DEF Row
  <2>3. ASSUME NEW n \in DOMAIN e.req.body.procs, <<e.req.ts, n>> \notin refused
        PROVE  \E p \in Row(disk, e, n) : \A f \in e.req.body.procs[n].paths :
                   \E o \in disk.ops : /\ o.proc = p.id /\ o.path = f
                                       /\ o.from = <<e.req.ts, n>> \/ o.from \in refused
    <3>1. PICK p \in disk.procs :
              /\ p.exec = e.id /\ p.name = n
              /\ \A f \in e.req.body.procs[n].paths :
                    \E o \in disk.ops : /\ o.proc = p.id /\ o.path = f
                                        /\ o.from = <<e.req.ts, n>> \/ o.from \in refused
      BY <2>1, <2>3 DEF ProcsWhole
    <3>2. p \in Row(disk, e, n)
      BY <2>2, <3>1
    <3> QED
      BY <3>1, <3>2
  <2>4. ASSUME NEW m \in e.req.body.maps, {m[1], m[2]} \subseteq DOMAIN e.req.body.procs,
               {<<e.req.ts, m[1]>>, <<e.req.ts, m[2]>>} \cap refused = {}
        PROVE  \E p \in Row(disk, e, m[1]), q \in Row(disk, e, m[2]) : <<p.id, q.id>> \in disk.maps
    <3>1. PICK p, q \in disk.procs : /\ p.exec = e.id /\ p.name = m[1]
                                    /\ q.exec = e.id /\ q.name = m[2]
                                    /\ <<p.id, q.id>> \in disk.maps
      BY <2>1, <2>4 DEF MapsWhole
    <3> QED
      BY <2>2, <3>1
  <2> QED
    BY <2>1, <2>3, <2>4
<1> QED
  BY <1>1, Invariance, PTL

\* add_operations stores an operation on the row of the process that made it,
\* unless that process was refused its row.
THEOREM OperationsStayOwn == Spec => []OperationsBelong
<1>1. IInv => OperationsBelong
  <2> SUFFICES ASSUME IInv, NEW o \in disk.ops, o.from \notin refused
               PROVE  \E e \in disk.execs : /\ e.req.ts = o.from[1]
                                            /\ \E p \in Row(disk, e, o.from[2]) : p.id = o.proc
    BY DEF OperationsBelong
  <2>1. PICK e \in disk.execs, p \in disk.procs :
            o.from = <<e.req.ts, p.name>> /\ p.exec = e.id /\ p.id = o.proc
    BY DEF IInv, BelongInv, Belong
  <2>2. o.from[1] = e.req.ts /\ o.from[2] = p.name
    BY <2>1
  <2> QED
    BY <2>1, <2>2 DEF Row
<1> QED
  BY <1>1, Invariance, PTL
-----------------------------------------------------------------------------
(* The receiver does what JobStore promises. *)

LEMMA PushedBehind ==
    ASSUME NEW S, NEW l \in Seq(S), NEW q \in Seq(S), NEW r \in S
    PROVE  l \o Append(q, r) = Append(l \o q, r)
<1>1. <<r>> \in Seq(S) /\ l \o q \in Seq(S)
  BY ConcatProperties
<1>2. Append(q, r) = q \o <<r>> /\ Append(l \o q, r) = (l \o q) \o <<r>>
  BY <1>1, AppendIsConcat
<1> QED
  BY <1>1, <1>2, ConcatAssociative

LEMMA PoppedInFront ==
    ASSUME NEW S, NEW l \in Seq(S), NEW q \in Seq(S), l # <<>>
    PROVE  /\ l \o q # <<>> /\ Head(l \o q) = Head(l)
           /\ Tail(l \o q) = Tail(l) \o q
<1>1. l \o q \in Seq(S) /\ l \o q # <<>>
  BY ConcatProperties, ConcatEqualIffEmpty
<1>2. Len(l) \in Nat \ {0} /\ Len(q) \in Nat /\ Len(l \o q) = Len(l) + Len(q)
  BY EmptySeq, LenProperties, ConcatProperties
<1>3. \A i \in 1..Len(l) + Len(q) :
          (l \o q)[i] = IF i <= Len(l) THEN l[i] ELSE q[i - Len(l)]
  BY ConcatProperties
<1>4. Head(l \o q) = (l \o q)[1] /\ Head(l) = l[1]
  BY <1>1
<1>5. /\ Tail(l) \in Seq(S) /\ Len(Tail(l)) = Len(l) - 1
      /\ \A i \in 1..Len(l) - 1 : Tail(l)[i] = l[i + 1]
  BY HeadTailProperties
<1>6. /\ Tail(l \o q) \in Seq(S) /\ Len(Tail(l \o q)) = Len(l) + Len(q) - 1
      /\ \A i \in 1..Len(l) + Len(q) - 1 : Tail(l \o q)[i] = (l \o q)[i + 1]
  <2>1. /\ Tail(l \o q) \in Seq(S) /\ Len(Tail(l \o q)) = Len(l \o q) - 1
        /\ \A i \in 1..Len(Tail(l \o q)) : Tail(l \o q)[i] = (l \o q)[i + 1]
    BY <1>1, HeadTailProperties
  <2> QED
    BY <1>2, <2>1
<1>7. /\ Tail(l) \o q \in Seq(S) /\ Len(Tail(l) \o q) = Len(l) - 1 + Len(q)
      /\ \A i \in 1..Len(l) - 1 + Len(q) :
            (Tail(l) \o q)[i] = IF i <= Len(l) - 1 THEN Tail(l)[i] ELSE q[i - (Len(l) - 1)]
  <2>1. /\ Tail(l) \o q \in Seq(S) /\ Len(Tail(l) \o q) = Len(Tail(l)) + Len(q)
        /\ \A i \in 1..Len(Tail(l)) + Len(q) :
              (Tail(l) \o q)[i] = IF i <= Len(Tail(l)) THEN Tail(l)[i] ELSE q[i - Len(Tail(l))]
    BY <1>5, ConcatProperties
  <2> QED
    BY <1>5, <2>1
<1>8. ASSUME NEW i \in 1..Len(l) + Len(q) - 1
      PROVE  Tail(l \o q)[i] = (Tail(l) \o q)[i]
  <2>1. i + 1 \in 1..Len(l) + Len(q) /\ i \in 1..Len(l) - 1 + Len(q)
    BY <1>2
  <2>2. CASE i <= Len(l) - 1
    <3>1. i \in 1..Len(l) - 1 /\ i + 1 <= Len(l)
      BY <1>2, <2>2
    <3>2. (l \o q)[i + 1] = l[i + 1]
      BY <1>3, <2>1, <3>1
    <3>3. (Tail(l) \o q)[i] = l[i + 1]
      BY <1>5, <1>7, <2>1, <2>2, <3>1
    <3> QED
      BY <1>6, <3>2, <3>3
  <2>3. CASE ~(i <= Len(l) - 1)
    <3>1. ~(i + 1 <= Len(l)) /\ i + 1 - Len(l) = i - (Len(l) - 1)
      BY <1>2, <2>3
    <3>2. (l \o q)[i + 1] = q[i + 1 - Len(l)]
      BY <1>3, <2>1, <3>1
    <3>3. (Tail(l) \o q)[i] = q[i - (Len(l) - 1)]
      BY <1>7, <2>1, <2>3
    <3> QED
      BY <1>6, <3>1, <3>2, <3>3
  <2> QED
    BY <2>2, <2>3
<1>9. Tail(l \o q) = Tail(l) \o q
  <2> DEFINE s == Tail(l \o q)
             t == Tail(l) \o q
  <2>1. s \in Seq(S) /\ t \in Seq(S) /\ Len(s) = Len(t) /\ Len(s) = Len(l) + Len(q) - 1
    BY <1>2, <1>6, <1>7
  <2>2. \A i \in 1..Len(s) : s[i] = t[i]
    BY <1>8, <2>1
  <2> HIDE DEF s, t
  <2> QED
    BY <2>1, <2>2, SeqEqual DEF s, t
<1> QED
  BY <1>1, <1>2, <1>3, <1>4, <1>9

\* The worker serves the head of the inbox.
LEMMA Served ==
    ASSUME TypeOK, localQueue # <<>>, Pop, requestQueue' = requestQueue
    PROVE  Inbox # <<>> /\ Head(Inbox) = req /\ Inbox' = Tail(Inbox)
<1>1. localQueue \in Seq(Request) /\ requestQueue \in Seq(Request)
  BY DEF TypeOK
<1>2. /\ localQueue \o requestQueue # <<>> /\ Head(localQueue \o requestQueue) = Head(localQueue)
      /\ Tail(localQueue \o requestQueue) = Tail(localQueue) \o requestQueue
  BY <1>1, PoppedInFront
<1> QED
  BY <1>2 DEF Inbox, Pop, req

LEMMA Emptied == ASSUME localQueue = <<>>, requestQueue = <<>> PROVE Inbox = <<>>
  BY EmptySeq, ConcatEmptySeq DEF Inbox

LEMMA RefineInit == Init => Promise!Init
<1> SUFFICES ASSUME Init PROVE Promise!Init
  OBVIOUS
<1>1. Inbox = <<>>
  BY Emptied DEF Init
<1>2. {k \in Key : active[k] = "open"} = {}
  BY DEF Init
<1>3. disk.jobs = [j \in Job |-> NoJob] /\ {e.req : e \in disk.execs} = {}
  BY DEF Init, EmptyTables
<1> QED
  BY <1>1, <1>2, <1>3 DEF Promise!Init
LEMMA RefinePost ==
    ASSUME BaseInv, NEW type \in Types, NEW j \in Job, NEW b \in Bodies \cup {NoBody},
           Post(type, j, b)
    PROVE  [Promise!Next]_(Promise!vars)
<1> DEFINE r == [type |-> type, job |-> j, ts |-> posts + 1, body |-> b]
<1>1. r \in Request
  BY ReceiverAssumption DEF BaseInv, TypeOK, Post, Request
<1>2. localQueue' = localQueue /\ active' = active /\ disk' = disk
  BY DEF Post, worker, store
<1>3. requestQueue' = IF up THEN Append(requestQueue, r) ELSE requestQueue
  BY DEF Post, Enqueued
<1> HIDE DEF r
<1>4. CASE up
  <2>1. localQueue \o Append(requestQueue, r) = Append(localQueue \o requestQueue, r)
    BY <1>1, PushedBehind DEF BaseInv, TypeOK
  <2>2. Inbox' = Append(Inbox, r)
    BY <1>2, <1>3, <1>4, <2>1 DEF Inbox
  <2>3. Promise!Accept(r)
    BY <1>2, <2>2 DEF Promise!Accept
  <2> QED
    BY <1>1, <2>3 DEF Promise!Next
<1>5. CASE ~up
  BY <1>2, <1>3, <1>5 DEF Promise!vars, Inbox
<1> QED
  BY <1>4, <1>5

LEMMA RefineStart == ASSUME BaseInv, StartJob PROVE Promise!ApplyStart
<1>1. /\ localQueue # <<>> /\ Pop /\ requestQueue' = requestQueue /\ req.type = "start"
      /\ active' = [active EXCEPT ![key] = "open"] /\ TypeOK
  BY DEF BaseInv, StartJob, Taking, InitJob
<1>2. Inbox # <<>> /\ Head(Inbox) = req /\ Inbox' = Tail(Inbox)
  BY <1>1, Served
<1>3. Promise!Applies("start")
  BY <1>1, <1>2 DEF Promise!Applies
<1>4. {k \in Key : active'[k] = "open"} = {k \in Key : active[k] = "open"} \cup {KeyOf[req.job]}
  BY <1>1, ReqType DEF TypeOK, key
<1>5. /\ disk'.execs = disk.execs
      /\ disk'.jobs = IF disk.jobs[req.job] = NoJob
                      THEN [disk.jobs EXCEPT ![req.job] = [start |-> req.ts, end |-> 0]]
                      ELSE disk.jobs
  BY StartTables
<1> QED
  BY <1>2, <1>3, <1>4, <1>5 DEF Promise!ApplyStart

LEMMA RefineEnd == ASSUME BaseInv, EndJob PROVE Promise!ApplyEnd
<1>1. /\ localQueue # <<>> /\ Pop /\ requestQueue' = requestQueue /\ req.type = "end"
      /\ active' = [active EXCEPT ![key] = "none"] /\ TypeOK
  BY DEF BaseInv, EndJob, Taking, FinishJob
<1>2. Inbox # <<>> /\ Head(Inbox) = req /\ Inbox' = Tail(Inbox)
  BY <1>1, Served
<1>3. Promise!Applies("end")
  BY <1>1, <1>2 DEF Promise!Applies
<1>4. {k \in Key : active'[k] = "open"} = {k \in Key : active[k] = "open"} \ {KeyOf[req.job]}
  BY <1>1, ReqType DEF TypeOK, key
<1>5. KeyOf[req.job] \in {k \in Key : active[k] = "open"} <=> active[KeyOf[req.job]] = "open"
  BY <1>1, ReqType DEF key
<1>6. /\ disk'.execs = disk.execs
      /\ disk'.jobs = IF active[KeyOf[req.job]] = "open" /\ disk.jobs[req.job] # NoJob
                      THEN [disk.jobs EXCEPT ![req.job].end = req.ts]
                      ELSE disk.jobs
  BY EndTables
<1> QED
  BY <1>2, <1>3, <1>4, <1>5, <1>6 DEF Promise!ApplyEnd

LEMMA RefineCommit == ASSUME BaseInv, CurrentInv, CommitExec PROVE Promise!ApplyExec
<1>1. /\ InExec /\ Pop /\ requestQueue' = requestQueue /\ active' = active /\ disk' = txn
      /\ TypeOK
  BY DEF BaseInv, CommitExec, InExec
<1>2. /\ localQueue # <<>> /\ req.type = "exec" /\ active[key] = "open" /\ txn.jobs = disk.jobs
  BY <1>1 DEF BaseInv, QueueInv, InExec
<1>3. Inbox # <<>> /\ Head(Inbox) = req /\ Inbox' = Tail(Inbox)
  BY <1>1, <1>2, Served
<1>4. Promise!Applies("exec")
  BY <1>2, <1>3 DEF Promise!Applies
<1>5. KeyOf[req.job] \in {k \in Key : active[k] = "open"}
  BY <1>1, <1>2, ReqType DEF key
<1>6. {e.req : e \in txn.execs} =
        {e.req : e \in disk.execs} \cup {r \in {req} : disk.jobs[r.job] # NoJob}
  <2>1. ExecRow.req = req
    BY DEF ExecRow
  <2> HIDE DEF ExecRow
  <2>2. CASE disk.jobs[req.job] # NoJob
    <3>1. txn.execs = disk.execs \cup {ExecRow}
      BY <1>1, <2>2 DEF CurrentInv
    <3> QED
      BY <2>1, <2>2, <3>1
  <2>3. CASE disk.jobs[req.job] = NoJob
    <3>1. txn.execs = disk.execs
      BY <1>1, <2>3 DEF CurrentInv
    <3> QED
      BY <2>3, <3>1
  <2> QED
    BY <2>2, <2>3
<1> QED
  BY <1>1, <1>2, <1>3, <1>4, <1>5, <1>6 DEF Promise!ApplyExec

LEMMA RefineNext ==
    ASSUME BaseInv, CurrentInv, [Next]_vars
    PROVE  [Promise!Next]_(Promise!vars)
<1>1. ASSUME NEW j \in Job, PostStart(j) \/ PostExec(j) \/ PostEnd(j)
      PROVE  [Promise!Next]_(Promise!vars)
  BY <1>1, PostSteps, RefinePost
<1>2. ASSUME StartJob \/ EndJob \/ CommitExec PROVE Promise!Next
  BY <1>2, RefineStart, RefineEnd, RefineCommit DEF Promise!Next
<1>3. ASSUME Crash \/ ExecWithoutJob PROVE Promise!Next
  <2>1. Down
    BY <1>3 DEF Crash, ExecWithoutJob
  <2>2. Inbox' = <<>>
    <3>1. localQueue' = <<>> /\ requestQueue' = <<>>
      BY <2>1 DEF Down
    <3>2. <<>> \o <<>> = <<>>
      BY EmptySeq, ConcatEmptySeq
    <3> QED
      BY <3>1, <3>2 DEF Inbox
  <2>3. {k \in Key : active'[k] = "open"} = {} /\ disk' = disk
    BY <2>1 DEF Down
  <2>4. Promise!Forget
    BY <2>2, <2>3 DEF Promise!Forget
  <2>5. CASE Crash
    BY <2>4, <2>5 DEF Crash, Promise!Crash, Promise!Next
  <2>6. CASE ExecWithoutJob
    <3>1. TypeOK /\ localQueue # <<>> /\ req.type = "exec" /\ active[KeyOf[req.job]] # "open"
      BY <2>6 DEF BaseInv, ExecWithoutJob, Taking, key
    <3>2. Inbox # <<>> /\ Head(Inbox) = req
      BY <3>1, PoppedInFront DEF TypeOK, Inbox, req
    <3>3. Promise!DieOfExec
      BY <2>4, <3>1, <3>2 DEF Promise!DieOfExec
    <3> QED
      BY <3>3 DEF Promise!Next
  <2> QED
    BY <1>3, <2>5, <2>6
<1>4. ASSUME TakeAll PROVE UNCHANGED Promise!vars
  <2>1. localQueue = <<>> /\ localQueue' = requestQueue /\ requestQueue' = <<>>
    BY <1>4 DEF TakeAll, BaseInv, QueueInv
  <2>2. requestQueue \o <<>> = requestQueue /\ <<>> \o requestQueue = requestQueue
    BY ConcatEmptySeq DEF BaseInv, TypeOK
  <2>3. Inbox' = Inbox
    BY <2>1, <2>2 DEF Inbox
  <2> QED
    BY <1>4, <2>3 DEF TakeAll, store, Promise!vars
<1>5. ASSUME UNCHANGED <<localQueue, requestQueue, active, disk>>
      PROVE  UNCHANGED Promise!vars
  BY <1>5 DEF Promise!vars, Inbox
<1>6. ASSUME \/ AddExec \/ AddPairs \/ AddProcess \/ ProcessesDone
             \/ AddOperations \/ AddMappings \/ AddRenames
      PROVE  UNCHANGED <<localQueue, requestQueue, active, disk>>
  BY <1>6 DEF AddExec, AddPairs, AddProcess, ProcessesDone, AddOperations, AddMappings,
              AddRenames, store
<1>7. ASSUME Restart \/ UNCHANGED vars
      PROVE  UNCHANGED <<localQueue, requestQueue, active, disk>>
  BY <1>7 DEF Restart, vars, worker, store
<1> QED
  BY <1>1, <1>2, <1>3, <1>4, <1>5, <1>6, <1>7 DEF Next, Worker

\* Every step of the daemon is a step JobStore promises to its clients, or none
\* they see: a post puts a request in the inbox, the commits of Start and End
\* and the COMMIT of an exec apply the request at its head; what had not taken
\* effect is forgotten in a kill, or when an exec without a connection is taken.
THEOREM KeepsThePromise == Spec => RefinesJobStore
<1>1. IInv /\ [Next]_vars => [Promise!Next]_(Promise!vars)
  BY RefineNext DEF IInv
<1> QED
  BY <1>1, RefineInit, Invariance, PTL DEF Spec, RefinesJobStore, Promise!Spec
-----------------------------------------------------------------------------
(* With distinct keys, no kill and no late exec, the daemon stays up. *)

DistinctKeys == \A i, j \in Job : KeyOf[i] = KeyOf[j] => i = j

LEMMA InboxType ==
    ASSUME TypeOK PROVE Inbox \in Seq(Request) /\ Len(Inbox) \in Nat
  BY ConcatProperties, LenProperties DEF TypeOK, Inbox

LEMMA OpensWithout ==
    ASSUME NEW a, NEW q, NEW j, a[KeyOf[j]] = "open"
    PROVE  Opens(a, q, 1, j)
  BY DEF Opens

\* A post at the end of the queue changes nothing for the requests before it,
LEMMA OpensBefore ==
    ASSUME NEW a, NEW q \in Seq(Request), NEW r \in Request, NEW j,
           NEW i \in 1..Len(q) + 1, Opens(a, q, i, j)
    PROVE  Opens(a, Append(q, r), i, j)
<1>1. Len(q) \in Nat /\ \A k \in 1..Len(q) : Append(q, r)[k] = q[k]
  BY LenProperties, AppendProperties
<1>2. \A k \in 1..i - 1 : Append(q, r)[k] = q[k]
  BY <1>1
<1>3. \A s \in 1..i - 1 : \A k \in s..i - 1 : k \in 1..i - 1
  BY <1>1
<1> QED
  BY <1>2, <1>3 DEF Opens

\* and, unless it is the job's end, nothing for the job behind it.
LEMMA OpensBehind ==
    ASSUME NEW a, NEW q \in Seq(Request), NEW r \in Request, NEW j,
           Opens(a, q, Len(q) + 1, j), ~Ends(r, j)
    PROVE  Opens(a, Append(q, r), Len(q) + 2, j)
<1> DEFINE n == Len(q)
           u == Append(q, r)
<1>1. n \in Nat /\ (\A k \in 1..n : u[k] = q[k]) /\ u[n + 1] = r
  BY LenProperties, AppendProperties
<1> HIDE DEF n, u
<1>2. CASE a[KeyOf[j]] = "open" /\ \A k \in 1..n : ~Ends(q[k], j)
  <2>1. \A k \in 1..n + 1 : ~Ends(u[k], j)
    BY <1>1, <1>2
  <2>2. (n + 2) - 1 = n + 1
    BY <1>1
  <2> QED
    BY <1>2, <2>1, <2>2 DEF Opens, n, u
<1>3. ASSUME NEW s \in 1..n, Starts(q[s], j), \A k \in s..n : ~Ends(q[k], j)
      PROVE  Opens(a, u, n + 2, j)
  <2>1. s \in 1..n + 1 /\ Starts(u[s], j)
    BY <1>1, <1>3
  <2>2. \A k \in s..n + 1 : ~Ends(u[k], j)
    BY <1>1, <1>3
  <2>3. s \in 1..(n + 2) - 1 /\ (n + 2) - 1 = n + 1
    BY <1>1
  <2>4. \A k \in s..(n + 2) - 1 : ~Ends(u[k], j)
    BY <2>2, <2>3
  <2>5. \E x \in 1..(n + 2) - 1 : Starts(u[x], j) /\ \A k \in x..(n + 2) - 1 : ~Ends(u[k], j)
    BY <2>1, <2>3, <2>4
  <2> QED
    BY <2>5 DEF Opens
<1>4. n + 1 - 1 = n
  BY <1>1
<1> QED
  BY <1>2, <1>3, <1>4 DEF Opens, n, u

\* The post of a start opens the connection for what is behind it.
LEMMA OpensStarted ==
    ASSUME NEW a, NEW q \in Seq(Request), NEW r \in Request, NEW j, Starts(r, j)
    PROVE  Opens(a, Append(q, r), Len(q) + 2, j)
<1>1. Len(q) \in Nat /\ Append(q, r)[Len(q) + 1] = r
  BY LenProperties, AppendProperties
<1>2. ~Ends(r, j)
  BY DEF Starts, Ends
<1>3. \A k \in Len(q) + 1..(Len(q) + 2) - 1 : k = Len(q) + 1
  BY <1>1
<1>4. Len(q) + 1 \in 1..(Len(q) + 2) - 1
  BY <1>1
<1> QED
  BY <1>1, <1>2, <1>3, <1>4 DEF Opens

\* Serving the head of the queue moves the others forward.
LEMMA OpensServed ==
    ASSUME NEW a, NEW b, NEW q \in Seq(Request), q # <<>>, NEW j, NEW i \in 1..Len(q),
           Opens(a, q, i + 1, j),
           Starts(q[1], j) => b[KeyOf[j]] = "open",
           a[KeyOf[j]] = "open" /\ ~Ends(q[1], j) => b[KeyOf[j]] = "open"
    PROVE  Opens(b, Tail(q), i, j)
<1> DEFINE t == Tail(q)
<1>1. Len(q) \in Nat \ {0} /\ Len(t) = Len(q) - 1 /\ \A k \in 1..Len(q) - 1 : t[k] = q[k + 1]
  BY EmptySeq, LenProperties, HeadTailProperties
<1> HIDE DEF t
<1>2. \A k \in 1..i - 1 : t[k] = q[k + 1] /\ k + 1 \in 2..i
  BY <1>1
<1>3. i + 1 - 1 = i
  BY <1>1
<1>4. CASE a[KeyOf[j]] = "open" /\ \A k \in 1..i : ~Ends(q[k], j)
  <2>1. b[KeyOf[j]] = "open"
    BY <1>1, <1>4
  <2>2. \A k \in 1..i - 1 : ~Ends(t[k], j)
    BY <1>2, <1>4
  <2> QED
    BY <2>1, <2>2 DEF Opens, t
<1>5. ASSUME NEW s \in 1..i, Starts(q[s], j), \A k \in s..i : ~Ends(q[k], j)
      PROVE  Opens(b, t, i, j)
  <2>1. CASE s = 1
    <3>1. b[KeyOf[j]] = "open"
      BY <1>5, <2>1
    <3>2. \A k \in 1..i - 1 : ~Ends(t[k], j)
      BY <1>2, <1>5, <2>1
    <3> QED
      BY <3>1, <3>2 DEF Opens
  <2>2. CASE s # 1
    <3>1. s - 1 \in 1..i - 1 /\ t[s - 1] = q[s]
      BY <1>2, <2>2
    <3>2. \A k \in s - 1..i - 1 : k \in 1..i - 1 /\ k + 1 \in s..i
      BY <2>2
    <3>3. \A k \in s - 1..i - 1 : ~Ends(t[k], j)
      BY <1>2, <1>5, <3>2
    <3> QED
      BY <1>5, <3>1, <3>3 DEF Opens
  <2> QED
    BY <2>1, <2>2
<1> QED
  BY <1>3, <1>4, <1>5 DEF Opens, t
LEMMA OpenPosts ==
    ASSUME TypeOK, OpenInv, ~LateAllowed, NEW i \in Job, PostStart(i) \/ PostExec(i) \/ PostEnd(i)
    PROVE  OpenInv'
<1> DEFINE q == Inbox
           n == Len(q)
<1>1. q \in Seq(Request) /\ n \in Nat
  BY InboxType
<1>2. /\ up' = up /\ active' = active /\ up
      /\ phase \in [Job -> {"new", "running", "ended"}]
  BY DEF PostStart, PostExec, PostEnd, Post, store, OpenInv, TypeOK
<1>3. PICK r \in Request :
        /\ Inbox' = Append(q, r) /\ r.job = i
        /\ \/ r.type = "start" /\ phase' = [phase EXCEPT ![i] = "running"]
           \/ r.type = "exec" /\ phase[i] = "running" /\ phase' = phase
           \/ r.type = "end" /\ phase' = [phase EXCEPT ![i] = "ended"]
  <2>1. ASSUME NEW type \in Types, NEW b \in Bodies \cup {NoBody}, Post(type, i, b)
        PROVE  \E r \in Request : Inbox' = Append(q, r) /\ r.job = i /\ r.type = type
    <3> DEFINE r == [type |-> type, job |-> i, ts |-> posts + 1, body |-> b]
    <3>1. r \in Request /\ r.job = i /\ r.type = type
      BY <2>1, ReceiverAssumption DEF TypeOK, Post, Request
    <3>2. localQueue' = localQueue /\ requestQueue' = Append(requestQueue, r)
      BY <1>2, <2>1 DEF Post, Enqueued, worker
    <3> HIDE DEF r
    <3>3. localQueue \o Append(requestQueue, r) = Append(localQueue \o requestQueue, r)
      BY <3>1, PushedBehind DEF TypeOK
    <3> QED
      BY <3>1, <3>2, <3>3 DEF Inbox
  <2> HIDE DEF q
  <2>2. "start" \in Types /\ "exec" \in Types /\ "end" \in Types
    BY DEF Types
  <2>3. CASE PostStart(i)
    BY <2>1, <2>2, <2>3 DEF PostStart
  <2>4. CASE PostExec(i)
    BY <2>1, <2>2, <2>4 DEF PostExec
  <2>5. CASE PostEnd(i)
    BY <2>1, <2>2, <2>5 DEF PostEnd
  <2> QED
    BY <2>3, <2>4, <2>5
<1> DEFINE u == Append(q, r)
<1>4. /\ Len(u) = n + 1 /\ u[n + 1] = r
      /\ \A k \in 1..n : u[k] = q[k]
  BY <1>1, AppendProperties, LenProperties
<1>5. QueueOpens(active, q) /\ RunningOpens(active, q, phase)
  BY DEF OpenInv
<1>6. QueueOpens(active, u)
  <2> SUFFICES ASSUME NEW k \in 1..n + 1, u[k].type = "exec"
               PROVE  Opens(active, u, k, u[k].job)
    BY <1>4 DEF QueueOpens
  <2>1. CASE k \in 1..n
    <3>1. Opens(active, q, k, u[k].job)
      BY <1>4, <1>5, <2>1 DEF QueueOpens
    <3> QED
      BY <1>1, <3>1, OpensBefore
  <2>2. CASE k = n + 1
    <3>1. Opens(active, q, n + 1, i)
      BY <1>3, <1>4, <1>5, <2>2 DEF RunningOpens
    <3>2. u[k].job = i
      BY <1>3, <1>4, <2>2
    <3> QED
      BY <1>1, <2>2, <3>1, <3>2, OpensBefore
  <2> QED
    BY <1>1, <2>1, <2>2
<1>7. RunningOpens(active, u, phase')
  <2> SUFFICES ASSUME NEW j \in Job, phase'[j] = "running"
               PROVE  Opens(active, u, n + 2, j)
    BY <1>1, <1>4 DEF RunningOpens
  <2>1. CASE Starts(r, j)
    BY <1>1, <2>1, OpensStarted
  <2>2. CASE ~Starts(r, j)
    <3>1. phase[j] = "running" /\ ~Ends(r, j)
      BY <1>2, <1>3, <2>2 DEF Starts, Ends
    <3>2. Opens(active, q, n + 1, j)
      BY <1>5, <3>1 DEF RunningOpens
    <3> QED
      BY <1>1, <3>1, <3>2, OpensBehind
  <2> QED
    BY <2>1, <2>2
<1> QED
  BY <1>2, <1>3, <1>6, <1>7 DEF OpenInv

LEMMA OpenServes ==
    ASSUME TypeOK, OpenInv, DistinctKeys, localQueue # <<>>, Pop,
           UNCHANGED <<up, senders, requestQueue>>,
           \/ req.type = "start" /\ active' = [active EXCEPT ![key] = "open"]
           \/ req.type = "end" /\ active' = [active EXCEPT ![key] = "none"]
           \/ req.type = "exec" /\ active' = active
    PROVE  OpenInv'
<1> DEFINE q == Inbox
           t == Tail(q)
<1>1. q \in Seq(Request) /\ q # <<>> /\ Head(q) = req /\ Inbox' = t
  BY Served, InboxType
<1>2. Len(q) \in Nat \ {0} /\ q[1] = req
  BY <1>1, EmptySeq
<1>3. Len(t) = Len(q) - 1 /\ \A k \in 1..Len(q) - 1 : t[k] = q[k + 1]
  BY <1>1, HeadTailProperties
<1>4. QueueOpens(active, q) /\ RunningOpens(active, q, phase) /\ up' /\ phase' = phase
  BY DEF OpenInv, senders
<1> HIDE DEF q, t
<1>5. ASSUME NEW j \in Job
      PROVE  /\ Starts(req, j) => active'[KeyOf[j]] = "open"
             /\ active[KeyOf[j]] = "open" /\ ~Ends(req, j) => active'[KeyOf[j]] = "open"
  <2>1. req.job \in Job /\ KeyOf[j] \in Key /\ DOMAIN active = Key
    BY ReqType DEF Key, TypeOK
  <2>2. KeyOf[j] = key => j = req.job
    BY <2>1 DEF DistinctKeys, key
  <2> QED
    BY <2>1, <2>2 DEF Starts, Ends, key
<1>6. ASSUME NEW j \in Job, NEW i \in 1..Len(q), Opens(active, q, i + 1, j)
      PROVE  Opens(active', t, i, j)
  BY <1>1, <1>2, <1>5, <1>6, OpensServed DEF t
<1>7. QueueOpens(active', t)
  <2> SUFFICES ASSUME NEW k \in 1..Len(t), t[k].type = "exec"
               PROVE  Opens(active', t, k, t[k].job)
    BY DEF QueueOpens
  <2>1. k \in 1..Len(q) /\ k + 1 \in 1..Len(q) /\ t[k] = q[k + 1]
    BY <1>2, <1>3
  <2>2. Opens(active, q, k + 1, t[k].job)
    BY <1>4, <2>1 DEF QueueOpens
  <2>3. t[k] \in Request
    BY <1>1, <2>1, ElementOfSeq
  <2>4. t[k].job \in Job
    BY <2>3 DEF Request
  <2> QED
    BY <1>6, <2>1, <2>2, <2>4
<1>8. RunningOpens(active', t, phase)
  <2> SUFFICES ASSUME NEW j \in Job, phase[j] = "running"
               PROVE  Opens(active', t, Len(t) + 1, j)
    BY DEF RunningOpens
  <2>1. Opens(active, q, Len(q) + 1, j)
    BY <1>4 DEF RunningOpens
  <2>2. Len(q) \in 1..Len(q) /\ Len(t) + 1 = Len(q)
    BY <1>2, <1>3
  <2> QED
    BY <1>6, <2>1, <2>2
<1> QED
  BY <1>1, <1>4, <1>7, <1>8 DEF OpenInv

LEMMA OpenInit == Init => OpenInv
<1> SUFFICES ASSUME Init PROVE OpenInv
  OBVIOUS
<1>1. Inbox = <<>> /\ up /\ \A j \in Job : phase[j] # "running"
  BY Emptied DEF Init
<1>2. Len(<<>>) = 0
  BY EmptySeq
<1> QED
  BY <1>1, <1>2 DEF OpenInv, QueueOpens, RunningOpens

LEMMA OpenNext ==
    ASSUME DistinctKeys, ~CrashAllowed, ~LateAllowed, BaseInv, OpenInv, [Next]_vars
    PROVE  OpenInv'
<1>1. ASSUME NEW j \in Job, PostStart(j) \/ PostExec(j) \/ PostEnd(j) PROVE OpenInv'
  BY <1>1, OpenPosts DEF BaseInv
<1>2. ASSUME StartJob \/ EndJob PROVE OpenInv'
  BY <1>2, OpenServes DEF BaseInv, StartJob, EndJob, Taking, InitJob, FinishJob
<1>3. ASSUME CommitExec PROVE OpenInv'
  <2>1. req.type = "exec" /\ localQueue # <<>> /\ TypeOK
    BY <1>3 DEF CommitExec, BaseInv, QueueInv, InExec
  <2> QED
    BY <1>3, <2>1, OpenServes DEF CommitExec
<1>4. ASSUME ExecWithoutJob PROVE FALSE
  <2>1. localQueue \in Seq(Request) /\ requestQueue \in Seq(Request) /\ localQueue # <<>>
    BY <1>4 DEF BaseInv, TypeOK, ExecWithoutJob, Taking
  <2>2. Inbox # <<>> /\ Head(Inbox) = req
    BY <2>1, PoppedInFront DEF Inbox, req
  <2>3. 1 \in 1..Len(Inbox) /\ Inbox[1] = req
    <3>1. Inbox \in Seq(Request)
      BY InboxType DEF BaseInv
    <3>2. Len(Inbox) \in Nat \ {0}
      BY <2>2, <3>1, EmptySeq
    <3>3. Head(Inbox) = Inbox[1]
      BY <2>2, <3>1
    <3> QED
      BY <2>2, <3>2, <3>3
  <2>4. Opens(active, Inbox, 1, req.job)
    BY <1>4, <2>3 DEF OpenInv, QueueOpens, ExecWithoutJob, Taking
  <2>5. active[key] = "open"
    <3>1. 1..1 - 1 = {}
      OBVIOUS
    <3> QED
      BY <2>4, <3>1 DEF Opens, key
  <2> QED
    BY <1>4, <2>5 DEF ExecWithoutJob
<1>5. ASSUME Crash \/ Restart PROVE FALSE
  BY <1>5 DEF Crash, Restart, OpenInv
<1>6. ASSUME TakeAll PROVE OpenInv'
  <2>1. localQueue = <<>> /\ localQueue' = requestQueue /\ requestQueue' = <<>>
    BY <1>6 DEF TakeAll, BaseInv, QueueInv
  <2>2. requestQueue \o <<>> = requestQueue /\ <<>> \o requestQueue = requestQueue
    BY ConcatEmptySeq DEF BaseInv, TypeOK
  <2>3. Inbox' = Inbox
    BY <2>1, <2>2 DEF Inbox
  <2> QED
    BY <1>6, <2>3 DEF TakeAll, store, senders, OpenInv
<1>7. ASSUME UNCHANGED <<localQueue, requestQueue, active, up, phase>> PROVE OpenInv'
  BY <1>7 DEF OpenInv, Inbox
<1>8. ASSUME \/ AddExec \/ AddPairs \/ AddProcess \/ ProcessesDone
             \/ AddOperations \/ AddMappings \/ AddRenames
      PROVE  UNCHANGED <<localQueue, requestQueue, active, up, phase>>
  BY <1>8 DEF AddExec, AddPairs, AddProcess, ProcessesDone, AddOperations, AddMappings,
              AddRenames, store, senders
<1>9. ASSUME UNCHANGED vars PROVE UNCHANGED <<localQueue, requestQueue, active, up, phase>>
  BY <1>9 DEF vars, worker, store, senders
<1> QED
  BY <1>1, <1>2, <1>3, <1>4, <1>5, <1>6, <1>7, <1>8, <1>9 DEF Next, Worker

\* The worker comes to an exec with sqlite3_last_insert_rowid(NULL) only where
\* two jobs share a key, the daemon was killed, or an exec followed its job's
\* end: none of these, and the daemon stays up, however many jobs post however
\* their posts and the worker's steps interleave.
THEOREM StaysUpWithDistinctKeys ==
    ASSUME DistinctKeys, ~CrashAllowed, ~LateAllowed
    PROVE  Spec => []StaysUp
<1>1. Init => BaseInv /\ OpenInv
  BY BaseInit, OpenInit
<1>2. (BaseInv /\ OpenInv) /\ [Next]_vars => (BaseInv /\ OpenInv)'
  BY BaseNext, OpenNext
<1>3. BaseInv /\ OpenInv => StaysUp
  BY DEF OpenInv, StaysUp
<1> QED
  BY <1>1, <1>2, <1>3, PTL DEF Spec
=============================================================================
