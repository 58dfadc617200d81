--------------------------- MODULE FileHistoryProofs ---------------------------
(* Theorems about FileHistory, for every number of threads, processes,     *)
(* paths and calls.                                                        *)
EXTENDS FileHistory, ProcessorProofs, SequenceTheorems

(* The inductive invariant. *)

Stamps(c) == {Event(op, 2 * n) : op \in Operation, n \in 1..c}
Starts(p, c) == {Start(q, 2 * n - 1) : q \in {r \in Proc : IdOf[r] = IdOf[p]}, n \in 1..c}

\* A thread whose call is made has its Operation, once it is stamped with a stamp.
Waiting == {unstamped[i] : i \in DOMAIN unstamped}
ThreadInv ==
    /\ clock \in Nat
    /\ born \subseteq Proc
    /\ unstamped \in Seq(Thread)
    /\ \A i, j \in DOMAIN unstamped : unstamped[i] = unstamped[j] => i = j
    /\ pending = [t \in Thread |-> pending[t]]
    /\ \A t \in Thread : IF t \in Waiting THEN pending[t] \in Operation
                         ELSE pending[t] \in Stamps(clock) \cup {NoCall}

\* A file is the START of its process, or of the one it was forked from, and
\* Operations that are later, or oddly early.
FileOK(p, file, c, oddities) ==
    /\ file \in Seq(Starts(p, c) \cup Stamps(c))
    /\ file # << >> =>
        /\ file[1] \in Starts(p, c)
        /\ \A k \in 2..Len(file) :
            /\ file[k] \in Stamps(c)
            /\ file[1].ts < file[k].ts \/ <<"early", IdOf[p]>> \in oddities
LogInv ==
    /\ log = [p \in Proc |-> log[p]]
    /\ \A p \in Proc : FileOK(p, log[p], clock, odd)
    /\ IsFiniteSet({p \in Proc : log[p] # << >>})

WorldInv ==
    /\ place \in [Object -> Path] /\ first \in [Object -> Path]
    /\ alive \subseteq Object
    /\ IsFiniteSet(Object) /\ Original \subseteq Object
    /\ \A o \in Object \ Original : o \in 1..Cardinality(Object)

BaseInv == ThreadInv /\ LogInv /\ WorldInv
-----------------------------------------------------------------------------
(* Operations and stamps. *)

LEMMA OperationIs ==
    ASSUME NEW e \in Operation
    PROVE  /\ e.op \in {"READ", "WRITE", "UNLINK", "RENAME", "TRANSFER"}
           /\ "op" \in DOMAIN e /\ "ts" \notin DOMAIN e
           /\ e # NoCall
  BY FileHistoryAssumption DEF Operation

LEMMA EventIs ==
    ASSUME NEW e \in Operation, NEW ts \in Nat
    PROVE  /\ Event(e, ts).op = e.op
           /\ Event(e, ts).ts = ts
           /\ \A field \in DOMAIN e : Event(e, ts)[field] = e[field]
           /\ DOMAIN Event(e, ts) = DOMAIN e \cup {"ts"}
           /\ Event(e, ts) \in Stamped
           /\ Event(e, ts) # NoCall
<1> DEFINE r == Event(e, ts)
<1>1. /\ r = [k \in DOMAIN e \cup {"ts"} |-> IF k = "ts" THEN ts ELSE e[k]]
      /\ "op" \in DOMAIN e /\ "ts" \notin DOMAIN e
  BY OperationIs DEF Event, With
<1>2. r \in Stamped
  <2>1. CASE e \in [op : Kinds, path : String]
    <3>1. r = [op |-> e.op, path |-> e.path, ts |-> ts]
      BY <1>1, <2>1
    <3> QED
      BY <2>1, <3>1 DEF Stamped
  <2>2. CASE e \in [op : Kinds, from : String, to : String]
    <3>1. r = [op |-> e.op, from |-> e.from, to |-> e.to, ts |-> ts]
      BY <1>1, <2>2
    <3> QED
      BY <2>2, <3>1 DEF Stamped
  <2> QED
    BY <2>1, <2>2 DEF Operation
<1> HIDE DEF r
<1>3. r.op = e.op /\ r.ts = ts /\ \A field \in DOMAIN e : r[field] = e[field]
  BY <1>1
<1>4. DOMAIN r = DOMAIN e \cup {"ts"}
  BY <1>1
<1> QED
  BY <1>2, <1>3, <1>4, FileHistoryAssumption DEF r
LEMMA StampIs ==
    ASSUME NEW c \in Nat, NEW e \in Stamps(c)
    PROVE  /\ e.op \in {"READ", "WRITE", "UNLINK", "RENAME", "TRANSFER"}
           /\ e # NoCall
           /\ \E n \in 1..c : e.ts = 2 * n
<1>1. PICK op \in Operation, n \in 1..c : e = Event(op, 2 * n)
  BY DEF Stamps
<1>2. 2 * n \in Nat
  BY <1>1
<1> QED
  BY <1>1, <1>2, EventIs, OperationIs

LEMMA StartIs ==
    ASSUME NEW c \in Nat, NEW p, NEW e \in Starts(p, c)
    PROVE  /\ e.op = "START" /\ e.id = IdOf[p]
           /\ e.ts \in Nat /\ \E n \in 1..c : e.ts = 2 * n - 1
<1>1. PICK q \in {r \in Proc : IdOf[r] = IdOf[p]}, n \in 1..c : e = Start(q, 2 * n - 1)
  BY DEF Starts
<1> QED
  BY <1>1 DEF Start

LEMMA StampsGrow ==
    ASSUME NEW c \in Nat, NEW d \in Nat, c <= d
    PROVE  Stamps(c) \subseteq Stamps(d) /\ \A p : Starts(p, c) \subseteq Starts(p, d)
<1>1. \A n \in 1..c : n \in 1..d
  OBVIOUS
<1>2. Stamps(c) \subseteq Stamps(d)
  BY <1>1 DEF Stamps
<1>3. \A p : Starts(p, c) \subseteq Starts(p, d)
  BY <1>1 DEF Starts
<1> QED
  BY <1>2, <1>3

LEMMA FileStays ==
    ASSUME NEW c \in Nat, NEW d \in Nat, c <= d, NEW odds, NEW odders, odds \subseteq odders,
           NEW p, NEW file, FileOK(p, file, c, odds)
    PROVE  FileOK(p, file, d, odders)
<1>1. Stamps(c) \subseteq Stamps(d) /\ Starts(p, c) \subseteq Starts(p, d)
  BY StampsGrow
<1>2. file \in Seq(Starts(p, c) \cup Stamps(c))
  BY DEF FileOK
<1>3. file \in Seq(Starts(p, d) \cup Stamps(d))
  <2>1. Starts(p, c) \cup Stamps(c) \subseteq Starts(p, d) \cup Stamps(d)
    BY <1>1
  <2> QED
    BY <1>2, <2>1
<1> QED
  BY <1>1, <1>3 DEF FileOK

LEMMA RemoveAtIs ==
    ASSUME NEW S, NEW s \in Seq(S), NEW i \in DOMAIN s
    PROVE  /\ RemoveAt(s, i) \in Seq(S)
           /\ Len(RemoveAt(s, i)) = Len(s) - 1
           /\ \A j \in 1..Len(s) - 1 : RemoveAt(s, i)[j] = IF j < i THEN s[j] ELSE s[j + 1]
<1> DEFINE a == SubSeq(s, 1, i - 1)
           b == SubSeq(s, i + 1, Len(s))
<1>1. i \in 1..Len(s) /\ Len(s) \in Nat
  OBVIOUS
<1>2. a \in Seq(S) /\ Len(a) = i - 1 /\ \A j \in 1..i - 1 : a[j] = s[j]
  BY <1>1
<1>3. b \in Seq(S) /\ Len(b) = Len(s) - i /\ \A j \in 1..Len(s) - i : b[j] = s[i + j]
  BY <1>1
<1> HIDE DEF a, b
<1>4. a \o b \in Seq(S) /\ Len(a \o b) = Len(s) - 1
  BY <1>1, <1>2, <1>3
<1>6. \A j \in 1..Len(a) + Len(b) : (a \o b)[j] = IF j <= Len(a) THEN a[j] ELSE b[j - Len(a)]
  BY <1>2, <1>3, ConcatProperties
<1>5. ASSUME NEW j \in 1..Len(s) - 1
      PROVE  (a \o b)[j] = IF j < i THEN s[j] ELSE s[j + 1]
  <2>3. j \in 1..Len(a) + Len(b)
    BY <1>1, <1>2, <1>3
  <2>1. CASE j < i
    BY <1>1, <1>2, <1>6, <2>1, <2>3
  <2>2. CASE ~(j < i)
    <3>3. j - (i - 1) \in 1..Len(s) - i /\ ~(j <= Len(a))
      BY <1>1, <1>2, <2>2
    <3>4. (a \o b)[j] = b[j - Len(a)]
      BY <1>6, <2>3, <3>3
    <3>1. (a \o b)[j] = b[j - (i - 1)] /\ j - (i - 1) \in 1..Len(s) - i
      BY <1>2, <3>3, <3>4
    <3>2. i + (j - (i - 1)) = j + 1
      BY <1>1
    <3> QED
      BY <1>3, <2>2, <3>1, <3>2
  <2> QED
    BY <2>1, <2>2
<1> QED
  BY <1>4, <1>5 DEF RemoveAt, a, b

\* The threads left when one is removed are the others, in the same order.
LEMMA RemoveThread ==
    ASSUME ThreadInv, NEW i \in DOMAIN unstamped, NEW t, unstamped[i] = t,
           unstamped' = RemoveAt(unstamped, i)
    PROVE  /\ unstamped' \in Seq(Thread)
           /\ \A j, k \in DOMAIN unstamped' : unstamped'[j] = unstamped'[k] => j = k
           /\ Waiting' = Waiting \ {t}
<1> DEFINE n == Len(unstamped)
<1>1. unstamped \in Seq(Thread) /\ n \in Nat /\ i \in 1..n
      /\ \A j, k \in 1..n : unstamped[j] = unstamped[k] => j = k
  BY DEF ThreadInv
<1>2. /\ unstamped' \in Seq(Thread) /\ Len(unstamped') = n - 1
      /\ \A j \in 1..n - 1 : unstamped'[j] = IF j < i THEN unstamped[j] ELSE unstamped[j + 1]
  BY <1>1, RemoveAtIs
<1>3. \A j, k \in 1..n - 1 : unstamped'[j] = unstamped'[k] => j = k
  BY <1>1, <1>2
<1>4. DOMAIN unstamped' = 1..n - 1 /\ DOMAIN unstamped = 1..n
  BY <1>1, <1>2
<1>5. ASSUME NEW u \in Waiting' PROVE u \in Waiting \ {t}
  <2>1. PICK j \in 1..n - 1 : u = unstamped'[j]
    BY <1>4 DEF Waiting
  <2>2. CASE j < i
    BY <1>1, <1>2, <1>4, <2>1, <2>2 DEF Waiting
  <2>3. CASE ~(j < i)
    <3>1. j + 1 \in 1..n /\ j + 1 # i
      BY <1>1, <2>3
    <3> QED
      BY <1>1, <1>2, <1>4, <2>1, <2>3, <3>1 DEF Waiting
  <2> QED
    BY <2>2, <2>3
<1>6. ASSUME NEW u \in Waiting \ {t} PROVE u \in Waiting'
  <2>1. PICK j \in 1..n : u = unstamped[j] /\ j # i
    BY <1>4 DEF Waiting
  <2>2. CASE j < i
    <3>1. j \in 1..n - 1
      BY <1>1, <2>2
    <3> QED
      BY <1>2, <1>4, <2>1, <2>2, <3>1 DEF Waiting
  <2>3. CASE ~(j < i)
    <3>1. j - 1 \in 1..n - 1 /\ ~(j - 1 < i) /\ j - 1 + 1 = j
      BY <1>1, <2>1, <2>3
    <3> QED
      BY <1>2, <1>4, <2>1, <3>1 DEF Waiting
  <2> QED
    BY <2>2, <2>3
<1> QED
  BY <1>2, <1>3, <1>4, <1>5, <1>6

\* A descriptor has the path of its file, or none of Path if that is gone.
LEMMA NameIs ==
    ASSUME WorldInv, NEW o \in Object
    PROVE  /\ place[o] \in Path /\ Name(o) \in String
           /\ o \in alive => Name(o) = place[o]
           /\ o \notin alive => Name(o) \notin Path
<1>1. place[o] \in Path
  BY DEF WorldInv
<1>2. <<"deleted", place[o]>> \in {"relative", "deleted"} \X Path
  BY <1>1
<1>3. <<"deleted", place[o]>> \notin Path
  BY <1>2, FileHistoryAssumption
<1>4. CASE o \in alive
  BY <1>1, <1>4 DEF Name, String
<1>5. CASE o \notin alive
  BY <1>1, <1>2, <1>3, <1>5 DEF Name, String
<1> QED
  BY <1>4, <1>5

\* A call that does what is not found, or is found and does nothing, is odd.
LEMMA Outcomes ==
    ASSUME NEW done, NEW objects, Outcome(done, objects)
    PROVE  /\ odd \subseteq odd'
           /\ \/ /\ did' = did \cup done
                 /\ \A o \in objects : o \in alive \/ <<"unlinked", place[o]>> \in odd'
              \/ /\ did' = did
                 /\ \A o \in objects : o \notin alive \/ <<"attempted", place[o]>> \in odd'
<1>1. CASE /\ did' = did \cup done
           /\ odd' = odd \cup Odd("unlinked", {place[o] : o \in objects \ alive})
  BY <1>1 DEF Odd
<1>2. CASE /\ did' = did
           /\ odd' = odd \cup Odd("attempted", {place[o] : o \in objects \cap alive})
  BY <1>2 DEF Odd
<1> QED
  BY <1>1, <1>2 DEF Outcome

\* A call enters with an Operation of its kind.
LEMMA CallEnters ==
    ASSUME WorldInv, NEW t \in Thread, Call(t)
    PROVE  /\ \E e \in Operation : \E asked : Enter(t, e, asked)
           /\ odd \subseteq odd'
<1>2. \A path \in Path : Spelled(path) \subseteq String
  BY DEF Spelled, String
<1>3. CASE \E path \in Path : Create(t, path)
  <2>1. PICK path \in Path : Create(t, path)
    BY <1>3
  <2> DEFINE e == [op |-> "WRITE", path |-> path]
  <2>2. Enter(t, e, {1 + Cardinality(Object)})
    BY <2>1 DEF Create
  <2>3. e \in Operation
    BY <2>2 DEF Operation, String, Enter, MayCall
  <2> QED
    BY <2>1, <2>2, <2>3 DEF Create
<1>4. CASE \E path \in Path : Unlink(t, path)
  <2>1. PICK path \in Path : Unlink(t, path)
    BY <1>4
  <2>2. PICK s \in Spelled(path) :
            /\ Enter(t, [op |-> "UNLINK", path |-> s], On(path))
            /\ odd' = odd \cup Odd("relative", {path} \ {s})
    BY <2>1 DEF Unlink
  <2>3. [op |-> "UNLINK", path |-> s] \in Operation
    BY <1>2, <2>2 DEF Operation, Enter, MayCall
  <2> QED
    BY <2>2, <2>3
<1>5. CASE \E path \in Path, to \in Path : Rename(t, path, to)
  <2>1. PICK path \in Path, to \in Path : Rename(t, path, to)
    BY <1>5
  <2>2. PICK s \in Spelled(path), r \in Spelled(to) :
            /\ Enter(t, [op |-> "RENAME", from |-> s, to |-> r], {})
            /\ odd \subseteq odd'
    BY <2>1 DEF Rename
  <2>3. [op |-> "RENAME", from |-> s, to |-> r] \in Operation
    BY <1>2, <2>2 DEF Operation, Enter, MayCall
  <2> QED
    BY <2>2, <2>3
<1>6. CASE \E o \in Object : \E op \in Kinds : Access(t, op, o)
  <2>1. PICK o \in Object, op \in Kinds : Access(t, op, o)
    BY <1>6
  <2>2. Enter(t, [op |-> op, path |-> Name(o)], {o} \cap alive) /\ odd \subseteq odd'
    BY <2>1, Outcomes DEF Access
  <2>3. [op |-> op, path |-> Name(o)] \in Operation
    BY <2>1, NameIs DEF Operation
  <2> QED
    BY <2>2, <2>3
<1>7. CASE \E o, to \in Object : Transfer(t, o, to)
  <2>1. PICK o \in Object, to \in Object : Transfer(t, o, to)
    BY <1>7
  <2> DEFINE e == [op |-> "TRANSFER", from |-> Name(o), to |-> Name(to)]
  <2>2. Enter(t, e, {o} \cap alive) /\ odd \subseteq odd'
    BY <2>1, Outcomes DEF Transfer
  <2>3. e \in Operation
    BY <2>1, <2>2, NameIs DEF Operation, Enter, MayCall
  <2> QED
    BY <2>2, <2>3
<1>8. CASE Fail(t)
  <2>1. PICK path \in Path :
        \/ /\ Enter(t, [op |-> "UNLINK", path |-> path], {})
           /\ odd' = odd \cup Odd("failed", {path})
        \/ \E to \in Path \ {path} :
              /\ Enter(t, [op |-> "RENAME", from |-> path, to |-> to], {})
              /\ odd' = odd \cup Odd("failed", {path, to})
    BY <1>8 DEF Fail
  <2>2. CASE /\ Enter(t, [op |-> "UNLINK", path |-> path], {})
             /\ odd' = odd \cup Odd("failed", {path})
    <3>1. [op |-> "UNLINK", path |-> path] \in Operation
      BY <2>2 DEF Operation, String, Enter, MayCall
    <3> QED
      BY <2>2, <3>1
  <2>3. CASE \E to \in Path \ {path} :
              /\ Enter(t, [op |-> "RENAME", from |-> path, to |-> to], {})
              /\ odd' = odd \cup Odd("failed", {path, to})
    <3>1. PICK to \in Path \ {path} :
              /\ Enter(t, [op |-> "RENAME", from |-> path, to |-> to], {})
              /\ odd' = odd \cup Odd("failed", {path, to})
      BY <2>3
    <3>2. [op |-> "RENAME", from |-> path, to |-> to] \in Operation
      BY <3>1 DEF Operation, String, Enter, MayCall
    <3> QED
      BY <3>1, <3>2
  <2> QED
    BY <2>1, <2>2, <2>3
<1> QED
  BY <1>3, <1>4, <1>5, <1>6, <1>7, <1>8 DEF Call
-----------------------------------------------------------------------------
(* The threads and the logs keep their shape. *)

LEMMA EnterKeeps ==
    ASSUME ThreadInv, LogInv, NEW t \in Thread, NEW e \in Operation, NEW asked,
           Enter(t, e, asked), odd \subseteq odd'
    PROVE  ThreadInv' /\ LogInv'
<1>1. /\ pending' = [pending EXCEPT ![t] = e] /\ unstamped' = Append(unstamped, t)
      /\ pending[t] = NoCall
      /\ UNCHANGED <<log, clock, born>>
  BY DEF Enter, MayCall
<1>2. /\ unstamped \in Seq(Thread) /\ clock \in Nat
      /\ \A i, j \in DOMAIN unstamped : unstamped[i] = unstamped[j] => i = j
      /\ pending = [u \in Thread |-> pending[u]]
  BY DEF ThreadInv
<1>3. t \notin Waiting
  <2>1. pending[t] \notin Operation
    BY <1>1, OperationIs
  <2> QED
    BY <2>1 DEF ThreadInv
<1>4. \A i \in DOMAIN unstamped : unstamped[i] # t
  BY <1>3 DEF Waiting
<1> DEFINE n == Len(unstamped)
<1>5. /\ unstamped' \in Seq(Thread) /\ DOMAIN unstamped' = 1..n + 1 /\ DOMAIN unstamped = 1..n
      /\ n \in Nat
      /\ \A i \in 1..n : unstamped'[i] = unstamped[i]
      /\ unstamped'[n + 1] = t
  BY <1>1, <1>2
<1>6. Waiting' = Waiting \cup {t}
  BY <1>5 DEF Waiting
<1>7. \A i, j \in DOMAIN unstamped' : unstamped'[i] = unstamped'[j] => i = j
  <2> SUFFICES ASSUME NEW i \in 1..n + 1, NEW j \in 1..n + 1, unstamped'[i] = unstamped'[j]
               PROVE  i = j
    BY <1>5
  <2>1. CASE i \in 1..n /\ j \in 1..n
    BY <1>2, <1>5, <2>1
  <2>2. CASE i = n + 1 /\ j = n + 1
    BY <2>2
  <2>3. CASE i \in 1..n /\ j = n + 1
    BY <1>4, <1>5, <2>3
  <2>4. CASE i = n + 1 /\ j \in 1..n
    BY <1>4, <1>5, <2>4
  <2> QED
    BY <1>5, <2>1, <2>2, <2>3, <2>4
<1>8. clock' = clock
  BY <1>1
<1>9. ThreadInv'
  <2>1. ASSUME NEW u \in Thread
        PROVE  IF u \in Waiting' THEN pending'[u] \in Operation
               ELSE pending'[u] \in Stamps(clock') \cup {NoCall}
    <3>1. CASE u = t
      <4>1. pending'[u] = e
        BY <1>1, <1>2, <3>1
      <4> QED
        BY <1>6, <3>1, <4>1
    <3>2. CASE u # t
      <4>1. pending'[u] = pending[u]
        BY <1>1, <1>2, <3>2
      <4> QED
        BY <1>6, <1>8, <3>2, <4>1 DEF ThreadInv
    <3> QED
      BY <3>1, <3>2
  <2>2. pending' = [u \in Thread |-> pending'[u]]
    BY <1>1, <1>2
  <2> QED
    BY <1>1, <1>2, <1>5, <1>7, <2>1, <2>2 DEF ThreadInv
<1>10. LogInv'
  <2>1. \A p \in Proc : FileOK(p, log[p], clock', odd')
    BY <1>2, <1>8, FileStays DEF LogInv
  <2> QED
    BY <1>1, <2>1 DEF LogInv
<1> QED
  BY <1>9, <1>10

\* What log_operation makes of a file: its START first, one stamp earlier.
NewFile(p, file, e) == IF file = << >> THEN <<Start(p, e.ts - 1), e>> ELSE Append(file, e)

LEMMA LoggedKeeps ==
    ASSUME LogInv, NEW p \in Proc, NEW e \in Stamps(clock'), clock' \in Nat, clock \in Nat,
           clock <= clock', Logged(p, e), odd \subseteq odd',
           log[p] # << >> => (log[p][1].ts < e.ts \/ <<"early", IdOf[p]>> \in odd')
    PROVE  LogInv'
<1>1. log' = [log EXCEPT ![p] = NewFile(p, log[p], e)] /\ DOMAIN log = Proc
  BY DEF Logged, NewFile, LogInv
<1>2. log'[p] = NewFile(p, log[p], e) /\ \A q \in Proc \ {p} : log'[q] = log[q]
  BY <1>1
<1>3. \A q \in Proc : FileOK(q, log[q], clock', odd')
  BY FileStays DEF LogInv
<1>4. FileOK(p, NewFile(p, log[p], e), clock', odd')
  <2>1. PICK n \in 1..clock' : e.ts = 2 * n
    BY StampIs
  <2>2. CASE log[p] = << >>
    <3> DEFINE s == Start(p, 2 * n - 1)
    <3>1. s \in Starts(p, clock') /\ s.ts < e.ts
      BY <2>1 DEF Starts, Start
    <3>2. NewFile(p, log[p], e) = <<s, e>>
      BY <2>1, <2>2 DEF NewFile
    <3> HIDE DEF s
    <3>3. FileOK(p, <<s, e>>, clock', odd')
      BY <3>1 DEF FileOK
    <3> QED
      BY <3>2, <3>3
  <2>3. CASE log[p] # << >>
    <3> DEFINE f == log[p]
               g == Append(f, e)
    <3>1. /\ f \in Seq(Starts(p, clock') \cup Stamps(clock')) /\ f[1] \in Starts(p, clock')
          /\ \A k \in 2..Len(f) : f[k] \in Stamps(clock') /\ (f[1].ts < f[k].ts \/ <<"early", IdOf[p]>> \in odd')
      BY <1>3, <2>3 DEF FileOK
    <3>2. f[1].ts < e.ts \/ <<"early", IdOf[p]>> \in odd'
      BY <2>3
    <3>3. Len(f) >= 1
      BY <2>3, <3>1
    <3> HIDE DEF f
    <3>4. g \in Seq(Starts(p, clock') \cup Stamps(clock')) /\ g[1] = f[1] /\ Len(g) = Len(f) + 1
      BY <3>1, <3>3
    <3>5. \A k \in 2..Len(g) : g[k] = IF k = Len(f) + 1 THEN e ELSE f[k]
      BY <3>1, <3>3
    <3>6. FileOK(p, g, clock', odd')
      <4>1. \A k \in 2..Len(g) : g[k] \in Stamps(clock') /\ (g[1].ts < g[k].ts \/ <<"early", IdOf[p]>> \in odd')
        <5> SUFFICES ASSUME NEW k \in 2..Len(g)
                     PROVE  g[k] \in Stamps(clock') /\ (g[1].ts < g[k].ts \/ <<"early", IdOf[p]>> \in odd')
          OBVIOUS
        <5>1. CASE k = Len(f) + 1
          BY <3>2, <3>4, <3>5, <5>1
        <5>2. CASE k # Len(f) + 1
          <6>1. k \in 2..Len(f)
            BY <3>1, <3>4, <5>2
          <6> QED
            BY <3>1, <3>4, <3>5, <5>2, <6>1
        <5> QED
          BY <5>1, <5>2
      <4> HIDE DEF g
      <4> QED
        BY <3>1, <3>4, <4>1 DEF FileOK
    <3> QED
      BY <2>3, <3>6 DEF NewFile, f
  <2> QED
    BY <2>2, <2>3
<1>5. \A q \in Proc : FileOK(q, log'[q], clock', odd')
  BY <1>2, <1>3, <1>4
<1>6. IsFiniteSet({q \in Proc : log'[q] # << >>})
  <2> DEFINE S == {q \in Proc : log[q] # << >>}
  <2>1. IsFiniteSet(S \cup {p})
    BY FS_AddElement DEF LogInv
  <2>2. {q \in Proc : log'[q] # << >>} \in SUBSET (S \cup {p})
    BY <1>2
  <2> QED
    BY <2>1, <2>2, FS_Subset
<1>7. log' = [q \in Proc |-> log'[q]]
  BY <1>1
<1> QED
  BY <1>5, <1>6, <1>7 DEF LogInv

LEMMA StampKeeps ==
    ASSUME ThreadInv, LogInv, NEW t \in Thread, Stamp(t)
    PROVE  ThreadInv' /\ LogInv'
<1> DEFINE e == Event(pending[t], 2 * (clock + 1))
<1>1. PICK i \in DOMAIN unstamped : unstamped[i] = t /\ unstamped' = RemoveAt(unstamped, i)
  BY DEF Stamp
<1>2. /\ clock' = clock + 1 /\ UNCHANGED born /\ odd \subseteq odd'
      /\ \/ Logged(ProcOf[t], e) /\ pending' = [pending EXCEPT ![t] = NoCall]
         \/ pending' = [pending EXCEPT ![t] = e] /\ UNCHANGED log
  BY DEF Stamp
<1>3. /\ unstamped' \in Seq(Thread)
      /\ \A j, k \in DOMAIN unstamped' : unstamped'[j] = unstamped'[k] => j = k
      /\ Waiting' = Waiting \ {t}
  BY <1>1, RemoveThread
<1>4. t \in Waiting /\ pending[t] \in Operation /\ clock \in Nat
  BY <1>1 DEF ThreadInv, Waiting
<1>5. clock' \in Nat /\ clock <= clock' /\ e \in Stamps(clock')
  BY <1>2, <1>4 DEF Stamps
<1>6. e.ts = 2 * (clock + 1)
  <2>1. 2 * (clock + 1) \in Nat
    BY <1>4
  <2> QED
    BY <1>4, <2>1, EventIs
<1> HIDE DEF e
<1>7. /\ pending'[t] \in {NoCall, e}
      /\ \A u \in Thread \ {t} : pending'[u] = pending[u]
      /\ pending' = [u \in Thread |-> pending'[u]]
  BY <1>2 DEF ThreadInv
<1>8. ThreadInv'
  <2>1. ASSUME NEW u \in Thread
        PROVE  IF u \in Waiting' THEN pending'[u] \in Operation
               ELSE pending'[u] \in Stamps(clock') \cup {NoCall}
    <3>1. CASE u = t
      BY <1>3, <1>5, <1>7, <3>1
    <3>2. CASE u # t
      BY <1>3, <1>4, <1>5, <1>2, <1>7, <3>2, StampsGrow DEF ThreadInv
    <3> QED
      BY <3>1, <3>2
  <2> QED
    BY <1>2, <1>3, <1>5, <1>7, <2>1 DEF ThreadInv
<1>9. CASE Logged(ProcOf[t], e)
  <2>1. ProcOf[t] \in Proc
    BY FileHistoryAssumption
  <2>2. log[ProcOf[t]] # << >> => log[ProcOf[t]][1].ts < e.ts
    <3>1. ASSUME log[ProcOf[t]] # << >> PROVE log[ProcOf[t]][1] \in Starts(ProcOf[t], clock)
      BY <2>1, <3>1 DEF LogInv, FileOK
    <3>2. ASSUME log[ProcOf[t]] # << >>
          PROVE  \E n \in 1..clock : log[ProcOf[t]][1].ts = 2 * n - 1
      BY <1>4, <3>1, <3>2, StartIs
    <3> QED
      BY <1>4, <1>6, <3>2
  <2> QED
    BY <1>2, <1>4, <1>5, <1>8, <1>9, <2>1, <2>2, LoggedKeeps
<1>10. CASE UNCHANGED log
  <2>1. \A p \in Proc : FileOK(p, log[p], clock', odd')
    BY <1>2, <1>4, <1>5, FileStays DEF LogInv
  <2> QED
    BY <1>8, <1>10, <2>1 DEF LogInv
<1> QED
  BY <1>2, <1>9, <1>10

LEMMA QueueKeeps ==
    ASSUME ThreadInv, LogInv, NEW t \in Thread, Queue(t)
    PROVE  ThreadInv' /\ LogInv'
<1> DEFINE e == pending[t]
           p == ProcOf[t]
<1>1. /\ e # NoCall /\ t \notin Waiting
      /\ Logged(p, e) /\ pending' = [pending EXCEPT ![t] = NoCall]
      /\ UNCHANGED <<unstamped, clock, born>> /\ odd \subseteq odd'
      /\ (\E x \in ToSet(log[p]) : x.op = "START" /\ e.ts < x.ts) => <<"early", Id(t)>> \in odd'
  BY DEF Queue, Contains, Waiting, ThreadInv
<1>2. p \in Proc /\ clock \in Nat /\ Id(t) = IdOf[p]
  BY FileHistoryAssumption DEF ThreadInv, Id
<1>3. e \in Stamps(clock)
  BY <1>1 DEF ThreadInv
<1>4. ThreadInv'
  <2>1. Waiting' = Waiting
    BY <1>1 DEF Waiting
  <2> QED
    BY <1>1, <1>3, <2>1 DEF ThreadInv
<1>5. log[p] # << >> => (log[p][1].ts < e.ts \/ <<"early", IdOf[p]>> \in odd')
  <2> SUFFICES ASSUME log[p] # << >>, ~(log[p][1].ts < e.ts) PROVE <<"early", Id(t)>> \in odd'
    BY <1>2
  <2>1. log[p][1] \in Starts(p, clock) /\ log[p] \in Seq(Starts(p, clock) \cup Stamps(clock))
    BY <1>2 DEF LogInv, FileOK
  <2>2. log[p][1].op = "START" /\ log[p][1] \in ToSet(log[p])
    BY <1>2, <2>1, StartIs DEF ToSet
  <2>3. PICK n \in 1..clock : log[p][1].ts = 2 * n - 1
    BY <1>2, <2>1, StartIs
  <2>4. PICK m \in 1..clock : e.ts = 2 * m
    BY <1>2, <1>3, StampIs
  <2>5. e.ts < log[p][1].ts
    BY <2>3, <2>4
  <2> QED
    BY <1>1, <2>2, <2>5
<1> HIDE DEF e, p
<1>6. clock' \in Nat /\ clock <= clock' /\ e \in Stamps(clock')
  BY <1>1, <1>2, <1>3
<1>7. LogInv'
  BY <1>1, <1>2, <1>5, <1>6, LoggedKeeps
<1> QED
  BY <1>4, <1>7

LEMMA ForkKeeps ==
    ASSUME ThreadInv, LogInv, NEW p \in Proc, NEW c \in Proc, Fork(p, c)
    PROVE  ThreadInv' /\ LogInv'
<1>1. /\ IdOf[c] = IdOf[p] /\ born' = born \cup {c}
      /\ log' = [log EXCEPT ![c] = log[p]] /\ odd \subseteq odd'
      /\ UNCHANGED <<pending, unstamped, clock>>
  BY DEF Fork
<1>2. ThreadInv'
  BY <1>1 DEF ThreadInv, Waiting, Stamps
<1>3. clock \in Nat /\ clock' \in Nat /\ clock <= clock'
  BY <1>1 DEF ThreadInv
<1>4. log' = [q \in Proc |-> log'[q]] /\ \A q \in Proc : log'[q] = IF q = c THEN log[p] ELSE log[q]
  BY <1>1 DEF LogInv
<1>5. \A q \in Proc : FileOK(q, log[q], clock', odd')
  BY <1>1, <1>3, FileStays DEF LogInv
<1>6. FileOK(c, log[p], clock', odd')
  <2>1. FileOK(p, log[p], clock', odd')
    BY <1>5
  <2>2. Starts(c, clock') = Starts(p, clock')
    BY <1>1 DEF Starts
  <2> QED
    BY <1>1, <2>1, <2>2 DEF FileOK
<1>7. IsFiniteSet({q \in Proc : log'[q] # << >>})
  <2> DEFINE S == {q \in Proc : log[q] # << >>}
  <2>1. IsFiniteSet(S \cup {c})
    BY FS_AddElement DEF LogInv
  <2>2. {q \in Proc : log'[q] # << >>} \in SUBSET (S \cup {c})
    BY <1>4
  <2> QED
    BY <2>1, <2>2, FS_Subset
<1> QED
  BY <1>2, <1>4, <1>5, <1>6, <1>7 DEF LogInv
LEMMA WorldStays ==
    ASSUME WorldInv, UNCHANGED place, first' \in [Object -> Path], alive' \subseteq Object
    PROVE  WorldInv'
  BY DEF WorldInv, Object

LEMMA CallKeepsWorld ==
    ASSUME WorldInv, NEW t \in Thread, Call(t)
    PROVE  WorldInv'
<1>1. CASE \E path \in Path : Create(t, path)
  <2>1. PICK path \in Path : Create(t, path)
    BY <1>1
  <2> DEFINE n == Cardinality(Object)
             new == 1 + n
  <2>2. /\ place' = With(place, new, path) /\ first' = With(first, new, path)
        /\ alive' = alive \cup {new}
    BY <2>1 DEF Create
  <2>3. n \in Nat /\ new \in Nat
    BY FS_CardinalityType DEF WorldInv
  <2>4. new \notin Object
    <3>1. new \notin Path
      BY <2>3, FileHistoryAssumption
    <3>2. new \notin Original
      BY <3>1, FileHistoryAssumption
    <3>3. new \notin 1..n
      BY <2>3
    <3> QED
      BY <3>2, <3>3 DEF WorldInv
  <2>5. IsFiniteSet(Object \cup {new}) /\ Cardinality(Object \cup {new}) = n + 1
    BY <2>4, FS_AddElement DEF WorldInv
  <2>6. Object' = Object \cup {new}
    BY <2>2 DEF Object, With
  <2>7. place' \in [Object' -> Path] /\ first' \in [Object' -> Path]
    BY <2>2, <2>6 DEF With, WorldInv
  <2>8. Original \subseteq Object' /\ alive' \subseteq Object'
    BY <2>2, <2>6 DEF WorldInv
  <2>9. \A o \in Object' \ Original : o \in 1..n + 1
    <3> HIDE DEF n
    <3>1. \A o \in Object \ Original : o \in 1..n
      BY DEF WorldInv, n
    <3> QED
      BY <2>3, <2>6, <3>1
  <2> HIDE DEF new, n
  <2>10. IsFiniteSet(Object') /\ Cardinality(Object') = n + 1
    BY <2>5, <2>6
  <2> QED
    BY <2>7, <2>8, <2>9, <2>10 DEF WorldInv
<1>2. CASE \E path \in Path : Unlink(t, path)
  <2>1. UNCHANGED <<place, first>> /\ alive' \subseteq alive
    BY <1>2 DEF Unlink
  <2> QED
    BY <2>1, WorldStays DEF WorldInv
<1>3. CASE \E path, to \in Path : Rename(t, path, to)
  <2>1. PICK path \in Path, to \in Path : Rename(t, path, to)
    BY <1>3
  <2>2. /\ place' = [o \in Object |-> IF o \in On(path) THEN to ELSE place[o]]
        /\ alive' \subseteq alive /\ first' = first
    BY <2>1 DEF Rename
  <2>3. Object' = Object /\ place' \in [Object -> Path]
    BY <2>2 DEF Object, WorldInv
  <2> QED
    BY <2>2, <2>3 DEF WorldInv
<1>4. CASE \/ \E o \in Object : \E op \in Kinds : Access(t, op, o)
           \/ \E o, to \in Object : Transfer(t, o, to)
           \/ Fail(t)
  <2>1. UNCHANGED <<place, first, alive>>
    BY <1>4 DEF Access, Transfer, Fail, world
  <2> QED
    BY <2>1, WorldStays DEF WorldInv
<1> QED
  BY <1>1, <1>2, <1>3, <1>4 DEF Call

LEMMA BaseInit == ASSUME Init PROVE BaseInv
<1>1. ThreadInv
  <2>1. clock = 0 /\ unstamped = << >> /\ born = Born /\ pending = [t \in Thread |-> NoCall]
    BY DEF Init
  <2>2. born \subseteq Proc
    BY <2>1, FileHistoryAssumption
  <2>3. Waiting = {} /\ unstamped \in Seq(Thread) /\ DOMAIN unstamped = {}
    BY <2>1 DEF Waiting
  <2>4. \A t \in Thread : pending[t] = NoCall
    BY <2>1
  <2> QED
    BY <2>1, <2>2, <2>3, <2>4 DEF ThreadInv
<1>2. LogInv
  <2>1. {p \in Proc : log[p] # << >>} = {}
    BY DEF Init
  <2>2. \A p \in Proc : FileOK(p, << >>, clock, odd)
    BY DEF FileOK
  <2> QED
    BY <2>1, <2>2, FS_EmptySet DEF Init, LogInv
<1>3. WorldInv
  <2>1. IsFiniteSet(Original)
    BY FileHistoryAssumption, FS_Subset
  <2> QED
    BY <2>1, FileHistoryAssumption DEF Init, WorldInv, Object
<1> QED
  BY <1>1, <1>2, <1>3 DEF BaseInv

LEMMA BaseStep == ASSUME BaseInv, [Next]_vars PROVE BaseInv'
<1>0. ThreadInv /\ LogInv /\ WorldInv
  BY DEF BaseInv
<1>1. ASSUME NEW t \in Thread, Call(t) PROVE BaseInv'
  <2>1. PICK e \in Operation : \E asked : Enter(t, e, asked)
    BY <1>0, <1>1, CallEnters
  <2>2. PICK asked : Enter(t, e, asked)
    BY <2>1
  <2>3. odd \subseteq odd'
    BY <1>0, <1>1, CallEnters
  <2> QED
    BY <1>0, <1>1, <2>2, <2>3, EnterKeeps, CallKeepsWorld DEF BaseInv
<1>2. ASSUME UNCHANGED world PROVE WorldInv'
  BY <1>0, <1>2 DEF WorldInv, world, Object
<1>3. ASSUME NEW t \in Thread, Stamp(t) PROVE BaseInv'
  <2>1. UNCHANGED world
    BY <1>3 DEF Stamp
  <2> QED
    BY <1>0, <1>2, <1>3, <2>1, StampKeeps DEF BaseInv
<1>4. ASSUME NEW t \in Thread, Queue(t) PROVE BaseInv'
  <2>1. UNCHANGED world
    BY <1>4 DEF Queue
  <2> QED
    BY <1>0, <1>2, <1>4, <2>1, QueueKeeps DEF BaseInv
<1>5. ASSUME NEW p \in Proc, NEW c \in Proc, Fork(p, c) PROVE BaseInv'
  <2>1. UNCHANGED world
    BY <1>5 DEF Fork
  <2> QED
    BY <1>0, <1>2, <1>5, <2>1, ForkKeeps DEF BaseInv
<1>6. ASSUME UNCHANGED vars PROVE BaseInv'
  <2>1. UNCHANGED <<world, log, pending, unstamped, clock, born, odd>>
    BY <1>6 DEF vars, observers
  <2>2. ThreadInv'
    BY <1>0, <2>1 DEF ThreadInv, Waiting
  <2>3. LogInv'
    BY <1>0, <2>1 DEF LogInv
  <2> QED
    BY <1>2, <2>1, <2>2, <2>3 DEF BaseInv
<1> QED
  BY <1>1, <1>3, <1>4, <1>5, <1>6 DEF Next
LEMMA BaseInvariant == Spec => []BaseInv
<1>1. Init => BaseInv
  BY BaseInit
<1>2. BaseInv /\ [Next]_vars => BaseInv'
  BY BaseStep
<1> QED
  BY <1>1, <1>2, PTL DEF Spec
-----------------------------------------------------------------------------
(* The files of the events. *)

LEMMA SetToSeqIs ==
    ASSUME NEW S, IsFiniteSet(S)
    PROVE  /\ Cardinality(S) \in Nat
           /\ SetToSeq(S) \in [1..Cardinality(S) -> S]
           /\ \A i, j \in 1..Cardinality(S) : SetToSeq(S)[i] = SetToSeq(S)[j] => i = j
           /\ \A x \in S : \E i \in 1..Cardinality(S) : SetToSeq(S)[i] = x
<1> DEFINE n == Cardinality(S)
           f == SetToSeq(S)
<1>1. n \in Nat /\ ExistsBijection(1..n, S)
  BY FS_CardinalityType
<1>2. \E g \in [1..n -> S] : IsInjective(g)
  BY <1>1 DEF ExistsBijection, Bijection, Injection
<1>3. f \in [1..n -> S] /\ IsInjective(f)
  BY <1>2 DEF SetToSeq
<1> HIDE DEF f
<1>4. \A i, j \in 1..n : f[i] = f[j] => i = j
  BY <1>3 DEF IsInjective
<1>5. ASSUME NEW x \in S, \A i \in 1..n : f[i] # x PROVE FALSE
  <2>1. f \in Injection(1..n, S \ {x})
    BY <1>3, <1>5 DEF Injection
  <2>2. IsFiniteSet(S \ {x}) /\ Cardinality(S \ {x}) = n - 1
    BY FS_RemoveElement
  <2>3. Cardinality(1..n) = n
    BY <1>1, FS_Interval
  <2>4. Cardinality(1..n) <= Cardinality(S \ {x})
    BY <2>1, <2>2, FS_Injection
  <2> HIDE DEF n
  <2> QED
    BY <1>1, <2>2, <2>3, <2>4
<1> QED
  BY <1>1, <1>3, <1>4, <1>5 DEF f

\* There is one event file per process that queued an event, and a START is
\* its first event.
LEMMA EventFilesAre ==
    ASSUME LogInv, clock \in Nat
    PROVE  /\ FilesOK(EventFiles)
           /\ DOMAIN EventFiles = DOMAIN Files
           /\ \A i \in DOMAIN Files :
                /\ Files[i] \in Proc /\ EventFiles[i] = log[Files[i]]
                /\ 1 \in DOMAIN EventFiles[i]
                /\ EventFiles[i][1].op = "START"
                /\ EventFiles[i][1].id = IdOf[Files[i]]
                /\ StartOf(EventFiles[i]) = EventFiles[i][1]
                /\ \A k \in DOMAIN EventFiles[i] \ {1} :
                      /\ EventFiles[i][k] \in Stamps(clock)
                      /\ \/ EventFiles[i][1].ts < EventFiles[i][k].ts
                         \/ <<"early", IdOf[Files[i]]>> \in odd
           /\ \A p \in Proc : log[p] # << >> => \E i \in DOMAIN Files : Files[i] = p
           /\ \A i, j \in DOMAIN Files : Files[i] = Files[j] => i = j
<1> DEFINE S == {p \in Proc : log[p] # << >>}
           fs == EventFiles
<1>1. /\ Cardinality(S) \in Nat /\ Files \in [1..Cardinality(S) -> S]
      /\ \A i, j \in 1..Cardinality(S) : Files[i] = Files[j] => i = j
      /\ \A x \in S : \E i \in 1..Cardinality(S) : Files[i] = x
  BY SetToSeqIs DEF LogInv, Files
<1>2. DOMAIN Files = 1..Cardinality(S) /\ DOMAIN fs = DOMAIN Files
      /\ \A i \in DOMAIN Files : fs[i] = log[Files[i]]
  BY <1>1 DEF EventFiles
<1>3. \A i \in DOMAIN Files : Files[i] \in Proc /\ log[Files[i]] # << >>
  BY <1>1, <1>2
<1> HIDE DEF S, fs
<1>4. ASSUME NEW i \in DOMAIN Files
      PROVE  /\ \E m \in Nat : DOMAIN fs[i] = 1..m
             /\ \A k \in DOMAIN fs[i] : fs[i][k].ts \in Nat
             /\ 1 \in DOMAIN fs[i] /\ fs[i][1].op = "START" /\ fs[i][1].id = IdOf[Files[i]]
             /\ StartOf(fs[i]) = fs[i][1]
             /\ \A k \in DOMAIN fs[i] \ {1} :
                   /\ fs[i][k] \in Stamps(clock)
                   /\ fs[i][1].ts < fs[i][k].ts \/ <<"early", IdOf[Files[i]]>> \in odd
  <2> DEFINE p == Files[i]
             file == fs[i]
  <2>1. p \in Proc /\ file = log[p] /\ file # << >> /\ FileOK(p, file, clock, odd)
    BY <1>2, <1>3 DEF LogInv
  <2> HIDE DEF p, file
  <2>2. /\ file \in Seq(Starts(p, clock) \cup Stamps(clock)) /\ file[1] \in Starts(p, clock)
        /\ \A k \in 2..Len(file) :
            /\ file[k] \in Stamps(clock)
            /\ file[1].ts < file[k].ts \/ <<"early", IdOf[p]>> \in odd
    BY <2>1 DEF FileOK
  <2>3. DOMAIN file = 1..Len(file) /\ Len(file) \in Nat /\ 1 \in DOMAIN file
    BY <2>1, <2>2
  <2>4. file[1].op = "START" /\ file[1].id = IdOf[p] /\ file[1].ts \in Nat
    BY <2>2, StartIs
  <2>5. \A k \in DOMAIN file \ {1} : k \in 2..Len(file)
    BY <2>3
  <2>6. \A k \in DOMAIN file \ {1} : file[k].ts \in Nat
    <3> SUFFICES ASSUME NEW k \in DOMAIN file \ {1} PROVE file[k].ts \in Nat
      OBVIOUS
    <3>1. file[k] \in Stamps(clock)
      BY <2>2, <2>5
    <3> QED
      BY <3>1, StampIs
  <2>7. StartOf(file) = file[1]
    BY <2>1, <2>2, <2>4, StartOfIs
  <2> QED
    BY <2>2, <2>3, <2>4, <2>5, <2>6, <2>7 DEF p, file
<1>5. FilesOK(fs)
  BY <1>1, <1>2, <1>4 DEF FilesOK
<1> QED
  BY <1>1, <1>2, <1>3, <1>4, <1>5 DEF fs, S

\* FileHistory's ProcessesAreNamed: every process of the result has its command
\* line and environment, unless another thread stamped an Operation before START
\* and queued it after.
THEOREM NamedTheorem == Spec => []ProcessesAreNamed
<1>1. ASSUME BaseInv PROVE ProcessesAreNamed
  <2> DEFINE fs == EventFiles
             originals == [o \in Original |-> o]
             early == {x[2] : x \in {y \in odd : y = <<"early", y[2]>>}}
  <2>1. \A id : id \in early <=> <<"early", id>> \in odd
    OBVIOUS
  <2>2. LogInv /\ clock \in Nat
    BY <1>1 DEF BaseInv, ThreadInv
  <2> HIDE DEF originals, early
  <2>3. /\ FilesOK(fs)
        /\ \A i \in DOMAIN fs :
             /\ 1 \in DOMAIN fs[i] /\ fs[i][1].op = "START" /\ StartOf(fs[i]) = fs[i][1]
             /\ \A k \in DOMAIN fs[i] \ {1} : fs[i][1].ts < fs[i][k].ts \/ fs[i][1].id \in early
    BY <2>1, <2>2, EventFilesAre
  <2> HIDE DEF fs
  <2>4. LET result == ProcessedData(fs, originals)
        IN \A id \in DOMAIN result.process_map \ early : result.process_map[id].named = TRUE
    BY <2>3, AllNamed
  <2>5. Result = ProcessedData(fs, originals)
    BY DEF Result, fs, originals
  <2> QED
    BY <2>1, <2>4, <2>5 DEF ProcessesAreNamed
<1> QED
  BY <1>1, BaseInvariant, PTL
-----------------------------------------------------------------------------
(* What a call does to what Processor has, seen by path: the operations a  *)
(* process has there, and the path its file had first.                     *)

Originals == [o \in Original |-> o]
\* Operations with the paths of their kind.
Accesses == {"READ", "WRITE", "UNLINK"}
Twos == {"RENAME", "TRANSFER"}
Formed == Operation \cap ([op : Accesses, path : String] \cup [op : Twos, from : String, to : String])
Calls == [process_id : Ids, event : Formed]

\* The paths a process has an entry for, and the flags and the checksum it has
\* there.
Known(d, i) == DOMAIN Ops(d, i)
Marks(d, i, p) == {flag \in Flags : Operations(d, i, p)[flag]}
Checksum(d, i, p) == Operations(d, i, p).start
Root(d, p) == At(d.rename_map, p, p)
MarkOf == [READ |-> "read", WRITE |-> "write", UNLINK |-> "deleted"]

\* From d to r, process i gets a flag and perhaps a checksum at path q.
Flagging(d, r, i, q, mark, checksum) ==
    /\ DataShape(r)
    /\ \A p : Root(r, p) = Root(d, p)
    /\ \A j : Known(r, j) = IF j = i THEN Known(d, j) \cup {q} ELSE Known(d, j)
    /\ \A j, p : Marks(r, j, p) = IF j = i /\ p = q THEN Marks(d, j, p) \cup {mark}
                                  ELSE Marks(d, j, p)
    /\ \A j, p : Checksum(r, j, p) =
          IF j = i /\ p = q /\ checksum # NoChecksum THEN checksum ELSE Checksum(d, j, p)

\* From d to r, what is known of path from is known of path to.
Renaming(d, r, from, to) ==
    /\ DataShape(r)
    /\ r.seen_files = d.seen_files
    /\ \A p : Root(r, p) = IF p = from THEN from ELSE IF p = to THEN Root(d, from) ELSE Root(d, p)
    /\ \A j : Known(r, j) = IF from \in Known(d, j) THEN (Known(d, j) \cup {to}) \ {from}
                            ELSE Known(d, j)
    /\ \A j, p : Operations(r, j, p) =
          IF p = from THEN NoOperations
          ELSE IF p = to /\ from \in Known(d, j) THEN Operations(d, j, from)
          ELSE Operations(d, j, p)

LEMMA OperationsAre ==
    ASSUME NEW d, NEW i, NEW p
    PROVE  /\ Operations(d, i, p) = At(Ops(d, i), p, NoOperations)
           /\ p \notin Known(d, i) => /\ Operations(d, i, p) = NoOperations
                                      /\ Marks(d, i, p) = {} /\ Checksum(d, i, p) = NoChecksum
<1>1. Operations(d, i, p) = At(Ops(d, i), p, NoOperations)
  BY DEF Operations, Ops
<1>2. ASSUME p \notin Known(d, i) PROVE Operations(d, i, p) = NoOperations
  BY <1>1, <1>2 DEF Known, At
<1>3. {flag \in Flags : NoOperations[flag]} = {} /\ NoOperations.start = NoChecksum
  BY DEF Flags, NoOperations
<1> QED
  BY <1>1, <1>2, <1>3 DEF Marks, Checksum

LEMMA FlaggedIs ==
    ASSUME NEW old, NEW op_type \in Accesses, NEW checksum
    PROVE  /\ \A flag \in Flags : Flagged(old, op_type, checksum)[flag] <=>
                 (old[flag] \/ flag = MarkOf[op_type])
           /\ MarkOf[op_type] \in Flags
           /\ checksum = NoChecksum => Flagged(old, op_type, checksum).start = old.start
           /\ checksum # NoChecksum => Flagged(old, op_type, checksum).start = checksum
<1> DEFINE new == Flagged(old, op_type, checksum)
<1>1. /\ new.start = IF checksum = NoChecksum THEN old.start ELSE checksum
      /\ new["read"] <=> (old["read"] \/ op_type = "READ")
      /\ new["write"] <=> (old["write"] \/ op_type = "WRITE")
      /\ new["deleted"] <=> (old["deleted"] \/ op_type = "UNLINK")
  BY DEF Flagged
<1>2. MarkOf["READ"] = "read" /\ MarkOf["WRITE"] = "write" /\ MarkOf["UNLINK"] = "deleted"
  BY DEF MarkOf
<1> HIDE DEF new
<1>3. \A flag \in Flags : new[flag] <=> (old[flag] \/ flag = MarkOf[op_type])
  BY <1>1, <1>2 DEF Flags, Accesses
<1>4. MarkOf[op_type] \in Flags
  BY <1>2 DEF Flags, Accesses
<1> QED
  BY <1>1, <1>3, <1>4 DEF new

LEMMA FlaggingIs ==
    ASSUME NEW d, NEW r, DataShape(r), NEW i, NEW q, NEW op_type \in Accesses,
           NEW checksum, r.rename_map = d.rename_map,
           Ops(r, i) = With(Ops(d, i), q,
                            Flagged(At(Ops(d, i), q, NoOperations), op_type, checksum)),
           \A other : other # i => Ops(r, other) = Ops(d, other)
    PROVE  Flagging(d, r, i, q, MarkOf[op_type], checksum)
<1> DEFINE old == At(Ops(d, i), q, NoOperations)
           new == Flagged(old, op_type, checksum)
<1>2. Operations(d, i, q) = old
  BY OperationsAre
<1> HIDE DEF old
<1> HIDE DEF old
<1>8. /\ \A flag \in Flags : new[flag] <=> (old[flag] \/ flag = MarkOf[op_type])
      /\ MarkOf[op_type] \in Flags
  BY FlaggedIs
<1>9. new.start = IF checksum = NoChecksum THEN old.start ELSE checksum
  BY FlaggedIs
<1>1. /\ \A flag \in Flags : new[flag] <=> (old[flag] \/ flag = MarkOf[op_type])
      /\ MarkOf[op_type] \in Flags
      /\ new.start = IF checksum = NoChecksum THEN old.start ELSE checksum
  BY <1>8, <1>9
<1> HIDE DEF new
<1>3. \A j, p : Operations(r, j, p) = IF j = i /\ p = q THEN new ELSE Operations(d, j, p)
  <2> SUFFICES ASSUME NEW j, NEW p
               PROVE  Operations(r, j, p) = IF j = i /\ p = q THEN new ELSE Operations(d, j, p)
    OBVIOUS
  <2>1. Operations(r, j, p) = At(Ops(r, j), p, NoOperations)
        /\ Operations(d, j, p) = At(Ops(d, j), p, NoOperations)
    BY OperationsAre
  <2>2. Ops(r, i) = With(Ops(d, i), q, new)
    BY DEF old, new
  <2> QED
    BY <2>1, <2>2 DEF At, With
<1>4. \A j : Known(r, j) = IF j = i THEN Known(d, j) \cup {q} ELSE Known(d, j)
  BY DEF Known, With
<1>5. \A j, p : Marks(r, j, p) = IF j = i /\ p = q THEN Marks(d, j, p) \cup {MarkOf[op_type]}
                                 ELSE Marks(d, j, p)
  BY <1>1, <1>2, <1>3 DEF Marks
<1>6. \A j, p : Checksum(r, j, p) =
         IF j = i /\ p = q /\ checksum # NoChecksum THEN checksum ELSE Checksum(d, j, p)
  BY <1>1, <1>2, <1>3 DEF Checksum
<1>7. \A p : Root(r, p) = Root(d, p)
  BY DEF Root
<1> QED
  BY <1>4, <1>5, <1>6, <1>7 DEF Flagging

\* A read, a write or an unlink.
LEMMA AccessCall ==
    ASSUME NEW d, DataShape(d), NEW c, c.event.op \in Accesses
    PROVE  LET q == c.event.path
               r == Processed(d, Originals, c)
           IN /\ Flagging(d, r, c.process_id, q, MarkOf[c.event.op], get_checksum(d, Originals, q))
              /\ r.seen_files = d.seen_files \cup {Root(d, q)}
<1> DEFINE q == c.event.path
           i == c.process_id
           op == c.event.op
           checksum == get_checksum(d, Originals, q)
           r == Processed(d, Originals, c)
<1>1. r = Accessed(d, Originals, q, i, op)
  BY ProcessedIs DEF Accesses
<1> HIDE DEF r, checksum, q, i, op
<1>2. /\ DataShape(r) /\ r.rename_map = d.rename_map
      /\ r.seen_files = d.seen_files \cup {At(d.rename_map, q, q)}
      /\ Ops(r, i) = With(Ops(d, i), q, Flagged(At(Ops(d, i), q, NoOperations), op, checksum))
      /\ \A other : other # i => Ops(r, other) = Ops(d, other)
  BY <1>1, AccessStep DEF KeepsRest, checksum
<1>3. Flagging(d, r, i, q, MarkOf[op], checksum)
  BY <1>2, FlaggingIs DEF op
<1> QED
  BY <1>2, <1>3 DEF Root, r, checksum, q, i, op

\* A transfer is a read and a write.
LEMMA TransferCall ==
    ASSUME NEW d, DataShape(d), NEW c, c.event.op = "TRANSFER"
    PROVE  LET q == c.event.from
               r == Processed(d, Originals, c)
           IN \E a : /\ Flagging(d, a, c.process_id, q, "read", get_checksum(d, Originals, q))
                     /\ Flagging(a, r, c.process_id, c.event.to, "write", NoChecksum)
                     /\ r.seen_files = d.seen_files \cup {Root(d, q)}
<1> DEFINE q == c.event.from
           i == c.process_id
           checksum == get_checksum(d, Originals, q)
           a == Accessed(d, Originals, q, i, "READ")
           r == Processed(d, Originals, c)
<1>1. r = log_operation(a, c.event.to, i, "WRITE", NoChecksum)
  BY ProcessedIs
<1>2. /\ DataShape(a) /\ a.rename_map = d.rename_map
      /\ a.seen_files = d.seen_files \cup {At(d.rename_map, q, q)}
      /\ Ops(a, i) = With(Ops(d, i), q, Flagged(At(Ops(d, i), q, NoOperations), "READ", checksum))
      /\ \A other : other # i => Ops(a, other) = Ops(d, other)
  BY AccessStep DEF KeepsRest
<1> HIDE DEF r, a, checksum
<1>7. "READ" \in Accesses /\ "WRITE" \in Accesses
  BY DEF Accesses
<1>3. Flagging(d, a, i, q, MarkOf["READ"], checksum)
  BY <1>2, <1>7, FlaggingIs
<1>4. /\ DataShape(r) /\ r.rename_map = a.rename_map /\ r.seen_files = a.seen_files
      /\ Ops(r, i) = With(Ops(a, i), c.event.to,
                          Flagged(At(Ops(a, i), c.event.to, NoOperations), "WRITE", NoChecksum))
      /\ \A other : other # i => Ops(r, other) = Ops(a, other)
  BY <1>1, <1>2, OperationStep DEF KeepsRest
<1>5. Flagging(a, r, i, c.event.to, MarkOf["WRITE"], NoChecksum)
  BY <1>4, <1>7, FlaggingIs
<1>6. MarkOf["READ"] = "read" /\ MarkOf["WRITE"] = "write"
  BY DEF MarkOf
<1> QED
  BY <1>2, <1>3, <1>4, <1>5, <1>6 DEF Root, r, checksum

LEMMA MovedKeys ==
    ASSUME NEW map, NEW from, NEW to
    PROVE  DOMAIN Moved(map, from, to) =
              IF from \in DOMAIN map THEN (DOMAIN map \cup {to}) \ {from} ELSE DOMAIN map
  BY DEF Moved, With, Without, Restrict

LEMMA MovedIs ==
    ASSUME NEW map, NEW from, NEW to, NEW k, NEW default
    PROVE  At(Moved(map, from, to), k, default) =
              IF from \notin DOMAIN map THEN At(map, k, default)
              ELSE IF k = from THEN default
              ELSE IF k = to THEN map[from] ELSE At(map, k, default)
  BY DEF Moved, With, Without, Restrict, At

LEMMA RenameCall ==
    ASSUME NEW d, DataShape(d), NEW c, c.event.op = "RENAME"
    PROVE  Renaming(d, Processed(d, Originals, c), c.event.from, c.event.to)
<1> DEFINE from == c.event.from
           to == c.event.to
           r == Processed(d, Originals, c)
<1>1. r = log_rename(d, from, to)
  BY ProcessedIs
<1> HIDE DEF r, from, to
<1>2. /\ DataShape(r) /\ r.seen_files = d.seen_files
      /\ \A id : Ops(r, id) = Moved(Ops(d, id), from, to)
      /\ r.rename_map = IF from \in DOMAIN d.rename_map THEN Moved(d.rename_map, from, to)
                        ELSE With(d.rename_map, to, from)
  BY <1>1, RenameStep
<1>3. \A p : Root(r, p) = IF p = from THEN from ELSE IF p = to THEN Root(d, from) ELSE Root(d, p)
  <2>1. CASE from \in DOMAIN d.rename_map
    <3>1. r.rename_map = Moved(d.rename_map, from, to)
      BY <1>2, <2>1
    <3>2. \A p : At(r.rename_map, p, p) = IF p = from THEN p ELSE IF p = to THEN d.rename_map[from]
                                         ELSE At(d.rename_map, p, p)
      <4> SUFFICES ASSUME NEW p
                   PROVE  At(r.rename_map, p, p) = IF p = from THEN p
                              ELSE IF p = to THEN d.rename_map[from] ELSE At(d.rename_map, p, p)
        OBVIOUS
      <4> DEFINE m == d.rename_map
      <4>1. At(Moved(m, from, to), p, p) =
               IF from \notin DOMAIN m THEN At(m, p, p)
               ELSE IF p = from THEN p ELSE IF p = to THEN m[from] ELSE At(m, p, p)
        BY MovedIs
      <4> QED
        BY <2>1, <3>1, <4>1
    <3> QED
      BY <2>1, <3>2 DEF Root, At
  <2>2. CASE from \notin DOMAIN d.rename_map
    BY <1>2, <2>2 DEF Root, At, With
  <2> QED
    BY <2>1, <2>2
<1>4. \A j : Known(r, j) = IF from \in Known(d, j) THEN (Known(d, j) \cup {to}) \ {from}
                           ELSE Known(d, j)
  <2> SUFFICES ASSUME NEW j
               PROVE  Known(r, j) = IF from \in Known(d, j) THEN (Known(d, j) \cup {to}) \ {from}
                                    ELSE Known(d, j)
    OBVIOUS
  <2>1. Ops(r, j) = Moved(Ops(d, j), from, to)
    BY <1>2
  <2> QED
    BY <2>1, MovedKeys DEF Known
<1>5. \A j, p : Operations(r, j, p) =
         IF p = from THEN NoOperations
         ELSE IF p = to /\ from \in Known(d, j) THEN Operations(d, j, from)
         ELSE Operations(d, j, p)
  <2> SUFFICES ASSUME NEW j, NEW p
               PROVE  Operations(r, j, p) =
                         IF p = from THEN NoOperations
                         ELSE IF p = to /\ from \in Known(d, j) THEN Operations(d, j, from)
                         ELSE Operations(d, j, p)
    OBVIOUS
  <2>1. /\ Operations(r, j, p) = At(Ops(r, j), p, NoOperations)
        /\ Operations(d, j, p) = At(Ops(d, j), p, NoOperations)
        /\ Operations(d, j, from) = At(Ops(d, j), from, NoOperations)
    BY OperationsAre
  <2>2. Ops(r, j) = Moved(Ops(d, j), from, to)
    BY <1>2
  <2>3. Operations(r, j, p) = IF from \notin Known(d, j) THEN Operations(d, j, p)
                              ELSE IF p = from THEN NoOperations
                              ELSE IF p = to THEN Ops(d, j)[from] ELSE Operations(d, j, p)
    <3> DEFINE m == Ops(d, j)
    <3>1. At(Moved(m, from, to), p, NoOperations) =
             IF from \notin DOMAIN m THEN At(m, p, NoOperations)
             ELSE IF p = from THEN NoOperations
             ELSE IF p = to THEN m[from] ELSE At(m, p, NoOperations)
      BY MovedIs
    <3> QED
      BY <2>1, <2>2, <3>1 DEF Known
  <2>4. from \in Known(d, j) => Operations(d, j, from) = Ops(d, j)[from]
    BY <2>1 DEF Known, At
  <2>5. from \notin Known(d, j) => Operations(d, j, from) = NoOperations
    BY OperationsAre
  <2> QED
    BY <2>3, <2>4, <2>5
<1> QED
  BY <1>2, <1>3, <1>4, <1>5 DEF Renaming, r, from, to

\* The START of a process changes none of this.
LEMMA StartCall ==
    ASSUME NEW d, DataShape(d), NEW c, c.event.op = "START"
    PROVE  LET r == Processed(d, Originals, c)
           IN /\ DataShape(r) /\ r.seen_files = d.seen_files /\ r.rename_map = d.rename_map
              /\ \A j : Ops(r, j) = Ops(d, j)
<1> DEFINE r == Processed(d, Originals, c)
<1>1. r = log_process_start(d, c.process_id)
  BY ProcessedIs
<1> HIDE DEF r
<1>2. /\ DataShape(r) /\ KeepsRest(d, r) /\ r.seen_files = d.seen_files
      /\ \A j : Ops(r, j) = Ops(d, j)
  <2> DEFINE i == c.process_id
             q == log_process_start(d, i)
  <2>1. /\ DataShape(q) /\ KeepsRest(d, q) /\ q.seen_files = d.seen_files
        /\ \A j : Ops(q, j) = Ops(d, j)
    <3> HIDE DEF i
    <3> QED
      BY StartStep
  <2>2. r = q
    BY <1>1
  <2> HIDE DEF q
  <2> QED
    BY <2>1, <2>2
<1> QED
  BY <1>2 DEF KeepsRest, r
-----------------------------------------------------------------------------
(* The calls there were, in the order of their stamps; those without come  *)
(* last, in the order they were made.                                      *)

\* Where a file has Operations, its START being first.
Ranks(file) == DOMAIN file \ {1}
\* e is the call n of h, stamped, and of process id i.
Is(h, n, i, e) == h[n].process_id = i /\ e = Event(h[n].event, 2 * n)
Unlogged(t) == t \notin Waiting /\ pending[t] # NoCall

\* Every call that is stamped is in a queue or about to be, and no other is.
HistoryInv(h) ==
    /\ h \in Seq(Calls) /\ Len(h) = clock + Len(unstamped)
    /\ \A i \in DOMAIN unstamped :
          h[clock + i] = [process_id |-> Id(unstamped[i]), event |-> pending[unstamped[i]]]
    /\ \A t \in Thread : Unlogged(t) => \E n \in 1..clock : Is(h, n, Id(t), pending[t])
    /\ \A p \in Proc : \A k \in Ranks(log[p]) : \E n \in 1..clock : Is(h, n, IdOf[p], log[p][k])
    /\ \A n \in 1..clock :
          \/ \E t \in Thread : Unlogged(t) /\ pending[t].ts = 2 * n
          \/ \E p \in Proc : \E k \in Ranks(log[p]) : log[p][k].ts = 2 * n

\* An Operation is in one place, until a fork copies it; what does not run has none.
OnceInv ==
    /\ \A t, u \in Thread : Unlogged(t) /\ Unlogged(u) /\ pending[t].ts = pending[u].ts => t = u
    /\ \A t \in Thread : Unlogged(t) =>
          \A p \in Proc : \A k \in Ranks(log[p]) : log[p][k].ts # pending[t].ts
    /\ \A t \in Thread : pending[t] # NoCall => ProcOf[t] \in born
    /\ \A p \in Proc \ born : log[p] = << >>

\* Two places have the Operation stamped 2n.
Copied(n) ==
    \E p, q \in Proc : \E k \in Ranks(log[p]), l \in Ranks(log[q]) :
        <<p, k>> # <<q, l>> /\ log[p][k].ts = 2 * n /\ log[q][l].ts = 2 * n

LEMMA CallsAre ==
    ASSUME NEW c \in Calls
    PROVE  /\ c.process_id \in Ids /\ c.event \in Operation
           /\ c = [process_id |-> c.process_id, event |-> c.event]
  BY DEF Calls, Formed

LEMMA IdsAre == \A t \in Thread : Id(t) \in Ids /\ ProcOf[t] \in Proc
  BY FileHistoryAssumption DEF Id, Ids

\* Stamps of the calls of a history.
LEMMA IsStamp ==
    ASSUME NEW h, NEW n \in Nat, h[n].event \in Operation, NEW i, NEW e, Is(h, n, i, e)
    PROVE  e.ts = 2 * n
<1>1. 2 * n \in Nat
  OBVIOUS
<1> QED
  BY <1>1, EventIs DEF Is

\* The stamps in the queues and those about to be are even, and not in the future.
LEMMA StampsAre ==
    ASSUME NEW h, HistoryInv(h), clock \in Nat
    PROVE  /\ \A t \in Thread : Unlogged(t) =>
                 \E n \in 1..clock : Is(h, n, Id(t), pending[t]) /\ pending[t].ts = 2 * n
           /\ \A p \in Proc : \A k \in Ranks(log[p]) :
                 \E n \in 1..clock : Is(h, n, IdOf[p], log[p][k]) /\ log[p][k].ts = 2 * n
<1>1. \A n \in 1..clock : n \in Nat /\ h[n].event \in Operation
  <2>1. \A n \in 1..clock : n \in 1..Len(h) /\ n \in Nat
    <3>1. Len(h) = clock + Len(unstamped) /\ Len(h) \in Nat
      BY DEF HistoryInv
    <3>2. Len(unstamped) >= 0
      BY <3>1 DEF HistoryInv
    <3> QED
      BY <3>1, <3>2
  <2>2. \A n \in 1..Len(h) : h[n] \in Calls
    BY DEF HistoryInv
  <2> QED
    BY <2>1, <2>2, CallsAre
<1>2. ASSUME NEW t \in Thread, Unlogged(t)
      PROVE  \E n \in 1..clock : Is(h, n, Id(t), pending[t]) /\ pending[t].ts = 2 * n
  <2>1. PICK n \in 1..clock : Is(h, n, Id(t), pending[t])
    BY <1>2 DEF HistoryInv
  <2> QED
    BY <1>1, <2>1, IsStamp
<1>3. ASSUME NEW p \in Proc, NEW k \in Ranks(log[p])
      PROVE  \E n \in 1..clock : Is(h, n, IdOf[p], log[p][k]) /\ log[p][k].ts = 2 * n
  <2>1. PICK n \in 1..clock : Is(h, n, IdOf[p], log[p][k])
    BY DEF HistoryInv
  <2> QED
    BY <1>1, <2>1, IsStamp
<1> QED
  BY <1>2, <1>3

LEMMA EnterHistory ==
    ASSUME ThreadInv, OnceInv, NEW h, HistoryInv(h), NEW t \in Thread, NEW e \in Formed,
           NEW asked, Enter(t, e, asked)
    PROVE  /\ HistoryInv(Append(h, [process_id |-> Id(t), event |-> e]))' /\ OnceInv'
           /\ \A n : Copied(n)' => Copied(n)
<1> DEFINE c == [process_id |-> Id(t), event |-> e]
           h2 == Append(h, c)
           N == Len(h)
<1>1. /\ pending' = [pending EXCEPT ![t] = e] /\ unstamped' = Append(unstamped, t)
      /\ pending[t] = NoCall /\ ProcOf[t] \in born
      /\ log' = log /\ clock' = clock /\ born' = born
  BY DEF Enter, MayCall
<1>2. /\ unstamped \in Seq(Thread) /\ clock \in Nat
      /\ pending = [u \in Thread |-> pending[u]]
  BY DEF ThreadInv
<1>3. t \notin Waiting
  <2>1. pending[t] \notin Operation
    BY <1>1, OperationIs
  <2> QED
    BY <2>1 DEF ThreadInv
<1>4. /\ DOMAIN unstamped = 1..Len(unstamped) /\ Len(unstamped) \in Nat
      /\ DOMAIN unstamped' = 1..Len(unstamped) + 1 /\ Len(unstamped') = Len(unstamped) + 1
      /\ \A i \in 1..Len(unstamped) : unstamped'[i] = unstamped[i] /\ unstamped[i] # t
      /\ unstamped'[Len(unstamped) + 1] = t
  BY <1>1, <1>2, <1>3 DEF Waiting
<1>5. Waiting' = Waiting \cup {t}
  BY <1>4 DEF Waiting
<1>6. pending'[t] = e /\ \A u \in Thread \ {t} : pending'[u] = pending[u]
  BY <1>1, <1>2
<1>7. c \in Calls
  BY IdsAre DEF Calls, Formed
<1>8. /\ h \in Seq(Calls) /\ N = clock + Len(unstamped) /\ N \in Nat
  BY DEF HistoryInv
<1> HIDE DEF c, N
<1>9. /\ h2 \in Seq(Calls) /\ Len(h2) = N + 1 /\ h2[N + 1] = c
      /\ \A n \in 1..N : h2[n] = h[n]
  BY <1>7, <1>8 DEF N
<1> HIDE DEF h2
<1>10. \A u \in Thread : Unlogged(u)' <=> Unlogged(u) /\ u # t
  BY <1>1, <1>3, <1>5, <1>6 DEF Unlogged
<1>11. \A n \in 1..clock : n \in 1..N
  BY <1>2, <1>4, <1>8
<1>12. \A n \in 1..clock : \A i, x : Is(h, n, i, x) => Is(h2, n, i, x)
  BY <1>9, <1>11 DEF Is
<1>13. \A u : Id(u)' = Id(u)
  BY DEF Id
<1>14. HistoryInv(h2)'
  <2>1. Len(h2) = clock' + Len(unstamped')
    BY <1>1, <1>2, <1>4, <1>8, <1>9
  <2>2. ASSUME NEW i \in DOMAIN unstamped'
        PROVE  h2[clock' + i] = [process_id |-> Id(unstamped'[i]), event |-> pending'[unstamped'[i]]]
    <3>1. CASE i = Len(unstamped) + 1
      <4>1. clock' + i = N + 1
        BY <1>1, <1>2, <1>4, <1>8, <3>1
      <4> QED
        BY <1>4, <1>6, <1>9, <3>1, <4>1 DEF c
    <3>2. CASE i \in 1..Len(unstamped)
      <4>1. clock + i \in 1..N /\ clock' = clock
        BY <1>1, <1>2, <1>4, <1>8, <3>2
      <4>2. unstamped[i] \in Thread \ {t}
        BY <1>2, <1>4, <3>2
      <4> QED
        BY <1>4, <1>6, <1>9, <3>2, <4>1, <4>2 DEF HistoryInv
    <3> QED
      BY <1>4, <3>1, <3>2
  <2>3. ASSUME NEW u \in Thread, Unlogged(u)'
        PROVE  \E n \in 1..clock' : Is(h2, n, Id(u), pending'[u])
    <3>1. Unlogged(u) /\ u # t /\ pending'[u] = pending[u]
      BY <1>6, <1>10, <2>3
    <3> QED
      BY <1>1, <1>12, <3>1 DEF HistoryInv
  <2>4. ASSUME NEW p \in Proc, NEW k \in Ranks(log[p])
        PROVE  \E n \in 1..clock' : Is(h2, n, IdOf[p], log[p][k])
    BY <1>1, <1>12 DEF HistoryInv
  <2>5. ASSUME NEW n \in 1..clock'
        PROVE  \/ \E u \in Thread : Unlogged(u)' /\ pending'[u].ts = 2 * n
               \/ \E p \in Proc : \E k \in Ranks(log[p]) : log[p][k].ts = 2 * n
    <3>1. CASE \E u \in Thread : Unlogged(u) /\ pending[u].ts = 2 * n
      <4>1. PICK u \in Thread : Unlogged(u) /\ pending[u].ts = 2 * n
        BY <3>1
      <4>2. u # t
        BY <1>1, <4>1 DEF Unlogged
      <4> QED
        BY <1>6, <1>10, <4>1, <4>2
    <3>2. CASE \E p \in Proc : \E k \in Ranks(log[p]) : log[p][k].ts = 2 * n
      BY <3>2
    <3> QED
      BY <1>1, <3>1, <3>2 DEF HistoryInv
  <2> QED
    BY <1>1, <1>9, <1>13, <2>1, <2>2, <2>3, <2>4, <2>5 DEF HistoryInv
<1>15. OnceInv'
  <2>1. \A u \in Thread : Unlogged(u)' => Unlogged(u) /\ pending'[u] = pending[u]
    BY <1>6, <1>10
  <2>2. \A u \in Thread : pending'[u] # NoCall => ProcOf[u] \in born
    BY <1>1, <1>6 DEF OnceInv
  <2> QED
    BY <1>1, <2>1, <2>2 DEF OnceInv
<1>16. \A n : Copied(n)' => Copied(n)
  BY <1>1 DEF Copied
<1> QED
  BY <1>14, <1>15, <1>16 DEF h2, c
\* h with the call i places after the m-th put next to that.
Ahead(h, m, i) ==
    [n \in 1..Len(h) |-> IF n = m + 1 THEN h[m + i]
                         ELSE IF n > m + 1 /\ n <= m + i THEN h[n - 1] ELSE h[n]]

\* Where NewFile puts an Operation.
NextRank(file) == IF file = << >> THEN 2 ELSE Len(file) + 1

LEMMA NewFileIs ==
    ASSUME NEW S, NEW file \in Seq(S), NEW p, NEW e
    PROVE  /\ Ranks(NewFile(p, file, e)) = Ranks(file) \cup {NextRank(file)}
           /\ NextRank(file) \notin Ranks(file)
           /\ NewFile(p, file, e)[NextRank(file)] = e
           /\ \A k \in Ranks(file) : NewFile(p, file, e)[k] = file[k]
           /\ NewFile(p, file, e) # << >>
<1>1. CASE file = << >>
  <2>1. NewFile(p, file, e) = <<Start(p, e.ts - 1), e>> /\ DOMAIN file = {} /\ NextRank(file) = 2
    BY <1>1 DEF NewFile, NextRank
  <2> QED
    BY <2>1 DEF Ranks
<1>2. CASE file # << >>
  <2> DEFINE m == Len(file)
  <2>1. NewFile(p, file, e) = Append(file, e) /\ m \in Nat /\ m >= 1 /\ NextRank(file) = m + 1
        /\ DOMAIN file = 1..m
    BY <1>2 DEF NewFile, NextRank
  <2>2. /\ DOMAIN Append(file, e) = 1..m + 1 /\ Append(file, e)[m + 1] = e
        /\ \A k \in 1..m : Append(file, e)[k] = file[k]
    BY <2>1
  <2> HIDE DEF m
  <2> QED
    BY <2>1, <2>2 DEF Ranks
<1> QED
  BY <1>1, <1>2

\* When an Operation goes into a queue, it is one more that is there.
LEMMA LogGrows ==
    ASSUME LogInv, NEW p \in Proc, NEW e, Logged(p, e)
    PROVE  \E k : /\ k \notin Ranks(log[p])
                  /\ Ranks(log'[p]) = Ranks(log[p]) \cup {k}
                  /\ log'[p][k] = e
                  /\ \A j \in Ranks(log[p]) : log'[p][j] = log[p][j]
                  /\ \A q \in Proc \ {p} : log'[q] = log[q]
<1>1. log[p] \in Seq(Starts(p, clock) \cup Stamps(clock)) /\ DOMAIN log = Proc
  BY DEF LogInv, FileOK
<1>2. log' = [log EXCEPT ![p] = NewFile(p, log[p], e)]
  BY DEF Logged, NewFile
<1>3. log'[p] = NewFile(p, log[p], e) /\ \A q \in Proc \ {p} : log'[q] = log[q]
  BY <1>1, <1>2
<1> QED
  BY <1>1, <1>3, NewFileIs

LEMMA AheadIs ==
    ASSUME NEW S, NEW h \in Seq(S), NEW m \in Nat, NEW i \in 1..Len(h) - m
    PROVE  /\ Ahead(h, m, i) \in Seq(S) /\ Len(Ahead(h, m, i)) = Len(h)
           /\ \A n \in 1..Len(h) : Ahead(h, m, i)[n] = IF n = m + 1 THEN h[m + i]
                         ELSE IF n > m + 1 /\ n <= m + i THEN h[n - 1] ELSE h[n]
<1> DEFINE N == Len(h)
           g == Ahead(h, m, i)
<1>1. N \in Nat /\ \A n \in 1..N : h[n] \in S
  OBVIOUS
<1>2. g = [n \in 1..N |-> IF n = m + 1 THEN h[m + i]
                          ELSE IF n > m + 1 /\ n <= m + i THEN h[n - 1] ELSE h[n]]
  BY DEF Ahead
<1> HIDE DEF g
<1>3. \A n \in 1..N : g[n] \in S
  <2> SUFFICES ASSUME NEW n \in 1..N PROVE g[n] \in S
    OBVIOUS
  <2>1. m + i \in 1..N /\ (n > m + 1 => n - 1 \in 1..N)
    BY <1>1
  <2> QED
    BY <1>1, <1>2, <2>1
<1>4. g \in Seq(S) /\ Len(g) = N
  BY <1>1, <1>2, <1>3, SeqDef, LenProperties
<1> QED
  BY <1>2, <1>4 DEF g

LEMMA StampHistory ==
    ASSUME ThreadInv, LogInv, OnceInv, NEW h, HistoryInv(h), NEW t \in Thread, Stamp(t),
           NEW i \in DOMAIN unstamped, unstamped[i] = t, unstamped' = RemoveAt(unstamped, i),
           NEW now, now = clock
    PROVE  /\ HistoryInv(Ahead(h, now, i))' /\ OnceInv'
           /\ \A n : Copied(n)' => Copied(n)
<1> DEFINE e == Event(pending[t], 2 * (clock + 1))
           g == Ahead(h, now, i)
           N == Len(h)
           U == Len(unstamped)
           m == clock + 1
<1>1. /\ clock' = m /\ born' = born
      /\ \/ Logged(ProcOf[t], e) /\ pending' = [pending EXCEPT ![t] = NoCall]
         \/ pending' = [pending EXCEPT ![t] = e] /\ log' = log
  BY DEF Stamp
<1>2. Waiting' = Waiting \ {t} /\ t \in Waiting
  BY RemoveThread DEF Waiting
<1>3. /\ unstamped \in Seq(Thread) /\ clock \in Nat /\ U \in Nat /\ i \in 1..U
      /\ DOMAIN unstamped = 1..U
      /\ pending = [u \in Thread |-> pending[u]] /\ pending[t] \in Operation
      /\ \A j, k \in 1..U : unstamped[j] = unstamped[k] => j = k
  BY <1>2 DEF ThreadInv
<1>4. /\ unstamped' \in Seq(Thread) /\ Len(unstamped') = U - 1
      /\ \A j \in 1..U - 1 : unstamped'[j] = IF j < i THEN unstamped[j] ELSE unstamped[j + 1]
  BY <1>3, RemoveAtIs
<1>5. 2 * m \in Nat
  BY <1>3
<1>6. e.ts = 2 * m /\ e # NoCall
  BY <1>3, <1>5, EventIs
<1>7. h \in Seq(Calls) /\ N = clock + U /\ N \in Nat /\ i \in 1..N - clock
  BY <1>3 DEF HistoryInv
<1>8. h[clock + i] = [process_id |-> Id(t), event |-> pending[t]]
  BY DEF HistoryInv
<1>22. \A j \in 1..U : h[clock + j] = [process_id |-> Id(unstamped[j]), event |-> pending[unstamped[j]]]
  BY <1>3 DEF HistoryInv
<1> HIDE DEF U, N
<1>9. /\ g \in Seq(Calls) /\ Len(g) = N
      /\ \A n \in 1..N : g[n] = IF n = m THEN h[clock + i]
                         ELSE IF n > m /\ n <= clock + i THEN h[n - 1] ELSE h[n]
  BY <1>3, <1>7, AheadIs DEF N
<1> HIDE DEF g
<1>10. m \in 1..N /\ \A n \in 1..clock : n \in 1..N /\ n < m
  BY <1>3, <1>7
<1>11. Is(g, m, Id(t), e)
  <2>1. g[m] = [process_id |-> Id(t), event |-> pending[t]]
    BY <1>8, <1>9, <1>10
  <2> QED
    BY <2>1 DEF Is
<1>12. \A n \in 1..clock : \A x, y : Is(h, n, x, y) => Is(g, n, x, y)
  <2>1. \A n \in 1..clock : g[n] = h[n]
    BY <1>3, <1>9, <1>10
  <2> QED
    BY <2>1 DEF Is
<1> HIDE DEF e
<1>13. pending'[t] \in {NoCall, e} /\ \A u \in Thread \ {t} : pending'[u] = pending[u]
  BY <1>1, <1>3
<1>14. \A u \in Thread \ {t} : Unlogged(u)' <=> Unlogged(u)
  BY <1>2, <1>13 DEF Unlogged
<1>15. \A u : Id(u)' = Id(u)
  BY DEF Id
<1>16. /\ \A u \in Thread : Unlogged(u) =>
             \E n \in 1..clock : Is(h, n, Id(u), pending[u]) /\ pending[u].ts = 2 * n
       /\ \A p \in Proc : \A k \in Ranks(log[p]) :
             \E n \in 1..clock : Is(h, n, IdOf[p], log[p][k]) /\ log[p][k].ts = 2 * n
  BY <1>3, StampsAre
<1>17. /\ \A u \in Thread : Unlogged(u) => pending[u].ts # 2 * m
       /\ \A p \in Proc : \A k \in Ranks(log[p]) : log[p][k].ts # 2 * m
  <2>1. \A n \in 1..clock : 2 * n # 2 * m
    BY <1>3
  <2> QED
    BY <1>16, <2>1
<1>18. /\ Len(g) = clock' + Len(unstamped')
       /\ \A j \in DOMAIN unstamped' :
             g[clock' + j] = [process_id |-> Id(unstamped'[j]), event |-> pending'[unstamped'[j]]]
  <2>1. Len(g) = clock' + Len(unstamped')
    BY <1>1, <1>3, <1>4, <1>7, <1>9
  <2>2. ASSUME NEW j \in 1..U - 1
        PROVE  g[clock' + j] = [process_id |-> Id(unstamped'[j]), event |-> pending'[unstamped'[j]]]
    <3>1. CASE j < i
      <4>1. m + j \in 1..N /\ m + j > m /\ m + j <= clock + i /\ m + j - 1 = clock + j
        BY <1>3, <1>7, <3>1
      <4>2. g[m + j] = h[clock + j]
        BY <1>9, <1>10, <4>1
      <4>3. j \in 1..U /\ unstamped'[j] = unstamped[j] /\ unstamped[j] # t /\ unstamped[j] \in Thread
        BY <1>3, <1>4, <3>1
      <4> QED
        BY <1>1, <1>13, <1>22, <4>2, <4>3
    <3>2. CASE ~(j < i)
      <4>1. m + j \in 1..N /\ m + j > m /\ ~(m + j <= clock + i) /\ m + j = clock + (j + 1)
        BY <1>3, <1>7, <3>2
      <4>2. g[m + j] = h[clock + (j + 1)]
        BY <1>9, <4>1
      <4>3. j + 1 \in 1..U /\ unstamped'[j] = unstamped[j + 1] /\ unstamped[j + 1] # t
            /\ unstamped[j + 1] \in Thread
        BY <1>3, <1>4, <3>2
      <4> QED
        BY <1>1, <1>13, <1>22, <4>2, <4>3
    <3> QED
      BY <3>1, <3>2
  <2> QED
    BY <1>4, <2>1, <2>2
<1>19. ASSUME NEW u \in Thread \ {t}, Unlogged(u)'
       PROVE  \E n \in 1..clock' : Is(g, n, Id(u), pending'[u])
  BY <1>1, <1>3, <1>12, <1>13, <1>14, <1>16, <1>19
<1>20. CASE pending' = [pending EXCEPT ![t] = e] /\ log' = log
  <2>1. pending'[t] = e /\ Unlogged(t)'
    BY <1>2, <1>3, <1>6, <1>20 DEF Unlogged
  <2>2. m \in 1..m /\ \A n \in 1..clock : n \in 1..m
    BY <1>3
  <2>3. HistoryInv(g)'
    <3>1. \A u \in Thread : Unlogged(u)' => \E n \in 1..clock' : Is(g, n, Id(u), pending'[u])
      BY <1>1, <1>11, <1>19, <2>1, <2>2
    <3>2. \A p \in Proc : \A k \in Ranks(log[p]) : \E n \in 1..clock' : Is(g, n, IdOf[p], log[p][k])
      BY <1>1, <1>12, <1>16, <2>2
    <3>3. ASSUME NEW n \in 1..clock'
          PROVE  \/ \E u \in Thread : Unlogged(u)' /\ pending'[u].ts = 2 * n
                 \/ \E p \in Proc : \E k \in Ranks(log[p]) : log[p][k].ts = 2 * n
      <4>1. CASE n = m
        BY <1>6, <2>1, <4>1
      <4>2. CASE n \in 1..clock
        <5>1. CASE \E u \in Thread : Unlogged(u) /\ pending[u].ts = 2 * n
          <6>1. PICK u \in Thread : Unlogged(u) /\ pending[u].ts = 2 * n
            BY <5>1
          <6>2. u # t
            BY <1>2, <6>1 DEF Unlogged
          <6> QED
            BY <1>13, <1>14, <6>1, <6>2
        <5> QED
          BY <4>2, <5>1 DEF HistoryInv
      <4> QED
        BY <1>1, <1>3, <4>1, <4>2
    <3> QED
      BY <1>9, <1>15, <1>18, <1>20, <3>1, <3>2, <3>3 DEF HistoryInv
  <2>4. OnceInv'
    <3>1. \A u, v \in Thread : Unlogged(u)' /\ Unlogged(v)' /\ pending'[u].ts = pending'[v].ts => u = v
      BY <1>6, <1>13, <1>14, <1>17, <2>1 DEF OnceInv
    <3>2. \A u \in Thread : Unlogged(u)' =>
            \A p \in Proc : \A k \in Ranks(log[p]) : log[p][k].ts # pending'[u].ts
      BY <1>6, <1>13, <1>14, <1>17, <2>1 DEF OnceInv
    <3>3. pending[t] # NoCall
      BY <1>3, OperationIs
    <3>4. \A u \in Thread : pending'[u] # NoCall => ProcOf[u] \in born
      BY <1>13, <3>3 DEF OnceInv
    <3> QED
      BY <1>1, <1>20, <3>1, <3>2, <3>4 DEF OnceInv
  <2>5. \A n : Copied(n)' => Copied(n)
    BY <1>20 DEF Copied
  <2> QED
    BY <2>3, <2>4, <2>5 DEF g
<1>21. CASE Logged(ProcOf[t], e) /\ pending' = [pending EXCEPT ![t] = NoCall]
  <2> DEFINE p == ProcOf[t]
  <2>1. p \in Proc /\ Id(t) = IdOf[p]
    BY FileHistoryAssumption DEF Id
  <2>2. PICK k : /\ k \notin Ranks(log[p])
                 /\ Ranks(log'[p]) = Ranks(log[p]) \cup {k}
                 /\ log'[p][k] = e
                 /\ \A j \in Ranks(log[p]) : log'[p][j] = log[p][j]
                 /\ \A q \in Proc \ {p} : log'[q] = log[q]
    BY <1>21, <2>1, LogGrows
  <2>3. pending'[t] = NoCall /\ ~Unlogged(t)'
    BY <1>3, <1>21 DEF Unlogged
  <2>4. \A q \in Proc : \A j \in Ranks(log'[q]) :
            \/ q = p /\ j = k /\ log'[q][j] = e
            \/ j \in Ranks(log[q]) /\ log'[q][j] = log[q][j]
    BY <2>2
  <2>5. \A q \in Proc : \A j \in Ranks(log[q]) : j \in Ranks(log'[q]) /\ log'[q][j] = log[q][j]
    BY <2>2
  <2>6. k \in Ranks(log'[p])
    BY <2>2
  <2>7. m \in 1..m /\ \A n \in 1..clock : n \in 1..m
    BY <1>3
  <2> HIDE DEF p
  <2>8. HistoryInv(g)'
    <3>1. \A u \in Thread : Unlogged(u)' => \E n \in 1..clock' : Is(g, n, Id(u), pending'[u])
      BY <1>19, <2>3
    <3>2. \A q \in Proc : \A j \in Ranks(log'[q]) :
              \E n \in 1..clock' : Is(g, n, IdOf[q], log'[q][j])
      BY <1>1, <1>11, <1>12, <1>16, <2>1, <2>4, <2>7
    <3>3. ASSUME NEW n \in 1..clock'
          PROVE  \/ \E u \in Thread : Unlogged(u)' /\ pending'[u].ts = 2 * n
                 \/ \E q \in Proc : \E j \in Ranks(log'[q]) : log'[q][j].ts = 2 * n
      <4>1. CASE n = m
        BY <1>6, <2>1, <2>2, <2>6, <4>1
      <4>2. CASE n \in 1..clock
        <5>1. CASE \E u \in Thread : Unlogged(u) /\ pending[u].ts = 2 * n
          <6>1. PICK u \in Thread : Unlogged(u) /\ pending[u].ts = 2 * n
            BY <5>1
          <6>2. u # t
            BY <1>2, <6>1 DEF Unlogged
          <6> QED
            BY <1>13, <1>14, <6>1, <6>2
        <5>2. CASE \E q \in Proc : \E j \in Ranks(log[q]) : log[q][j].ts = 2 * n
          BY <2>5, <5>2
        <5> QED
          BY <4>2, <5>1, <5>2 DEF HistoryInv
      <4> QED
        BY <1>1, <1>3, <4>1, <4>2
    <3> QED
      BY <1>9, <1>15, <1>18, <3>1, <3>2, <3>3 DEF HistoryInv
  <2>9. OnceInv'
    <3>1. \A u, v \in Thread : Unlogged(u)' /\ Unlogged(v)' /\ pending'[u].ts = pending'[v].ts => u = v
      BY <1>13, <1>14, <2>3 DEF OnceInv
    <3>2. \A u \in Thread : Unlogged(u)' =>
            \A q \in Proc : \A j \in Ranks(log'[q]) : log'[q][j].ts # pending'[u].ts
      BY <1>6, <1>13, <1>14, <1>17, <2>3, <2>4 DEF OnceInv
    <3>3. \A u \in Thread : pending'[u] # NoCall => ProcOf[u] \in born
      BY <1>13, <2>3 DEF OnceInv
    <3>4. p \in born
      BY <1>3, OperationIs DEF OnceInv, p
    <3>5. \A q \in Proc \ born : log'[q] = << >>
      BY <2>2, <3>4 DEF OnceInv
    <3> QED
      BY <1>1, <3>1, <3>2, <3>3, <3>5 DEF OnceInv
  <2>10. \A n : Copied(n)' => Copied(n)
    <3> SUFFICES ASSUME NEW n, NEW q \in Proc, NEW r \in Proc,
                        NEW j \in Ranks(log'[q]), NEW l \in Ranks(log'[r]), <<q, j>> # <<r, l>>,
                        log'[q][j].ts = 2 * n, log'[r][l].ts = 2 * n
                 PROVE  Copied(n)
      BY DEF Copied
    <3>1. ~(q = p /\ j = k) /\ ~(r = p /\ l = k)
      BY <1>6, <1>17, <2>2, <2>4
    <3> QED
      BY <2>4, <3>1 DEF Copied
  <2> QED
    BY <2>8, <2>9, <2>10 DEF g
<1> QED
  BY <1>1, <1>20, <1>21
LEMMA QueueHistory ==
    ASSUME ThreadInv, LogInv, OnceInv, NEW h, HistoryInv(h), NEW t \in Thread, Queue(t)
    PROVE  /\ HistoryInv(h)' /\ OnceInv'
           /\ \A n : Copied(n)' => Copied(n)
<1> DEFINE p == ProcOf[t]
           e == pending[t]
<1>1. /\ Logged(p, e) /\ pending' = [pending EXCEPT ![t] = NoCall]
      /\ UNCHANGED <<unstamped, clock, born>> /\ e # NoCall
  BY DEF Queue
<1>2. t \notin Waiting /\ Waiting' = Waiting
  BY DEF Queue, Waiting, Contains
<1>3. pending = [u \in Thread |-> pending[u]] /\ unstamped \in Seq(Thread) /\ clock \in Nat
  BY DEF ThreadInv
<1>4. p \in Proc /\ Id(t) = IdOf[p]
  BY FileHistoryAssumption DEF Id
<1>5. pending'[t] = NoCall /\ \A u \in Thread \ {t} : pending'[u] = pending[u]
  BY <1>1, <1>3
<1>6. Unlogged(t) /\ ~Unlogged(t)' /\ \A u \in Thread \ {t} : Unlogged(u)' <=> Unlogged(u)
  BY <1>1, <1>2, <1>5 DEF Unlogged
<1>7. PICK k : /\ k \notin Ranks(log[p])
               /\ Ranks(log'[p]) = Ranks(log[p]) \cup {k}
               /\ log'[p][k] = e
               /\ \A j \in Ranks(log[p]) : log'[p][j] = log[p][j]
               /\ \A q \in Proc \ {p} : log'[q] = log[q]
  BY <1>1, <1>4, LogGrows
<1>8. \A q \in Proc : \A j \in Ranks(log'[q]) :
          \/ q = p /\ j = k /\ log'[q][j] = e
          \/ j \in Ranks(log[q]) /\ log'[q][j] = log[q][j]
  BY <1>7
<1>9. \A q \in Proc : \A j \in Ranks(log[q]) : j \in Ranks(log'[q]) /\ log'[q][j] = log[q][j]
  BY <1>7
<1>10. \A u : Id(u)' = Id(u)
  BY DEF Id
<1>11. \A i \in DOMAIN unstamped : unstamped[i] \in Thread \ {t}
  BY <1>2, <1>3 DEF Waiting
<1>12. HistoryInv(h)'
  <2>1. \A i \in DOMAIN unstamped' :
           h[clock' + i] = [process_id |-> Id(unstamped'[i]), event |-> pending'[unstamped'[i]]]
    BY <1>1, <1>5, <1>11 DEF HistoryInv
  <2>2. \A u \in Thread : Unlogged(u)' => \E n \in 1..clock' : Is(h, n, Id(u), pending'[u])
    BY <1>1, <1>5, <1>6 DEF HistoryInv
  <2>3. \A q \in Proc : \A j \in Ranks(log'[q]) : \E n \in 1..clock' : Is(h, n, IdOf[q], log'[q][j])
    <3> SUFFICES ASSUME NEW q \in Proc, NEW j \in Ranks(log'[q])
                 PROVE  \E n \in 1..clock : Is(h, n, IdOf[q], log'[q][j])
      BY <1>1
    <3>1. \E n \in 1..clock : Is(h, n, Id(t), e)
      BY <1>6 DEF HistoryInv
    <3>2. CASE q = p /\ j = k /\ log'[q][j] = e
      BY <1>4, <3>1, <3>2
    <3>3. CASE j \in Ranks(log[q]) /\ log'[q][j] = log[q][j]
      BY <3>3 DEF HistoryInv
    <3> QED
      BY <1>8, <3>2, <3>3
  <2>4. ASSUME NEW n \in 1..clock'
        PROVE  \/ \E u \in Thread : Unlogged(u)' /\ pending'[u].ts = 2 * n
               \/ \E q \in Proc : \E j \in Ranks(log'[q]) : log'[q][j].ts = 2 * n
    <3>1. CASE \E u \in Thread : Unlogged(u) /\ pending[u].ts = 2 * n
      <4>1. PICK u \in Thread : Unlogged(u) /\ pending[u].ts = 2 * n
        BY <3>1
      <4>2. CASE u = t
        <5>1. k \in Ranks(log'[p]) /\ log'[p][k].ts = 2 * n
          BY <1>7, <4>1, <4>2
        <5> QED
          BY <1>4, <5>1
      <4>3. CASE u # t
        BY <1>5, <1>6, <4>1, <4>3
      <4> QED
        BY <4>2, <4>3
    <3>2. CASE \E q \in Proc : \E j \in Ranks(log[q]) : log[q][j].ts = 2 * n
      BY <1>9, <3>2
    <3> QED
      BY <1>1, <3>1, <3>2 DEF HistoryInv
  <2>5. h \in Seq(Calls) /\ Len(h) = clock' + Len(unstamped')
    BY <1>1 DEF HistoryInv
  <2> QED
    BY <1>10, <2>1, <2>2, <2>3, <2>4, <2>5 DEF HistoryInv
<1>13. OnceInv'
  <2>1. \A u, v \in Thread : Unlogged(u)' /\ Unlogged(v)' /\ pending'[u].ts = pending'[v].ts => u = v
    BY <1>5, <1>6 DEF OnceInv
  <2>2. \A u \in Thread : Unlogged(u)' =>
            \A q \in Proc : \A j \in Ranks(log'[q]) : log'[q][j].ts # pending'[u].ts
    <3> SUFFICES ASSUME NEW u \in Thread, Unlogged(u)', NEW q \in Proc, NEW j \in Ranks(log'[q])
                 PROVE  log'[q][j].ts # pending'[u].ts
      OBVIOUS
    <3>1. u # t /\ Unlogged(u) /\ pending'[u] = pending[u]
      BY <1>5, <1>6
    <3>2. CASE log'[q][j] = e
      BY <1>6, <3>1, <3>2 DEF OnceInv
    <3>3. CASE j \in Ranks(log[q]) /\ log'[q][j] = log[q][j]
      BY <3>1, <3>3 DEF OnceInv
    <3> QED
      BY <1>8, <3>2, <3>3
  <2>3. \A u \in Thread : pending'[u] # NoCall => ProcOf[u] \in born
    BY <1>5 DEF OnceInv
  <2>4. p \in born
    BY <1>1 DEF OnceInv
  <2>5. \A q \in Proc \ born : log'[q] = << >>
    BY <1>7, <2>4 DEF OnceInv
  <2> QED
    BY <1>1, <2>1, <2>2, <2>3, <2>5 DEF OnceInv
<1>14. ASSUME NEW n, Copied(n)' PROVE Copied(n)
  <2>1. PICK q \in Proc, r \in Proc :
            \E j \in Ranks(log'[q]), l \in Ranks(log'[r]) :
               <<q, j>> # <<r, l>> /\ log'[q][j].ts = 2 * n /\ log'[r][l].ts = 2 * n
    BY <1>14 DEF Copied
  <2>2. PICK j \in Ranks(log'[q]), l \in Ranks(log'[r]) :
               <<q, j>> # <<r, l>> /\ log'[q][j].ts = 2 * n /\ log'[r][l].ts = 2 * n
    BY <2>1
  <2>3. \A s \in Proc : \A i \in Ranks(log[s]) : log[s][i].ts # e.ts
    BY <1>6 DEF OnceInv
  <2>4. j \in Ranks(log[q]) /\ log'[q][j] = log[q][j] /\ l \in Ranks(log[r]) /\ log'[r][l] = log[r][l]
    BY <1>8, <2>2, <2>3
  <2> QED
    BY <2>2, <2>4 DEF Copied
<1> QED
  BY <1>12, <1>13, <1>14

\* The Operations of the queue that a fork copies are in two places.
LEMMA ForkHistory ==
    ASSUME LogInv, OnceInv, NEW h, HistoryInv(h), NEW p \in Proc, NEW c \in Proc, Fork(p, c)
    PROVE  /\ HistoryInv(h)' /\ OnceInv'
           /\ \A n : Copied(n)' => Copied(n) \/ \E k \in Ranks(log[p]) : log[p][k].ts = 2 * n
<1>1. /\ log' = [log EXCEPT ![c] = log[p]] /\ UNCHANGED <<pending, unstamped, clock>>
      /\ born' = born \cup {c} /\ c \notin born /\ IdOf[c] = IdOf[p]
  BY DEF Fork
<1>2. log'[c] = log[p] /\ \A q \in Proc \ {c} : log'[q] = log[q]
  BY <1>1 DEF LogInv
<1>3. log[c] = << >>
  BY <1>1 DEF OnceInv
<1>4. Ranks(log[c]) = {}
  BY <1>3 DEF Ranks
<1>5. \A t : Unlogged(t)' <=> Unlogged(t)
  BY <1>1 DEF Unlogged, Waiting
<1>6. \A q \in Proc : \A j \in Ranks(log'[q]) :
         \/ q # c /\ j \in Ranks(log[q]) /\ log'[q][j] = log[q][j]
         \/ q = c /\ j \in Ranks(log[p]) /\ log'[q][j] = log[p][j]
  BY <1>2
<1>7. \A u : Id(u)' = Id(u)
  BY DEF Id
<1>8. HistoryInv(h)'
  <2>1. \A q \in Proc : \A j \in Ranks(log'[q]) : \E n \in 1..clock' : Is(h, n, IdOf[q], log'[q][j])
    <3> SUFFICES ASSUME NEW q \in Proc, NEW j \in Ranks(log'[q])
                 PROVE  \E n \in 1..clock : Is(h, n, IdOf[q], log'[q][j])
      BY <1>1
    <3>1. CASE q # c /\ j \in Ranks(log[q]) /\ log'[q][j] = log[q][j]
      BY <3>1 DEF HistoryInv
    <3>2. CASE q = c /\ j \in Ranks(log[p]) /\ log'[q][j] = log[p][j]
      <4>1. \E n \in 1..clock : Is(h, n, IdOf[p], log[p][j])
        BY <3>2 DEF HistoryInv
      <4> QED
        BY <1>1, <3>2, <4>1
    <3> QED
      BY <1>6, <3>1, <3>2
  <2>2. \A q \in Proc : \A j \in Ranks(log[q]) : j \in Ranks(log'[q]) /\ log'[q][j] = log[q][j]
    BY <1>2, <1>4
  <2>3. ASSUME NEW n \in 1..clock'
        PROVE  \/ \E u \in Thread : Unlogged(u)' /\ pending'[u].ts = 2 * n
               \/ \E q \in Proc : \E j \in Ranks(log'[q]) : log'[q][j].ts = 2 * n
    <3>1. CASE \E u \in Thread : Unlogged(u) /\ pending[u].ts = 2 * n
      BY <1>1, <1>5, <3>1
    <3>2. CASE \E q \in Proc : \E j \in Ranks(log[q]) : log[q][j].ts = 2 * n
      BY <2>2, <3>2
    <3> QED
      BY <1>1, <3>1, <3>2 DEF HistoryInv
  <2>4. \A u \in Thread : Unlogged(u)' => \E n \in 1..clock' : Is(h, n, Id(u), pending'[u])
    BY <1>1, <1>5 DEF HistoryInv
  <2>5. h \in Seq(Calls) /\ Len(h) = clock' + Len(unstamped')
    BY <1>1 DEF HistoryInv
  <2>6. \A i \in DOMAIN unstamped' :
           h[clock' + i] = [process_id |-> Id(unstamped'[i]), event |-> pending'[unstamped'[i]]]
    BY <1>1 DEF HistoryInv
  <2> QED
    BY <1>7, <2>1, <2>3, <2>4, <2>5, <2>6 DEF HistoryInv
<1>9. OnceInv'
  <2>1. \A u, v \in Thread : Unlogged(u)' /\ Unlogged(v)' /\ pending'[u].ts = pending'[v].ts => u = v
    BY <1>1, <1>5 DEF OnceInv
  <2>2. \A u \in Thread : Unlogged(u)' =>
            \A q \in Proc : \A j \in Ranks(log'[q]) : log'[q][j].ts # pending'[u].ts
    <3> SUFFICES ASSUME NEW u \in Thread, Unlogged(u), NEW q \in Proc, NEW j \in Ranks(log'[q])
                 PROVE  log'[q][j].ts # pending[u].ts
      BY <1>1, <1>5
    <3>1. \A r \in Proc : \A l \in Ranks(log[r]) : log[r][l].ts # pending[u].ts
      BY DEF OnceInv
    <3> QED
      BY <1>6, <3>1
  <2>3. \A u \in Thread : pending'[u] # NoCall => ProcOf[u] \in born'
    BY <1>1 DEF OnceInv
  <2>4. \A q \in Proc \ born' : log'[q] = << >>
    BY <1>1, <1>2 DEF OnceInv
  <2> QED
    BY <2>1, <2>2, <2>3, <2>4 DEF OnceInv
<1>10. ASSUME NEW n, Copied(n)', \A k \in Ranks(log[p]) : log[p][k].ts # 2 * n
       PROVE  Copied(n)
  <2>1. PICK q \in Proc, r \in Proc :
            \E j \in Ranks(log'[q]), l \in Ranks(log'[r]) :
               <<q, j>> # <<r, l>> /\ log'[q][j].ts = 2 * n /\ log'[r][l].ts = 2 * n
    BY <1>10 DEF Copied
  <2>2. PICK j \in Ranks(log'[q]), l \in Ranks(log'[r]) :
               <<q, j>> # <<r, l>> /\ log'[q][j].ts = 2 * n /\ log'[r][l].ts = 2 * n
    BY <2>1
  <2>3. j \in Ranks(log[q]) /\ log'[q][j] = log[q][j] /\ l \in Ranks(log[r]) /\ log'[r][l] = log[r][l]
    BY <1>6, <1>10, <2>2
  <2> QED
    BY <2>2, <2>3 DEF Copied
<1> QED
  BY <1>8, <1>9, <1>10
-----------------------------------------------------------------------------
(* Results that agree on what processes did, and on the first paths of all *)
(* but some paths.                                                         *)

Same(f, d, T) ==
    /\ DataShape(f) /\ DataShape(d)
    /\ \A i : Known(f, i) = Known(d, i)
    /\ \A i, p : Marks(f, i, p) = Marks(d, i, p)
    /\ \A p : p \notin T => Root(f, p) = Root(d, p)

\* x is the call c, perhaps with a stamp.
Alike(x, c) ==
    /\ x.process_id = c.process_id /\ x.event.op = c.event.op
    /\ c.event.op \in Accesses => x.event.path = c.event.path
    /\ c.event.op \in Twos => x.event.from = c.event.from /\ x.event.to = c.event.to

LEMMA CallIs ==
    ASSUME NEW c \in Calls
    PROVE  /\ c.event.op \in Accesses \cup Twos
           /\ c.event.op \in Accesses => c.event.path \in String
           /\ c.event.op \in Twos => c.event.from \in String /\ c.event.to \in String
           /\ Alike(c, c)
           /\ \A n \in Nat : \A x : x.process_id = c.process_id /\ x.event = Event(c.event, 2 * n) => Alike(x, c)
<1> DEFINE e == c.event
<1>1. e \in Formed
  BY DEF Calls
<1> HIDE DEF e
<1>2. \/ e.op \in Accesses /\ e.path \in String /\ "path" \in DOMAIN e
      \/ /\ e.op \in Twos /\ e.from \in String /\ e.to \in String
         /\ "from" \in DOMAIN e /\ "to" \in DOMAIN e
  BY <1>1 DEF Formed
<1>3. \A op \in Accesses : op \notin Twos
  BY DEF Accesses, Twos
<1>4. ASSUME NEW n \in Nat, NEW x, x.process_id = c.process_id, x.event = Event(e, 2 * n)
      PROVE  Alike(x, c)
  <2>1. e \in Operation /\ 2 * n \in Nat
    BY <1>1 DEF Formed
  <2>2. Event(e, 2 * n).op = e.op /\ \A field \in DOMAIN e : Event(e, 2 * n)[field] = e[field]
    BY <2>1, EventIs
  <2>3. /\ x.event.op = e.op
        /\ e.op \in Accesses => x.event.path = e.path
        /\ e.op \in Twos => x.event.from = e.from /\ x.event.to = e.to
    BY <1>2, <1>3, <1>4, <2>2
  <2> QED
    BY <1>4, <2>3 DEF Alike, e
<1>5. Alike(c, c)
  BY DEF Alike
<1> QED
  BY <1>2, <1>3, <1>4, <1>5 DEF e

LEMMA FlagSame ==
    ASSUME NEW f, NEW d, NEW T, NEW T2, Same(f, d, T), T \subseteq T2, NEW f2, NEW d2, NEW i, NEW q,
           NEW mark, NEW x, NEW y, Flagging(f, f2, i, q, mark, x), Flagging(d, d2, i, q, mark, y)
    PROVE  Same(f2, d2, T2)
<1>1. \A j : Known(f2, j) = Known(d2, j)
  BY DEF Same, Flagging
<1>2. \A j, p : Marks(f2, j, p) = Marks(d2, j, p)
  BY DEF Same, Flagging
<1>3. \A p : p \notin T2 => Root(f2, p) = Root(d2, p)
  BY DEF Same, Flagging
<1> QED
  BY <1>1, <1>2, <1>3 DEF Same, Flagging

LEMMA FlagAgain ==
    ASSUME NEW f, NEW d, NEW T, Same(f, d, T), NEW f2, NEW i, NEW q, NEW mark, NEW x,
           Flagging(f, f2, i, q, mark, x), q \in Known(d, i), mark \in Marks(d, i, q)
    PROVE  Same(f2, d, T)
<1>1. \A j : Known(f2, j) = Known(d, j)
  BY DEF Same, Flagging
<1>2. \A j, p : Marks(f2, j, p) = Marks(d, j, p)
  BY DEF Same, Flagging
<1>3. \A p : p \notin T => Root(f2, p) = Root(d, p)
  BY DEF Same, Flagging
<1> QED
  BY <1>1, <1>2, <1>3 DEF Same, Flagging

\* A flag is set, and stays when others are.
LEMMA FlagSets ==
    ASSUME NEW d, NEW d2, NEW i, NEW q, NEW mark, NEW x, Flagging(d, d2, i, q, mark, x)
    PROVE  /\ q \in Known(d2, i) /\ mark \in Marks(d2, i, q)
           /\ \A j : Known(d, j) \subseteq Known(d2, j)
           /\ \A j, p : Marks(d, j, p) \subseteq Marks(d2, j, p)
           /\ \A j, p : p # q => Marks(d2, j, p) = Marks(d, j, p)
           /\ \A p : Root(d2, p) = Root(d, p)
  BY DEF Flagging

LEMMA RenamingMarks ==
    ASSUME NEW d, NEW r, NEW from, NEW to, Renaming(d, r, from, to)
    PROVE  /\ \A j : from \notin Known(r, j)
           /\ \A j, p : Marks(r, j, p) = IF p = from THEN {}
                                         ELSE IF p = to /\ from \in Known(d, j) THEN Marks(d, j, from)
                                         ELSE Marks(d, j, p)
<1>1. \A j : from \notin Known(r, j)
  BY DEF Renaming
<1>2. ASSUME NEW j, NEW p
      PROVE  Marks(r, j, p) = IF p = from THEN {}
                              ELSE IF p = to /\ from \in Known(d, j) THEN Marks(d, j, from)
                              ELSE Marks(d, j, p)
  <2>1. CASE p = from
    BY <1>1, <2>1, OperationsAre
  <2>2. CASE p # from /\ p = to /\ from \in Known(d, j)
    BY <2>2 DEF Renaming, Marks
  <2>3. CASE p # from /\ ~(p = to /\ from \in Known(d, j))
    BY <2>3 DEF Renaming, Marks
  <2> QED
    BY <2>1, <2>2, <2>3
<1> QED
  BY <1>1, <1>2

LEMMA RenameSame ==
    ASSUME NEW f, NEW d, NEW T, NEW T2, Same(f, d, T), T \subseteq T2, NEW f2, NEW d2,
           NEW from, NEW to, from \in T => to \in T2,
           Renaming(f, f2, from, to), Renaming(d, d2, from, to)
    PROVE  Same(f2, d2, T2)
<1>1. \A j : Known(f2, j) = Known(d2, j)
  BY DEF Same, Renaming
<1>2. \A j, p : Marks(f2, j, p) = Marks(d2, j, p)
  <2> SUFFICES ASSUME NEW j, NEW p PROVE Marks(f2, j, p) = Marks(d2, j, p)
    OBVIOUS
  <2>1. /\ Marks(f2, j, p) = IF p = from THEN {}
                             ELSE IF p = to /\ from \in Known(f, j) THEN Marks(f, j, from)
                             ELSE Marks(f, j, p)
        /\ Marks(d2, j, p) = IF p = from THEN {}
                             ELSE IF p = to /\ from \in Known(d, j) THEN Marks(d, j, from)
                             ELSE Marks(d, j, p)
    BY RenamingMarks
  <2> QED
    BY <2>1 DEF Same
<1>3. \A p : p \notin T2 => Root(f2, p) = Root(d2, p)
  BY DEF Same, Renaming
<1> QED
  BY <1>1, <1>2, <1>3 DEF Same, Renaming

LEMMA RenameAgain ==
    ASSUME NEW f, NEW d, NEW d2, NEW T, NEW from, NEW to, Renaming(d, d2, from, to),
           Same(f, d2, T), NEW f2, Renaming(f, f2, from, to), to \in T
    PROVE  Same(f2, d2, T)
<1>1. \A j : from \notin Known(d2, j) /\ from \notin Known(f, j)
  BY RenamingMarks DEF Same
<1>2. \A j : Known(f2, j) = Known(d2, j)
  BY <1>1 DEF Same, Renaming
<1>3. \A j, p : Marks(f2, j, p) = Marks(d2, j, p)
  <2> SUFFICES ASSUME NEW j, NEW p PROVE Marks(f2, j, p) = Marks(d2, j, p)
    OBVIOUS
  <2>1. Marks(f2, j, p) = IF p = from THEN {}
                          ELSE IF p = to /\ from \in Known(f, j) THEN Marks(f, j, from)
                          ELSE Marks(f, j, p)
    BY RenamingMarks
  <2>2. Marks(d2, j, from) = {}
    BY <1>1, OperationsAre
  <2> QED
    BY <1>1, <2>1, <2>2 DEF Same
<1>4. Root(d2, from) = from
  BY DEF Renaming
<1>5. \A p : p \notin T => Root(f2, p) = Root(d2, p)
  BY <1>4 DEF Same, Renaming
<1> QED
  BY <1>2, <1>3, <1>5 DEF Same, Renaming

\* What a call does, as a disjunct for each kind.
LEMMA CallDoes ==
    ASSUME NEW c \in Calls, NEW x, Alike(x, c), NEW d, DataShape(d)
    PROVE  LET i == c.process_id
               r == Processed(d, Originals, x)
           IN /\ c.event.op \in Accesses =>
                    \E s : Flagging(d, r, i, c.event.path, MarkOf[c.event.op], s)
              /\ c.event.op = "TRANSFER" =>
                    \E a, s : /\ Flagging(d, a, i, c.event.from, "read", s)
                              /\ Flagging(a, r, i, c.event.to, "write", NoChecksum)
              /\ c.event.op = "RENAME" => Renaming(d, r, c.event.from, c.event.to)
<1> DEFINE i == c.process_id
           r == Processed(d, Originals, x)
<1>1. ASSUME c.event.op \in Accesses
      PROVE  \E s : Flagging(d, r, i, c.event.path, MarkOf[c.event.op], s)
  <2>1. x.event.op = c.event.op /\ x.event.path = c.event.path /\ x.process_id = i
    BY <1>1 DEF Alike
  <2>2. Flagging(d, r, x.process_id, x.event.path, MarkOf[x.event.op],
                 get_checksum(d, Originals, x.event.path))
    BY <1>1, <2>1, AccessCall
  <2> QED
    BY <2>1, <2>2
<1>2. ASSUME c.event.op = "TRANSFER"
      PROVE  \E a, s : /\ Flagging(d, a, i, c.event.from, "read", s)
                       /\ Flagging(a, r, i, c.event.to, "write", NoChecksum)
  <2>1. x.event.op = "TRANSFER" /\ x.event.from = c.event.from /\ x.event.to = c.event.to
        /\ x.process_id = i
    BY <1>2 DEF Alike, Twos
  <2>2. \E a : /\ Flagging(d, a, x.process_id, x.event.from, "read",
                           get_checksum(d, Originals, x.event.from))
               /\ Flagging(a, r, x.process_id, x.event.to, "write", NoChecksum)
    BY <2>1, TransferCall
  <2> QED
    BY <2>1, <2>2
<1>3. ASSUME c.event.op = "RENAME" PROVE Renaming(d, r, c.event.from, c.event.to)
  <2>1. x.event.op = "RENAME" /\ x.event.from = c.event.from /\ x.event.to = c.event.to
    BY <1>3 DEF Alike, Twos
  <2> QED
    BY <2>1, RenameCall
<1> QED
  BY <1>1, <1>2, <1>3

LEMMA CallShape ==
    ASSUME NEW c \in Calls, NEW x, Alike(x, c), NEW d, DataShape(d)
    PROVE  DataShape(Processed(d, Originals, x))
<1>1. c.event.op \in Accesses \/ c.event.op = "TRANSFER" \/ c.event.op = "RENAME"
  BY CallIs DEF Twos
<1> QED
  BY <1>1, CallDoes DEF Flagging, Renaming

LEMMA CallSame ==
    ASSUME NEW c \in Calls, NEW x, Alike(x, c), NEW f, NEW d, NEW T, NEW T2, Same(f, d, T),
           T \subseteq T2, c.event.op = "RENAME" /\ c.event.from \in T => c.event.to \in T2
    PROVE  Same(Processed(f, Originals, x), Processed(d, Originals, c), T2)
<1> DEFINE i == c.process_id
           f2 == Processed(f, Originals, x)
           d2 == Processed(d, Originals, c)
<1>1. DataShape(f) /\ DataShape(d) /\ Alike(c, c)
  BY CallIs DEF Same
<1>2. CASE c.event.op \in Accesses
  <2>1. PICK s : Flagging(f, f2, i, c.event.path, MarkOf[c.event.op], s)
    BY <1>1, <1>2, CallDoes
  <2>2. PICK s2 : Flagging(d, d2, i, c.event.path, MarkOf[c.event.op], s2)
    BY <1>1, <1>2, CallDoes
  <2> HIDE DEF f2, d2
  <2>3. Same(f2, d2, T2)
    BY <2>1, <2>2, FlagSame
  <2> QED
    BY <2>3 DEF f2, d2
<1>3. CASE c.event.op = "TRANSFER"
  <2>1. PICK a, s : /\ Flagging(f, a, i, c.event.from, "read", s)
                    /\ Flagging(a, f2, i, c.event.to, "write", NoChecksum)
    BY <1>1, <1>3, CallDoes
  <2>2. PICK a2, s2 : /\ Flagging(d, a2, i, c.event.from, "read", s2)
                      /\ Flagging(a2, d2, i, c.event.to, "write", NoChecksum)
    BY <1>1, <1>3, CallDoes
  <2> HIDE DEF f2, d2
  <2>3. Same(a, a2, T)
    BY <2>1, <2>2, FlagSame
  <2>4. Same(f2, d2, T2)
    BY <2>1, <2>2, <2>3, FlagSame
  <2> QED
    BY <2>4 DEF f2, d2
<1>4. CASE c.event.op = "RENAME"
  <2>1. Renaming(f, f2, c.event.from, c.event.to) /\ Renaming(d, d2, c.event.from, c.event.to)
    BY <1>1, <1>4, CallDoes
  <2> HIDE DEF f2, d2
  <2>2. Same(f2, d2, T2)
    BY <1>4, <2>1, RenameSame
  <2> QED
    BY <2>2 DEF f2, d2
<1>5. c.event.op \in Accesses \cup Twos
  BY CallIs
<1> QED
  BY <1>2, <1>3, <1>4, <1>5 DEF Twos

\* A call that is taken again, as after a fork, changes nothing but first paths.
LEMMA CallAgain ==
    ASSUME NEW c \in Calls, NEW x, Alike(x, c), NEW f, NEW d, NEW T, DataShape(d),
           Same(f, Processed(d, Originals, c), T), c.event.op = "RENAME" => c.event.to \in T
    PROVE  Same(Processed(f, Originals, x), Processed(d, Originals, c), T)
<1> DEFINE i == c.process_id
           f2 == Processed(f, Originals, x)
           d2 == Processed(d, Originals, c)
<1>1. DataShape(f) /\ Alike(c, c)
  BY CallIs DEF Same
<1>2. CASE c.event.op \in Accesses
  <2>1. PICK s : Flagging(f, f2, i, c.event.path, MarkOf[c.event.op], s)
    BY <1>1, <1>2, CallDoes
  <2>2. PICK s2 : Flagging(d, d2, i, c.event.path, MarkOf[c.event.op], s2)
    BY <1>1, <1>2, CallDoes
  <2> HIDE DEF f2, d2
  <2>3. Same(f2, d2, T)
    BY <2>1, <2>2, FlagSets, FlagAgain DEF d2
  <2> QED
    BY <2>3 DEF f2, d2
<1>3. CASE c.event.op = "TRANSFER"
  <2>1. PICK a, s : /\ Flagging(f, a, i, c.event.from, "read", s)
                    /\ Flagging(a, f2, i, c.event.to, "write", NoChecksum)
    BY <1>1, <1>3, CallDoes
  <2>2. PICK a2, s2 : /\ Flagging(d, a2, i, c.event.from, "read", s2)
                      /\ Flagging(a2, d2, i, c.event.to, "write", NoChecksum)
    BY <1>1, <1>3, CallDoes
  <2>3. Same(f, d2, T)
    OBVIOUS
  <2> HIDE DEF f2, d2
  <2>4. c.event.from \in Known(d2, i) /\ "read" \in Marks(d2, i, c.event.from)
    <3>1. c.event.from \in Known(a2, i) /\ "read" \in Marks(a2, i, c.event.from)
      BY <2>2, FlagSets
    <3>2. Known(a2, i) \subseteq Known(d2, i) /\ Marks(a2, i, c.event.from) \subseteq Marks(d2, i, c.event.from)
      BY <2>2, FlagSets
    <3> QED
      BY <3>1, <3>2
  <2>5. Same(a, d2, T)
    BY <2>1, <2>3, <2>4, FlagAgain
  <2>6. c.event.to \in Known(d2, i) /\ "write" \in Marks(d2, i, c.event.to)
    BY <2>2, FlagSets
  <2>7. Same(f2, d2, T)
    BY <2>1, <2>5, <2>6, FlagAgain
  <2> QED
    BY <2>7 DEF f2, d2
<1>4. CASE c.event.op = "RENAME"
  <2>1. Renaming(f, f2, c.event.from, c.event.to) /\ Renaming(d, d2, c.event.from, c.event.to)
    BY <1>1, <1>4, CallDoes
  <2>2. Same(f, d2, T)
    OBVIOUS
  <2> HIDE DEF f2, d2
  <2>3. Same(f2, d2, T)
    BY <1>4, <2>1, <2>2, RenameAgain
  <2> QED
    BY <2>3 DEF f2, d2
<1>5. c.event.op \in Accesses \cup Twos
  BY CallIs
<1> QED
  BY <1>2, <1>3, <1>4, <1>5 DEF Twos

LEMMA StartSame ==
    ASSUME NEW x, x.event.op = "START", NEW f, NEW d, NEW T, Same(f, d, T)
    PROVE  Same(Processed(f, Originals, x), d, T)
<1> DEFINE r == Processed(f, Originals, x)
<1>1. DataShape(f)
  BY DEF Same
<1>2. DataShape(r) /\ r.rename_map = f.rename_map /\ \A j : Ops(r, j) = Ops(f, j)
  BY <1>1, StartCall
<1> HIDE DEF r
<1>3. /\ \A j : Known(r, j) = Known(f, j)
      /\ \A p : Root(r, p) = Root(f, p)
  BY <1>2 DEF Known, Root
<1>4. \A j, p : Marks(r, j, p) = Marks(f, j, p)
  <2> SUFFICES ASSUME NEW j, NEW p PROVE Marks(r, j, p) = Marks(f, j, p)
    OBVIOUS
  <2>1. Operations(r, j, p) = Operations(f, j, p)
    BY <1>2, OperationsAre
  <2> QED
    BY <2>1 DEF Marks
<1>5. Same(r, d, T)
  BY <1>2, <1>3, <1>4 DEF Same
<1> QED
  BY <1>5 DEF r-----------------------------------------------------------------------------
(* The results after each call of a history. *)

Runs(h, D) ==
    /\ D[0] = Nothing
    /\ \A n \in 1..Len(h) : D[n] = Processed(D[n - 1], Originals, h[n])

\* What holds at m and, if it holds at a number, at the next one, holds up to n.
LEMMA UpTo ==
    ASSUME NEW m \in Nat, NEW n \in Nat, NEW G, m \in G,
           \A k \in m..n : k < n /\ k \in G => k + 1 \in G
    PROVE  \A k \in m..n : k \in G
<1> DEFINE T == {k \in m..n : k \notin G}
<1> SUFFICES ASSUME T # {} PROVE FALSE
  OBVIOUS
<1>1. T \in SUBSET Nat
  OBVIOUS
<1>2. PICK k \in T : \A j \in T : k <= j
  BY <1>1, LeastNumber
<1>3. k \in m..n /\ k \notin G /\ k # m
  BY <1>2
<1>4. k - 1 \in m..n /\ k - 1 < n /\ k - 1 \notin T /\ (k - 1) + 1 = k
  BY <1>2, <1>3
<1> QED
  BY <1>3, <1>4

LEMMA RunShapes ==
    ASSUME NEW h \in Seq(Calls), NEW D, Runs(h, D)
    PROVE  \A n \in 0..Len(h) : DataShape(D[n])
<1> DEFINE G == {n \in Nat : DataShape(D[n])}
<1>1. 0 \in G
  BY NothingIs DEF Runs
<1>2. ASSUME NEW k \in 0..Len(h), k < Len(h), k \in G PROVE k + 1 \in G
  <2>1. k + 1 \in 1..Len(h) /\ (k + 1) - 1 = k
    BY <1>2
  <2>2. D[k + 1] = Processed(D[k], Originals, h[k + 1]) /\ h[k + 1] \in Calls
    BY <2>1 DEF Runs
  <2>3. DataShape(D[k + 1])
    BY <1>2, <2>2, CallIs, CallShape
  <2> QED
    BY <2>1, <2>3
<1>3. Len(h) \in Nat /\ 0 \in Nat
  OBVIOUS
<1> HIDE DEF G
<1>4. \A k \in 0..Len(h) : k \in G
  BY <1>1, <1>2, <1>3, UpTo
<1> QED
  BY <1>4 DEF G

\* Histories that begin with the same m calls have the same results up to there.
Begins(g, h, m) ==
    /\ g \in Seq(Calls) /\ h \in Seq(Calls)
    /\ m \in Nat /\ m <= Len(h) /\ m <= Len(g)
    /\ \A n \in 1..m : g[n] = h[n]
SameTo(E, D, m) == \A n \in 0..m : E[n] = D[n]

LEMMA RunFrom ==
    ASSUME NEW h, NEW D, Runs(h, D), NEW g, NEW m, Begins(g, h, m)
    PROVE  \E E : Runs(g, E) /\ SameTo(E, D, m)
<1>0. /\ g \in Seq(Calls) /\ m \in Nat /\ m <= Len(h) /\ m <= Len(g) /\ Len(h) \in Nat
      /\ \A n \in 1..m : g[n] = h[n]
  BY DEF Begins
<1> DEFINE N == Len(g)
           Good(E, k) == /\ \A n \in 0..m : E[n] = D[n]
                         /\ \A n \in 1..k : E[n] = Processed(E[n - 1], Originals, g[n])
           G == {k \in Nat : \E E : Good(E, k)}
<1>1. N \in Nat /\ m \in Nat /\ m <= N /\ m <= Len(h) /\ Len(h) \in Nat
  BY <1>0
<1>2. m \in G
  <2>1. \A n \in 1..m : n \in 1..Len(h)
    BY <1>1
  <2>2. Good(D, m)
    BY <1>0, <2>1 DEF Runs
  <2> QED
    BY <1>1, <2>2
<1>3. ASSUME NEW k \in m..N, k < N, k \in G PROVE k + 1 \in G
  <2>1. PICK E : Good(E, k)
    BY <1>3
  <2> DEFINE F == [n \in Nat |-> IF n = k + 1 THEN Processed(E[k], Originals, g[k + 1]) ELSE E[n]]
  <2>2. k \in Nat /\ k + 1 \in Nat /\ (k + 1) - 1 = k
    BY <1>1
  <2>3. F[k + 1] = Processed(E[k], Originals, g[k + 1]) /\ \A n \in 0..k : F[n] = E[n]
    BY <2>2
  <2>4. \A n \in 0..m : n \in 0..k
    BY <1>1
  <2>5. \A n \in 1..k : n \in 0..k /\ n - 1 \in 0..k
    BY <2>2
  <2>6. k \in 0..k
    BY <2>2
  <2> HIDE DEF F
  <2>7. \A n \in 0..m : F[n] = D[n]
    BY <2>1, <2>3, <2>4
  <2>8. \A n \in 1..k : F[n] = Processed(F[n - 1], Originals, g[n])
    BY <2>1, <2>3, <2>5
  <2>9. F[k + 1] = Processed(F[(k + 1) - 1], Originals, g[k + 1])
    BY <2>2, <2>3, <2>6
  <2>10. \A n \in 1..k + 1 : n \in 1..k \/ n = k + 1
    BY <2>2
  <2>11. Good(F, k + 1)
    BY <2>7, <2>8, <2>9, <2>10
  <2> QED
    BY <2>2, <2>11
<1> HIDE DEF G
<1>4. \A k \in m..N : k \in G
  BY <1>1, <1>2, <1>3, UpTo
<1>5. N \in m..N
  BY <1>1
<1>6. PICK E : Good(E, N)
  BY <1>4, <1>5 DEF G
<1>7. E[0] = D[0]
  BY <1>1, <1>6
<1> QED
  BY <1>6, <1>7 DEF Runs, SameTo

\* The strings of a call.
Strings(e) == IF e.op \in Accesses THEN {e.path} ELSE {e.from, e.to}

LEMMA CallOutside ==
    ASSUME NEW c \in Calls, NEW d, DataShape(d), NEW p, p \notin Strings(c.event)
    PROVE  /\ \A j : Marks(Processed(d, Originals, c), j, p) = Marks(d, j, p)
           /\ Root(Processed(d, Originals, c), p) = Root(d, p)
<1> DEFINE r == Processed(d, Originals, c)
           i == c.process_id
           e == c.event
<1>1. Alike(c, c) /\ e.op \in Accesses \cup Twos
  BY CallIs
<1>2. CASE e.op \in Accesses
  <2>1. PICK s : Flagging(d, r, i, e.path, MarkOf[e.op], s)
    BY <1>1, <1>2, CallDoes
  <2> QED
    BY <1>2, <2>1, FlagSets DEF Strings
<1>3. CASE e.op = "TRANSFER"
  <2>1. PICK a, s : /\ Flagging(d, a, i, e.from, "read", s)
                    /\ Flagging(a, r, i, e.to, "write", NoChecksum)
    BY <1>1, <1>3, CallDoes
  <2>2. p # e.from /\ p # e.to
    BY <1>3 DEF Strings, Accesses
  <2> HIDE DEF r, e, i
  <2>3. \A j : Marks(r, j, p) = Marks(a, j, p) /\ Marks(a, j, p) = Marks(d, j, p)
    BY <2>1, <2>2, FlagSets
  <2>4. Root(r, p) = Root(a, p) /\ Root(a, p) = Root(d, p)
    BY <2>1, FlagSets
  <2>5. (\A j : Marks(r, j, p) = Marks(d, j, p)) /\ Root(r, p) = Root(d, p)
    BY <2>3, <2>4
  <2> QED
    BY <2>5 DEF r
<1>4. CASE e.op = "RENAME"
  <2>1. Renaming(d, r, e.from, e.to)
    BY <1>1, <1>4, CallDoes
  <2>2. p # e.from /\ p # e.to
    BY <1>4 DEF Strings, Accesses
  <2> HIDE DEF r, e, i
  <2>3. \A j : Marks(r, j, p) = Marks(d, j, p)
    BY <2>1, <2>2, RenamingMarks
  <2>4. Root(r, p) = Root(d, p)
    BY <2>1, <2>2 DEF Renaming
  <2> QED
    BY <2>3, <2>4 DEF r
<1> QED
  BY <1>1, <1>2, <1>3, <1>4 DEF Twos

\* Calls change nothing of what is not one of their strings.
Within(g, m, L) ==
    /\ g \in Seq(Calls) /\ m \in Nat /\ m <= Len(g)
    /\ \A n \in 1..Len(g) : n > m => Strings(g[n].event) \subseteq L

LEMMA RunOutside ==
    ASSUME NEW g, NEW E, Runs(g, E), NEW m, NEW L, Within(g, m, L)
    PROVE  \A p : p \notin L => /\ \A j : Marks(E[Len(g)], j, p) = Marks(E[m], j, p)
                                /\ Root(E[Len(g)], p) = Root(E[m], p)
<1>0. /\ g \in Seq(Calls) /\ m \in Nat /\ m <= Len(g)
      /\ \A n \in 1..Len(g) : n > m => Strings(g[n].event) \subseteq L
  BY DEF Within
<1> SUFFICES ASSUME NEW p, p \notin L
             PROVE  /\ \A j : Marks(E[Len(g)], j, p) = Marks(E[m], j, p)
                    /\ Root(E[Len(g)], p) = Root(E[m], p)
  OBVIOUS
<1> DEFINE N == Len(g)
           G == {k \in Nat : /\ \A j : Marks(E[k], j, p) = Marks(E[m], j, p)
                             /\ Root(E[k], p) = Root(E[m], p)}
<1>1. N \in Nat /\ N \in m..N /\ m \in Nat
  BY <1>0
<1>2. m \in G
  BY <1>1
<1>3. ASSUME NEW k \in m..N, k < N, k \in G PROVE k + 1 \in G
  <2>1. k \in 0..N /\ k + 1 \in 1..N /\ k + 1 > m /\ (k + 1) - 1 = k /\ k + 1 \in Nat
    BY <1>1, <1>3
  <2>2. E[k + 1] = Processed(E[k], Originals, g[k + 1]) /\ g[k + 1] \in Calls
    BY <1>0, <2>1 DEF Runs
  <2>3. DataShape(E[k])
    BY <1>0, <2>1, RunShapes
  <2>4. p \notin Strings(g[k + 1].event)
    BY <1>0, <2>1
  <2>5. /\ \A j : Marks(E[k + 1], j, p) = Marks(E[k], j, p)
        /\ Root(E[k + 1], p) = Root(E[k], p)
    <3> DEFINE c == g[k + 1]
               d == E[k]
    <3>1. c \in Calls /\ DataShape(d) /\ p \notin Strings(c.event)
      BY <2>2, <2>3, <2>4
    <3>2. E[k + 1] = Processed(d, Originals, c)
      BY <2>2
    <3> HIDE DEF c, d
    <3>3. /\ \A j : Marks(E[k + 1], j, p) = Marks(d, j, p)
          /\ Root(E[k + 1], p) = Root(d, p)
      BY <3>1, <3>2, CallOutside
    <3> QED
      BY <3>3 DEF d
  <2> QED
    BY <1>3, <2>1, <2>5
<1> HIDE DEF G
<1>4. N \in G
  BY <1>1, <1>2, <1>3, UpTo
<1> QED
  BY <1>4 DEF G
-----------------------------------------------------------------------------
(* The results of the calls there were, against what happened.             *)

Unsound == {"failed", "relative", "late", "self"}
Untrue == (Oddities \ {"copied"}) \cup Attempts

\* What a process did to a file that exists is at the path of the file.
FoundBy(d) ==
    \A x \in did : x[2] \in alive /\ Plain(place[x[2]], Unsound)
        => x[3] \in Marks(d, x[1], place[x[2]])

\* What is at a path was done to the file there.
TrueBy(d) ==
    \A id \in Ids, path \in Path, flag \in Flags : Plain(path, Untrue) =>
        (flag \in Marks(d, id, path) <=>
            \E o \in Object : place[o] = path /\ <<id, o, flag>> \in did)

\* The first path of a path is that of the file there.
RootsBy(d) ==
    \A path \in Path : Plain(path, Oddities) =>
        /\ \A o \in renamed : place[o] = path => Root(d, path) = first[o]
        /\ (\A o \in renamed : place[o] # path) => Root(d, path) = path

Truth(d) == FoundBy(d) /\ TrueBy(d) /\ RootsBy(d)

\* Two files have had one path only if it is oddly reused.
PlaceInv ==
    /\ did \subseteq Ids \X Object \X Flags
    /\ renamed \subseteq Object
    /\ \A o, u \in Object : o # u /\ place[o] = place[u] => <<"reused", place[o]>> \in odd
    /\ \A o \in Object \ renamed : first[o] = place[o]

\* Oddities go with the file, and what is not named as it is is odd.
Bad == {path \in Path : ~Plain(path, Oddities)}
RenameOdd(e, bad, now) ==
    e.op = "RENAME" =>
        /\ e.from \in bad /\ e.to \in Path => e.to \in now
        /\ e.from \notin Path \/ e.to \notin Path => {e.from, e.to} \cap Path \subseteq now

LEMMA OdditiesAre ==
    /\ Unsound \subseteq Oddities /\ Unsound \subseteq Untrue
    /\ Untrue \subseteq Oddities \cup Attempts
    /\ "attempted" \in Untrue /\ "unlinked" \in Untrue
    /\ {"failed", "relative", "late", "self"} \subseteq Unsound
    /\ "reused" \in Untrue /\ "reused" \in Oddities /\ "copied" \in Oddities
  BY DEF Unsound, Untrue, Oddities, Attempts

LEMMA PlainStays ==
    ASSUME odd \subseteq odd', NEW path, NEW what, Plain(path, what)'
    PROVE  Plain(path, what)
  BY DEF Plain

LEMMA PlainLess ==
    ASSUME NEW path, NEW S, NEW T, S \subseteq T, Plain(path, T)
    PROVE  Plain(path, S)
  BY DEF Plain

LEMMA SpelledIs ==
    ASSUME NEW p \in Path, NEW s \in Spelled(p)
    PROVE  s \in String /\ (s = p \/ s \notin Path)
  BY FileHistoryAssumption DEF Spelled, String

LEMMA MarksAre == MarkOf["READ"] = "read" /\ MarkOf["WRITE"] = "write" /\ MarkOf["UNLINK"] = "deleted"
  BY DEF MarkOf

LEMMA OneIs ==
    ASSUME NEW op \in Accesses, op \in Kinds, NEW s \in String
    PROVE  /\ [op |-> op, path |-> s] \in Formed
           /\ [op |-> op, path |-> s].op = op /\ [op |-> op, path |-> s].path = s
           /\ [op |-> op, path |-> s].op # "RENAME"
  BY DEF Formed, Operation, Accesses

LEMMA TwoIs ==
    ASSUME NEW op \in Twos, op \in Kinds, NEW s \in String, NEW w \in String
    PROVE  /\ [op |-> op, from |-> s, to |-> w] \in Formed
           /\ [op |-> op, from |-> s, to |-> w].op = op
           /\ [op |-> op, from |-> s, to |-> w].from = s /\ [op |-> op, from |-> s, to |-> w].to = w
  BY DEF Formed, Operation, Twos

\* The result of a call of process i.
After(d, i, e) == Processed(d, Originals, [process_id |-> i, event |-> e])

LEMMA AfterOne ==
    ASSUME NEW d, DataShape(d), NEW i \in Ids, NEW op \in Accesses, op \in Kinds, NEW s \in String
    PROVE  \E x : Flagging(d, After(d, i, [op |-> op, path |-> s]), i, s, MarkOf[op], x)
<1> DEFINE e == [op |-> op, path |-> s]
           c == [process_id |-> i, event |-> e]
<1>1. e \in Formed /\ e.op = op /\ e.path = s
  BY OneIs
<1> HIDE DEF e
<1>2. c \in Calls /\ c.process_id = i /\ c.event = e
  BY <1>1 DEF Calls
<1> HIDE DEF c
<1>3. Alike(c, c)
  BY <1>2, CallIs
<1>4. \E x : Flagging(d, Processed(d, Originals, c), i, s, MarkOf[op], x)
  BY <1>1, <1>2, <1>3, CallDoes
<1> QED
  BY <1>4 DEF After, c, e

LEMMA AfterTransfer ==
    ASSUME NEW d, DataShape(d), NEW i \in Ids, "TRANSFER" \in Kinds, NEW s \in String, NEW w \in String
    PROVE  \E a, x : /\ Flagging(d, a, i, s, "read", x)
                     /\ Flagging(a, After(d, i, [op |-> "TRANSFER", from |-> s, to |-> w]), i, w,
                                 "write", NoChecksum)
<1> DEFINE e == [op |-> "TRANSFER", from |-> s, to |-> w]
           c == [process_id |-> i, event |-> e]
<1>1. e \in Formed /\ e.op = "TRANSFER" /\ e.from = s /\ e.to = w
  BY TwoIs DEF Twos
<1> HIDE DEF e
<1>2. c \in Calls /\ c.process_id = i /\ c.event = e
  BY <1>1 DEF Calls
<1> HIDE DEF c
<1>3. Alike(c, c)
  BY <1>2, CallIs
<1>4. \E a, x : /\ Flagging(d, a, i, s, "read", x)
                /\ Flagging(a, Processed(d, Originals, c), i, w, "write", NoChecksum)
  BY <1>1, <1>2, <1>3, CallDoes
<1> QED
  BY <1>4 DEF After, c, e

LEMMA AfterRename ==
    ASSUME NEW d, DataShape(d), NEW i \in Ids, "RENAME" \in Kinds, NEW s \in String, NEW w \in String
    PROVE  Renaming(d, After(d, i, [op |-> "RENAME", from |-> s, to |-> w]), s, w)
<1> DEFINE e == [op |-> "RENAME", from |-> s, to |-> w]
           c == [process_id |-> i, event |-> e]
<1>1. e \in Formed /\ e.op = "RENAME" /\ e.from = s /\ e.to = w
  BY TwoIs DEF Twos
<1> HIDE DEF e
<1>2. c \in Calls /\ c.process_id = i /\ c.event = e
  BY <1>1 DEF Calls
<1> HIDE DEF c
<1>3. Alike(c, c)
  BY <1>2, CallIs
<1>4. Renaming(d, Processed(d, Originals, c), s, w)
  BY <1>1, <1>2, <1>3, CallDoes
<1> QED
  BY <1>4 DEF After, c, e

\* What each call of the programs has to show.
Shown(t, e, d, r, bad, now) ==
    /\ e \in Formed
    /\ r = After(d, Id(t), e)
    /\ RenameOdd(e, bad, now)

\* A path that is not odd has had no failed call and no file gone from there.
LEMMA TriedIs ==
    ASSUME NEW p, Plain(p, Untrue)'
    PROVE  <<"attempted", p>> \notin odd' /\ <<"unlinked", p>> \notin odd'
  BY OdditiesAre DEF Plain

LEMMA AccessTruth ==
    ASSUME WorldInv, PlaceInv, NEW d, DataShape(d), Truth(d), NEW t \in Thread, NEW op \in Kinds,
           NEW o \in Object, Access(t, op, o)
    PROVE  \E e, asked, r : /\ Enter(t, e, asked) /\ Shown(t, e, d, r, Bad, Bad')
                            /\ PlaceInv' /\ Truth(r)'
<1>i. PICK i : i = Id(t)
  OBVIOUS
<1>q. PICK q : q = Name(o)
  OBVIOUS
<1> DEFINE e == [op |-> op, path |-> q]
<1>r. PICK r : r = After(d, i, e)
  OBVIOUS
<1>1. /\ op \in {"READ", "WRITE"} /\ Enter(t, e, {o} \cap alive)
      /\ UNCHANGED <<place, first, alive, renamed>> /\ odd \subseteq odd'
  BY <1>q, Outcomes DEF Access, world
<1>d. \/ /\ did' = did \cup {<<i, o, Flag[op]>>}
         /\ o \in alive \/ <<"unlinked", place[o]>> \in odd'
      \/ /\ did' = did
         /\ o \notin alive \/ <<"attempted", place[o]>> \in odd'
  BY <1>i, Outcomes DEF Access
<1>2. /\ q \in String /\ i \in Ids /\ place[o] \in Path
      /\ o \in alive => q = place[o]
      /\ o \notin alive => q \notin Path
  BY <1>i, <1>q, IdsAre, NameIs
<1>3. op \in Accesses /\ Flag[op] = MarkOf[op] /\ Flag[op] \in Flags
  BY <1>1 DEF Accesses, Flag, MarkOf, Flags
<1>4. e \in Formed /\ e.op = op /\ e.op # "RENAME"
  BY <1>2, <1>3, OneIs
<1>5. PICK x : Flagging(d, r, i, q, Flag[op], x)
  BY <1>r, <1>2, <1>3, AfterOne
<1>6. Shown(t, e, d, r, Bad, Bad')
  BY <1>i, <1>r, <1>4 DEF Shown, RenameOdd
<1> HIDE DEF e
<1>7. /\ Flag[op] \in Marks(r, i, q)
      /\ \A j, p : Marks(d, j, p) \subseteq Marks(r, j, p)
      /\ \A p : Root(r, p) = Root(d, p)
      /\ \A j, p : Marks(r, j, p) = IF j = i /\ p = q THEN Marks(d, j, p) \cup {Flag[op]} ELSE Marks(d, j, p)
  BY <1>5, FlagSets DEF Flagging
<1>8. Object' = Object /\ \A p, S : Plain(p, S)' => Plain(p, S)
  BY <1>1, PlainStays DEF Object
<1>9. PlaceInv'
  <2>1. did' \subseteq Ids \X Object' \X Flags
    BY <1>d, <1>2, <1>3, <1>8 DEF PlaceInv
  <2> QED
    BY <1>1, <1>8, <2>1 DEF PlaceInv
<1>10. FoundBy(r)'
  <2> SUFFICES ASSUME NEW y \in did', y[2] \in alive, Plain(place[y[2]], Unsound)'
               PROVE  y[3] \in Marks(r, y[1], place[y[2]])
    BY <1>1 DEF FoundBy
  <2>1. CASE y \in did
    <3>1. Plain(place[y[2]], Unsound)
      BY <1>1, PlainStays
    <3> QED
      BY <1>7, <2>1, <3>1 DEF Truth, FoundBy
  <2>2. CASE y = <<i, o, Flag[op]>>
    BY <1>2, <1>7, <2>2
  <2> QED
    BY <1>d, <2>1, <2>2
<1>11. TrueBy(r)'
  <2> SUFFICES ASSUME NEW id \in Ids, NEW path \in Path, NEW flag \in Flags, Plain(path, Untrue)'
               PROVE  flag \in Marks(r, id, path) <=>
                        \E u \in Object : place[u] = path /\ <<id, u, flag>> \in did'
    BY <1>1, <1>8 DEF TrueBy
  <2>1. flag \in Marks(d, id, path) <=> \E u \in Object : place[u] = path /\ <<id, u, flag>> \in did
    BY <1>8 DEF Truth, TrueBy
  <2>2. flag \in Marks(r, id, path) <=> flag \in Marks(d, id, path) \/ (id = i /\ path = q /\ flag = Flag[op])
    BY <1>7
  <2>3. <<"attempted", path>> \notin odd' /\ <<"unlinked", path>> \notin odd'
    BY TriedIs
  <2>4. CASE did' = did
    BY <1>d, <1>2, <2>1, <2>2, <2>3, <2>4
  <2>5. CASE did' # did
    <3>1. \A u : <<id, u, flag>> \in did' <=>
              <<id, u, flag>> \in did \/ (id = i /\ u = o /\ flag = Flag[op])
      BY <1>d, <2>5
    <3>2. place[o] = path <=> q = path
      BY <1>d, <1>2, <2>3, <2>5
    <3> QED
      BY <2>1, <2>2, <3>1, <3>2
  <2> QED
    BY <2>4, <2>5
<1>12. RootsBy(r)'
  <2> SUFFICES ASSUME NEW p \in Path, Plain(p, Oddities)'
               PROVE  /\ \A u \in renamed : place[u] = p => Root(r, p) = first[u]
                      /\ (\A u \in renamed : place[u] # p) => Root(r, p) = p
    BY <1>1 DEF RootsBy
  <2> QED
    BY <1>7, <1>8 DEF Truth, RootsBy
<1>13. PlaceInv' /\ Truth(r)'
  BY <1>9, <1>10, <1>11, <1>12 DEF Truth
<1> QED
  BY <1>1, <1>6, <1>13

LEMMA TransferTruth ==
    ASSUME WorldInv, PlaceInv, NEW d, DataShape(d), Truth(d), NEW t \in Thread,
           NEW o \in Object, NEW u \in Object, Transfer(t, o, u)
    PROVE  \E e, asked, r : /\ Enter(t, e, asked) /\ Shown(t, e, d, r, Bad, Bad')
                            /\ PlaceInv' /\ Truth(r)'
<1>i. PICK i : i = Id(t)
  OBVIOUS
<1>q. PICK p, q : p = Name(o) /\ q = Name(u)
  OBVIOUS
<1> DEFINE e == [op |-> "TRANSFER", from |-> p, to |-> q]
<1>r. PICK r : r = After(d, i, e)
  OBVIOUS
<1>1. /\ Enter(t, e, {o} \cap alive)
      /\ UNCHANGED <<place, first, alive, renamed>> /\ odd \subseteq odd'
  BY <1>q, Outcomes DEF Transfer, world
<1>d. \/ /\ did' = did \cup {<<i, o, "read">>, <<i, u, "write">>}
         /\ o \in alive \/ <<"unlinked", place[o]>> \in odd'
         /\ u \in alive \/ <<"unlinked", place[u]>> \in odd'
      \/ /\ did' = did
         /\ o \notin alive \/ <<"attempted", place[o]>> \in odd'
         /\ u \notin alive \/ <<"attempted", place[u]>> \in odd'
  BY <1>i, Outcomes DEF Transfer
<1>2. /\ p \in String /\ q \in String /\ i \in Ids
      /\ o \in alive => p = place[o]
      /\ o \notin alive => p \notin Path
      /\ u \in alive => q = place[u]
      /\ u \notin alive => q \notin Path
  BY <1>i, <1>q, IdsAre, NameIs
<1>3. "TRANSFER" \in Kinds
  BY <1>1 DEF Enter, MayCall
<1>4. e \in Formed /\ e.op # "RENAME"
  BY <1>2, <1>3, TwoIs DEF Twos
<1>5. PICK a, x : Flagging(d, a, i, p, "read", x) /\ Flagging(a, r, i, q, "write", NoChecksum)
  BY <1>r, <1>2, <1>3, AfterTransfer
<1>6. Shown(t, e, d, r, Bad, Bad')
  BY <1>i, <1>r, <1>4 DEF Shown, RenameOdd
<1> HIDE DEF e
<1>7. /\ \A s : Root(r, s) = Root(d, s)
      /\ \A j, s : Marks(r, j, s) = IF j = i /\ s = q
                       THEN (IF j = i /\ s = p THEN Marks(d, j, s) \cup {"read"} ELSE Marks(d, j, s))
                            \cup {"write"}
                       ELSE IF j = i /\ s = p THEN Marks(d, j, s) \cup {"read"} ELSE Marks(d, j, s)
  BY <1>5 DEF Flagging
<1>8. Object' = Object /\ \A s, S : Plain(s, S)' => Plain(s, S)
  BY <1>1, PlainStays DEF Object
<1>9. PlaceInv'
  <2>1. "read" \in Flags /\ "write" \in Flags
    BY DEF Flags
  <2>2. did' \subseteq Ids \X Object' \X Flags
    BY <1>d, <1>2, <1>8, <2>1 DEF PlaceInv
  <2> QED
    BY <1>1, <1>8, <2>2 DEF PlaceInv
<1>10. \A j, s, flag : flag \in Marks(r, j, s) <=>
          \/ flag \in Marks(d, j, s)
          \/ j = i /\ s = p /\ flag = "read"
          \/ j = i /\ s = q /\ flag = "write"
  BY <1>7
<1>11. FoundBy(r)'
  <2> SUFFICES ASSUME NEW y \in did', y[2] \in alive, Plain(place[y[2]], Unsound)'
               PROVE  y[3] \in Marks(r, y[1], place[y[2]])
    BY <1>1 DEF FoundBy
  <2>1. CASE y \in did
    <3>1. Plain(place[y[2]], Unsound)
      BY <1>1, PlainStays
    <3> QED
      BY <1>10, <2>1, <3>1 DEF Truth, FoundBy
  <2>2. CASE y = <<i, o, "read">> \/ y = <<i, u, "write">>
    BY <1>2, <1>10, <2>2
  <2> QED
    BY <1>d, <2>1, <2>2
<1>12. TrueBy(r)'
  <2> SUFFICES ASSUME NEW id \in Ids, NEW path \in Path, NEW flag \in Flags, Plain(path, Untrue)'
               PROVE  flag \in Marks(r, id, path) <=>
                        \E v \in Object : place[v] = path /\ <<id, v, flag>> \in did'
    BY <1>1, <1>8 DEF TrueBy
  <2>1. flag \in Marks(d, id, path) <=> \E v \in Object : place[v] = path /\ <<id, v, flag>> \in did
    BY <1>8 DEF Truth, TrueBy
  <2>2. <<"attempted", path>> \notin odd' /\ <<"unlinked", path>> \notin odd'
    BY TriedIs
  <2>3. CASE /\ did' = did
             /\ o \notin alive \/ <<"attempted", place[o]>> \in odd'
             /\ u \notin alive \/ <<"attempted", place[u]>> \in odd'
    <3>1. p # path /\ q # path
      BY <1>2, <2>2, <2>3
    <3> QED
      BY <1>10, <2>1, <2>3, <3>1
  <2>4. CASE /\ did' = did \cup {<<i, o, "read">>, <<i, u, "write">>}
             /\ o \in alive \/ <<"unlinked", place[o]>> \in odd'
             /\ u \in alive \/ <<"unlinked", place[u]>> \in odd'
    <3>1. \A v : <<id, v, flag>> \in did' <=>
              \/ <<id, v, flag>> \in did
              \/ id = i /\ v = o /\ flag = "read"
              \/ id = i /\ v = u /\ flag = "write"
      BY <2>4
    <3>2. (place[o] = path <=> p = path) /\ (place[u] = path <=> q = path)
      BY <1>2, <2>2, <2>4
    <3> QED
      BY <1>10, <2>1, <3>1, <3>2
  <2> QED
    BY <1>d, <2>3, <2>4
<1>13. RootsBy(r)'
  <2> SUFFICES ASSUME NEW s \in Path, Plain(s, Oddities)'
               PROVE  /\ \A v \in renamed : place[v] = s => Root(r, s) = first[v]
                      /\ (\A v \in renamed : place[v] # s) => Root(r, s) = s
    BY <1>1 DEF RootsBy
  <2> QED
    BY <1>7, <1>8 DEF Truth, RootsBy
<1>14. PlaceInv' /\ Truth(r)'
  BY <1>9, <1>11, <1>12, <1>13 DEF Truth
<1> QED
  BY <1>1, <1>6, <1>14

LEMMA NewObject == ASSUME WorldInv PROVE 1 + Cardinality(Object) \notin Object
<1> DEFINE n == Cardinality(Object)
<1>1. n \in Nat
  BY FS_CardinalityType DEF WorldInv
<1>2. 1 + n \in Nat /\ 1 + n \notin 1..n
  BY <1>1
<1>3. \A o \in Original : o \notin Nat
  BY FileHistoryAssumption
<1> QED
  BY <1>2, <1>3 DEF WorldInv

\* A file at a path that no file is at: if none was, it is the only one there.
LEMMA CreateTruth ==
    ASSUME WorldInv, PlaceInv, NEW d, DataShape(d), Truth(d), NEW t \in Thread, NEW path \in Path,
           Create(t, path)
    PROVE  \E e, asked, r : /\ Enter(t, e, asked) /\ Shown(t, e, d, r, Bad, Bad')
                            /\ PlaceInv' /\ Truth(r)'
<1>i. PICK i : i = Id(t)
  OBVIOUS
<1>n. PICK new : new = 1 + Cardinality(Object)
  OBVIOUS
<1> DEFINE e == [op |-> "WRITE", path |-> path]
<1>r. PICK r : r = After(d, i, e)
  OBVIOUS
<1>1. /\ Enter(t, e, {new})
      /\ place' = With(place, new, path) /\ first' = With(first, new, path)
      /\ alive' = alive \cup {new} /\ did' = did \cup {<<i, new, "write">>}
      /\ odd' = odd \cup Reused(path, Object) /\ renamed' = renamed
  BY <1>i, <1>n DEF Create
<1>2. new \notin Object /\ i \in Ids /\ path \in String
  BY <1>i, <1>n, NewObject, IdsAre DEF String
<1>3. "WRITE" \in Accesses /\ "WRITE" \in Kinds /\ "write" \in Flags
  BY <1>1 DEF Accesses, Enter, MayCall, Flags
<1>4. e \in Formed /\ e.op # "RENAME"
  BY <1>2, <1>3, OneIs
<1>5. PICK x : Flagging(d, r, i, path, "write", x)
  BY <1>r, <1>2, <1>3, AfterOne, MarksAre
<1>6. Shown(t, e, d, r, Bad, Bad')
  BY <1>i, <1>r, <1>4 DEF Shown, RenameOdd
<1> HIDE DEF e
<1>7. /\ \A p : Root(r, p) = Root(d, p)
      /\ \A j, p, flag : flag \in Marks(r, j, p) <=>
            flag \in Marks(d, j, p) \/ (j = i /\ p = path /\ flag = "write")
  BY <1>5 DEF Flagging
<1>8. /\ Object' = Object \cup {new} /\ place'[new] = path /\ first'[new] = path
      /\ \A o \in Object : place'[o] = place[o] /\ first'[o] = first[o]
  BY <1>1, <1>2 DEF Object, With, WorldInv
<1>9. odd \subseteq odd'
  BY <1>1
<1>10. ASSUME NEW S, "reused" \in S, Plain(path, S)'
       PROVE  \A o \in Object : place[o] # path /\ first[o] # path
  <2>1. <<"reused", path>> \notin odd'
    BY <1>10 DEF Plain
  <2> QED
    BY <1>1, <2>1 DEF Reused
<1>11. \A y \in did : /\ y[2] \in Object /\ y = <<y[1], y[2], y[3]>>
                      /\ y[1] \in Ids /\ y[3] \in Flags
  BY DEF PlaceInv
<1>12. PlaceInv'
  <2>1. did' \subseteq Ids \X Object' \X Flags
    BY <1>1, <1>2, <1>3, <1>8 DEF PlaceInv
  <2>2. ASSUME NEW o \in Object', NEW u \in Object', o # u, place'[o] = place'[u]
        PROVE  <<"reused", place'[o]>> \in odd'
    <3>1. CASE o \in Object /\ u \in Object
      BY <1>8, <1>9, <2>2, <3>1 DEF PlaceInv
    <3>2. CASE o = new \/ u = new
      <4>1. place'[o] = path /\ \E v \in Object : place[v] = path
        BY <1>8, <2>2, <3>2
      <4> QED
        BY <1>1, <4>1 DEF Reused
    <3> QED
      BY <1>8, <3>1, <3>2
  <2>3. \A o \in Object' \ renamed' : first'[o] = place'[o]
    BY <1>1, <1>8 DEF PlaceInv
  <2> QED
    BY <1>1, <1>8, <2>1, <2>2, <2>3 DEF PlaceInv
<1>13. FoundBy(r)'
  <2> SUFFICES ASSUME NEW y \in did', y[2] \in alive', Plain(place[y[2]], Unsound)'
               PROVE  y[3] \in Marks(r, y[1], place'[y[2]])
    BY DEF FoundBy
  <2>1. CASE y \in did
    <3>1. y[2] \in Object /\ y[2] \in alive /\ place'[y[2]] = place[y[2]]
      BY <1>1, <1>2, <1>8, <1>11, <2>1
    <3>2. Plain(place[y[2]], Unsound)
      BY <1>9, <3>1, PlainStays
    <3>3. y[3] \in Marks(d, y[1], place[y[2]])
      BY <2>1, <3>1, <3>2 DEF Truth, FoundBy
    <3> QED
      BY <1>7, <3>1, <3>3
  <2>2. CASE y = <<i, new, "write">>
    BY <1>7, <1>8, <2>2
  <2> QED
    BY <1>1, <2>1, <2>2
<1>14. TrueBy(r)'
  <2> SUFFICES ASSUME NEW id \in Ids, NEW p \in Path, NEW flag \in Flags, Plain(p, Untrue)'
               PROVE  flag \in Marks(r, id, p) <=>
                        \E u \in Object' : place'[u] = p /\ <<id, u, flag>> \in did'
    BY DEF TrueBy
  <2>1. flag \in Marks(d, id, p) <=> \E u \in Object : place[u] = p /\ <<id, u, flag>> \in did
    BY <1>9, PlainStays DEF Truth, TrueBy
  <2>2. \A u : <<id, u, flag>> \in did' <=>
            \/ <<id, u, flag>> \in did
            \/ id = i /\ u = new /\ flag = "write"
    BY <1>1
  <2>3. \A u : <<id, u, flag>> \in did => u \in Object
    BY <1>11
  <2> QED
    BY <1>2, <1>7, <1>8, <2>1, <2>2, <2>3
<1>15. RootsBy(r)'
  <2> SUFFICES ASSUME NEW p \in Path, Plain(p, Oddities)'
               PROVE  /\ \A o \in renamed' : place'[o] = p => Root(r, p) = first'[o]
                      /\ (\A o \in renamed' : place'[o] # p) => Root(r, p) = p
    BY DEF RootsBy
  <2>1. /\ \A o \in renamed : place[o] = p => Root(d, p) = first[o]
        /\ (\A o \in renamed : place[o] # p) => Root(d, p) = p
    BY <1>9, PlainStays DEF Truth, RootsBy
  <2>2. \A o \in renamed : o \in Object
    BY DEF PlaceInv
  <2> QED
    BY <1>1, <1>7, <1>8, <2>1, <2>2
<1>16. PlaceInv' /\ Truth(r)'
  BY <1>12, <1>13, <1>14, <1>15 DEF Truth
<1> QED
  BY <1>1, <1>6, <1>16

LEMMA UnlinkTruth ==
    ASSUME WorldInv, PlaceInv, NEW d, DataShape(d), Truth(d), NEW t \in Thread, NEW path \in Path,
           Unlink(t, path)
    PROVE  \E e, asked, r : /\ Enter(t, e, asked) /\ Shown(t, e, d, r, Bad, Bad')
                            /\ PlaceInv' /\ Truth(r)'
<1>i. PICK i : i = Id(t)
  OBVIOUS
<1>a. PICK A : A = On(path)
  OBVIOUS
<1>s. PICK s \in Spelled(path) : /\ Enter(t, [op |-> "UNLINK", path |-> s], A)
                                 /\ odd' = odd \cup Odd("relative", {path} \ {s})
  BY <1>a DEF Unlink
<1> DEFINE e == [op |-> "UNLINK", path |-> s]
<1>r. PICK r : r = After(d, i, e)
  OBVIOUS
<1>1. /\ Enter(t, e, A) /\ UNCHANGED <<place, first, renamed>> /\ A # {}
      /\ alive' = alive \ A /\ did' = did \cup {<<i, o, "deleted">> : o \in A}
  BY <1>i, <1>a, <1>s DEF Unlink, Done
<1>2. i \in Ids /\ s \in String /\ (s = path \/ s \notin Path) /\ A \subseteq Object
      /\ \A o \in A : place[o] = path
  BY <1>i, <1>a, SpelledIs, IdsAre DEF On, WorldInv
<1>3. "UNLINK" \in Accesses /\ "UNLINK" \in Kinds /\ "deleted" \in Flags
  BY <1>1 DEF Accesses, Enter, MayCall, Flags
<1>4. e \in Formed /\ e.op # "RENAME"
  BY <1>2, <1>3, OneIs
<1>5. PICK x : Flagging(d, r, i, s, "deleted", x)
  BY <1>r, <1>2, <1>3, AfterOne, MarksAre
<1>6. Shown(t, e, d, r, Bad, Bad')
  BY <1>i, <1>r, <1>4 DEF Shown, RenameOdd
<1> HIDE DEF e
<1>7. /\ \A p : Root(r, p) = Root(d, p)
      /\ \A j, p, flag : flag \in Marks(r, j, p) <=>
            flag \in Marks(d, j, p) \/ (j = i /\ p = s /\ flag = "deleted")
  BY <1>5 DEF Flagging
<1>8. Object' = Object /\ odd \subseteq odd'
  BY <1>1, <1>s DEF Object
<1>9. ASSUME NEW S, "relative" \in S, Plain(path, S)' PROVE s = path
  <2>1. <<"relative", path>> \notin odd'
    BY <1>9 DEF Plain
  <2> QED
    BY <1>s, <2>1 DEF Odd
<1>10. PlaceInv'
  <2>1. did' \subseteq Ids \X Object' \X Flags
    BY <1>1, <1>2, <1>3, <1>8 DEF PlaceInv
  <2> QED
    BY <1>1, <1>8, <2>1 DEF PlaceInv
<1>11. FoundBy(r)'
  <2> SUFFICES ASSUME NEW y \in did', y[2] \in alive', Plain(place[y[2]], Unsound)'
               PROVE  y[3] \in Marks(r, y[1], place'[y[2]])
    BY DEF FoundBy
  <2>1. y \in did
    BY <1>1
  <2>2. y[2] \in alive /\ place'[y[2]] = place[y[2]] /\ Plain(place[y[2]], Unsound)
    BY <1>1, <1>8, PlainStays
  <2>3. y[3] \in Marks(d, y[1], place[y[2]])
    BY <2>1, <2>2 DEF Truth, FoundBy
  <2> QED
    BY <1>7, <2>2, <2>3
<1>12. TrueBy(r)'
  <2> SUFFICES ASSUME NEW id \in Ids, NEW p \in Path, NEW flag \in Flags, Plain(p, Untrue)'
               PROVE  flag \in Marks(r, id, p) <=>
                        \E u \in Object : place[u] = p /\ <<id, u, flag>> \in did'
    BY <1>1, <1>8 DEF TrueBy
  <2>1. flag \in Marks(d, id, p) <=> \E u \in Object : place[u] = p /\ <<id, u, flag>> \in did
    BY <1>8, PlainStays DEF Truth, TrueBy
  <2>2. \A u : <<id, u, flag>> \in did' <=>
            \/ <<id, u, flag>> \in did
            \/ id = i /\ u \in A /\ flag = "deleted"
    BY <1>1
  <2>3. CASE p = path
    <3>1. s = path
      BY <1>9, <2>3, OdditiesAre
    <3>2. <<"reused", path>> \notin odd
      BY <1>8, <2>3, OdditiesAre DEF Plain
    <3>3. \A o \in Object : place[o] = path <=> o \in A
      BY <1>1, <1>2, <3>2 DEF PlaceInv
    <3>4. flag \in Marks(r, id, p) <=> flag \in Marks(d, id, p) \/ (id = i /\ flag = "deleted")
      BY <1>7, <2>3, <3>1
    <3>5. \E o \in A : TRUE
      BY <1>1
    <3>6. \A o \in A : o \in Object /\ place[o] = p
      BY <1>2, <2>3
    <3> QED
      BY <1>1, <2>1, <2>2, <3>4, <3>5, <3>6
  <2>4. CASE p # path
    <3>1. p # s /\ \A o \in A : place[o] # p
      BY <1>2, <2>4
    <3> QED
      BY <1>1, <1>7, <2>1, <2>2, <3>1
  <2> QED
    BY <2>3, <2>4
<1>13. RootsBy(r)'
  <2> SUFFICES ASSUME NEW p \in Path, Plain(p, Oddities)'
               PROVE  /\ \A o \in renamed : place[o] = p => Root(r, p) = first[o]
                      /\ (\A o \in renamed : place[o] # p) => Root(r, p) = p
    BY <1>1 DEF RootsBy
  <2>1. Plain(p, Oddities)
    BY <1>8, PlainStays
  <2> QED
    BY <1>7, <2>1 DEF Truth, RootsBy
<1>14. PlaceInv' /\ Truth(r)'
  BY <1>10, <1>11, <1>12, <1>13 DEF Truth
<1> QED
  BY <1>1, <1>6, <1>14
\* A rename takes the file, what is known of it and its oddities to the new path.
LEMMA RenameTruth ==
    ASSUME WorldInv, PlaceInv, NEW d, DataShape(d), Truth(d), NEW t \in Thread,
           NEW from \in Path, NEW to \in Path, Rename(t, from, to)
    PROVE  \E e, asked, r : /\ Enter(t, e, asked) /\ Shown(t, e, d, r, Bad, Bad')
                            /\ PlaceInv' /\ Truth(r)'
<1>i. PICK i : i = Id(t)
  OBVIOUS
<1>a. PICK A : A = On(from)
  OBVIOUS
<1>s. PICK s \in Spelled(from), w \in Spelled(to) :
        /\ Enter(t, [op |-> "RENAME", from |-> s, to |-> w], {})
        /\ odd' = odd
              \cup {<<what, to>> : what \in {k \in Oddities \cup Attempts : <<k, from>> \in odd}}
              \cup (IF <<s, w>> = <<from, to>> THEN {} ELSE Odd("relative", {from, to}))
              \cup (IF from = to THEN Odd("self", {to}) ELSE Reused(to, Object \ A))
  BY <1>a DEF Rename
<1> DEFINE e == [op |-> "RENAME", from |-> s, to |-> w]
<1>r. PICK r : r = After(d, i, e)
  OBVIOUS
<1>1. /\ Enter(t, e, {}) /\ A # {} /\ renamed' = renamed \cup A /\ UNCHANGED <<first, did>>
      /\ place' = [o \in Object |-> IF o \in A THEN to ELSE place[o]]
      /\ alive' = IF from = to THEN alive ELSE alive \ On(to)
  BY <1>a, <1>s DEF Rename
<1>2. /\ i \in Ids /\ s \in String /\ (s = from \/ s \notin Path) /\ A \subseteq Object
      /\ w \in String /\ (w = to \/ w \notin Path)
      /\ \A o \in A : place[o] = from
  BY <1>i, <1>a, SpelledIs, IdsAre DEF On, WorldInv
<1>3. "RENAME" \in Kinds
  BY <1>1 DEF Enter, MayCall
<1>4. e \in Formed /\ e.from = s /\ e.to = w
  BY <1>2, <1>3, TwoIs DEF Twos
<1>5. Renaming(d, r, s, w)
  BY <1>r, <1>2, <1>3, AfterRename
<1> HIDE DEF e
<1>6. odd \subseteq odd'
  BY <1>s
<1>7. \A what \in Oddities \cup Attempts : <<what, from>> \in odd => <<what, to>> \in odd'
  BY <1>s
<1>8. <<s, w>> # <<from, to>> => <<"relative", from>> \in odd' /\ <<"relative", to>> \in odd'
  BY <1>s DEF Odd
<1>9. from = to => <<"self", to>> \in odd'
  BY <1>s DEF Odd
<1>10. from # to => \A u \in Object \ A : to \in {place[u], first[u]} => <<"reused", to>> \in odd'
  BY <1>s DEF Reused
<1>11. Object' = Object /\ \A o \in Object : place'[o] = IF o \in A THEN to ELSE place[o]
  BY <1>1 DEF Object
<1>12. \A o, u \in Object : o # u /\ place[o] = place[u] => <<"reused", place[o]>> \in odd
  BY DEF PlaceInv
<1>13. PICK u0 \in A : TRUE
  BY <1>1
<1>14. <<"reused", from>> \notin odd => \A o \in Object : place[o] = from => o \in A
  BY <1>2, <1>12, <1>13
<1>15. Shown(t, e, d, r, Bad, Bad')
  <2>1. ASSUME s \in Bad, w \in Path PROVE w \in Bad'
    <3>1. s = from /\ w = to /\ \E what \in Oddities : <<what, from>> \in odd
      BY <1>2, <2>1 DEF Bad, Plain
    <3> QED
      BY <1>7, <3>1 DEF Bad, Plain
  <2>2. ASSUME s \notin Path \/ w \notin Path PROVE {s, w} \cap Path \subseteq Bad'
    <3>1. <<"relative", from>> \in odd' /\ <<"relative", to>> \in odd'
      BY <1>8, <2>2
    <3>2. from \in Bad' /\ to \in Bad'
      BY <3>1, OdditiesAre DEF Bad, Plain
    <3> QED
      BY <1>2, <3>2
  <2> QED
    BY <1>i, <1>r, <1>4, <2>1, <2>2 DEF Shown, RenameOdd
<1>16. PlaceInv'
  <2>1. did' \subseteq Ids \X Object' \X Flags /\ renamed' \subseteq Object'
    BY <1>1, <1>2, <1>11 DEF PlaceInv
  <2>2. ASSUME NEW o \in Object, NEW u \in Object, o # u, place'[o] = place'[u]
        PROVE  <<"reused", place'[o]>> \in odd'
    <3>1. CASE o \in A /\ u \in A
      BY <1>2, <1>7, <1>11, <1>12, <2>2, <3>1, OdditiesAre
    <3>2. CASE o \in A /\ u \notin A
      BY <1>2, <1>6, <1>10, <1>11, <1>12, <2>2, <3>2
    <3>3. CASE o \notin A /\ u \in A
      BY <1>2, <1>6, <1>10, <1>11, <1>12, <2>2, <3>3
    <3>4. CASE o \notin A /\ u \notin A
      BY <1>6, <1>11, <1>12, <2>2, <3>4
    <3> QED
      BY <3>1, <3>2, <3>3, <3>4
  <2>3. \A o \in Object \ renamed' : first'[o] = place'[o]
    BY <1>1, <1>11 DEF PlaceInv
  <2> QED
    BY <1>11, <2>1, <2>2, <2>3 DEF PlaceInv
\* What it means that a path is not odd.
<1>17. ASSUME NEW S, "relative" \in S, NEW p, Plain(p, S)', p = from \/ p = to
       PROVE  s = from /\ w = to
  BY <1>8, <1>17 DEF Plain
<1>18. ASSUME NEW S, "self" \in S, Plain(to, S)' PROVE from # to
  BY <1>9, <1>18 DEF Plain
<1>19. ASSUME NEW S, S \subseteq Oddities \cup Attempts, Plain(to, S)' PROVE Plain(from, S)
  BY <1>7, <1>19 DEF Plain
<1>20. ASSUME NEW S, S \subseteq Oddities \cup Attempts, "reused" \in S, "self" \in S, Plain(to, S)'
       PROVE  /\ \A o \in Object : place'[o] = to <=> o \in A
              /\ \A o \in Object : place[o] = from <=> o \in A
              /\ \A o \in Object : place[o] # to
  <2>1. from # to /\ <<"reused", to>> \notin odd' /\ <<"reused", from>> \notin odd
    BY <1>18, <1>19, <1>20 DEF Plain
  <2> QED
    BY <1>2, <1>10, <1>11, <1>14, <2>1
<1>21. ASSUME NEW S, "reused" \in S, Plain(from, S)', from # to
       PROVE  \A o \in Object : place'[o] # from
  <2>1. <<"reused", from>> \notin odd
    BY <1>6, <1>21 DEF Plain
  <2> QED
    BY <1>11, <1>14, <1>21, <2>1
<1>22. ASSUME NEW p \in Path, p # from, p # to
       PROVE  /\ p # s /\ p # w
              /\ \A o \in Object : place'[o] = p <=> place[o] = p
              /\ \A o \in A : place'[o] # p
  BY <1>2, <1>11, <1>22
<1>23r. \A p : Root(r, p) = IF p = s THEN s ELSE IF p = w THEN Root(d, s) ELSE Root(d, p)
  BY <1>5 DEF Renaming
<1>23m. \A j, p : Marks(r, j, p) =
             IF p = s THEN {}
             ELSE IF p = w /\ s \in Known(d, j) THEN Marks(d, j, s) ELSE Marks(d, j, p)
  BY <1>5, RenamingMarks
<1>23. /\ \A p : Root(r, p) = IF p = s THEN s ELSE IF p = w THEN Root(d, s) ELSE Root(d, p)
       /\ \A j, p : Marks(r, j, p) =
             IF p = s THEN {}
             ELSE IF p = w /\ s \in Known(d, j) THEN Marks(d, j, s) ELSE Marks(d, j, p)
  BY <1>23r, <1>23m
<1>24. FoundBy(r)'
  <2> SUFFICES ASSUME NEW y \in did', y[2] \in alive', Plain(place[y[2]], Unsound)'
               PROVE  y[3] \in Marks(r, y[1], place'[y[2]])
    BY DEF FoundBy
  <2>1. y \in did /\ y[2] \in alive /\ y[2] \in Object
    BY <1>1 DEF WorldInv
  <2>2. CASE y[2] \in A
    <3>1. place'[y[2]] = to /\ place[y[2]] = from
      BY <1>2, <1>11, <2>1, <2>2
    <3>2. s = from /\ w = to /\ from # to /\ Plain(from, Unsound)
      <4>1. Plain(to, Unsound)'
        BY <3>1
      <4> QED
        BY <1>17, <1>18, <1>19, <4>1, OdditiesAre
    <3>3. y[3] \in Marks(d, y[1], from)
      BY <2>1, <3>1, <3>2 DEF Truth, FoundBy
    <3>4. from \in Known(d, y[1])
      BY <3>3, OperationsAre
    <3> QED
      BY <1>23, <3>1, <3>2, <3>3, <3>4
  <2>3. CASE y[2] \notin A
    <3>1. place'[y[2]] = place[y[2]]
      BY <1>11, <2>1, <2>3
    <3>2. PICK p \in Path : p = place[y[2]]
      BY <2>1 DEF WorldInv
    <3>3. Plain(p, Unsound)' /\ Plain(p, Unsound)
      BY <1>6, <3>1, <3>2, PlainStays
    <3>4. y[3] \in Marks(d, y[1], p)
      BY <2>1, <3>2, <3>3 DEF Truth, FoundBy
    <3>5. p # from /\ p # to
      BY <1>1, <1>a, <2>1, <2>3, <3>2 DEF On
    <3> QED
      BY <1>22, <1>23, <3>1, <3>2, <3>4, <3>5
  <2> QED
    BY <2>2, <2>3
<1>25. TrueBy(r)'
  <2> SUFFICES ASSUME NEW id \in Ids, NEW p \in Path, NEW flag \in Flags, Plain(p, Untrue)'
               PROVE  flag \in Marks(r, id, p) <=>
                        \E o \in Object : place'[o] = p /\ <<id, o, flag>> \in did
    BY <1>1, <1>11 DEF TrueBy
  <2>1. flag \in Marks(d, id, p) <=> \E o \in Object : place[o] = p /\ <<id, o, flag>> \in did
    BY <1>6, PlainStays DEF Truth, TrueBy
  <2>2. CASE p = to
    <3>1. s = from /\ w = to /\ from # to /\ Plain(from, Untrue)
      BY <1>17, <1>18, <1>19, <2>2, OdditiesAre
    <3>2. /\ \A o \in Object : place'[o] = to <=> o \in A
          /\ \A o \in Object : place[o] = from <=> o \in A
          /\ \A o \in Object : place[o] # to
      BY <1>20, <2>2, OdditiesAre
    <3>3. flag \in Marks(d, id, from) <=> \E o \in Object : place[o] = from /\ <<id, o, flag>> \in did
      BY <3>1 DEF Truth, TrueBy
    <3>4. flag \notin Marks(d, id, to)
      BY <2>1, <2>2, <3>2
    <3>5. from \notin Known(d, id) => flag \notin Marks(d, id, from)
      BY OperationsAre
    <3>6. flag \in Marks(r, id, to) <=> flag \in Marks(d, id, from)
      BY <1>23, <3>1, <3>4, <3>5
    <3> QED
      BY <2>2, <3>2, <3>3, <3>6
  <2>3. CASE p = from /\ p # to
    <3>1. s = from /\ \A o \in Object : place'[o] # from
      BY <1>17, <1>21, <2>3, OdditiesAre
    <3> QED
      BY <1>23, <2>3, <3>1
  <2>4. CASE p # from /\ p # to
    BY <1>22, <1>23, <2>1, <2>4
  <2> QED
    BY <2>2, <2>3, <2>4
<1>26. RootsBy(r)'
  <2> SUFFICES ASSUME NEW p \in Path, Plain(p, Oddities)'
               PROVE  /\ \A o \in renamed \cup A : place'[o] = p => Root(r, p) = first[o]
                      /\ (\A o \in renamed \cup A : place'[o] # p) => Root(r, p) = p
    BY <1>1 DEF RootsBy
  <2>0. renamed \subseteq Object /\ \A o \in Object \ renamed : first[o] = place[o]
    BY DEF PlaceInv
  <2>1. /\ \A o \in renamed : place[o] = p => Root(d, p) = first[o]
        /\ (\A o \in renamed : place[o] # p) => Root(d, p) = p
    BY <1>6, PlainStays DEF Truth, RootsBy
  <2>2. CASE p = to
    <3>1. s = from /\ w = to /\ from # to /\ Plain(from, Oddities)
      BY <1>17, <1>18, <1>19, <2>2, OdditiesAre
    <3>2. /\ \A o \in Object : place'[o] = to <=> o \in A
          /\ \A o \in Object : place[o] = from <=> o \in A
      BY <1>20, <2>2, OdditiesAre
    <3>3. Plain(from, {"reused"})
      BY <3>1, OdditiesAre DEF Plain
    <3>4. \A o, u \in A : o = u
      BY <1>2, <1>12, <3>3 DEF Plain
    <3>5. /\ \A o \in renamed : place[o] = from => Root(d, from) = first[o]
          /\ (\A o \in renamed : place[o] # from) => Root(d, from) = from
      BY <3>1 DEF Truth, RootsBy
    <3>6. ASSUME NEW o \in A PROVE Root(d, from) = first[o]
      <4>1. CASE o \in renamed
        BY <1>2, <3>5, <4>1
      <4>2. CASE o \notin renamed
        <5>1. \A u \in renamed : place[u] # from
          BY <2>0, <3>2, <3>4, <4>2
        <5> QED
          BY <1>2, <2>0, <3>5, <4>2, <5>1
      <4> QED
        BY <4>1, <4>2
    <3>7. Root(r, to) = Root(d, from)
      BY <1>23, <3>1
    <3> QED
      BY <1>2, <1>13, <2>0, <2>2, <3>2, <3>6, <3>7
  <2>3. CASE p = from /\ p # to
    <3>1. s = from /\ \A o \in Object : place'[o] # from
      BY <1>17, <1>21, <2>3, OdditiesAre
    <3> QED
      BY <1>2, <1>23, <2>0, <2>3, <3>1
  <2>4. CASE p # from /\ p # to
    <3>1. Root(r, p) = Root(d, p)
      BY <1>22, <1>23, <2>4
    <3>2. /\ \A o \in Object : place'[o] = p <=> place[o] = p
          /\ \A o \in A : place'[o] # p
      BY <1>22, <2>4
    <3> QED
      BY <2>0, <2>1, <3>1, <3>2
  <2> QED
    BY <2>2, <2>3, <2>4
<1>27. PlaceInv' /\ Truth(r)'
  BY <1>16, <1>24, <1>25, <1>26 DEF Truth
<1> QED
  BY <1>1, <1>15, <1>27
AlikeBut(r, d, S) ==
    \A p \in Path \ S : Root(r, p) = Root(d, p) /\ \A j : Marks(r, j, p) = Marks(d, j, p)
OddNow(S) ==
    /\ odd \subseteq odd' /\ UNCHANGED <<place, first, alive, did, renamed>>
    /\ \A p \in S : \E what \in {"failed", "relative", "late"} : <<what, p>> \in odd'

\* What is taken for some calls besides or in another order changes nothing that
\* is said, if their paths are odd.
LEMMA OddTruth ==
    ASSUME WorldInv, PlaceInv, NEW d, Truth(d), NEW r, NEW S, AlikeBut(r, d, S), OddNow(S)
    PROVE  PlaceInv' /\ Truth(r)'
<1>0. /\ odd \subseteq odd' /\ UNCHANGED <<place, first, alive, did, renamed>>
      /\ \A p \in S : \E what \in {"failed", "relative", "late"} : <<what, p>> \in odd'
      /\ \A p \in Path \ S : Root(r, p) = Root(d, p) /\ \A j : Marks(r, j, p) = Marks(d, j, p)
  BY DEF AlikeBut, OddNow
<1>1. Object' = Object /\ \A p, what : Plain(p, what)' => Plain(p, what)
  BY <1>0, PlainStays DEF Object
<1>2. \A p \in S : ~Plain(p, Unsound)' /\ ~Plain(p, Untrue)' /\ ~Plain(p, Oddities)'
  <2> SUFFICES ASSUME NEW p \in S
               PROVE  ~Plain(p, Unsound)' /\ ~Plain(p, Untrue)' /\ ~Plain(p, Oddities)'
    OBVIOUS
  <2>1. PICK what \in {"failed", "relative", "late"} : <<what, p>> \in odd'
    BY <1>0
  <2>2. what \in Unsound /\ what \in Untrue /\ what \in Oddities
    BY OdditiesAre
  <2> QED
    BY <2>1, <2>2 DEF Plain
<1>3. PlaceInv'
  BY <1>0, <1>1 DEF PlaceInv
<1>4. FoundBy(r)'
  <2> SUFFICES ASSUME NEW y \in did, y[2] \in alive, Plain(place[y[2]], Unsound)'
               PROVE  y[3] \in Marks(r, y[1], place[y[2]])
    BY <1>0 DEF FoundBy
  <2>1. place[y[2]] \in Path
    BY DEF WorldInv
  <2>4. PICK p \in Path : p = place[y[2]]
    BY <2>1
  <2>2. p \in Path \ S /\ Plain(p, Unsound)
    <3>1. Plain(p, Unsound)'
      BY <1>0, <2>4
    <3> QED
      BY <1>1, <1>2, <3>1
  <2>3. y[3] \in Marks(d, y[1], p)
    BY <2>2, <2>4 DEF Truth, FoundBy
  <2> QED
    BY <1>0, <2>2, <2>3, <2>4
<1>5. TrueBy(r)'
  <2> SUFFICES ASSUME NEW id \in Ids, NEW p \in Path, NEW flag \in Flags, Plain(p, Untrue)'
               PROVE  flag \in Marks(r, id, p) <=>
                        \E o \in Object : place[o] = p /\ <<id, o, flag>> \in did
    BY <1>0, <1>1 DEF TrueBy
  <2>1. p \in Path \ S /\ Plain(p, Untrue)
    BY <1>1, <1>2
  <2> QED
    BY <1>0, <2>1 DEF Truth, TrueBy
<1>6. RootsBy(r)'
  <2> SUFFICES ASSUME NEW p \in Path, Plain(p, Oddities)'
               PROVE  /\ \A o \in renamed : place[o] = p => Root(r, p) = first[o]
                      /\ (\A o \in renamed : place[o] # p) => Root(r, p) = p
    BY <1>0 DEF RootsBy
  <2>1. p \in Path \ S /\ Plain(p, Oddities)
    BY <1>1, <1>2
  <2> QED
    BY <1>0, <2>1 DEF Truth, RootsBy
<1> QED
  BY <1>3, <1>4, <1>5, <1>6 DEF Truth

LEMMA FailTruth ==
    ASSUME WorldInv, PlaceInv, NEW d, DataShape(d), Truth(d), NEW t \in Thread, Fail(t)
    PROVE  \E e, asked, r : /\ Enter(t, e, asked) /\ Shown(t, e, d, r, Bad, Bad')
                            /\ PlaceInv' /\ Truth(r)'
<1>i. PICK i : i = Id(t)
  OBVIOUS
<1>u. i \in Ids /\ Path \subseteq String
  BY <1>i, IdsAre DEF String
<1>1. PICK path \in Path :
        \/ /\ Enter(t, [op |-> "UNLINK", path |-> path], {})
           /\ odd' = odd \cup Odd("failed", {path})
        \/ \E to \in Path \ {path} :
              /\ Enter(t, [op |-> "RENAME", from |-> path, to |-> to], {})
              /\ odd' = odd \cup Odd("failed", {path, to})
  BY DEF Fail
<1>2. UNCHANGED <<place, first, alive, did, renamed>>
  BY DEF Fail, world
<1>3. CASE /\ Enter(t, [op |-> "UNLINK", path |-> path], {})
           /\ odd' = odd \cup Odd("failed", {path})
  <2> DEFINE e == [op |-> "UNLINK", path |-> path]
  <2>r. PICK r : r = After(d, i, e)
    OBVIOUS
  <2>1. Enter(t, e, {})
    BY <1>3
  <2>2. "UNLINK" \in Accesses /\ "UNLINK" \in Kinds
    BY <2>1 DEF Accesses, Enter, MayCall
  <2>3. e \in Formed /\ e.op # "RENAME"
    BY <1>u, <2>2, OneIs
  <2>4. PICK x : Flagging(d, r, i, path, "deleted", x)
    BY <1>u, <2>r, <2>2, AfterOne, MarksAre
  <2>5. Shown(t, e, d, r, Bad, Bad')
    BY <1>i, <2>r, <2>3 DEF Shown, RenameOdd
  <2> HIDE DEF e
  <2>6. AlikeBut(r, d, {path})
    BY <2>4, FlagSets DEF AlikeBut
  <2>7. OddNow({path})
    BY <1>2, <1>3 DEF Odd, OddNow
  <2>8. PlaceInv' /\ Truth(r)'
    BY <2>6, <2>7, OddTruth
  <2> QED
    BY <2>1, <2>5, <2>8
<1>4. ASSUME NEW to \in Path \ {path},
             Enter(t, [op |-> "RENAME", from |-> path, to |-> to], {}),
             odd' = odd \cup Odd("failed", {path, to})
      PROVE  \E e, asked, r : /\ Enter(t, e, asked) /\ Shown(t, e, d, r, Bad, Bad')
                              /\ PlaceInv' /\ Truth(r)'
  <2> DEFINE e == [op |-> "RENAME", from |-> path, to |-> to]
  <2>r. PICK r : r = After(d, i, e)
    OBVIOUS
  <2>1. Enter(t, e, {})
    BY <1>4
  <2>2. "RENAME" \in Twos /\ "RENAME" \in Kinds
    BY <2>1 DEF Twos, Enter, MayCall
  <2>3. e \in Formed /\ e.from = path /\ e.to = to
    BY <1>u, <2>2, TwoIs
  <2>4. Renaming(d, r, path, to)
    BY <1>u, <2>r, <2>2, AfterRename
  <2>7. OddNow({path, to})
    BY <1>2, <1>4 DEF Odd, OddNow
  <2>5. Shown(t, e, d, r, Bad, Bad')
    <3>1. to \in Bad'
      BY <1>4, OdditiesAre DEF Bad, Plain, Odd
    <3> QED
      BY <1>i, <2>r, <2>3, <3>1 DEF Shown, RenameOdd
  <2> HIDE DEF e
  <2>9. \A j, p : p # path /\ p # to => Marks(r, j, p) = Marks(d, j, p)
    BY <2>4, RenamingMarks
  <2>10. \A p : p # path /\ p # to => Root(r, p) = Root(d, p)
    BY <2>4 DEF Renaming
  <2>6. AlikeBut(r, d, {path, to})
    BY <2>9, <2>10 DEF AlikeBut
  <2>8. PlaceInv' /\ Truth(r)'
    BY <2>6, <2>7, OddTruth
  <2> QED
    BY <2>1, <2>5, <2>8
<1> QED
  BY <1>1, <1>3, <1>4

LEMMA CallTruth ==
    ASSUME WorldInv, PlaceInv, NEW d, DataShape(d), Truth(d), NEW t \in Thread, Call(t)
    PROVE  \E e, asked, r : /\ Enter(t, e, asked) /\ Shown(t, e, d, r, Bad, Bad')
                            /\ PlaceInv' /\ Truth(r)'
  BY AccessTruth, TransferTruth, CreateTruth, UnlinkTruth, RenameTruth, FailTruth DEF Call
-----------------------------------------------------------------------------
(* What calls ask get_checksum for, and what it does for them.             *)

Asks(e) == IF e.op \in Accesses THEN {e.path} ELSE IF e.op = "TRANSFER" THEN {e.from} ELSE {}

\* From d to r, process i asks for the checksums of S.
Summing(d, r, i, S) ==
    /\ DataShape(r)
    /\ \A p : Root(r, p) = Root(d, p)
    /\ \A j, p : Checksum(r, j, p) =
          IF j = i /\ p \in S /\ get_checksum(d, Originals, p) # NoChecksum
          THEN get_checksum(d, Originals, p) ELSE Checksum(d, j, p)

LEMMA ChecksumIs ==
    ASSUME NEW d, NEW p
    PROVE  get_checksum(d, Originals, p) =
              IF Root(d, p) \in d.seen_files \/ Root(d, p) \notin Original
              THEN NoChecksum ELSE Root(d, p)
  BY DEF get_checksum, Root, Originals, At

LEMMA AsksAre ==
    ASSUME NEW c \in Calls
    PROVE  /\ Asks(c.event) \subseteq Strings(c.event) /\ Strings(c.event) \subseteq String
           /\ c.event.op \in Accesses => Asks(c.event) = {c.event.path}
           /\ c.event.op = "TRANSFER" => Asks(c.event) = {c.event.from}
           /\ c.event.op = "RENAME" => Asks(c.event) = {}
<1>1. c.event.op \in Accesses \cup Twos
  BY CallIs
<1>2. /\ c.event.op \in Accesses => c.event.path \in String
      /\ c.event.op \in Twos => c.event.from \in String /\ c.event.to \in String
  BY CallIs
<1>3. "TRANSFER" \notin Accesses /\ "RENAME" \notin Accesses
      /\ \A op \in Twos : op \notin Accesses
  BY DEF Accesses, Twos
<1> QED
  BY <1>1, <1>2, <1>3 DEF Asks, Strings

LEMMA CallAsks ==
    ASSUME NEW c \in Calls, NEW x, Alike(x, c), NEW d, DataShape(d)
    PROVE  LET r == Processed(d, Originals, x)
           IN /\ r.seen_files = d.seen_files \cup {Root(d, p) : p \in Asks(c.event)}
              /\ c.event.op # "RENAME" => Summing(d, r, c.process_id, Asks(c.event))
<1> DEFINE i == c.process_id
           e == c.event
           r == Processed(d, Originals, x)
<1>1. CASE e.op \in Accesses
  <2>1. x.event.op = e.op /\ x.event.path = e.path /\ x.process_id = i
    BY <1>1 DEF Alike
  <2>2. /\ Flagging(d, r, i, e.path, MarkOf[e.op], get_checksum(d, Originals, e.path))
        /\ r.seen_files = d.seen_files \cup {Root(d, e.path)}
    BY <1>1, <2>1, AccessCall
  <2>3. Asks(e) = {e.path}
    BY <1>1, AsksAre
  <2> HIDE DEF r, e, i
  <2>4. Summing(d, r, i, Asks(e))
    BY <2>2, <2>3 DEF Summing, Flagging
  <2>5. r.seen_files = d.seen_files \cup {Root(d, p) : p \in Asks(e)}
    BY <2>2, <2>3
  <2> QED
    BY <2>4, <2>5 DEF r, e, i
<1>2. CASE e.op = "TRANSFER"
  <2>1. x.event.op = "TRANSFER" /\ x.event.from = e.from /\ x.event.to = e.to /\ x.process_id = i
    BY <1>2 DEF Alike, Twos
  <2>2. PICK a : /\ Flagging(d, a, i, e.from, "read", get_checksum(d, Originals, e.from))
                 /\ Flagging(a, r, i, e.to, "write", NoChecksum)
                 /\ r.seen_files = d.seen_files \cup {Root(d, e.from)}
    BY <2>1, TransferCall
  <2>3. Asks(e) = {e.from}
    BY <1>2, AsksAre
  <2> HIDE DEF r, e, i
  <2>4. \A j, p : Checksum(r, j, p) = Checksum(a, j, p)
    BY <2>2 DEF Flagging
  <2>5. Summing(d, a, i, Asks(e)) /\ DataShape(r) /\ \A p : Root(r, p) = Root(a, p)
    BY <2>2, <2>3 DEF Summing, Flagging
  <2>6. Summing(d, r, i, Asks(e))
    BY <2>4, <2>5 DEF Summing
  <2>7. r.seen_files = d.seen_files \cup {Root(d, p) : p \in Asks(e)}
    BY <2>2, <2>3
  <2> QED
    BY <2>6, <2>7 DEF r, e, i
<1>3. CASE e.op = "RENAME"
  <2>1. Renaming(d, r, e.from, e.to) /\ Asks(e) = {}
    BY <1>3, CallDoes, AsksAre
  <2> QED
    BY <1>3, <2>1 DEF Renaming
<1>4. e.op \in Accesses \cup Twos
  BY CallIs
<1> QED
  BY <1>1, <1>2, <1>3, <1>4 DEF Twos

\* Outside of the strings of a call checksums stay; first paths come from them.
LEMMA CallWithin ==
    ASSUME NEW c \in Calls, NEW d, DataShape(d), NEW L, Strings(c.event) \subseteq L
    PROVE  LET r == Processed(d, Originals, c)
           IN /\ \A p : p \notin L => Root(r, p) = Root(d, p)
              /\ \A j, p : p \notin L => Checksum(r, j, p) = Checksum(d, j, p)
              /\ \A p \in L : Root(r, p) \in L \cup {Root(d, q) : q \in L}
<1> DEFINE e == c.event
           r == Processed(d, Originals, c)
<1>1. Alike(c, c) /\ e.op \in Accesses \cup Twos
  BY CallIs
<1>2. CASE e.op # "RENAME"
  <2>1. Summing(d, r, c.process_id, Asks(e)) /\ Asks(e) \subseteq L
    BY <1>1, <1>2, CallAsks, AsksAre
  <2> HIDE DEF r, e
  <2>2. \A p : Root(r, p) = Root(d, p)
    BY <2>1 DEF Summing
  <2>3. \A j, p : p \notin L => Checksum(r, j, p) = Checksum(d, j, p)
    BY <2>1 DEF Summing
  <2>4. \A p \in L : Root(r, p) \in L \cup {Root(d, q) : q \in L}
    BY <2>2
  <2> QED
    BY <2>2, <2>3, <2>4 DEF r
<1>3. CASE e.op = "RENAME"
  <2>1. Renaming(d, r, e.from, e.to) /\ e.from \in L /\ e.to \in L
    BY <1>1, <1>3, CallDoes DEF Strings, Accesses
  <2> HIDE DEF r, e
  <2>2. \A p : p \notin L => Root(r, p) = Root(d, p)
    BY <2>1 DEF Renaming
  <2>3. \A j, p : p \notin L => Checksum(r, j, p) = Checksum(d, j, p)
    BY <2>1 DEF Renaming, Checksum
  <2>4. \A p \in L : Root(r, p) \in L \cup {Root(d, q) : q \in L}
    BY <2>1 DEF Renaming
  <2> QED
    BY <2>2, <2>3, <2>4 DEF r
<1> QED
  BY <1>2, <1>3

LEMMA RunWithin ==
    ASSUME NEW g, NEW E, Runs(g, E), NEW m, NEW L, Within(g, m, L), NEW n \in m..Len(g)
    PROVE  /\ \A p : p \notin L => Root(E[n], p) = Root(E[m], p)
           /\ \A j, p : p \notin L => Checksum(E[n], j, p) = Checksum(E[m], j, p)
           /\ \A p \in L : Root(E[n], p) \in L \cup {Root(E[m], q) : q \in L}
<1>0. /\ g \in Seq(Calls) /\ m \in Nat /\ m <= Len(g) /\ Len(g) \in Nat
      /\ \A k \in 1..Len(g) : k > m => Strings(g[k].event) \subseteq L
  BY DEF Within
<1> DEFINE V == L \cup {Root(E[m], q) : q \in L}
           G == {k \in Nat : /\ \A p : p \notin L => Root(E[k], p) = Root(E[m], p)
                             /\ \A j, p : p \notin L => Checksum(E[k], j, p) = Checksum(E[m], j, p)
                             /\ \A p \in L : Root(E[k], p) \in V}
<1>1. L \subseteq V /\ \A p \in L : Root(E[m], p) \in V
  OBVIOUS
<1> HIDE DEF V
<1>2. m \in G
  BY <1>0, <1>1
<1>3. ASSUME NEW k \in m..Len(g), k < Len(g), k \in G PROVE k + 1 \in G
  <2>1. k \in 0..Len(g) /\ k + 1 \in 1..Len(g) /\ k + 1 > m /\ (k + 1) - 1 = k /\ k + 1 \in Nat
    BY <1>0, <1>3
  <2>2. PICK c, d : c = g[k + 1] /\ d = E[k]
    OBVIOUS
  <2>3. c \in Calls /\ Strings(c.event) \subseteq L /\ DataShape(d)
    BY <1>0, <2>1, <2>2, RunShapes
  <2>4. PICK r : r = Processed(d, Originals, c)
    OBVIOUS
  <2>5. E[k + 1] = r
    BY <2>1, <2>2, <2>4 DEF Runs
  <2>6. /\ \A p : p \notin L => Root(r, p) = Root(d, p)
        /\ \A j, p : p \notin L => Checksum(r, j, p) = Checksum(d, j, p)
        /\ \A p \in L : Root(r, p) \in L \cup {Root(d, q) : q \in L}
    <3>1. LET q2 == Processed(d, Originals, c)
          IN /\ \A p : p \notin L => Root(q2, p) = Root(d, p)
             /\ \A j, p : p \notin L => Checksum(q2, j, p) = Checksum(d, j, p)
             /\ \A p \in L : Root(q2, p) \in L \cup {Root(d, q) : q \in L}
      BY <2>3, CallWithin
    <3> QED
      BY <2>4, <3>1
  <2>7. /\ \A p : p \notin L => Root(d, p) = Root(E[m], p)
        /\ \A j, p : p \notin L => Checksum(d, j, p) = Checksum(E[m], j, p)
        /\ \A p \in L : Root(d, p) \in V
    BY <1>3, <2>2
  <2>8. \A p \in L : Root(r, p) \in V
    BY <1>1, <2>6, <2>7
  <2> QED
    BY <2>1, <2>5, <2>6, <2>7, <2>8
<1>4. n \in Nat /\ n \in m..n /\ \A k \in m..n : k < n => k \in m..Len(g) /\ k < Len(g)
  BY <1>0
<1> HIDE DEF G
<1>5. n \in G
  BY <1>0, <1>2, <1>3, <1>4, UpTo
<1> QED
  BY <1>5 DEF G, V

\* A path has been asked for if a call asked for one that led to it.
LEMMA SeenAre ==
    ASSUME NEW h \in Seq(Calls), NEW D, Runs(h, D), NEW n \in 0..Len(h)
    PROVE  D[n].seen_files = UNION {{Root(D[k - 1], p) : p \in Asks(h[k].event)} : k \in 1..n}
<1> DEFINE S(k) == {Root(D[k - 1], p) : p \in Asks(h[k].event)}
           G == {k \in Nat : D[k].seen_files = UNION {S(j) : j \in 1..k}}
<1>1. Len(h) \in Nat /\ n \in Nat
  OBVIOUS
<1>2. 0 \in G
  <2>1. D[0] = Nothing /\ Nothing.seen_files = {}
    BY DEF Runs, Nothing
  <2>2. UNION {S(j) : j \in 1..0} = {}
    OBVIOUS
  <2> QED
    BY <2>1, <2>2
<1>3. ASSUME NEW k \in 0..n, k < n, k \in G PROVE k + 1 \in G
  <2>1. k \in 0..Len(h) /\ k + 1 \in 1..Len(h) /\ (k + 1) - 1 = k /\ k + 1 \in Nat
    BY <1>1, <1>3
  <2>2. PICK c, d : c = h[k + 1] /\ d = D[k]
    OBVIOUS
  <2>3. c \in Calls /\ Alike(c, c) /\ DataShape(d) /\ D[k + 1] = Processed(d, Originals, c)
    BY <2>1, <2>2, RunShapes, CallIs DEF Runs
  <2>4. D[k + 1].seen_files = d.seen_files \cup {Root(d, p) : p \in Asks(c.event)}
    BY <2>3, CallAsks
  <2>5. S(k + 1) = {Root(d, p) : p \in Asks(c.event)}
    BY <2>1, <2>2
  <2>6. \A j : j \in 1..k + 1 <=> j \in 1..k \/ j = k + 1
    BY <2>1
  <2> HIDE DEF S
  <2> DEFINE U(m) == UNION {S(j) : j \in 1..m}
  <2>7. U(k + 1) = U(k) \cup S(k + 1)
    <3>1. \A y : (\E j \in 1..k + 1 : y \in S(j)) <=> (\E j \in 1..k : y \in S(j)) \/ y \in S(k + 1)
      BY <2>6
    <3>2. \A y : /\ y \in U(k + 1) <=> \E j \in 1..k + 1 : y \in S(j)
                 /\ y \in U(k) <=> \E j \in 1..k : y \in S(j)
      OBVIOUS
    <3> HIDE DEF U
    <3> QED
      BY <3>1, <3>2
  <2>8. D[k].seen_files = U(k)
    BY <1>3
  <2>9. D[k + 1].seen_files = U(k + 1)
    BY <2>2, <2>4, <2>5, <2>7, <2>8
  <2> QED
    BY <2>1, <2>9
<1> HIDE DEF G
<1>4. n \in G
  <2>1. n \in 0..n /\ 0 \in Nat
    BY <1>1
  <2> QED
    BY <1>1, <1>2, <1>3, <2>1, UpTo
<1> QED
  BY <1>4 DEF G

-----------------------------------------------------------------------------
(* Where the renames of a history lead.                                    *)

Move(e, p) == IF e.op = "RENAME" /\ p = e.from THEN e.to ELSE p

\* Z[n][p] is where the calls after the n-th, up to the m-th, lead from p.
EndsTo(h, m, Z) ==
    /\ \A n \in 0..m : \A p \in String : Z[n][p] \in String
    /\ \A p \in String : Z[m][p] = p
    /\ \A n \in 1..m : \A p \in String : Z[n - 1][p] = Z[n][Move(h[n].event, p)]
Ends(h, Z) == EndsTo(h, Len(h), Z)

LEMMA MoveIs ==
    ASSUME NEW c \in Calls
    PROVE  /\ \A p \in String : Move(c.event, p) \in String
           /\ \A p : c.event.op # "RENAME" \/ p \notin Strings(c.event) => Move(c.event, p) = p
           /\ \A p, L : p \in L /\ Strings(c.event) \subseteq L => Move(c.event, p) \in L
<1> DEFINE e == c.event
<1>1. e.op = "RENAME" => e.from \in String /\ e.to \in String /\ Strings(e) = {e.from, e.to}
  BY CallIs DEF Strings, Twos, Accesses
<1> HIDE DEF e
<1>2. \A p \in String : Move(e, p) \in String
  BY <1>1 DEF Move
<1>3. \A p : e.op # "RENAME" \/ p \notin Strings(e) => Move(e, p) = p
  BY <1>1 DEF Move
<1>4. \A p, L : p \in L /\ Strings(e) \subseteq L => Move(e, p) \in L
  BY <1>1 DEF Move
<1> QED
  BY <1>2, <1>3, <1>4 DEF e

\* One more call.
LEMMA EndsNext ==
    ASSUME NEW g \in Seq(Calls), NEW m \in Nat, m < Len(g), NEW Z, EndsTo(g, m, Z)
    PROVE  \E Y : /\ EndsTo(g, m + 1, Y)
                  /\ \A n \in 0..m : \A p \in String : Y[n][p] = Move(g[m + 1].event, Z[n][p])
<1> DEFINE e == g[m + 1].event
           Y == [n \in 0..m + 1 |-> [p \in String |-> IF n = m + 1 THEN p ELSE Move(e, Z[n][p])]]
<1>1. m + 1 \in 1..Len(g) /\ g[m + 1] \in Calls
  OBVIOUS
<1>2. \A p \in String : Move(e, p) \in String
  BY <1>1, MoveIs
<1>3. /\ \A p \in String : Y[m + 1][p] = p
      /\ \A n \in 0..m : \A p \in String : Y[n][p] = Move(e, Z[n][p])
  OBVIOUS
<1> HIDE DEF e, Y
<1>4. /\ \A n \in 0..m + 1 : n \in 0..m \/ n = m + 1
      /\ \A n \in 1..m + 1 : n \in 1..m \/ n = m + 1
      /\ \A n \in 1..m : n \in 0..m /\ n - 1 \in 0..m
      /\ (m + 1) - 1 = m /\ m \in 0..m
  OBVIOUS
<1>5. /\ \A n \in 0..m : \A p \in String : Z[n][p] \in String
      /\ \A p \in String : Z[m][p] = p
      /\ \A n \in 1..m : \A p \in String : Z[n - 1][p] = Z[n][Move(g[n].event, p)]
  BY DEF EndsTo
<1>6. \A n \in 0..m + 1 : \A p \in String : Y[n][p] \in String
  BY <1>2, <1>3, <1>4, <1>5
<1>7. ASSUME NEW n \in 1..m + 1, NEW p \in String PROVE Y[n - 1][p] = Y[n][Move(g[n].event, p)]
  <2>1. CASE n \in 1..m
    <3>1. g[n] \in Calls
      BY <2>1
    <3>2. Move(g[n].event, p) \in String
      BY <3>1, MoveIs
    <3>3. Y[n - 1][p] = Move(e, Z[n - 1][p]) /\ Y[n][Move(g[n].event, p)] = Move(e, Z[n][Move(g[n].event, p)])
      BY <1>3, <1>4, <2>1, <3>2
    <3>4. Z[n - 1][p] = Z[n][Move(g[n].event, p)]
      BY <1>5, <2>1
    <3> QED
      BY <3>3, <3>4
  <2>2. CASE n = m + 1
    <3>1. Y[n - 1][p] = Move(e, p)
      BY <1>3, <1>4, <1>5, <2>2
    <3>2. Y[n][Move(e, p)] = Move(e, p)
      BY <1>2, <1>3, <2>2
    <3> QED
      BY <2>2, <3>1, <3>2 DEF e
  <2> QED
    BY <1>4, <2>1, <2>2
<1>8. EndsTo(g, m + 1, Y)
  BY <1>3, <1>6, <1>7 DEF EndsTo
<1> QED
  BY <1>3, <1>8 DEF e

LEMMA EndsExist == ASSUME NEW g \in Seq(Calls) PROVE \E Z : Ends(g, Z)
<1> DEFINE G == {k \in Nat : \E Z : EndsTo(g, k, Z)}
<1>1. Len(g) \in Nat /\ 0 \in Nat
  OBVIOUS
<1>2. 0 \in G
  <2> DEFINE Z == [n \in {0} |-> [p \in String |-> p]]
  <2>1. \A p \in String : Z[0][p] = p
    OBVIOUS
  <2> HIDE DEF Z
  <2>2. EndsTo(g, 0, Z)
    BY <2>1 DEF EndsTo
  <2> QED
    BY <2>2
<1>3. ASSUME NEW k \in 0..Len(g), k < Len(g), k \in G PROVE k + 1 \in G
  BY <1>3, EndsNext
<1> HIDE DEF G
<1>4. Len(g) \in G
  <2>1. Len(g) \in 0..Len(g)
    BY <1>1
  <2> QED
    BY <1>1, <1>2, <1>3, <2>1, UpTo
<1> QED
  BY <1>4 DEF G, Ends

\* What holds at n and, if it holds at a number, at the one before, holds down to m.
LEMMA DownTo ==
    ASSUME NEW m \in Nat, NEW n \in Nat, NEW G, n \in G,
           \A k \in m..n : k > m /\ k \in G => k - 1 \in G
    PROVE  \A k \in m..n : k \in G
<1> DEFINE T == {k \in Nat : n - k \in m..n /\ n - k \notin G}
<1> SUFFICES ASSUME NEW x \in m..n, x \notin G PROVE FALSE
  OBVIOUS
<1>1. n - x \in Nat /\ n - (n - x) = x
  OBVIOUS
<1>2. T # {} /\ T \in SUBSET Nat
  BY <1>1
<1>3. PICK k \in T : \A j \in T : k <= j
  BY <1>2, LeastNumber
<1>4. k \in Nat /\ n - k \in m..n /\ n - k \notin G /\ k # 0
  BY <1>3
<1>5. k - 1 \in Nat /\ n - (k - 1) \in m..n /\ n - (k - 1) > m /\ (n - (k - 1)) - 1 = n - k
  BY <1>4
<1>6. k - 1 \notin T
  BY <1>3, <1>5
<1>7. n - (k - 1) \in G
  BY <1>5, <1>6
<1> QED
  BY <1>4, <1>5, <1>7

\* Calls lead from their strings to their strings.
LEMMA EndsWithin ==
    ASSUME NEW g, NEW Z, Ends(g, Z), NEW m, NEW L, Within(g, m, L), NEW n \in m..Len(g)
    PROVE  \A p \in String : IF p \in L THEN Z[n][p] \in L ELSE Z[n][p] = p
<1>0. /\ g \in Seq(Calls) /\ m \in Nat /\ m <= Len(g) /\ Len(g) \in Nat
      /\ \A k \in 1..Len(g) : k > m => Strings(g[k].event) \subseteq L
  BY DEF Within
<1>1. /\ \A p \in String : Z[Len(g)][p] = p
      /\ \A k \in 1..Len(g) : \A p \in String : Z[k - 1][p] = Z[k][Move(g[k].event, p)]
  BY DEF Ends, EndsTo
<1> DEFINE G == {k \in Nat : \A p \in String : IF p \in L THEN Z[k][p] \in L ELSE Z[k][p] = p}
<1>2. Len(g) \in G
  BY <1>0, <1>1
<1>3. ASSUME NEW k \in m..Len(g), k > m, k \in G PROVE k - 1 \in G
  <2>1. k \in 1..Len(g) /\ k - 1 \in Nat
    BY <1>0, <1>3
  <2>2. PICK c : c = g[k]
    OBVIOUS
  <2>3. c \in Calls /\ Strings(c.event) \subseteq L
    BY <1>0, <1>3, <2>1, <2>2
  <2>4. ASSUME NEW p \in String PROVE IF p \in L THEN Z[k - 1][p] \in L ELSE Z[k - 1][p] = p
    <3>1. Move(c.event, p) \in String /\ (p \in L => Move(c.event, p) \in L)
          /\ (p \notin L => Move(c.event, p) = p)
      BY <2>3, MoveIs
    <3>2. Z[k - 1][p] = Z[k][Move(c.event, p)]
      BY <1>1, <2>1, <2>2
    <3> QED
      BY <1>3, <3>1, <3>2
  <2> QED
    BY <2>1, <2>4
<1> HIDE DEF G
<1>4. n \in G
  BY <1>0, <1>2, <1>3, DownTo
<1> QED
  BY <1>4 DEF G

\* Histories that begin with the same calls lead to the same, or within the rest.
LEMMA EndsBoth ==
    ASSUME NEW h, NEW g, NEW m, Begins(g, h, m), NEW Z, Ends(h, Z), NEW Y, Ends(g, Y),
           NEW L, Within(h, m, L), Within(g, m, L), NEW n \in 0..m, NEW p \in String
    PROVE  Y[n][p] = Z[n][p] \/ (Y[n][p] \in L /\ Z[n][p] \in L)
<1>0. /\ h \in Seq(Calls) /\ m \in Nat /\ m <= Len(h) /\ m <= Len(g)
      /\ Len(h) \in Nat /\ Len(g) \in Nat
      /\ \A k \in 1..m : g[k] = h[k]
  BY DEF Begins
<1> DEFINE Both(y, z) == y = z \/ (y \in L /\ z \in L)
           G == {k \in Nat : \A q \in String : Both(Y[k][q], Z[k][q])}
<1>1. m \in G
  <2>1. m \in m..Len(h) /\ m \in m..Len(g)
    BY <1>0
  <2>2. \A q \in String : IF q \in L THEN Z[m][q] \in L ELSE Z[m][q] = q
    BY <2>1, EndsWithin
  <2>3. \A q \in String : IF q \in L THEN Y[m][q] \in L ELSE Y[m][q] = q
    BY <2>1, EndsWithin
  <2> QED
    BY <1>0, <2>2, <2>3
<1>2. ASSUME NEW k \in 0..m, k > 0, k \in G PROVE k - 1 \in G
  <2>1. k \in 1..m /\ k \in 1..Len(h) /\ k \in 1..Len(g) /\ k - 1 \in Nat
    BY <1>0, <1>2
  <2>2. PICK c : c = h[k]
    OBVIOUS
  <2>3. c \in Calls /\ g[k] = c
    BY <1>0, <2>1, <2>2
  <2>4. ASSUME NEW q \in String PROVE Both(Y[k - 1][q], Z[k - 1][q])
    <3>1. Move(c.event, q) \in String
      BY <2>3, MoveIs
    <3>2. Z[k - 1][q] = Z[k][Move(c.event, q)]
      BY <2>1, <2>2 DEF Ends, EndsTo
    <3>3. Y[k - 1][q] = Y[k][Move(c.event, q)]
      BY <2>1, <2>3 DEF Ends, EndsTo
    <3>4. Both(Y[k][Move(c.event, q)], Z[k][Move(c.event, q)])
      BY <1>2, <3>1
    <3> QED
      BY <3>2, <3>3, <3>4
  <2> QED
    BY <2>1, <2>4
<1> HIDE DEF G
<1>3. n \in G
  BY <1>0, <1>1, <1>2, DownTo
<1> QED
  BY <1>3 DEF G

-----------------------------------------------------------------------------
(* Whom first paths and checksums belong to.                               *)

Fine == {path \in Path : Plain(path, Oddities)}

\* The first path of a file that is at z now, if it is at a path that is fine.
Home(x, z) == \E o \in Object : first[o] = x /\ (place[o] \in Fine => place[o] = z)

\* Two files have had one first path only if it is oddly reused.
FirstInv ==
    /\ \A o, u \in Object : o # u /\ first[o] = first[u] => <<"reused", first[o]>> \in odd
    /\ \A o \in Original : first[o] = o

\* rename_map leads to the first path of a file from where it is or was.
RootsHome(h, D, Z) ==
    /\ \A n \in 0..Len(h) : \A p \in String :
          Root(D[n], p) \in Fine \ {p} => Home(Root(D[n], p), Z[n][p])
    /\ \A n \in 1..Len(h) : \A p \in Asks(h[n].event) :
          Root(D[n - 1], p) \in Fine => Home(Root(D[n - 1], p), Z[n][p])

\* A[n] are the objects the call n asks get_checksum for: that is now where
\* the path of the call leads, and the call has its first path.
AskedRight(h, D, Z, A) ==
    \A n \in 1..Len(h) :
        /\ A[n] \subseteq Object
        /\ \A p \in Asks(h[n].event) : Z[n][p] \in Fine =>
              \E o \in A[n] : place[o] = Z[n][p] /\ first[o] = Root(D[n - 1], p)
        /\ \A o \in A[n] : place[o] \in Fine => \E p \in Asks(h[n].event) : Z[n][p] = place[o]

\* What each call has to show, given the result of those before.
Called(e, asked, d) ==
    /\ Object \subseteq Object' /\ odd \subseteq odd' /\ asked \subseteq Object'
    /\ \A o \in Object : first'[o] = first[o]
    /\ \A o \in Object : {place'[o], Move(e, place[o])} \cap Fine' # {} => place'[o] = Move(e, place[o])
    /\ \A o \in Object' \ Object : o \in asked
    /\ \A p \in Asks(e) : p \in Fine' => \E o \in asked : place'[o] = p /\ first'[o] = Root(d, p)
    /\ \A o \in asked : place'[o] \in Fine' => place'[o] \in Asks(e)
    /\ e.op = "RENAME" =>
          /\ asked = {}
          /\ e.to \in Fine' => e.from \in Fine /\ e.from # e.to
          /\ e.from \in Fine /\ {e.from, e.to} \cap Fine' # {} =>
                \E o \in Object : place[o] = e.from /\ first[o] = Root(d, e.from)
    /\ FirstInv'

\* One more call, with its result and its objects.
Extends(h, D, Z, A, g, E, Y, B, c, asked) ==
    /\ h \in Seq(Calls) /\ c \in Calls
    /\ Len(g) = Len(h) + 1 /\ g[Len(h) + 1] = c /\ \A n \in 1..Len(h) : g[n] = h[n]
    /\ DataShape(D[Len(h)]) /\ E[Len(h) + 1] = Processed(D[Len(h)], Originals, c)
    /\ \A n \in 0..Len(h) : E[n] = D[n]
    /\ Ends(h, Z) /\ Ends(g, Y)
    /\ \A n \in 0..Len(h) : \A p \in String : Y[n][p] = Move(c.event, Z[n][p])
    /\ B[Len(h) + 1] = asked /\ \A n \in 1..Len(h) : B[n] = A[n]

LEMMA FineShrinks == ASSUME odd \subseteq odd' PROVE Fine' \subseteq Fine
  BY DEF Fine, Plain

LEMMA FineFrom ==
    ASSUME NEW e, NEW asked, NEW d, Called(e, asked, d), NEW p, Move(e, p) \in Fine'
    PROVE  p \in Fine
<1>1. Fine' \subseteq Fine
  BY FineShrinks DEF Called
<1> QED
  BY <1>1 DEF Called, Move

LEMMA HomeMoves ==
    ASSUME NEW e, NEW asked, NEW d, Called(e, asked, d), NEW x, NEW z, Home(x, z)
    PROVE  Home(x, Move(e, z))'
<1>1. PICK o \in Object : first[o] = x /\ (place[o] \in Fine => place[o] = z)
  BY DEF Home
<1>2. o \in Object' /\ first'[o] = x
  BY <1>1 DEF Called
<1>3. ASSUME place'[o] \in Fine' PROVE place'[o] = Move(e, z)
  <2>1. place'[o] = Move(e, place[o])
    BY <1>3 DEF Called
  <2>2. place[o] \in Fine
    BY <1>3, <2>1, FineFrom
  <2> QED
    BY <1>1, <2>1, <2>2
<1> QED
  BY <1>2, <1>3 DEF Home

\* The first paths after a call.
LEMMA RootAfter ==
    ASSUME NEW c \in Calls, NEW d, DataShape(d), NEW asked, Called(c.event, asked, d),
           \A p \in String : Root(d, p) \in Fine \ {p} => Home(Root(d, p), p),
           NEW r, r = Processed(d, Originals, c), NEW p \in String, Root(r, p) \in Fine' \ {p}
    PROVE  Home(Root(r, p), p)'
<1> DEFINE e == c.event
           x == Root(r, p)
<1>1. Fine' \subseteq Fine
  BY FineShrinks DEF Called
<1>2. Alike(c, c)
  BY CallIs
<1>3. CASE e.op # "RENAME"
  <2>1. x = Root(d, p)
    BY <1>2, <1>3, CallAsks DEF Summing
  <2>2. Home(x, p)
    BY <1>1, <2>1
  <2>3. Move(e, p) = p
    BY <1>3 DEF Move
  <2> HIDE DEF x, e
  <2>4. Called(e, asked, d)
    BY DEF e
  <2>5. Home(x, Move(e, p))'
    BY <2>2, <2>4, HomeMoves
  <2> QED
    BY <2>3, <2>5 DEF x
<1>4. CASE e.op = "RENAME"
  <2>1. Renaming(d, r, e.from, e.to) /\ e.from \in String /\ e.to \in String
    BY <1>2, <1>4, CallDoes, CallIs DEF Twos
  <2>2. p # e.from /\ (p = e.to => x = Root(d, e.from)) /\ (p # e.to => x = Root(d, p))
    BY <2>1 DEF Renaming
  <2>3. Called(e, asked, d) /\ x \in Fine' /\ x # p
    OBVIOUS
  <2> HIDE DEF x, e
  <2>4. CASE p # e.to
    <3>1. Home(x, p) /\ Move(e, p) = p
      BY <1>1, <2>2, <2>3, <2>4 DEF Move
    <3>2. Home(x, Move(e, p))'
      BY <2>3, <3>1, HomeMoves
    <3> QED
      BY <3>1, <3>2 DEF x
  <2>5. CASE p = e.to /\ x # e.from
    <3>1. Home(x, e.from) /\ Move(e, e.from) = p
      BY <1>1, <1>4, <2>1, <2>2, <2>3, <2>5 DEF Move
    <3>2. Home(x, Move(e, e.from))'
      BY <2>3, <3>1, HomeMoves
    <3> QED
      BY <3>1, <3>2 DEF x
  <2>6. CASE p = e.to /\ x = e.from
    <3>1. PICK o \in Object : place[o] = e.from /\ first[o] = Root(d, e.from)
      BY <1>1, <1>4, <2>3, <2>6 DEF Called
    <3>2. first[o] = x /\ place[o] = e.from
      BY <2>2, <2>6, <3>1
    <3>3. Home(x, e.from) /\ Move(e, e.from) = p
      BY <1>4, <2>6, <3>2 DEF Home, Move
    <3>4. Home(x, Move(e, e.from))'
      BY <2>3, <3>3, HomeMoves
    <3> QED
      BY <3>3, <3>4 DEF x
  <2> QED
    BY <2>4, <2>5, <2>6
<1> QED
  BY <1>3, <1>4

LEMMA CallHomes ==
    ASSUME NEW h, NEW D, NEW Z, NEW A, NEW g, NEW E, NEW Y, NEW B, NEW c, NEW asked,
           Extends(h, D, Z, A, g, E, Y, B, c, asked), RootsHome(h, D, Z),
           Called(c.event, asked, D[Len(h)])
    PROVE  RootsHome(g, E, Y)'
<1>1. PICK N, d, e, r : N = Len(h) /\ d = D[N] /\ e = c.event /\ r = E[N + 1]
  OBVIOUS
<1>2. /\ h \in Seq(Calls) /\ c \in Calls /\ N \in Nat
      /\ Len(g) = N + 1 /\ g[N + 1] = c /\ \A n \in 1..N : g[n] = h[n]
      /\ DataShape(d) /\ r = Processed(d, Originals, c)
      /\ \A n \in 0..N : E[n] = D[n]
  BY <1>1 DEF Extends
<1>3. /\ \A p \in String : Z[N][p] = p /\ Y[N + 1][p] = p
      /\ \A n \in 0..N : \A p \in String : Y[n][p] = Move(e, Z[n][p])
  BY <1>1, <1>2 DEF Extends, Ends, EndsTo
<1>4. /\ \A n \in 0..N : \A p \in String : Root(D[n], p) \in Fine \ {p} => Home(Root(D[n], p), Z[n][p])
      /\ \A n \in 1..N : \A p \in Asks(h[n].event) :
            Root(D[n - 1], p) \in Fine => Home(Root(D[n - 1], p), Z[n][p])
  BY <1>1 DEF RootsHome
<1>5. Called(e, asked, d) /\ Fine' \subseteq Fine
  BY <1>1, FineShrinks DEF Called
<1>6. /\ N \in 0..N /\ (N + 1) - 1 = N
      /\ \A n \in 0..N + 1 : n \in 0..N \/ n = N + 1
      /\ \A n \in 1..N + 1 : n \in 1..N \/ n = N + 1
      /\ \A n \in 1..N : n \in 0..N /\ n - 1 \in 0..N
  BY <1>2
<1>7. ASSUME NEW n \in 0..N + 1, NEW p \in String, Root(E[n], p) \in Fine' \ {p}
      PROVE  Home(Root(E[n], p), Y[n][p])'
  <2>1. PICK x : x = Root(E[n], p)
    OBVIOUS
  <2>2. CASE n \in 0..N
    <3>1. PICK z : z = Z[n][p]
      OBVIOUS
    <3>2. Home(x, z)
      BY <1>2, <1>4, <1>5, <1>7, <2>1, <2>2, <3>1
    <3>3. Home(x, Move(e, z))'
      BY <1>5, <3>2, HomeMoves
    <3> QED
      BY <1>3, <2>1, <2>2, <3>1, <3>3
  <2>3. CASE n = N + 1
    <3>1. \A q \in String : Root(d, q) \in Fine \ {q} => Home(Root(d, q), q)
      BY <1>1, <1>3, <1>4, <1>6
    <3>2. Root(r, p) \in Fine' \ {p}
      BY <1>1, <1>7, <2>3
    <3>4. Called(c.event, asked, d)
      BY <1>1, <1>5
    <3>3. Home(Root(r, p), p)'
      BY <1>2, <3>1, <3>2, <3>4, RootAfter
    <3> QED
      BY <1>1, <1>3, <2>3, <3>3
  <2> QED
    BY <1>6, <2>2, <2>3
<1>8. ASSUME NEW n \in 1..N + 1, NEW p \in Asks(g[n].event), Root(E[n - 1], p) \in Fine'
      PROVE  Home(Root(E[n - 1], p), Y[n][p])'
  <2>1. PICK x : x = Root(E[n - 1], p)
    OBVIOUS
  <2>2. CASE n \in 1..N
    <3>1. PICK z : z = Z[n][p]
      OBVIOUS
    <3>2. h[n] \in Calls /\ g[n] = h[n]
      BY <1>1, <1>2, <2>2
    <3>3. p \in Asks(h[n].event) /\ p \in String
      BY <1>8, <3>2, AsksAre
    <3>4. Home(x, z)
      BY <1>2, <1>4, <1>5, <1>6, <1>8, <2>1, <2>2, <3>1, <3>3
    <3>5. Home(x, Move(e, z))'
      BY <1>5, <3>4, HomeMoves
    <3> QED
      BY <1>3, <1>6, <2>1, <2>2, <3>1, <3>3, <3>5
  <2>3. CASE n = N + 1
    <3>1. p \in Asks(e) /\ x = Root(d, p) /\ p \in String
      BY <1>1, <1>2, <1>6, <1>8, <2>1, <2>3, AsksAre
    <3>2. e.op # "RENAME"
      BY <1>1, <1>2, <3>1, AsksAre
    <3>3. CASE x # p
      <4>1. Home(x, p)
        BY <1>1, <1>3, <1>4, <1>5, <1>6, <1>8, <2>1, <3>1, <3>3
      <4>2. Home(x, Move(e, p))' /\ Move(e, p) = p
        BY <1>5, <3>2, <4>1, HomeMoves DEF Move
      <4> QED
        BY <1>3, <2>1, <2>3, <3>1, <4>2
    <3>4. CASE x = p
      <4>1. PICK o \in asked : place'[o] = p /\ first'[o] = x
        BY <1>5, <1>8, <2>1, <3>1, <3>4 DEF Called
      <4>2. o \in Object'
        BY <1>5 DEF Called
      <4>3. Home(x, p)'
        BY <4>1, <4>2 DEF Home
      <4> QED
        BY <1>3, <2>1, <2>3, <3>1, <4>3
    <3> QED
      BY <3>3, <3>4
  <2> QED
    BY <1>6, <2>2, <2>3
<1> QED
  BY <1>2, <1>7, <1>8 DEF RootsHome

LEMMA CallAsked ==
    ASSUME NEW h, NEW D, NEW Z, NEW A, NEW g, NEW E, NEW Y, NEW B, NEW c, NEW asked,
           Extends(h, D, Z, A, g, E, Y, B, c, asked), AskedRight(h, D, Z, A),
           Called(c.event, asked, D[Len(h)])
    PROVE  AskedRight(g, E, Y, B)'
<1>1. PICK N, d, e : N = Len(h) /\ d = D[N] /\ e = c.event
  OBVIOUS
<1>2. /\ h \in Seq(Calls) /\ c \in Calls /\ N \in Nat
      /\ Len(g) = N + 1 /\ g[N + 1] = c /\ \A n \in 1..N : g[n] = h[n]
      /\ \A n \in 0..N : E[n] = D[n]
      /\ B[N + 1] = asked /\ \A n \in 1..N : B[n] = A[n]
  BY <1>1 DEF Extends
<1>3. /\ \A p \in String : Z[N][p] = p /\ Y[N + 1][p] = p
      /\ \A n \in 0..N : \A p \in String : Y[n][p] = Move(e, Z[n][p])
  BY <1>1, <1>2 DEF Extends, Ends, EndsTo
<1>4. Called(e, asked, d) /\ Fine' \subseteq Fine
  BY <1>1, FineShrinks DEF Called
<1>5. /\ N \in 0..N /\ (N + 1) - 1 = N
      /\ \A n \in 1..N + 1 : n \in 1..N \/ n = N + 1
      /\ \A n \in 1..N : n \in 0..N /\ n - 1 \in 0..N
  BY <1>2
<1> DEFINE Right(n) ==
             /\ B[n] \subseteq Object'
             /\ \A p \in Asks(g[n].event) : Y[n][p] \in Fine' =>
                   \E o \in B[n] : place'[o] = Y[n][p] /\ first'[o] = Root(E[n - 1], p)
             /\ \A o \in B[n] : place'[o] \in Fine' => \E p \in Asks(g[n].event) : Y[n][p] = place'[o]
<1>6. ASSUME NEW n \in 1..N PROVE Right(n)
  <2>1. PICK S, O, R : S = Asks(h[n].event) /\ O = A[n] /\ R = D[n - 1]
    OBVIOUS
  <2>2. g[n] = h[n] /\ B[n] = O /\ E[n - 1] = R /\ h[n] \in Calls
    BY <1>1, <1>2, <1>5, <2>1
  <2>3. \A p \in S : p \in String /\ Y[n][p] = Move(e, Z[n][p])
    BY <1>3, <1>5, <2>1, <2>2, AsksAre
  <2>4. /\ O \subseteq Object
        /\ \A p \in S : Z[n][p] \in Fine => \E o \in O : place[o] = Z[n][p] /\ first[o] = Root(R, p)
        /\ \A o \in O : place[o] \in Fine => \E p \in S : Z[n][p] = place[o]
    BY <1>1, <2>1 DEF AskedRight
  <2>5. B[n] \subseteq Object'
    BY <1>4, <2>2, <2>4 DEF Called
  <2>6. ASSUME NEW p \in S, Y[n][p] \in Fine'
        PROVE  \E o \in O : place'[o] = Y[n][p] /\ first'[o] = Root(R, p)
    <3>1. Move(e, Z[n][p]) \in Fine'
      BY <2>3, <2>6
    <3>2. Z[n][p] \in Fine
      BY <1>4, <3>1, FineFrom
    <3>3. PICK o \in O : place[o] = Z[n][p] /\ first[o] = Root(R, p)
      BY <2>4, <3>2
    <3>4. place'[o] = Move(e, place[o]) /\ first'[o] = first[o]
      BY <1>4, <2>4, <3>1, <3>3 DEF Called
    <3> QED
      BY <2>3, <3>3, <3>4
  <2>7. ASSUME NEW o \in O, place'[o] \in Fine' PROVE \E p \in S : Y[n][p] = place'[o]
    <3>1. place'[o] = Move(e, place[o])
      BY <1>4, <2>4, <2>7 DEF Called
    <3>2. place[o] \in Fine
      BY <1>4, <2>7, <3>1, FineFrom
    <3>3. PICK p \in S : Z[n][p] = place[o]
      BY <2>4, <3>2
    <3> QED
      BY <2>3, <3>1, <3>3
  <2> QED
    BY <2>1, <2>2, <2>5, <2>6, <2>7
<1>7. Right(N + 1)
  <2>1. g[N + 1].event = e /\ B[N + 1] = asked /\ E[(N + 1) - 1] = d
    BY <1>1, <1>2, <1>5
  <2>2. \A p \in Asks(e) : Y[N + 1][p] = p
    BY <1>1, <1>2, <1>3, AsksAre
  <2>3. asked \subseteq Object'
    BY <1>4 DEF Called
  <2>4. \A p \in Asks(e) : p \in Fine' => \E o \in asked : place'[o] = p /\ first'[o] = Root(d, p)
    BY <1>4 DEF Called
  <2>5. \A o \in asked : place'[o] \in Fine' => place'[o] \in Asks(e)
    BY <1>4 DEF Called
  <2> QED
    BY <2>1, <2>2, <2>3, <2>4, <2>5
<1> HIDE DEF Right
<1>8. \A n \in 1..N + 1 : Right(n)
  BY <1>5, <1>6, <1>7
<1> QED
  BY <1>2, <1>8 DEF AskedRight, Right

LEMMA FineOne ==
    ASSUME PlaceInv, NEW o \in Object, NEW u \in Object, place[o] = place[u], place[o] \in Fine
    PROVE  o = u
  BY OdditiesAre DEF PlaceInv, Fine, Plain

LEMMA FirstOne ==
    ASSUME FirstInv, NEW o \in Object, NEW u \in Object, first[o] = first[u], first[o] \in Fine
    PROVE  o = u
  BY OdditiesAre DEF FirstInv, Fine, Plain

\* Of a file at a path that is fine, the first path is seen if and only if the
\* file is one of K.
SeenRight(d, K) ==
    /\ \A x \in Fine : x \in d.seen_files =>
          \E o \in Object : first[o] = x /\ (place[o] \in Fine => o \in K)
    /\ \A o \in K : place[o] \in Fine => first[o] \in d.seen_files

\* The files asked for by the first m calls.
AskedBy(A, m) == UNION {A[n] : n \in 1..m}

LEMMA AskedSeen ==
    ASSUME PlaceInv, NEW h \in Seq(Calls), NEW D, Runs(h, D), NEW Z, RootsHome(h, D, Z),
           NEW A, AskedRight(h, D, Z, A)
    PROVE  SeenRight(D[Len(h)], AskedBy(A, Len(h)))
<1> DEFINE N == Len(h)
           K == AskedBy(A, N)
           d == D[N]
<1>1. N \in Nat /\ N \in 0..N
  OBVIOUS
<1> DEFINE S(k) == {Root(D[k - 1], p) : p \in Asks(h[k].event)}
<1>2. d.seen_files = UNION {S(k) : k \in 1..N}
  BY <1>1, SeenAre
<1>3. \A x : x \in d.seen_files <=> \E k \in 1..N : \E p \in Asks(h[k].event) : x = Root(D[k - 1], p)
  <2>1. \A k, x : x \in S(k) <=> \E p \in Asks(h[k].event) : x = Root(D[k - 1], p)
    OBVIOUS
  <2> HIDE DEF S, d
  <2>2. \A x : x \in d.seen_files <=> \E k \in 1..N : x \in S(k)
    BY <1>2
  <2>3. \A x : (\E k \in 1..N : x \in S(k)) <=> \E k \in 1..N : \E p \in Asks(h[k].event) : x = Root(D[k - 1], p)
    BY <2>1
  <2> QED
    BY <2>2, <2>3
<1>4. \A o : o \in K <=> \E k \in 1..N : o \in A[k]
  BY DEF AskedBy
<1> HIDE DEF K, d
<1>5. ASSUME NEW x \in Fine, x \in d.seen_files
      PROVE  \E o \in Object : first[o] = x /\ (place[o] \in Fine => o \in K)
  <2>1. PICK k \in 1..N : \E p \in Asks(h[k].event) : x = Root(D[k - 1], p)
    BY <1>3, <1>5
  <2>2. PICK p \in Asks(h[k].event) : x = Root(D[k - 1], p)
    BY <2>1
  <2>3. Home(x, Z[k][p])
    BY <1>5, <2>2 DEF RootsHome
  <2>4. PICK o \in Object : first[o] = x /\ (place[o] \in Fine => place[o] = Z[k][p])
    BY <2>3 DEF Home
  <2>5. ASSUME place[o] \in Fine PROVE o \in K
    <3>1. PICK u \in A[k] : place[u] = Z[k][p]
      BY <2>2, <2>4, <2>5 DEF AskedRight
    <3>2. u \in Object
      BY <3>1 DEF AskedRight
    <3>3. u = o
      BY <2>4, <2>5, <3>1, <3>2, FineOne
    <3> QED
      BY <1>4, <3>1, <3>3
  <2> QED
    BY <2>4, <2>5
<1>6. ASSUME NEW o \in K, place[o] \in Fine PROVE first[o] \in d.seen_files
  <2>1. PICK k \in 1..N : o \in A[k]
    BY <1>4
  <2>2. PICK p \in Asks(h[k].event) : Z[k][p] = place[o]
    BY <1>6, <2>1 DEF AskedRight
  <2>3. PICK u \in A[k] : place[u] = Z[k][p] /\ first[u] = Root(D[k - 1], p)
    BY <1>6, <2>2 DEF AskedRight
  <2>4. u \in Object /\ o \in Object
    BY <2>1, <2>3 DEF AskedRight
  <2>5. u = o
    BY <1>6, <2>2, <2>3, <2>4, FineOne
  <2> QED
    BY <1>3, <2>2, <2>3, <2>5
<1>7. SeenRight(d, K)
  BY <1>5, <1>6 DEF SeenRight
<1> QED
  BY <1>7 DEF d, K

\* A checksum is at the path of its file, of the process in W, and nowhere else.
SumAt(d, W, p, i) ==
    /\ \A o \in Original : place[o] = p /\ i \in W[o] => Checksum(d, i, p) = o
    /\ (\A o \in Original : place[o] = p => i \notin W[o]) => Checksum(d, i, p) = NoChecksum
Clear(p) == p \in Fine /\ \A o \in Object : place[o] = p => first[o] \in Fine
SumsBy(d, W) == \A p : Clear(p) => \A i : SumAt(d, W, p, i)

\* After a call of process i, the objects of asked that are not of K are its.
Grows(W, V, K, asked, i) ==
    /\ \A o \in Original : o \notin K => W[o] = {}
    /\ \A o \in Original : V[o] = IF o \in asked /\ o \notin K THEN {i} ELSE W[o]

\* A path where nothing happens.
LEMMA SumStays ==
    ASSUME NEW d, NEW r, NEW W, NEW V, NEW p, NEW j, SumAt(d, W, p, j), Checksum(r, j, p) = Checksum(d, j, p),
           \A o \in Original : (place'[o] = p <=> place[o] = p) /\ (place'[o] = p => V[o] = W[o])
    PROVE  SumAt(r, V, p, j)'
  BY DEF SumAt

LEMMA AskSums ==
    ASSUME WorldInv, PlaceInv, FirstInv, PlaceInv', NEW c \in Calls, c.event.op # "RENAME", NEW d, DataShape(d),
           NEW asked, Called(c.event, asked, d), NEW K, SeenRight(d, K),
           NEW W, NEW V, Grows(W, V, K, asked, c.process_id), SumsBy(d, W),
           NEW r, r = Processed(d, Originals, c)
    PROVE  SumsBy(r, V)'
<1>1. PICK e, i : e = c.event /\ i = c.process_id
  OBVIOUS
<1>2. Summing(d, r, i, Asks(e))
  <2>1. Alike(c, c)
    BY CallIs
  <2> QED
    BY <1>1, <2>1, CallAsks
<1>3. Called(e, asked, d) /\ Grows(W, V, K, asked, i) /\ \A q : Move(e, q) = q
  BY <1>1 DEF Move
<1>4. Fine' \subseteq Fine /\ FirstInv' /\ Object \subseteq Object' /\ Original \subseteq Object
  BY <1>3, FineShrinks DEF Called, WorldInv
<1> SUFFICES ASSUME NEW p, Clear(p)', NEW j
             PROVE  SumAt(r, V, p, j)'
  BY DEF SumsBy
<1>5. p \in Fine' /\ p \in Fine /\ \A o \in Object' : place'[o] = p => first'[o] \in Fine'
  BY <1>4 DEF Clear
<1>6. \A o \in Object : place'[o] = p <=> place[o] = p
  BY <1>3, <1>5 DEF Called
<1>7. Clear(p)
  BY <1>3, <1>4, <1>5, <1>6 DEF Clear, Called
<1>8. SumAt(d, W, p, j)
  BY <1>7 DEF SumsBy
<1>9. CASE p \notin Asks(e)
  <2>1. Checksum(r, j, p) = Checksum(d, j, p)
    BY <1>2, <1>9 DEF Summing
  <2>2. \A o \in Original : place'[o] = p => o \notin asked
    BY <1>3, <1>4, <1>5, <1>9 DEF Called
  <2>3. \A o \in Original : (place'[o] = p <=> place[o] = p) /\ (place'[o] = p => V[o] = W[o])
    BY <1>3, <1>4, <1>6, <2>2 DEF Grows
  <2> QED
    BY <1>8, <2>1, <2>3, SumStays
<1>10. CASE p \in Asks(e)
  <2>1. PICK o \in asked : place'[o] = p /\ first'[o] = Root(d, p)
    BY <1>3, <1>5, <1>10 DEF Called
  <2>2. o \in Object' /\ first'[o] \in Fine'
    BY <1>3, <1>5, <2>1 DEF Called
  <2>3. \A u \in Object' : place'[u] = p => u = o
    <3> SUFFICES ASSUME NEW u \in Object', place'[u] = p PROVE u = o
      OBVIOUS
    <3>1. <<"reused", p>> \notin odd'
      BY <1>5, OdditiesAre DEF Fine, Plain
    <3> QED
      BY <2>1, <2>2, <3>1 DEF PlaceInv
  <2>4. PICK x : x = Root(d, p)
    OBVIOUS
  <2>5. \A u \in Object' : first'[u] = x => u = o
    <3> SUFFICES ASSUME NEW u \in Object', first'[u] = x PROVE u = o
      OBVIOUS
    <3>1. <<"reused", x>> \notin odd'
      BY <2>1, <2>2, <2>4, OdditiesAre DEF Fine, Plain
    <3> QED
      BY <1>4, <2>1, <2>2, <2>4, <3>1 DEF FirstInv
  <2>6. CASE o \in K /\ o \in Object
    <3>1. x \in d.seen_files
      <4>1. place[o] = p /\ first[o] = x
        BY <1>3, <1>6, <2>1, <2>4, <2>6 DEF Called
      <4> QED
        BY <1>5, <2>6, <4>1 DEF SeenRight
    <3>2. Checksum(r, j, p) = Checksum(d, j, p)
      <4>1. get_checksum(d, Originals, p) = NoChecksum
        BY <2>4, <3>1, ChecksumIs
      <4> QED
        BY <1>2, <4>1 DEF Summing
    <3>3. \A u \in Original : place'[u] = p => u \in K
      BY <1>4, <2>3, <2>6
    <3>4. \A u \in Original : (place'[u] = p <=> place[u] = p) /\ (place'[u] = p => V[u] = W[u])
      BY <1>3, <1>4, <1>6, <3>3 DEF Grows
    <3> QED
      BY <1>8, <3>2, <3>4, SumStays
  <2>7. CASE ~(o \in K /\ o \in Object)
    <3>1. x \notin d.seen_files
      <4> SUFFICES ASSUME x \in d.seen_files PROVE FALSE
        OBVIOUS
      <4>1. x \in Fine
        BY <1>4, <2>1, <2>2, <2>4
      <4>2. PICK u \in Object : first[u] = x /\ (place[u] \in Fine => u \in K)
        BY <4>1 DEF SeenRight
      <4>3. u \in Object' /\ first'[u] = x
        BY <1>3, <4>2 DEF Called
      <4>4. u = o
        BY <2>5, <4>3
      <4>5. place[u] = p
        BY <1>6, <2>1, <4>4
      <4> QED
        BY <1>5, <2>7, <4>2, <4>4, <4>5
    <3>2. \A u \in Original : place'[u] = p => u = o /\ W[u] = {} /\ V[u] = {i}
      BY <1>3, <1>4, <2>1, <2>3, <2>7 DEF Grows
    <3>3. Checksum(d, j, p) = NoChecksum
      BY <1>4, <1>6, <1>8, <3>2 DEF SumAt
    <3>4. CASE o \in Original
      <4>1. x = o
        BY <1>3, <1>4, <2>1, <2>4, <3>4 DEF FirstInv, Called
      <4>2. get_checksum(d, Originals, p) = o
        BY <2>4, <3>1, <3>4, <4>1, ChecksumIs
      <4>3. Checksum(r, j, p) = IF j = i THEN o ELSE NoChecksum
        BY <1>2, <1>10, <3>3, <4>2 DEF Summing
      <4>4. V[o] = {i} /\ place'[o] = p
        BY <2>1, <3>2, <3>4
      <4>5. \A u \in Original : place'[u] = p /\ j \in V[u] => Checksum(r, j, p) = u
        BY <3>2, <4>3
      <4>6. (\A u \in Original : place'[u] = p => j \notin V[u]) => Checksum(r, j, p) = NoChecksum
        BY <3>4, <4>3, <4>4
      <4> QED
        BY <4>5, <4>6 DEF SumAt
    <3>5. CASE o \notin Original
      <4>1. x \notin Original
        <5> SUFFICES ASSUME x \in Original PROVE FALSE
          OBVIOUS
        <5>1. x \in Object /\ first[x] = x
          BY <1>4 DEF FirstInv
        <5>2. x \in Object' /\ first'[x] = x
          BY <1>3, <5>1 DEF Called
        <5> QED
          BY <2>5, <3>5, <5>2
      <4>2. get_checksum(d, Originals, p) = NoChecksum
        BY <2>4, <4>1, ChecksumIs
      <4>3. Checksum(r, j, p) = NoChecksum
        BY <1>2, <3>3, <4>2 DEF Summing
      <4>4. \A u \in Original : place'[u] # p
        BY <1>4, <2>3, <3>5
      <4> QED
        BY <4>3, <4>4 DEF SumAt
    <3> QED
      BY <3>4, <3>5
  <2> QED
    BY <2>6, <2>7
<1> QED
  BY <1>9, <1>10

LEMMA RenamingSums ==
    ASSUME NEW d, NEW r, NEW from, NEW to, Renaming(d, r, from, to)
    PROVE  \A j, p : Checksum(r, j, p) = IF p = from THEN NoChecksum
                                         ELSE IF p = to /\ from \in Known(d, j) THEN Checksum(d, j, from)
                                         ELSE Checksum(d, j, p)
<1>1. NoOperations.start = NoChecksum
  BY DEF NoOperations
<1> QED
  BY <1>1 DEF Renaming, Checksum

LEMMA RenameSums ==
    ASSUME WorldInv, PlaceInv, PlaceInv', NEW c \in Calls, c.event.op = "RENAME", NEW d, DataShape(d),
           NEW asked, Called(c.event, asked, d), NEW K, NEW W, NEW V,
           Grows(W, V, K, asked, c.process_id), SumsBy(d, W), NEW r, r = Processed(d, Originals, c)
    PROVE  SumsBy(r, V)'
<1>1. PICK e, s, w : e = c.event /\ s = e.from /\ w = e.to
  OBVIOUS
<1>2. Renaming(d, r, s, w)
  <2>1. Alike(c, c)
    BY CallIs
  <2> QED
    BY <1>1, <2>1, CallDoes
<1>3. /\ Called(e, asked, d) /\ e.op = "RENAME" /\ asked = {}
      /\ \A q : Move(e, q) = IF q = s THEN w ELSE q
  BY <1>1 DEF Move, Called
<1>4. Fine' \subseteq Fine /\ Object' = Object /\ Original \subseteq Object
  BY <1>3, FineShrinks DEF Called, WorldInv
<1>5. \A o \in Original : V[o] = W[o]
  BY <1>3 DEF Grows
<1>6. \A j, p : Checksum(r, j, p) = IF p = s THEN NoChecksum
                                    ELSE IF p = w /\ s \in Known(d, j) THEN Checksum(d, j, s)
                                    ELSE Checksum(d, j, p)
  BY <1>2, RenamingSums
<1> SUFFICES ASSUME NEW p, Clear(p)', NEW j
             PROVE  SumAt(r, V, p, j)'
  BY DEF SumsBy
<1>7. p \in Fine' /\ p \in Fine /\ \A o \in Object : place'[o] = p => first'[o] \in Fine'
  BY <1>4 DEF Clear
<1>8. \A o \in Object : place'[o] = p <=> Move(e, place[o]) = p
  BY <1>3, <1>7 DEF Called
<1>9. \A o \in Object : place'[o] = p => first[o] \in Fine
  BY <1>3, <1>4, <1>7 DEF Called
<1>10. CASE p # s /\ p # w
  <2>1. \A o \in Object : place'[o] = p <=> place[o] = p
    BY <1>3, <1>8, <1>10
  <2>2. Clear(p)
    BY <1>7, <1>9, <2>1 DEF Clear
  <2>3. SumAt(d, W, p, j) /\ Checksum(r, j, p) = Checksum(d, j, p)
    BY <1>6, <1>10, <2>2 DEF SumsBy
  <2> QED
    BY <1>4, <1>5, <2>1, <2>3, SumStays
<1>11. CASE p = s
  <2>1. w # s
    BY <1>1, <1>3, <1>7, <1>11 DEF Called
  <2>2. \A o \in Object : place'[o] # p
    BY <1>3, <1>8, <1>11, <2>1
  <2>3. Checksum(r, j, p) = NoChecksum
    BY <1>6, <1>11
  <2> QED
    BY <1>4, <2>2, <2>3 DEF SumAt
<1>12. CASE p = w /\ w # s
  <2>1. s \in Fine /\ \E o \in Object : place[o] = s
    BY <1>1, <1>3, <1>7, <1>12 DEF Called
  <2>2. PICK o \in Object : place[o] = s
    BY <2>1
  <2>3. place'[o] = p
    BY <1>3, <1>8, <1>12, <2>2
  <2>4. \A u \in Object : place'[u] = p => u = o
    <3> SUFFICES ASSUME NEW u \in Object, place'[u] = p PROVE u = o
      OBVIOUS
    <3>1. <<"reused", p>> \notin odd'
      BY <1>7, OdditiesAre DEF Fine, Plain
    <3> QED
      BY <1>4, <2>3, <3>1 DEF PlaceInv
  <2>5. \A u \in Object : place[u] = s => u = o
    BY <2>1, <2>2, FineOne
  <2>6. Clear(s)
    BY <1>9, <2>1, <2>3, <2>5 DEF Clear
  <2>7. \A u \in Object : place[u] # w
    <3> SUFFICES ASSUME NEW u \in Object, place[u] = w PROVE FALSE
      OBVIOUS
    <3>1. place'[u] = p
      BY <1>3, <1>8, <1>12
    <3> QED
      BY <1>12, <2>2, <2>4, <3>1
  <2>8. Clear(w)
    BY <1>7, <1>12, <2>7 DEF Clear
  <2>9. Checksum(d, j, w) = NoChecksum
    BY <1>4, <2>7, <2>8 DEF SumsBy, SumAt
  <2>10. Checksum(r, j, p) = Checksum(d, j, s)
    BY <1>6, <1>12, <2>9, OperationsAre
  <2>11. \A u \in Original : place'[u] = p <=> place[u] = s
    BY <1>4, <2>2, <2>3, <2>4, <2>5
  <2>12. SumAt(d, W, s, j)
    BY <2>6 DEF SumsBy
  <2> QED
    BY <1>5, <2>10, <2>11, <2>12 DEF SumAt
<1> QED
  BY <1>10, <1>11, <1>12

-----------------------------------------------------------------------------
(* What each call shows.                                                   *)

LEMMA RootFine ==
    ASSUME WorldInv, PlaceInv, NEW d, Truth(d)
    PROVE  /\ \A o \in Object : place[o] \in Fine => Root(d, place[o]) = first[o]
           /\ \A p \in Fine : (\A o \in Object : place[o] # p) => Root(d, p) = p
<1>1. \A p \in Fine : /\ \A o \in renamed : place[o] = p => Root(d, p) = first[o]
                      /\ (\A o \in renamed : place[o] # p) => Root(d, p) = p
  BY DEF Truth, RootsBy, Fine
<1>2. ASSUME NEW o \in Object, place[o] \in Fine PROVE Root(d, place[o]) = first[o]
  <2>1. CASE o \in renamed
    BY <1>1, <1>2, <2>1
  <2>2. CASE o \notin renamed
    <3>1. \A u \in renamed : place[u] # place[o]
      BY <1>2, <2>2, FineOne DEF PlaceInv
    <3> QED
      BY <1>1, <1>2, <2>2, <3>1 DEF PlaceInv
  <2> QED
    BY <2>1, <2>2
<1>3. \A p \in Fine : (\A o \in Object : place[o] # p) => Root(d, p) = p
  BY <1>1 DEF PlaceInv
<1> QED
  BY <1>2, <1>3

\* A call that moves and makes nothing.
LEMMA StillCalled ==
    ASSUME FirstInv, UNCHANGED <<place, first>>, odd \subseteq odd', NEW d,
           NEW e, e.op # "RENAME", NEW asked, asked \subseteq Object,
           \A p \in Asks(e) : p \in Fine' => \E o \in asked : place[o] = p /\ first[o] = Root(d, p),
           \A o \in asked : place[o] \in Fine' => place[o] \in Asks(e)
    PROVE  Called(e, asked, d)
<1>1. Object' = Object /\ \A p : Move(e, p) = p
  BY DEF Object, Move
<1>2. FirstInv'
  BY <1>1 DEF FirstInv
<1> QED
  BY <1>1, <1>2 DEF Called

\* A descriptor is asked for under the path of its file, if that is there.
LEMMA AskedFine ==
    ASSUME WorldInv, PlaceInv, FirstInv, NEW d, Truth(d), NEW o \in Object, odd \subseteq odd',
           Name(o) \in Fine'
    PROVE  \E u \in {o} \cap alive : place[u] = Name(o) /\ first[u] = Root(d, Name(o))
<1>1. Name(o) \in Fine /\ Name(o) \in Path
  BY FineShrinks DEF Fine
<1>2. o \in alive /\ Name(o) = place[o]
  BY <1>1, NameIs
<1>3. first[o] = Root(d, place[o])
  BY <1>1, <1>2, RootFine
<1> QED
  BY <1>2, <1>3

LEMMA AccessCalled ==
    ASSUME WorldInv, PlaceInv, FirstInv, NEW d, Truth(d), NEW t \in Thread, NEW op \in Kinds,
           NEW o \in Object, Access(t, op, o)
    PROVE  \E e, asked : Enter(t, e, asked) /\ Called(e, asked, d)
<1> DEFINE e == [op |-> op, path |-> Name(o)]
           asked == {o} \cap alive
<1>1. /\ op \in {"READ", "WRITE"} /\ Enter(t, e, asked)
      /\ UNCHANGED <<place, first>> /\ odd \subseteq odd'
  BY Outcomes DEF Access, world
<1>2. e.op # "RENAME" /\ Asks(e) = {Name(o)}
  BY <1>1 DEF Asks, Accesses
<1> HIDE DEF e
<1>3. \A p \in Asks(e) : p \in Fine' => \E u \in asked : place[u] = p /\ first[u] = Root(d, p)
  BY <1>1, <1>2, AskedFine
<1>4. \A u \in asked : place[u] \in Fine' => place[u] \in Asks(e)
  BY <1>2, NameIs
<1>5. asked \subseteq Object
  OBVIOUS
<1> HIDE DEF asked
<1>6. Called(e, asked, d)
  BY <1>1, <1>2, <1>3, <1>4, <1>5, StillCalled
<1> QED
  BY <1>1, <1>6

LEMMA TransferCalled ==
    ASSUME WorldInv, PlaceInv, FirstInv, NEW d, Truth(d), NEW t \in Thread,
           NEW o \in Object, NEW to \in Object, Transfer(t, o, to)
    PROVE  \E e, asked : Enter(t, e, asked) /\ Called(e, asked, d)
<1> DEFINE e == [op |-> "TRANSFER", from |-> Name(o), to |-> Name(to)]
           asked == {o} \cap alive
<1>1. Enter(t, e, asked) /\ UNCHANGED <<place, first>> /\ odd \subseteq odd'
  BY Outcomes DEF Transfer, world
<1>2. e.op # "RENAME" /\ Asks(e) = {Name(o)}
  BY DEF Asks, Accesses
<1> HIDE DEF e
<1>3. \A p \in Asks(e) : p \in Fine' => \E u \in asked : place[u] = p /\ first[u] = Root(d, p)
  BY <1>1, <1>2, AskedFine
<1>4. \A u \in asked : place[u] \in Fine' => place[u] \in Asks(e)
  BY <1>2, NameIs
<1>5. asked \subseteq Object
  OBVIOUS
<1> HIDE DEF asked
<1>6. Called(e, asked, d)
  BY <1>1, <1>2, <1>3, <1>4, <1>5, StillCalled
<1> QED
  BY <1>1, <1>6

LEMMA UnlinkCalled ==
    ASSUME WorldInv, PlaceInv, FirstInv, NEW d, Truth(d), NEW t \in Thread, NEW path \in Path,
           Unlink(t, path)
    PROVE  \E e, asked : Enter(t, e, asked) /\ Called(e, asked, d)
<1>1. PICK s \in Spelled(path) :
         /\ Enter(t, [op |-> "UNLINK", path |-> s], On(path))
         /\ odd' = odd \cup Odd("relative", {path} \ {s})
  BY DEF Unlink
<1>2. On(path) # {} /\ UNCHANGED <<place, first>>
  BY DEF Unlink
<1> DEFINE e == [op |-> "UNLINK", path |-> s]
<1>3. e.op # "RENAME" /\ Asks(e) = {s}
  BY DEF Asks, Accesses
<1>4. On(path) \subseteq Object /\ \A o \in On(path) : place[o] = path
  BY DEF On, WorldInv
<1>5. (s \in Path => s = path) /\ odd \subseteq odd'
  BY <1>1, SpelledIs
<1>6. path \in Fine' => s = path
  <2> SUFFICES ASSUME s # path PROVE path \notin Fine'
    OBVIOUS
  <2>1. <<"relative", path>> \in odd'
    BY <1>1 DEF Odd
  <2> QED
    BY <2>1 DEF Fine, Plain, Oddities
<1> HIDE DEF e
<1>7. \A p \in Asks(e) : p \in Fine' => \E o \in On(path) : place[o] = p /\ first[o] = Root(d, p)
  <2> SUFFICES ASSUME s \in Fine' PROVE \E o \in On(path) : place[o] = s /\ first[o] = Root(d, s)
    BY <1>3
  <2>1. s = path /\ s \in Fine
    BY <1>5, FineShrinks DEF Fine
  <2>2. PICK o \in On(path) : place[o] = s
    BY <1>2, <1>4, <2>1
  <2> QED
    BY <1>4, <2>1, <2>2, RootFine
<1>8. \A o \in On(path) : place[o] \in Fine' => place[o] \in Asks(e)
  BY <1>3, <1>4, <1>6
<1>9. Called(e, On(path), d)
  BY <1>2, <1>3, <1>4, <1>5, <1>7, <1>8, StillCalled
<1> QED
  BY <1>1, <1>9 DEF e

LEMMA FailCalled ==
    ASSUME WorldInv, PlaceInv, FirstInv, NEW d, Truth(d), NEW t \in Thread, Fail(t)
    PROVE  \E e, asked : Enter(t, e, asked) /\ Called(e, asked, d)
<1>1. PICK path \in Path :
        \/ /\ Enter(t, [op |-> "UNLINK", path |-> path], {})
           /\ odd' = odd \cup Odd("failed", {path})
        \/ \E to \in Path \ {path} :
              /\ Enter(t, [op |-> "RENAME", from |-> path, to |-> to], {})
              /\ odd' = odd \cup Odd("failed", {path, to})
  BY DEF Fail
<1>2. UNCHANGED <<place, first>>
  BY DEF Fail, world
<1>3. \A p : <<"failed", p>> \in odd' => p \notin Fine'
  BY DEF Fine, Plain, Oddities
<1>4. CASE /\ Enter(t, [op |-> "UNLINK", path |-> path], {})
           /\ odd' = odd \cup Odd("failed", {path})
  <2> DEFINE e == [op |-> "UNLINK", path |-> path]
  <2>1. e.op # "RENAME" /\ Asks(e) = {path} /\ path \notin Fine' /\ odd \subseteq odd'
    BY <1>3, <1>4 DEF Asks, Accesses, Odd
  <2> HIDE DEF e
  <2>2. Called(e, {}, d)
    BY <1>2, <2>1, StillCalled
  <2> QED
    BY <1>4, <2>2 DEF e
<1>5. ASSUME NEW to \in Path \ {path}, Enter(t, [op |-> "RENAME", from |-> path, to |-> to], {}),
             odd' = odd \cup Odd("failed", {path, to})
      PROVE  \E e, asked : Enter(t, e, asked) /\ Called(e, asked, d)
  <2> DEFINE e == [op |-> "RENAME", from |-> path, to |-> to]
  <2>1. e.op = "RENAME" /\ e.from = path /\ e.to = to /\ Asks(e) = {}
    BY DEF Asks, Accesses
  <2>2. path \notin Fine' /\ to \notin Fine' /\ odd \subseteq odd'
    BY <1>3, <1>5 DEF Odd
  <2> HIDE DEF e
  <2>3. \A o \in Object : {place[o], Move(e, place[o])} \cap Fine' # {} => place[o] = Move(e, place[o])
    BY <2>1, <2>2 DEF Move
  <2>4. Object' = Object /\ FirstInv'
    BY <1>2, <2>2 DEF Object, FirstInv
  <2>5. Called(e, {}, d)
    BY <1>2, <2>1, <2>2, <2>3, <2>4 DEF Called
  <2> QED
    BY <1>5, <2>5 DEF e
<1> QED
  BY <1>1, <1>4, <1>5

LEMMA CreateCalled ==
    ASSUME WorldInv, PlaceInv, FirstInv, NEW d, Truth(d), NEW t \in Thread, NEW path \in Path,
           Create(t, path)
    PROVE  \E e, asked : Enter(t, e, asked) /\ Called(e, asked, d)
<1>1. PICK new : new = 1 + Cardinality(Object)
  OBVIOUS
<1> DEFINE e == [op |-> "WRITE", path |-> path]
<1>2. /\ Enter(t, e, {new})
      /\ place' = With(place, new, path) /\ first' = With(first, new, path)
      /\ odd' = odd \cup Reused(path, Object)
  BY <1>1 DEF Create
<1>3. new \notin Object /\ Original \subseteq Object
  BY <1>1, NewObject DEF WorldInv
<1>4. /\ Object' = Object \cup {new} /\ place'[new] = path /\ first'[new] = path
      /\ \A o \in Object : place'[o] = place[o] /\ first'[o] = first[o]
  BY <1>2, <1>3 DEF Object, With, WorldInv
<1>5. e.op # "RENAME" /\ Asks(e) = {path}
  BY DEF Asks, Accesses
<1> HIDE DEF e
<1>6. \A p : Move(e, p) = p
  BY <1>5 DEF Move
<1>7. (\E o \in Object : path \in {place[o], first[o]}) => <<"reused", path>> \in odd'
  BY <1>2 DEF Reused
<1>8. path \in Fine' => Root(d, path) = path
  <2> SUFFICES ASSUME path \in Fine' PROVE Root(d, path) = path
    OBVIOUS
  <2>1. \A o \in Object : place[o] # path
    BY <1>7 DEF Fine, Plain, Oddities
  <2>2. path \in Fine
    BY <1>2, FineShrinks
  <2> QED
    BY <2>1, <2>2, RootFine
<1>9. FirstInv'
  <2>1. ASSUME NEW o \in Object', NEW u \in Object', o # u, first'[o] = first'[u]
        PROVE  <<"reused", first'[o]>> \in odd'
    <3>1. CASE o \in Object /\ u \in Object
      BY <1>2, <1>4, <2>1, <3>1 DEF FirstInv
    <3>2. CASE o = new \/ u = new
      BY <1>4, <1>7, <2>1, <3>2
    <3> QED
      BY <1>4, <3>1, <3>2
  <2>2. \A o \in Original : first'[o] = o
    BY <1>3, <1>4 DEF FirstInv
  <2> QED
    BY <2>1, <2>2 DEF FirstInv
<1>10. odd \subseteq odd'
  BY <1>2
<1>11. Called(e, {new}, d)
  BY <1>4, <1>5, <1>6, <1>8, <1>9, <1>10 DEF Called
<1> QED
  BY <1>2, <1>11

LEMMA RenameCalled ==
    ASSUME WorldInv, PlaceInv, FirstInv, NEW d, Truth(d), NEW t \in Thread, NEW from \in Path,
           NEW to \in Path, Rename(t, from, to)
    PROVE  \E e, asked : Enter(t, e, asked) /\ Called(e, asked, d)
<1>1. PICK s \in Spelled(from), r \in Spelled(to) :
        /\ Enter(t, [op |-> "RENAME", from |-> s, to |-> r], {})
        /\ odd' = odd
              \cup {<<what, to>> : what \in {k \in Oddities \cup Attempts : <<k, from>> \in odd}}
              \cup (IF <<s, r>> = <<from, to>> THEN {} ELSE Odd("relative", {from, to}))
              \cup (IF from = to THEN Odd("self", {to})
                   ELSE Reused(to, Object \ On(from)))
  BY DEF Rename
<1>2. /\ On(from) # {} /\ first' = first
      /\ place' = [o \in Object |-> IF o \in On(from) THEN to ELSE place[o]]
  BY DEF Rename
<1>3. On(from) \subseteq Object /\ \A o \in On(from) : place[o] = from
  BY DEF On, WorldInv
<1>4. (s \in Path => s = from) /\ (r \in Path => r = to) /\ odd \subseteq odd'
  BY <1>1, SpelledIs
<1>5. Fine' \subseteq Fine /\ Fine \subseteq Path
  BY <1>4, FineShrinks DEF Fine
<1>6. {from, to} \cap Fine' # {} => s = from /\ r = to
  <2> SUFFICES ASSUME <<s, r>> # <<from, to>> PROVE from \notin Fine' /\ to \notin Fine'
    OBVIOUS
  <2>1. <<"relative", from>> \in odd' /\ <<"relative", to>> \in odd'
    BY <1>1 DEF Odd
  <2> QED
    BY <2>1 DEF Fine, Plain, Oddities
<1>7. to \in Fine' => from \in Fine /\ from # to
  <2> SUFFICES ASSUME to \in Fine' PROVE from \in Fine /\ from # to
    OBVIOUS
  <2>1. \A what \in Oddities : <<what, to>> \notin odd'
    BY DEF Fine, Plain
  <2>2. from # to
    BY <1>1, <2>1 DEF Odd, Oddities
  <2>3. \A what \in Oddities : <<what, from>> \notin odd
    BY <1>1, <2>1
  <2> QED
    BY <2>2, <2>3 DEF Fine, Plain
<1>8. from \in Fine => \A o \in Object : place[o] = from => o \in On(from)
  BY <1>2, <1>3, FineOne
<1> DEFINE e == [op |-> "RENAME", from |-> s, to |-> r]
<1>9. /\ e.op = "RENAME" /\ e.from = s /\ e.to = r /\ Asks(e) = {}
      /\ \A p : Move(e, p) = IF p = s THEN r ELSE p
  BY DEF Asks, Accesses, Move
<1> HIDE DEF e
<1>10. Object' = Object /\ FirstInv'
  BY <1>2, <1>4 DEF Object, FirstInv
<1>11. ASSUME NEW o \in Object, {place'[o], Move(e, place[o])} \cap Fine' # {}
       PROVE  place'[o] = Move(e, place[o])
  <2>1. CASE place[o] # from
    <3>1. place'[o] = place[o]
      BY <1>2, <1>3, <2>1
    <3>2. place[o] # s
      <4>1. place[o] \in Path
        BY DEF WorldInv
      <4> QED
        BY <1>4, <2>1, <4>1
    <3> QED
      BY <1>9, <3>1, <3>2
  <2>2. CASE place[o] = from
    <3>1. {from, to} \cap Fine' # {}
      <4>1. place'[o] \in {from, to}
        BY <1>2, <2>2
      <4>2. Move(e, place[o]) \in Fine' => Move(e, place[o]) \in {from, to}
        BY <1>4, <1>5, <1>9, <2>2
      <4> QED
        BY <1>11, <4>1, <4>2
    <3>2. s = from /\ r = to /\ Move(e, place[o]) = to
      BY <1>6, <1>9, <2>2, <3>1
    <3>3. from \in Fine
      BY <1>5, <1>7, <3>1
    <3>4. o \in On(from)
      BY <1>8, <2>2, <3>3
    <3> QED
      BY <1>2, <3>2, <3>4
  <2> QED
    BY <2>1, <2>2
<1>12. e.to \in Fine' => e.from \in Fine /\ e.from # e.to
  <2> SUFFICES ASSUME r \in Fine' PROVE s \in Fine /\ s # r
    BY <1>9
  <2>1. r = to
    BY <1>4, <1>5
  <2>2. s = from
    BY <1>6, <2>1
  <2> QED
    BY <1>7, <2>1, <2>2
<1>13. e.from \in Fine /\ {e.from, e.to} \cap Fine' # {} =>
         \E o \in Object : place[o] = e.from /\ first[o] = Root(d, e.from)
  <2> SUFFICES ASSUME s \in Fine PROVE \E o \in Object : place[o] = s /\ first[o] = Root(d, s)
    BY <1>9
  <2>1. s = from
    BY <1>4, <1>5
  <2>2. PICK o \in On(from) : place[o] = s
    BY <1>2, <1>3, <2>1
  <2> QED
    BY <1>3, <2>2, RootFine
<1>14. Called(e, {}, d)
  BY <1>2, <1>4, <1>9, <1>10, <1>11, <1>12, <1>13 DEF Called
<1> QED
  BY <1>1, <1>14 DEF e

LEMMA CallCalled ==
    ASSUME WorldInv, PlaceInv, FirstInv, NEW d, Truth(d), NEW t \in Thread, Call(t)
    PROVE  \E e, asked : Enter(t, e, asked) /\ Called(e, asked, d)
  BY AccessCalled, TransferCalled, UnlinkCalled, FailCalled, CreateCalled, RenameCalled DEF Call

-----------------------------------------------------------------------------
(* The calls that ask for a file, and the first of them.                   *)

\* Of the calls 1..m, k is the first to ask for o.
Foremost(A, m, o, k) == k \in 1..m /\ o \in A[k] /\ \A j \in 1..m : o \in A[j] => k <= j
Owners(h, A) ==
    [o \in Original |-> {h[k].process_id : k \in {n \in 1..Len(h) : Foremost(A, Len(h), o, n)}}]

\* subject and opener are those of the history.
Opened(h, A) ==
    /\ DOMAIN subject = Thread
    /\ \A j \in DOMAIN unstamped : A[clock + j] = subject[unstamped[j]]
    /\ \A o : o \in DOMAIN opener <=> \E n \in 1..clock : o \in A[n]
    /\ \A o \in DOMAIN opener : \E n : Foremost(A, clock, o, n) /\ opener[o] = h[n].process_id

\* A rename that a fork copied was not from a path that is fine.
CopiesOdd(h) ==
    \A n \in 1..Len(h) : h[n].event.op = "RENAME" /\ Copied(n) => h[n].event.from \notin Fine

Summed(h, D, Z, A) ==
    /\ Ends(h, Z) /\ RootsHome(h, D, Z) /\ AskedRight(h, D, Z, A)
    /\ Opened(h, A) /\ SumsBy(D[Len(h)], Owners(h, A))

AskInv(h, D) == FirstInv /\ CopiesOdd(h) /\ \E Z, A : Summed(h, D, Z, A)

LEMMA OwnersAre ==
    ASSUME NEW h, NEW A, NEW o \in Original
    PROVE  \A i : i \in Owners(h, A)[o] <=> \E k : Foremost(A, Len(h), o, k) /\ i = h[k].process_id
  BY DEF Owners, Foremost

LEMMA OwnersGrow ==
    ASSUME NEW h \in Seq(Calls), NEW g, Len(g) = Len(h) + 1, \A n \in 1..Len(h) : g[n] = h[n],
           NEW A, NEW B, \A n \in 1..Len(h) : B[n] = A[n], NEW i, i = g[Len(h) + 1].process_id
    PROVE  Grows(Owners(h, A), Owners(g, B), UNION {A[n] : n \in 1..Len(h)}, B[Len(h) + 1], i)
<1> DEFINE K == UNION {A[n] : n \in 1..Len(h)}
           W == Owners(h, A)
           V == Owners(g, B)
<1>1. \A o : o \in K <=> \E n \in 1..Len(h) : o \in A[n]
  OBVIOUS
<1>2. PICK N : N = Len(h)
  OBVIOUS
<1>3. N \in Nat /\ \A n \in 1..N + 1 : n \in 1..N \/ n = N + 1
  BY <1>2
<1>4. ASSUME NEW o \in Original
      PROVE  /\ \A x : x \in W[o] <=> \E k : Foremost(A, N, o, k) /\ x = h[k].process_id
             /\ \A x : x \in V[o] <=> \E k : Foremost(B, N + 1, o, k) /\ x = g[k].process_id
  BY <1>2, OwnersAre
<1>5. \A o, k : Foremost(A, N, o, k) => k \in 1..N /\ o \in K
  BY <1>1, <1>2 DEF Foremost
<1>6. ASSUME NEW o, NEW k, o \in K PROVE Foremost(B, N + 1, o, k) <=> Foremost(A, N, o, k)
  <2>1. PICK n \in 1..N : o \in A[n]
    BY <1>1, <1>2, <1>6
  <2>2. ASSUME Foremost(B, N + 1, o, k) PROVE Foremost(A, N, o, k)
    <3>1. k <= n /\ k \in 1..N + 1
      BY <1>2, <1>3, <2>1, <2>2 DEF Foremost
    <3>2. k \in 1..N
      BY <1>3, <3>1
    <3> QED
      BY <1>2, <1>3, <2>2, <3>2 DEF Foremost
  <2>3. ASSUME Foremost(A, N, o, k) PROVE Foremost(B, N + 1, o, k)
    <3>1. k \in 1..N /\ k <= N + 1 /\ k \in 1..N + 1
      BY <1>3, <2>3 DEF Foremost
    <3> QED
      BY <1>2, <1>3, <2>3, <3>1 DEF Foremost
  <2> QED
    BY <2>2, <2>3
<1>7. ASSUME NEW o, NEW k, o \notin K
      PROVE  Foremost(B, N + 1, o, k) <=> k = N + 1 /\ o \in B[N + 1]
  <2>1. \A n \in 1..N : o \notin B[n]
    BY <1>1, <1>2, <1>7
  <2>2. N + 1 \in 1..N + 1 /\ N + 1 <= N + 1
    BY <1>3
  <2> QED
    BY <1>3, <2>1, <2>2 DEF Foremost
<1>8. \A k \in 1..N : g[k] = h[k]
  BY <1>2
<1> HIDE DEF K, W, V
<1>9. \A o \in Original : o \notin K => W[o] = {}
  BY <1>4, <1>5
<1>10. ASSUME NEW o \in Original PROVE V[o] = IF o \in B[N + 1] /\ o \notin K THEN {i} ELSE W[o]
  <2>1. CASE o \in K
    <3>1. \A x : x \in V[o] <=> x \in W[o]
      BY <1>4, <1>5, <1>6, <1>8, <2>1
    <3> QED
      BY <2>1, <3>1
  <2>2. CASE o \notin K
    <3>1. \A x : x \in V[o] <=> o \in B[N + 1] /\ x = i
      BY <1>2, <1>4, <1>7, <2>2
    <3> QED
      BY <1>9, <2>2, <3>1
  <2> QED
    BY <2>1, <2>2
<1> QED
  BY <1>2, <1>9, <1>10 DEF Grows, K, W, V

LEMMA EnterOpened ==
    ASSUME BaseInv, NEW h, HistoryInv(h), NEW A, Opened(h, A), NEW g, \A n \in 1..Len(h) : g[n] = h[n],
           NEW B, \A n \in 1..Len(h) : B[n] = A[n],
           NEW t \in Thread, NEW e, NEW asked, Enter(t, e, asked), B[Len(h) + 1] = asked
    PROVE  Opened(g, B)'
<1>1. /\ clock \in Nat /\ unstamped \in Seq(Thread) /\ Len(unstamped) \in Nat
      /\ Len(h) = clock + Len(unstamped) /\ DOMAIN unstamped = 1..Len(unstamped)
  BY DEF BaseInv, ThreadInv, HistoryInv
<1>2. /\ pending[t] = NoCall /\ unstamped' = Append(unstamped, t) /\ subject' = [subject EXCEPT ![t] = asked]
      /\ clock' = clock /\ opener' = opener
  BY DEF Enter, MayCall
<1>3. \A j \in DOMAIN unstamped : unstamped[j] # t
  <2>1. \A u \in Waiting : pending[u] # NoCall
    BY <1>1, OperationIs DEF BaseInv, ThreadInv, Waiting
  <2> QED
    BY <1>2, <2>1 DEF Waiting
<1>4. DOMAIN subject' = Thread /\ subject'[t] = asked /\ \A u \in Thread : u # t => subject'[u] = subject[u]
  BY <1>2 DEF Opened
<1>5. ASSUME NEW j \in DOMAIN unstamped' PROVE B[clock' + j] = subject'[unstamped'[j]]
  <2>1. CASE j \in 1..Len(unstamped)
    <3>1. unstamped'[j] = unstamped[j] /\ unstamped[j] \in Thread /\ clock + j \in 1..Len(h)
      BY <1>1, <1>2, <2>1
    <3> QED
      BY <1>1, <1>2, <1>3, <1>4, <2>1, <3>1 DEF Opened
  <2>2. CASE j = Len(unstamped) + 1
    <3>1. unstamped'[j] = t /\ clock + j = Len(h) + 1
      BY <1>1, <1>2, <2>2
    <3> QED
      BY <1>2, <1>4, <3>1
  <2> QED
    BY <1>1, <1>2, <2>1, <2>2
<1>6. \A n \in 1..clock : n \in 1..Len(h)
  BY <1>1
<1>7. \A o, n : Foremost(B, clock, o, n) <=> Foremost(A, clock, o, n)
  BY <1>6 DEF Foremost
<1>8. \A o : o \in DOMAIN opener <=> \E n \in 1..clock : o \in B[n]
  BY <1>6 DEF Opened
<1>9. \A o \in DOMAIN opener : \E n : Foremost(B, clock, o, n) /\ opener[o] = g[n].process_id
  BY <1>6, <1>7 DEF Opened, Foremost
<1> QED
  BY <1>2, <1>4, <1>5, <1>7, <1>8, <1>9 DEF Opened, Foremost

\* Y takes the paths one call further than Z: to where they are after call m + 1.
Further(g, m, Z, Y) ==
    /\ EndsTo(g, m + 1, Y)
    /\ \A n \in 0..m : \A p \in String : Y[n][p] = Move(g[m + 1].event, Z[n][p])

LEMMA EndsFurther ==
    ASSUME NEW h \in Seq(Calls), NEW g \in Seq(Calls), NEW m \in Nat, m < Len(g),
           NEW Z, EndsTo(h, m, Z), \A n \in 1..m : h[n] = g[n]
    PROVE  \E Y : Further(g, m, Z, Y)
<1>1. EndsTo(g, m, Z)
  BY DEF EndsTo
<1> QED
  BY <1>1, EndsNext DEF Further

LEMMA SummedSeen ==
    ASSUME PlaceInv, NEW h \in Seq(Calls), NEW D, Runs(h, D), NEW Z, NEW A, Summed(h, D, Z, A)
    PROVE  SeenRight(D[Len(h)], AskedBy(A, Len(h)))
<1>1. RootsHome(h, D, Z) /\ AskedRight(h, D, Z, A)
  BY DEF Summed
<1> QED
  BY <1>1, AskedSeen

LEMMA EnterAsked ==
    ASSUME BaseInv, PlaceInv, PlaceInv', NEW h, HistoryInv(h), NEW D, Runs(h, D), AskInv(h, D),
           \A n : Copied(n)' => Copied(n), ~Copied(Len(h) + 1),
           NEW t \in Thread, NEW asked, NEW c \in Calls, Enter(t, c.event, asked),
           Called(c.event, asked, D[Len(h)]), NEW g, g = Append(h, c), NEW E, Runs(g, E), SameTo(E, D, Len(h))
    PROVE  AskInv(g, E)'
<1>1. PICK N, d, Z, A : N = Len(h) /\ d = D[N] /\ Summed(h, D, Z, A)
  BY DEF AskInv
<1>2. /\ h \in Seq(Calls) /\ N \in Nat /\ g \in Seq(Calls) /\ Len(g) = N + 1 /\ g[N + 1] = c
      /\ \A n \in 1..N : g[n] = h[n]
  BY <1>1 DEF HistoryInv
<1>3. PICK r : r = Processed(d, Originals, c)
  OBVIOUS
<1>4. DataShape(d) /\ E[N + 1] = r /\ \A n \in 0..N : E[n] = D[n]
  <2>1. N \in 0..N /\ N + 1 \in 1..N + 1 /\ (N + 1) - 1 = N
    BY <1>2
  <2>2. E[N + 1] = Processed(E[N], Originals, c) /\ E[N] = d
    BY <1>1, <1>2, <2>1 DEF Runs, SameTo
  <2>3. DataShape(d)
    BY <1>1, <1>2, <2>1, RunShapes
  <2> QED
    BY <1>1, <1>3, <2>2, <2>3 DEF SameTo
<1>5. PICK Y : /\ Ends(g, Y)
               /\ \A n \in 0..N : \A p \in String : Y[n][p] = Move(c.event, Z[n][p])
  <2>1. EndsTo(h, N, Z) /\ \A n \in 1..N : h[n] = g[n]
    BY <1>1, <1>2 DEF Summed, Ends
  <2>2. N < Len(g)
    BY <1>2
  <2>3. PICK Y : Further(g, N, Z, Y)
    BY <1>2, <2>1, <2>2, EndsFurther
  <2> QED
    BY <1>2, <2>3 DEF Ends, Further
<1> DEFINE B == [n \in 1..N + 1 |-> IF n = N + 1 THEN asked ELSE A[n]]
<1>6. B[N + 1] = asked /\ \A n \in 1..N : B[n] = A[n]
  BY <1>2
<1> HIDE DEF B
<1>7. Extends(h, D, Z, A, g, E, Y, B, c, asked)
  BY <1>1, <1>2, <1>3, <1>4, <1>5, <1>6 DEF Extends, Summed
<1>8. RootsHome(g, E, Y)' /\ AskedRight(g, E, Y, B)'
  BY <1>1, <1>7, CallHomes, CallAsked DEF Summed
<1>9. Opened(g, B)'
  <2>1. Opened(h, A) /\ B[Len(h) + 1] = asked /\ \A n \in 1..Len(h) : g[n] = h[n] /\ B[n] = A[n]
    BY <1>1, <1>2, <1>6 DEF Summed
  <2> QED
    BY <2>1, EnterOpened
<1>10. PICK K, W, V : K = UNION {A[n] : n \in 1..N} /\ W = Owners(h, A) /\ V = Owners(g, B)
  OBVIOUS
<1>11. Grows(W, V, K, asked, c.process_id)
  BY <1>1, <1>2, <1>6, <1>10, OwnersGrow
<1>12. SeenRight(d, K)
  <2>1. SeenRight(D[Len(h)], AskedBy(A, Len(h)))
    BY <1>1, <1>2, SummedSeen
  <2>2. K = AskedBy(A, N)
    BY <1>10 DEF AskedBy
  <2> QED
    BY <1>1, <2>1, <2>2
<1>13. SumsBy(r, V)'
  <2>1. /\ WorldInv /\ FirstInv /\ SumsBy(d, W) /\ Called(c.event, asked, d)
    BY <1>1, <1>10 DEF BaseInv, AskInv, Summed
  <2>2. CASE c.event.op # "RENAME"
    BY <1>3, <1>4, <1>11, <1>12, <2>1, <2>2, AskSums
  <2>3. CASE c.event.op = "RENAME"
    BY <1>3, <1>4, <1>11, <2>1, <2>3, RenameSums
  <2> QED
    BY <2>2, <2>3
<1>14. SumsBy(E[Len(g)], Owners(g, B))'
  BY <1>2, <1>4, <1>10, <1>13
<1>15. Summed(g, E, Y, B)'
  BY <1>5, <1>8, <1>9, <1>14 DEF Summed
<1>16. CopiesOdd(g)'
  <2> SUFFICES ASSUME NEW n \in 1..N + 1, g[n].event.op = "RENAME", Copied(n)'
               PROVE  g[n].event.from \notin Fine'
    BY <1>2 DEF CopiesOdd
  <2>1. Copied(n) /\ n # N + 1
    BY <1>1
  <2>2. n \in 1..N
    BY <1>2, <2>1
  <2>3. g[n].event.from \notin Fine
    BY <1>1, <1>2, <2>1, <2>2 DEF AskInv, CopiesOdd
  <2> QED
    BY <2>3, FineShrinks DEF Called
<1> QED
  BY <1>15, <1>16 DEF AskInv, Called

\* A step that moves no file and makes no call.
LEMMA SumsStay ==
    ASSUME NEW h, NEW D, NEW Z, NEW A, Summed(h, D, Z, A), FirstInv,
           odd \subseteq odd', UNCHANGED <<place, first>>, Opened(h, A)'
    PROVE  Summed(h, D, Z, A)' /\ FirstInv'
<1>1. Fine' \subseteq Fine /\ Object' = Object
  BY FineShrinks DEF Object
<1>2. \A x, z : Home(x, z) => Home(x, z)'
  BY <1>1 DEF Home
<1>3. RootsHome(h, D, Z)'
  BY <1>1, <1>2 DEF Summed, RootsHome
<1>4. AskedRight(h, D, Z, A)'
  BY <1>1 DEF Summed, AskedRight
<1>5. \A p : Clear(p)' => Clear(p)
  BY <1>1 DEF Clear
<1>6. SumsBy(D[Len(h)], Owners(h, A))'
  BY <1>5 DEF Summed, SumsBy, SumAt
<1>7. FirstInv'
  BY <1>1 DEF FirstInv
<1> QED
  BY <1>3, <1>4, <1>6, <1>7 DEF Summed

LEMMA AskStays ==
    ASSUME NEW h, NEW D, AskInv(h, D), odd \subseteq odd', UNCHANGED <<place, first>>,
           UNCHANGED <<subject, opener, unstamped, clock>>,
           \A n \in 1..Len(h) : h[n].event.op = "RENAME" /\ Copied(n)' =>
              Copied(n) \/ h[n].event.from \notin Fine'
    PROVE  AskInv(h, D)'
<1>1. PICK Z, A : Summed(h, D, Z, A)
  BY DEF AskInv
<1>2. Opened(h, A)'
  BY <1>1 DEF Summed, Opened
<1>3. Summed(h, D, Z, A)' /\ FirstInv'
  BY <1>1, <1>2, SumsStay DEF AskInv
<1>4. CopiesOdd(h)'
  BY FineShrinks DEF AskInv, CopiesOdd
<1> QED
  BY <1>3, <1>4 DEF AskInv

\* The call i places after the stamped ones is put next to them.
Shifted(g, h, m, i) ==
    \A n \in 1..Len(h) : g[n] = IF n = m + 1 THEN h[m + i]
                                ELSE IF n > m + 1 /\ n <= m + i THEN h[n - 1] ELSE h[n]

LEMMA StampOpened ==
    ASSUME BaseInv, NEW h, HistoryInv(h), NEW A, Opened(h, A), NEW t \in Thread, Stamp(t),
           NEW i \in DOMAIN unstamped, unstamped[i] = t, unstamped' = RemoveAt(unstamped, i),
           NEW g, Shifted(g, h, clock, i), NEW B,
           \A n \in 1..Len(h) : B[n] = IF n = clock + 1 THEN A[clock + i]
                                       ELSE IF n > clock + 1 /\ n <= clock + i THEN A[n - 1] ELSE A[n]
    PROVE  Opened(g, B)'
<1>1. PICK m, U, s : m = clock /\ U = Len(unstamped) /\ s = unstamped
  OBVIOUS
<1>2. /\ m \in Nat /\ s \in Seq(Thread) /\ U = Len(s) /\ U \in Nat /\ i \in 1..U
      /\ Len(h) = m + U /\ DOMAIN s = 1..U /\ \A j, k \in 1..U : s[j] = s[k] => j = k
  BY <1>1 DEF BaseInv, ThreadInv, HistoryInv
<1>3. /\ clock' = m + 1 /\ subject' = [subject EXCEPT ![t] = {}]
      /\ opener' = [o \in DOMAIN opener \cup subject[t] |-> At(opener, o, Id(t))]
  BY <1>1 DEF Stamp
<1>4. /\ unstamped' \in Seq(Thread) /\ Len(unstamped') = U - 1 /\ DOMAIN unstamped' = 1..U - 1
      /\ \A j \in 1..U - 1 : unstamped'[j] = IF j < i THEN s[j] ELSE s[j + 1]
  <2>1. /\ RemoveAt(s, i) \in Seq(Thread) /\ Len(RemoveAt(s, i)) = Len(s) - 1
        /\ \A j \in 1..Len(s) - 1 : RemoveAt(s, i)[j] = IF j < i THEN s[j] ELSE s[j + 1]
    <3>1. s \in Seq(Thread) /\ i \in DOMAIN s
      BY <1>2
    <3> QED
      BY <3>1, RemoveAtIs
  <2> QED
    BY <1>1, <1>2, <2>1
<1>5. /\ DOMAIN subject = Thread
      /\ \A j \in 1..U : A[m + j] = subject[s[j]]
      /\ \A o : o \in DOMAIN opener <=> \E n \in 1..m : o \in A[n]
      /\ \A o \in DOMAIN opener : \E n : Foremost(A, m, o, n) /\ opener[o] = h[n].process_id
  BY <1>1, <1>2 DEF Opened
<1>6. DOMAIN subject' = Thread /\ \A u \in Thread : u # t => subject'[u] = subject[u]
  BY <1>3, <1>5
<1>7. \A n \in 1..m + U : /\ B[n] = IF n = m + 1 THEN A[m + i]
                                    ELSE IF n > m + 1 /\ n <= m + i THEN A[n - 1] ELSE A[n]
                          /\ g[n] = IF n = m + 1 THEN h[m + i]
                                    ELSE IF n > m + 1 /\ n <= m + i THEN h[n - 1] ELSE h[n]
  BY <1>1, <1>2 DEF Shifted
<1>8. ASSUME NEW j \in 1..U - 1 PROVE B[m + 1 + j] = subject'[unstamped'[j]]
  <2>1. m + 1 + j \in 1..m + U /\ m + 1 + j > m + 1 /\ (m + 1 + j) - 1 = m + j /\ m + 1 + j = m + (j + 1)
    BY <1>2
  <2>2. CASE j < i
    <3>1. B[m + 1 + j] = A[m + j]
      BY <1>2, <1>7, <2>1, <2>2
    <3>2. unstamped'[j] = s[j] /\ s[j] # t /\ s[j] \in Thread /\ j \in 1..U
      BY <1>1, <1>2, <1>4, <2>2
    <3> QED
      BY <1>5, <1>6, <3>1, <3>2
  <2>3. CASE ~(j < i)
    <3>1. B[m + 1 + j] = A[m + (j + 1)]
      BY <1>2, <1>7, <2>1, <2>3
    <3>2. unstamped'[j] = s[j + 1] /\ s[j + 1] # t /\ s[j + 1] \in Thread /\ j + 1 \in 1..U
      BY <1>1, <1>2, <1>4, <2>3
    <3> QED
      BY <1>5, <1>6, <3>1, <3>2
  <2> QED
    BY <2>2, <2>3
<1>9. B[m + 1] = subject[t] /\ g[m + 1].process_id = Id(t)
  <2>1. m + 1 \in 1..m + U /\ s[i] = t /\ i \in DOMAIN unstamped
    BY <1>1, <1>2
  <2>2. h[clock + i] = [process_id |-> Id(unstamped[i]), event |-> pending[unstamped[i]]]
    BY DEF HistoryInv
  <2>3. h[m + i].process_id = Id(t)
    BY <1>1, <2>2
  <2> QED
    BY <1>2, <1>5, <1>7, <2>1, <2>3
<1>10. \A n \in 1..m : B[n] = A[n] /\ g[n] = h[n]
  <2> SUFFICES ASSUME NEW n \in 1..m PROVE B[n] = A[n] /\ g[n] = h[n]
    OBVIOUS
  <2>1. n \in 1..m + U /\ n # m + 1 /\ ~(n > m + 1)
    BY <1>2
  <2> QED
    BY <1>7, <2>1
<1>11. /\ \A n \in 1..m + 1 : n \in 1..m \/ n = m + 1
       /\ m + 1 \in 1..m + 1 /\ m + 1 <= m + 1 /\ \A n \in 1..m : n \in 1..m + 1 /\ n <= m + 1
  BY <1>2
<1>12. \A o : o \in DOMAIN opener' <=> \E n \in 1..m + 1 : o \in B[n]
  BY <1>3, <1>5, <1>9, <1>10, <1>11
<1>13. ASSUME NEW o \in DOMAIN opener' PROVE \E n : Foremost(B, m + 1, o, n) /\ opener'[o] = g[n].process_id
  <2>1. CASE o \in DOMAIN opener
    <3>1. PICK n : Foremost(A, m, o, n) /\ opener[o] = h[n].process_id
      BY <1>5, <2>1
    <3>2. n \in 1..m /\ g[n] = h[n]
      BY <1>10, <3>1 DEF Foremost
    <3>3. Foremost(B, m + 1, o, n)
      BY <1>10, <1>11, <3>1, <3>2 DEF Foremost
    <3> QED
      BY <1>3, <2>1, <3>1, <3>2, <3>3 DEF At
  <2>2. CASE o \notin DOMAIN opener
    <3>1. o \in B[m + 1] /\ \A n \in 1..m : o \notin B[n]
      BY <1>3, <1>5, <1>9, <1>10, <2>2
    <3>2. Foremost(B, m + 1, o, m + 1)
      BY <1>11, <3>1 DEF Foremost
    <3>3. opener'[o] = Id(t)
      BY <1>3, <2>2 DEF At
    <3> QED
      BY <1>9, <3>2, <3>3
  <2> QED
    BY <2>1, <2>2
<1>14. \A j \in DOMAIN unstamped' : B[clock' + j] = subject'[unstamped'[j]]
  BY <1>3, <1>4, <1>8
<1>15. \A o \in DOMAIN opener' : \E n : Foremost(B, clock', o, n) /\ opener'[o] = g[n].process_id
  BY <1>3, <1>13

<1> QED
  BY <1>3, <1>6, <1>12, <1>14, <1>15 DEF Opened, Foremost

\* What StampLate has: the calls after the m-th, of h and of g, are of strings
\* of M, which are not fine.
Reordered(h, D, g, E, m, i, M) ==
    /\ g \in Seq(Calls) /\ Len(g) = Len(h) /\ i \in 1..Len(h) - m /\ Shifted(g, h, m, i)
    /\ M \subseteq String /\ Begins(g, h, m) /\ Within(h, m, M) /\ Within(g, m, M)
    /\ Runs(h, D) /\ Runs(g, E) /\ SameTo(E, D, m)

LEMMA HomeAlso ==
    ASSUME odd \subseteq odd', UNCHANGED <<place, first>>, NEW x, NEW z, NEW y, Home(x, z),
           z = y \/ z \notin Fine'
    PROVE  Home(x, y)'
<1>1. PICK o \in Object : first[o] = x /\ (place[o] \in Fine => place[o] = z)
  BY DEF Home
<1>2. Object' = Object /\ Fine' \subseteq Fine
  BY FineShrinks DEF Object
<1>3. place'[o] \in Fine' => place'[o] = y
  BY <1>1, <1>2
<1> QED
  BY <1>1, <1>2, <1>3 DEF Home

LEMMA LateRoots ==
    ASSUME odd \subseteq odd', UNCHANGED <<place, first>>, NEW h, NEW D, NEW g, NEW E, NEW m, NEW i,
           NEW M, Reordered(h, D, g, E, m, i, M), M \cap Fine' = {},
           NEW Z, Ends(h, Z), NEW Y, Ends(g, Y), RootsHome(h, D, Z)
    PROVE  RootsHome(g, E, Y)'
<1>1. PICK N : N = Len(h)
  OBVIOUS
<1>2. /\ h \in Seq(Calls) /\ g \in Seq(Calls) /\ Len(g) = N /\ N \in Nat /\ m \in Nat /\ m <= N
      /\ \A n \in 1..m : g[n] = h[n]
      /\ \A n \in 0..m : E[n] = D[n]
      /\ \A n \in 1..N : n > m => Strings(g[n].event) \subseteq M
  BY <1>1 DEF Reordered, Begins, SameTo, Within
<1>3. \A n \in 0..m : \A p \in String : Y[n][p] = Z[n][p] \/ (Y[n][p] \in M /\ Z[n][p] \in M)
  BY EndsBoth DEF Reordered
<1>4. \A n \in m..N : \A p \in String : IF p \in M THEN Y[n][p] \in M ELSE Y[n][p] = p
  BY <1>2, EndsWithin DEF Reordered
<1>5. m \in m..N /\ m \in 0..N
  BY <1>2
<1>6. \A p \in String : IF p \in M THEN Z[m][p] \in M ELSE Z[m][p] = p
  BY <1>1, <1>5, EndsWithin DEF Reordered
<1>7. M \subseteq String
  BY DEF Reordered
<1>8. ASSUME NEW n \in m..N
      PROVE  /\ \A p : p \notin M => Root(E[n], p) = Root(D[m], p)
             /\ \A p \in M : Root(E[n], p) \in M \cup {Root(D[m], q) : q \in M}
  <2>1. E[m] = D[m]
    BY <1>2
  <2>2. n \in m..Len(g) /\ Runs(g, E) /\ Within(g, m, M)
    BY <1>2 DEF Reordered
  <2>3. /\ \A p : p \notin M => Root(E[n], p) = Root(E[m], p)
        /\ \A p \in M : Root(E[n], p) \in M \cup {Root(E[m], q) : q \in M}
    BY <2>2, RunWithin
  <2> QED
    BY <2>1, <2>3
<1>9. /\ \A n \in 0..N : \A p \in String : Root(D[n], p) \in Fine \ {p} => Home(Root(D[n], p), Z[n][p])
      /\ \A n \in 1..N : \A p \in Asks(h[n].event) :
            Root(D[n - 1], p) \in Fine => Home(Root(D[n - 1], p), Z[n][p])
  BY <1>1 DEF RootsHome
<1>10. Fine' \subseteq Fine
  BY FineShrinks
<1>11. \A n \in 1..N : n \in m + 1..N \/ (n \in 1..m /\ n \in 0..m /\ n - 1 \in 0..m)
  BY <1>2
\* What a string of M leads to is the first path of no file that is still fine.
<1>12. ASSUME NEW n \in m..N, NEW p \in M, Root(E[n], p) \in Fine', NEW y
       PROVE  Home(Root(E[n], p), y)'
  <2>1. PICK x : x = Root(E[n], p)
    OBVIOUS
  <2>2. x \notin M /\ x \in Fine
    BY <1>10, <1>12, <2>1
  <2>3. PICK q \in M : x = Root(D[m], q)
    BY <1>8, <2>1, <2>2
  <2>4. x # q /\ q \in String
    BY <1>7, <2>2
  <2>5. PICK z : z = Z[m][q]
    OBVIOUS
  <2>6. Home(x, z)
    BY <1>5, <1>9, <2>2, <2>3, <2>4, <2>5
  <2>7. z \notin Fine'
    BY <1>6, <2>4, <2>5
  <2>8. Home(x, y)'
    BY <2>6, <2>7, HomeAlso
  <2> QED
    BY <2>1, <2>8
<1>13. ASSUME NEW n \in 0..N, NEW p \in String, Root(E[n], p) \in Fine' \ {p}
       PROVE  Home(Root(E[n], p), Y[n][p])'
  <2>1. PICK x, y : x = Root(E[n], p) /\ y = Y[n][p]
    OBVIOUS
  <2>2. x \in Fine \ {p}
    BY <1>10, <1>13, <2>1
  <2>3. CASE n \in 0..m
    <3>1. PICK z : z = Z[n][p]
      OBVIOUS
    <3>2. Home(x, z)
      BY <1>2, <1>9, <2>1, <2>2, <2>3, <3>1
    <3>3. z = y \/ z \notin Fine'
      BY <1>3, <2>1, <2>3, <3>1
    <3>4. Home(x, y)'
      BY <3>2, <3>3, HomeAlso
    <3> QED
      BY <2>1, <3>4
  <2>4. CASE n \in m..N /\ p \notin M
    <3>1. PICK z : z = Z[m][p]
      OBVIOUS
    <3>2. x = Root(D[m], p) /\ z = y
      BY <1>4, <1>6, <1>8, <2>1, <2>4, <3>1
    <3>3. Home(x, z)
      BY <1>5, <1>9, <2>2, <3>1, <3>2
    <3>4. Home(x, y)'
      BY <3>2, <3>3, HomeAlso
    <3> QED
      BY <2>1, <3>4
  <2>5. CASE n \in m..N /\ p \in M
    BY <1>12, <1>13, <2>5
  <2>6. n \in 0..m \/ n \in m..N
    BY <1>2
  <2> QED
    BY <2>3, <2>4, <2>5, <2>6
<1>14. ASSUME NEW n \in 1..N, NEW p \in Asks(g[n].event), Root(E[n - 1], p) \in Fine'
       PROVE  Home(Root(E[n - 1], p), Y[n][p])'
  <2>1. PICK x, y : x = Root(E[n - 1], p) /\ y = Y[n][p]
    OBVIOUS
  <2>2. g[n] \in Calls /\ p \in String /\ p \in Strings(g[n].event)
    <3>1. g[n] \in Calls
      BY <1>2
    <3>2. PICK c : c = g[n]
      OBVIOUS
    <3> QED
      BY <1>14, <3>1, <3>2, AsksAre
  <2>3. CASE n \in 1..m
    <3>1. PICK z : z = Z[n][p]
      OBVIOUS
    <3>2. n \in 0..m /\ n - 1 \in 0..m
      BY <1>2, <2>3
    <3>3. Home(x, z)
      BY <1>2, <1>9, <1>10, <1>14, <2>1, <2>3, <3>1, <3>2
    <3>4. z = y \/ z \notin Fine'
      BY <1>3, <2>1, <2>2, <3>1, <3>2
    <3>5. Home(x, y)'
      BY <3>3, <3>4, HomeAlso
    <3> QED
      BY <2>1, <3>5
  <2>4. CASE ~(n \in 1..m)
    <3>1. n > m /\ n - 1 \in m..N
      BY <1>2, <2>4
    <3>2. p \in M
      BY <1>2, <2>2, <3>1
    <3> QED
      BY <1>12, <1>14, <3>1, <3>2
  <2> QED
    BY <2>3, <2>4
<1> QED
  BY <1>2, <1>13, <1>14 DEF RootsHome

LEMMA LateAsks ==
    ASSUME odd \subseteq odd', UNCHANGED <<place, first>>, NEW h, NEW D, NEW g, NEW E, NEW m, NEW i,
           NEW M, Reordered(h, D, g, E, m, i, M), M \cap Fine' = {},
           NEW Z, Ends(h, Z), NEW Y, Ends(g, Y), NEW A, AskedRight(h, D, Z, A),
           NEW B, \A n \in 1..m : B[n] = A[n],
           \A n \in 1..Len(h) : n > m => \E k \in 1..Len(h) : k > m /\ B[n] = A[k]
    PROVE  /\ AskedRight(g, E, Y, B)'
           /\ \A n \in 1..Len(h) : n > m => \A o : place[o] \in Fine' => o \notin A[n] /\ o \notin B[n]
<1>1. PICK N : N = Len(h)
  OBVIOUS
<1>2. /\ h \in Seq(Calls) /\ g \in Seq(Calls) /\ Len(g) = N /\ N \in Nat /\ m \in Nat /\ m <= N
      /\ \A n \in 1..m : g[n] = h[n]
      /\ \A n \in 0..m : E[n] = D[n]
      /\ \A n \in 1..N : n > m => Strings(g[n].event) \subseteq M /\ Strings(h[n].event) \subseteq M
  BY <1>1 DEF Reordered, Begins, SameTo, Within
<1>3. \A n \in 0..m : \A p \in String : Y[n][p] = Z[n][p] \/ (Y[n][p] \in M /\ Z[n][p] \in M)
  BY EndsBoth DEF Reordered
<1>4. \A n \in m..N : \A p \in String : p \in M => Y[n][p] \in M /\ Z[n][p] \in M
  <2>1. \A n \in m..N : \A p \in String : p \in M => Y[n][p] \in M
    BY <1>2, EndsWithin DEF Reordered
  <2>2. \A n \in m..N : \A p \in String : p \in M => Z[n][p] \in M
    BY <1>1, EndsWithin DEF Reordered
  <2> QED
    BY <2>1, <2>2
<1>5. \A n \in 1..N :
        /\ A[n] \subseteq Object
        /\ \A p \in Asks(h[n].event) : Z[n][p] \in Fine =>
              \E o \in A[n] : place[o] = Z[n][p] /\ first[o] = Root(D[n - 1], p)
        /\ \A o \in A[n] : place[o] \in Fine => \E p \in Asks(h[n].event) : Z[n][p] = place[o]
  BY <1>1 DEF AskedRight
<1>6. Fine' \subseteq Fine /\ Object' = Object
  BY FineShrinks DEF Object
<1>7. ASSUME NEW n \in 1..N
      PROVE  /\ \A p \in Asks(h[n].event) : p \in String /\ (n > m => p \in M)
             /\ \A p \in Asks(g[n].event) : p \in String /\ (n > m => p \in M)
  <2>1. PICK c, b : c = h[n] /\ b = g[n]
    OBVIOUS
  <2>2. c \in Calls /\ b \in Calls
    BY <1>1, <1>2, <2>1
  <2>3. Asks(c.event) \subseteq Strings(c.event) /\ Asks(b.event) \subseteq Strings(b.event)
        /\ Strings(c.event) \subseteq String /\ Strings(b.event) \subseteq String
    BY <2>2, AsksAre
  <2> QED
    BY <1>2, <2>1, <2>3
<1>8. ASSUME NEW n \in 1..N, n > m, NEW o \in A[n] PROVE place[o] \notin Fine'
  <2> SUFFICES ASSUME place[o] \in Fine' PROVE FALSE
    OBVIOUS
  <2>1. PICK p \in Asks(h[n].event) : Z[n][p] = place[o]
    BY <1>5, <1>6
  <2>2. n \in m..N
    BY <1>2, <1>8
  <2>3. Z[n][p] \in M
    BY <1>4, <1>7, <1>8, <2>2
  <2> QED
    BY <2>1, <2>3
<1>9. ASSUME NEW n \in 1..N, n > m, NEW o \in B[n] PROVE place[o] \notin Fine'
  BY <1>1, <1>8, <1>9
<1> DEFINE Right(n) ==
             /\ B[n] \subseteq Object
             /\ \A p \in Asks(g[n].event) : Y[n][p] \in Fine' =>
                   \E o \in B[n] : place[o] = Y[n][p] /\ first[o] = Root(E[n - 1], p)
             /\ \A o \in B[n] : place[o] \in Fine' => \E p \in Asks(g[n].event) : Y[n][p] = place[o]
<1>10. ASSUME NEW n \in 1..N, n > m PROVE Right(n)
  <2>1. \A p \in Asks(g[n].event) : Y[n][p] \notin Fine'
    <3> SUFFICES ASSUME NEW p \in Asks(g[n].event) PROVE Y[n][p] \notin Fine'
      OBVIOUS
    <3>1. n \in m..N
      BY <1>2, <1>10
    <3>2. Y[n][p] \in M
      BY <1>4, <1>7, <1>10, <3>1
    <3> QED
      BY <3>2
  <2>2. B[n] \subseteq Object
    BY <1>1, <1>5, <1>10
  <2> QED
    BY <1>9, <1>10, <2>1, <2>2
<1>11. ASSUME NEW n \in 1..m PROVE Right(n)
  <2>1. n \in 1..N /\ n \in 0..m /\ n - 1 \in 0..m
    BY <1>2
  <2>2. g[n] = h[n] /\ B[n] = A[n] /\ E[n - 1] = D[n - 1]
    BY <1>2, <2>1
  <2>3. \A p \in Asks(h[n].event) : Y[n][p] = Z[n][p] \/ (Y[n][p] \notin Fine' /\ Z[n][p] \notin Fine')
    BY <1>3, <1>7, <2>1
  <2>4. /\ A[n] \subseteq Object
        /\ \A p \in Asks(h[n].event) : Z[n][p] \in Fine' =>
              \E o \in A[n] : place[o] = Z[n][p] /\ first[o] = Root(D[n - 1], p)
        /\ \A o \in A[n] : place[o] \in Fine' => \E p \in Asks(h[n].event) : Z[n][p] = place[o]
    BY <1>5, <1>6, <2>1
  <2>5. \A o \in B[n] : place[o] \in Fine' => \E p \in Asks(g[n].event) : Y[n][p] = place[o]
    <3> SUFFICES ASSUME NEW o \in A[n], place[o] \in Fine' PROVE \E p \in Asks(h[n].event) : Y[n][p] = place[o]
      BY <2>2
    <3>1. PICK p \in Asks(h[n].event) : Z[n][p] = place[o]
      BY <2>4
    <3> QED
      BY <2>3, <3>1
  <2>6. \A p \in Asks(g[n].event) : Y[n][p] \in Fine' =>
           \E o \in B[n] : place[o] = Y[n][p] /\ first[o] = Root(E[n - 1], p)
    <3> SUFFICES ASSUME NEW p \in Asks(h[n].event), Y[n][p] \in Fine'
                 PROVE  \E o \in A[n] : place[o] = Y[n][p] /\ first[o] = Root(D[n - 1], p)
      BY <2>2
    <3>1. Y[n][p] = Z[n][p]
      BY <2>3
    <3> QED
      BY <2>4, <3>1
  <2> QED
    BY <2>2, <2>4, <2>5, <2>6
<1> HIDE DEF Right
<1>12. \A n \in 1..N : Right(n)
  <2>1. \A n \in 1..N : n \in 1..m \/ n > m
    BY <1>2
  <2> QED
    BY <1>10, <1>11, <2>1
<1>13. AskedRight(g, E, Y, B)'
  BY <1>2, <1>6, <1>12 DEF AskedRight, Right
<1> QED
  BY <1>1, <1>8, <1>9, <1>13

LEMMA LateSums ==
    ASSUME odd \subseteq odd', UNCHANGED <<place, first>>, NEW h, NEW D, NEW g, NEW E, NEW m, NEW i,
           NEW M, Reordered(h, D, g, E, m, i, M), M \cap Fine' = {}, NEW A, NEW B,
           \A n \in 1..m : B[n] = A[n],
           \A n \in 1..Len(h) : n > m => \A o : place[o] \in Fine' => o \notin A[n] /\ o \notin B[n],
           SumsBy(D[Len(h)], Owners(h, A))
    PROVE  SumsBy(E[Len(g)], Owners(g, B))'
<1>1. PICK N, W, V, d, r : /\ N = Len(h) /\ W = Owners(h, A) /\ V = Owners(g, B)
                           /\ d = D[N] /\ r = E[N]
  OBVIOUS
<1>2. /\ Len(g) = N /\ N \in Nat /\ m \in Nat /\ m <= N
      /\ \A n \in 1..m : g[n] = h[n]
      /\ E[m] = D[m]
  BY <1>1 DEF Reordered, Begins, SameTo
<1>3. \A p : p \notin M => \A j : Checksum(r, j, p) = Checksum(d, j, p)
  <2>1. N \in m..N
    BY <1>2
  <2>2. \A p : p \notin M => \A j : Checksum(r, j, p) = Checksum(E[m], j, p)
    BY <1>1, <1>2, <2>1, RunWithin DEF Reordered
  <2>3. \A p : p \notin M => \A j : Checksum(d, j, p) = Checksum(D[m], j, p)
    BY <1>1, <2>1, RunWithin DEF Reordered
  <2> QED
    BY <1>2, <2>2, <2>3
<1>4. ASSUME NEW o \in Original, place[o] \in Fine' PROVE V[o] = W[o]
  <2>1. /\ \A x : x \in W[o] <=> \E k : Foremost(A, N, o, k) /\ x = h[k].process_id
        /\ \A x : x \in V[o] <=> \E k : Foremost(B, N, o, k) /\ x = g[k].process_id
    BY <1>1, <1>2, OwnersAre
  <2>2. \A n \in 1..N : n \in 1..m \/ n > m
    BY <1>2
  <2>3. \A n \in 1..N : o \in A[n] <=> o \in B[n]
    BY <1>1, <1>4, <2>2
  <2>4. \A k : Foremost(A, N, o, k) <=> Foremost(B, N, o, k)
    BY <2>3 DEF Foremost
  <2>5. \A k : Foremost(A, N, o, k) => g[k] = h[k]
    BY <1>1, <1>2, <1>4, <2>2 DEF Foremost
  <2>6. \A x : x \in V[o] <=> x \in W[o]
    BY <2>1, <2>4, <2>5
  <2> QED
    BY <2>6
<1>5. Object' = Object /\ Fine' \subseteq Fine
  BY FineShrinks DEF Object
<1> SUFFICES ASSUME NEW p, Clear(p)', NEW j PROVE SumAt(r, V, p, j)'
  BY <1>1, <1>2 DEF SumsBy
<1>6. p \in Fine' /\ Clear(p)
  BY <1>5 DEF Clear
<1>7. SumAt(d, W, p, j)
  BY <1>1, <1>6 DEF SumsBy
<1>8. Checksum(r, j, p) = Checksum(d, j, p)
  BY <1>3, <1>6
<1> QED
  BY <1>4, <1>6, <1>7, <1>8, SumStays

LEMMA LateAsked ==
    ASSUME BaseInv, NEW h, HistoryInv(h), NEW D, AskInv(h, D), NEW t \in Thread, Stamp(t),
           NEW i \in DOMAIN unstamped, unstamped[i] = t, unstamped' = RemoveAt(unstamped, i),
           NEW g, NEW E, NEW M, Reordered(h, D, g, E, clock, i, M), M \cap Fine' = {},
           odd \subseteq odd', UNCHANGED <<place, first>>, \A n : Copied(n)' => Copied(n)
    PROVE  AskInv(g, E)'
<1>1. PICK Z, A, m, N : Summed(h, D, Z, A) /\ m = clock /\ N = Len(h)
  BY DEF AskInv
<1>2. /\ h \in Seq(Calls) /\ g \in Seq(Calls) /\ Len(g) = N /\ N \in Nat /\ m \in Nat /\ m <= N
      /\ i \in 1..N - m
      /\ \A n \in 1..m : g[n] = h[n]
      /\ \A n \in 1..N : n > m => Strings(g[n].event) \subseteq M
  BY <1>1 DEF Reordered, Begins, Within
<1>3. PICK Y : Ends(g, Y)
  BY <1>2, EndsExist
<1> DEFINE B == [n \in 1..N |-> IF n = m + 1 THEN A[m + i]
                                ELSE IF n > m + 1 /\ n <= m + i THEN A[n - 1] ELSE A[n]]
<1>4. \A n \in 1..N : B[n] = IF n = m + 1 THEN A[m + i]
                             ELSE IF n > m + 1 /\ n <= m + i THEN A[n - 1] ELSE A[n]
  OBVIOUS
<1> HIDE DEF B
<1>5. \A n \in 1..m : B[n] = A[n]
  <2> SUFFICES ASSUME NEW n \in 1..m PROVE B[n] = A[n]
    OBVIOUS
  <2>1. n \in 1..N /\ n # m + 1 /\ ~(n > m + 1)
    BY <1>2
  <2> QED
    BY <1>4, <2>1
<1>6. ASSUME NEW n \in 1..N, n > m PROVE \E k \in 1..N : k > m /\ B[n] = A[k]
  <2>1. m + i \in 1..N /\ m + i > m
    BY <1>2
  <2>2. n > m + 1 => n - 1 \in 1..N /\ n - 1 > m
    BY <1>2
  <2> QED
    BY <1>4, <1>6, <2>1, <2>2
<1>7. Opened(g, B)'
  <2>1. Shifted(g, h, clock, i) /\ Opened(h, A)
    BY <1>1 DEF Reordered, Summed
  <2> QED
    BY <1>1, <1>4, <2>1, StampOpened
<1>8. Reordered(h, D, g, E, m, i, M) /\ Ends(h, Z) /\ RootsHome(h, D, Z) /\ AskedRight(h, D, Z, A)
      /\ SumsBy(D[N], Owners(h, A))
  BY <1>1 DEF Summed
<1>9. RootsHome(g, E, Y)'
  BY <1>3, <1>8, LateRoots
<1>10. /\ AskedRight(g, E, Y, B)'
       /\ \A n \in 1..N : n > m => \A o : place[o] \in Fine' => o \notin A[n] /\ o \notin B[n]
  BY <1>1, <1>3, <1>5, <1>6, <1>8, LateAsks
<1>11. SumsBy(E[Len(g)], Owners(g, B))'
  BY <1>1, <1>5, <1>8, <1>10, LateSums
<1>12. Summed(g, E, Y, B)'
  BY <1>3, <1>7, <1>9, <1>10, <1>11 DEF Summed
<1>13. FirstInv'
  BY DEF AskInv, FirstInv, Object
<1>14. CopiesOdd(g)'
  <2> SUFFICES ASSUME NEW n \in 1..N, g[n].event.op = "RENAME", Copied(n)'
               PROVE  g[n].event.from \notin Fine'
    BY <1>2 DEF CopiesOdd
  <2>1. CASE n \in 1..m
    <3>1. g[n] = h[n] /\ n \in 1..Len(h)
      BY <1>1, <1>2, <2>1
    <3>2. h[n].event.from \notin Fine
      BY <3>1 DEF AskInv, CopiesOdd
    <3> QED
      BY <3>1, <3>2, FineShrinks
  <2>2. CASE ~(n \in 1..m)
    <3>1. n > m
      BY <1>2, <2>2
    <3>2. g[n].event.from \in Strings(g[n].event)
      BY DEF Strings, Accesses
    <3> QED
      BY <1>2, <3>1, <3>2
  <2> QED
    BY <2>1, <2>2
<1> QED
  BY <1>12, <1>13, <1>14 DEF AskInv
-----------------------------------------------------------------------------
(* Every step keeps a history whose results are true.  From a path that is *)
(* odd, renames lead to odd paths; only there a copy of a rename can do    *)
(* harm: taken again, it finds no first path.                              *)

Taints(h, C) ==
    /\ \A n \in 0..Len(h) : C[n] \subseteq Bad
    /\ \A n \in 1..Len(h) : C[n - 1] \subseteq C[n]
    /\ \A n \in 1..Len(h) : h[n].event.op = "RENAME" /\ h[n].event.to \in Path =>
          /\ h[n].event.from \notin Path \/ h[n].event.from \in C[n - 1] => h[n].event.to \in C[n]
          /\ Copied(n) => h[n].event.to \in C[n]

TraceInv ==
    /\ OnceInv /\ PlaceInv
    /\ \E h, D, C : HistoryInv(h) /\ Runs(h, D) /\ Truth(D[Len(h)]) /\ Taints(h, C)
                 /\ AskInv(h, D)

LEMMA BadGrows == ASSUME odd \subseteq odd' PROVE Bad \subseteq Bad'
  BY DEF Bad, Plain

LEMMA TruthStays ==
    ASSUME WorldInv, PlaceInv, NEW d, Truth(d), odd \subseteq odd',
           UNCHANGED <<place, first, alive, did, renamed>>
    PROVE  PlaceInv' /\ Truth(d)'
<1>1. OddNow({}) /\ AlikeBut(d, d, {})
  BY DEF OddNow, AlikeBut
<1> QED
  BY <1>1, OddTruth

LEMMA TaintsStay ==
    ASSUME NEW h, NEW C, Taints(h, C), odd \subseteq odd', \A n : Copied(n)' => Copied(n)
    PROVE  Taints(h, C)'
  BY BadGrows DEF Taints

LEMMA PathsAre ==
    ASSUME NEW e \in Formed, NEW p \in Path, p \in Strings(e)
    PROVE  /\ p \in PathsOf(e)
           /\ \A n \in Nat : p \in PathsOf(Event(e, 2 * n))
<1>1. PICK field \in {"path", "from", "to"} \cap DOMAIN e : e[field] = p
  <2>1. \/ e.op \in Accesses /\ "path" \in DOMAIN e
        \/ e.op \in Twos /\ "from" \in DOMAIN e /\ "to" \in DOMAIN e
    BY DEF Formed
  <2>2. \A op \in Accesses : op \notin Twos
    BY DEF Accesses, Twos
  <2> QED
    BY <2>1, <2>2 DEF Strings
<1>2. p \in Spelled(p)
  BY DEF Spelled
<1>3. ASSUME NEW n \in Nat PROVE p \in PathsOf(Event(e, 2 * n))
  <2>1. e \in Operation /\ 2 * n \in Nat
    BY DEF Formed
  <2>2. field \in DOMAIN Event(e, 2 * n) /\ Event(e, 2 * n)[field] = p
    BY <1>1, <2>1, EventIs
  <2> QED
    BY <1>1, <1>2, <2>2 DEF PathsOf
<1> QED
  BY <1>1, <1>2, <1>3 DEF PathsOf

LEMMA TraceInit == ASSUME Init PROVE TraceInv
<1> DEFINE h == << >>
           D == [n \in {0} |-> Nothing]
           C == [n \in {0} |-> {}]
<1>1. /\ Len(h) = 0 /\ h \in Seq(Calls) /\ D[0] = Nothing /\ C[0] = {}
  OBVIOUS
<1>2. /\ log = [p \in Proc |-> << >>] /\ clock = 0 /\ unstamped = << >>
      /\ pending = [t \in Thread |-> NoCall]
      /\ place = Originals /\ first = Originals /\ did = {} /\ renamed = {} /\ odd = {}
  BY DEF Init, Originals
<1>3. (\A p \in Proc : Ranks(log[p]) = {}) /\ \A t \in Thread : ~Unlogged(t)
  BY <1>2 DEF Ranks, Unlogged
<1> HIDE DEF h, D, C
<1>4. HistoryInv(h)
  BY <1>1, <1>2, <1>3 DEF HistoryInv
<1>5. Runs(h, D)
  BY <1>1 DEF Runs
<1>6. Taints(h, C)
  BY <1>1 DEF Taints
<1>7. OnceInv
  BY <1>2, <1>3 DEF OnceInv
<1>8. PlaceInv
  BY <1>2 DEF PlaceInv, Object, Originals
<1>9. Truth(Nothing)
  <2>1. Known(Nothing, 0) = {} /\ \A i, p : Marks(Nothing, i, p) = {}
    <3>1. \A i : Known(Nothing, i) = {}
      BY NothingIs DEF Known
    <3> QED
      BY <3>1, OperationsAre
  <2>2. \A p : Root(Nothing, p) = p
    BY NothingIs DEF Root, At, Nothing
  <2> QED
    BY <1>2, <2>1, <2>2 DEF Truth, FoundBy, TrueBy, RootsBy
<1>10. AskInv(h, D)
  <2>1. /\ DOMAIN subject = Thread /\ unstamped = << >> /\ clock = 0 /\ opener = << >>
        /\ Object = Original /\ \A o \in Original : first[o] = o
    BY <1>2 DEF Init, Object, Originals
  <2>2. PICK Z : Ends(h, Z)
    BY <1>1, EndsExist
  <2>3. PICK A : A = << >>
    OBVIOUS
  <2>4. \A p : Root(Nothing, p) = p
    BY NothingIs DEF Root, At, Nothing
  <2>5. \A j, p : Checksum(Nothing, j, p) = NoChecksum
    <3>1. \A j : Known(Nothing, j) = {}
      BY NothingIs DEF Known
    <3> QED
      BY <3>1, OperationsAre
  <2>6. RootsHome(h, D, Z) /\ AskedRight(h, D, Z, A)
    BY <1>1, <2>4 DEF RootsHome, AskedRight
  <2>7. Opened(h, A)
    BY <2>1 DEF Opened
  <2>8. \A o \in Original : \A i : i \notin Owners(h, A)[o]
    BY <1>1, OwnersAre DEF Foremost
  <2>9. SumsBy(Nothing, Owners(h, A))
    BY <2>5, <2>8 DEF SumsBy, SumAt
  <2>10. Summed(h, D, Z, A)
    BY <1>1, <2>2, <2>6, <2>7, <2>9 DEF Summed
  <2>11. FirstInv /\ CopiesOdd(h)
    BY <1>1, <2>1 DEF FirstInv, CopiesOdd
  <2> QED
    BY <2>10, <2>11 DEF AskInv
<1> QED
  BY <1>1, <1>4, <1>5, <1>6, <1>7, <1>8, <1>9, <1>10 DEF TraceInv

LEMMA TraceCall ==
    ASSUME BaseInv, TraceInv, NEW t \in Thread, Call(t)
    PROVE  TraceInv'
<1>1. PICK h, D, C : HistoryInv(h) /\ Runs(h, D) /\ Truth(D[Len(h)]) /\ Taints(h, C)
                     /\ AskInv(h, D)
  BY DEF TraceInv
<1> DEFINE N == Len(h)
<1>2. /\ h \in Seq(Calls) /\ N \in Nat /\ clock \in Nat /\ unstamped \in Seq(Thread)
      /\ N = clock + Len(unstamped)
  BY <1>1 DEF HistoryInv, BaseInv, ThreadInv
<1>3. PICK d : d = D[N]
  OBVIOUS
<1>4. DataShape(d) /\ Truth(d)
  BY <1>1, <1>2, <1>3, RunShapes
<1>5. PICK e, asked, r : /\ Enter(t, e, asked) /\ Shown(t, e, d, r, Bad, Bad')
                         /\ PlaceInv' /\ Truth(r)'
  BY <1>4, CallTruth DEF BaseInv, TraceInv
<1> DEFINE c == [process_id |-> Id(t), event |-> e]
           g == Append(h, c)
<1>6. c \in Calls /\ e \in Formed
  BY <1>5, IdsAre DEF Shown, Calls
<1>7. HistoryInv(g)' /\ OnceInv' /\ \A n : Copied(n)' => Copied(n)
  BY <1>1, <1>5, <1>6, EnterHistory DEF BaseInv, TraceInv
<1>8. /\ g \in Seq(Calls) /\ Len(g) = N + 1 /\ g[N + 1] = c
      /\ \A n \in 1..N : g[n] = h[n]
  BY <1>2, <1>6
<1>9. c.event = e
  OBVIOUS
<1> HIDE DEF g, c
<1>10. PICK E : Runs(g, E) /\ SameTo(E, D, N)
  <2>1. Begins(g, h, N)
    BY <1>2, <1>8 DEF Begins
  <2> QED
    BY <1>1, <2>1, RunFrom
<1>11. E[Len(g)] = r
  <2>1. N + 1 \in 1..Len(g) /\ N \in 0..N /\ (N + 1) - 1 = N
    BY <1>2, <1>8
  <2>2. E[N + 1] = Processed(E[N], Originals, c) /\ E[N] = d
    BY <1>3, <1>8, <1>10, <2>1 DEF Runs, SameTo
  <2> QED
    BY <1>5, <1>8, <2>2 DEF Shown, After, c
<1>12. Truth(E[Len(g)])'
  BY <1>5, <1>11
<1>13. PICK B : B = Bad'
  OBVIOUS
<1>15. ~Copied(N + 1)
  <2>1. \A k \in 1..clock : 2 * k # 2 * (N + 1)
    <3>1. Len(unstamped) \in Nat
      BY <1>2
    <3> QED
      BY <1>2, <3>1
  <2>2. \A p \in Proc : \A k \in Ranks(log[p]) : \E j \in 1..clock : log[p][k].ts = 2 * j
    BY <1>1, <1>2, StampsAre
  <2> QED
    BY <2>1, <2>2 DEF Copied
<1>16. AskInv(g, E)'
  <2>1. PICK e2, asked2 : Enter(t, e2, asked2) /\ Called(e2, asked2, d)
    BY <1>1, <1>4, CallCalled DEF BaseInv, TraceInv, AskInv
  <2>2. e2 = c.event
    <3>1. pending' = [pending EXCEPT ![t] = e] /\ pending' = [pending EXCEPT ![t] = e2]
      BY <1>5, <2>1 DEF Enter, MayCall
    <3>2. t \in DOMAIN pending
      BY DEF BaseInv, ThreadInv
    <3> QED
      BY <1>9, <3>1, <3>2
  <2>3. Enter(t, c.event, asked2) /\ Called(c.event, asked2, D[Len(h)]) /\ c \in Calls
    BY <1>3, <1>6, <2>1, <2>2
  <2>4. PlaceInv /\ PlaceInv' /\ Runs(g, E) /\ SameTo(E, D, Len(h)) /\ ~Copied(Len(h) + 1)
        /\ (\A n : Copied(n)' => Copied(n)) /\ g = Append(h, c)
    BY <1>5, <1>7, <1>10, <1>15 DEF TraceInv, g
  <2> QED
    BY <1>1, <2>3, <2>4, EnterAsked
<1> DEFINE K == [n \in 0..N + 1 |-> IF n = N + 1 THEN B ELSE C[n]]
<1>14. Taints(g, K)'
  <2>1. Bad \subseteq B
    BY <1>13, BadGrows, CallEnters DEF BaseInv
  <2>2. /\ K[N + 1] = B /\ \A n \in 0..N : K[n] = C[n]
    BY <1>2
  <2>3. /\ \A n \in 0..N + 1 : n \in 0..N \/ n = N + 1
        /\ \A n \in 1..N + 1 : n \in 1..N \/ n = N + 1
        /\ \A n \in 1..N : n \in 0..N /\ n - 1 \in 0..N
        /\ (N + 1) - 1 = N /\ N \in 0..N
    BY <1>2
  <2> HIDE DEF K, N
  <2>4. \A n \in 0..Len(g) : K[n] \subseteq B
    BY <1>1, <1>8, <2>1, <2>2, <2>3 DEF Taints, N
  <2>5. C[N] \subseteq B
    BY <1>1, <2>1, <2>3 DEF Taints, N
  <2>6. \A n \in 1..Len(g) : K[n - 1] \subseteq K[n]
    BY <1>1, <1>8, <2>2, <2>3, <2>5 DEF Taints, N
  <2>7. ASSUME NEW n \in 1..Len(g), g[n].event.op = "RENAME", g[n].event.to \in Path
        PROVE  /\ g[n].event.from \notin Path \/ g[n].event.from \in K[n - 1] => g[n].event.to \in K[n]
               /\ Copied(n)' => g[n].event.to \in K[n]
    <3>1. CASE n \in 1..N
      BY <1>1, <1>7, <1>8, <2>2, <2>3, <2>7, <3>1 DEF Taints, N
    <3>2. CASE n = N + 1
      <4>1. e.op = "RENAME" /\ e.to \in Path /\ g[n].event = e
        BY <1>8, <1>9, <2>7, <3>2
      <4>2. e.from \notin Path \/ e.from \in C[N] => e.to \in B
        BY <1>1, <1>5, <1>13, <2>3, <4>1 DEF Shown, RenameOdd, Taints, N
      <4>3. ~Copied(n)
        BY <1>15, <3>2
      <4> QED
        BY <1>7, <2>2, <2>3, <3>2, <4>1, <4>2, <4>3
    <3> QED
      BY <1>8, <2>3, <2>7, <3>1, <3>2
  <2> QED
    BY <1>13, <2>4, <2>6, <2>7 DEF Taints
<1> QED
  BY <1>5, <1>7, <1>10, <1>12, <1>14, <1>16 DEF TraceInv

\* A step that only stamps, queues or copies what has been done.
LEMMA TraceStays ==
    ASSUME BaseInv, TraceInv, NEW h, NEW D, NEW C, Runs(h, D), Truth(D[Len(h)]),
           HistoryInv(h)', OnceInv', OddNow({}), Taints(h, C)', AskInv(h, D)'
    PROVE  TraceInv'
<1>1. PICK d : d = D[Len(h)]
  OBVIOUS
<1>2. PlaceInv' /\ Truth(d)'
  <2>1. odd \subseteq odd' /\ UNCHANGED <<place, first, alive, did, renamed>>
    BY DEF OddNow
  <2>2. WorldInv /\ PlaceInv /\ Truth(d)
    BY <1>1 DEF BaseInv, TraceInv
  <2> QED
    BY <2>1, <2>2, TruthStays
<1>3. Truth(D[Len(h)])'
  BY <1>1, <1>2
<1> QED
  BY <1>2, <1>3 DEF TraceInv

LEMMA TraceQueue ==
    ASSUME BaseInv, TraceInv, NEW t \in Thread, Queue(t)
    PROVE  TraceInv'
<1>1. PICK h, D, C : HistoryInv(h) /\ Runs(h, D) /\ Truth(D[Len(h)]) /\ Taints(h, C)
                     /\ AskInv(h, D)
  BY DEF TraceInv
<1>2. HistoryInv(h)' /\ OnceInv' /\ \A n : Copied(n)' => Copied(n)
  BY <1>1, QueueHistory DEF BaseInv, TraceInv
<1>3. odd \subseteq odd' /\ OddNow({})
  BY DEF Queue, OddNow, world
<1>4. Taints(h, C)'
  BY <1>1, <1>2, <1>3, TaintsStay
<1>5. AskInv(h, D)'
  <2>1. UNCHANGED <<place, first>> /\ UNCHANGED <<subject, opener, unstamped, clock>>
    BY DEF Queue, world
  <2> QED
    BY <1>1, <1>2, <1>3, <2>1, AskStays
<1> QED
  BY <1>1, <1>2, <1>3, <1>4, <1>5, TraceStays

\* When a call that was made first is stamped first, nothing is late.
LEMMA StampInOrder ==
    ASSUME BaseInv, TraceInv, NEW t \in Thread, Stamp(t), unstamped[1] = t,
           unstamped' = RemoveAt(unstamped, 1), 1 \in DOMAIN unstamped
    PROVE  TraceInv'
<1>1. PICK h, D, C : HistoryInv(h) /\ Runs(h, D) /\ Truth(D[Len(h)]) /\ Taints(h, C)
                     /\ AskInv(h, D)
  BY DEF TraceInv
<1>2. PICK now : now = clock
  OBVIOUS
<1>3. HistoryInv(Ahead(h, now, 1))' /\ OnceInv' /\ \A n : Copied(n)' => Copied(n)
  BY <1>1, <1>2, StampHistory DEF BaseInv, TraceInv
<1>4. Ahead(h, now, 1) = h
  <2>1. /\ h \in Seq(Calls) /\ Len(h) = now + Len(unstamped) /\ now \in Nat
        /\ unstamped \in Seq(Thread) /\ Len(unstamped) >= 1 /\ Len(unstamped) \in Nat
    BY <1>1, <1>2 DEF HistoryInv, BaseInv, ThreadInv
  <2>2. 1 \in 1..Len(h) - now
    BY <2>1
  <2>3. /\ Ahead(h, now, 1) \in Seq(Calls) /\ Len(Ahead(h, now, 1)) = Len(h)
        /\ \A n \in 1..Len(h) : Ahead(h, now, 1)[n] =
              IF n = now + 1 THEN h[now + 1]
              ELSE IF n > now + 1 /\ n <= now + 1 THEN h[n - 1] ELSE h[n]
    BY <2>1, <2>2, AheadIs
  <2>4. \A n \in 1..Len(h) : Ahead(h, now, 1)[n] = h[n]
    BY <2>1, <2>3
  <2> QED
    BY <2>1, <2>3, <2>4, SeqEqual
<1>5. odd' = odd /\ OddNow({})
  <2>1. Head(unstamped) = t
    BY DEF BaseInv, ThreadInv
  <2> QED
    BY <2>1 DEF Stamp, OddNow, world
<1>6. Taints(h, C)'
  BY <1>1, <1>3, <1>5, TaintsStay
<1>7. HistoryInv(h)'
  BY <1>3, <1>4
<1>8. AskInv(h, D)'
  <2>1. PICK Z, A : Summed(h, D, Z, A)
    BY <1>1 DEF AskInv
  <2>2. /\ Len(h) = clock + Len(unstamped) /\ clock \in Nat /\ Len(unstamped) \in Nat
    BY <1>1 DEF HistoryInv, BaseInv, ThreadInv
  <2>3. \A n \in 1..Len(h) : ~(n > clock + 1 /\ n <= clock + 1)
    BY <2>2
  <2>4. Shifted(h, h, clock, 1)
    BY <2>3 DEF Shifted
  <2>5. Opened(h, A)'
    BY <1>1, <2>1, <2>3, <2>4, StampOpened DEF Summed
  <2>6. odd \subseteq odd' /\ UNCHANGED <<place, first>>
    BY <1>5 DEF OddNow
  <2>7. Summed(h, D, Z, A)' /\ FirstInv'
    BY <1>1, <2>1, <2>5, <2>6, SumsStay DEF AskInv
  <2>8. CopiesOdd(h)'
    BY <1>1, <1>3, <2>6, FineShrinks DEF AskInv, CopiesOdd
  <2> QED
    BY <2>7, <2>8 DEF AskInv
<1> QED
  BY <1>1, <1>3, <1>5, <1>6, <1>7, <1>8, TraceStays

\* The strings of the calls that had no stamp.
LEMMA LatePaths ==
    ASSUME ThreadInv, NEW h, HistoryInv(h), NEW now, now = clock, NEW n \in 1..Len(h), n > now,
           NEW p \in Path, p \in Strings(h[n].event)
    PROVE  p \in UNION {PathsOf(pending[u]) : u \in ToSet(unstamped)}
<1>1. /\ h \in Seq(Calls) /\ Len(h) = now + Len(unstamped) /\ now \in Nat
      /\ unstamped \in Seq(Thread) /\ Len(unstamped) \in Nat /\ DOMAIN unstamped = 1..Len(unstamped)
  BY DEF HistoryInv, ThreadInv
<1>2. n - now \in DOMAIN unstamped /\ now + (n - now) = n
  BY <1>1
<1> DEFINE u == unstamped[n - now]
<1>3. h[n].event = pending[u] /\ u \in ToSet(unstamped)
  <2>1. h[clock + (n - now)] = [process_id |-> Id(u), event |-> pending[u]]
    BY <1>2 DEF HistoryInv
  <2>2. h[n].event = pending[u]
    BY <1>2, <2>1
  <2> QED
    BY <1>2, <2>2 DEF ToSet
<1>4. h[n].event \in Formed
  <2>1. h[n] \in Calls
    BY <1>1
  <2> QED
    BY <2>1 DEF Calls
<1>5. p \in PathsOf(h[n].event)
  BY <1>4, PathsAre
<1> QED
  BY <1>3, <1>5

LEMMA StampLate ==
    ASSUME BaseInv, TraceInv, NEW t \in Thread, Stamp(t), NEW i \in DOMAIN unstamped, i # 1,
           unstamped[i] = t, unstamped' = RemoveAt(unstamped, i)
    PROVE  TraceInv'
<1>1. PICK h, D, C : HistoryInv(h) /\ Runs(h, D) /\ Truth(D[Len(h)]) /\ Taints(h, C)
                     /\ AskInv(h, D)
  BY DEF TraceInv
<1>2. PICK now : now = clock
  OBVIOUS
<1>3. PICK L : L = UNION {PathsOf(pending[u]) : u \in ToSet(unstamped)}
  OBVIOUS
<1>4. PICK N, g : N = Len(h) /\ g = Ahead(h, now, i)
  OBVIOUS
<1>5. /\ h \in Seq(Calls) /\ N = now + Len(unstamped) /\ now \in Nat /\ N \in Nat /\ now <= N
      /\ unstamped \in Seq(Thread) /\ Len(unstamped) \in Nat /\ i \in 1..Len(unstamped)
      /\ \A j, k \in 1..Len(unstamped) : unstamped[j] = unstamped[k] => j = k
  BY <1>1, <1>2, <1>4 DEF HistoryInv, BaseInv, ThreadInv
<1>6. HistoryInv(g)' /\ OnceInv' /\ \A n : Copied(n)' => Copied(n)
  BY <1>1, <1>2, <1>4, StampHistory DEF BaseInv, TraceInv
<1>7. /\ g \in Seq(Calls) /\ Len(g) = N
      /\ \A n \in 1..N : g[n] = IF n = now + 1 THEN h[now + i]
                                ELSE IF n > now + 1 /\ n <= now + i THEN h[n - 1] ELSE h[n]
  <2>1. i \in 1..Len(h) - now /\ h \in Seq(Calls) /\ now \in Nat
    BY <1>4, <1>5
  <2>2. /\ Ahead(h, now, i) \in Seq(Calls) /\ Len(Ahead(h, now, i)) = Len(h)
        /\ \A n \in 1..Len(h) : Ahead(h, now, i)[n] =
              IF n = now + 1 THEN h[now + i]
              ELSE IF n > now + 1 /\ n <= now + i THEN h[n - 1] ELSE h[n]
    BY <2>1, AheadIs
  <2> QED
    BY <1>4, <2>2
<1>8. odd' = odd \cup Odd("late", L) /\ UNCHANGED <<place, first, alive, did, renamed>>
  <2>1. Head(unstamped) # t
    <3>1. 1 \in 1..Len(unstamped) /\ Head(unstamped) = unstamped[1]
      BY <1>5
    <3> QED
      BY <1>5, <3>1
  <2> QED
    BY <1>3, <2>1 DEF Stamp, world
\* The calls that had no stamp are in another order; all their paths are late.
<1>9. \A n \in 1..N : n > now => \E k \in 1..N : k > now /\ g[n] = h[k]
  <2> SUFFICES ASSUME NEW n \in 1..N, n > now PROVE \E k \in 1..N : k > now /\ g[n] = h[k]
    OBVIOUS
  <2>1. now + i \in 1..N /\ now + i > now
    BY <1>5
  <2>2. n > now + 1 => n - 1 \in 1..N /\ n - 1 > now
    BY <1>5
  <2> QED
    BY <1>7, <2>1, <2>2
<1>10. Begins(g, h, now)
  <2>1. \A n \in 1..now : n \in 1..N /\ ~(n = now + 1) /\ ~(n > now + 1)
    BY <1>5
  <2>2. \A n \in 1..now : g[n] = h[n]
    BY <1>7, <2>1
  <2> QED
    BY <1>4, <1>5, <1>7, <2>2 DEF Begins
<1>11. PICK E : Runs(g, E) /\ SameTo(E, D, now)
  BY <1>1, <1>10, RunFrom
<1>12. PICK M : M = UNION {Strings(h[n].event) : n \in {k \in 1..N : k > now}}
  OBVIOUS
<1>13. M \cap Path \subseteq L
  <2> SUFFICES ASSUME NEW n \in 1..N, n > now, NEW p \in Path, p \in Strings(h[n].event)
               PROVE  p \in L
    BY <1>12
  <2> QED
    BY <1>1, <1>2, <1>3, <1>4, LatePaths DEF BaseInv
<1>14. (\A n \in 1..N : n > now => Strings(h[n].event) \subseteq M)
       /\ \A n \in 1..N : n > now => Strings(g[n].event) \subseteq M
  BY <1>9, <1>12
<1>15. AlikeBut(E[N], D[N], L)
  <2>1. E[now] = D[now]
    BY <1>5, <1>11 DEF SameTo
  <2>2. \A p : p \notin M => /\ \A j : Marks(D[N], j, p) = Marks(D[now], j, p)
                             /\ Root(D[N], p) = Root(D[now], p)
    <3>1. Within(h, now, M)
      BY <1>4, <1>5, <1>14 DEF Within
    <3> QED
      BY <1>1, <1>4, <3>1, RunOutside
  <2>3. \A p : p \notin M => /\ \A j : Marks(E[N], j, p) = Marks(E[now], j, p)
                             /\ Root(E[N], p) = Root(E[now], p)
    <3>1. Within(g, now, M)
      BY <1>5, <1>7, <1>14 DEF Within
    <3> QED
      BY <1>7, <1>11, <3>1, RunOutside
  <2> QED
    BY <1>13, <2>1, <2>2, <2>3 DEF AlikeBut
<1>16. OddNow(L)
  BY <1>8 DEF OddNow, Odd
<1>17. PlaceInv' /\ Truth(E[Len(g)])'
  <2>1. PICK d, r : d = D[N] /\ r = E[N]
    OBVIOUS
  <2>2. WorldInv /\ PlaceInv /\ Truth(d) /\ AlikeBut(r, d, L)
    BY <1>1, <1>4, <1>15, <2>1 DEF BaseInv, TraceInv
  <2>3. PlaceInv' /\ Truth(r)'
    BY <1>16, <2>2, OddTruth
  <2> QED
    BY <1>7, <2>1, <2>3
<1>20. AskInv(g, E)'
  <2>1. M \subseteq String
    <3> SUFFICES ASSUME NEW n \in 1..N PROVE Strings(h[n].event) \subseteq String
      BY <1>12
    <3>1. PICK c : c = h[n]
      OBVIOUS
    <3>2. c \in Calls
      <4>1. h \in Seq(Calls) /\ n \in 1..Len(h)
        BY <1>4, <1>5
      <4> QED
        BY <3>1, <4>1
    <3> QED
      BY <3>1, <3>2, AsksAre
  <2>2. M \cap Fine' = {}
    <3>1. \A p \in L : <<"late", p>> \in odd'
      BY <1>8 DEF Odd
    <3>2. \A p \in Fine' : p \in Path /\ <<"late", p>> \notin odd'
      BY DEF Fine, Plain, Oddities
    <3> QED
      BY <1>13, <3>1, <3>2
  <2>3. Within(h, now, M) /\ Within(g, now, M)
    BY <1>4, <1>5, <1>7, <1>14 DEF Within
  <2>4. Shifted(g, h, now, i) /\ i \in 1..Len(h) - now
    BY <1>4, <1>5, <1>7 DEF Shifted
  <2>5. Reordered(h, D, g, E, clock, i, M)
    BY <1>1, <1>2, <1>4, <1>7, <1>10, <1>11, <2>1, <2>3, <2>4 DEF Reordered
  <2>6. odd \subseteq odd' /\ UNCHANGED <<place, first>> /\ \A n : Copied(n)' => Copied(n)
    BY <1>6, <1>8
  <2> QED
    BY <1>1, <2>2, <2>5, <2>6, LateAsked
<1>18. PICK B : B = Bad'
  OBVIOUS
<1> DEFINE K == [n \in 0..N |-> IF n > now THEN B ELSE C[n]]
<1>19. Taints(g, K)'
  <2>1. \A n \in 0..N : K[n] = IF n > now THEN B ELSE C[n]
    OBVIOUS
  <2> HIDE DEF K
  <2>2. Bad \subseteq B /\ \A n \in 0..N : C[n] \subseteq Bad
    BY <1>1, <1>4, <1>8, <1>18, BadGrows DEF Taints
  <2>3. \A n \in 0..N : K[n] \subseteq B
    BY <2>1, <2>2
  <2>4. \A n \in 1..N : n \in 0..N /\ n - 1 \in 0..N /\ (~(n > now) => ~(n - 1 > now))
    BY <1>5
  <2>5. \A n \in 1..N : K[n - 1] \subseteq K[n]
    <3>1. \A n \in 1..N : C[n - 1] \subseteq C[n]
      BY <1>1, <1>4 DEF Taints
    <3> QED
      BY <2>1, <2>3, <2>4, <3>1
  <2>6. ASSUME NEW n \in 1..N, g[n].event.op = "RENAME", g[n].event.to \in Path
        PROVE  /\ g[n].event.from \notin Path \/ g[n].event.from \in K[n - 1] => g[n].event.to \in K[n]
               /\ Copied(n)' => g[n].event.to \in K[n]
    <3>1. CASE n > now
      <4>1. g[n].event.to \in Strings(g[n].event)
        BY <2>6 DEF Strings, Accesses
      <4>2. g[n].event.to \in L
        BY <1>13, <1>14, <2>6, <3>1, <4>1
      <4>3. g[n].event.to \in B
        BY <1>8, <1>18, <2>6, <4>2, OdditiesAre DEF Bad, Plain, Odd
      <4> QED
        BY <2>1, <2>4, <3>1, <4>3
    <3>2. CASE ~(n > now)
      <4>1. g[n] = h[n] /\ K[n] = C[n] /\ K[n - 1] = C[n - 1]
        <5>1. n \in 1..now
          BY <1>5, <3>2
        <5> QED
          BY <1>10, <2>1, <2>4, <3>2, <5>1 DEF Begins
      <4> QED
        BY <1>1, <1>4, <1>6, <2>6, <4>1 DEF Taints
    <3> QED
      BY <3>1, <3>2
  <2> QED
    BY <1>7, <1>18, <2>3, <2>5, <2>6 DEF Taints
<1> QED
  BY <1>6, <1>11, <1>17, <1>19, <1>20 DEF TraceInv

\* Led finds every rename there was.
LEMMA RenameThere ==
    ASSUME ThreadInv, LogInv, NEW h, HistoryInv(h), NEW n \in 1..Len(h), h[n].event.op = "RENAME"
    PROVE  \E x \in Renames : x.from = h[n].event.from /\ x.to = h[n].event.to
<1>1. /\ h \in Seq(Calls) /\ Len(h) = clock + Len(unstamped) /\ clock \in Nat /\ n \in Nat
      /\ unstamped \in Seq(Thread) /\ Len(unstamped) \in Nat /\ DOMAIN unstamped = 1..Len(unstamped)
  BY DEF HistoryInv, ThreadInv
<1> DEFINE c == h[n]
<1>2. c \in Calls
  BY <1>1
<1>3. c.event.op = "RENAME"
  OBVIOUS
<1>4. c.event \in Operation
  BY <1>2, CallsAre
<1> HIDE DEF c
<1>5. ASSUME NEW x, x = Event(c.event, 2 * n)
      PROVE  x.op = "RENAME" /\ x.from = c.event.from /\ x.to = c.event.to
  <2> DEFINE y == [process_id |-> c.process_id, event |-> x]
  <2>1. y.process_id = c.process_id /\ y.event = x
    OBVIOUS
  <2> HIDE DEF y
  <2>2. Alike(y, c)
    BY <1>1, <1>2, <1>5, <2>1, CallIs
  <2> QED
    BY <1>3, <2>1, <2>2 DEF Alike, Twos
<1>6. \A k \in 1..clock : 2 * k = 2 * n => k = n
  BY <1>1
<1>7. CASE n \in 1..clock
  <2>1. CASE \E t \in Thread : Unlogged(t) /\ pending[t].ts = 2 * n
    <3>1. PICK t \in Thread : Unlogged(t) /\ pending[t].ts = 2 * n
      BY <2>1
    <3>2. Is(h, n, Id(t), pending[t])
      <4>1. \E k \in 1..clock : Is(h, k, Id(t), pending[t]) /\ pending[t].ts = 2 * k
        BY <1>1, <3>1, StampsAre
      <4> QED
        BY <1>6, <3>1, <4>1
    <3>3. pending[t].op = "RENAME" /\ pending[t].from = c.event.from /\ pending[t].to = c.event.to
      BY <1>5, <3>2 DEF Is, c
    <3>4. pending[t] \in Renames
      BY <3>1, <3>3 DEF Renames, RenamesOf, Unlogged
    <3> QED
      BY <3>3, <3>4 DEF c
  <2>2. CASE \E p \in Proc : \E k \in Ranks(log[p]) : log[p][k].ts = 2 * n
    <3>0. PICK p \in Proc : \E k \in Ranks(log[p]) : log[p][k].ts = 2 * n
      BY <2>2
    <3>1. PICK k \in Ranks(log[p]) : log[p][k].ts = 2 * n
      BY <3>0
    <3>2. Is(h, n, IdOf[p], log[p][k])
      <4>1. \E j \in 1..clock : Is(h, j, IdOf[p], log[p][k]) /\ log[p][k].ts = 2 * j
        BY <1>1, StampsAre
      <4> QED
        BY <1>6, <3>1, <4>1
    <3>3. log[p][k].op = "RENAME" /\ log[p][k].from = c.event.from /\ log[p][k].to = c.event.to
      BY <1>5, <3>2 DEF Is, c
    <3>4. log[p][k] \in ToSet(log[p])
      BY DEF Ranks, ToSet
    <3>5. log[p][k] \in Renames
      BY <3>3, <3>4 DEF Renames, RenamesOf
    <3> QED
      BY <3>3, <3>5 DEF c
  <2> QED
    BY <1>7, <2>1, <2>2 DEF HistoryInv
<1>8. CASE n \notin 1..clock
  <2>1. n - clock \in DOMAIN unstamped /\ clock + (n - clock) = n
    BY <1>1, <1>8
  <2> DEFINE t == unstamped[n - clock]
  <2>2. h[clock + (n - clock)] = [process_id |-> Id(t), event |-> pending[t]] /\ t \in Thread
    <3>1. h[clock + (n - clock)] = [process_id |-> Id(t), event |-> pending[t]]
      BY <2>1 DEF HistoryInv
    <3>2. t \in Thread
      BY <1>1, <2>1
    <3> QED
      BY <3>1, <3>2
  <2>3. c.event = pending[t]
    BY <2>1, <2>2 DEF c
  <2>4. pending[t] # NoCall
    BY <1>4, <2>3, OperationIs
  <2>5. pending[t] \in Renames
    BY <1>3, <2>2, <2>3, <2>4 DEF Renames, RenamesOf
  <2> QED
    BY <2>3, <2>5 DEF c
<1> QED
  BY <1>7, <1>8

LEMMA LedIs ==
    ASSUME NEW paths
    PROVE  /\ Led(paths) \subseteq Path /\ paths \cap Path \subseteq Led(paths)
           /\ \A e \in Renames : e.from \in Led(paths) /\ e.to \in Path => e.to \in Led(paths)
  BY DEF Led

LEMMA TraceFork ==
    ASSUME BaseInv, TraceInv, NEW p \in Proc, NEW c \in Proc, Fork(p, c)
    PROVE  TraceInv'
<1>1. PICK h, D, C : HistoryInv(h) /\ Runs(h, D) /\ Truth(D[Len(h)]) /\ Taints(h, C)
                     /\ AskInv(h, D)
  BY DEF TraceInv
<1>2. PICK P, L : /\ P = UNION {PathsOf(e) : e \in RenamesOf(ToSet(log[p]))}
                  /\ L = Led(P)
  OBVIOUS
<1>3. /\ odd' = odd \cup Odd("copied", L) /\ UNCHANGED <<place, first, alive, did, renamed>>
  BY <1>2 DEF Fork, world
<1>4. /\ HistoryInv(h)' /\ OnceInv'
      /\ \A n : Copied(n)' => Copied(n) \/ \E k \in Ranks(log[p]) : log[p][k].ts = 2 * n
  BY <1>1, ForkHistory DEF BaseInv, TraceInv
<1>5. odd \subseteq odd' /\ OddNow({})
  BY <1>3 DEF OddNow
<1>6. PICK N : N = Len(h)
  OBVIOUS
<1>7. h \in Seq(Calls) /\ N \in Nat /\ clock \in Nat
  BY <1>1, <1>6 DEF HistoryInv, BaseInv, ThreadInv
<1>8. PICK B : B = Bad'
  OBVIOUS
<1> DEFINE K == [n \in 0..N |-> C[n] \cup L]
<1>9. \A n \in 0..N : K[n] = C[n] \cup L
  OBVIOUS
<1> HIDE DEF K
<1>10. P \subseteq Path /\ P \subseteq L /\ L \subseteq Path
  BY <1>2, LedIs DEF PathsOf
<1>11. \A n \in 1..N : h[n].event.op = "RENAME" /\ h[n].event.to \in Path /\ h[n].event.from \in L
                         => h[n].event.to \in L
  BY <1>1, <1>2, <1>6, RenameThere, LedIs DEF BaseInv
<1>12. ASSUME NEW n \in 1..N, h[n].event.op = "RENAME",
              \E k \in Ranks(log[p]) : log[p][k].ts = 2 * n
       PROVE  {h[n].event.from, h[n].event.to} \cap Path \subseteq L
  <2>1. PICK k \in Ranks(log[p]) : log[p][k].ts = 2 * n
    BY <1>12
  <2>2. log[p][k] = Event(h[n].event, 2 * n)
    <3>1. PICK j \in 1..clock : Is(h, j, IdOf[p], log[p][k]) /\ log[p][k].ts = 2 * j
      BY <1>1, <1>7, StampsAre
    <3>2. j = n
      BY <1>7, <2>1, <3>1
    <3> QED
      BY <3>1, <3>2 DEF Is
  <2>3. h[n] \in Calls
    BY <1>6, <1>7
  <2> DEFINE e == h[n].event
  <2>4. e \in Formed /\ e \in Operation /\ e.op = "RENAME"
    BY <1>12, <2>3, CallsAre DEF Calls
  <2> HIDE DEF e
  <2>5. Strings(e) = {e.from, e.to}
    BY <2>4 DEF Strings, Accesses
  <2>6. n \in Nat /\ 2 * n \in Nat
    BY <1>7
  <2>7. {e.from, e.to} \cap Path \subseteq PathsOf(Event(e, 2 * n))
    BY <2>4, <2>5, <2>6, PathsAre
  <2>8. Event(e, 2 * n).op = "RENAME"
    BY <2>4, <2>6, EventIs
  <2>9. Event(e, 2 * n) \in ToSet(log[p])
    BY <2>2 DEF Ranks, ToSet, e
  <2>10. {e.from, e.to} \cap Path \subseteq P
    BY <1>2, <2>7, <2>8, <2>9 DEF RenamesOf
  <2> QED
    BY <1>10, <2>10 DEF e
<1>13. Taints(h, K)'
  <2>1. Bad \subseteq B /\ L \subseteq B
    BY <1>3, <1>5, <1>8, <1>10, BadGrows, OdditiesAre DEF Bad, Plain, Odd
  <2>2. \A n \in 0..N : C[n] \subseteq Bad
    BY <1>1, <1>6 DEF Taints
  <2>3. \A n \in 0..N : K[n] \subseteq B
    BY <1>9, <2>1, <2>2
  <2>4. \A n \in 1..N : n \in 0..N /\ n - 1 \in 0..N
    BY <1>7
  <2>5. \A n \in 1..N : K[n - 1] \subseteq K[n]
    <3>1. \A n \in 1..N : C[n - 1] \subseteq C[n]
      BY <1>1, <1>6 DEF Taints
    <3> QED
      BY <1>9, <2>4, <3>1
  <2>6. ASSUME NEW n \in 1..N, h[n].event.op = "RENAME", h[n].event.to \in Path
        PROVE  /\ h[n].event.from \notin Path \/ h[n].event.from \in K[n - 1] => h[n].event.to \in K[n]
               /\ Copied(n)' => h[n].event.to \in K[n]
    <3>1. /\ h[n].event.from \notin Path \/ h[n].event.from \in C[n - 1] => h[n].event.to \in C[n]
          /\ Copied(n) => h[n].event.to \in C[n]
      BY <1>1, <1>6, <2>6 DEF Taints
    <3>2. K[n] = C[n] \cup L /\ K[n - 1] = C[n - 1] \cup L
      BY <1>9, <2>4
    <3>3. h[n].event.from \in L => h[n].event.to \in L
      BY <1>11, <2>6
    <3>4. Copied(n)' => Copied(n) \/ h[n].event.to \in L
      BY <1>4, <1>12, <2>6
    <3> QED
      BY <3>1, <3>2, <3>3, <3>4
  <2> QED
    BY <1>6, <1>8, <2>3, <2>5, <2>6 DEF Taints
<1>14. AskInv(h, D)'
  <2>1. UNCHANGED <<subject, opener, unstamped, clock>>
    BY DEF Fork
  <2>2. \A q \in L : q \notin Fine'
    BY <1>3 DEF Odd, Fine, Plain, Oddities
  <2>3. \A q \in Fine' : q \in Path
    BY DEF Fine
  <2>4. ASSUME NEW n \in 1..Len(h), h[n].event.op = "RENAME", Copied(n)'
        PROVE  Copied(n) \/ h[n].event.from \notin Fine'
    BY <1>4, <1>6, <1>12, <2>2, <2>3, <2>4
  <2> QED
    BY <1>1, <1>3, <1>5, <2>1, <2>4, AskStays
<1> QED
  BY <1>1, <1>4, <1>5, <1>13, <1>14, TraceStays

LEMMA TraceStep == ASSUME BaseInv, TraceInv, [Next]_vars PROVE TraceInv'
<1>1. ASSUME NEW t \in Thread, Stamp(t) PROVE TraceInv'
  <2>1. PICK i \in DOMAIN unstamped : unstamped[i] = t /\ unstamped' = RemoveAt(unstamped, i)
    BY <1>1 DEF Stamp
  <2>2. CASE i = 1
    BY <1>1, <2>1, <2>2, StampInOrder
  <2>3. CASE i # 1
    BY <1>1, <2>1, <2>3, StampLate
  <2> QED
    BY <2>2, <2>3
<1>2. CASE UNCHANGED vars
  <2>1. PICK h, D, C : HistoryInv(h) /\ Runs(h, D) /\ Truth(D[Len(h)]) /\ Taints(h, C)
                       /\ AskInv(h, D)
    BY DEF TraceInv
  <2>2. /\ UNCHANGED <<place, first, alive, log, pending, unstamped, clock, born>>
        /\ UNCHANGED <<did, renamed, odd>>
    BY <1>2 DEF vars, world, observers
  <2>3. \A u : Unlogged(u)' <=> Unlogged(u)
    BY <2>2 DEF Unlogged, Waiting
  <2>4. HistoryInv(h)'
    BY <2>1, <2>2, <2>3 DEF HistoryInv
  <2>5. OnceInv'
    BY <2>2, <2>3 DEF OnceInv, TraceInv
  <2>6. OddNow({})
    BY <2>2 DEF OddNow
  <2>7. \A n : Copied(n)' => Copied(n)
    BY <2>2 DEF Copied
  <2>8. Taints(h, C)'
    BY <2>1, <2>2, <2>7, TaintsStay
  <2>9. AskInv(h, D)'
    <3>1. UNCHANGED <<subject, opener>>
      BY <1>2 DEF vars, observers
    <3> QED
      BY <2>1, <2>2, <2>7, <3>1, AskStays
  <2> QED
    BY <2>1, <2>4, <2>5, <2>6, <2>8, <2>9, TraceStays
<1> QED
  BY <1>1, <1>2, TraceCall, TraceQueue, TraceFork DEF Next

LEMMA TraceInvariant == Spec => [](BaseInv /\ TraceInv)
<1>1. Init => BaseInv /\ TraceInv
  BY BaseInit, TraceInit
<1>2. BaseInv /\ TraceInv /\ [Next]_vars => (BaseInv /\ TraceInv)'
  BY BaseStep, TraceStep
<1> QED
  BY <1>1, <1>2, PTL DEF Spec
-----------------------------------------------------------------------------
(* What Processor makes of the event files is what the history makes.      *)

\* The events are the calls of h, each once at least, and STARTs before them.
Follows(fs, h) ==
    /\ FilesOK(fs) /\ h \in Seq(Calls)
    /\ \A x \in Places(fs) : \E n \in 1..Len(h) :
          \/ Ts(fs, x) = 2 * n - 1 /\ LabelledAt(fs, x).event.op = "START"
          \/ Ts(fs, x) = 2 * n /\ Alike(LabelledAt(fs, x), h[n])
    /\ \A n \in 1..Len(h) : \E x \in Places(fs) : Ts(fs, x) = 2 * n

Twice(fs, n) ==
    \E x, y \in Places(fs) : x # y /\ Ts(fs, x) = 2 * n /\ Ts(fs, y) = 2 * n

\* Where first paths may differ, after n calls.
Spreads(fs, h, T) ==
    \A n \in 1..Len(h) :
        /\ T[n - 1] \subseteq T[n]
        /\ h[n].event.op = "RENAME" /\ (h[n].event.from \in T[n - 1] \/ Twice(fs, n))
              => h[n].event.to \in T[n]

\* The events of s are the first n calls, and perhaps the START of the next.
AsFar(fs, s, n) ==
    /\ \A x \in s : Ts(fs, x) <= 2 * n + 1
    /\ n = 0 \/ \E x \in s : Ts(fs, x) = 2 * n

\* l is the last of s, of the call m or the START before it.
EndsWith(fs, h, s, l, m) ==
    /\ s \in EventPrefixes(fs) /\ l \in s /\ \A y \in s : NotAfter(fs, y, l)
    /\ m \in 1..Len(h) /\ (Ts(fs, l) = 2 * m - 1 \/ Ts(fs, l) = 2 * m)

LEMMA FoldStarts ==
    ASSUME NEW fs, NEW h, Follows(fs, h), NEW s, NEW l, NEW m, EndsWith(fs, h, s, l, m),
           NEW n \in 0..Len(h), AsFar(fs, s \ {l}, n)
    PROVE  /\ n = m - 1 \/ n = m
           /\ Ts(fs, l) = 2 * m - 1 => n = m - 1 /\ AsFar(fs, s, m - 1)
           /\ Ts(fs, l) = 2 * m => AsFar(fs, s, m)
           /\ Ts(fs, l) = 2 * m /\ n = m => Twice(fs, m)
<1>0. /\ s \in EventPrefixes(fs) /\ l \in s /\ \A y \in s : NotAfter(fs, y, l)
      /\ m \in 1..Len(h) /\ (Ts(fs, l) = 2 * m - 1 \/ Ts(fs, l) = 2 * m)
  BY DEF EndsWith
<1>1. /\ FilesOK(fs) /\ s \in SUBSET Places(fs) /\ l \in Places(fs) /\ l \in s
      /\ Len(h) \in Nat /\ m \in 1..Len(h) /\ m \in Nat /\ n \in Nat
  BY <1>0 DEF Follows, EventPrefixes
<1>2. \A x \in s : Ts(fs, x) \in Nat /\ Ts(fs, x) <= Ts(fs, l)
  BY <1>0, <1>1, PlacesAre, OrderIsTotal
<1>3. n >= m - 1
  <2>1. CASE m = 1
    BY <1>1, <2>1
  <2>2. CASE m # 1
    <3>1. m - 1 \in 1..Len(h)
      BY <1>1, <2>2
    <3>2. PICK y \in Places(fs) : Ts(fs, y) = 2 * (m - 1)
      BY <3>1 DEF Follows
    <3>3. Ts(fs, y) < Ts(fs, l)
      BY <1>0, <1>1, <3>2
    <3>4. y \in s /\ y # l
      BY <1>0, <1>1, <3>3, OrderIsTotal DEF EventPrefixes
    <3>5. 2 * (m - 1) <= 2 * n + 1
      BY <3>2, <3>4 DEF AsFar
    <3> QED
      BY <1>1, <3>5
  <2> QED
    BY <2>1, <2>2
<1>4. n # 0 => \E x \in s \ {l} : Ts(fs, x) = 2 * n
  BY DEF AsFar
<1>5. n # 0 => 2 * n <= Ts(fs, l)
  BY <1>2, <1>4
<1>6. n <= m /\ (Ts(fs, l) = 2 * m - 1 => n <= m - 1)
  BY <1>0, <1>1, <1>5
<1>7. Ts(fs, l) = 2 * m - 1 => AsFar(fs, s, m - 1)
  <2> SUFFICES ASSUME Ts(fs, l) = 2 * m - 1 PROVE AsFar(fs, s, m - 1)
    OBVIOUS
  <2>1. n = m - 1
    BY <1>1, <1>3, <1>6
  <2>2. \A x \in s : Ts(fs, x) <= 2 * (m - 1) + 1
    BY <1>1, <1>2
  <2> QED
    BY <1>4, <2>1, <2>2 DEF AsFar
<1>8. Ts(fs, l) = 2 * m => AsFar(fs, s, m)
  BY <1>0, <1>1, <1>2 DEF AsFar
<1>9. Ts(fs, l) = 2 * m /\ n = m => Twice(fs, m)
  BY <1>1, <1>4 DEF Twice
<1> QED
  BY <1>1, <1>3, <1>6, <1>7, <1>8, <1>9

-----------------------------------------------------------------------------
(* The checksums of the event files are those of the history.              *)

\* Of the first paths in X, f and d have the same and have seen the same; they
\* have the same checksums where z leads to H.
Matches(f, d, X, H, z) ==
    /\ \A p : Root(f, p) = Root(d, p) \/ (Root(f, p) \notin X /\ Root(d, p) \notin X)
    /\ \A y : y \in X => (y \in f.seen_files <=> y \in d.seen_files)
    /\ \A p \in String : z[p] \in H => \A j : Checksum(f, j, p) = Checksum(d, j, p)

\* What a call asks for that leads to H has its first path in X; a rename that
\* is there twice moves none of X.
Checks(fs, h, D, Z, X, H) ==
    /\ Ends(h, Z)
    /\ \A n \in 1..Len(h) :
          /\ \A p \in Asks(h[n].event) : Z[n][p] \in H => Root(D[n - 1], p) \in X
          /\ h[n].event.op = "RENAME" /\ Twice(fs, n) =>
                h[n].event.from \notin X /\ Root(D[n], h[n].event.to) \notin X

LEMMA StartMatches ==
    ASSUME NEW x, x.event.op = "START", NEW f, DataShape(f), NEW d, NEW X, NEW H, NEW z,
           Matches(f, d, X, H, z)
    PROVE  Matches(Processed(f, Originals, x), d, X, H, z)
<1>1. PICK r : r = Processed(f, Originals, x)
  OBVIOUS
<1>2. r.seen_files = f.seen_files /\ r.rename_map = f.rename_map /\ \A j : Ops(r, j) = Ops(f, j)
  BY <1>1, StartCall
<1>3. \A p : Root(r, p) = Root(f, p)
  BY <1>2 DEF Root
<1>4. \A j, p : Checksum(r, j, p) = Checksum(f, j, p)
  BY <1>2, OperationsAre DEF Checksum
<1> QED
  BY <1>1, <1>2, <1>3, <1>4 DEF Matches

\* The next call.
LEMMA CallMatches ==
    ASSUME NEW c \in Calls, NEW x, Alike(x, c), NEW f, DataShape(f), NEW d, DataShape(d),
           \A j : Known(f, j) = Known(d, j), NEW X, NEW H, NEW z, Matches(f, d, X, H, z), NEW y,
           \A p \in String : z[p] = y[Move(c.event, p)],
           \A p \in Asks(c.event) : y[p] \in H => Root(d, p) \in X
    PROVE  Matches(Processed(f, Originals, x), Processed(d, Originals, c), X, H, y)
<1>1. PICK f2, d2, e, i, S : /\ f2 = Processed(f, Originals, x) /\ d2 = Processed(d, Originals, c)
                             /\ e = c.event /\ i = c.process_id /\ S = Asks(c.event)
  OBVIOUS
<1>2. /\ \A p : Root(f, p) = Root(d, p) \/ (Root(f, p) \notin X /\ Root(d, p) \notin X)
      /\ \A u : u \in X => (u \in f.seen_files <=> u \in d.seen_files)
      /\ \A p \in String : z[p] \in H => \A j : Checksum(f, j, p) = Checksum(d, j, p)
  BY DEF Matches
<1>3. /\ f2.seen_files = f.seen_files \cup {Root(f, p) : p \in S}
      /\ d2.seen_files = d.seen_files \cup {Root(d, p) : p \in S}
      /\ e.op # "RENAME" => Summing(f, f2, i, S) /\ Summing(d, d2, i, S)
  BY <1>1, CallIs, CallAsks
<1>4. \A u : u \in X => (u \in f2.seen_files <=> u \in d2.seen_files)
  BY <1>2, <1>3
<1>5. CASE e.op # "RENAME"
  <2>1. /\ \A p : Root(f2, p) = Root(f, p) /\ Root(d2, p) = Root(d, p)
        /\ \A j, p : Checksum(f2, j, p) =
              IF j = i /\ p \in S /\ get_checksum(f, Originals, p) # NoChecksum
              THEN get_checksum(f, Originals, p) ELSE Checksum(f, j, p)
        /\ \A j, p : Checksum(d2, j, p) =
              IF j = i /\ p \in S /\ get_checksum(d, Originals, p) # NoChecksum
              THEN get_checksum(d, Originals, p) ELSE Checksum(d, j, p)
    BY <1>3, <1>5 DEF Summing
  <2>2. ASSUME NEW p \in S, y[p] \in H
        PROVE  get_checksum(f, Originals, p) = get_checksum(d, Originals, p)
    <3>1. Root(f, p) = Root(d, p) /\ Root(d, p) \in X
      BY <1>1, <1>2, <2>2
    <3> QED
      BY <1>2, <3>1, ChecksumIs
  <2>3. \A p \in String : y[p] = z[p]
    BY <1>1, <1>5 DEF Move
  <2>4. \A p \in String : y[p] \in H => \A j : Checksum(f2, j, p) = Checksum(d2, j, p)
    BY <1>2, <2>1, <2>2, <2>3
  <2> QED
    BY <1>1, <1>2, <1>4, <2>1, <2>4 DEF Matches
<1>6. CASE e.op = "RENAME"
  <2>1. PICK s, w : s = e.from /\ w = e.to
    OBVIOUS
  <2>2. /\ Renaming(f, f2, s, w) /\ Renaming(d, d2, s, w) /\ s \in String /\ w \in String
        /\ \A p : Move(e, p) = IF p = s THEN w ELSE p
    BY <1>1, <1>6, <2>1, CallIs, CallDoes DEF Twos, Move
  <2>3. /\ \A j, p : Checksum(f2, j, p) = IF p = s THEN NoChecksum
                                          ELSE IF p = w /\ s \in Known(f, j) THEN Checksum(f, j, s)
                                          ELSE Checksum(f, j, p)
        /\ \A j, p : Checksum(d2, j, p) = IF p = s THEN NoChecksum
                                          ELSE IF p = w /\ s \in Known(d, j) THEN Checksum(d, j, s)
                                          ELSE Checksum(d, j, p)
    BY <2>2, RenamingSums
  <2>4. \A p : Root(f2, p) = Root(d2, p) \/ (Root(f2, p) \notin X /\ Root(d2, p) \notin X)
    BY <1>2, <2>2 DEF Renaming
  <2>5. z[s] = y[w] /\ \A p \in String : p # s => z[p] = y[p]
    BY <1>1, <2>2
  <2>6. ASSUME NEW p \in String, y[p] \in H, NEW j PROVE Checksum(f2, j, p) = Checksum(d2, j, p)
    <3>1. CASE p = s
      BY <2>3, <3>1
    <3>2. CASE p # s
      <4>1. Checksum(f, j, p) = Checksum(d, j, p)
        BY <1>2, <2>5, <2>6, <3>2
      <4>2. p = w => Checksum(f, j, s) = Checksum(d, j, s)
        BY <1>2, <2>2, <2>5, <2>6
      <4>3. Known(f, j) = Known(d, j)
        OBVIOUS
      <4> QED
        BY <2>3, <3>2, <4>1, <4>2, <4>3
    <3> QED
      BY <3>1, <3>2
  <2> QED
    BY <1>1, <1>4, <2>4, <2>6 DEF Matches
<1> QED
  BY <1>5, <1>6

\* A call that is taken again.
LEMMA AgainMatches ==
    ASSUME NEW c \in Calls, NEW x, Alike(x, c), NEW f, DataShape(f), NEW d, DataShape(d), NEW d2,
           d2 = Processed(d, Originals, c), \A j : Known(f, j) = Known(d2, j),
           NEW X, NEW H, NEW y, Matches(f, d2, X, H, y),
           \A p \in Asks(c.event) : y[p] \in H => Root(d, p) \in X,
           c.event.op = "RENAME" => c.event.from \notin X /\ Root(d2, c.event.to) \notin X
    PROVE  Matches(Processed(f, Originals, x), d2, X, H, y)
<1>1. PICK f2, e, i, S : /\ f2 = Processed(f, Originals, x)
                         /\ e = c.event /\ i = c.process_id /\ S = Asks(c.event)
  OBVIOUS
<1>2. /\ \A p : Root(f, p) = Root(d2, p) \/ (Root(f, p) \notin X /\ Root(d2, p) \notin X)
      /\ \A u : u \in X => (u \in f.seen_files <=> u \in d2.seen_files)
      /\ \A p \in String : y[p] \in H => \A j : Checksum(f, j, p) = Checksum(d2, j, p)
  BY DEF Matches
<1>3. /\ f2.seen_files = f.seen_files \cup {Root(f, p) : p \in S}
      /\ d2.seen_files = d.seen_files \cup {Root(d, p) : p \in S}
      /\ e.op # "RENAME" => Summing(f, f2, i, S) /\ Summing(d, d2, i, S)
  BY <1>1, CallIs, CallAsks
<1>4. CASE e.op # "RENAME"
  <2>1. /\ \A p : Root(f2, p) = Root(f, p) /\ Root(d2, p) = Root(d, p)
        /\ \A j, p : Checksum(f2, j, p) =
              IF j = i /\ p \in S /\ get_checksum(f, Originals, p) # NoChecksum
              THEN get_checksum(f, Originals, p) ELSE Checksum(f, j, p)
    BY <1>3, <1>4 DEF Summing
  <2>2. ASSUME NEW p \in S PROVE Root(f, p) \notin X \/ Root(f, p) \in d2.seen_files
    BY <1>2, <1>3, <2>1
  <2>3. \A u : u \in X => (u \in f2.seen_files <=> u \in d2.seen_files)
    BY <1>2, <1>3, <2>2
  <2>4. ASSUME NEW p \in S, y[p] \in H PROVE get_checksum(f, Originals, p) = NoChecksum
    <3>1. Root(f, p) = Root(d, p) /\ Root(d, p) \in X
      BY <1>1, <1>2, <2>1, <2>4
    <3>2. Root(f, p) \in f.seen_files
      BY <1>2, <1>3, <3>1
    <3> QED
      BY <3>2, ChecksumIs
  <2>5. \A p \in String : y[p] \in H => \A j : Checksum(f2, j, p) = Checksum(d2, j, p)
    BY <1>2, <2>1, <2>4
  <2> QED
    BY <1>1, <1>2, <2>1, <2>3, <2>5 DEF Matches
<1>5. CASE e.op = "RENAME"
  <2>1. PICK s, w : s = e.from /\ w = e.to
    OBVIOUS
  <2>2. /\ Renaming(f, f2, s, w) /\ Renaming(d, d2, s, w) /\ S = {}
        /\ s \notin X /\ Root(d2, w) \notin X
    BY <1>1, <1>5, <2>1, CallIs, CallDoes, AsksAre
  <2>3. \A j, p : Checksum(f2, j, p) = IF p = s THEN NoChecksum
                                       ELSE IF p = w /\ s \in Known(f, j) THEN Checksum(f, j, s)
                                       ELSE Checksum(f, j, p)
    BY <2>2, RenamingSums
  <2>4. \A j : s \notin Known(f, j) /\ Checksum(d2, j, s) = NoChecksum
    BY <2>2, RenamingSums, RenamingMarks
  <2>5. \A p \in String : y[p] \in H => \A j : Checksum(f2, j, p) = Checksum(d2, j, p)
    BY <1>2, <2>3, <2>4
  <2>6. /\ \A p : Root(f2, p) = IF p = s THEN s ELSE IF p = w THEN Root(f, s) ELSE Root(f, p)
        /\ Root(d2, s) = s
    BY <2>2 DEF Renaming
  <2>7. Root(f, s) \notin X
    BY <1>2, <2>2, <2>6
  <2>8. \A p : Root(f2, p) = Root(d2, p) \/ (Root(f2, p) \notin X /\ Root(d2, p) \notin X)
    BY <1>2, <2>2, <2>6, <2>7
  <2>9. \A u : u \in X => (u \in f2.seen_files <=> u \in d2.seen_files)
    BY <1>2, <1>3, <2>2
  <2> QED
    BY <1>1, <2>5, <2>8, <2>9 DEF Matches
<1> QED
  BY <1>4, <1>5

-----------------------------------------------------------------------------
(* Which first paths and paths count for checksums.                        *)

\* First paths of files whose paths are fine.
Kept == {x \in Fine : \A o \in Object : first[o] = x => place[o] \in Fine}
Clears == {p \in Fine : Clear(p)}

LEMMA TaintsLead ==
    ASSUME NEW h \in Seq(Calls), NEW C, Taints(h, C), NEW Z, Ends(h, Z), NEW n \in 0..Len(h),
           NEW p \in String, p \in C[n] \/ p \notin Path
    PROVE  p \notin Fine /\ Z[n][p] \notin Fine
<1>1. PICK N : N = Len(h)
  OBVIOUS
<1>2. N \in Nat /\ 0 \in Nat /\ N \in 0..N
  BY <1>1
<1>3. /\ \A k \in 0..N : C[k] \subseteq Bad
      /\ \A k \in 1..N : C[k - 1] \subseteq C[k]
      /\ \A k \in 1..N : h[k].event.op = "RENAME" /\ h[k].event.to \in Path =>
            (h[k].event.from \notin Path \/ h[k].event.from \in C[k - 1] => h[k].event.to \in C[k])
  BY <1>1 DEF Taints
<1>4. /\ \A q \in String : Z[N][q] = q
      /\ \A k \in 1..N : \A q \in String : Z[k - 1][q] = Z[k][Move(h[k].event, q)]
  BY <1>1 DEF Ends, EndsTo
<1>5. \A k \in 0..N : \A q : q \in C[k] \/ q \notin Path => q \notin Fine
  BY <1>3 DEF Bad, Fine
<1> DEFINE G == {k \in Nat : \A q \in String : q \in C[k] \/ q \notin Path => Z[k][q] \notin Fine}
<1>6. N \in G
  BY <1>2, <1>4, <1>5
<1>7. ASSUME NEW k \in 0..N, k > 0, k \in G PROVE k - 1 \in G
  <2>1. k \in 1..N /\ k - 1 \in Nat
    BY <1>2, <1>7
  <2>2. PICK c : c = h[k]
    OBVIOUS
  <2>3. c \in Calls
    BY <1>1, <2>1, <2>2
  <2>4. ASSUME NEW q \in String, q \in C[k - 1] \/ q \notin Path PROVE Z[k - 1][q] \notin Fine
    <3>1. PICK u : u = Move(c.event, q)
      OBVIOUS
    <3>2. u \in String /\ Z[k - 1][q] = Z[k][u]
      BY <1>4, <2>1, <2>2, <2>3, <3>1, MoveIs
    <3>3. u \in C[k] \/ u \notin Path
      BY <1>3, <2>1, <2>2, <2>4, <3>1 DEF Move
    <3> QED
      BY <1>7, <3>2, <3>3
  <2> QED
    BY <2>1, <2>4
<1> HIDE DEF G
<1>8. n \in G
  BY <1>1, <1>2, <1>6, <1>7, DownTo
<1> QED
  BY <1>1, <1>5, <1>8 DEF G

LEMMA ChecksHold ==
    ASSUME NEW h \in Seq(Calls), NEW D, NEW C, Taints(h, C), FirstInv, CopiesOdd(h),
           NEW Z, NEW A, Summed(h, D, Z, A), NEW fs, \A n \in Nat : Twice(fs, n) => Copied(n)
    PROVE  Checks(fs, h, D, Z, Kept, Clears)
<1>1. PICK N : N = Len(h)
  OBVIOUS
<1>2. Ends(h, Z) /\ RootsHome(h, D, Z) /\ AskedRight(h, D, Z, A)
  BY DEF Summed
<1>3. ASSUME NEW n \in 1..N, NEW p \in Asks(h[n].event), Z[n][p] \in Clears
      PROVE  Root(D[n - 1], p) \in Kept
  <2>1. Z[n][p] \in Fine /\ Clear(Z[n][p])
    BY <1>3 DEF Clears
  <2>2. PICK o \in A[n] : place[o] = Z[n][p] /\ first[o] = Root(D[n - 1], p)
    BY <1>1, <1>2, <2>1 DEF AskedRight
  <2>3. o \in Object /\ first[o] \in Fine
    BY <1>1, <1>2, <2>1, <2>2 DEF AskedRight, Clear
  <2>4. \A u \in Object : first[u] = first[o] => u = o
    BY <2>3, FirstOne
  <2> QED
    BY <2>1, <2>2, <2>3, <2>4 DEF Kept
<1>4. ASSUME NEW n \in 1..N, h[n].event.op = "RENAME", Twice(fs, n)
      PROVE  h[n].event.from \notin Kept /\ Root(D[n], h[n].event.to) \notin Kept
  <2>1. n \in Nat /\ n \in 0..N /\ Copied(n)
    BY <1>1, <1>4
  <2>2. PICK c, w, x : c = h[n] /\ w = c.event.to /\ x = Root(D[n], w)
    OBVIOUS
  <2>3. c \in Calls /\ w \in String
    <3>1. c \in Calls
      BY <1>1, <2>2
    <3> QED
      BY <1>4, <2>2, <3>1, CallIs DEF Twos
  <2>4. w \in C[n] \/ w \notin Path
    BY <1>1, <1>4, <2>1, <2>2 DEF Taints
  <2>5. w \notin Fine /\ Z[n][w] \notin Fine
    BY <1>1, <1>2, <2>1, <2>3, <2>4, TaintsLead
  <2>6. c.event.from \notin Fine
    BY <1>1, <1>4, <2>1, <2>2 DEF CopiesOdd
  <2>7. x \in Fine => \E o \in Object : first[o] = x /\ place[o] \notin Fine
    <3> SUFFICES ASSUME x \in Fine PROVE \E o \in Object : first[o] = x /\ place[o] \notin Fine
      OBVIOUS
    <3>1. x \in Fine \ {w}
      BY <2>5
    <3>2. Home(x, Z[n][w])
      BY <1>1, <1>2, <2>1, <2>2, <2>3, <3>1 DEF RootsHome
    <3> QED
      BY <2>5, <3>2 DEF Home
  <2>8. x \notin Kept /\ c.event.from \notin Kept
    BY <2>6, <2>7 DEF Kept
  <2> QED
    BY <2>2, <2>8
<1> QED
  BY <1>1, <1>2, <1>3, <1>4 DEF Checks

\* When all is stamped, the first to ask is the opener.
LEMMA OwnersOpened ==
    ASSUME NEW h, NEW A, Opened(h, A), Len(h) = clock, clock \in Nat, NEW o \in Original, NEW i
    PROVE  i \in Owners(h, A)[o] <=> o \in DOMAIN opener /\ opener[o] = i
<1>1. i \in Owners(h, A)[o] <=> \E k : Foremost(A, clock, o, k) /\ i = h[k].process_id
  BY OwnersAre
<1>2. \A k, n : Foremost(A, clock, o, k) /\ Foremost(A, clock, o, n) => k = n
  <2> SUFFICES ASSUME NEW k, NEW n, Foremost(A, clock, o, k), Foremost(A, clock, o, n) PROVE k = n
    OBVIOUS
  <2>1. k \in Nat /\ n \in Nat /\ k <= n /\ n <= k
    BY DEF Foremost
  <2> QED
    BY <2>1
<1>3. \A k : Foremost(A, clock, o, k) => o \in DOMAIN opener
  BY DEF Opened, Foremost
<1>4. o \in DOMAIN opener => \E n : Foremost(A, clock, o, n) /\ opener[o] = h[n].process_id
  BY DEF Opened
<1> QED
  BY <1>1, <1>2, <1>3, <1>4
-----------------------------------------------------------------------------
(* The events, taken in order, follow the history.                         *)

LEMMA FoldFollows ==
    ASSUME NEW fs, NEW h, Follows(fs, h), NEW D, Runs(h, D), NEW T, Spreads(fs, h, T),
           NEW Z, NEW X, NEW H, Checks(fs, h, D, Z, X, H)
    PROVE  /\ Same(ProcessedData(fs, Originals), D[Len(h)], T[Len(h)])
           /\ Matches(ProcessedData(fs, Originals), D[Len(h)], X, H, Z[Len(h)])
<1> DEFINE F == Fold(fs, Originals)
           N == Len(h)
           Good(s) == \E n \in 0..N : /\ AsFar(fs, s, n) /\ Same(F[s], D[n], T[n])
                                     /\ Matches(F[s], D[n], X, H, Z[n])
           G == {s \in EventPrefixes(fs) : Good(s)}
<1>1. FilesOK(fs) /\ h \in Seq(Calls) /\ N \in Nat
  BY DEF Follows
<1>2. \A n \in 0..N : DataShape(D[n])
  BY <1>1, RunShapes
<1>3. {} \in EventPrefixes(fs) /\ F[{}] = Nothing /\ D[0] = Nothing
  BY <1>1, FoldSteps DEF EventPrefixes, Runs
<1>4. Good({})
  <2>1. Same(Nothing, Nothing, T[0])
    BY NothingIs DEF Same
  <2>2. AsFar(fs, {}, 0)
    BY DEF AsFar
  <2>3. Matches(Nothing, Nothing, X, H, Z[0])
    BY DEF Matches
  <2> HIDE DEF F
  <2> QED
    BY <1>1, <1>3, <2>1, <2>2, <2>3
<1> HIDE DEF F
<1>5. ASSUME NEW s \in EventPrefixes(fs), s # {},
             s \ {LastOf(fs, s)} \in EventPrefixes(fs), Good(s \ {LastOf(fs, s)})
      PROVE  Good(s)
  <2>l. PICK l : l = LastOf(fs, s)
    OBVIOUS
  <2>x. PICK x : x = LabelledAt(fs, l)
    OBVIOUS
  <2>f. PICK f : f = F[s \ {l}]
    OBVIOUS
  <2>1. s \in SUBSET Places(fs) /\ l \in s /\ l \in Places(fs) /\ \A y \in s : NotAfter(fs, y, l)
    BY <1>1, <1>5, <2>l, LastIs DEF EventPrefixes
  <2>2. F[s] = Processed(f, Originals, x)
    BY <1>1, <1>5, <2>1, <2>l, <2>x, <2>f, FoldSteps DEF F
  <2>3. PICK n \in 0..N : AsFar(fs, s \ {l}, n) /\ Same(f, D[n], T[n])
                        /\ Matches(f, D[n], X, H, Z[n])
    BY <1>5, <2>l, <2>f
  <2>4. PICK m \in 1..N :
          \/ Ts(fs, l) = 2 * m - 1 /\ x.event.op = "START"
          \/ Ts(fs, l) = 2 * m /\ Alike(x, h[m])
    BY <2>1, <2>x DEF Follows
  <2>5. /\ n = m - 1 \/ n = m
        /\ Ts(fs, l) = 2 * m - 1 => n = m - 1 /\ AsFar(fs, s, m - 1)
        /\ Ts(fs, l) = 2 * m => AsFar(fs, s, m)
        /\ Ts(fs, l) = 2 * m /\ n = m => Twice(fs, m)
    <3>1. EndsWith(fs, h, s, l, m)
      BY <1>5, <2>1, <2>4 DEF EndsWith
    <3>2. n \in 0..Len(h) /\ AsFar(fs, s \ {l}, n)
      BY <2>3
    <3> QED
      BY <3>1, <3>2, FoldStarts
  <2>6. m \in 0..N /\ m - 1 \in 0..N /\ h[m] \in Calls /\ D[m] = Processed(D[m - 1], Originals, h[m])
    BY <1>1 DEF Runs
  <2>7. CASE Ts(fs, l) = 2 * m - 1 /\ x.event.op = "START"
    <3>1. Same(F[s], D[m - 1], T[m - 1])
      BY <2>2, <2>3, <2>5, <2>7, StartSame
    <3>2. Matches(F[s], D[m - 1], X, H, Z[m - 1])
      <4>1. DataShape(f)
        BY <2>3 DEF Same
      <4> QED
        BY <2>2, <2>3, <2>5, <2>7, <4>1, StartMatches
    <3> QED
      BY <2>5, <2>6, <2>7, <3>1, <3>2
  <2>8. CASE Ts(fs, l) = 2 * m /\ Alike(x, h[m])
    <3>1. /\ T[m - 1] \subseteq T[m]
          /\ h[m].event.op = "RENAME" /\ (h[m].event.from \in T[m - 1] \/ Twice(fs, m))
                => h[m].event.to \in T[m]
      BY DEF Spreads
    <3>2. PICK c, d, before, after, z, y :
            /\ c = h[m] /\ d = D[m - 1] /\ before = T[m - 1] /\ after = T[m]
            /\ z = Z[m - 1] /\ y = Z[m]
      OBVIOUS
    <3>6. /\ \A p \in String : z[p] = y[Move(c.event, p)]
          /\ \A p \in Asks(c.event) : y[p] \in H => Root(d, p) \in X
          /\ c.event.op = "RENAME" /\ Twice(fs, m) => c.event.from \notin X /\ Root(D[m], c.event.to) \notin X
      BY <3>2 DEF Checks, Ends, EndsTo
    <3>7. DataShape(f)
      BY <2>3 DEF Same
    <3>3. /\ c \in Calls /\ Alike(x, c) /\ DataShape(d) /\ D[m] = Processed(d, Originals, c)
          /\ before \subseteq after
      BY <1>2, <2>6, <2>8, <3>1, <3>2
    <3>4. CASE n = m - 1
      <4>1. Same(f, d, before)
        BY <2>3, <3>2, <3>4
      <4>2. c.event.op = "RENAME" /\ c.event.from \in before => c.event.to \in after
        BY <3>1, <3>2
      <4>3. Same(Processed(f, Originals, x), Processed(d, Originals, c), after)
        BY <3>3, <4>1, <4>2, CallSame
      <4>4. Matches(Processed(f, Originals, x), Processed(d, Originals, c), X, H, y)
        <5>1. Matches(f, d, X, H, z) /\ \A j : Known(f, j) = Known(d, j)
          BY <2>3, <3>2, <3>4, <4>1 DEF Same
        <5> QED
          BY <3>3, <3>6, <3>7, <5>1, CallMatches
      <4> QED
        BY <2>2, <2>5, <2>6, <2>8, <3>2, <3>3, <4>3, <4>4
    <3>5. CASE n = m
      <4>1. Same(f, Processed(d, Originals, c), after)
        BY <2>3, <3>2, <3>3, <3>5
      <4>2. c.event.op = "RENAME" => c.event.to \in after
        BY <2>5, <2>8, <3>1, <3>2, <3>5
      <4>3. Same(Processed(f, Originals, x), Processed(d, Originals, c), after)
        BY <3>3, <4>1, <4>2, CallAgain
      <4>4. Matches(Processed(f, Originals, x), D[m], X, H, y)
        <5>1. PICK d2 : d2 = D[m]
          OBVIOUS
        <5>2. /\ Matches(f, d2, X, H, y) /\ d2 = Processed(d, Originals, c)
              /\ \A j : Known(f, j) = Known(d2, j)
          BY <2>3, <3>2, <3>3, <3>5, <4>1, <5>1 DEF Same
        <5>3. c.event.op = "RENAME" => c.event.from \notin X /\ Root(d2, c.event.to) \notin X
          BY <2>5, <2>8, <3>5, <3>6, <5>1
        <5>4. Matches(Processed(f, Originals, x), d2, X, H, y)
          BY <3>3, <3>6, <3>7, <5>2, <5>3, AgainMatches
        <5> QED
          BY <5>1, <5>4
      <4> QED
        BY <2>2, <2>5, <2>6, <2>8, <3>2, <3>3, <4>3, <4>4
    <3> QED
      BY <2>5, <3>4, <3>5
  <2> QED
    BY <2>4, <2>7, <2>8
<1> HIDE DEF Good
<1>6. Places(fs) \in G
  BY <1>1, <1>3, <1>4, <1>5, PrefixInduction
<1>7. PICK n \in 0..N : /\ AsFar(fs, Places(fs), n) /\ Same(F[Places(fs)], D[n], T[n])
                       /\ Matches(F[Places(fs)], D[n], X, H, Z[n])
  BY <1>6 DEF Good
<1>8. n = N
  <2>1. CASE N = 0
    BY <1>1, <2>1
  <2>2. CASE N # 0
    <3>1. N \in 1..N
      BY <1>1, <2>2
    <3>2. PICK y \in Places(fs) : Ts(fs, y) = 2 * N
      BY <3>1 DEF Follows
    <3>3. 2 * N <= 2 * n + 1
      BY <1>7, <3>2 DEF AsFar
    <3> QED
      BY <1>1, <3>3
  <2> QED
    BY <2>1, <2>2
<1> QED
  BY <1>7, <1>8, ProcessedDataIs DEF F

LEMMA FilesFollow ==
    ASSUME BaseInv, NEW h, HistoryInv(h), Quiet
    PROVE  /\ Follows(EventFiles, h) /\ Len(h) = clock
           /\ \A n \in Nat : Twice(EventFiles, n) => Copied(n)
<1> DEFINE fs == EventFiles
<1>1. ThreadInv /\ LogInv /\ clock \in Nat /\ unstamped \in Seq(Thread)
  BY DEF BaseInv, ThreadInv
<1>2. \A t \in Thread : ~Unlogged(t)
  BY DEF Quiet, Unlogged
<1>3. Len(unstamped) = 0
  <2> SUFFICES ASSUME Len(unstamped) # 0 PROVE FALSE
    OBVIOUS
  <2>1. 1 \in DOMAIN unstamped /\ unstamped[1] \in Thread
    BY <1>1
  <2>2. pending[unstamped[1]] \in Operation
    BY <1>1, <2>1 DEF ThreadInv, Waiting
  <2> QED
    BY <2>1, <2>2, OperationIs DEF Quiet
<1>4. h \in Seq(Calls) /\ Len(h) = clock
  BY <1>1, <1>3 DEF HistoryInv
<1>5. /\ FilesOK(fs)
      /\ DOMAIN fs = DOMAIN Files
      /\ \A i \in DOMAIN Files :
            /\ Files[i] \in Proc /\ fs[i] = log[Files[i]]
            /\ 1 \in DOMAIN fs[i] /\ fs[i][1].op = "START" /\ fs[i][1].id = IdOf[Files[i]]
            /\ StartOf(fs[i]) = fs[i][1]
      /\ \A p \in Proc : log[p] # << >> => \E i \in DOMAIN Files : Files[i] = p
      /\ \A i, j \in DOMAIN Files : Files[i] = Files[j] => i = j
  BY <1>1, EventFilesAre
<1> HIDE DEF fs
\* A START has an odd stamp, an Operation an even one.
<1>6. ASSUME NEW i \in DOMAIN Files
      PROVE  \E n \in 1..clock : fs[i][1].ts = 2 * n - 1
  <2>1. fs[i] = log[Files[i]] /\ Files[i] \in Proc /\ 1 \in DOMAIN fs[i]
    BY <1>5
  <2>2. log[Files[i]] # << >>
    BY <2>1
  <2>3. log[Files[i]][1] \in Starts(Files[i], clock)
    BY <1>1, <2>1, <2>2 DEF LogInv, FileOK
  <2> QED
    BY <1>1, <2>1, <2>3, StartIs
<1>7. ASSUME NEW i \in DOMAIN Files, NEW k \in DOMAIN fs[i], k # 1
      PROVE  /\ k \in Ranks(log[Files[i]])
             /\ \E n \in 1..clock : Is(h, n, IdOf[Files[i]], fs[i][k]) /\ fs[i][k].ts = 2 * n
  <2>1. fs[i] = log[Files[i]] /\ Files[i] \in Proc
    BY <1>5
  <2>2. k \in Ranks(log[Files[i]])
    BY <1>7, <2>1 DEF Ranks
  <2>3. \E n \in 1..clock : Is(h, n, IdOf[Files[i]], log[Files[i]][k]) /\ log[Files[i]][k].ts = 2 * n
    BY <1>1, <2>1, <2>2, StampsAre
  <2> QED
    BY <2>1, <2>2, <2>3
<1>8. \A x \in Places(fs) : x = <<x[1], x[2]>> /\ x[1] \in DOMAIN Files /\ x[2] \in DOMAIN fs[x[1]]
  BY <1>5, PlacesAre
<1>9. ASSUME NEW x \in Places(fs)
      PROVE  \E n \in 1..Len(h) :
                \/ Ts(fs, x) = 2 * n - 1 /\ LabelledAt(fs, x).event.op = "START"
                \/ Ts(fs, x) = 2 * n /\ Alike(LabelledAt(fs, x), h[n])
  <2> DEFINE i == x[1]
             k == x[2]
  <2>1. i \in DOMAIN Files /\ k \in DOMAIN fs[i]
    BY <1>8
  <2>2. /\ LabelledAt(fs, x).event = fs[i][k]
        /\ LabelledAt(fs, x).process_id = IdOf[Files[i]]
        /\ Ts(fs, x) = fs[i][k].ts
    BY <1>5, <2>1 DEF LabelledAt, Labelled, Ts
  <2> HIDE DEF i, k
  <2>3. CASE k = 1
    BY <1>4, <1>5, <1>6, <2>1, <2>2, <2>3
  <2>4. CASE k # 1
    <3>1. PICK n \in 1..clock : Is(h, n, IdOf[Files[i]], fs[i][k]) /\ fs[i][k].ts = 2 * n
      BY <1>7, <2>1, <2>4
    <3>2. h[n] \in Calls /\ n \in Nat
      BY <1>1, <1>4
    <3>3. PICK y : y = LabelledAt(fs, x)
      OBVIOUS
    <3>4. y.process_id = h[n].process_id /\ y.event = Event(h[n].event, 2 * n)
      BY <2>2, <3>1, <3>3 DEF Is
    <3>5. Alike(y, h[n])
      BY <3>2, <3>4, CallIs
    <3> QED
      BY <1>4, <2>2, <3>1, <3>3, <3>5
  <2> QED
    BY <2>3, <2>4
<1>10. ASSUME NEW n \in 1..Len(h) PROVE \E x \in Places(fs) : Ts(fs, x) = 2 * n
  <2>1. PICK p \in Proc : \E k \in Ranks(log[p]) : log[p][k].ts = 2 * n
    BY <1>2, <1>4 DEF HistoryInv
  <2>2. PICK k \in Ranks(log[p]) : log[p][k].ts = 2 * n
    BY <2>1
  <2>3. log[p] # << >>
    BY <2>2 DEF Ranks
  <2>4. PICK i \in DOMAIN Files : Files[i] = p
    BY <1>5, <2>3
  <2>5. fs[i] = log[p] /\ k \in DOMAIN fs[i]
    BY <1>5, <2>2, <2>4 DEF Ranks
  <2>6. <<i, k>> \in Places(fs)
    BY <1>5, <2>4, <2>5, PlacesAre
  <2>7. Ts(fs, <<i, k>>) = 2 * n
    BY <2>2, <2>5 DEF Ts
  <2> QED
    BY <2>6, <2>7
<1>11. ASSUME NEW n \in Nat, Twice(fs, n) PROVE Copied(n)
  <2>1. PICK x \in Places(fs), y \in Places(fs) : x # y /\ Ts(fs, x) = 2 * n /\ Ts(fs, y) = 2 * n
    BY <1>11 DEF Twice
  <2>2. ASSUME NEW z \in Places(fs), Ts(fs, z) = 2 * n
        PROVE  /\ Files[z[1]] \in Proc /\ z[2] \in Ranks(log[Files[z[1]]])
               /\ log[Files[z[1]]][z[2]].ts = 2 * n
    <3>1. z[1] \in DOMAIN Files /\ z[2] \in DOMAIN fs[z[1]] /\ fs[z[1]][z[2]].ts = 2 * n
      BY <1>8, <2>2 DEF Ts
    <3>2. \A m \in 1..clock : 2 * m - 1 # 2 * n
      OBVIOUS
    <3>3. z[2] # 1
      BY <1>6, <3>1, <3>2
    <3> QED
      BY <1>5, <1>7, <3>1, <3>3
  <2>3. <<Files[x[1]], x[2]>> # <<Files[y[1]], y[2]>>
    BY <1>5, <1>8, <2>1
  <2> QED
    BY <2>1, <2>2, <2>3 DEF Copied
<1>12. Follows(fs, h)
  BY <1>4, <1>5, <1>9, <1>10 DEF Follows
<1> QED
  BY <1>4, <1>11, <1>12 DEF fs

\* The result is that of the history, but for first paths of odd paths.
LEMMA ResultIs ==
    ASSUME BaseInv, TraceInv, Quiet
    PROVE  \E d : /\ Truth(d)
                  /\ \A i, p : Marks(Result, i, p) = Marks(d, i, p)
                  /\ \A p \in Path : Plain(p, Oddities) => Root(Result, p) = Root(d, p)
                  /\ \A p : Clear(p) => \A i : Checksum(Result, i, p) = Checksum(d, i, p)
                  /\ \E V : /\ SumsBy(d, V)
                            /\ \A o \in Original : \A i : i \in V[o] <=> o \in DOMAIN opener /\ opener[o] = i
<1>1. PICK h, D, C : HistoryInv(h) /\ Runs(h, D) /\ Truth(D[Len(h)]) /\ Taints(h, C)
                     /\ AskInv(h, D)
  BY DEF TraceInv
<1>2. PICK fs : fs = EventFiles
  OBVIOUS
<1>3. /\ Follows(fs, h) /\ \A n \in Nat : Twice(fs, n) => Copied(n)
      /\ Result = ProcessedData(fs, Originals) /\ Len(h) = clock
  BY <1>1, <1>2, FilesFollow DEF Result, Originals
<1>4. h \in Seq(Calls) /\ Len(h) \in Nat
  BY <1>1 DEF HistoryInv
<1> DEFINE T == [n \in 0..Len(h) |-> C[n] \cup (String \ Path)]
<1>5. \A n \in 0..Len(h) : T[n] = C[n] \cup (String \ Path)
  OBVIOUS
<1> HIDE DEF T
<1>6. Spreads(fs, h, T)
  <2> SUFFICES ASSUME NEW n \in 1..Len(h)
               PROVE  /\ T[n - 1] \subseteq T[n]
                      /\ h[n].event.op = "RENAME"
                            /\ (h[n].event.from \in T[n - 1] \/ Twice(fs, n))
                            => h[n].event.to \in T[n]
    BY DEF Spreads
  <2>1. T[n] = C[n] \cup (String \ Path) /\ T[n - 1] = C[n - 1] \cup (String \ Path)
    BY <1>4, <1>5
  <2>2. C[n - 1] \subseteq C[n]
    BY <1>1 DEF Taints
  <2>3. ASSUME h[n].event.op = "RENAME", h[n].event.from \in T[n - 1] \/ Twice(fs, n)
        PROVE  h[n].event.to \in T[n]
    <3>1. h[n] \in Calls /\ n \in Nat
      BY <1>4
    <3>2. h[n].event.to \in String
      BY <2>3, <3>1, CallIs DEF Twos
    <3>3. CASE h[n].event.to \in Path
      <4>1. /\ h[n].event.from \notin Path \/ h[n].event.from \in C[n - 1] => h[n].event.to \in C[n]
            /\ Copied(n) => h[n].event.to \in C[n]
        BY <1>1, <2>3, <3>3 DEF Taints
      <4> QED
        BY <1>3, <2>1, <2>3, <3>1, <4>1
    <3> QED
      BY <2>1, <3>2, <3>3
  <2> QED
    BY <2>1, <2>2, <2>3
<1>7. PICK d, q, U : d = D[Len(h)] /\ q = Result /\ U = T[Len(h)]
  OBVIOUS
<1>12. PICK Z, A : Summed(h, D, Z, A)
  BY <1>1 DEF AskInv
<1>13. Checks(fs, h, D, Z, Kept, Clears)
  BY <1>1, <1>3, <1>4, <1>12, ChecksHold DEF AskInv
<1>8. Same(q, d, U) /\ Matches(q, d, Kept, Clears, Z[Len(h)])
  BY <1>1, <1>3, <1>6, <1>7, <1>13, FoldFollows
<1>9. \A p \in Path : Plain(p, Oddities) => p \notin U
  <2>1. Len(h) \in 0..Len(h)
    BY <1>4
  <2>2. C[Len(h)] \subseteq Bad
    BY <1>1, <2>1 DEF Taints
  <2> QED
    BY <1>5, <1>7, <2>1, <2>2 DEF Bad
<1>10. /\ \A i, p : Marks(q, i, p) = Marks(d, i, p)
       /\ \A p \in Path : Plain(p, Oddities) => Root(q, p) = Root(d, p)
  BY <1>8, <1>9 DEF Same
<1>11. Truth(d)
  BY <1>1, <1>7
<1>14. ASSUME NEW p, Clear(p), NEW i PROVE Checksum(q, i, p) = Checksum(d, i, p)
  <2>1. p \in Fine /\ p \in Clears /\ p \in String
    BY <1>14 DEF Clear, Clears, Fine, String
  <2>2. Z[Len(h)][p] = p
    BY <1>12, <2>1 DEF Summed, Ends, EndsTo
  <2> QED
    BY <1>8, <2>1, <2>2 DEF Matches
<1>15. PICK V : V = Owners(h, A)
  OBVIOUS
<1>16. SumsBy(d, V)
  BY <1>7, <1>12, <1>15 DEF Summed
<1>17. \A o \in Original : \A i : i \in V[o] <=> o \in DOMAIN opener /\ opener[o] = i
  BY <1>3, <1>4, <1>12, <1>15, OwnersOpened DEF Summed
<1> QED
  BY <1>7, <1>10, <1>11, <1>14, <1>16, <1>17

\* FileHistory's OperationsAreFound: what a process did to a file that exists
\* is found under the path the file has now, wherever it was renamed from and
\* by whom, unless the paths on the way are odd.
THEOREM FoundTheorem == Spec => []OperationsAreFound
<1>1. ASSUME BaseInv, TraceInv PROVE OperationsAreFound
  <2> SUFFICES ASSUME Quiet, NEW x \in did, x[2] \in alive,
                      Plain(place[x[2]], {"failed", "relative", "late", "self"})
               PROVE  Operations(Result, x[1], place[x[2]])[x[3]]
    BY DEF OperationsAreFound
  <2>1. PICK d : /\ Truth(d)
                 /\ \A i, p : Marks(Result, i, p) = Marks(d, i, p)
    BY <1>1, ResultIs
  <2>2. x[3] \in Marks(d, x[1], place[x[2]])
    BY <2>1 DEF Truth, FoundBy, Unsound
  <2>3. x[3] \in Marks(Result, x[1], place[x[2]])
    BY <2>1, <2>2
  <2> QED
    BY <2>3, Zenon DEF Marks
<1> QED
  BY <1>1, TraceInvariant, PTL

\* FileHistory's OperationsAreTrue: a process has an operation under a path if
\* and only if it did that to the one file that has or last had the path,
\* unless the path is odd.
THEOREM TrueTheorem == Spec => []OperationsAreTrue
<1>1. ASSUME BaseInv, TraceInv PROVE OperationsAreTrue
  <2> SUFFICES ASSUME Quiet, NEW id \in Ids, NEW path \in Path, NEW flag \in Flags,
                      Plain(path, Untrue)
               PROVE  Operations(Result, id, path)[flag] <=>
                          \E o \in Object : place[o] = path /\ <<id, o, flag>> \in did
    BY DEF OperationsAreTrue, Untrue
  <2>1. PICK d : /\ Truth(d)
                 /\ \A i, p : Marks(Result, i, p) = Marks(d, i, p)
    BY <1>1, ResultIs
  <2>2. flag \in Marks(d, id, path) <=> \E o \in Object : place[o] = path /\ <<id, o, flag>> \in did
    BY <2>1 DEF Truth, TrueBy
  <2>3. flag \in Marks(Result, id, path) <=> flag \in Marks(d, id, path)
    BY <2>1
  <2>4. flag \in Marks(Result, id, path) <=> Operations(Result, id, path)[flag]
    BY Zenon DEF Marks
  <2> QED
    BY <2>2, <2>3, <2>4
<1> QED
  BY <1>1, TraceInvariant, PTL

\* FileHistory's RenamesAreTraced: rename_map leads from the path of a renamed
\* file to the path it had first, over any number of renames by any process,
\* and has nothing else, unless the path is odd.
THEOREM TracedTheorem == Spec => []RenamesAreTraced
<1>1. ASSUME BaseInv, TraceInv PROVE RenamesAreTraced
  <2> SUFFICES ASSUME Quiet, NEW path \in Path, Plain(path, Oddities)
               PROVE  LET os == {o \in renamed : place[o] = path} IN
                      At(Result.rename_map, path, path) =
                          IF os = {} THEN path ELSE first[CHOOSE o \in os : TRUE]
    BY DEF RenamesAreTraced
  <2> DEFINE os == {o \in renamed : place[o] = path}
  <2>1. PICK d : Truth(d) /\ Root(Result, path) = Root(d, path)
    BY <1>1, ResultIs
  <2>2. /\ \A o \in renamed : place[o] = path => Root(d, path) = first[o]
        /\ (\A o \in renamed : place[o] # path) => Root(d, path) = path
    BY <2>1 DEF Truth, RootsBy
  <2>3. At(Result.rename_map, path, path) = Root(d, path)
    BY <2>1 DEF Root
  <2>4. CASE os = {}
    BY <2>2, <2>3, <2>4
  <2>5. CASE os # {}
    <3>1. (CHOOSE o \in os : TRUE) \in os
      BY <2>5
    <3> QED
      BY <2>2, <2>3, <2>5, <3>1
  <2> QED
    BY <2>4, <2>5
<1> QED
  BY <1>1, TraceInvariant, PTL

\* FileHistory's ChecksumsAreTrue: the checksum a file had before the command is
\* at the process whose call on it was stamped first, under the path the file
\* has now, wherever renames led it, and at no other process and under no other
\* path, unless the path or the first path of its file is odd.
THEOREM ChecksumsTheorem == Spec => []ChecksumsAreTrue
<1>1. ASSUME BaseInv, TraceInv PROVE ChecksumsAreTrue
  <2> DEFINE os(id, path) == {o \in Original \cap DOMAIN opener : place[o] = path /\ opener[o] = id}
  <2> SUFFICES ASSUME Quiet, NEW id \in Ids, NEW path \in Path,
                      \A at \in {path} \cup {first[o] : o \in {x \in Object : place[x] = path}} :
                          Plain(at, Oddities)
               PROVE  Operations(Result, id, path).start =
                          IF os(id, path) = {} THEN NoChecksum ELSE CHOOSE o \in os(id, path) : TRUE
    BY DEF ChecksumsAreTrue
  <2>1. PICK d : /\ \A p : Clear(p) => \A i : Checksum(Result, i, p) = Checksum(d, i, p)
                 /\ \E V : /\ SumsBy(d, V)
                           /\ \A o \in Original : \A i : i \in V[o] <=> o \in DOMAIN opener /\ opener[o] = i
    BY <1>1, ResultIs
  <2>2. PICK V : /\ SumsBy(d, V)
                 /\ \A o \in Original : \A i : i \in V[o] <=> o \in DOMAIN opener /\ opener[o] = i
    BY <2>1
  <2>3. Clear(path)
    <3>1. path \in Fine
      BY DEF Fine
    <3>2. ASSUME NEW o \in Object, place[o] = path PROVE first[o] \in Fine
      <4>1. first[o] \in Path
        BY <1>1 DEF BaseInv, WorldInv
      <4> QED
        BY <3>2, <4>1 DEF Fine
    <3> QED
      BY <3>1, <3>2 DEF Clear
  <2>4. SumAt(d, V, path, id) /\ Checksum(Result, id, path) = Checksum(d, id, path)
    BY <2>1, <2>2, <2>3 DEF SumsBy
  <2>5. Operations(Result, id, path).start = Checksum(d, id, path)
    BY <2>4 DEF Checksum
  <2>6. CASE os(id, path) = {}
    <3>1. \A o \in Original : place[o] = path => id \notin V[o]
      BY <2>2, <2>6
    <3> QED
      BY <2>4, <2>5, <2>6, <3>1 DEF SumAt
  <2>7. CASE os(id, path) # {}
    <3>1. PICK o : o = CHOOSE x \in os(id, path) : TRUE
      OBVIOUS
    <3>2. o \in os(id, path)
      BY <2>7, <3>1
    <3>3. Checksum(d, id, path) = o
      BY <2>2, <2>4, <3>2 DEF SumAt
    <3> QED
      BY <2>5, <2>7, <3>1, <3>3
  <2> QED
    BY <2>6, <2>7
<1> QED
  BY <1>1, TraceInvariant, PTL
=============================================================================
