--------------------------- MODULE ProcessTreeProofs ---------------------------
(* Theorems about ProcessTree, for every number of processes, programs and *)
(* stamps.                                                                 *)
EXTENDS ProcessTree, ProcessorProofs, SequenceTheorems

(* The inductive invariants. *)

StartEvents(c) ==
    [op : {"START"}, ts : {2 * n - 1 : n \in 1..c}, id : Id, pid : Pid, ppid : Pid \cup {Outside}]
OtherEvents(c) == [op : {"CALL", "EXEC", "EXEC_FAIL", "END"}, ts : {2 * n : n \in 1..c}]

\* What a queue or a file is: a START and later events.
BufferOK(b, c) ==
    /\ b \in Seq(StartEvents(c) \cup OtherEvents(c))
    /\ b # << >> =>
        /\ b[1] \in StartEvents(c)
        /\ \A k \in 2..Len(b) : b[k] \in OtherEvents(c) /\ b[1].ts < b[k].ts

Saves == {files[i][2] : i \in DOMAIN files}
Buffers == {queue[p] : p \in Pid} \cup Saves
StartsOf(buffers) == {b[1] : b \in buffers \ {<< >>}}

TypeInv ==
    /\ status \in [Pid -> {"unborn", "running", "exec", "dead"}]
    /\ id \in [Pid -> Id]
    /\ parent \in [Pid -> Pid \cup {Outside}]
    /\ memory \in [Pid -> Pid]
    /\ DOMAIN queue = Pid
    /\ \E n \in Nat : DOMAIN files = 1..n
    /\ clock \in Nat
    /\ descent \in [Pid -> SUBSET Id]

BufferInv ==
    /\ \A b \in Buffers : BufferOK(b, clock)
    /\ << >> \notin Saves

\* Processes that are there have parents that are there.
ParentInv ==
    \A p \in Pid : parent[p] \in Pid =>
        /\ parent[p] # p
        /\ status[p] # "unborn" /\ status[parent[p]] # "unborn"

\* A process comes from all that its parent is and has been since its START.
Kin(starts, st, ids, of, descends_from, pairs) ==
    /\ \A p \in Pid : ids[p] \in descends_from[p]
    /\ \A s \in starts : /\ st[s.pid] # "unborn"
                         /\ s.id \in descends_from[s.pid]
                         /\ s.id = ids[s.pid] \/ <<s.id, ids[s.pid]>> \in pairs
    /\ \A p \in Pid : of[p] \in Pid =>
          \A m \in {ids[of[p]]} \cup {s.id : s \in {x \in starts : x.pid = of[p]}} :
              m \in descends_from[p] /\ <<m, ids[p]>> \in pairs
KinInv == Kin(StartsOf(Buffers), status, id, parent, descent, descends)

\* And the STARTs say so.
Pairs(starts, pairs) ==
    \A s, l \in starts : s.ts < l.ts =>
        /\ s.pid = l.ppid => <<s.id, l.id>> \in pairs
        /\ s.pid = l.pid => s.id = l.id \/ <<s.id, l.id>> \in pairs
PairInv == Pairs(StartsOf(Buffers), descends)

TreeInv == TypeInv /\ BufferInv /\ ParentInv /\ KinInv /\ PairInv
-----------------------------------------------------------------------------
(* What steps do to queues and files. *)

LEMMA BuffersGrow ==
    ASSUME NEW c \in Nat, NEW d \in Nat, c <= d, NEW b, BufferOK(b, c)
    PROVE  BufferOK(b, d)
<1>1. \A n \in 1..c : n \in 1..d
  OBVIOUS
<1>2. StartEvents(c) \subseteq StartEvents(d) /\ OtherEvents(c) \subseteq OtherEvents(d)
  BY <1>1 DEF StartEvents, OtherEvents
<1>3. \A k \in 2..Len(b) : b \in Seq(StartEvents(c) \cup OtherEvents(c)) =>
          b \in Seq(StartEvents(d) \cup OtherEvents(d))
  BY <1>2
<1>4. b \in Seq(StartEvents(d) \cup OtherEvents(d))
  BY <1>2 DEF BufferOK
<1> QED
  BY <1>2, <1>4 DEF BufferOK

\* The START that p stamps, if it stamps one.
NewStart(p) ==
    [op |-> "START", ts |-> 2 * clock + 1, id |-> id[p], pid |-> p, ppid |-> parent[p]]

LEMMA LoggedIs ==
    ASSUME TypeInv, BufferInv, NEW p \in Pid, NEW op \in {"CALL", "EXEC", "EXEC_FAIL", "END"}
    PROVE  /\ BufferOK(Logged(p, op), clock + 1)
           /\ Logged(p, op) # << >>
           /\ Logged(p, op)[1] = IF Queue(p) = << >> THEN NewStart(p) ELSE Queue(p)[1]
           /\ Queue(p) \in Buffers
<1> DEFINE e == [op |-> op, ts |-> 2 * (clock + 1)]
           b == Queue(p)
           c == clock + 1
<1>1. clock \in Nat /\ c \in Nat /\ clock <= c /\ c \in 1..c
  BY DEF TypeInv
<1>2. e \in OtherEvents(c) /\ e.ts = 2 * clock + 2
  BY <1>1 DEF OtherEvents
<1>3. b \in Buffers
  BY DEF Buffers, Queue, TypeInv
<1>4. BufferOK(b, clock) /\ BufferOK(b, c)
  BY <1>1, <1>3, BuffersGrow DEF BufferInv
<1>5. CASE b = << >>
  <2>1. 2 * (clock + 1) - 1 = 2 * clock + 1 /\ e.ts - 1 = 2 * clock + 1
    BY <1>1, <1>2
  <2>2. Logged(p, op) = <<NewStart(p), e>>
    BY <1>5, <2>1 DEF Logged, NewStart
  <2>3. NewStart(p) \in StartEvents(c) /\ NewStart(p).ts < e.ts
    <3>1. 2 * clock + 1 \in {2 * n - 1 : n \in 1..c}
      BY <1>1, <2>1
    <3>2. id[p] \in Id /\ parent[p] \in Pid \cup {Outside}
      BY DEF TypeInv
    <3> QED
      BY <1>1, <1>2, <3>1, <3>2 DEF NewStart, StartEvents
  <2> HIDE DEF e, c
  <2> DEFINE l == <<NewStart(p), e>>
  <2>4. l \in Seq(StartEvents(c) \cup OtherEvents(c)) /\ Len(l) = 2 /\ l[1] = NewStart(p) /\ l[2] = e
    BY <1>2, <2>3
  <2> HIDE DEF l
  <2>5. BufferOK(l, c) /\ l # << >>
    BY <1>2, <2>3, <2>4 DEF BufferOK
  <2> QED
    BY <1>3, <1>5, <2>2, <2>4, <2>5 DEF l, c
<1>6. CASE b # << >>
  <2>1. Logged(p, op) = Append(b, e)
    BY <1>6 DEF Logged
  <2>2. b[1].ts < e.ts
    <3>1. b[1] \in StartEvents(clock)
      BY <1>4, <1>6 DEF BufferOK
    <3>2. PICK n \in 1..clock : b[1].ts = 2 * n - 1
      BY <3>1 DEF StartEvents
    <3> QED
      BY <1>1, <1>2, <3>2
  <2>3. /\ b \in Seq(StartEvents(c) \cup OtherEvents(c)) /\ b[1] \in StartEvents(c)
        /\ \A k \in 2..Len(b) : b[k] \in OtherEvents(c) /\ b[1].ts < b[k].ts
    BY <1>4, <1>6 DEF BufferOK
  <2> HIDE DEF e, c, b
  <2> DEFINE l == Append(b, e)
  <2>4. /\ l \in Seq(StartEvents(c) \cup OtherEvents(c)) /\ Len(l) = Len(b) + 1 /\ l[Len(b) + 1] = e
        /\ \A k \in 1..Len(b) : l[k] = b[k]
        /\ Len(b) \in Nat \ {0}
    BY <1>2, <1>6, <2>3
  <2> HIDE DEF l
  <2>5. l[1] = b[1] /\ l # << >>
    BY <2>4
  <2>6. \A k \in 2..Len(l) : l[k] \in OtherEvents(c) /\ l[1].ts < l[k].ts
    BY <1>2, <2>2, <2>3, <2>4, <2>5
  <2>7. BufferOK(l, c)
    BY <2>3, <2>4, <2>5, <2>6 DEF BufferOK
  <2> QED
    BY <1>3, <1>6, <2>1, <2>5, <2>7 DEF l, c, b
<1> QED
  BY <1>5, <1>6
LEMMA TypeStep == ASSUME TypeInv, [Next]_vars PROVE TypeInv'
<1>1. ASSUME NEW p \in Pid, NEW op, Flush(p, op), NEW n \in Nat, DOMAIN files = 1..n
      PROVE  DOMAIN files' = 1..(n + 1) /\ DOMAIN queue' = Pid
  <2>1. Len(files) = n
    BY <1>1 DEF TypeInv
  <2> QED
    BY <1>1, <2>1 DEF Flush, WithQueue, TypeInv, Append
<1>2. ASSUME NEW p \in Pid, Call(p) PROVE TypeInv'
  BY <1>2 DEF TypeInv, Call, WithQueue, Tick, observers
<1>3. ASSUME NEW p \in Pid, ExecHook(p) PROVE TypeInv'
  BY <1>1, <1>3 DEF TypeInv, ExecHook, Tick
<1>4. ASSUME NEW p \in Pid, ExecFails(p) PROVE TypeInv'
  BY <1>4 DEF TypeInv, ExecFails, WithQueue, Tick
<1>5. ASSUME NEW p \in Pid, Exit(p) PROVE TypeInv'
  BY <1>1, <1>5 DEF TypeInv, Exit, Dies, Tick, observers
<1>6. ASSUME NEW p \in Pid, Kill(p) PROVE TypeInv'
  BY <1>6 DEF TypeInv, Kill, Dies, WithQueue, observers
<1>7. ASSUME NEW p \in Pid, NEW c \in Pid, Fork(p, c) PROVE TypeInv'
  BY <1>7 DEF TypeInv, Fork, Begets
<1>8. ASSUME NEW p \in Pid, NEW c \in Pid, Vfork(p, c) PROVE TypeInv'
  BY <1>8 DEF TypeInv, Vfork, Begets
<1>9. ASSUME NEW p \in Pid, NEW n \in Id, Becomes(p, n)
      PROVE  id' \in [Pid -> Id] /\ descent' \in [Pid -> SUBSET Id]
  BY <1>9 DEF TypeInv, Becomes
<1>10. ASSUME NEW p \in Pid, NEW n \in Id, ExecSucceeds(p, n) PROVE TypeInv'
  BY <1>9, <1>10 DEF TypeInv, ExecSucceeds
<1>11. ASSUME NEW p \in Pid, NEW n \in Id, Setenv(p, n) PROVE TypeInv'
  BY <1>9, <1>11 DEF TypeInv, Setenv
<1>12. ASSUME UNCHANGED vars PROVE TypeInv'
  BY <1>12 DEF TypeInv, vars, observers
<1> QED
  BY <1>2, <1>3, <1>4, <1>5, <1>6, <1>7, <1>8, <1>10, <1>11, <1>12 DEF Next

\* p stamps an event.
Stamps(p, op) ==
    /\ clock' = clock + 1
    /\ Buffers' \subseteq Buffers \cup {<< >>, Logged(p, op)}
    /\ Saves' \subseteq Saves \cup {Logged(p, op)}
    /\ status[p] # "unborn"
    /\ \A q \in Pid : /\ status'[q] = "unborn" <=> status[q] = "unborn"
                      /\ parent'[q] \in {parent[q], Outside}
    /\ UNCHANGED <<id, descent, descends>>

\* Nothing is stamped.
Quiet == /\ UNCHANGED clock
         /\ Buffers' \subseteq Buffers \cup {<< >>}
         /\ Saves' = Saves

LEMMA QueueStep ==
    ASSUME TypeInv, NEW b
    PROVE  /\ \A p \in Pid : queue' = WithQueue(p, b) => {queue'[q] : q \in Pid} \subseteq Buffers \cup {b}
           /\ \A c \in Pid : queue' = [queue EXCEPT ![c] = b] =>
                 {queue'[q] : q \in Pid} \subseteq Buffers \cup {b}
  BY DEF TypeInv, WithQueue, Buffers

LEMMA FlushStep ==
    ASSUME TypeInv, NEW p \in Pid, NEW op, Flush(p, op)
    PROVE  /\ Buffers' \subseteq Buffers \cup {<< >>, Logged(p, op)}
           /\ Saves' = Saves \cup {Logged(p, op)}
<1>1. PICK n \in Nat : DOMAIN files = 1..n
  BY DEF TypeInv
<1> DEFINE x == <<segment[p], Logged(p, op)>>
<1>2. Len(files) = n
  BY <1>1
<1>3. DOMAIN files' = 1..(n + 1) /\ files'[n + 1] = x
      /\ \A i \in 1..n : files'[i] = files[i]
  BY <1>1, <1>2 DEF Flush, Append
<1>4. x[2] = Logged(p, op)
  OBVIOUS
<1> HIDE DEF x
<1>5. Saves' = Saves \cup {x[2]}
  BY <1>1, <1>3 DEF Saves
<1>6. {queue'[q] : q \in Pid} \subseteq Buffers \cup {<< >>}
  BY QueueStep DEF Flush
<1> QED
  BY <1>4, <1>5, <1>6 DEF Buffers

LEMMA StepIs ==
    ASSUME TypeInv, Next
    PROVE  \/ \E p \in Pid, op \in {"CALL", "EXEC", "EXEC_FAIL", "END"} : Stamps(p, op)
           \/ Quiet /\ \E p \in Pid :
                \/ Kill(p)
                \/ \E c \in Pid : Begets(p, c) /\ (Fork(p, c) \/ Vfork(p, c))
                \/ \E n \in Id : /\ Becomes(p, n) /\ (ExecSucceeds(p, n) \/ Setenv(p, n))
                                 /\ status[p] # "unborn" /\ status'[p] # "unborn"
                                 /\ \A q \in Pid \ {p} : status'[q] = status[q]
                                 /\ UNCHANGED parent
<1>1. ASSUME NEW p \in Pid, Call(p) PROVE Stamps(p, "CALL")
  <2>1. {queue'[q] : q \in Pid} \subseteq Buffers \cup {Logged(p, "CALL")}
    BY <1>1, QueueStep DEF Call
  <2>2. Saves' = Saves
    BY <1>1 DEF Call, Saves
  <2> QED
    BY <1>1, <2>1, <2>2 DEF Call, Stamps, Tick, Runs, Buffers, observers
<1>2. ASSUME NEW p \in Pid, ExecHook(p) PROVE Stamps(p, "EXEC")
  <2>1. Flush(p, "EXEC")
    BY <1>2 DEF ExecHook
  <2> QED
    BY <1>2, <2>1, FlushStep DEF ExecHook, Stamps, Tick, Runs, TypeInv
<1>3. ASSUME NEW p \in Pid, ExecFails(p) PROVE Stamps(p, "EXEC_FAIL")
  <2>1. {queue'[q] : q \in Pid} \subseteq Buffers \cup {Logged(p, "EXEC_FAIL")}
    BY <1>3, QueueStep DEF ExecFails
  <2>2. Saves' = Saves
    BY <1>3 DEF ExecFails, Saves
  <2> QED
    BY <1>3, <2>1, <2>2 DEF ExecFails, Stamps, Tick, Buffers, TypeInv
<1>4. ASSUME NEW p \in Pid, Exit(p) PROVE Stamps(p, "END")
  <2>1. Flush(p, "END") /\ Dies(p)
    BY <1>4 DEF Exit
  <2>2. \A q \in Pid : parent'[q] \in {parent[q], Outside}
    BY <2>1 DEF Dies, TypeInv
  <2> QED
    BY <1>4, <2>1, <2>2, FlushStep DEF Exit, Stamps, Tick, Runs, Dies, TypeInv, observers
<1>5. ASSUME NEW p \in Pid, Kill(p) PROVE Quiet
  <2>1. {queue'[q] : q \in Pid} \subseteq Buffers \cup {<< >>}
    BY <1>5, QueueStep DEF Kill, Buffers
  <2>2. Saves' = Saves
    BY <1>5 DEF Kill, Saves
  <2> QED
    BY <1>5, <2>1, <2>2 DEF Kill, Quiet, Buffers
<1>6. ASSUME NEW p \in Pid, NEW c \in Pid, Fork(p, c) PROVE Begets(p, c) /\ Quiet
  <2>1. Begets(p, c) /\ Queue(p) \in Buffers
    BY <1>6 DEF Fork, Queue, Buffers, TypeInv
  <2>2. {queue'[q] : q \in Pid} \subseteq Buffers \cup {Queue(p)}
    BY <1>6, QueueStep DEF Fork
  <2>3. Saves' = Saves /\ UNCHANGED clock
    BY <2>1 DEF Begets, Saves
  <2> QED
    BY <2>1, <2>2, <2>3 DEF Quiet, Buffers
<1>7. ASSUME NEW p \in Pid, NEW c \in Pid, Vfork(p, c) PROVE Begets(p, c) /\ Quiet
  BY <1>7 DEF Vfork, Begets, Quiet, Buffers, Saves
<1>8. ASSUME NEW p \in Pid, NEW n \in Id, ExecSucceeds(p, n)
      PROVE  /\ Becomes(p, n) /\ Quiet
             /\ status[p] # "unborn" /\ status'[p] # "unborn"
             /\ \A q \in Pid \ {p} : status'[q] = status[q]
             /\ UNCHANGED parent
  BY <1>8 DEF ExecSucceeds, Quiet, Buffers, Saves, TypeInv
<1>9. ASSUME NEW p \in Pid, NEW n \in Id, Setenv(p, n)
      PROVE  /\ Becomes(p, n) /\ Quiet
             /\ status[p] # "unborn" /\ status'[p] # "unborn"
             /\ \A q \in Pid \ {p} : status'[q] = status[q]
             /\ UNCHANGED parent
  BY <1>9 DEF Setenv, Runs, Quiet, Buffers, Saves, TypeInv
<1> QED
  BY <1>1, <1>2, <1>3, <1>4, <1>5, <1>6, <1>7, <1>8, <1>9 DEF Next
LEMMA BufferStep == ASSUME TypeInv, BufferInv, [Next]_vars PROVE BufferInv'
<1>1. ASSUME NEW p \in Pid, NEW op \in {"CALL", "EXEC", "EXEC_FAIL", "END"}, Stamps(p, op)
      PROVE  BufferInv'
  <2>1. clock \in Nat /\ clock' = clock + 1
    BY <1>1 DEF TypeInv, Stamps
  <2>2. BufferOK(Logged(p, op), clock') /\ Logged(p, op) # << >>
    BY <2>1, LoggedIs
  <2>3. \A b \in Buffers : BufferOK(b, clock')
    BY <2>1, BuffersGrow DEF BufferInv
  <2>4. BufferOK(<< >>, clock')
    BY DEF BufferOK
  <2> QED
    BY <1>1, <2>2, <2>3, <2>4 DEF BufferInv, Stamps
<1>2. ASSUME Quiet PROVE BufferInv'
  <2>1. BufferOK(<< >>, clock)
    BY DEF BufferOK
  <2> QED
    BY <1>2, <2>1 DEF BufferInv, Quiet
<1>3. ASSUME UNCHANGED vars PROVE BufferInv'
  <2>1. Buffers' = Buffers /\ Saves' = Saves /\ clock' = clock
    BY <1>3 DEF vars, Buffers, Saves
  <2> QED
    BY <2>1 DEF BufferInv
<1> QED
  BY <1>1, <1>2, <1>3, StepIs

LEMMA ParentStep == ASSUME TypeInv, ParentInv, [Next]_vars PROVE ParentInv'
<1>0. Outside \notin Pid
  BY ProcessTreeAssumption
<1>1. ASSUME NEW p \in Pid, NEW op, Stamps(p, op) PROVE ParentInv'
  BY <1>0, <1>1 DEF ParentInv, Stamps
<1>2. ASSUME NEW p \in Pid, Kill(p) PROVE ParentInv'
  BY <1>0, <1>2 DEF ParentInv, Kill, Dies, TypeInv
<1>3. ASSUME NEW p \in Pid, NEW c \in Pid, Begets(p, c) PROVE ParentInv'
  <2>1. /\ status[p] = "running" /\ status[c] = "unborn" /\ p # c
        /\ status' = [status EXCEPT ![c] = "running"] /\ parent' = [parent EXCEPT ![c] = p]
    BY <1>3 DEF Begets, Runs
  <2> QED
    BY <2>1 DEF ParentInv, TypeInv
<1>4. ASSUME NEW p \in Pid, status[p] # "unborn", status'[p] # "unborn",
             \A q \in Pid \ {p} : status'[q] = status[q], UNCHANGED parent
      PROVE  ParentInv'
  BY <1>4 DEF ParentInv
<1>5. ASSUME UNCHANGED vars PROVE ParentInv'
  BY <1>5 DEF ParentInv, vars
<1> QED
  BY <1>1, <1>2, <1>3, <1>4, <1>5, StepIs

\* The STARTs of queues and files, and what a step adds to them.
LEMMA StartsAre ==
    ASSUME TypeInv, BufferInv
    PROVE  /\ \A s \in StartsOf(Buffers) :
                s \in StartEvents(clock) /\ s.pid \in Pid /\ s.ts \in Nat /\ s.ts < 2 * clock
           /\ Quiet => StartsOf(Buffers') \subseteq StartsOf(Buffers)
           /\ \A p \in Pid, op \in {"CALL", "EXEC", "EXEC_FAIL", "END"} :
                Stamps(p, op) => StartsOf(Buffers') \subseteq StartsOf(Buffers) \cup {NewStart(p)}
<1>1. ASSUME NEW s \in StartsOf(Buffers)
      PROVE  s \in StartEvents(clock) /\ s.pid \in Pid /\ s.ts \in Nat /\ s.ts < 2 * clock
  <2>1. PICK b \in Buffers \ {<< >>} : s = b[1]
    BY DEF StartsOf
  <2>2. s \in StartEvents(clock)
    BY <2>1 DEF BufferInv, BufferOK
  <2>3. s.pid \in Pid /\ s.ts \in {2 * n - 1 : n \in 1..clock}
    BY <2>2 DEF StartEvents
  <2>4. PICK n \in 1..clock : s.ts = 2 * n - 1
    BY <2>3
  <2>5. clock \in Nat
    BY DEF TypeInv
  <2> QED
    BY <2>2, <2>3, <2>4, <2>5
<1>2. Quiet => StartsOf(Buffers') \subseteq StartsOf(Buffers)
  BY DEF Quiet, StartsOf
<1>3. ASSUME NEW p \in Pid, NEW op \in {"CALL", "EXEC", "EXEC_FAIL", "END"}, Stamps(p, op)
      PROVE  StartsOf(Buffers') \subseteq StartsOf(Buffers) \cup {NewStart(p)}
  <2> DEFINE l == Logged(p, op)
  <2>1. Buffers' \subseteq Buffers \cup {<< >>, l}
    BY <1>3 DEF Stamps
  <2>2. l[1] = IF Queue(p) = << >> THEN NewStart(p) ELSE Queue(p)[1]
    BY LoggedIs
  <2>3. Queue(p) \in Buffers
    BY LoggedIs
  <2>4. l[1] \in StartsOf(Buffers) \cup {NewStart(p)}
    BY <2>2, <2>3 DEF StartsOf
  <2> HIDE DEF l
  <2> QED
    BY <2>1, <2>4 DEF StartsOf
<1> QED
  BY <1>1, <1>2, <1>3

LEMMA KinStamp ==
    ASSUME NEW S, NEW T, NEW st, NEW st2, NEW ids, NEW of, NEW of2, NEW desc, NEW pairs,
           Kin(S, st, ids, of, desc, pairs),
           NEW n, NEW p \in Pid, n.pid = p, n.id = ids[p], st[p] # "unborn",
           T \subseteq S \cup {n}, \A s \in S : s.pid \in Pid,
           \A q \in Pid : /\ st2[q] = "unborn" <=> st[q] = "unborn"
                          /\ of2[q] \in {of[q], Outside}
    PROVE  Kin(T, st2, ids, of2, desc, pairs)
<1>0. Outside \notin Pid
  BY ProcessTreeAssumption
<1>1. ASSUME NEW s \in T
      PROVE  /\ st2[s.pid] # "unborn" /\ s.id \in desc[s.pid]
             /\ s.id = ids[s.pid] \/ <<s.id, ids[s.pid]>> \in pairs
  <2>1. CASE s \in S
    BY <2>1 DEF Kin
  <2>2. CASE s = n
    BY <2>2 DEF Kin
  <2> QED
    BY <2>1, <2>2
<1>2. ASSUME NEW q \in Pid, of2[q] \in Pid,
             NEW m \in {ids[of2[q]]} \cup {s.id : s \in {x \in T : x.pid = of2[q]}}
      PROVE  m \in desc[q] /\ <<m, ids[q]>> \in pairs
  <2>1. of2[q] = of[q]
    BY <1>0, <1>2
  <2>2. m \in {ids[of[q]]} \cup {s.id : s \in {x \in S : x.pid = of[q]}}
    BY <1>2, <2>1
  <2> QED
    BY <1>2, <2>1, <2>2 DEF Kin
<1> QED
  BY <1>1, <1>2 DEF Kin

LEMMA KinStep == ASSUME TypeInv, BufferInv, ParentInv, KinInv, [Next]_vars PROVE KinInv'
<1> DEFINE S == StartsOf(Buffers)
           T == StartsOf(Buffers')
<1>0. Outside \notin Pid
  BY ProcessTreeAssumption
<1>1. \A s \in S : s.pid \in Pid
  BY StartsAre
<1>2. Kin(S, status, id, parent, descent, descends)
  BY DEF KinInv
<1>3. ASSUME Kin(T, status', id', parent', descent', descends') PROVE KinInv'
  BY <1>3 DEF KinInv
<1>4. ASSUME NEW p \in Pid, NEW op \in {"CALL", "EXEC", "EXEC_FAIL", "END"}, Stamps(p, op)
      PROVE  KinInv'
  <2>1. NewStart(p).pid = p /\ NewStart(p).id = id[p]
    BY DEF NewStart
  <2>2. T \subseteq S \cup {NewStart(p)}
    BY <1>4, StartsAre
  <2>3. /\ status[p] # "unborn" /\ UNCHANGED <<id, descent, descends>>
        /\ \A q \in Pid : /\ status'[q] = "unborn" <=> status[q] = "unborn"
                          /\ parent'[q] \in {parent[q], Outside}
    BY <1>4 DEF Stamps
  <2> HIDE DEF S, T
  <2>4. Kin(T, status', id, parent', descent, descends)
    BY <1>1, <1>2, <2>1, <2>2, <2>3, KinStamp
  <2> QED
    BY <1>3, <2>3, <2>4
<1>5. ASSUME NEW p \in Pid, Kill(p), Quiet PROVE KinInv'
  <2>1. status[p] # "unborn" /\ UNCHANGED <<id, descent, descends>>
    BY <1>5 DEF Kill, Dies, observers
  <2>2. \A q \in Pid : /\ status'[q] = "unborn" <=> status[q] = "unborn"
                       /\ parent'[q] \in {parent[q], Outside}
    BY <1>5 DEF Kill, Dies, TypeInv
  <2>3. T \subseteq S
    BY <1>5, StartsAre
  <2>4. NewStart(p).pid = p /\ NewStart(p).id = id[p]
    BY DEF NewStart
  <2> HIDE DEF S, T
  <2>5. T \subseteq S \cup {NewStart(p)}
    BY <2>3
  <2>6. Kin(T, status', id, parent', descent, descends)
    BY <1>1, <1>2, <2>1, <2>2, <2>4, <2>5, KinStamp
  <2> QED
    BY <1>3, <2>1, <2>6
<1>6. ASSUME NEW p \in Pid, NEW c \in Pid, Begets(p, c), Quiet PROVE KinInv'
  <2>1. T \subseteq S
    BY <1>6, StartsAre
  <2>2. /\ status[p] = "running" /\ status[c] = "unborn" /\ p # c
        /\ status' = [status EXCEPT ![c] = "running"] /\ parent' = [parent EXCEPT ![c] = p]
        /\ id' = [id EXCEPT ![c] = id[p]] /\ descent' = [descent EXCEPT ![c] = descent[p]]
        /\ descends' = descends \cup {<<n, id[p]>> : n \in descent[p]}
    BY <1>6 DEF Begets, Runs
  <2>3. \A s \in S : s.pid # c
    BY <1>2, <2>2 DEF Kin
  <2>4. \A q \in Pid \ {c} : /\ status'[q] = status[q] /\ parent'[q] = parent[q]
                             /\ id'[q] = id[q] /\ descent'[q] = descent[q]
    BY <2>2 DEF TypeInv
  <2>5. parent'[c] = p /\ id'[c] = id[p] /\ descent'[c] = descent[p] /\ status'[c] = "running"
    BY <2>2 DEF TypeInv
  <2>6. \A q \in Pid : parent[q] \in Pid => parent[q] # c
    BY <2>2 DEF ParentInv
  <2> HIDE DEF S, T
  <2>7. \A q \in Pid : id'[q] \in descent'[q]
    BY <1>2, <2>4, <2>5 DEF Kin
  <2>8. ASSUME NEW s \in T
        PROVE  /\ status'[s.pid] # "unborn" /\ s.id \in descent'[s.pid]
               /\ s.id = id'[s.pid] \/ <<s.id, id'[s.pid]>> \in descends'
    <3>1. s \in S /\ s.pid \in Pid \ {c}
      BY <1>1, <2>1, <2>3
    <3> QED
      BY <1>2, <2>2, <2>4, <3>1 DEF Kin
  <2>9. ASSUME NEW q \in Pid, parent'[q] \in Pid,
               NEW m \in {id'[parent'[q]]} \cup {s.id : s \in {x \in T : x.pid = parent'[q]}}
        PROVE  m \in descent'[q] /\ <<m, id'[q]>> \in descends'
    <3>1. CASE q = c
      <4>1. m \in {id[p]} \cup {s.id : s \in {x \in S : x.pid = p}}
        BY <2>1, <2>2, <2>4, <2>5, <2>9, <3>1
      <4>2. m \in descent[p]
        BY <1>2, <4>1 DEF Kin
      <4> QED
        BY <2>2, <2>5, <3>1, <4>2
    <3>2. CASE q # c
      <4>1. parent'[q] = parent[q] /\ parent[q] \in Pid \ {c}
        BY <2>4, <2>6, <2>9, <3>2
      <4>2. m \in {id[parent[q]]} \cup {s.id : s \in {x \in S : x.pid = parent[q]}}
        BY <2>1, <2>4, <2>9, <4>1
      <4>3. m \in descent[q] /\ <<m, id[q]>> \in descends
        BY <1>2, <4>1, <4>2 DEF Kin
      <4> QED
        BY <2>2, <2>4, <3>2, <4>3
    <3> QED
      BY <3>1, <3>2
  <2> QED
    BY <1>3, <2>7, <2>8, <2>9 DEF Kin
<1>7. ASSUME NEW p \in Pid, NEW n \in Id, Becomes(p, n), Quiet,
             status[p] # "unborn", status'[p] # "unborn",
             \A q \in Pid \ {p} : status'[q] = status[q], UNCHANGED parent
      PROVE  KinInv'
  <2>1. T \subseteq S
    BY <1>7, StartsAre
  <2> DEFINE others == {p} \cup {c \in Pid : parent[c] = p /\ status[c] # "unborn"}
  <2>2. /\ id'[p] = n /\ \A q \in Pid \ {p} : id'[q] = id[q]
        /\ \A q \in Pid : /\ descent[q] \subseteq descent'[q]
                          /\ q \in others => n \in descent'[q]
        /\ descends \subseteq descends'
        /\ \A m \in descent[p] : <<m, n>> \in descends'
        /\ \A c \in others \ {p} : <<n, id[c]>> \in descends'
    BY <1>7 DEF Becomes, TypeInv
  <2>3. \A c \in Pid : parent[c] = p => c \in others \ {p}
    BY DEF ParentInv
  <2>4. p \in others
    OBVIOUS
  <2> HIDE DEF S, T, others
  <2>5. \A q \in Pid : id'[q] \in descent'[q]
    BY <1>2, <2>2, <2>4 DEF Kin
  <2>6. ASSUME NEW s \in T
        PROVE  /\ status'[s.pid] # "unborn" /\ s.id \in descent'[s.pid]
               /\ s.id = id'[s.pid] \/ <<s.id, id'[s.pid]>> \in descends'
    <3>1. s \in S /\ s.pid \in Pid
      BY <1>1, <2>1
    <3>2. /\ status[s.pid] # "unborn" /\ s.id \in descent[s.pid]
          /\ s.id = id[s.pid] \/ <<s.id, id[s.pid]>> \in descends
      BY <1>2, <3>1 DEF Kin
    <3>3. CASE s.pid = p
      BY <1>7, <2>2, <3>1, <3>2, <3>3
    <3>4. CASE s.pid # p
      BY <1>7, <2>2, <3>1, <3>2, <3>4
    <3> QED
      BY <3>3, <3>4
  <2>7. ASSUME NEW q \in Pid, parent'[q] \in Pid,
               NEW m \in {id'[parent'[q]]} \cup {s.id : s \in {x \in T : x.pid = parent'[q]}}
        PROVE  m \in descent'[q] /\ <<m, id'[q]>> \in descends'
    <3>1. parent'[q] = parent[q] /\ parent[q] \in Pid
      BY <1>7, <2>7
    <3>2. CASE parent[q] = p /\ m = n
      <4>1. q \in others \ {p}
        BY <2>3, <3>2
      <4> QED
        BY <2>2, <3>2, <4>1
    <3>3. CASE ~(parent[q] = p /\ m = n)
      <4>1. m \in {id[parent[q]]} \cup {s.id : s \in {x \in S : x.pid = parent[q]}}
        BY <2>1, <2>2, <2>7, <3>1, <3>3
      <4>2. m \in descent[q] /\ <<m, id[q]>> \in descends
        BY <1>2, <3>1, <4>1 DEF Kin
      <4> QED
        BY <2>2, <4>2
    <3> QED
      BY <3>2, <3>3
  <2> QED
    BY <1>3, <2>5, <2>6, <2>7 DEF Kin
<1>8. ASSUME UNCHANGED vars PROVE KinInv'
  <2>1. T = S /\ UNCHANGED <<status, id, parent, descent, descends>>
    BY <1>8 DEF vars, observers, Buffers, Saves
  <2> HIDE DEF S, T
  <2> QED
    BY <1>2, <1>3, <2>1
<1> HIDE DEF S, T
<1> QED
  BY <1>4, <1>5, <1>6, <1>7, <1>8, StepIs

LEMMA PairStep ==
    ASSUME TypeInv, BufferInv, ParentInv, KinInv, PairInv, [Next]_vars
    PROVE  PairInv'
<1> DEFINE S == StartsOf(Buffers)
           T == StartsOf(Buffers')
<1>0. Outside \notin Pid /\ clock \in Nat
  BY ProcessTreeAssumption DEF TypeInv
<1>1. \A s \in S : s.pid \in Pid /\ s.ts \in Nat /\ s.ts < 2 * clock
  BY StartsAre
<1>2. Kin(S, status, id, parent, descent, descends) /\ Pairs(S, descends)
  BY DEF KinInv, PairInv
<1>3. ASSUME Pairs(T, descends') PROVE PairInv'
  BY <1>3 DEF PairInv
<1>4. ASSUME NEW p \in Pid, NEW op \in {"CALL", "EXEC", "EXEC_FAIL", "END"}, Stamps(p, op)
      PROVE  PairInv'
  <2> DEFINE n == NewStart(p)
  <2>1. n.pid = p /\ n.ppid = parent[p] /\ n.id = id[p] /\ n.ts = 2 * clock + 1
    BY DEF NewStart
  <2>2. T \subseteq S \cup {n}
    BY <1>4, StartsAre
  <2>3. UNCHANGED descends
    BY <1>4 DEF Stamps
  <2> HIDE DEF S, T, n
  <2>4. ASSUME NEW s \in T, NEW l \in T, s.ts < l.ts
        PROVE  /\ s.pid = l.ppid => <<s.id, l.id>> \in descends
               /\ s.pid = l.pid => s.id = l.id \/ <<s.id, l.id>> \in descends
    <3>1. s \in S
      BY <1>0, <1>1, <2>1, <2>2, <2>4
    <3>2. CASE l \in S
      BY <1>2, <2>4, <3>1, <3>2 DEF Pairs
    <3>3. CASE l = n
      <4>1. s.pid \in Pid
        BY <1>1, <3>1
      <4>2. s.pid = parent[p] => <<s.id, id[p]>> \in descends
        BY <1>2, <3>1, <4>1 DEF Kin
      <4>3. s.pid = p => s.id = id[p] \/ <<s.id, id[p]>> \in descends
        BY <1>2, <3>1 DEF Kin
      <4> QED
        BY <2>1, <3>3, <4>2, <4>3
    <3> QED
      BY <2>2, <3>2, <3>3
  <2> QED
    BY <1>3, <2>3, <2>4 DEF Pairs
<1>5. ASSUME Quiet, descends \subseteq descends' PROVE PairInv'
  <2>1. T \subseteq S
    BY <1>5, StartsAre
  <2> HIDE DEF S, T
  <2> QED
    BY <1>2, <1>3, <1>5, <2>1 DEF Pairs
<1>6. ASSUME NEW p \in Pid,
             \/ Kill(p) \/ \E c \in Pid : Begets(p, c) \/ \E n \in Id : Becomes(p, n)
      PROVE  descends \subseteq descends'
  BY <1>6 DEF Kill, Dies, Begets, Becomes, observers
<1>7. ASSUME UNCHANGED vars PROVE PairInv'
  <2>1. T = S /\ UNCHANGED descends
    BY <1>7 DEF vars, observers, Buffers, Saves
  <2> HIDE DEF S, T
  <2> QED
    BY <1>2, <1>3, <2>1
<1> HIDE DEF S, T
<1> QED
  BY <1>4, <1>5, <1>6, <1>7, StepIs

LEMMA TreeInit == ASSUME Init PROVE TreeInv
<1>1. Buffers \subseteq {<< >>} /\ Saves = {} /\ StartsOf(Buffers) = {}
  BY DEF Init, Buffers, Saves, StartsOf
<1>2. TypeInv
  <2>1. DOMAIN files = 1..0 /\ 0 \in Nat
    BY DEF Init
  <2> QED
    BY <2>1, ProcessTreeAssumption DEF Init, TypeInv
<1>3. BufferInv
  <2>1. BufferOK(<< >>, clock)
    BY DEF BufferOK
  <2> QED
    BY <1>1, <2>1 DEF BufferInv
<1>4. ParentInv
  BY ProcessTreeAssumption DEF Init, ParentInv
<1>5. KinInv
  BY <1>1, ProcessTreeAssumption DEF Init, KinInv, Kin
<1>6. PairInv
  BY <1>1 DEF PairInv, Pairs
<1> QED
  BY <1>2, <1>3, <1>4, <1>5, <1>6 DEF TreeInv

LEMMA TreeInvariant == Spec => []TreeInv
<1>1. Init => TreeInv
  BY TreeInit
<1>2. TreeInv /\ [Next]_vars => TreeInv'
  BY TypeStep, BufferStep, ParentStep, KinStep, PairStep DEF TreeInv
<1> QED
  BY <1>1, <1>2, PTL DEF Spec
-----------------------------------------------------------------------------
(* The saved files as event files. *)

\* Any sequence of saved files is a sequence of event files, each with the START
\* first that it begins with.
LEMMA SavedFiles ==
    ASSUME BufferInv, clock \in Nat, NEW f, NEW n \in Nat, DOMAIN f = 1..n,
           \A i \in DOMAIN f : f[i] \in Saves
    PROVE  /\ FilesOK(f)
           /\ \A i \in DOMAIN f :
                /\ f[i] \in Buffers /\ f[i] # << >>
                /\ StartOf(f[i]) = f[i][1]
                /\ f[i][1] \in StartsOf(Buffers) /\ f[i][1].op = "START" /\ f[i][1].ts \in Nat
                /\ 1 \in DOMAIN f[i]
                /\ \A k \in DOMAIN f[i] \ {1} :
                      f[i][k] \in OtherEvents(clock) /\ f[i][1].ts < f[i][k].ts
<1>1. ASSUME NEW b \in Saves
      PROVE  /\ b \in Buffers /\ b # << >> /\ StartOf(b) = b[1]
             /\ b[1] \in StartsOf(Buffers) /\ b[1].op = "START" /\ b[1].ts \in Nat
             /\ DOMAIN b = 1..Len(b) /\ Len(b) \in Nat /\ 1 \in DOMAIN b
             /\ \A k \in DOMAIN b \ {1} : b[k] \in OtherEvents(clock) /\ b[1].ts < b[k].ts
             /\ \A k \in DOMAIN b : b[k].ts \in Nat
  <2>1. b \in Buffers /\ b # << >> /\ BufferOK(b, clock)
    BY DEF BufferInv, Buffers
  <2>2. /\ b \in Seq(StartEvents(clock) \cup OtherEvents(clock)) /\ b[1] \in StartEvents(clock)
        /\ \A k \in 2..Len(b) : b[k] \in OtherEvents(clock) /\ b[1].ts < b[k].ts
    BY <2>1 DEF BufferOK
  <2>3. DOMAIN b = 1..Len(b) /\ Len(b) \in Nat /\ 1 \in DOMAIN b
    BY <2>1, <2>2
  <2>4. b[1].op = "START" /\ b[1].ts \in Nat
    <3>1. b[1].op = "START" /\ b[1].ts \in {2 * k - 1 : k \in 1..clock}
      BY <2>2 DEF StartEvents
    <3>2. PICK k \in 1..clock : b[1].ts = 2 * k - 1
      BY <3>1
    <3> QED
      BY <3>1, <3>2
  <2>5. \A k \in DOMAIN b \ {1} : k \in 2..Len(b)
    BY <2>3
  <2>6. ASSUME NEW e \in OtherEvents(clock) PROVE e.ts \in Nat
    <3>1. e.ts \in {2 * k : k \in 1..clock}
      BY DEF OtherEvents
    <3>2. PICK k \in 1..clock : e.ts = 2 * k
      BY <3>1
    <3> QED
      BY <3>2
  <2>7. StartOf(b) = b[1]
    BY <2>1, <2>2, <2>4, StartOfIs
  <2>8. \A k \in DOMAIN b \ {1} : b[k] \in OtherEvents(clock) /\ b[1].ts < b[k].ts
    BY <2>2, <2>5
  <2>9. \A k \in DOMAIN b : b[k].ts \in Nat
    BY <2>4, <2>6, <2>8
  <2> QED
    BY <2>1, <2>3, <2>4, <2>7, <2>8, <2>9 DEF StartsOf
<1>2. FilesOK(f)
  BY <1>1 DEF FilesOK
<1> QED
  BY <1>1, <1>2

\* The files of an order are the saved ones, each once.
Ordered(f, n, g) ==
    /\ g \in [1..n -> 1..n] /\ DOMAIN files = 1..n /\ DOMAIN f = 1..n
    /\ \A h \in 1..n : f[h] = files[g[h]][2]
    /\ \A h, k \in 1..n : g[h] = g[k] => h = k
    /\ \A i \in 1..n : \E h \in 1..n : g[h] = i

LEMMA OrderIs == ASSUME TypeInv, NEW f \in Orders PROVE \E n \in Nat : \E g : Ordered(f, n, g)
<1>1. PICK n \in Nat : n = Len(files) /\ DOMAIN files = 1..n
  BY DEF TypeInv
<1>2. PICK g \in IF EveryOrder THEN Bijection(1..n, 1..n)
                ELSE {[i \in 1..n |-> i], [i \in 1..n |-> n - i + 1]} :
         f = [i \in 1..n |-> files[g[i]][2]]
  BY <1>1 DEF Orders
<1>3. /\ g \in [1..n -> 1..n]
      /\ \A h, k \in 1..n : g[h] = g[k] => h = k
      /\ \A i \in 1..n : \E h \in 1..n : g[h] = i
  <2>1. CASE g \in Bijection(1..n, 1..n)
    BY <2>1 DEF Bijection, Injection, Surjection, IsInjective
  <2>2. CASE g = [i \in 1..n |-> i]
    BY <2>2
  <2>3. CASE g = [i \in 1..n |-> n - i + 1]
    <3>1. \A h \in 1..n : n - h + 1 \in 1..n /\ n - (n - h + 1) + 1 = h
      OBVIOUS
    <3>2. g \in [1..n -> 1..n] /\ \A h \in 1..n : g[h] = n - h + 1
      BY <2>3, <3>1
    <3>3. ASSUME NEW i \in 1..n PROVE \E h \in 1..n : g[h] = i
      <4>1. n - i + 1 \in 1..n /\ g[n - i + 1] = i
        BY <3>1, <3>2
      <4> QED
        BY <4>1
    <3>4. ASSUME NEW h \in 1..n, NEW k \in 1..n, g[h] = g[k] PROVE h = k
      <4>1. n - h + 1 = n - k + 1
        BY <3>2, <3>4
      <4> QED
        BY <4>1
    <3> QED
      BY <3>2, <3>3, <3>4
  <2> QED
    BY <1>2, <2>1, <2>2, <2>3
<1>4. DOMAIN f = 1..n /\ \A h \in 1..n : f[h] = files[g[h]][2]
  BY <1>2
<1>5. Ordered(f, n, g)
  BY <1>1, <1>3, <1>4 DEF Ordered
<1> QED
  BY <1>5

\* The files of an order are saved ones.
LEMMA OrdersAre ==
    ASSUME TypeInv, NEW f \in Orders
    PROVE  (\E n \in Nat : DOMAIN f = 1..n) /\ \A i \in DOMAIN f : f[i] \in Saves
<1>1. PICK n \in Nat : \E g : Ordered(f, n, g)
  BY OrderIs
<1>2. PICK g : Ordered(f, n, g)
  BY <1>1
<1>3. DOMAIN f = 1..n /\ \A i \in DOMAIN f : g[i] \in DOMAIN files /\ f[i] = files[g[i]][2]
  BY <1>2 DEF Ordered
<1> QED
  BY <1>3 DEF Saves

LEMMA ProcessesAre ==
    ASSUME NEW f, NEW n \in Nat, DOMAIN f = 1..n
    PROVE  /\ DOMAIN LinuxProcesses(f) = 1..n /\ Len(LinuxProcesses(f)) = n
           /\ \A i \in 1..n : LET l == LinuxProcesses(f)[i] IN
                /\ l.pid = StartOf(f[i]).pid /\ l.ppid = StartOf(f[i]).ppid
                /\ l.start_time = StartOf(f[i]).ts /\ l.process_id = StartOf(f[i]).id
                /\ l.end_time = EndTime(f[i])
  BY DEF LinuxProcesses, LinuxProcess

\* resolve_forks: a pair is of a process and one with an earlier START that has
\* the pid of its parent.
LEMMA ForkPairsAre ==
    ASSUME NEW f, NEW n \in Nat, DOMAIN f = 1..n, NEW visited,
           NEW pair \in resolve_forks(LinuxProcesses(f), visited)
    PROVE  \E i, j \in 1..n :
              /\ pair = <<StartOf(f[j]).id, StartOf(f[i]).id>>
              /\ StartOf(f[j]).pid = StartOf(f[i]).ppid
              /\ StartOf(f[j]).ts < StartOf(f[i]).ts
<1> DEFINE ps == LinuxProcesses(f)
           Test(l, i) == l.pid = ps[i].ppid /\ IsParent(l, ps[i])
           I(i) == {k \in 1..Len(ps) : Test(ps[k], i)}
           ParentOf(i) == SelectInSeq(ps, LAMBDA l : l.pid = ps[i].ppid /\ IsParent(l, ps[i]))
<1>1. DOMAIN ps = 1..n /\ Len(ps) = n
  BY ProcessesAre
<1>2. PICK i \in 1..n : ParentOf(i) # 0 /\ pair = <<ps[ParentOf(i)].process_id, ps[i].process_id>>
  BY <1>1 DEF resolve_forks
<1>3. ParentOf(i) = IF I(i) # {} THEN Min(I(i)) ELSE 0
  BY DEF SelectInSeq
<1>4. I(i) # {} /\ ParentOf(i) = Min(I(i))
  BY <1>2, <1>3
<1>5. \E x \in I(i) : \A y \in I(i) : x <= y
  <2> DEFINE J == I(i)
  <2>1. J \in SUBSET Nat /\ J # {}
    BY <1>1, <1>4
  <2> HIDE DEF J
  <2>2. \E x \in J : \A y \in J : x <= y
    BY <2>1, LeastNumber
  <2> QED
    BY <2>2 DEF J
<1>6. ParentOf(i) \in I(i)
  BY <1>4, <1>5 DEF Min
<1> HIDE DEF ParentOf
<1>7. PICK j \in 1..n : j = ParentOf(i) /\ Test(ps[j], i)
  BY <1>1, <1>6
<1>8. /\ ps[j].pid = ps[i].ppid /\ ps[j].start_time < ps[i].start_time
      /\ pair = <<ps[j].process_id, ps[i].process_id>>
  BY <1>2, <1>7 DEF IsParent
<1> QED
  BY <1>8, ProcessesAre

\* resolve_execs: a pair is of a process and one of the same pid that started
\* later than an event of the first.
LEMMA ExecPairsAre ==
    ASSUME NEW f, NEW n \in Nat, DOMAIN f = 1..n, FilesOK(f),
           NEW pair \in resolve_execs(ProcessedData(f, << >>).enqueued_execs, LinuxProcesses(f))
    PROVE  \E i, j \in 1..n : \E k \in DOMAIN f[i] :
              /\ pair = <<StartOf(f[i]).id, StartOf(f[j]).id>>
              /\ StartOf(f[j]).pid = StartOf(f[i]).pid /\ StartOf(f[j]).id # StartOf(f[i]).id
              /\ StartOf(f[j]).ts > f[i][k].ts
<1> DEFINE r == ProcessedData(f, << >>)
           L == {LabelledAt(f, x) : x \in Places(f)}
           ps == LinuxProcesses(f)
           stacks == r.enqueued_execs
<1>1. PICK id0 \in DOMAIN stacks : \E h \in DOMAIN stacks[id0] : pair \in resolve_exec(stacks[id0][h], ps)
  BY DEF resolve_execs
<1>2. PICK h \in DOMAIN stacks[id0] : pair \in resolve_exec(stacks[id0][h], ps)
  BY <1>1
<1>3. Stack(r, id0) \in Seq(L)
  BY StacksAre
<1>4. Stack(r, id0) = stacks[id0]
  BY <1>1 DEF Stack, At
<1>5. stacks[id0][h] \in L
  <2> DEFINE a == stacks[id0]
  <2>1. a \in Seq(L) /\ h \in DOMAIN a
    BY <1>2, <1>3, <1>4
  <2> HIDE DEF a, L
  <2>2. a[h] \in L
    BY <2>1
  <2> QED
    BY <2>2 DEF a
<1> DEFINE labelled == stacks[id0][h]
<1>6. PICK x \in Places(f) : labelled = LabelledAt(f, x)
  BY <1>5
<1>7. pair \in resolve_exec(labelled, ps)
  BY <1>2
<1> HIDE DEF stacks, labelled, r, ps, L
<1>a. PICK i \in 1..n : \E k \in DOMAIN f[i] : x = <<i, k>>
  BY PlacesAre
<1>8. PICK k \in DOMAIN f[i] : x = <<i, k>>
  BY <1>a
<1>9. /\ labelled.process_id = StartOf(f[i]).id /\ labelled.file_pid = StartOf(f[i]).pid
      /\ labelled.event = f[i][k]
  BY <1>6, <1>8 DEF LabelledAt, Labelled
<1>10. PICK l \in ToSet(ps) : /\ l.pid = labelled.file_pid /\ l.process_id # labelled.process_id
                              /\ l.start_time > labelled.event.ts
                              /\ pair = <<labelled.process_id, l.process_id>>
  BY <1>7 DEF resolve_exec, First
<1>11. PICK j \in 1..n : l = ps[j]
  BY <1>10, ProcessesAre DEF ToSet, ps
<1>12. l.pid = StartOf(f[j]).pid /\ l.process_id = StartOf(f[j]).id /\ l.start_time = StartOf(f[j]).ts
  BY <1>11, ProcessesAre DEF ps
<1> QED
  BY <1>9, <1>10, <1>12

\* ProcessTree's PairsAreTrue: every pair that resolve_forks and resolve_execs
\* find, in any order of the files and whichever pids the loop passes over, is
\* of a process and of one that comes from it.
THEOREM PairsTheorem == Spec => []PairsAreTrue
<1>1. ASSUME TreeInv PROVE PairsAreTrue
  <2>1. ASSUME NEW f \in Orders, NEW visited, NEW pair \in ExecuteSet(f, visited)
        PROVE  pair \in descends
    <3>1. TypeInv /\ BufferInv /\ PairInv /\ clock \in Nat
      BY <1>1 DEF TreeInv, TypeInv
    <3>2. PICK n \in Nat : DOMAIN f = 1..n /\ \A i \in DOMAIN f : f[i] \in Saves
      BY <3>1, OrdersAre
    <3>3. /\ FilesOK(f)
          /\ \A i \in 1..n :
                /\ StartOf(f[i]) = f[i][1] /\ f[i][1] \in StartsOf(Buffers) /\ f[i][1].ts \in Nat
                /\ \A k \in DOMAIN f[i] \ {1} : f[i][1].ts < f[i][k].ts
      BY <3>1, <3>2, SavedFiles
    <3>4. \A s, l \in StartsOf(Buffers) : s.ts < l.ts =>
              /\ s.pid = l.ppid => <<s.id, l.id>> \in descends
              /\ s.pid = l.pid => s.id = l.id \/ <<s.id, l.id>> \in descends
      BY <3>1 DEF PairInv, Pairs
    <3>5. CASE pair \in resolve_forks(LinuxProcesses(f), visited)
      <4>1. PICK i, j \in 1..n : /\ pair = <<StartOf(f[j]).id, StartOf(f[i]).id>>
                                 /\ StartOf(f[j]).pid = StartOf(f[i]).ppid
                                 /\ StartOf(f[j]).ts < StartOf(f[i]).ts
        BY <3>2, <3>5, ForkPairsAre
      <4> QED
        BY <3>3, <3>4, <4>1
    <3>6. CASE pair \in resolve_execs(ProcessedData(f, << >>).enqueued_execs, LinuxProcesses(f))
      <4>1. PICK i, j \in 1..n : \E k \in DOMAIN f[i] :
                /\ pair = <<StartOf(f[i]).id, StartOf(f[j]).id>>
                /\ StartOf(f[j]).pid = StartOf(f[i]).pid /\ StartOf(f[j]).id # StartOf(f[i]).id
                /\ StartOf(f[j]).ts > f[i][k].ts
        BY <3>2, <3>3, <3>6, ExecPairsAre
      <4>2. PICK k \in DOMAIN f[i] : StartOf(f[j]).ts > f[i][k].ts
        BY <4>1
      <4>3. f[i][k].ts \in Nat /\ f[i][1].ts <= f[i][k].ts
        BY <3>2, <3>3 DEF FilesOK
      <4>4. f[i][1].ts < f[j][1].ts
        BY <3>3, <4>2, <4>3
      <4> QED
        BY <3>3, <3>4, <4>1, <4>4
    <3> QED
      BY <2>1, <3>5, <3>6 DEF ExecuteSet
  <2> QED
    BY <2>1 DEF PairsAreTrue
<1> QED
  BY <1>1, TreeInvariant, PTL
-----------------------------------------------------------------------------
(* Who logs into which memory. *)

Alive(p) == status[p] \in {"running", "exec"}

\* A child of a vfork is alone on the memory of its parent, who waits, and has
\* its id; the caller of an exec has an empty queue.
MemoryInv ==
    /\ \A p \in Pid : status[p] = "unborn" => memory[p] = p
    /\ \A p \in Pid : (status[p] = "unborn" \/ memory[p] # p) => queue[p] = << >>
    /\ \A p \in Pid : status[p] = "exec" => queue[memory[p]] = << >>
    /\ \A c \in Pid : (Alive(c) /\ memory[c] # c) =>
          /\ memory[memory[c]] = memory[c]
          /\ status[memory[c]] \in {"running", "dead"}
          /\ id[memory[c]] = id[c]
          /\ \A d \in Pid : (Alive(d) /\ memory[d] = memory[c] /\ d # memory[c]) => d = c

\* Who else is on the memory of a process that acts is its parent, who waits.
LEMMA Alone ==
    ASSUME TypeInv, MemoryInv, NEW p \in Pid, Runs(p) \/ status[p] = "exec",
           NEW q \in Pid, q # p, Alive(q), memory[q] = memory[p]
    PROVE  q = memory[p] /\ status[q] = "running" /\ id[q] = id[p] /\ memory[p] # p
<1>1. memory[p] # p
  <2> SUFFICES ASSUME memory[p] = p PROVE FALSE
    OBVIOUS
  <2>1. Waits(p) /\ status[p] \in {"running", "dead"}
    BY DEF Waits, MemoryInv, Alive
  <2> QED
    BY <2>1 DEF Runs
<1>2. Alive(p)
  BY DEF Runs, Alive
<1> QED
  BY <1>1, <1>2 DEF MemoryInv, Alive, TypeInv

LEMMA MemoryStep == ASSUME TypeInv, MemoryInv, [Next]_vars PROVE MemoryInv'
<1>1. ASSUME NEW p \in Pid, Call(p) PROVE MemoryInv'
  <2> DEFINE m == memory[p]
  <2>1. /\ m \in Pid /\ memory[m] = m /\ Alive(p) /\ status[p] = "running" /\ status[m] # "unborn"
        /\ UNCHANGED <<status, memory, id>> /\ \A q \in Pid \ {m} : queue'[q] = queue[q]
    BY <1>1 DEF Call, Runs, MemoryInv, TypeInv, WithQueue, Alive, observers
  <2>2. \A q \in Pid : status[q] = "exec" => memory[q] # m
    BY <1>1, <2>1, Alone DEF Call, Alive
  <2> QED
    BY <2>1, <2>2 DEF MemoryInv, TypeInv, Alive
<1>2. ASSUME NEW p \in Pid, Runs(p), Flush(p, "EXEC") \/ Flush(p, "END"),
             NEW s, s \in {"exec", "dead"}, status' = [status EXCEPT ![p] = s],
             UNCHANGED <<memory, id>>
      PROVE  MemoryInv'
  <2> DEFINE m == memory[p]
  <2>1. m \in Pid /\ queue'[m] = << >> /\ \A q \in Pid \ {m} : queue'[q] = queue[q]
    BY <1>2 DEF TypeInv, Flush, WithQueue
  <2>2. /\ status'[p] = s /\ \A q \in Pid \ {p} : status'[q] = status[q]
        /\ status[p] = "running"
    BY <1>2 DEF TypeInv, Runs
  <2>3. \A c \in Pid : Alive(c)' => Alive(c)
    BY <2>2 DEF Alive
  <2>4. \A c \in Pid : Alive(c) /\ memory[c] = p => c = p
    BY <1>2 DEF Runs, Waits, Alive
  <2>5. \A c \in Pid : Alive(c)' /\ memory[c] # c => memory[c] # p
    BY <2>3, <2>4
  <2> HIDE DEF m
  <2>6. ASSUME NEW c \in Pid, Alive(c)', memory'[c] # c
        PROVE  /\ memory'[memory'[c]] = memory'[c]
               /\ status'[memory'[c]] \in {"running", "dead"}
               /\ id'[memory'[c]] = id'[c]
               /\ \A d \in Pid : (Alive(d)' /\ memory'[d] = memory'[c] /\ d # memory'[c]) => d = c
    <3>1. Alive(c) /\ memory[c] # c /\ memory[c] # p /\ memory[c] \in Pid
      BY <1>2, <2>3, <2>5, <2>6 DEF TypeInv
    <3> QED
      BY <1>2, <2>2, <2>3, <3>1 DEF MemoryInv
  <2>7. ASSUME NEW q \in Pid, status'[q] = "exec" PROVE queue'[memory'[q]] = << >>
    <3>1. CASE q = p
      BY <1>2, <2>1, <3>1 DEF m
    <3>2. CASE q # p
      BY <1>2, <2>1, <2>2, <2>7, <3>2 DEF MemoryInv, TypeInv
    <3> QED
      BY <3>1, <3>2
  <2>8. ASSUME NEW q \in Pid
        PROVE  /\ status'[q] = "unborn" => memory'[q] = q
               /\ (status'[q] = "unborn" \/ memory'[q] # q) => queue'[q] = << >>
    BY <1>2, <2>1, <2>2 DEF MemoryInv
  <2> QED
    BY <2>6, <2>7, <2>8 DEF MemoryInv
<1>3. ASSUME NEW p \in Pid, ExecHook(p) PROVE MemoryInv'
  BY <1>2, <1>3 DEF ExecHook
<1>4. ASSUME NEW p \in Pid, Exit(p) PROVE MemoryInv'
  BY <1>2, <1>4 DEF Exit, Dies
<1>5. ASSUME NEW p \in Pid, ExecFails(p) PROVE MemoryInv'
  <2> DEFINE m == memory[p]
  <2>1. /\ m \in Pid /\ memory[m] = m /\ Alive(p) /\ status[p] = "exec" /\ status[m] # "unborn"
        /\ UNCHANGED <<memory, id>> /\ \A q \in Pid \ {m} : queue'[q] = queue[q]
        /\ status'[p] = "running" /\ \A q \in Pid \ {p} : status'[q] = status[q]
    BY <1>5 DEF ExecFails, MemoryInv, TypeInv, WithQueue, Alive
  <2>2. \A q \in Pid \ {p} : status[q] = "exec" => memory[q] # m
    BY <2>1, Alone DEF Alive
  <2>3. \A c \in Pid : Alive(c)' <=> Alive(c)
    BY <2>1 DEF Alive
  <2>4. \A c \in Pid : status[c] \in {"running", "dead"} => status'[c] \in {"running", "dead"}
    BY <2>1
  <2> HIDE DEF m
  <2>5. \A q \in Pid : status'[q] = "exec" => q # p /\ status[q] = "exec"
    BY <2>1
  <2>6. \A q \in Pid : memory[q] \in Pid
    BY DEF TypeInv
  <2> QED
    BY <2>1, <2>2, <2>3, <2>4, <2>5, <2>6 DEF MemoryInv
<1>6. ASSUME NEW p \in Pid, Kill(p) PROVE MemoryInv'
  <2>1. /\ UNCHANGED <<memory, id>> /\ status'[p] = "dead" /\ \A q \in Pid \ {p} : status'[q] = status[q]
        /\ status[p] # "unborn"
    BY <1>6 DEF Kill, Dies, TypeInv
  <2>2. \A q \in Pid : queue'[q] \in {queue[q], << >>}
    BY <1>6 DEF Kill, WithQueue, TypeInv
  <2>3. \A c \in Pid : Alive(c)' => Alive(c) /\ c # p
    BY <2>1 DEF Alive
  <2>4. \A c \in Pid : status[c] \in {"running", "dead"} => status'[c] \in {"running", "dead"}
    BY <2>1
  <2>5. \A q \in Pid : memory[q] \in Pid
    BY DEF TypeInv
  <2> QED
    BY <2>1, <2>2, <2>3, <2>4, <2>5 DEF MemoryInv
<1>7. ASSUME NEW p \in Pid, NEW c \in Pid, Begets(p, c),
             \/ UNCHANGED memory /\ queue' = [queue EXCEPT ![c] = Queue(p)]
             \/ memory[p] = p /\ memory' = [memory EXCEPT ![c] = p] /\ UNCHANGED queue
      PROVE  MemoryInv'
  <2>1. /\ status[p] = "running" /\ status[c] = "unborn" /\ p # c /\ memory[c] = c /\ queue[c] = << >>
        /\ status'[c] = "running" /\ \A q \in Pid \ {c} : status'[q] = status[q]
        /\ id'[c] = id[p] /\ \A q \in Pid \ {c} : id'[q] = id[q]
        /\ \A q \in Pid : memory[q] \in Pid
    BY <1>7 DEF Begets, Runs, TypeInv, MemoryInv
  <2>2. \A d \in Pid : Alive(d) => d # c /\ memory[d] # c
    <3> SUFFICES ASSUME NEW d \in Pid, Alive(d) PROVE d # c /\ memory[d] # c
      OBVIOUS
    <3>1. d # c
      BY <2>1 DEF Alive
    <3>2. memory[d] # d => status[memory[d]] # "unborn"
      BY DEF MemoryInv
    <3> QED
      BY <2>1, <3>1, <3>2
  <2>3. \A d \in Pid : Alive(d)' <=> (Alive(d) \/ d = c)
    BY <2>1 DEF Alive
  <2>4. CASE UNCHANGED memory /\ queue' = [queue EXCEPT ![c] = Queue(p)]
    <3>1. \A q \in Pid \ {c} : queue'[q] = queue[q]
      BY <2>4 DEF TypeInv
    <3>2. ASSUME NEW d \in Pid, Alive(d)', memory'[d] # d
          PROVE  /\ memory'[memory'[d]] = memory'[d]
                 /\ status'[memory'[d]] \in {"running", "dead"}
                 /\ id'[memory'[d]] = id'[d]
                 /\ \A e \in Pid : (Alive(e)' /\ memory'[e] = memory'[d] /\ e # memory'[d]) => e = d
      <4>1. Alive(d) /\ memory[d] # d /\ d # c /\ memory[d] # c /\ memory[d] \in Pid
        BY <2>1, <2>2, <2>3, <2>4, <3>2
      <4>2. \A e \in Pid : (Alive(e) /\ memory[e] = memory[d] /\ e # memory[d]) => e = d
        BY <4>1 DEF MemoryInv
      <4>3. \A e \in Pid : (Alive(e)' /\ memory[e] = memory[d] /\ e # memory[d]) => e = d
        BY <2>1, <2>3, <4>1, <4>2
      <4>4. /\ memory[memory[d]] = memory[d] /\ status[memory[d]] \in {"running", "dead"}
            /\ id[memory[d]] = id[d]
        BY <4>1 DEF MemoryInv
      <4> QED
        BY <2>1, <2>4, <4>1, <4>3, <4>4
    <3>3. ASSUME NEW q \in Pid, status'[q] = "exec" PROVE queue'[memory'[q]] = << >>
      <4>1. q # c /\ status[q] = "exec" /\ Alive(q)
        BY <2>1, <3>3 DEF Alive
      <4>2. memory[q] # c /\ memory[q] \in Pid /\ queue[memory[q]] = << >>
        BY <2>1, <2>2, <4>1 DEF MemoryInv
      <4> QED
        BY <2>4, <3>1, <4>2
    <3>4. \A q \in Pid : /\ status'[q] = "unborn" => memory'[q] = q
                         /\ (status'[q] = "unborn" \/ memory'[q] # q) => queue'[q] = << >>
      BY <2>1, <2>4, <3>1 DEF MemoryInv
    <3> QED
      BY <3>2, <3>3, <3>4 DEF MemoryInv
  <2>5. CASE memory[p] = p /\ memory' = [memory EXCEPT ![c] = p] /\ UNCHANGED queue
    <3>1. memory'[c] = p /\ \A q \in Pid \ {c} : memory'[q] = memory[q]
      BY <2>5 DEF TypeInv
    <3>2. \A d \in Pid : Alive(d) /\ memory[d] = p => d = p
      BY <1>7 DEF Begets, Runs, Waits, Alive
    <3>3. ASSUME NEW d \in Pid, Alive(d)', memory'[d] # d
          PROVE  /\ memory'[memory'[d]] = memory'[d]
                 /\ status'[memory'[d]] \in {"running", "dead"}
                 /\ id'[memory'[d]] = id'[d]
                 /\ \A e \in Pid : (Alive(e)' /\ memory'[e] = memory'[d] /\ e # memory'[d]) => e = d
      <4>1. CASE d = c
        <5>1. \A e \in Pid : (Alive(e)' /\ memory'[e] = p /\ e # p) => e = c
          BY <2>3, <3>1, <3>2
        <5> QED
          BY <2>1, <2>5, <3>1, <4>1, <5>1
      <4>2. CASE d # c
        <5>1. Alive(d) /\ memory[d] # d /\ memory'[d] = memory[d] /\ memory[d] # c /\ memory[d] # p
          BY <2>2, <2>3, <3>1, <3>2, <3>3, <4>2
        <5>2. \A e \in Pid : (Alive(e)' /\ memory'[e] = memory[d] /\ e # memory[d]) => e = d
          BY <2>1, <2>3, <3>1, <5>1 DEF MemoryInv
        <5> QED
          BY <2>1, <3>1, <4>2, <5>1, <5>2 DEF MemoryInv
      <4> QED
        BY <4>1, <4>2
    <3>4. \A q \in Pid : status'[q] = "exec" => queue'[memory'[q]] = << >>
      BY <2>1, <2>5, <3>1 DEF MemoryInv
    <3>5. \A q \in Pid : /\ status'[q] = "unborn" => memory'[q] = q
                         /\ (status'[q] = "unborn" \/ memory'[q] # q) => queue'[q] = << >>
      BY <2>1, <2>5, <3>1 DEF MemoryInv
    <3> QED
      BY <3>3, <3>4, <3>5 DEF MemoryInv
  <2> QED
    BY <1>7, <2>4, <2>5
<1>8. ASSUME NEW p \in Pid, NEW n \in Id, ExecSucceeds(p, n) PROVE MemoryInv'
  <2>1. /\ status[p] = "exec" /\ UNCHANGED queue
        /\ status'[p] = "running" /\ \A q \in Pid \ {p} : status'[q] = status[q]
        /\ memory'[p] = p /\ \A q \in Pid \ {p} : memory'[q] = memory[q]
        /\ \A q \in Pid \ {p} : id'[q] = id[q]
        /\ \A q \in Pid : memory[q] \in Pid
    BY <1>8 DEF ExecSucceeds, Becomes, TypeInv
  <2>2. \A d \in Pid : Alive(d) /\ memory[d] = p => d = p
    BY <2>1 DEF MemoryInv
  <2>3. \A d \in Pid : Alive(d)' <=> Alive(d)
    BY <2>1 DEF Alive
  <2> QED
    BY <2>1, <2>2, <2>3 DEF MemoryInv
<1>9. ASSUME NEW p \in Pid, NEW n \in Id, Setenv(p, n) PROVE MemoryInv'
  <2>1. /\ status[p] = "running" /\ memory[p] = p /\ UNCHANGED <<queue, memory, status>>
        /\ \A q \in Pid \ {p} : id'[q] = id[q]
        /\ \A q \in Pid : memory[q] \in Pid
    BY <1>9 DEF Setenv, Becomes, TypeInv, Runs
  <2>2. \A d \in Pid : Alive(d) /\ memory[d] = p => d = p
    BY <1>9 DEF Setenv, Runs, Waits, Alive
  <2>3. \A d \in Pid : Alive(d)' <=> Alive(d)
    BY <2>1 DEF Alive
  <2> QED
    BY <2>1, <2>2, <2>3 DEF MemoryInv
<1>10. ASSUME UNCHANGED vars PROVE MemoryInv'
  BY <1>10 DEF vars, MemoryInv, Alive
<1> QED
  BY <1>1, <1>3, <1>4, <1>5, <1>6, <1>7, <1>8, <1>9, <1>10 DEF Next, Fork, Vfork
-----------------------------------------------------------------------------
(* Where an EXEC_FAIL is, and the id of the START of its queue. *)

FailPlace == \A b \in Buffers : \A k \in DOMAIN b : b[k].op = "EXEC_FAIL" => k = 2

\* The START of a queue has the id of who logs there.
SaneInv == \A p \in Pid : Alive(p) /\ Queue(p) # << >> => Queue(p)[1].id = id[p]

LEMMA LoggedShape ==
    ASSUME TypeInv, BufferInv, NEW p \in Pid, NEW op \in {"CALL", "EXEC", "EXEC_FAIL", "END"}
    PROVE  LET l == Logged(p, op)
               b == Queue(p)
               e == [op |-> op, ts |-> 2 * (clock + 1)]
           IN /\ b = << >> => DOMAIN l = 1..2 /\ l[1] = NewStart(p) /\ l[2] = e
              /\ b # << >> => /\ Len(b) \in Nat \ {0} /\ DOMAIN b = 1..Len(b)
                              /\ DOMAIN l = 1..(Len(b) + 1) /\ l[Len(b) + 1] = e
                              /\ \A k \in 1..Len(b) : l[k] = b[k]
<1> DEFINE e == [op |-> op, ts |-> 2 * (clock + 1)]
           b == Queue(p)
<1>1. clock \in Nat
  BY DEF TypeInv
<1>2. BufferOK(b, clock)
  BY LoggedIs DEF BufferInv
<1>3. ASSUME b = << >>
      PROVE  /\ DOMAIN Logged(p, op) = 1..2 /\ Logged(p, op)[1] = NewStart(p)
             /\ Logged(p, op)[2] = e
  <2>1. e.ts - 1 = 2 * clock + 1
    BY <1>1
  <2>2. Logged(p, op) = <<NewStart(p), e>>
    BY <1>3, <2>1 DEF Logged, NewStart
  <2> HIDE DEF e
  <2> QED
    BY <2>2
<1>4. ASSUME b # << >>
      PROVE  /\ Len(b) \in Nat \ {0} /\ DOMAIN b = 1..Len(b)
             /\ DOMAIN Logged(p, op) = 1..(Len(b) + 1) /\ Logged(p, op)[Len(b) + 1] = e
             /\ \A k \in 1..Len(b) : Logged(p, op)[k] = b[k]
  <2>1. Logged(p, op) = Append(b, e)
    BY <1>4 DEF Logged
  <2>2. b \in Seq(StartEvents(clock) \cup OtherEvents(clock))
    BY <1>2 DEF BufferOK
  <2> HIDE DEF b, e
  <2> QED
    BY <1>4, <2>1, <2>2
<1> QED
  BY <1>3, <1>4

LEMMA QuietSteps ==
    ASSUME TypeInv, NEW p \in Pid
    PROVE  /\ Kill(p) => Quiet
           /\ \A c \in Pid : Fork(p, c) \/ Vfork(p, c) => Quiet
           /\ \A n \in Id : ExecSucceeds(p, n) \/ Setenv(p, n) => Quiet
<1>1. Kill(p) => Quiet
  <2> SUFFICES ASSUME Kill(p) PROVE Quiet
    OBVIOUS
  <2>1. {queue'[q] : q \in Pid} \subseteq Buffers \cup {<< >>}
    BY QueueStep DEF Kill, Buffers
  <2>2. Saves' = Saves
    BY DEF Kill, Saves
  <2> QED
    BY <2>1, <2>2 DEF Kill, Quiet, Buffers
<1>2. ASSUME NEW c \in Pid, Fork(p, c) PROVE Quiet
  <2>1. Begets(p, c) /\ Queue(p) \in Buffers
    BY <1>2 DEF Fork, Queue, Buffers, TypeInv
  <2>2. {queue'[q] : q \in Pid} \subseteq Buffers \cup {Queue(p)}
    BY <1>2, QueueStep DEF Fork
  <2>3. Saves' = Saves /\ UNCHANGED clock
    BY <2>1 DEF Begets, Saves
  <2> QED
    BY <2>1, <2>2, <2>3 DEF Quiet, Buffers
<1>3. ASSUME NEW c \in Pid, Vfork(p, c) PROVE Quiet
  BY <1>3 DEF Vfork, Begets, Quiet, Buffers, Saves
<1>4. ASSUME NEW n \in Id, ExecSucceeds(p, n) \/ Setenv(p, n) PROVE Quiet
  BY <1>4 DEF ExecSucceeds, Setenv, Quiet, Buffers, Saves
<1> QED
  BY <1>1, <1>2, <1>3, <1>4

LEMMA FailPlaceStep ==
    ASSUME TypeInv, BufferInv, MemoryInv, FailPlace, [Next]_vars
    PROVE  FailPlace'
<1>1. ASSUME NEW p \in Pid, NEW op \in {"CALL", "EXEC", "EXEC_FAIL", "END"},
             op = "EXEC_FAIL" => Queue(p) = << >>, NEW k \in DOMAIN Logged(p, op),
             Logged(p, op)[k].op = "EXEC_FAIL"
      PROVE  k = 2
  <2> DEFINE l == Logged(p, op)
             b == Queue(p)
             e == [op |-> op, ts |-> 2 * (clock + 1)]
  <2>0. e.op = op /\ NewStart(p).op = "START"
    BY DEF NewStart
  <2>1. /\ b = << >> => DOMAIN l = 1..2 /\ l[1] = NewStart(p) /\ l[2] = e
        /\ b # << >> => /\ Len(b) \in Nat \ {0} /\ DOMAIN b = 1..Len(b)
                        /\ DOMAIN l = 1..(Len(b) + 1) /\ l[Len(b) + 1] = e
                        /\ \A i \in 1..Len(b) : l[i] = b[i]
    BY LoggedShape
  <2>2. b \in Buffers
    BY LoggedIs
  <2>3. \A i \in DOMAIN b : b[i].op = "EXEC_FAIL" => i = 2
    BY <2>2 DEF FailPlace
  <2>4. l[k].op = "EXEC_FAIL" /\ k \in DOMAIN l
    BY <1>1
  <2> HIDE DEF l, b, e
  <2>5. CASE b = << >>
    BY <2>0, <2>1, <2>4, <2>5
  <2>6. CASE b # << >>
    <3>1. op # "EXEC_FAIL"
      BY <1>1, <2>6 DEF b
    <3>2. k # Len(b) + 1
      BY <2>0, <2>1, <2>4, <2>6, <3>1
    <3>3. k \in 1..Len(b)
      BY <2>1, <2>4, <2>6, <3>2
    <3> QED
      BY <2>1, <2>3, <2>4, <2>6, <3>3
  <2> QED
    BY <2>5, <2>6
<1>2. ASSUME NEW p \in Pid, NEW op \in {"CALL", "EXEC", "EXEC_FAIL", "END"},
             op = "EXEC_FAIL" => Queue(p) = << >>,
             Buffers' \subseteq Buffers \cup {<< >>, Logged(p, op)}
      PROVE  FailPlace'
  <2>1. ASSUME NEW b \in Buffers' PROVE \A k \in DOMAIN b : b[k].op = "EXEC_FAIL" => k = 2
    <3>1. CASE b \in Buffers
      BY <3>1 DEF FailPlace
    <3>2. CASE b = << >>
      BY <3>2
    <3>3. CASE b = Logged(p, op)
      BY <1>1, <1>2, <3>3
    <3> QED
      BY <1>2, <2>1, <3>1, <3>2, <3>3
  <2> QED
    BY <2>1 DEF FailPlace
<1>3. ASSUME NEW p \in Pid, Call(p) PROVE FailPlace'
  <2>1. {queue'[q] : q \in Pid} \subseteq Buffers \cup {Logged(p, "CALL")}
    BY <1>3, QueueStep DEF Call
  <2>2. Saves' = Saves
    BY <1>3 DEF Call, Saves
  <2> QED
    BY <1>2, <2>1, <2>2 DEF Buffers
<1>4. ASSUME NEW p \in Pid, ExecHook(p) PROVE FailPlace'
  BY <1>2, <1>4, FlushStep DEF ExecHook
<1>5. ASSUME NEW p \in Pid, Exit(p) PROVE FailPlace'
  BY <1>2, <1>5, FlushStep DEF Exit
<1>6. ASSUME NEW p \in Pid, ExecFails(p) PROVE FailPlace'
  <2>1. {queue'[q] : q \in Pid} \subseteq Buffers \cup {Logged(p, "EXEC_FAIL")}
    BY <1>6, QueueStep DEF ExecFails
  <2>2. Saves' = Saves
    BY <1>6 DEF ExecFails, Saves
  <2>3. Queue(p) = << >>
    BY <1>6 DEF ExecFails, Queue, MemoryInv
  <2> QED
    BY <1>2, <2>1, <2>2, <2>3 DEF Buffers
<1>7. ASSUME Quiet PROVE FailPlace'
  <2>1. \A k \in DOMAIN << >> : << >>[k].op = "EXEC_FAIL" => k = 2
    OBVIOUS
  <2> QED
    BY <1>7, <2>1 DEF Quiet, FailPlace
<1>8. ASSUME UNCHANGED vars PROVE FailPlace'
  BY <1>8 DEF vars, FailPlace, Buffers, Saves
<1> QED
  BY <1>3, <1>4, <1>5, <1>6, <1>7, <1>8, QuietSteps DEF Next

LEMMA SaneStep ==
    ASSUME TypeInv, BufferInv, MemoryInv, [Next]_vars, ~uneven => SaneInv
    PROVE  ~uneven' => SaneInv'
<1> SUFFICES ASSUME ~uneven' PROVE SaneInv'
  OBVIOUS
<1>0. ~uneven
  BY DEF Next, Call, ExecHook, ExecFails, Exit, Kill, Dies, Fork, Vfork, ExecSucceeds, Setenv,
         vars, observers
<1>1. SaneInv /\ \A q \in Pid : memory[q] \in Pid
  BY <1>0 DEF TypeInv
<1>2. ASSUME NEW p \in Pid, NEW op \in {"CALL", "EXEC", "EXEC_FAIL", "END"},
             Runs(p) \/ status[p] = "exec"
      PROVE  \A q \in Pid : Alive(q) /\ memory[q] = memory[p] => Logged(p, op)[1].id = id[q]
  <2>1. Logged(p, op)[1] = IF Queue(p) = << >> THEN NewStart(p) ELSE Queue(p)[1]
    BY LoggedIs
  <2>2. NewStart(p).id = id[p] /\ Alive(p)
    BY <1>2 DEF NewStart, Alive, Runs
  <2>3. Logged(p, op)[1].id = id[p]
    BY <1>1, <2>1, <2>2 DEF SaneInv
  <2> QED
    BY <1>2, <2>3, Alone
<1>3. ASSUME NEW p \in Pid, NEW op \in {"CALL", "EXEC", "EXEC_FAIL", "END"},
             Runs(p) \/ status[p] = "exec",
             queue' = WithQueue(p, Logged(p, op)) \/ queue' = WithQueue(p, << >>),
             UNCHANGED <<memory, id>>, \A q \in Pid : Alive(q)' => Alive(q)
      PROVE  SaneInv'
  <2> SUFFICES ASSUME NEW q \in Pid, Alive(q), queue'[memory[q]] # << >>
               PROVE  queue'[memory[q]][1].id = id[q]
    BY <1>3 DEF SaneInv, Queue
  <2>1. CASE memory[q] = memory[p]
    <3>1. queue'[memory[q]] \in {Logged(p, op), << >>}
      BY <1>1, <1>3, <2>1 DEF WithQueue, TypeInv
    <3>2. queue'[memory[q]] = Logged(p, op)
      BY <3>1
    <3> QED
      BY <1>2, <1>3, <2>1, <3>2
  <2>2. CASE memory[q] # memory[p]
    <3>1. queue'[memory[q]] = queue[memory[q]]
      BY <1>1, <1>3, <2>2 DEF WithQueue, TypeInv
    <3> QED
      BY <1>1, <3>1 DEF SaneInv, Queue
  <2> QED
    BY <2>1, <2>2
<1>4. ASSUME NEW p \in Pid, Call(p) PROVE SaneInv'
  BY <1>3, <1>4 DEF Call, Alive, observers
<1>5. ASSUME NEW p \in Pid, ExecHook(p) PROVE SaneInv'
  BY <1>3, <1>5 DEF ExecHook, Flush, Alive, Runs, TypeInv
<1>6. ASSUME NEW p \in Pid, ExecFails(p) PROVE SaneInv'
  BY <1>3, <1>6 DEF ExecFails, Alive, TypeInv
<1>7. ASSUME NEW p \in Pid, Exit(p) PROVE SaneInv'
  BY <1>3, <1>7 DEF Exit, Dies, Flush, Alive, Runs, TypeInv
<1>8. ASSUME NEW p \in Pid, Kill(p) PROVE SaneInv'
  <2>1. /\ UNCHANGED <<memory, id>> /\ \A q \in Pid : Alive(q)' => Alive(q)
        /\ \A q \in Pid : queue'[q] \in {queue[q], << >>}
    BY <1>8 DEF Kill, Dies, Alive, WithQueue, TypeInv
  <2> QED
    BY <1>1, <2>1 DEF SaneInv, Queue
<1>9. ASSUME NEW p \in Pid, NEW c \in Pid, Fork(p, c) \/ Vfork(p, c) PROVE SaneInv'
  <2>1. /\ status[p] = "running" /\ status[c] = "unborn" /\ p # c
        /\ \A q \in Pid : Alive(q)' => Alive(q) \/ q = c
        /\ id'[c] = id[p] /\ \A q \in Pid \ {c} : id'[q] = id[q]
    BY <1>9 DEF Fork, Vfork, Begets, Runs, TypeInv, Alive
  <2>2. /\ \A q \in Pid \ {c} : memory'[q] = memory[q]
        /\ \A q \in Pid \ {c} : queue'[q] = queue[q]
        /\ queue'[memory'[c]] = Queue(p)
    BY <1>1, <1>9, <2>1 DEF Fork, Vfork, TypeInv, MemoryInv, Queue
  <2>3. \A d \in Pid : Alive(d) => d # c /\ memory[d] # c
    <3> SUFFICES ASSUME NEW d \in Pid, Alive(d) PROVE d # c /\ memory[d] # c
      OBVIOUS
    <3>1. d # c
      BY <2>1 DEF Alive
    <3>2. memory[d] # d => status[memory[d]] # "unborn"
      BY DEF MemoryInv
    <3> QED
      BY <2>1, <3>1, <3>2
  <2> SUFFICES ASSUME NEW q \in Pid, Alive(q)', queue'[memory'[q]] # << >>
               PROVE  queue'[memory'[q]][1].id = id'[q]
    BY DEF SaneInv, Queue
  <2>4. CASE q = c
    <3>1. Alive(p) /\ Queue(p) # << >>
      BY <2>1, <2>2, <2>4 DEF Alive
    <3> QED
      BY <1>1, <2>1, <2>2, <2>4, <3>1 DEF SaneInv
  <2>5. CASE q # c
    <3>1. Alive(q) /\ memory'[q] = memory[q] /\ memory[q] # c /\ queue'[memory[q]] = queue[memory[q]]
      BY <1>1, <2>1, <2>2, <2>3, <2>5
    <3> QED
      BY <1>1, <2>1, <2>5, <3>1 DEF SaneInv, Queue
  <2> QED
    BY <2>4, <2>5
<1>10. ASSUME NEW p \in Pid, NEW n \in Id, ExecSucceeds(p, n) PROVE SaneInv'
  <2>1. /\ status[p] = "exec" /\ UNCHANGED queue
        /\ \A q \in Pid \ {p} : memory'[q] = memory[q] /\ id'[q] = id[q]
        /\ \A q \in Pid : Alive(q)' => Alive(q)
        /\ memory'[p] = p
    BY <1>10 DEF ExecSucceeds, Becomes, TypeInv, Alive
  <2>2. queue[p] = << >>
    BY <2>1 DEF MemoryInv
  <2> QED
    BY <1>1, <2>1, <2>2 DEF SaneInv, Queue
<1>11. ASSUME NEW p \in Pid, NEW n \in Id, Setenv(p, n) PROVE SaneInv'
  <2>1. /\ UNCHANGED <<queue, memory, status>> /\ memory[p] = p
        /\ \A q \in Pid \ {p} : id'[q] = id[q]
    BY <1>11 DEF Setenv, Becomes, TypeInv
  <2>2. queue[p] = << >>
    BY <1>11 DEF Setenv, Started
  <2> QED
    BY <1>1, <2>1, <2>2 DEF SaneInv, Queue, Alive
<1>12. ASSUME UNCHANGED vars PROVE SaneInv'
  BY <1>1, <1>12 DEF vars, SaneInv, Queue, Alive
<1> QED
  BY <1>4, <1>5, <1>6, <1>7, <1>8, <1>9, <1>10, <1>11, <1>12 DEF Next
-----------------------------------------------------------------------------
(* Every EXEC_FAIL has an EXEC of its own.                                 *)

\* A buffer with an EXEC_FAIL; an EXEC with stamp t in a file of id n; memories
\* in which an EXEC_FAIL is or may come.
Failing(b) == 2 \in DOMAIN b /\ b[2].op = "EXEC_FAIL"
ExecAt(F, t, n) ==
    \E i \in DOMAIN F : \E k \in DOMAIN F[i][2] :
        F[i][2][k].op = "EXEC" /\ F[i][2][k].ts = t /\ F[i][2][1].id = n
Holds(q, st, mem, m) == Failing(q[m]) \/ \E p \in Pid : st[p] = "exec" /\ mem[p] = m

\* u and v give files and memories the stamps of their EXECs: in a file of the
\* same id, before the EXEC_FAIL, and never the same.
Tickets(u, v, F, q, st, mem, ids, c) ==
    /\ \A i \in DOMAIN F : Failing(F[i][2]) =>
          u[i] \in Nat /\ ExecAt(F, u[i], F[i][2][1].id) /\ u[i] < F[i][2][2].ts
    /\ \A m \in Pid : Failing(q[m]) =>
          v[m] \in Nat /\ ExecAt(F, v[m], q[m][1].id) /\ v[m] < q[m][2].ts
    /\ \A p \in Pid : st[p] = "exec" =>
          v[mem[p]] \in Nat /\ ExecAt(F, v[mem[p]], ids[p]) /\ v[mem[p]] <= 2 * c
    /\ \A i, j \in DOMAIN F : i # j /\ Failing(F[i][2]) /\ Failing(F[j][2]) => u[i] # u[j]
    /\ \A m, o \in Pid : m # o /\ Holds(q, st, mem, m) /\ Holds(q, st, mem, o) => v[m] # v[o]
    /\ \A i \in DOMAIN F, m \in Pid : Failing(F[i][2]) /\ Holds(q, st, mem, m) => u[i] # v[m]
TicketInv == \E u, v : Tickets(u, v, files, queue, status, memory, id, clock)

\* Nothing new holds.
LEMMA TicketsShrink ==
    ASSUME NEW u, NEW v, NEW F, NEW q, NEW st, NEW mem, NEW ids, NEW c \in Nat,
           NEW q2, NEW st2, NEW mem2, NEW ids2, NEW c2 \in Nat, c <= c2,
           \A p \in Pid : mem[p] \in Pid,
           Tickets(u, v, F, q, st, mem, ids, c),
           \A m \in Pid : Failing(q2[m]) =>
               Failing(q[m]) /\ q2[m][1].id = q[m][1].id /\ q2[m][2] = q[m][2],
           \A p \in Pid : st2[p] = "exec" =>
               st[p] = "exec" /\ mem2[p] = mem[p] /\ ids2[p] = ids[p]
    PROVE  Tickets(u, v, F, q2, st2, mem2, ids2, c2)
<1>1. \A m \in Pid : Holds(q2, st2, mem2, m) => Holds(q, st, mem, m)
  BY DEF Holds
<1>2. ASSUME NEW m \in Pid, Failing(q2[m])
      PROVE  v[m] \in Nat /\ ExecAt(F, v[m], q2[m][1].id) /\ v[m] < q2[m][2].ts
  BY <1>2 DEF Tickets
<1>3. ASSUME NEW p \in Pid, st2[p] = "exec"
      PROVE  v[mem2[p]] \in Nat /\ ExecAt(F, v[mem2[p]], ids2[p]) /\ v[mem2[p]] <= 2 * c2
  <2>1. v[mem[p]] \in Nat /\ ExecAt(F, v[mem[p]], ids[p]) /\ v[mem[p]] <= 2 * c
    BY <1>3 DEF Tickets
  <2> QED
    BY <1>3, <2>1
<1>4. \A m, o \in Pid : m # o /\ Holds(q2, st2, mem2, m) /\ Holds(q2, st2, mem2, o) => v[m] # v[o]
  BY <1>1 DEF Tickets
<1>5. \A i \in DOMAIN F, m \in Pid : Failing(F[i][2]) /\ Holds(q2, st2, mem2, m) => u[i] # v[m]
  BY <1>1 DEF Tickets
<1> QED
  BY <1>2, <1>3, <1>4, <1>5 DEF Tickets

\* The process in exec at m queues its EXEC_FAIL.
LEMMA TicketsFail ==
    ASSUME NEW u, NEW v, NEW F, NEW q, NEW st, NEW mem, NEW ids, NEW c \in Nat,
           NEW q2, NEW st2, NEW p \in Pid, NEW m \in Pid, mem[p] = m, st[p] = "exec",
           Tickets(u, v, F, q, st, mem, ids, c),
           \A o \in Pid \ {m} : q2[o] = q[o],
           q2[m][1].id = ids[p] /\ q2[m][2].ts = 2 * (c + 1),
           \A o \in Pid : st2[o] = "exec" => st[o] = "exec"
    PROVE  Tickets(u, v, F, q2, st2, mem, ids, c + 1)
<1>1. \A o \in Pid : Holds(q2, st2, mem, o) => Holds(q, st, mem, o)
  BY DEF Holds
<1>2. v[m] \in Nat /\ ExecAt(F, v[m], ids[p]) /\ v[m] <= 2 * c
  BY DEF Tickets
<1>3. ASSUME NEW o \in Pid, Failing(q2[o])
      PROVE  v[o] \in Nat /\ ExecAt(F, v[o], q2[o][1].id) /\ v[o] < q2[o][2].ts
  <2>1. CASE o = m
    BY <1>2, <2>1
  <2>2. CASE o # m
    BY <1>3, <2>2 DEF Tickets
  <2> QED
    BY <2>1, <2>2
<1>4. ASSUME NEW o \in Pid, st2[o] = "exec"
      PROVE  v[mem[o]] \in Nat /\ ExecAt(F, v[mem[o]], ids[o]) /\ v[mem[o]] <= 2 * (c + 1)
  <2>1. v[mem[o]] \in Nat /\ ExecAt(F, v[mem[o]], ids[o]) /\ v[mem[o]] <= 2 * c
    BY <1>4 DEF Tickets
  <2> QED
    BY <2>1
<1>5. \A k, o \in Pid : k # o /\ Holds(q2, st2, mem, k) /\ Holds(q2, st2, mem, o) => v[k] # v[o]
  BY <1>1 DEF Tickets
<1>6. \A i \in DOMAIN F, o \in Pid : Failing(F[i][2]) /\ Holds(q2, st2, mem, o) => u[i] # v[o]
  BY <1>1 DEF Tickets
<1> QED
  BY <1>3, <1>4, <1>5, <1>6 DEF Tickets

\* File n + 1 takes over the stamp of m, and m gets a new one.
Moves(u, v, n, m, c, u2, v2) ==
    /\ u2[n + 1] = v[m] /\ \A i \in 1..n : u2[i] = u[i]
    /\ v2[m] = 2 * (c + 1) /\ \A o \in Pid \ {m} : v2[o] = v[o]

\* The queue of m is saved as file n + 1; an EXEC gives m a new stamp.
Flushed(F, q, st, mem, ids, c, F2, q2, st2, p, m, n) ==
    /\ mem[p] = m /\ \A o \in Pid : mem[o] \in Pid
    /\ DOMAIN F = 1..n /\ DOMAIN F2 = 1..(n + 1) /\ \A i \in 1..n : F2[i] = F[i]
    /\ Failing(F2[n + 1][2]) =>
          /\ Failing(q[m])
          /\ F2[n + 1][2][1].id = q[m][1].id /\ F2[n + 1][2][2] = q[m][2]
    /\ \A o \in Pid \ {m} : q2[o] = q[o]
    /\ ~Failing(q2[m])
    /\ \A i \in DOMAIN F : Failing(F[i][2]) => F[i][2][2].ts \in Nat /\ F[i][2][2].ts <= 2 * c
    /\ \A o \in Pid : Failing(q[o]) => q[o][2].ts \in Nat /\ q[o][2].ts <= 2 * c
    /\ \A o \in Pid \ {p} : st2[o] = st[o] /\ (st[o] = "exec" => mem[o] # m)
    /\ st2[p] = "exec" => ExecAt(F2, 2 * (c + 1), ids[p])

LEMMA TicketsFlush ==
    ASSUME NEW u, NEW v, NEW F, NEW q, NEW st, NEW mem, NEW ids, NEW c \in Nat,
           NEW F2, NEW q2, NEW st2, NEW p \in Pid, NEW m \in Pid, NEW n \in Nat,
           Tickets(u, v, F, q, st, mem, ids, c),
           Flushed(F, q, st, mem, ids, c, F2, q2, st2, p, m, n)
    PROVE  \E u2, v2 : /\ Tickets(u2, v2, F2, q2, st2, mem, ids, c + 1)
                       /\ Moves(u, v, n, m, c, u2, v2)
<1> DEFINE l == F2[n + 1][2]
<1>0. /\ mem[p] = m /\ \A o \in Pid : mem[o] \in Pid
      /\ DOMAIN F = 1..n /\ DOMAIN F2 = 1..(n + 1) /\ \A i \in 1..n : F2[i] = F[i]
      /\ F2[n + 1][2] = l
      /\ Failing(l) => Failing(q[m]) /\ l[1].id = q[m][1].id /\ l[2] = q[m][2]
      /\ \A o \in Pid \ {m} : q2[o] = q[o]
      /\ ~Failing(q2[m])
      /\ \A i \in DOMAIN F : Failing(F[i][2]) => F[i][2][2].ts \in Nat /\ F[i][2][2].ts <= 2 * c
      /\ \A o \in Pid : Failing(q[o]) => q[o][2].ts \in Nat /\ q[o][2].ts <= 2 * c
      /\ \A o \in Pid \ {p} : st2[o] = st[o] /\ (st[o] = "exec" => mem[o] # m)
      /\ st2[p] = "exec" => ExecAt(F2, 2 * (c + 1), ids[p])
  BY DEF Flushed
<1> HIDE DEF l
<1> USE <1>0
<1> DEFINE u2 == [i \in 1..(n + 1) |-> IF i = n + 1 THEN v[m] ELSE u[i]]
           v2 == [o \in Pid |-> IF o = m THEN 2 * (c + 1) ELSE v[o]]
<1>1. /\ u2[n + 1] = v[m] /\ \A i \in 1..n : i \in 1..(n + 1) /\ i # n + 1 /\ u2[i] = u[i]
      /\ \A i \in 1..(n + 1) : i # n + 1 => i \in 1..n
      /\ n + 1 \in 1..(n + 1)
  OBVIOUS
<1>2. v2[m] = 2 * (c + 1) /\ \A o \in Pid \ {m} : v2[o] = v[o]
  OBVIOUS
<1> HIDE DEF u2, v2
<1>3. \A t, k : ExecAt(F, t, k) => ExecAt(F2, t, k)
  BY <1>1 DEF ExecAt
<1>4. \A o \in Pid \ {m} : Holds(q2, st2, mem, o) => Holds(q, st, mem, o)
  BY DEF Holds
<1>5. Holds(q2, st2, mem, m) => st2[p] = "exec"
  BY DEF Holds
<1>6. \A i \in 1..n : Failing(F[i][2]) => u[i] \in Nat /\ u[i] <= 2 * c
  BY DEF Tickets
<1>7. ASSUME NEW o \in Pid, Holds(q, st, mem, o) PROVE v[o] \in Nat /\ v[o] <= 2 * c
  <2>1. CASE Failing(q[o])
    BY <2>1 DEF Tickets
  <2>2. CASE \E k \in Pid : st[k] = "exec" /\ mem[k] = o
    BY <2>2 DEF Tickets
  <2> QED
    BY <1>7, <2>1, <2>2 DEF Holds
<1>8. Failing(l) => Holds(q, st, mem, m)
  BY DEF Holds
<1>9. ASSUME NEW i \in 1..(n + 1), Failing(F2[i][2])
      PROVE  u2[i] \in Nat /\ ExecAt(F2, u2[i], F2[i][2][1].id) /\ u2[i] < F2[i][2][2].ts
  <2>1. CASE i = n + 1
    <3>1. Failing(q[m]) /\ l[1].id = q[m][1].id /\ l[2] = q[m][2]
      BY <1>9, <2>1
    <3>2. v[m] \in Nat /\ ExecAt(F, v[m], q[m][1].id) /\ v[m] < q[m][2].ts
      BY <3>1 DEF Tickets
    <3> QED
      BY <1>1, <1>3, <2>1, <3>1, <3>2
  <2>2. CASE i # n + 1
    <3>1. i \in 1..n /\ F2[i] = F[i] /\ u2[i] = u[i]
      BY <1>1, <2>2
    <3>2. u[i] \in Nat /\ ExecAt(F, u[i], F[i][2][1].id) /\ u[i] < F[i][2][2].ts
      BY <1>9, <3>1 DEF Tickets
    <3> QED
      BY <1>3, <3>1, <3>2
  <2> QED
    BY <2>1, <2>2
<1>10. ASSUME NEW o \in Pid, Failing(q2[o])
       PROVE  v2[o] \in Nat /\ ExecAt(F2, v2[o], q2[o][1].id) /\ v2[o] < q2[o][2].ts
  <2>1. o # m
    BY <1>10
  <2>2. v[o] \in Nat /\ ExecAt(F, v[o], q[o][1].id) /\ v[o] < q[o][2].ts
    BY <1>10, <2>1 DEF Tickets
  <2> QED
    BY <1>2, <1>3, <2>1, <2>2
<1>11. ASSUME NEW o \in Pid, st2[o] = "exec"
       PROVE  v2[mem[o]] \in Nat /\ ExecAt(F2, v2[mem[o]], ids[o]) /\ v2[mem[o]] <= 2 * (c + 1)
  <2>1. CASE o = p
    BY <1>2, <1>11, <2>1
  <2>2. CASE o # p
    <3>1. st[o] = "exec" /\ mem[o] # m /\ mem[o] \in Pid
      BY <1>11, <2>2
    <3>2. v[mem[o]] \in Nat /\ ExecAt(F, v[mem[o]], ids[o]) /\ v[mem[o]] <= 2 * c
      BY <3>1 DEF Tickets
    <3> QED
      BY <1>2, <1>3, <3>1, <3>2
  <2> QED
    BY <2>1, <2>2
<1>12. ASSUME NEW i \in 1..(n + 1), NEW j \in 1..(n + 1), i # j, Failing(F2[i][2]), Failing(F2[j][2])
       PROVE  u2[i] # u2[j]
  <2>1. CASE i # n + 1 /\ j # n + 1
    <3>1. /\ i \in 1..n /\ F2[i] = F[i] /\ u2[i] = u[i]
          /\ j \in 1..n /\ F2[j] = F[j] /\ u2[j] = u[j]
      BY <1>1, <2>1
    <3> QED
      BY <1>12, <3>1 DEF Tickets
  <2>2. CASE i = n + 1 /\ j # n + 1
    <3>1. u2[i] = v[m] /\ Holds(q, st, mem, m) /\ j \in 1..n /\ F2[j] = F[j] /\ u2[j] = u[j]
      BY <1>1, <1>8, <1>12, <2>2
    <3> QED
      BY <1>12, <3>1 DEF Tickets
  <2>3. CASE i # n + 1 /\ j = n + 1
    <3>1. u2[j] = v[m] /\ Holds(q, st, mem, m) /\ i \in 1..n /\ F2[i] = F[i] /\ u2[i] = u[i]
      BY <1>1, <1>8, <1>12, <2>3
    <3> QED
      BY <1>12, <3>1 DEF Tickets
  <2> QED
    BY <1>12, <2>1, <2>2, <2>3
<1>13. ASSUME NEW k \in Pid, NEW o \in Pid, k # o, Holds(q2, st2, mem, k), Holds(q2, st2, mem, o)
       PROVE  v2[k] # v2[o]
  <2>1. CASE k # m /\ o # m
    BY <1>2, <1>4, <1>13, <2>1 DEF Tickets
  <2>2. CASE k = m
    <3>1. v2[k] = 2 * (c + 1) /\ v2[o] = v[o] /\ v[o] \in Nat /\ v[o] <= 2 * c
      BY <1>2, <1>4, <1>7, <1>13, <2>2
    <3> QED
      BY <3>1
  <2>3. CASE o = m
    <3>1. v2[o] = 2 * (c + 1) /\ v2[k] = v[k] /\ v[k] \in Nat /\ v[k] <= 2 * c
      BY <1>2, <1>4, <1>7, <1>13, <2>3
    <3> QED
      BY <3>1
  <2> QED
    BY <2>1, <2>2, <2>3
<1>14. ASSUME NEW i \in 1..(n + 1), NEW o \in Pid, Failing(F2[i][2]), Holds(q2, st2, mem, o)
       PROVE  u2[i] # v2[o]
  <2>0. u2[i] \in Nat /\ u2[i] <= 2 * c
    <3>1. CASE i = n + 1
      BY <1>1, <1>7, <1>8, <1>14, <3>1
    <3>2. CASE i # n + 1
      BY <1>1, <1>6, <1>14, <3>2
    <3> QED
      BY <3>1, <3>2
  <2>1. CASE o = m
    BY <1>2, <2>0, <2>1
  <2>2. CASE o # m /\ i = n + 1
    <3>1. u2[i] = v[m] /\ v2[o] = v[o] /\ Holds(q, st, mem, m) /\ Holds(q, st, mem, o)
      BY <1>1, <1>2, <1>4, <1>8, <1>14, <2>2
    <3> QED
      BY <2>2, <3>1 DEF Tickets
  <2>3. CASE o # m /\ i # n + 1
    <3>1. i \in 1..n /\ F2[i] = F[i] /\ u2[i] = u[i] /\ v2[o] = v[o] /\ Holds(q, st, mem, o)
      BY <1>1, <1>2, <1>4, <1>14, <2>3
    <3> QED
      BY <1>14, <3>1 DEF Tickets
  <2> QED
    BY <2>1, <2>2, <2>3
<1>15. Tickets(u2, v2, F2, q2, st2, mem, ids, c + 1)
  BY <1>9, <1>10, <1>11, <1>12, <1>13, <1>14 DEF Tickets
<1>16. Moves(u, v, n, m, c, u2, v2)
  BY <1>1, <1>2 DEF Moves
<1> QED
  BY <1>15, <1>16

\* What a step does to the stamps.
Retickets(u, v, u2, v2) ==
    \/ UNCHANGED files /\ u2 = u /\ v2 = v
    \/ \E p \in Pid, n \in Nat : /\ ExecHook(p) \/ Exit(p)
                                /\ DOMAIN files = 1..n
                                /\ Moves(u, v, n, memory[p], clock, u2, v2)

\* When an EXEC_FAIL was stamped, and what one is saved of.
LEMMA FailingWhen ==
    ASSUME TypeInv, BufferInv, NEW h \in Buffers, Failing(h)
    PROVE  h[2].ts \in Nat /\ h[2].ts <= 2 * clock
<1>0. clock \in Nat
  BY DEF TypeInv
<1>1. h \in Seq(StartEvents(clock) \cup OtherEvents(clock)) /\ h # << >>
      /\ \A k \in 2..Len(h) : h[k] \in OtherEvents(clock)
  <2>1. BufferOK(h, clock)
    BY DEF BufferInv
  <2>2. h # << >>
    BY DEF Failing
  <2> QED
    BY <2>1, <2>2 DEF BufferOK
<1>2. 2 \in 2..Len(h)
  BY <1>1 DEF Failing
<1>3. h[2].ts \in {2 * k : k \in 1..clock}
  BY <1>1, <1>2 DEF OtherEvents
<1>4. PICK k \in 1..clock : h[2].ts = 2 * k
  BY <1>3
<1> QED
  BY <1>0, <1>4

LEMMA LoggedFails ==
    ASSUME TypeInv, BufferInv, NEW p \in Pid, NEW op \in {"EXEC", "END"}, Failing(Logged(p, op))
    PROVE  /\ Failing(queue[memory[p]])
           /\ Logged(p, op)[1].id = queue[memory[p]][1].id
           /\ Logged(p, op)[2] = queue[memory[p]][2]
<1> DEFINE l == Logged(p, op)
           b == Queue(p)
           e == [op |-> op, ts |-> 2 * (clock + 1)]
<1>1. /\ b = << >> => DOMAIN l = 1..2 /\ l[1] = NewStart(p) /\ l[2] = e
      /\ b # << >> => /\ Len(b) \in Nat \ {0} /\ DOMAIN b = 1..Len(b)
                      /\ DOMAIN l = 1..(Len(b) + 1) /\ l[Len(b) + 1] = e
                      /\ \A k \in 1..Len(b) : l[k] = b[k]
  BY LoggedShape
<1>2. e.op # "EXEC_FAIL" /\ b = queue[memory[p]] /\ Failing(l)
  BY DEF Queue
<1> HIDE DEF l, e
<1> SUFFICES Failing(b) /\ l[1].id = b[1].id /\ l[2] = b[2]
  BY <1>2 DEF l
<1> HIDE DEF b
<1>3. CASE b = << >>
  BY <1>1, <1>2, <1>3 DEF Failing
<1>4. CASE b # << >>
  <2>1. 2 \in 1..Len(b)
    BY <1>1, <1>2, <1>4 DEF Failing
  <2> QED
    BY <1>1, <1>2, <1>4, <2>1 DEF Failing
<1> QED
  BY <1>3, <1>4

LEMMA TicketFlushes ==
    ASSUME TypeInv, BufferInv, MemoryInv, SaneInv,
           NEW u, NEW v, Tickets(u, v, files, queue, status, memory, id, clock),
           NEW p \in Pid, NEW op \in {"EXEC", "END"}, Flush(p, op), Runs(p), clock' = clock + 1,
           NEW s, status' = [status EXCEPT ![p] = s], s \in {"exec", "dead"},
           s = "exec" => op = "EXEC", UNCHANGED <<memory, id>>
    PROVE  \E u2, v2 : \E n \in Nat :
              /\ Tickets(u2, v2, files', queue', status', memory', id', clock')
              /\ DOMAIN files = 1..n /\ Moves(u, v, n, memory[p], clock, u2, v2)
<1> DEFINE m == memory[p]
           l == Logged(p, op)
           b == Queue(p)
           e == [op |-> op, ts |-> 2 * (clock + 1)]
           F2 == files'
           q2 == queue'
           st2 == status'
<1>1. PICK n \in Nat : DOMAIN files = 1..n
  BY DEF TypeInv
<1>2. Len(files) = n /\ m \in Pid /\ b = queue[m] /\ clock \in Nat
  BY <1>1 DEF TypeInv, Queue
<1>4. /\ DOMAIN F2 = 1..(n + 1) /\ F2[n + 1] = <<segment[p], l>>
      /\ \A i \in 1..n : F2[i] = files[i]
  BY <1>1, <1>2 DEF Flush, Append
<1>5. F2[n + 1][2] = l
  BY <1>4
<1>6. q2[m] = << >> /\ \A o \in Pid \ {m} : q2[o] = queue[o]
  BY <1>2 DEF Flush, WithQueue, TypeInv
<1>7. \A o \in Pid \ {p} : status[o] = "exec" => memory[o] # m
  BY Alone DEF Alive
<1>8. /\ b = << >> => DOMAIN l = 1..2 /\ l[1] = NewStart(p) /\ l[2] = e
      /\ b # << >> => /\ Len(b) \in Nat \ {0} /\ DOMAIN b = 1..Len(b)
                      /\ DOMAIN l = 1..(Len(b) + 1) /\ l[Len(b) + 1] = e
                      /\ \A k \in 1..Len(b) : l[k] = b[k]
  BY LoggedShape
<1>9. e.op = op /\ e.ts = 2 * (clock + 1) /\ NewStart(p).id = id[p] /\ op # "EXEC_FAIL"
  BY DEF NewStart
<1>10. \A h \in Buffers : Failing(h) => h[2].ts \in Nat /\ h[2].ts <= 2 * clock
  BY FailingWhen
<1>11. \A o \in Pid : queue[o] \in Buffers
  BY DEF Buffers
<1>12. \A i \in DOMAIN files : files[i][2] \in Buffers
  BY DEF Buffers, Saves
<1>13. ~Failing(q2[m])
  BY <1>6 DEF Failing
<1>14. \A o \in Pid \ {p} : st2[o] = status[o]
  BY DEF TypeInv
<1>15. st2[p] = s
  BY DEF TypeInv
<1>16. \A o \in Pid : memory[o] \in Pid
  BY DEF TypeInv
<1> HIDE DEF e, l, b
<1>17. Failing(l) => Failing(queue[m]) /\ l[1].id = queue[m][1].id /\ l[2] = queue[m][2]
  BY LoggedFails DEF l, m
<1>18. s = "exec" => ExecAt(F2, 2 * (clock + 1), id[p])
  <2> SUFFICES ASSUME s = "exec" PROVE ExecAt(F2, 2 * (clock + 1), id[p])
    OBVIOUS
  <2>1. \E k \in DOMAIN l : l[k] = e
    BY <1>8
  <2>2. l[1].id = id[p]
    <3>1. CASE b = << >>
      BY <1>8, <1>9, <3>1
    <3>2. CASE b # << >>
      <4>1. b[1].id = id[p]
        BY <3>2 DEF SaneInv, Alive, Runs, b
      <4> QED
        BY <1>8, <3>2, <4>1
    <3> QED
      BY <3>1, <3>2
  <2>3. PICK k \in DOMAIN l : l[k].op = "EXEC" /\ l[k].ts = 2 * (clock + 1)
    BY <1>9, <2>1
  <2>4. n + 1 \in DOMAIN F2
    BY <1>4
  <2> HIDE DEF F2
  <2> QED
    BY <1>5, <2>2, <2>3, <2>4 DEF ExecAt
<1>19. \A i \in DOMAIN files : Failing(files[i][2]) => files[i][2][2].ts \in Nat /\ files[i][2][2].ts <= 2 * clock
  BY <1>10, <1>12
<1>20. \A o \in Pid : Failing(queue[o]) => queue[o][2].ts \in Nat /\ queue[o][2].ts <= 2 * clock
  BY <1>10, <1>11
<1> HIDE DEF F2, q2, st2, m
<1>21. memory[p] = m
  BY DEF m
<1>c. Flushed(files, queue, status, memory, id, clock, F2, q2, st2, p, m, n)
  BY <1>1, <1>4, <1>5, <1>6, <1>7, <1>13, <1>14, <1>15, <1>16, <1>17, <1>18, <1>19, <1>20, <1>21
     DEF Flushed
<1>22. \E u2, v2 : /\ Tickets(u2, v2, F2, q2, st2, memory, id, clock + 1)
                   /\ Moves(u, v, n, m, clock, u2, v2)
  BY <1>2, <1>c, TicketsFlush
<1> QED
  BY <1>1, <1>22 DEF F2, q2, st2, m

LEMMA TicketStep ==
    ASSUME TypeInv, BufferInv, MemoryInv, [Next]_vars, ~uneven => SaneInv, ~uneven',
           NEW u, NEW v, Tickets(u, v, files, queue, status, memory, id, clock)
    PROVE  \E u2, v2 : /\ Tickets(u2, v2, files', queue', status', memory', id', clock')
                       /\ Retickets(u, v, u2, v2)
<1> DEFINE Goal == \E u2, v2 : /\ Tickets(u2, v2, files', queue', status', memory', id', clock')
                               /\ Retickets(u, v, u2, v2)
<1>0. ~uneven
  BY DEF Next, Call, ExecHook, ExecFails, Exit, Kill, Dies, Fork, Vfork, ExecSucceeds, Setenv,
         vars, observers
<1>1. SaneInv /\ clock \in Nat /\ \A q \in Pid : memory[q] \in Pid
  BY <1>0 DEF TypeInv
<1>2. ASSUME Tickets(u, v, files, queue', status', memory', id', clock'), UNCHANGED files PROVE Goal
  BY <1>2 DEF Retickets
<1>3. ASSUME UNCHANGED files, clock' \in Nat, clock <= clock',
             \A m \in Pid : Failing(queue'[m]) =>
                 Failing(queue[m]) /\ queue'[m][1].id = queue[m][1].id /\ queue'[m][2] = queue[m][2],
             \A p \in Pid : status'[p] = "exec" =>
                 status[p] = "exec" /\ memory'[p] = memory[p] /\ id'[p] = id[p]
      PROVE  Goal
  <2> DEFINE q2 == queue'
             st2 == status'
             mem2 == memory'
             ids2 == id'
             c2 == clock'
  <2>1. /\ c2 \in Nat /\ clock <= c2
        /\ \A m \in Pid : Failing(q2[m]) =>
              Failing(queue[m]) /\ q2[m][1].id = queue[m][1].id /\ q2[m][2] = queue[m][2]
        /\ \A p \in Pid : st2[p] = "exec" => status[p] = "exec" /\ mem2[p] = memory[p] /\ ids2[p] = id[p]
    BY <1>3
  <2> HIDE DEF q2, st2, mem2, ids2, c2
  <2>2. Tickets(u, v, files, q2, st2, mem2, ids2, c2)
    BY <1>1, <2>1, TicketsShrink
  <2>3. files' = files
    BY <1>3
  <2> QED
    BY <1>2, <2>2, <2>3 DEF q2, st2, mem2, ids2, c2
<1>4. ASSUME NEW p \in Pid, Call(p) PROVE Goal
  <2>1. /\ UNCHANGED <<files, status, memory, id>> /\ clock' = clock + 1 /\ Queue(p) = << >>
        /\ queue'[memory[p]] = Logged(p, "CALL") /\ \A m \in Pid \ {memory[p]} : queue'[m] = queue[m]
    BY <1>4 DEF Call, Tick, WithQueue, TypeInv, observers
  <2>2. Logged(p, "CALL")[2] = [op |-> "CALL", ts |-> 2 * (clock + 1)]
    BY <2>1, LoggedShape
  <2>3. ~Failing(Logged(p, "CALL"))
    BY <2>2 DEF Failing
  <2>4. \A m \in Pid : Failing(queue'[m]) => queue'[m] = queue[m]
    BY <2>1, <2>3
  <2> QED
    BY <1>1, <1>3, <2>1, <2>4
<1>c. ASSUME NEW p \in Pid, ExecHook(p) \/ Exit(p),
             \E u2, v2 : \E n \in Nat :
                 /\ Tickets(u2, v2, files', queue', status', memory', id', clock')
                 /\ DOMAIN files = 1..n /\ Moves(u, v, n, memory[p], clock, u2, v2)
      PROVE  Goal
  BY <1>c DEF Retickets
<1>5. ASSUME NEW p \in Pid, ExecHook(p) PROVE Goal
  <2>1. /\ Flush(p, "EXEC") /\ Runs(p) /\ clock' = clock + 1 /\ UNCHANGED <<memory, id>>
        /\ status' = [status EXCEPT ![p] = "exec"]
    BY <1>5 DEF ExecHook, Tick
  <2> HIDE DEF Goal
  <2> QED
    BY <1>1, <1>5, <1>c, <2>1, TicketFlushes
<1>6. ASSUME NEW p \in Pid, Exit(p) PROVE Goal
  <2>1. /\ Flush(p, "END") /\ Runs(p) /\ clock' = clock + 1 /\ UNCHANGED <<memory, id>>
        /\ status' = [status EXCEPT ![p] = "dead"]
    BY <1>6 DEF Exit, Dies, Tick
  <2> HIDE DEF Goal
  <2> QED
    BY <1>1, <1>6, <1>c, <2>1, TicketFlushes
<1>7. ASSUME NEW p \in Pid, ExecFails(p) PROVE Goal
  <2> DEFINE m == memory[p]
             l == Logged(p, "EXEC_FAIL")
             q2 == queue'
             st2 == status'
  <2>1. /\ UNCHANGED <<files, memory, id>> /\ clock' = clock + 1 /\ status[p] = "exec"
        /\ m \in Pid /\ q2[m] = l /\ \A o \in Pid \ {m} : q2[o] = queue[o]
        /\ \A o \in Pid : st2[o] = "exec" => status[o] = "exec"
    BY <1>7 DEF ExecFails, Tick, WithQueue, TypeInv
  <2>2. Queue(p) = << >>
    BY <2>1 DEF Queue, MemoryInv
  <2>3. l[1] = NewStart(p) /\ l[2] = [op |-> "EXEC_FAIL", ts |-> 2 * (clock + 1)]
    BY <2>2, LoggedShape
  <2>4. l[1].id = id[p] /\ l[2].ts = 2 * (clock + 1)
    BY <2>3 DEF NewStart
  <2>5. memory[p] = m
    OBVIOUS
  <2> HIDE DEF m, l, q2, st2
  <2>6. Tickets(u, v, files, q2, st2, memory, id, clock + 1)
    BY <1>1, <2>1, <2>4, <2>5, TicketsFail
  <2> QED
    BY <1>2, <2>1, <2>6 DEF q2, st2
<1>8. ASSUME NEW p \in Pid, Kill(p) PROVE Goal
  <2>1. /\ UNCHANGED <<files, memory, id, clock>>
        /\ \A q \in Pid : status'[q] = "exec" => status[q] = "exec"
        /\ \A q \in Pid : queue'[q] \in {queue[q], << >>}
    BY <1>8 DEF Kill, Dies, WithQueue, TypeInv
  <2>2. ~Failing(<< >>)
    BY DEF Failing
  <2>3. \A m \in Pid : Failing(queue'[m]) => queue'[m] = queue[m]
    BY <2>1, <2>2
  <2> QED
    BY <1>1, <1>3, <2>1, <2>3
<1>9. ASSUME NEW p \in Pid, NEW c \in Pid, Fork(p, c) \/ Vfork(p, c) PROVE Goal
  <2>1. /\ UNCHANGED <<files, clock>> /\ status[c] = "unborn" /\ status'[c] = "running"
        /\ \A q \in Pid \ {c} : status'[q] = status[q] /\ id'[q] = id[q] /\ memory'[q] = memory[q]
        /\ \A q \in Pid \ {c} : queue'[q] = queue[q]
    BY <1>9 DEF Fork, Vfork, Begets, TypeInv
  <2>2. Failing(queue'[c]) => queue'[c] = queue[c]
    <3>1. CASE Fork(p, c)
      <4>1. queue'[c] = Queue(p) /\ ~\E i \in DOMAIN Queue(p) : Queue(p)[i].op = "EXEC_FAIL"
        BY <3>1 DEF Fork, TypeInv
      <4> QED
        BY <4>1 DEF Failing
    <3>2. CASE Vfork(p, c)
      BY <3>2 DEF Vfork
    <3> QED
      BY <1>9, <3>1, <3>2
  <2>3. \A m \in Pid : Failing(queue'[m]) => queue'[m] = queue[m]
    BY <2>1, <2>2
  <2>4. \A q \in Pid : status'[q] = "exec" =>
            status[q] = "exec" /\ memory'[q] = memory[q] /\ id'[q] = id[q]
    BY <2>1
  <2> QED
    BY <1>1, <1>3, <2>1, <2>3, <2>4
<1>10. ASSUME NEW p \in Pid, NEW n \in Id, ExecSucceeds(p, n) PROVE Goal
  <2>1. /\ UNCHANGED <<files, clock, queue>> /\ status'[p] = "running"
        /\ \A q \in Pid \ {p} : status'[q] = status[q] /\ id'[q] = id[q] /\ memory'[q] = memory[q]
    BY <1>10 DEF ExecSucceeds, Becomes, TypeInv
  <2>2. \A q \in Pid : status'[q] = "exec" =>
            status[q] = "exec" /\ memory'[q] = memory[q] /\ id'[q] = id[q]
    BY <2>1
  <2> QED
    BY <1>1, <1>3, <2>1, <2>2
<1>11. ASSUME NEW p \in Pid, NEW n \in Id, Setenv(p, n) PROVE Goal
  <2>1. /\ UNCHANGED <<files, clock, queue, status, memory>> /\ status[p] = "running"
        /\ \A q \in Pid \ {p} : id'[q] = id[q]
    BY <1>11 DEF Setenv, Becomes, TypeInv, Runs
  <2>2. \A q \in Pid : status'[q] = "exec" =>
            status[q] = "exec" /\ memory'[q] = memory[q] /\ id'[q] = id[q]
    BY <2>1
  <2> QED
    BY <1>1, <1>3, <2>1, <2>2
<1>12. ASSUME UNCHANGED vars PROVE Goal
  <2>1. UNCHANGED <<files, queue, status, memory, id, clock>>
    BY <1>12 DEF vars
  <2> QED
    BY <1>1, <1>3, <2>1
<1> QED
  BY <1>4, <1>5, <1>6, <1>7, <1>8, <1>9, <1>10, <1>11, <1>12 DEF Next

PopInv == MemoryInv /\ FailPlace /\ (~uneven => SaneInv /\ TicketInv)

LEMMA PopInit == ASSUME Init PROVE PopInv
<1>1. Buffers \subseteq {<< >>}
  BY DEF Init, Buffers, Saves
<1>2. FailPlace
  BY <1>1 DEF FailPlace
<1>3. MemoryInv
  BY DEF Init, MemoryInv, Alive
<1>4. SaneInv
  BY DEF Init, SaneInv, Queue
<1>5. TicketInv
  <2> DEFINE u == [i \in {} |-> 0]
  <2>1. DOMAIN files = {} /\ \A m \in Pid : queue[m] = << >> /\ status[m] # "exec"
    BY DEF Init
  <2>2. ~Failing(<< >>)
    BY DEF Failing
  <2>3. Tickets(u, u, files, queue, status, memory, id, clock)
    BY <2>1, <2>2 DEF Tickets, Holds
  <2> QED
    BY <2>3 DEF TicketInv
<1> QED
  BY <1>2, <1>3, <1>4, <1>5 DEF PopInv

LEMMA PopStep == ASSUME TreeInv, PopInv, [Next]_vars PROVE TreeInv' /\ PopInv'
<1>1. TypeInv /\ BufferInv /\ ParentInv /\ KinInv /\ PairInv
  BY DEF TreeInv
<1>2. TreeInv'
  BY <1>1, TypeStep, BufferStep, ParentStep, KinStep, PairStep DEF TreeInv
<1>3. MemoryInv' /\ FailPlace'
  BY <1>1, MemoryStep, FailPlaceStep DEF PopInv
<1>4. ~uneven' => SaneInv'
  BY <1>1, SaneStep DEF PopInv
<1>5. ASSUME ~uneven' PROVE TicketInv'
  <2>1. ~uneven
    BY <1>5 DEF Next, Call, ExecHook, ExecFails, Exit, Kill, Dies, Fork, Vfork, ExecSucceeds, Setenv,
                vars, observers
  <2>2. PICK u, v : Tickets(u, v, files, queue, status, memory, id, clock)
    BY <2>1 DEF PopInv, TicketInv
  <2>3. \E u2, v2 : Tickets(u2, v2, files', queue', status', memory', id', clock')
    BY <1>1, <1>5, <2>2, TicketStep DEF PopInv
  <2> QED
    BY <2>3 DEF TicketInv
<1> QED
  BY <1>2, <1>3, <1>4, <1>5 DEF PopInv

\* ProcessTree's PopsArePushed: as long as no process changed its environment
\* after its START or forked with an EXEC_FAIL in its queue, no EXEC_FAIL pops an
\* empty stack.
THEOREM PopsTheorem == Spec => []PopsArePushed
<1>1. Init => TreeInv /\ PopInv
  BY TreeInit, PopInit
<1>2. TreeInv /\ PopInv /\ [Next]_vars => TreeInv' /\ PopInv'
  BY PopStep
<1>3. ASSUME TreeInv, PopInv PROVE PopsArePushed
  <2> DEFINE f == [i \in DOMAIN files |-> files[i][2]]
  <2> SUFFICES ASSUME ~uneven PROVE ProcessedData(f, << >>).undefined = FALSE
    BY DEF PopsArePushed
  <2>1. BufferInv /\ clock \in Nat /\ TypeInv /\ FailPlace
    BY <1>3 DEF TreeInv, TypeInv, PopInv
  <2>2. PICK n \in Nat : DOMAIN files = 1..n
    BY <2>1 DEF TypeInv
  <2>3. DOMAIN f = 1..n /\ \A i \in 1..n : f[i] = files[i][2] /\ f[i] \in Saves /\ f[i] \in Buffers
    BY <2>2 DEF Saves, Buffers
  <2> HIDE DEF f
  <2>4. FilesOK(f) /\ \A i \in 1..n : StartOf(f[i]) = f[i][1]
    BY <2>1, <2>3, SavedFiles
  <2>5. PICK u, v : Tickets(u, v, files, queue, status, memory, id, clock)
    BY <1>3 DEF PopInv, TicketInv
  <2> DEFINE P == Places(f)
             Fails(x) == LabelledAt(f, x).event.op = "EXEC_FAIL"
  <2>6. ASSUME NEW x \in P
        PROVE  /\ x = <<x[1], x[2]>> /\ x[1] \in 1..n /\ x[2] \in DOMAIN f[x[1]]
               /\ LabelledAt(f, x).process_id = f[x[1]][1].id
               /\ LabelledAt(f, x).event = f[x[1]][x[2]]
               /\ Ts(f, x) = f[x[1]][x[2]].ts
    BY <2>3, <2>4, PlacesAre DEF LabelledAt, Labelled, Ts
  <2>7. ASSUME NEW x \in P, Fails(x)
        PROVE  /\ x[2] = 2 /\ Failing(f[x[1]])
               /\ \E y \in P : /\ LabelledAt(f, y).event.op = "EXEC"
                               /\ LabelledAt(f, y).process_id = LabelledAt(f, x).process_id
                               /\ Ts(f, y) = u[x[1]] /\ Ts(f, y) < Ts(f, x)
    <3> DEFINE i == x[1]
    <3>1. i \in 1..n /\ x[2] \in DOMAIN f[i] /\ f[i][x[2]].op = "EXEC_FAIL"
      BY <2>6, <2>7
    <3>2. x[2] = 2
      BY <2>1, <2>3, <3>1 DEF FailPlace
    <3>3. Failing(f[i])
      BY <3>1, <3>2 DEF Failing
    <3>4. ExecAt(files, u[i], f[i][1].id) /\ u[i] < f[i][2].ts
      BY <2>2, <2>3, <2>5, <3>1, <3>3 DEF Tickets
    <3>5. PICK j \in 1..n : \E k \in DOMAIN f[j] :
              f[j][k].op = "EXEC" /\ f[j][k].ts = u[i] /\ f[j][1].id = f[i][1].id
      BY <2>2, <2>3, <3>4 DEF ExecAt
    <3>6. PICK k \in DOMAIN f[j] :
              f[j][k].op = "EXEC" /\ f[j][k].ts = u[i] /\ f[j][1].id = f[i][1].id
      BY <3>5
    <3> DEFINE y == <<j, k>>
    <3>7. y \in P /\ y[1] = j /\ y[2] = k
      BY <2>3, <2>4, <3>6, PlacesAre
    <3> HIDE DEF y, P
    <3>8. /\ LabelledAt(f, y).process_id = f[j][1].id /\ LabelledAt(f, y).event = f[j][k]
          /\ Ts(f, y) = f[j][k].ts
      BY <2>6, <3>7
    <3>9. LabelledAt(f, x).process_id = f[i][1].id /\ Ts(f, x) = f[i][2].ts
      BY <2>6, <3>2
    <3> QED
      BY <3>2, <3>3, <3>4, <3>6, <3>7, <3>8, <3>9
  <2> DEFINE push == [x \in P |-> CHOOSE y \in P :
                          /\ LabelledAt(f, y).event.op = "EXEC"
                          /\ LabelledAt(f, y).process_id = LabelledAt(f, x).process_id
                          /\ Ts(f, y) = u[x[1]] /\ Ts(f, y) < Ts(f, x)]
  <2>8. ASSUME NEW x \in P, Fails(x)
        PROVE  /\ push[x] \in P /\ LabelledAt(f, push[x]).event.op = "EXEC"
               /\ LabelledAt(f, push[x]).process_id = LabelledAt(f, x).process_id
               /\ Ts(f, push[x]) = u[x[1]] /\ Ts(f, push[x]) < Ts(f, x)
    BY <2>7, <2>8
  <2> HIDE DEF push
  <2>9. ASSUME NEW x \in P, NEW y \in P, Fails(x), Fails(y), push[x] = push[y] PROVE x = y
    <3>1. u[x[1]] = u[y[1]]
      BY <2>8, <2>9
    <3>2. Failing(f[x[1]]) /\ Failing(f[y[1]]) /\ x[2] = 2 /\ y[2] = 2
      BY <2>7, <2>9
    <3>3. x[1] \in 1..n /\ y[1] \in 1..n /\ x = <<x[1], x[2]>> /\ y = <<y[1], y[2]>>
      BY <2>6
    <3>4. x[1] = y[1]
      BY <2>2, <2>3, <2>5, <3>1, <3>2, <3>3 DEF Tickets
    <3> QED
      BY <3>2, <3>3, <3>4
  <2>10. /\ \A x \in P : Fails(x) =>
               /\ push[x] \in P /\ LabelledAt(f, push[x]).event.op = "EXEC"
               /\ LabelledAt(f, push[x]).process_id = LabelledAt(f, x).process_id
               /\ Ts(f, push[x]) < Ts(f, x)
         /\ \A x, y \in P : (Fails(x) /\ Fails(y) /\ push[x] = push[y]) => x = y
    BY <2>8, <2>9
  <2>11. Pushing(f, push)
    BY <2>10 DEF Pushing
  <2> HIDE DEF P, Fails, f
  <2> QED
    BY <2>4, <2>11, NoEmptyPop
<1> QED
  BY <1>1, <1>2, <1>3, PTL DEF Spec
-----------------------------------------------------------------------------
(* Segments: the one each process is in is its newest, and has no file while *)
(* it runs; no two files are of one segment.                               *)

Segment == [pid : Pid, id : Id, forkedBy : Nat]

SegmentInv ==
    /\ segments \in Seq(Segment)
    /\ segment \in [Pid -> DOMAIN segments]
    /\ \A p \in Pid : status[p] # "unborn" => segments[segment[p]].pid = p
    /\ \A k \in DOMAIN segments :
          /\ status[segments[k].pid] # "unborn"
          /\ k <= segment[segments[k].pid]
          /\ segments[k].forkedBy = segments[segment[segments[k].pid]].forkedBy
          /\ segments[k].forkedBy # 0 => segments[k].forkedBy \in DOMAIN segments
    /\ \A i \in DOMAIN files : files[i][1] \in DOMAIN segments
    /\ \A p \in Pid : status[p] = "running" => \A i \in DOMAIN files : files[i][1] # segment[p]
    /\ \A i, j \in DOMAIN files : files[i][1] = files[j][1] => i = j

LEMMA NewSegmentIs ==
    ASSUME SegmentInv, NEW p \in Pid, NEW n \in Id, NEW f \in Nat, NewSegment(p, n, f)
    PROVE  /\ segments' \in Seq(Segment)
           /\ Len(segments) \in Nat /\ DOMAIN segments = 1..Len(segments)
           /\ DOMAIN segments' = 1..(Len(segments) + 1)
           /\ segments'[Len(segments) + 1].pid = p
           /\ segments'[Len(segments) + 1].id = n
           /\ segments'[Len(segments) + 1].forkedBy = f
           /\ \A k \in DOMAIN segments : segments'[k] = segments[k]
           /\ segment' \in [Pid -> DOMAIN segments']
           /\ segment'[p] = Len(segments) + 1
           /\ \A q \in Pid \ {p} : segment'[q] = segment[q]
<1> DEFINE r == [pid |-> p, id |-> n, forkedBy |-> f]
<1>1. r \in Segment /\ segments' = Append(segments, r)
      /\ segment' = [segment EXCEPT ![p] = Len(segments) + 1]
  BY DEF NewSegment, Segment
<1>2. segments \in Seq(Segment) /\ segment \in [Pid -> DOMAIN segments]
  BY DEF SegmentInv
<1> HIDE DEF r
<1>3. /\ segments' \in Seq(Segment)
      /\ Len(segments) \in Nat /\ DOMAIN segments = 1..Len(segments)
      /\ DOMAIN segments' = 1..(Len(segments) + 1)
      /\ segments'[Len(segments) + 1] = r
      /\ \A k \in DOMAIN segments : segments'[k] = segments[k]
  BY <1>1, <1>2
<1>4. DOMAIN segments \subseteq DOMAIN segments' /\ Len(segments) + 1 \in DOMAIN segments'
  BY <1>3
<1>5. r.pid = p /\ r.id = n /\ r.forkedBy = f
  BY DEF r
<1> QED
  BY <1>1, <1>2, <1>3, <1>4, <1>5

\* A flush appends one file, of the segment of its process.
LEMMA FilesGrow ==
    ASSUME TypeInv, NEW p \in Pid, NEW op, Flush(p, op)
    PROVE  \E n \in Nat :
              /\ DOMAIN files = 1..n /\ DOMAIN files' = 1..(n + 1)
              /\ files'[n + 1][1] = segment[p] /\ files'[n + 1][2] = Logged(p, op)
              /\ \A i \in 1..n : files'[i] = files[i]
<1>1. PICK n \in Nat : DOMAIN files = 1..n
  BY DEF TypeInv
<1>2. Len(files) = n
  BY <1>1
<1>3. DOMAIN files' = 1..(n + 1) /\ files'[n + 1] = <<segment[p], Logged(p, op)>>
      /\ \A i \in 1..n : files'[i] = files[i]
  BY <1>1, <1>2 DEF Flush, Append
<1>4. files'[n + 1][1] = segment[p] /\ files'[n + 1][2] = Logged(p, op)
  BY <1>3
<1> QED
  BY <1>1, <1>3, <1>4

LEMMA SegmentsAre ==
    ASSUME SegmentInv
    PROVE  /\ segments \in Seq(Segment)
           /\ Len(segments) \in Nat /\ DOMAIN segments = 1..Len(segments)
           /\ \A k \in DOMAIN segments : /\ k \in Nat /\ k # 0
                                         /\ segments[k].pid \in Pid /\ segments[k].id \in Id
                                         /\ segments[k].forkedBy \in Nat
           /\ \A p \in Pid : segment[p] \in DOMAIN segments /\ segment[p] \in Nat /\ segment[p] # 0
<1>1. segments \in Seq(Segment) /\ segment \in [Pid -> DOMAIN segments]
  BY DEF SegmentInv
<1>2. Len(segments) \in Nat /\ DOMAIN segments = 1..Len(segments)
  BY <1>1
<1>3. \A k \in DOMAIN segments : segments[k] \in Segment
  BY <1>1
<1>4. \A k \in DOMAIN segments : k \in Nat /\ k # 0
  BY <1>2
<1>5. \A s \in Segment : s.pid \in Pid /\ s.id \in Id /\ s.forkedBy \in Nat
  BY DEF Segment
<1> QED
  BY <1>1, <1>2, <1>3, <1>4, <1>5

LEMMA SegmentStep == ASSUME TypeInv, SegmentInv, [Next]_vars PROVE SegmentInv'
<1>0. /\ segments \in Seq(Segment)
      /\ segment \in [Pid -> DOMAIN segments] /\ DOMAIN segments = 1..Len(segments)
      /\ Len(segments) \in Nat
      /\ \A p \in Pid : segment[p] \in DOMAIN segments /\ segment[p] \in Nat /\ segment[p] # 0
      /\ \A k \in DOMAIN segments : segments[k].pid \in Pid /\ segments[k].forkedBy \in Nat
  BY SegmentsAre DEF SegmentInv
<1>1. ASSUME UNCHANGED <<segments, segment, files>>,
             \A q \in Pid : /\ status[q] = "unborn" <=> status'[q] = "unborn"
                            /\ status'[q] = "running" => status[q] = "running"
      PROVE  SegmentInv'
  BY <1>0, <1>1 DEF SegmentInv
<1>2. ASSUME NEW p \in Pid, NEW op, Flush(p, op), status[p] = "running", UNCHANGED <<segments, segment>>,
             NEW s \in {"exec", "dead"}, status' = [status EXCEPT ![p] = s]
      PROVE  SegmentInv'
  <2>1. PICK n \in Nat : /\ DOMAIN files = 1..n /\ DOMAIN files' = 1..(n + 1)
                         /\ files'[n + 1][1] = segment[p]
                         /\ \A i \in 1..n : files'[i] = files[i]
    BY <1>2, FilesGrow
  <2>2. /\ \A q \in Pid : status[q] = "unborn" <=> status'[q] = "unborn"
        /\ \A q \in Pid : status'[q] = "running" => status[q] = "running" /\ q # p
    BY <1>2 DEF TypeInv
  <2>3. \A i \in DOMAIN files' : i = n + 1 \/ i \in DOMAIN files
    BY <2>1
  <2>4. \A i \in DOMAIN files' : files'[i][1] \in DOMAIN segments
    BY <1>0, <2>1, <2>3 DEF SegmentInv
  <2>5. \A i \in DOMAIN files : files[i][1] # segment[p]
    BY <1>2 DEF SegmentInv
  <2>6. ASSUME NEW q \in Pid, status'[q] = "running", NEW i \in DOMAIN files'
        PROVE  files'[i][1] # segment[q]
    <3>1. segment[q] # segment[p]
      BY <1>2, <2>2, <2>6 DEF SegmentInv
    <3> QED
      BY <2>1, <2>2, <2>3, <2>6, <3>1 DEF SegmentInv
  <2>7. \A i, j \in DOMAIN files' : files'[i][1] = files'[j][1] => i = j
    BY <2>1, <2>3, <2>5 DEF SegmentInv
  <2> QED
    BY <1>0, <1>2, <2>2, <2>4, <2>6, <2>7 DEF SegmentInv
<1>3. ASSUME NEW p \in Pid, NEW n \in Id, NEW f \in Nat, NewSegment(p, n, f), UNCHANGED files,
             \/ status[p] = "unborn" /\ f # 0 /\ f \in DOMAIN segments
             \/ status[p] # "unborn" /\ f = segments[segment[p]].forkedBy,
             status' = [status EXCEPT ![p] = "running"]
      PROVE  SegmentInv'
  <2> DEFINE m == Len(segments)
  <2>1. /\ segments' \in Seq(Segment)
        /\ m \in Nat /\ DOMAIN segments = 1..m /\ DOMAIN segments' = 1..(m + 1)
        /\ segments'[m + 1].pid = p /\ segments'[m + 1].forkedBy = f
        /\ \A k \in DOMAIN segments : segments'[k] = segments[k]
        /\ segment' \in [Pid -> DOMAIN segments']
        /\ segment'[p] = m + 1
        /\ \A q \in Pid \ {p} : segment'[q] = segment[q]
    BY <1>3, NewSegmentIs
  <2>2. status'[p] = "running" /\ \A q \in Pid \ {p} : status'[q] = status[q]
    BY <1>3 DEF TypeInv
  <2> HIDE DEF m
  <2>3. \A k \in DOMAIN segments' : k = m + 1 \/ k \in DOMAIN segments
    BY <2>1
  <2>4. m + 1 \notin DOMAIN segments /\ \A k \in DOMAIN segments : k <= m + 1 /\ k \in DOMAIN segments'
    BY <2>1
  <2>5. ASSUME NEW q \in Pid, status'[q] # "unborn" PROVE segments'[segment'[q]].pid = q
    <3>1. CASE q = p
      BY <2>1, <3>1
    <3>2. CASE q # p
      <4>1. segments[segment[q]].pid = q
        BY <2>2, <2>5, <3>2 DEF SegmentInv
      <4> QED
        BY <1>0, <2>1, <3>2, <4>1
    <3> QED
      BY <3>1, <3>2
  <2>6. ASSUME NEW k \in DOMAIN segments'
        PROVE  /\ status'[segments'[k].pid] # "unborn"
               /\ k <= segment'[segments'[k].pid]
               /\ segments'[k].forkedBy = segments'[segment'[segments'[k].pid]].forkedBy
               /\ segments'[k].forkedBy # 0 => segments'[k].forkedBy \in DOMAIN segments'
    <3>1. CASE k = m + 1
      <4>1. f # 0 => f \in DOMAIN segments
        BY <1>0, <1>3 DEF SegmentInv
      <4> QED
        BY <2>1, <2>2, <2>4, <3>1, <4>1
    <3>2. CASE k \in DOMAIN segments
      <4>1. segments'[k] = segments[k] /\ segments[k].pid \in Pid
        BY <1>0, <2>1, <3>2
      <4>2. /\ status[segments[k].pid] # "unborn"
            /\ k <= segment[segments[k].pid]
            /\ segments[k].forkedBy = segments[segment[segments[k].pid]].forkedBy
            /\ segments[k].forkedBy # 0 => segments[k].forkedBy \in DOMAIN segments
        BY <3>2 DEF SegmentInv
      <4>3. CASE segments[k].pid = p
        <5>1. f = segments[segment[p]].forkedBy
          BY <1>3, <4>2, <4>3
        <5> QED
          BY <2>1, <2>2, <2>4, <3>2, <4>1, <4>2, <4>3, <5>1
      <4>4. CASE segments[k].pid # p
        <5>1. segment[segments[k].pid] \in DOMAIN segments
          BY <1>0, <4>1
        <5> QED
          BY <2>1, <2>2, <2>4, <3>2, <4>1, <4>2, <4>4, <5>1
      <4> QED
        BY <4>3, <4>4
    <3> QED
      BY <2>3, <3>1, <3>2
  <2>7. \A i \in DOMAIN files : files[i][1] \in DOMAIN segments
    BY DEF SegmentInv
  <2>8. ASSUME NEW q \in Pid, status'[q] = "running", NEW i \in DOMAIN files
        PROVE  files[i][1] # segment'[q]
    <3>1. CASE q = p
      BY <2>1, <2>4, <2>7, <3>1
    <3>2. CASE q # p
      BY <2>1, <2>2, <2>8, <3>2 DEF SegmentInv
    <3> QED
      BY <3>1, <3>2
  <2>9. \A i, j \in DOMAIN files : files[i][1] = files[j][1] => i = j
    BY DEF SegmentInv
  <2> QED
    BY <1>3, <2>1, <2>4, <2>5, <2>6, <2>7, <2>8, <2>9 DEF SegmentInv
<1>4. ASSUME NEW p \in Pid, NEW n \in Id, segments' = [segments EXCEPT ![segment[p]].id = n],
             UNCHANGED <<segment, files, status>>
      PROVE  SegmentInv'
  <2>1. segments' \in Seq(Segment) /\ DOMAIN segments' = DOMAIN segments
    <3>1. segments[segment[p]] \in Segment
      BY <1>0
    <3>2. [segments[segment[p]] EXCEPT !.id = n] \in Segment
      BY <3>1 DEF Segment
    <3>3. segments' = [segments EXCEPT ![segment[p]] = [segments[segment[p]] EXCEPT !.id = n]]
      BY <1>4
    <3>4. segment[p] \in 1..Len(segments)
      BY <1>0
    <3> QED
      BY <1>0, <3>2, <3>3, <3>4
  <2>2. \A k \in DOMAIN segments :
            segments'[k].pid = segments[k].pid /\ segments'[k].forkedBy = segments[k].forkedBy
    BY <1>0, <1>4
  <2>3. \A k \in DOMAIN segments : segments[k].pid \in Pid /\ segment[segments[k].pid] \in DOMAIN segments
    BY <1>0
  <2> QED
    BY <1>0, <1>4, <2>1, <2>2, <2>3 DEF SegmentInv
<1>5. ASSUME NEW p \in Pid, Call(p) PROVE SegmentInv'
  BY <1>1, <1>5 DEF Call, observers
<1>6. ASSUME NEW p \in Pid, ExecHook(p) PROVE SegmentInv'
  BY <1>2, <1>6 DEF ExecHook, Runs
<1>7. ASSUME NEW p \in Pid, Exit(p) PROVE SegmentInv'
  BY <1>2, <1>7 DEF Exit, Dies, Runs, observers
<1>8. ASSUME NEW p \in Pid, Kill(p) PROVE SegmentInv'
  BY <1>1, <1>8 DEF Kill, Dies, observers, TypeInv
<1>9. ASSUME NEW p \in Pid, NEW c \in Pid, Fork(p, c) \/ Vfork(p, c) PROVE SegmentInv'
  <2>1. /\ NewSegment(c, id[p], segment[p]) /\ status[c] = "unborn" /\ UNCHANGED files
        /\ status' = [status EXCEPT ![c] = "running"]
    BY <1>9 DEF Fork, Vfork, Begets
  <2>2. id[p] \in Id /\ segment[p] \in DOMAIN segments /\ segment[p] \in Nat /\ segment[p] # 0
    BY <1>0 DEF TypeInv
  <2> QED
    BY <1>3, <2>1, <2>2
<1>10. ASSUME NEW p \in Pid, NEW n \in Id, ExecSucceeds(p, n) PROVE SegmentInv'
  <2>1. segments[segment[p]].forkedBy \in Nat
    BY <1>0
  <2> QED
    BY <1>3, <1>10, <2>1 DEF ExecSucceeds
<1>11. ASSUME NEW p \in Pid, ExecFails(p) PROVE SegmentInv'
  <2>1. segments[segment[p]].forkedBy \in Nat /\ id[p] \in Id
    BY <1>0 DEF TypeInv
  <2> QED
    BY <1>3, <1>11, <2>1 DEF ExecFails
<1>12. ASSUME NEW p \in Pid, NEW n \in Id, Setenv(p, n) PROVE SegmentInv'
  BY <1>1, <1>4, <1>12 DEF Setenv
<1>13. ASSUME UNCHANGED vars PROVE SegmentInv'
  BY <1>1, <1>13 DEF vars, observers
<1> QED
  BY <1>5, <1>6, <1>7, <1>8, <1>9, <1>10, <1>11, <1>12, <1>13 DEF Next
-----------------------------------------------------------------------------
(* Files end in an EXEC or END, each later than the one before; an exec under *)
(* way and one that succeeded has the file that its EXEC ended.            *)

End(b) == b[Len(b)]
ExecFile(F, i, s) == F[i][1] = s /\ End(F[i][2]).op = "EXEC"

EndInv ==
    /\ \A i \in DOMAIN files : /\ End(files[i][2]).op \in {"EXEC", "END"}
                               /\ End(files[i][2]).ts \in Nat /\ End(files[i][2]).ts <= 2 * clock
    /\ \A i, j \in DOMAIN files : i < j => End(files[i][2]).ts < End(files[j][2]).ts
    /\ \A p \in Pid : status[p] = "exec" => \E i \in DOMAIN files : ExecFile(files, i, segment[p])
    /\ \A x \in execs : /\ x.from \in DOMAIN segments /\ x.to \in DOMAIN segments /\ x.from < x.to
                        /\ segments[x.from].pid = segments[x.to].pid
                        /\ \E i \in DOMAIN files : ExecFile(files, i, x.from)

LEMMA LoggedEnd ==
    ASSUME TypeInv, BufferInv, NEW p \in Pid, NEW op \in {"CALL", "EXEC", "EXEC_FAIL", "END"}
    PROVE  End(Logged(p, op)) = [op |-> op, ts |-> 2 * (clock + 1)]
<1> DEFINE l == Logged(p, op)
           b == Queue(p)
           e == [op |-> op, ts |-> 2 * (clock + 1)]
<1>1. /\ b = << >> => DOMAIN l = 1..2 /\ l[2] = e
      /\ b # << >> => /\ Len(b) \in Nat \ {0}
                      /\ DOMAIN l = 1..(Len(b) + 1) /\ l[Len(b) + 1] = e
  BY LoggedShape
<1> HIDE DEF l, b, e
<1>2. CASE b = << >>
  <2>1. Len(l) = 2
    BY <1>1, <1>2
  <2> QED
    BY <1>1, <1>2, <2>1 DEF End, l, e
<1>3. CASE b # << >>
  <2>1. Len(l) = Len(b) + 1
    BY <1>1, <1>3
  <2> QED
    BY <1>1, <1>3, <2>1 DEF End, l, e
<1> QED
  BY <1>2, <1>3

LEMMA EndStep == ASSUME TypeInv, BufferInv, SegmentInv, EndInv, [Next]_vars PROVE EndInv'
<1>0. /\ clock \in Nat /\ DOMAIN segments = 1..Len(segments) /\ Len(segments) \in Nat
      /\ \A q \in Pid : segment[q] \in DOMAIN segments
  BY SegmentsAre DEF TypeInv
<1>1. ASSUME UNCHANGED <<files, segment, execs>>, clock' \in Nat, clock <= clock',
             \A q \in Pid : status'[q] = "exec" => status[q] = "exec",
             DOMAIN segments' = DOMAIN segments,
             \A k \in DOMAIN segments : segments'[k].pid = segments[k].pid
      PROVE  EndInv'
  <2>1. \A i \in DOMAIN files : End(files[i][2]).ts <= 2 * clock'
    BY <1>0, <1>1 DEF EndInv
  <2> QED
    BY <1>1, <2>1 DEF EndInv
<1>2. ASSUME NEW p \in Pid, NEW op \in {"EXEC", "END"}, Flush(p, op), clock' = clock + 1,
             UNCHANGED <<segment, segments, execs>>,
             \A q \in Pid : status'[q] = "exec" => status[q] = "exec" \/ (q = p /\ op = "EXEC")
      PROVE  EndInv'
  <2> DEFINE F == files'
             l == Logged(p, op)
  <2>1. PICK n \in Nat : /\ DOMAIN files = 1..n /\ DOMAIN F = 1..(n + 1)
                         /\ F[n + 1][1] = segment[p] /\ F[n + 1][2] = l
                         /\ \A i \in 1..n : F[i] = files[i]
    BY <1>2, FilesGrow
  <2>2. End(l).op = op /\ End(l).ts = 2 * (clock + 1)
    BY LoggedEnd
  <2> HIDE DEF F, l
  <2>3. \A i \in DOMAIN F : i = n + 1 \/ (i \in DOMAIN files /\ F[i] = files[i] /\ i <= n)
    BY <2>1
  <2>4. \A i \in DOMAIN files : i \in DOMAIN F /\ F[i] = files[i]
    BY <2>1
  <2>5. ASSUME NEW i \in DOMAIN F
        PROVE  /\ End(F[i][2]).op \in {"EXEC", "END"}
               /\ End(F[i][2]).ts \in Nat /\ End(F[i][2]).ts <= 2 * (clock + 1)
    <3>1. CASE i = n + 1
      BY <1>0, <2>1, <2>2, <3>1
    <3>2. CASE i # n + 1
      <4>1. /\ End(F[i][2]).op \in {"EXEC", "END"}
            /\ End(F[i][2]).ts \in Nat /\ End(F[i][2]).ts <= 2 * clock
        BY <2>3, <3>2 DEF EndInv
      <4> QED
        BY <1>0, <4>1
    <3> QED
      BY <3>1, <3>2
  <2>6. ASSUME NEW i \in DOMAIN F, NEW j \in DOMAIN F, i < j
        PROVE  End(F[i][2]).ts < End(F[j][2]).ts
    <3>1. i \in DOMAIN files /\ F[i] = files[i]
      BY <2>1, <2>3, <2>6
    <3>2. CASE j = n + 1
      <4>1. End(F[i][2]).ts \in Nat /\ End(F[i][2]).ts <= 2 * clock
        BY <3>1 DEF EndInv
      <4> QED
        BY <1>0, <2>1, <2>2, <3>2, <4>1
    <3>3. CASE j # n + 1
      BY <2>3, <2>6, <3>1, <3>3 DEF EndInv
    <3> QED
      BY <3>2, <3>3
  <2>7. \A i \in DOMAIN files : \A s : ExecFile(files, i, s) => i \in DOMAIN F /\ ExecFile(F, i, s)
    BY <2>4 DEF ExecFile
  <2>8. op = "EXEC" => n + 1 \in DOMAIN F /\ ExecFile(F, n + 1, segment[p])
    BY <2>1, <2>2 DEF ExecFile
  <2>9. ASSUME NEW q \in Pid, status'[q] = "exec" PROVE \E i \in DOMAIN F : ExecFile(F, i, segment[q])
    BY <1>2, <2>7, <2>8, <2>9 DEF EndInv
  <2>10. ASSUME NEW x \in execs PROVE \E i \in DOMAIN F : ExecFile(F, i, x.from)
    BY <2>7 DEF EndInv
  <2>11. \A x \in execs : /\ x.from \in DOMAIN segments /\ x.to \in DOMAIN segments /\ x.from < x.to
                          /\ segments[x.from].pid = segments[x.to].pid
    BY DEF EndInv
  <2> QED
    BY <1>2, <2>5, <2>6, <2>9, <2>10, <2>11 DEF EndInv, F
<1>3. ASSUME NEW p \in Pid, NEW n \in Id, NEW f \in Nat, NewSegment(p, n, f), UNCHANGED files,
             clock' \in Nat, clock <= clock',
             status' = [status EXCEPT ![p] = "running"],
             \/ UNCHANGED execs
             \/ /\ execs' = execs \cup {[from |-> segment[p], to |-> Len(segments) + 1]}
                /\ status[p] = "exec"
      PROVE  EndInv'
  <2> DEFINE m == Len(segments)
             x0 == [from |-> segment[p], to |-> m + 1]
  <2>1. /\ DOMAIN segments' = 1..(m + 1)
        /\ segments'[m + 1].pid = p
        /\ \A k \in DOMAIN segments : segments'[k] = segments[k]
        /\ segment'[p] = m + 1
        /\ \A q \in Pid \ {p} : segment'[q] = segment[q]
    BY <1>3, NewSegmentIs
  <2>2. \A k \in DOMAIN segments : k \in DOMAIN segments' /\ k < m + 1
    BY <1>0, <2>1
  <2>3. status'[p] = "running" /\ \A q \in Pid \ {p} : status'[q] = status[q]
    BY <1>3 DEF TypeInv
  <2>4. \A i \in DOMAIN files : End(files[i][2]).ts <= 2 * clock'
    BY <1>0, <1>3 DEF EndInv
  <2>5. ASSUME NEW q \in Pid, status'[q] = "exec" PROVE \E i \in DOMAIN files : ExecFile(files, i, segment'[q])
    BY <2>1, <2>3, <2>5 DEF EndInv
  <2>6. ASSUME NEW x \in execs'
        PROVE  /\ x.from \in DOMAIN segments' /\ x.to \in DOMAIN segments' /\ x.from < x.to
               /\ segments'[x.from].pid = segments'[x.to].pid
               /\ \E i \in DOMAIN files : ExecFile(files, i, x.from)
    <3>1. CASE x \in execs
      <4>1. /\ x.from \in DOMAIN segments /\ x.to \in DOMAIN segments /\ x.from < x.to
            /\ segments[x.from].pid = segments[x.to].pid
            /\ \E i \in DOMAIN files : ExecFile(files, i, x.from)
        BY <3>1 DEF EndInv
      <4> QED
        BY <2>1, <2>2, <4>1
    <3>2. CASE x = x0 /\ status[p] = "exec"
      <4>1. x.from = segment[p] /\ x.to = m + 1
        BY <3>2
      <4>2. \E i \in DOMAIN files : ExecFile(files, i, segment[p])
        BY <3>2 DEF EndInv
      <4>3. segments[segment[p]].pid = p
        BY <3>2 DEF SegmentInv
      <4>4. m + 1 \in DOMAIN segments'
        BY <1>0, <2>1
      <4> HIDE DEF m, x0
      <4> QED
        BY <1>0, <2>1, <2>2, <4>1, <4>2, <4>3, <4>4
    <3> QED
      BY <1>3, <2>6, <3>1, <3>2
  <2>7. /\ \A i \in DOMAIN files : End(files[i][2]).op \in {"EXEC", "END"} /\ End(files[i][2]).ts \in Nat
        /\ \A i, j \in DOMAIN files : i < j => End(files[i][2]).ts < End(files[j][2]).ts
    BY DEF EndInv
  <2> QED
    BY <1>3, <2>4, <2>5, <2>6, <2>7 DEF EndInv
<1>4. ASSUME NEW p \in Pid, Call(p) PROVE EndInv'
  BY <1>0, <1>1, <1>4 DEF Call, Tick, observers
<1>5. ASSUME NEW p \in Pid, ExecHook(p) PROVE EndInv'
  <2>1. \A q \in Pid : status'[q] = "exec" => status[q] = "exec" \/ q = p
    BY <1>5 DEF ExecHook, TypeInv
  <2> QED
    BY <1>2, <1>5, <2>1 DEF ExecHook, Tick
<1>6. ASSUME NEW p \in Pid, Exit(p) PROVE EndInv'
  <2>1. \A q \in Pid : status'[q] = "exec" => status[q] = "exec"
    BY <1>6 DEF Exit, Dies, TypeInv
  <2> QED
    BY <1>2, <1>6, <2>1 DEF Exit, Dies, Tick, observers
<1>7. ASSUME NEW p \in Pid, Kill(p) PROVE EndInv'
  BY <1>0, <1>1, <1>7 DEF Kill, Dies, observers, TypeInv
<1>8. ASSUME NEW p \in Pid, NEW c \in Pid, Fork(p, c) \/ Vfork(p, c) PROVE EndInv'
  <2>1. id[p] \in Id /\ segment[p] \in Nat
    BY SegmentsAre DEF TypeInv
  <2> QED
    BY <1>0, <1>3, <1>8, <2>1 DEF Fork, Vfork, Begets
<1>9. ASSUME NEW p \in Pid, NEW n \in Id, ExecSucceeds(p, n) PROVE EndInv'
  <2> DEFINE f == segments[segment[p]].forkedBy
  <2>1. f \in Nat
    BY SegmentsAre
  <2>2. /\ NewSegment(p, n, f) /\ UNCHANGED <<files, clock>> /\ status[p] = "exec"
        /\ status' = [status EXCEPT ![p] = "running"]
        /\ execs' = execs \cup {[from |-> segment[p], to |-> Len(segments) + 1]}
    BY <1>9 DEF ExecSucceeds
  <2>3. clock' \in Nat /\ clock <= clock'
    BY <1>0, <2>2
  <2> HIDE DEF f
  <2> QED
    BY <1>3, <2>1, <2>2, <2>3
<1>10. ASSUME NEW p \in Pid, ExecFails(p) PROVE EndInv'
  <2> DEFINE f == segments[segment[p]].forkedBy
  <2>1. f \in Nat /\ id[p] \in Id
    BY SegmentsAre DEF TypeInv
  <2>2. /\ NewSegment(p, id[p], f) /\ UNCHANGED <<files, execs>> /\ clock' = clock + 1
        /\ status' = [status EXCEPT ![p] = "running"]
    BY <1>10 DEF ExecFails, Tick
  <2>3. clock' \in Nat /\ clock <= clock'
    BY <1>0, <2>2
  <2> HIDE DEF f
  <2> QED
    BY <1>3, <2>1, <2>2, <2>3
<1>11. ASSUME NEW p \in Pid, NEW n \in Id, Setenv(p, n) PROVE EndInv'
  <2>1. DOMAIN segments' = DOMAIN segments /\ \A k \in DOMAIN segments : segments'[k].pid = segments[k].pid
    <3>1. CASE segments' = [segments EXCEPT ![segment[p]].id = n]
      BY <1>0, <3>1
    <3>2. CASE UNCHANGED segments
      BY <3>2
    <3> QED
      BY <1>11, <3>1, <3>2 DEF Setenv
  <2> QED
    BY <1>0, <1>1, <1>11, <2>1 DEF Setenv
<1>12. ASSUME UNCHANGED vars PROVE EndInv'
  BY <1>0, <1>1, <1>12 DEF vars, observers
<1> QED
  BY <1>4, <1>5, <1>6, <1>7, <1>8, <1>9, <1>10, <1>11, <1>12 DEF Next
-----------------------------------------------------------------------------
(* What each step does, as the invariants below see it.                    *)

Starts == StartsOf(Buffers)
Base == TypeInv /\ BufferInv /\ MemoryInv /\ SegmentInv /\ EndInv

\* A buffer that q begins.
Begun(b, q) == b # << >> /\ b[1] = NewStart(q)

LEMMA CallIs ==
    ASSUME Base, NEW q \in Pid, Call(q)
    PROVE  /\ UNCHANGED <<status, id, parent, memory, files, segment, segments, execs, crossed, uneven>>
           /\ clock' = clock + 1 /\ status[q] = "running" /\ Runs(q)
           /\ memory[q] \in Pid /\ queue[memory[q]] = << >>
           /\ Begun(queue'[memory[q]], q) /\ ~Failing(queue'[memory[q]])
           /\ \A o \in Pid \ {memory[q]} : queue'[o] = queue[o]
           /\ Starts' \subseteq Starts \cup {NewStart(q)}
<1>0. TypeInv /\ BufferInv
  BY DEF Base
<1>1. /\ UNCHANGED <<status, id, parent, memory, files, segment, segments, execs, crossed, uneven>>
      /\ clock' = clock + 1 /\ status[q] = "running" /\ Runs(q)
      /\ memory[q] \in Pid /\ queue[memory[q]] = << >> /\ Queue(q) = << >>
      /\ queue' = WithQueue(q, Logged(q, "CALL"))
  BY <1>0 DEF Call, Runs, Tick, TypeInv, observers, Queue
<1>2. /\ queue'[memory[q]] = Logged(q, "CALL")
      /\ \A o \in Pid \ {memory[q]} : queue'[o] = queue[o]
  BY <1>0, <1>1 DEF WithQueue, TypeInv
<1>3. Begun(Logged(q, "CALL"), q)
  BY <1>0, <1>1, LoggedIs DEF Begun
<1>4. ~Failing(Logged(q, "CALL"))
  <2>1. Logged(q, "CALL")[2] = [op |-> "CALL", ts |-> 2 * (clock + 1)]
    BY <1>0, <1>1, LoggedShape
  <2> QED
    BY <2>1 DEF Failing
<1>5. Stamps(q, "CALL")
  <2>1. {queue'[o] : o \in Pid} \subseteq Buffers \cup {Logged(q, "CALL")}
    BY <1>0, <1>1, QueueStep
  <2>2. Saves' = Saves
    BY <1>1 DEF Saves
  <2> QED
    BY <2>1, <2>2 DEF Call, Stamps, Tick, Runs, Buffers, observers
<1> QED
  BY <1>0, <1>1, <1>2, <1>3, <1>4, <1>5, StartsAre DEF Starts

\* The process that saves a file of its segment, and what becomes of it.
Flushes(q, op, s) == \/ ExecHook(q) /\ op = "EXEC" /\ s = "exec"
                     \/ Exit(q) /\ op = "END" /\ s = "dead"

LEMMA FlushIs ==
    ASSUME Base, NEW q \in Pid, NEW op, NEW s, Flushes(q, op, s)
    PROVE  /\ Flush(q, op) /\ Runs(q) /\ status[q] = "running" /\ clock' = clock + 1
           /\ status' = [status EXCEPT ![q] = s] /\ status'[q] = s
           /\ \A o \in Pid \ {q} : status'[o] = status[o]
           /\ UNCHANGED <<id, memory, segment, segments, execs, uneven>>
           /\ memory[q] \in Pid /\ queue'[memory[q]] = << >>
           /\ \A o \in Pid \ {memory[q]} : queue'[o] = queue[o]
           /\ Starts' \subseteq Starts \cup {NewStart(q)}
           /\ \E n \in Nat :
                 /\ DOMAIN files = 1..n /\ DOMAIN files' = 1..(n + 1)
                 /\ files'[n + 1][1] = segment[q]
                 /\ files'[n + 1][2][1] = IF queue[memory[q]] = << >> THEN NewStart(q)
                                          ELSE queue[memory[q]][1]
                 /\ End(files'[n + 1][2]).op = op /\ End(files'[n + 1][2]).ts = 2 * (clock + 1)
                 /\ \A i \in 1..n : files'[i] = files[i]
<1>0. TypeInv /\ BufferInv /\ op \in {"CALL", "EXEC", "EXEC_FAIL", "END"}
  BY DEF Base, Flushes
<1>1. /\ Flush(q, op) /\ Runs(q) /\ status[q] = "running" /\ clock' = clock + 1
      /\ status' = [status EXCEPT ![q] = s]
      /\ UNCHANGED <<id, memory, segment, segments, execs, uneven>>
  BY DEF Flushes, ExecHook, Exit, Dies, Tick, Runs, observers
<1>2. status'[q] = s /\ \A o \in Pid \ {q} : status'[o] = status[o]
  BY <1>0, <1>1 DEF TypeInv
<1>3. /\ memory[q] \in Pid /\ queue'[memory[q]] = << >>
      /\ \A o \in Pid \ {memory[q]} : queue'[o] = queue[o]
  BY <1>0, <1>1 DEF TypeInv, Flush, WithQueue
<1>4. PICK n \in Nat : /\ DOMAIN files = 1..n /\ DOMAIN files' = 1..(n + 1)
                       /\ files'[n + 1][1] = segment[q] /\ files'[n + 1][2] = Logged(q, op)
                       /\ \A i \in 1..n : files'[i] = files[i]
  BY <1>0, <1>1, FilesGrow
<1>5. Logged(q, op)[1] = IF queue[memory[q]] = << >> THEN NewStart(q) ELSE queue[memory[q]][1]
  BY <1>0, LoggedIs DEF Queue
<1>6. End(Logged(q, op)).op = op /\ End(Logged(q, op)).ts = 2 * (clock + 1)
  BY <1>0, LoggedEnd
<1>7. Stamps(q, op)
  <2>1. \A o \in Pid : parent'[o] \in {parent[o], Outside}
    BY <1>0 DEF Flushes, ExecHook, Exit, Dies, TypeInv
  <2>2. s # "unborn" /\ UNCHANGED <<descent, descends>>
    BY DEF Flushes, ExecHook, Exit, Dies, observers
  <2>3. \A o \in Pid : status'[o] = "unborn" <=> status[o] = "unborn"
    BY <1>1, <1>2, <2>2
  <2> QED
    BY <1>0, <1>1, <2>1, <2>2, <2>3, FlushStep DEF Stamps
<1>8. Starts' \subseteq Starts \cup {NewStart(q)}
  BY <1>0, <1>7, StartsAre DEF Starts
<1> QED
  BY <1>1, <1>2, <1>3, <1>4, <1>5, <1>6, <1>8

\* The newest segment is that of q; the others are as they were.
Enters(q, n, f) ==
    /\ Len(segments) \in Nat /\ DOMAIN segments = 1..Len(segments)
    /\ DOMAIN segments' = 1..(Len(segments) + 1)
    /\ segments'[Len(segments) + 1].pid = q
    /\ segments'[Len(segments) + 1].id = n
    /\ segments'[Len(segments) + 1].forkedBy = f
    /\ \A k \in DOMAIN segments : segments'[k] = segments[k]
    /\ segment'[q] = Len(segments) + 1
    /\ \A o \in Pid \ {q} : segment'[o] = segment[o]

LEMMA FailIs ==
    ASSUME Base, NEW q \in Pid, ExecFails(q)
    PROVE  /\ UNCHANGED <<id, parent, memory, files, execs, crossed, uneven>>
           /\ clock' = clock + 1 /\ status[q] = "exec" /\ status'[q] = "running"
           /\ \A o \in Pid \ {q} : status'[o] = status[o]
           /\ memory[q] \in Pid /\ queue[memory[q]] = << >>
           /\ Begun(queue'[memory[q]], q)
           /\ queue'[memory[q]][2] = [op |-> "EXEC_FAIL", ts |-> 2 * (clock + 1)]
           /\ \A o \in Pid \ {memory[q]} : queue'[o] = queue[o]
           /\ Starts' \subseteq Starts \cup {NewStart(q)}
           /\ Enters(q, id[q], segments[segment[q]].forkedBy)
<1>0. TypeInv /\ BufferInv /\ MemoryInv /\ SegmentInv
  BY DEF Base
<1>1. /\ UNCHANGED <<id, parent, memory, files, execs, crossed, uneven, descent, descends>>
      /\ clock' = clock + 1 /\ status[q] = "exec"
      /\ status' = [status EXCEPT ![q] = "running"]
      /\ queue' = WithQueue(q, Logged(q, "EXEC_FAIL"))
      /\ NewSegment(q, id[q], segments[segment[q]].forkedBy)
  BY DEF ExecFails, Tick
<1>2. /\ status'[q] = "running" /\ \A o \in Pid \ {q} : status'[o] = status[o]
      /\ memory[q] \in Pid /\ queue[memory[q]] = << >> /\ Queue(q) = << >>
      /\ queue'[memory[q]] = Logged(q, "EXEC_FAIL")
      /\ \A o \in Pid \ {memory[q]} : queue'[o] = queue[o]
  BY <1>0, <1>1 DEF WithQueue, TypeInv, MemoryInv, Queue
<1>3. Begun(Logged(q, "EXEC_FAIL"), q)
  BY <1>0, <1>2, LoggedIs DEF Begun
<1>4. Logged(q, "EXEC_FAIL")[2] = [op |-> "EXEC_FAIL", ts |-> 2 * (clock + 1)]
  BY <1>0, <1>2, LoggedShape
<1>5. Stamps(q, "EXEC_FAIL")
  <2>1. {queue'[o] : o \in Pid} \subseteq Buffers \cup {Logged(q, "EXEC_FAIL")}
    BY <1>0, <1>1, QueueStep
  <2>2. Saves' = Saves
    BY <1>1 DEF Saves
  <2> QED
    BY <1>1, <1>2, <2>1, <2>2 DEF Stamps, Buffers
<1>6. Starts' \subseteq Starts \cup {NewStart(q)}
  BY <1>0, <1>5, StartsAre DEF Starts
<1>7. Enters(q, id[q], segments[segment[q]].forkedBy)
  <2>1. id[q] \in Id /\ segments[segment[q]].forkedBy \in Nat
    BY <1>0, SegmentsAre DEF TypeInv
  <2> QED
    BY <1>0, <1>1, <2>1, NewSegmentIs DEF Enters
<1> QED
  BY <1>1, <1>2, <1>3, <1>4, <1>6, <1>7
LEMMA KillIs ==
    ASSUME Base, NEW q \in Pid, Kill(q)
    PROVE  /\ UNCHANGED <<id, memory, files, clock, segment, segments, execs, crossed, uneven>>
           /\ Alive(q) /\ status' = [status EXCEPT ![q] = "dead"] /\ status'[q] = "dead"
           /\ \A o \in Pid \ {q} : status'[o] = status[o] /\ queue'[o] = queue[o]
           /\ queue'[q] \in {queue[q], << >>}
           /\ \A o \in Pid : parent'[o] = IF parent[o] = q THEN Outside ELSE parent[o]
           /\ Starts' \subseteq Starts
<1>1. TypeInv /\ BufferInv
  BY DEF Base
<1>2. Starts' \subseteq Starts
  BY <1>1, QuietSteps, StartsAre DEF Starts
<1> QED
  BY <1>1, <1>2 DEF Kill, Dies, WithQueue, Alive, TypeInv, observers

LEMMA BegetIs ==
    ASSUME Base, NEW q \in Pid, NEW c \in Pid, Fork(q, c) \/ Vfork(q, c)
    PROVE  /\ UNCHANGED <<files, clock, execs, crossed>>
           /\ Runs(q) /\ status[q] = "running" /\ q # c
           /\ status[c] = "unborn" /\ status' = [status EXCEPT ![c] = "running"]
           /\ status'[c] = "running" /\ id'[c] = id[q] /\ parent'[c] = q
           /\ \A o \in Pid \ {c} : /\ status'[o] = status[o] /\ id'[o] = id[o]
                                   /\ parent'[o] = parent[o] /\ memory'[o] = memory[o]
                                   /\ queue'[o] = queue[o]
           /\ memory[c] = c /\ memory'[c] \in {c, q}
           /\ memory'[c] = c \/ memory[q] = q
           /\ ~uneven' => ~uneven /\ (Failing(queue'[c]) => queue'[c] = queue[c])
           /\ Starts' \subseteq Starts
           /\ Enters(c, id[q], segment[q])
<1>1. TypeInv /\ BufferInv /\ MemoryInv /\ SegmentInv
  BY DEF Base
<1>2. Starts' \subseteq Starts
  BY <1>1, QuietSteps, StartsAre DEF Starts
<1>3. NewSegment(c, id[q], segment[q]) /\ Begets(q, c)
  BY DEF Fork, Vfork, Begets
<1>4. Enters(c, id[q], segment[q])
  <2>1. id[q] \in Id /\ segment[q] \in Nat
    BY <1>1, SegmentsAre DEF TypeInv
  <2> QED
    BY <1>1, <1>3, <2>1, NewSegmentIs DEF Enters
<1>5. /\ Runs(q) /\ status[q] = "running" /\ q # c
      /\ status[c] = "unborn" /\ status' = [status EXCEPT ![c] = "running"]
      /\ status'[c] = "running" /\ id'[c] = id[q] /\ parent'[c] = q
      /\ \A o \in Pid \ {c} : status'[o] = status[o] /\ id'[o] = id[o] /\ parent'[o] = parent[o]
      /\ UNCHANGED <<files, clock, execs, crossed>>
  BY <1>1, <1>3 DEF Begets, Runs, TypeInv
<1>6. memory[c] = c
  BY <1>1, <1>5 DEF MemoryInv
<1>7. CASE Fork(q, c)
  <2>1. queue'[c] = Queue(q) /\ UNCHANGED memory /\ \A o \in Pid \ {c} : queue'[o] = queue[o]
    BY <1>1, <1>7 DEF Fork, TypeInv
  <2>2. ~uneven' => ~uneven /\ ~Failing(Queue(q))
    BY <1>7 DEF Fork, Failing
  <2> QED
    BY <1>2, <1>4, <1>5, <1>6, <2>1, <2>2
<1>8. CASE Vfork(q, c)
  <2>1. /\ memory[q] = q /\ memory'[c] = q /\ UNCHANGED <<queue, uneven>>
        /\ \A o \in Pid \ {c} : memory'[o] = memory[o]
    BY <1>1, <1>8 DEF Vfork, TypeInv
  <2> QED
    BY <1>2, <1>4, <1>5, <1>6, <2>1
<1> QED
  BY <1>7, <1>8

LEMMA ExecIs ==
    ASSUME Base, NEW q \in Pid, NEW n \in Id, ExecSucceeds(q, n)
    PROVE  /\ UNCHANGED <<parent, queue, files, clock, crossed, uneven>>
           /\ status[q] = "exec" /\ status'[q] = "running" /\ id'[q] = n /\ memory'[q] = q
           /\ \A o \in Pid \ {q} : /\ status'[o] = status[o] /\ id'[o] = id[o]
                                   /\ memory'[o] = memory[o]
           /\ execs' = execs \cup {[from |-> segment[q], to |-> Len(segments) + 1]}
           /\ Starts' \subseteq Starts
           /\ Enters(q, n, segments[segment[q]].forkedBy)
<1>1. TypeInv /\ BufferInv /\ SegmentInv
  BY DEF Base
<1>2. Starts' \subseteq Starts
  BY <1>1, QuietSteps, StartsAre DEF Starts
<1>3. Enters(q, n, segments[segment[q]].forkedBy)
  <2>1. NewSegment(q, n, segments[segment[q]].forkedBy)
    BY DEF ExecSucceeds
  <2>2. segments[segment[q]].forkedBy \in Nat
    BY <1>1, SegmentsAre
  <2> QED
    BY <1>1, <2>1, <2>2, NewSegmentIs DEF Enters
<1> QED
  BY <1>1, <1>2, <1>3 DEF ExecSucceeds, Becomes, TypeInv

LEMMA SetenvIs ==
    ASSUME Base, NEW q \in Pid, NEW n \in Id, Setenv(q, n)
    PROVE  /\ UNCHANGED <<status, parent, memory, queue, files, clock, segment, execs, crossed>>
           /\ Runs(q) /\ status[q] = "running" /\ memory[q] = q
           /\ id'[q] = n /\ \A o \in Pid \ {q} : id'[o] = id[o]
           /\ Starts' \subseteq Starts
           /\ DOMAIN segments' = DOMAIN segments
           /\ \A k \in DOMAIN segments : /\ segments'[k].pid = segments[k].pid
                                         /\ segments'[k].forkedBy = segments[k].forkedBy
                                         /\ k # segment[q] => segments'[k].id = segments[k].id
           /\ ~uneven' => ~uneven /\ ~Started(q) /\ segments'[segment[q]].id = n
<1>1. TypeInv /\ BufferInv /\ SegmentInv
  BY DEF Base
<1>2. Starts' \subseteq Starts
  BY <1>1, QuietSteps, StartsAre DEF Starts
<1>3. segment[q] \in DOMAIN segments /\ segments \in Seq(Segment)
  BY <1>1 DEF SegmentInv
<1>4. /\ UNCHANGED <<status, parent, memory, queue, files, clock, segment, execs, crossed>>
      /\ Runs(q) /\ status[q] = "running" /\ memory[q] = q
      /\ id'[q] = n /\ \A o \in Pid \ {q} : id'[o] = id[o]
  BY <1>1 DEF Setenv, Becomes, Runs, TypeInv
<1>5. CASE Started(q)
  BY <1>2, <1>4, <1>5 DEF Setenv
<1>6. CASE ~Started(q)
  <2>1. segments' = [segments EXCEPT ![segment[q]].id = n] /\ UNCHANGED uneven
    BY <1>6 DEF Setenv
  <2>2. /\ DOMAIN segments' = DOMAIN segments
        /\ \A k \in DOMAIN segments : /\ segments'[k].pid = segments[k].pid
                                      /\ segments'[k].forkedBy = segments[k].forkedBy
                                      /\ k # segment[q] => segments'[k].id = segments[k].id
    BY <1>3, <2>1
  <2>3. segments'[segment[q]].id = n
    <3>1. segments[segment[q]] \in Segment
      BY <1>3
    <3>2. [segments[segment[q]] EXCEPT !.id = n].id = n
      BY <3>1 DEF Segment
    <3>3. segments'[segment[q]] = [segments[segment[q]] EXCEPT !.id = n]
      BY <1>3, <2>1
    <3> QED
      BY <3>2, <3>3
  <2> QED
    BY <1>2, <1>4, <1>6, <2>1, <2>2, <2>3
<1> QED
  BY <1>5, <1>6
-----------------------------------------------------------------------------
(* STARTs and execs: what a process stamped after its exec is of the segment *)
(* that follows, and setenv sees that there is a START.                     *)

LEMMA StartsIn ==
    ASSUME Base
    PROVE  /\ clock \in Nat
           /\ \A s \in Starts : s.pid \in Pid /\ s.ts \in Nat /\ s.ts < 2 * clock
           /\ \A p \in Pid : queue[p] # << >> => queue[p][1] \in Starts
           /\ \A i \in DOMAIN files : /\ files[i][2][1] \in Starts
                                      /\ files[i][1] \in DOMAIN segments
                                      /\ StartOf(files[i][2]) = files[i][2][1]
           /\ \A q \in Pid : NewStart(q).pid = q /\ NewStart(q).ts = 2 * clock + 1
                             /\ NewStart(q).id = id[q] /\ NewStart(q).ppid = parent[q]
<1>1. TypeInv /\ BufferInv /\ SegmentInv /\ clock \in Nat
  BY DEF Base, TypeInv
<1>2. \A s \in Starts : s.pid \in Pid /\ s.ts \in Nat /\ s.ts < 2 * clock
  BY <1>1, StartsAre DEF Starts
<1>3. \A p \in Pid : queue[p] # << >> => queue[p][1] \in Starts
  BY DEF Starts, StartsOf, Buffers
<1>4. ASSUME NEW i \in DOMAIN files
      PROVE  files[i][2][1] \in Starts /\ StartOf(files[i][2]) = files[i][2][1]
  <2>1. files[i][2] \in Buffers /\ files[i][2] # << >> /\ BufferOK(files[i][2], clock)
    BY <1>1 DEF BufferInv, Buffers, Saves
  <2>2. files[i][2] \in Seq(StartEvents(clock) \cup OtherEvents(clock)) /\ files[i][2][1].op = "START"
    BY <2>1 DEF BufferOK, StartEvents
  <2>3. StartOf(files[i][2]) = files[i][2][1]
    BY <2>1, <2>2, StartOfIs
  <2> QED
    BY <2>1, <2>3 DEF Starts, StartsOf
<1>5. \A q \in Pid : NewStart(q).pid = q /\ NewStart(q).ts = 2 * clock + 1
                     /\ NewStart(q).id = id[q] /\ NewStart(q).ppid = parent[q]
  BY DEF NewStart
<1> QED
  BY <1>1, <1>2, <1>3, <1>4, <1>5 DEF SegmentInv

\* The child of a vfork has the memory of the process whose segment forked it.
VforkInv ==
    \A c \in Pid : Alive(c) /\ memory[c] # c => segments[segment[c]].forkedBy = segment[memory[c]]

LEMMA VforkStep == ASSUME Base, VforkInv, [Next]_vars PROVE VforkInv'
<1>0. TypeInv /\ MemoryInv /\ \A o \in Pid : segment[o] \in DOMAIN segments
  BY SegmentsAre DEF Base
<1>1. ASSUME UNCHANGED <<segment, memory>>,
             \A o \in Pid : Alive(o)' => Alive(o),
             \A k \in DOMAIN segments : segments'[k].forkedBy = segments[k].forkedBy
      PROVE  VforkInv'
  BY <1>0, <1>1 DEF VforkInv
<1>2. ASSUME NEW p \in Pid, Call(p) PROVE VforkInv'
  BY <1>1, <1>2, CallIs DEF Alive
<1>3. ASSUME NEW p \in Pid, NEW op, NEW s, Flushes(p, op, s) PROVE VforkInv'
  <2>1. \A o \in Pid : Alive(o)' => Alive(o)
    BY <1>3, FlushIs DEF Alive
  <2> QED
    BY <1>1, <1>3, <2>1, FlushIs
<1>4. ASSUME NEW p \in Pid, Kill(p) PROVE VforkInv'
  <2>1. \A o \in Pid : Alive(o)' => Alive(o)
    BY <1>4, KillIs DEF Alive
  <2> QED
    BY <1>1, <1>4, <2>1, KillIs
<1>5. ASSUME NEW p \in Pid, NEW n \in Id, Setenv(p, n) PROVE VforkInv'
  BY <1>1, <1>5, SetenvIs DEF Alive
<1>6. ASSUME NEW p \in Pid, ExecFails(p) PROVE VforkInv'
  <2>1. /\ UNCHANGED memory /\ status[p] = "exec" /\ \A o \in Pid : Alive(o)' <=> Alive(o)
        /\ Enters(p, id[p], segments[segment[p]].forkedBy)
    BY <1>6, FailIs DEF Alive
  <2>2. \A c \in Pid : Alive(c) /\ memory[c] # c => memory[c] # p /\ memory[c] \in Pid
    BY <1>0, <2>1 DEF MemoryInv, TypeInv
  <2>3. ASSUME NEW c \in Pid, Alive(c), memory[c] # c
        PROVE  segments'[segment'[c]].forkedBy = segment'[memory[c]]
    <3>1. segment'[memory[c]] = segment[memory[c]] /\ segments[segment[c]].forkedBy = segment[memory[c]]
      BY <2>1, <2>2, <2>3 DEF Enters, VforkInv
    <3>2. CASE c = p
      BY <2>1, <3>1, <3>2 DEF Enters
    <3>3. CASE c # p
      BY <1>0, <2>1, <3>1, <3>3 DEF Enters
    <3> QED
      BY <3>2, <3>3
  <2> QED
    BY <2>1, <2>3 DEF VforkInv
<1>7. ASSUME NEW p \in Pid, NEW n \in Id, ExecSucceeds(p, n) PROVE VforkInv'
  <2>1. /\ status[p] = "exec" /\ memory'[p] = p /\ \A o \in Pid : Alive(o)' <=> Alive(o)
        /\ \A o \in Pid \ {p} : memory'[o] = memory[o]
        /\ Enters(p, n, segments[segment[p]].forkedBy)
    BY <1>7, ExecIs DEF Alive
  <2>2. \A c \in Pid : Alive(c) /\ memory[c] # c => memory[c] # p /\ memory[c] \in Pid
    BY <1>0, <2>1 DEF MemoryInv, TypeInv
  <2>3. ASSUME NEW c \in Pid, Alive(c), memory'[c] # c
        PROVE  segments'[segment'[c]].forkedBy = segment'[memory'[c]]
    <3>1. c # p /\ memory'[c] = memory[c]
      BY <2>1, <2>3
    <3>2. segment'[memory[c]] = segment[memory[c]] /\ segments[segment[c]].forkedBy = segment[memory[c]]
      BY <2>1, <2>2, <2>3, <3>1 DEF Enters, VforkInv
    <3> QED
      BY <1>0, <2>1, <3>1, <3>2 DEF Enters
  <2> QED
    BY <2>1, <2>3 DEF VforkInv
<1>8. ASSUME NEW p \in Pid, NEW c \in Pid, Fork(p, c) \/ Vfork(p, c) PROVE VforkInv'
  <2>1. /\ status[c] = "unborn" /\ p # c /\ memory'[c] \in {c, p}
        /\ \A o \in Pid \ {c} : memory'[o] = memory[o] /\ (Alive(o)' <=> Alive(o))
        /\ Enters(c, id[p], segment[p])
    BY <1>8, BegetIs DEF Alive
  <2>2. \A o \in Pid : Alive(o) /\ memory[o] # o => memory[o] # c /\ memory[o] \in Pid
    BY <1>0, <2>1 DEF MemoryInv, TypeInv
  <2>3. ASSUME NEW o \in Pid, Alive(o)', memory'[o] # o
        PROVE  segments'[segment'[o]].forkedBy = segment'[memory'[o]]
    <3>1. CASE o = c
      <4>1. segments'[segment'[c]].forkedBy = segment[p] /\ memory'[c] = p /\ segment'[p] = segment[p]
        BY <2>1, <2>3, <3>1 DEF Enters
      <4> QED
        BY <3>1, <4>1
    <3>2. CASE o # c
      <4>1. Alive(o) /\ memory'[o] = memory[o] /\ memory[o] # o
        BY <2>1, <2>3, <3>2
      <4>2. segment'[memory[o]] = segment[memory[o]] /\ segments[segment[o]].forkedBy = segment[memory[o]]
        BY <2>1, <2>2, <4>1 DEF Enters, VforkInv
      <4> QED
        BY <1>0, <2>1, <3>2, <4>1, <4>2 DEF Enters
    <3> QED
      BY <3>1, <3>2
  <2> QED
    BY <2>3 DEF VforkInv
<1>9. ASSUME UNCHANGED vars PROVE VforkInv'
  BY <1>1, <1>9 DEF vars, observers, Alive
<1>10. ASSUME NEW p \in Pid, ExecHook(p) \/ Exit(p) PROVE \E op, s : Flushes(p, op, s)
  BY <1>10 DEF Flushes
<1> QED
  BY <1>2, <1>3, <1>4, <1>5, <1>6, <1>7, <1>8, <1>9, <1>10 DEF Next
\* While an exec is under way its process has stamped nothing after the EXEC.
LastInv ==
    \A p \in Pid : status[p] = "exec" =>
        \A i \in DOMAIN files : files[i][1] = segment[p] =>
            \A s \in Starts : s.pid = p => s.ts < End(files[i][2]).ts

LEMMA LastStep == ASSUME Base, LastInv, [Next]_vars PROVE LastInv'
<1>0. SegmentInv /\ TypeInv
  BY DEF Base
<1>1. ASSUME UNCHANGED files, NEW q \in Pid, Starts' \subseteq Starts \cup {NewStart(q)},
             \A o \in Pid : status'[o] = "exec" =>
                 status[o] = "exec" /\ segment'[o] = segment[o] /\ o # q
      PROVE  LastInv'
  BY <1>1, StartsIn DEF LastInv
<1>2. ASSUME NEW q \in Pid, Call(q) PROVE LastInv'
  <2>1. \A o \in Pid : status'[o] = "exec" => status[o] = "exec" /\ segment'[o] = segment[o] /\ o # q
    BY <1>2, CallIs
  <2> QED
    BY <1>1, <1>2, <2>1, CallIs
<1>3. ASSUME NEW q \in Pid, ExecFails(q) PROVE LastInv'
  <2>1. \A o \in Pid : status'[o] = "exec" => status[o] = "exec" /\ segment'[o] = segment[o] /\ o # q
    BY <1>3, FailIs DEF Enters
  <2> QED
    BY <1>1, <1>3, <2>1, FailIs
<1>4. ASSUME NEW q \in Pid, Kill(q) PROVE LastInv'
  <2>1. \A o \in Pid : status'[o] = "exec" => status[o] = "exec" /\ segment'[o] = segment[o] /\ o # q
    BY <1>4, KillIs
  <2> QED
    BY <1>1, <1>4, <2>1, KillIs
<1>5. ASSUME NEW q \in Pid, NEW n \in Id, ExecSucceeds(q, n) PROVE LastInv'
  <2>1. \A o \in Pid : status'[o] = "exec" => status[o] = "exec" /\ segment'[o] = segment[o] /\ o # q
    BY <1>5, ExecIs DEF Enters
  <2> QED
    BY <1>1, <1>5, <2>1, ExecIs
<1>6. ASSUME NEW q \in Pid, NEW n \in Id, Setenv(q, n) PROVE LastInv'
  <2>1. \A o \in Pid : status'[o] = "exec" => status[o] = "exec" /\ segment'[o] = segment[o] /\ o # q
    BY <1>6, SetenvIs
  <2> QED
    BY <1>1, <1>6, <2>1, SetenvIs
<1>7. ASSUME NEW q \in Pid, NEW c \in Pid, Fork(q, c) \/ Vfork(q, c) PROVE LastInv'
  <2>1. \A o \in Pid : status'[o] = "exec" => status[o] = "exec" /\ segment'[o] = segment[o] /\ o # q
    BY <1>7, BegetIs DEF Enters
  <2>2. UNCHANGED files /\ Starts' \subseteq Starts
    BY <1>7, BegetIs
  <2> QED
    BY <1>1, <2>1, <2>2
<1>8. ASSUME NEW q \in Pid, NEW op, NEW st, Flushes(q, op, st) PROVE LastInv'
  <2>1. /\ UNCHANGED segment /\ \A o \in Pid \ {q} : status'[o] = status[o]
        /\ Starts' \subseteq Starts \cup {NewStart(q)} /\ status[q] = "running"
    BY <1>8, FlushIs
  <2>2. PICK n \in Nat : /\ DOMAIN files = 1..n /\ DOMAIN files' = 1..(n + 1)
                         /\ files'[n + 1][1] = segment[q]
                         /\ End(files'[n + 1][2]).ts = 2 * (clock + 1)
                         /\ \A i \in 1..n : files'[i] = files[i]
    BY <1>8, FlushIs
  <2>3. ASSUME NEW p \in Pid, status'[p] = "exec", NEW i \in DOMAIN files', files'[i][1] = segment[p],
               NEW s \in Starts', s.pid = p
        PROVE  s.ts < End(files'[i][2]).ts
    <3>1. CASE i = n + 1
      <4>1. s.ts <= 2 * clock + 1
        BY <2>1, <2>3, StartsIn
      <4>2. s.ts \in Nat /\ clock \in Nat
        BY <2>1, <2>3, StartsIn
      <4> QED
        BY <2>2, <3>1, <4>1, <4>2
    <3>2. CASE i # n + 1
      <4>1. i \in DOMAIN files /\ files'[i] = files[i]
        BY <2>2, <3>2
      <4>2. p # q
        BY <1>0, <2>1, <2>3, <4>1 DEF SegmentInv
      <4>3. status[p] = "exec" /\ s \in Starts
        BY <2>1, <2>3, <4>2, StartsIn
      <4> QED
        BY <2>3, <4>1, <4>3 DEF LastInv
    <3> QED
      BY <3>1, <3>2
  <2> QED
    BY <2>1, <2>3 DEF LastInv
<1>9. ASSUME UNCHANGED vars PROVE LastInv'
  <2>1. Starts' = Starts
    BY <1>9 DEF vars, Starts, Buffers, Saves
  <2> QED
    BY <1>9, <2>1 DEF LastInv, vars, observers
<1>10. ASSUME NEW p \in Pid, ExecHook(p) \/ Exit(p) PROVE \E op, s : Flushes(p, op, s)
  BY <1>10 DEF Flushes
<1> QED
  BY <1>2, <1>3, <1>4, <1>5, <1>6, <1>7, <1>8, <1>9, <1>10 DEF Next

\* p has a START in the segment it is in.
OwnHead(p) == queue[p] # << >> /\ queue[p][1].pid = p
OwnStarted(p) ==
    \/ OwnHead(p)
    \/ \E j \in DOMAIN files :
          segments[files[j][1]].forkedBy = segment[p] /\ files[j][2][1].pid = p

\* p, whose EXEC was stamped at t, went on as segment k.
Dated(p, k, t) ==
    /\ segment[p] = k =>
          /\ memory[p] = p
          /\ OwnHead(p) => queue[p][1].ts > t
          /\ status[p] = "running" => \A s \in Starts : s.pid = p /\ s.ts > t => OwnStarted(p)
    /\ \A j \in DOMAIN files : files[j][1] = k /\ files[j][2][1].pid = p => files[j][2][1].ts > t


LEMMA DatedKeeps ==
    ASSUME NEW p \in Pid, NEW k, NEW t, Dated(p, k, t),
           segment'[p] = k =>
               /\ segment[p] = k /\ memory'[p] = memory[p]
               /\ status'[p] = "running" => status[p] = "running"
               /\ OwnHead(p)' => (OwnHead(p) /\ queue'[p] = queue[p]) \/ queue'[p][1].ts > t
               /\ status'[p] = "running" =>
                     /\ OwnStarted(p) => OwnStarted(p)'
                     /\ \A s \in Starts' : s.pid = p => s \in Starts \/ OwnStarted(p)',
           \A j \in DOMAIN files' : files'[j][1] = k /\ files'[j][2][1].pid = p =>
               (j \in DOMAIN files /\ files'[j] = files[j]) \/ files'[j][2][1].ts > t
    PROVE  Dated(p, k, t)'
<1>1. ASSUME segment'[p] = k
      PROVE  /\ memory'[p] = p
             /\ OwnHead(p)' => queue'[p][1].ts > t
             /\ status'[p] = "running" => \A s \in Starts' : s.pid = p /\ s.ts > t => OwnStarted(p)'
  BY <1>1 DEF Dated
<1>2. \A j \in DOMAIN files' : files'[j][1] = k /\ files'[j][2][1].pid = p => files'[j][2][1].ts > t
  BY DEF Dated
<1> QED
  BY <1>1, <1>2 DEF Dated
LEMMA DatedStep ==
    ASSUME Base, VforkInv, NEW p \in Pid, NEW k \in DOMAIN segments, segments[k].pid = p,
           NEW t \in Nat, t <= 2 * clock, Dated(p, k, t), [Next]_vars
    PROVE  Dated(p, k, t)'
<1>0. /\ TypeInv /\ MemoryInv /\ SegmentInv /\ clock \in Nat /\ status[p] # "unborn"
      /\ \A j \in DOMAIN files : files[j][1] \in DOMAIN segments
      /\ \A q \in Pid : segment[q] \in DOMAIN segments
      /\ \A q \in Pid : NewStart(q).pid = q /\ NewStart(q).ts = 2 * clock + 1
      /\ \A q \in Pid : status[q] = "running" /\ segment[q] = k => q = p
  BY StartsIn, SegmentsAre DEF Base, SegmentInv
<1>1. ASSUME NEW q \in Pid, Call(q) PROVE Dated(p, k, t)'
  <2>1. /\ UNCHANGED <<status, memory, files, segment, segments>> /\ memory[q] \in Pid
        /\ queue[memory[q]] = << >> /\ Begun(queue'[memory[q]], q)
        /\ \A o \in Pid \ {memory[q]} : queue'[o] = queue[o]
        /\ Starts' \subseteq Starts \cup {NewStart(q)}
    BY <1>1, CallIs
  <2>2. queue'[memory[q]] # << >> /\ queue'[memory[q]][1] = NewStart(q)
    BY <2>1 DEF Begun
  <2>3. OwnHead(p)' => (OwnHead(p) /\ queue'[p] = queue[p]) \/ queue'[p][1].ts > t
    BY <1>0, <2>1, <2>2 DEF OwnHead
  <2>4. OwnStarted(p) => OwnStarted(p)'
    BY <2>1 DEF OwnStarted, OwnHead
  <2>5. ASSUME segment[p] = k, NEW s \in Starts', s.pid = p PROVE s \in Starts \/ OwnStarted(p)'
    <3>1. CASE p = q
      <4>1. memory[p] = p
        BY <2>5 DEF Dated
      <4> QED
        BY <1>0, <2>2, <3>1, <4>1 DEF OwnStarted, OwnHead
    <3>2. CASE p # q
      BY <1>0, <2>1, <2>5, <3>2
    <3> QED
      BY <3>1, <3>2
  <2> QED
    BY <2>1, <2>3, <2>4, <2>5, DatedKeeps
<1>2. ASSUME NEW q \in Pid, NEW op, NEW st, Flushes(q, op, st) PROVE Dated(p, k, t)'
  <2>0. st # "running"
    BY <1>2 DEF Flushes
  <2>1. /\ UNCHANGED <<memory, segment, segments>> /\ memory[q] \in Pid
        /\ status[q] = "running" /\ status'[q] = st /\ \A o \in Pid \ {q} : status'[o] = status[o]
        /\ queue'[memory[q]] = << >> /\ \A o \in Pid \ {memory[q]} : queue'[o] = queue[o]
        /\ Starts' \subseteq Starts \cup {NewStart(q)}
    BY <1>2, FlushIs
  <2>2. PICK n \in Nat : /\ DOMAIN files = 1..n /\ DOMAIN files' = 1..(n + 1)
                         /\ files'[n + 1][1] = segment[q]
                         /\ files'[n + 1][2][1] = IF queue[memory[q]] = << >> THEN NewStart(q)
                                                  ELSE queue[memory[q]][1]
                         /\ \A i \in 1..n : files'[i] = files[i]
    BY <1>2, FlushIs
  <2>3. OwnHead(p)' => OwnHead(p) /\ queue'[p] = queue[p]
    BY <2>1 DEF OwnHead
  <2>4. ASSUME p # q, OwnStarted(p) PROVE OwnStarted(p)'
    <3>1. CASE OwnHead(p) /\ memory[q] = p
      <4>1. files'[n + 1][2][1].pid = p
        BY <2>2, <3>1 DEF OwnHead
      <4>2. segments[segment[q]].forkedBy = segment[p]
        BY <2>1, <2>4, <3>1 DEF VforkInv, Alive
      <4>3. n + 1 \in DOMAIN files'
        BY <2>2
      <4> QED
        BY <2>1, <2>2, <4>1, <4>2, <4>3 DEF OwnStarted
    <3>2. CASE OwnHead(p) /\ memory[q] # p
      BY <2>1, <3>2 DEF OwnStarted, OwnHead
    <3>3. CASE \E j \in DOMAIN files : segments[files[j][1]].forkedBy = segment[p] /\ files[j][2][1].pid = p
      <4>1. \A j \in DOMAIN files : j \in DOMAIN files' /\ files'[j] = files[j]
        BY <2>2
      <4> QED
        BY <2>1, <3>3, <4>1 DEF OwnStarted
    <3> QED
      BY <2>4, <3>1, <3>2, <3>3 DEF OwnStarted
  <2>5. \A s \in Starts' : p # q /\ s.pid = p => s \in Starts
    BY <1>0, <2>1
  <2>6. ASSUME NEW j \in DOMAIN files', files'[j][1] = k, files'[j][2][1].pid = p
        PROVE  (j \in DOMAIN files /\ files'[j] = files[j]) \/ files'[j][2][1].ts > t
    <3>1. CASE j = n + 1
      <4>1. q = p
        BY <1>0, <2>1, <2>2, <2>6, <3>1
      <4>2. memory[p] = p /\ (OwnHead(p) => queue[p][1].ts > t)
        BY <2>2, <2>6, <3>1, <4>1 DEF Dated
      <4>3. CASE queue[p] = << >>
        <5>1. files'[j][2][1] = NewStart(p)
          BY <2>2, <3>1, <4>1, <4>2, <4>3
        <5> QED
          BY <1>0, <5>1
      <4>4. CASE queue[p] # << >>
        <5>1. files'[j][2][1] = queue[p][1]
          BY <2>2, <3>1, <4>1, <4>2, <4>4
        <5> QED
          BY <2>6, <4>2, <4>4, <5>1 DEF OwnHead
      <4> QED
        BY <4>3, <4>4
    <3>2. CASE j # n + 1
      BY <2>2, <3>2
    <3> QED
      BY <3>1, <3>2
  <2>7. status'[p] = "running" => p # q /\ status[p] = "running"
    BY <2>0, <2>1
  <2> QED
    BY <2>1, <2>3, <2>4, <2>5, <2>6, <2>7, DatedKeeps
<1>3. ASSUME NEW q \in Pid, ExecFails(q) PROVE Dated(p, k, t)'
  <2>1. /\ UNCHANGED <<memory, files>> /\ memory[q] \in Pid
        /\ \A o \in Pid \ {q} : status'[o] = status[o]
        /\ queue[memory[q]] = << >> /\ Begun(queue'[memory[q]], q)
        /\ \A o \in Pid \ {memory[q]} : queue'[o] = queue[o]
        /\ Starts' \subseteq Starts \cup {NewStart(q)}
        /\ Enters(q, id[q], segments[segment[q]].forkedBy)
    BY <1>3, FailIs
  <2>2. k # Len(segments) + 1 /\ segment'[q] = Len(segments) + 1
    BY <2>1 DEF Enters
  <2>3. ASSUME p # q
        PROVE  /\ OwnHead(p)' => OwnHead(p) /\ queue'[p] = queue[p]
               /\ OwnStarted(p) => OwnStarted(p)'
               /\ \A s \in Starts' : s.pid = p => s \in Starts
               /\ segment'[p] = segment[p] /\ status'[p] = status[p]
    <3>1. segment'[p] = segment[p] /\ \A j \in DOMAIN files : segments'[files[j][1]] = segments[files[j][1]]
      BY <1>0, <2>1, <2>3 DEF Enters
    <3>2. OwnHead(p)' => OwnHead(p) /\ queue'[p] = queue[p]
      BY <1>0, <2>1, <2>3 DEF OwnHead, Begun
    <3>3. OwnHead(p) => OwnHead(p)'
      BY <2>1 DEF OwnHead
    <3>4. OwnStarted(p) => OwnStarted(p)'
      BY <2>1, <3>1, <3>3 DEF OwnStarted
    <3> QED
      BY <1>0, <2>1, <2>3, <3>1, <3>2, <3>4
  <2> QED
    BY <2>1, <2>2, <2>3, DatedKeeps
<1>4. ASSUME NEW q \in Pid, Kill(q) PROVE Dated(p, k, t)'
  <2>1. /\ UNCHANGED <<memory, files, segment, segments>> /\ Starts' \subseteq Starts
        /\ status'[q] = "dead"
        /\ \A o \in Pid \ {q} : status'[o] = status[o] /\ queue'[o] = queue[o]
        /\ queue'[q] \in {queue[q], << >>}
    BY <1>4, KillIs
  <2>2. OwnHead(p)' => OwnHead(p) /\ queue'[p] = queue[p]
    BY <2>1 DEF OwnHead
  <2>3. p # q /\ OwnStarted(p) => OwnStarted(p)'
    BY <2>1 DEF OwnStarted, OwnHead
  <2>4. status'[p] = "running" => p # q /\ status[p] = "running"
    BY <2>1
  <2> QED
    BY <2>1, <2>2, <2>3, <2>4, DatedKeeps
<1>5. ASSUME NEW q \in Pid, NEW c \in Pid, Fork(q, c) \/ Vfork(q, c) PROVE Dated(p, k, t)'
  <2>1. /\ UNCHANGED files /\ Starts' \subseteq Starts /\ c # p
        /\ \A o \in Pid \ {c} : status'[o] = status[o] /\ memory'[o] = memory[o] /\ queue'[o] = queue[o]
        /\ Enters(c, id[q], segment[q])
    BY <1>0, <1>5, BegetIs
  <2>2. segment'[p] = segment[p] /\ \A j \in DOMAIN files : segments'[files[j][1]] = segments[files[j][1]]
    BY <1>0, <2>1 DEF Enters
  <2>3. queue'[p] = queue[p] /\ (OwnHead(p)' <=> OwnHead(p))
    BY <2>1 DEF OwnHead
  <2>4. OwnStarted(p) => OwnStarted(p)'
    BY <2>1, <2>2, <2>3 DEF OwnStarted
  <2> QED
    BY <2>1, <2>2, <2>3, <2>4, DatedKeeps
<1>6. ASSUME NEW q \in Pid, NEW n \in Id, ExecSucceeds(q, n) PROVE Dated(p, k, t)'
  <2>1. /\ UNCHANGED <<files, queue>> /\ Starts' \subseteq Starts
        /\ \A o \in Pid \ {q} : status'[o] = status[o] /\ memory'[o] = memory[o]
        /\ Enters(q, n, segments[segment[q]].forkedBy)
    BY <1>6, ExecIs
  <2>2. k # Len(segments) + 1 /\ segment'[q] = Len(segments) + 1
    BY <2>1 DEF Enters
  <2>3. ASSUME p # q
        PROVE  /\ OwnHead(p)' <=> OwnHead(p)
               /\ OwnStarted(p) => OwnStarted(p)'
               /\ segment'[p] = segment[p] /\ status'[p] = status[p] /\ memory'[p] = memory[p]
    <3>1. segment'[p] = segment[p] /\ \A j \in DOMAIN files : segments'[files[j][1]] = segments[files[j][1]]
      BY <1>0, <2>1, <2>3 DEF Enters
    <3>2. OwnHead(p)' <=> OwnHead(p)
      BY <2>1 DEF OwnHead
    <3> QED
      BY <2>1, <2>3, <3>1, <3>2 DEF OwnStarted
  <2> QED
    BY <2>1, <2>2, <2>3, DatedKeeps
<1>7. ASSUME NEW q \in Pid, NEW n \in Id, Setenv(q, n) PROVE Dated(p, k, t)'
  <2>1. /\ UNCHANGED <<status, memory, queue, files, segment>> /\ Starts' \subseteq Starts
        /\ \A j \in DOMAIN segments : segments'[j].forkedBy = segments[j].forkedBy
    BY <1>7, SetenvIs
  <2>2. OwnHead(p)' <=> OwnHead(p)
    BY <2>1 DEF OwnHead
  <2>3. OwnStarted(p) => OwnStarted(p)'
    BY <1>0, <2>1, <2>2 DEF OwnStarted
  <2> QED
    BY <2>1, <2>2, <2>3, DatedKeeps
<1>8. ASSUME UNCHANGED vars PROVE Dated(p, k, t)'
  BY <1>8 DEF vars, observers, Dated, OwnStarted, OwnHead, Starts, Buffers, Saves
<1>9. ASSUME NEW q \in Pid, ExecHook(q) \/ Exit(q) PROVE \E op, s : Flushes(q, op, s)
  BY <1>9 DEF Flushes
<1> QED
  BY <1>1, <1>2, <1>3, <1>4, <1>5, <1>6, <1>7, <1>8, <1>9 DEF Next
\* The exec x was of p, with file i, whose EXEC was stamped at t.
ExecOf(x, i, p, t) == files[i][1] = x.from /\ p = segments[x.to].pid /\ t = End(files[i][2]).ts
DateInv ==
    \A x \in execs : \A i \in DOMAIN files : \A p \in Pid, t \in Nat :
        ExecOf(x, i, p, t) => Dated(p, x.to, t)

LEMMA ExecsAre ==
    ASSUME Base, NEW x \in execs
    PROVE  /\ x.from \in DOMAIN segments /\ x.to \in DOMAIN segments /\ x.from < x.to
           /\ segments[x.to].pid \in Pid /\ segments[x.from].pid = segments[x.to].pid
           /\ \A q \in Pid : Alive(q) => segment[q] # x.from
           /\ \A i \in DOMAIN files : End(files[i][2]).ts \in Nat /\ End(files[i][2]).ts <= 2 * clock
<1>1. SegmentInv /\ EndInv
  BY DEF Base
<1>2. /\ x.from \in DOMAIN segments /\ x.to \in DOMAIN segments /\ x.from < x.to
      /\ segments[x.from].pid = segments[x.to].pid
  BY <1>1 DEF EndInv
<1>3. segments[x.to].pid \in Pid /\ x.to \in Nat /\ x.from \in Nat /\ \A q \in Pid : segment[q] \in Nat
  BY <1>1, <1>2, SegmentsAre
<1>4. ASSUME NEW q \in Pid, Alive(q), segment[q] = x.from PROVE FALSE
  <2>1. segments[x.to].pid = q
    BY <1>1, <1>2, <1>4 DEF SegmentInv, Alive
  <2>2. x.to <= segment[q]
    BY <1>1, <1>2, <2>1 DEF SegmentInv
  <2> QED
    BY <1>2, <1>3, <1>4, <2>2
<1> QED
  BY <1>1, <1>2, <1>3, <1>4 DEF EndInv

\* Execs and files a step adds: an exec from a segment whose process was in exec
\* to a new segment, and a file of a segment that no exec is from.
LEMMA ExecsGrow ==
    ASSUME Base, [Next]_vars, NEW x \in execs'
    PROVE  \/ /\ x \in execs /\ segments'[x.to].pid = segments[x.to].pid
              /\ \A i \in DOMAIN files' : files'[i][1] = x.from =>
                    i \in DOMAIN files /\ files'[i] = files[i]
           \/ \E q \in Pid, n \in Id :
                 /\ ExecSucceeds(q, n) /\ x.from = segment[q] /\ x.to = Len(segments) + 1
<1>0. TypeInv /\ SegmentInv
  BY DEF Base
<1>1. CASE x \in execs
  <2>1. x.from \in DOMAIN segments /\ x.to \in DOMAIN segments /\ \A q \in Pid : Alive(q) => segment[q] # x.from
    BY <1>1, ExecsAre
  <2>2. segments'[x.to].pid = segments[x.to].pid
    <3>1. ASSUME NEW q \in Pid, Call(q) PROVE segments'[x.to].pid = segments[x.to].pid
      BY <3>1, CallIs
    <3>2. ASSUME NEW q \in Pid, NEW op, NEW s, Flushes(q, op, s) PROVE segments'[x.to].pid = segments[x.to].pid
      BY <3>2, FlushIs
    <3>3. ASSUME NEW q \in Pid, ExecFails(q) PROVE segments'[x.to].pid = segments[x.to].pid
      BY <2>1, <3>3, FailIs DEF Enters
    <3>4. ASSUME NEW q \in Pid, Kill(q) PROVE segments'[x.to].pid = segments[x.to].pid
      BY <3>4, KillIs
    <3>5. ASSUME NEW q \in Pid, NEW c \in Pid, Fork(q, c) \/ Vfork(q, c)
          PROVE  segments'[x.to].pid = segments[x.to].pid
      <4>1. Enters(c, id[q], segment[q])
        BY <3>5, BegetIs
      <4> QED
        BY <2>1, <4>1 DEF Enters
    <3>6. ASSUME NEW q \in Pid, NEW n \in Id, ExecSucceeds(q, n) PROVE segments'[x.to].pid = segments[x.to].pid
      BY <2>1, <3>6, ExecIs DEF Enters
    <3>7. ASSUME NEW q \in Pid, NEW n \in Id, Setenv(q, n) PROVE segments'[x.to].pid = segments[x.to].pid
      BY <2>1, <3>7, SetenvIs
    <3>8. ASSUME UNCHANGED vars PROVE segments'[x.to].pid = segments[x.to].pid
      BY <3>8 DEF vars, observers
    <3>9. ASSUME NEW q \in Pid, ExecHook(q) \/ Exit(q) PROVE \E op, s : Flushes(q, op, s)
      BY <3>9 DEF Flushes
    <3> QED
      BY <3>1, <3>2, <3>3, <3>4, <3>5, <3>6, <3>7, <3>8, <3>9 DEF Next
  <2>3. ASSUME NEW i \in DOMAIN files', files'[i][1] = x.from
        PROVE  i \in DOMAIN files /\ files'[i] = files[i]
    <3>1. CASE UNCHANGED files
      BY <2>3, <3>1
    <3>2. ASSUME NEW q \in Pid, NEW op, NEW s, Flushes(q, op, s)
          PROVE  i \in DOMAIN files /\ files'[i] = files[i]
      <4>1. PICK n \in Nat : /\ DOMAIN files = 1..n /\ DOMAIN files' = 1..(n + 1)
                             /\ files'[n + 1][1] = segment[q]
                             /\ \A j \in 1..n : files'[j] = files[j]
        BY <3>2, FlushIs
      <4>2. Alive(q)
        BY <3>2, FlushIs DEF Alive
      <4> QED
        BY <2>1, <2>3, <4>1, <4>2
    <3>3. UNCHANGED files \/ \E q \in Pid : ExecHook(q) \/ Exit(q)
      BY DEF Next, Call, ExecFails, Kill, Fork, Vfork, Begets, ExecSucceeds, Setenv, vars
    <3>4. ASSUME NEW q \in Pid, ExecHook(q) \/ Exit(q) PROVE \E op, s : Flushes(q, op, s)
      BY <3>4 DEF Flushes
    <3> QED
      BY <3>1, <3>2, <3>3, <3>4
  <2> QED
    BY <1>1, <2>2, <2>3
<1>2. CASE x \notin execs
  <2>1. ~UNCHANGED execs
    BY <1>2
  <2>2. PICK q \in Pid, n \in Id : ExecSucceeds(q, n)
    BY <2>1 DEF Next, Call, ExecHook, ExecFails, Exit, Kill, Dies, Fork, Vfork, Begets, Setenv, vars,
                observers
  <2>3. x = [from |-> segment[q], to |-> Len(segments) + 1]
    BY <1>2, <2>2 DEF ExecSucceeds
  <2>4. x.from = segment[q] /\ x.to = Len(segments) + 1
    BY <2>3
  <2> QED
    BY <2>2, <2>4
<1> QED
  BY <1>1, <1>2

LEMMA DateStep == ASSUME Base, VforkInv, LastInv, DateInv, [Next]_vars PROVE DateInv'
<1> SUFFICES ASSUME NEW x \in execs', NEW i \in DOMAIN files', NEW p \in Pid, NEW t \in Nat,
                    ExecOf(x, i, p, t)'
             PROVE  Dated(p, x.to, t)'
  BY DEF DateInv
<1>1. files'[i][1] = x.from /\ t = End(files'[i][2]).ts /\ p = segments'[x.to].pid
  BY DEF ExecOf
<1>2. Dated(p, x.to, t)'
  <2>1. CASE x \in execs /\ segments'[x.to].pid = segments[x.to].pid
             /\ i \in DOMAIN files /\ files'[i] = files[i]
    <3>1. /\ p \in Pid /\ x.to \in DOMAIN segments /\ segments[x.to].pid = p
          /\ t \in Nat /\ t <= 2 * clock
      BY <1>1, <2>1, ExecsAre
    <3>2. Dated(p, x.to, t)
      BY <1>1, <2>1 DEF DateInv, ExecOf
    <3> QED
      BY <3>1, <3>2, DatedStep
  <2>2. ASSUME NEW q \in Pid, NEW n \in Id, ExecSucceeds(q, n),
               x.from = segment[q], x.to = Len(segments) + 1
        PROVE  Dated(p, x.to, t)'
    <3>1. /\ UNCHANGED <<files, queue>> /\ memory'[q] = q /\ status[q] = "exec"
          /\ Starts' \subseteq Starts
          /\ Enters(q, n, segments[segment[q]].forkedBy)
      BY <2>2, ExecIs
    <3>2. p = q /\ x.to \notin DOMAIN segments
      BY <1>1, <2>2, <3>1 DEF Enters
    <3>3. \A s \in Starts : s.pid = p => s.ts < t
      BY <1>1, <2>2, <3>1, <3>2 DEF LastInv
    <3>4. ~OwnHead(q)
      BY <3>1 DEF OwnHead, Base, MemoryInv
    <3>5. ~OwnHead(q)'
      BY <3>1, <3>4 DEF OwnHead
    <3>6. t \in Nat /\ \A s \in Starts : s.ts \in Nat
      BY <1>1, <3>1, StartsIn DEF Base, EndInv
    <3>7. \A j \in DOMAIN files : files[j][1] \in DOMAIN segments
      BY StartsIn
    <3>8. \A s \in Starts' : s.pid = p => ~(s.ts > t)
      BY <3>1, <3>3, <3>6
    <3> QED
      BY <3>1, <3>2, <3>5, <3>7, <3>8 DEF Dated
  <2> QED
    BY <1>1, <2>1, <2>2, ExecsGrow
<1> QED
  BY <1>2
-----------------------------------------------------------------------------
(* The ids of STARTs, as long as nothing is uneven.                        *)

ImageInv == \A p \in Pid : status[p] # "unborn" => id[p] = segments[segment[p]].id

LEMMA ImageStep ==
    ASSUME Base, [Next]_vars, ~uneven => ImageInv PROVE ~uneven' => ImageInv'
<1> SUFFICES ASSUME ~uneven' PROVE ImageInv'
  OBVIOUS
<1>0. \A o \in Pid : segment[o] \in DOMAIN segments
  BY SegmentsAre DEF Base
<1>1. ASSUME ~uneven, UNCHANGED <<id, segment, segments>>,
             \A o \in Pid : status'[o] # "unborn" => status[o] # "unborn"
      PROVE  ImageInv'
  BY <1>1 DEF ImageInv
<1>2. ASSUME NEW q \in Pid, NEW n, NEW f, ~uneven, Enters(q, n, f), id'[q] = n,
             \A o \in Pid \ {q} : id'[o] = id[o] /\ status'[o] = status[o]
      PROVE  ImageInv'
  BY <1>0, <1>2 DEF ImageInv, Enters
<1>3. ASSUME NEW q \in Pid, Call(q) PROVE ImageInv'
  BY <1>1, <1>3, CallIs
<1>4. ASSUME NEW q \in Pid, NEW op, NEW s, Flushes(q, op, s) PROVE ImageInv'
  <2>1. status[q] # "unborn" /\ UNCHANGED <<id, segment, segments, uneven>>
        /\ \A o \in Pid \ {q} : status'[o] = status[o]
    BY <1>4, FlushIs
  <2> QED
    BY <1>1, <2>1
<1>5. ASSUME NEW q \in Pid, ExecFails(q) PROVE ImageInv'
  BY <1>2, <1>5, FailIs
<1>6. ASSUME NEW q \in Pid, Kill(q) PROVE ImageInv'
  <2>1. status[q] # "unborn" /\ UNCHANGED <<id, segment, segments, uneven>>
        /\ \A o \in Pid \ {q} : status'[o] = status[o]
    BY <1>6, KillIs DEF Alive
  <2> QED
    BY <1>1, <2>1
<1>7. ASSUME NEW q \in Pid, NEW c \in Pid, Fork(q, c) \/ Vfork(q, c) PROVE ImageInv'
  <2>1. /\ ~uneven /\ Enters(c, id[q], segment[q]) /\ id'[c] = id[q]
        /\ \A o \in Pid \ {c} : id'[o] = id[o] /\ status'[o] = status[o]
    BY <1>7, BegetIs
  <2> QED
    BY <1>2, <2>1
<1>8. ASSUME NEW q \in Pid, NEW n \in Id, ExecSucceeds(q, n) PROVE ImageInv'
  BY <1>2, <1>8, ExecIs
<1>9. ASSUME NEW q \in Pid, NEW n \in Id, Setenv(q, n) PROVE ImageInv'
  <2>1. /\ UNCHANGED <<status, segment>> /\ ~uneven /\ id'[q] = n /\ segments'[segment[q]].id = n
        /\ status[q] = "running"
        /\ \A o \in Pid \ {q} : id'[o] = id[o]
        /\ \A k \in DOMAIN segments : k # segment[q] => segments'[k].id = segments[k].id
    BY <1>9, SetenvIs
  <2>2. \A o \in Pid \ {q} : status[o] # "unborn" => segment[o] # segment[q]
    BY <2>1 DEF Base, SegmentInv
  <2> QED
    BY <1>0, <2>1, <2>2 DEF ImageInv
<1>10. ASSUME UNCHANGED vars PROVE ImageInv'
  BY <1>1, <1>10 DEF vars, observers
<1>11. ASSUME NEW q \in Pid, ExecHook(q) \/ Exit(q) PROVE \E op, s : Flushes(q, op, s)
  BY <1>11 DEF Flushes
<1> QED
  BY <1>3, <1>4, <1>5, <1>6, <1>7, <1>8, <1>9, <1>10, <1>11 DEF Next

\* What p stamped after t has the id of k, the segment p went on as, or was
\* stamped after the START of k's file when p had left k.
Imaged(p, k, t) ==
    \A s \in Starts : s.pid = p /\ s.ts > t =>
        \/ s.id = segments[k].id
        \/ /\ segment[p] # k
           /\ \A j \in DOMAIN files :
                 files[j][1] = k /\ files[j][2][1].pid = p => files[j][2][1].ts < s.ts

\* A step that keeps the id of k.
LEMMA ImagedKeeps ==
    ASSUME Base, NEW p \in Pid, NEW k, segments'[k].id = segments[k].id, NEW t, Imaged(p, k, t),
           NEW q \in Pid, Starts' \subseteq Starts \cup {NewStart(q)},
           q = p => id[q] = segments[k].id \/ (segment[p] # k /\ segment'[p] # k),
           segment[p] # k => segment'[p] # k,
           segment[p] # k => \A j \in DOMAIN files' : files'[j][1] = k =>
               j \in DOMAIN files /\ files'[j] = files[j]
    PROVE  Imaged(p, k, t)'
<1> SUFFICES ASSUME NEW s \in Starts', s.pid = p, s.ts > t
             PROVE  \/ s.id = segments'[k].id
                    \/ /\ segment'[p] # k
                       /\ \A j \in DOMAIN files' :
                             files'[j][1] = k /\ files'[j][2][1].pid = p => files'[j][2][1].ts < s.ts
  BY DEF Imaged
<1>1. CASE s \in Starts
  BY <1>1 DEF Imaged
<1>2. CASE s = NewStart(q)
  <2>1. p = q /\ s.id = id[q] /\ s.ts = 2 * clock + 1
    BY <1>2, StartsIn
  <2>2. CASE id[q] = segments[k].id
    BY <2>1, <2>2
  <2>3. CASE segment[p] # k /\ segment'[p] # k
    <3>1. ASSUME NEW j \in DOMAIN files', files'[j][1] = k PROVE files'[j][2][1].ts < s.ts
      <4>1. j \in DOMAIN files /\ files'[j] = files[j]
        BY <2>3, <3>1
      <4>2. files[j][2][1].ts \in Nat /\ files[j][2][1].ts < 2 * clock /\ clock \in Nat
        BY <4>1, StartsIn
      <4> QED
        BY <2>1, <4>1, <4>2
    <3> QED
      BY <2>3, <3>1
  <2> QED
    BY <2>1, <2>2, <2>3
<1> QED
  BY <1>1, <1>2
LEMMA ImagedStep ==
    ASSUME Base, ImageInv, NEW p \in Pid, NEW k \in DOMAIN segments, segments[k].pid = p,
           NEW t, Dated(p, k, t), Imaged(p, k, t), [Next]_vars, ~uneven'
    PROVE  Imaged(p, k, t)'
<1>0. /\ status[p] # "unborn"
      /\ \A j \in DOMAIN files : files[j][1] \in DOMAIN segments
      /\ segment[p] = k => id[p] = segments[k].id
      /\ \A q \in Pid : Alive(q) /\ segment[q] = k => q = p
  BY StartsIn DEF Base, SegmentInv, ImageInv, Alive
<1>1. ASSUME NEW q \in Pid, Starts' \subseteq Starts \cup {NewStart(q)},
             segments'[k].id = segments[k].id, segment[p] # k => segment'[p] # k,
             segment[p] # k => \A j \in DOMAIN files' : files'[j][1] = k =>
                 j \in DOMAIN files /\ files'[j] = files[j]
      PROVE  Imaged(p, k, t)'
  BY <1>0, <1>1, ImagedKeeps
<1>2. ASSUME NEW q \in Pid, Call(q) PROVE Imaged(p, k, t)'
  BY <1>1, <1>2, CallIs
<1>3. ASSUME NEW q \in Pid, NEW op, NEW s, Flushes(q, op, s) PROVE Imaged(p, k, t)'
  <2>1. /\ UNCHANGED <<segment, segments>> /\ Starts' \subseteq Starts \cup {NewStart(q)} /\ Alive(q)
    BY <1>3, FlushIs DEF Alive
  <2>2. PICK n \in Nat : /\ DOMAIN files = 1..n /\ DOMAIN files' = 1..(n + 1)
                         /\ files'[n + 1][1] = segment[q]
                         /\ \A i \in 1..n : files'[i] = files[i]
    BY <1>3, FlushIs
  <2>3. segment[p] # k => \A j \in DOMAIN files' : files'[j][1] = k =>
            j \in DOMAIN files /\ files'[j] = files[j]
    BY <1>0, <2>1, <2>2
  <2> QED
    BY <1>1, <2>1, <2>3
<1>4. ASSUME NEW q \in Pid, ExecFails(q) PROVE Imaged(p, k, t)'
  <2>1. /\ UNCHANGED files /\ Starts' \subseteq Starts \cup {NewStart(q)}
        /\ Enters(q, id[q], segments[segment[q]].forkedBy)
    BY <1>4, FailIs
  <2>2. segments'[k].id = segments[k].id /\ (segment[p] # k => segment'[p] # k)
    BY <2>1 DEF Enters
  <2> QED
    BY <1>1, <2>1, <2>2
<1>5. ASSUME NEW q \in Pid, Kill(q) PROVE Imaged(p, k, t)'
  BY <1>1, <1>5, KillIs
<1>6. ASSUME NEW q \in Pid, NEW c \in Pid, Fork(q, c) \/ Vfork(q, c) PROVE Imaged(p, k, t)'
  <2>1. UNCHANGED files /\ Starts' \subseteq Starts /\ Enters(c, id[q], segment[q])
    BY <1>6, BegetIs
  <2>2. segments'[k].id = segments[k].id /\ (segment[p] # k => segment'[p] # k)
    BY <2>1 DEF Enters
  <2> QED
    BY <1>1, <2>1, <2>2
<1>7. ASSUME NEW q \in Pid, NEW n \in Id, ExecSucceeds(q, n) PROVE Imaged(p, k, t)'
  <2>1. UNCHANGED files /\ Starts' \subseteq Starts /\ Enters(q, n, segments[segment[q]].forkedBy)
    BY <1>7, ExecIs
  <2>2. segments'[k].id = segments[k].id /\ (segment[p] # k => segment'[p] # k)
    BY <2>1 DEF Enters
  <2> QED
    BY <1>1, <2>1, <2>2
<1>8. ASSUME NEW q \in Pid, NEW n \in Id, Setenv(q, n) PROVE Imaged(p, k, t)'
  <2>1. /\ UNCHANGED <<files, segment>> /\ Starts' \subseteq Starts /\ status[q] = "running"
        /\ k # segment[q] => segments'[k].id = segments[k].id
        /\ ~Started(q)
    BY <1>8, SetenvIs
  <2>2. CASE segment[q] = k
    <3>1. q = p
      BY <1>0, <2>1, <2>2 DEF Alive
    <3>2. ~OwnStarted(p)
      <4>1. \A j \in DOMAIN files : StartOf(files[j][2]) = files[j][2][1]
        BY StartsIn
      <4> QED
        BY <2>1, <3>1, <4>1 DEF OwnStarted, OwnHead, Started
    <3>3. \A s \in Starts : ~(s.pid = p /\ s.ts > t)
      BY <2>1, <2>2, <3>1, <3>2 DEF Dated
    <3> QED
      BY <2>1, <3>3 DEF Imaged
  <2>3. CASE segment[q] # k
    BY <1>1, <2>1, <2>3
  <2> QED
    BY <2>2, <2>3
<1>9. ASSUME UNCHANGED vars PROVE Imaged(p, k, t)'
  BY <1>9 DEF vars, observers, Imaged, Starts, Buffers, Saves
<1>10. ASSUME NEW q \in Pid, ExecHook(q) \/ Exit(q) PROVE \E op, s : Flushes(q, op, s)
  BY <1>10 DEF Flushes
<1> QED
  BY <1>2, <1>3, <1>4, <1>5, <1>6, <1>7, <1>8, <1>9, <1>10 DEF Next

ExecImageInv ==
    \A x \in execs : \A i \in DOMAIN files : \A p \in Pid, t \in Nat :
        ExecOf(x, i, p, t) => Imaged(p, x.to, t)

LEMMA ExecImageStep ==
    ASSUME Base, LastInv, DateInv, ~uneven => ImageInv /\ ExecImageInv, [Next]_vars
    PROVE  ~uneven' => ExecImageInv'
<1> SUFFICES ASSUME ~uneven' PROVE ExecImageInv'
  OBVIOUS
<1>0. ~uneven
  BY DEF Next, Call, ExecHook, ExecFails, Exit, Kill, Dies, Fork, Vfork, ExecSucceeds, Setenv,
         vars, observers
<1> SUFFICES ASSUME NEW x \in execs', NEW i \in DOMAIN files', NEW p \in Pid, NEW t \in Nat,
                    ExecOf(x, i, p, t)'
             PROVE  Imaged(p, x.to, t)'
  BY DEF ExecImageInv
<1>1. files'[i][1] = x.from /\ t = End(files'[i][2]).ts /\ p = segments'[x.to].pid
  BY DEF ExecOf
<1>2. CASE x \in execs /\ segments'[x.to].pid = segments[x.to].pid
           /\ i \in DOMAIN files /\ files'[i] = files[i]
  <2>1. x.to \in DOMAIN segments /\ segments[x.to].pid = p
    BY <1>1, <1>2, ExecsAre
  <2>2. Dated(p, x.to, t) /\ Imaged(p, x.to, t) /\ ImageInv
    BY <1>0, <1>1, <1>2 DEF DateInv, ExecImageInv, ExecOf
  <2> QED
    BY <2>1, <2>2, ImagedStep
<1>3. ASSUME NEW q \in Pid, NEW n \in Id, ExecSucceeds(q, n),
             x.from = segment[q], x.to = Len(segments) + 1
      PROVE  Imaged(p, x.to, t)'
  <2>1. /\ UNCHANGED files /\ status[q] = "exec" /\ Starts' \subseteq Starts
        /\ Enters(q, n, segments[segment[q]].forkedBy)
    BY <1>3, ExecIs
  <2>2. p = q
    BY <1>1, <1>3, <2>1 DEF Enters
  <2>3. \A s \in Starts : s.pid = p => s.ts < t
    BY <1>1, <1>3, <2>1, <2>2 DEF LastInv
  <2>4. \A s \in Starts : s.ts \in Nat
    BY StartsIn
  <2>5. \A s \in Starts' : s.pid = p => ~(s.ts > t)
    BY <2>1, <2>3, <2>4
  <2> QED
    BY <2>5 DEF Imaged
<1> QED
  BY <1>1, <1>2, <1>3, ExecsGrow
-----------------------------------------------------------------------------
(* Parents: a process has the parent that forked it until that is dead.    *)

Forked(p) == segments[segment[p]].forkedBy # 0
Forker(p) == segments[segments[segment[p]].forkedBy].pid

\* A process is forked once.
LEMMA ForkersStay ==
    ASSUME Base, NEW p \in Pid, status[p] # "unborn", [Next]_vars
    PROVE  /\ status'[p] # "unborn"
           /\ Forked(p)' <=> Forked(p)
           /\ Forked(p) => Forker(p)' = Forker(p) /\ Forker(p) \in Pid
           /\ \A k \in DOMAIN segments : k \in DOMAIN segments' /\ segments'[k].pid = segments[k].pid
           /\ \A q \in Pid : status[q] = "dead" => status'[q] = "dead"
<1> DEFINE Goal == /\ status'[p] # "unborn"
                   /\ Forked(p)' <=> Forked(p)
                   /\ Forked(p) => Forker(p)' = Forker(p) /\ Forker(p) \in Pid
                   /\ \A k \in DOMAIN segments : k \in DOMAIN segments' /\ segments'[k].pid = segments[k].pid
                   /\ \A q \in Pid : status[q] = "dead" => status'[q] = "dead"
<1>0. /\ \A o \in Pid : segment[o] \in DOMAIN segments
      /\ Forked(p) => segments[segment[p]].forkedBy \in DOMAIN segments /\ Forker(p) \in Pid
  <2>1. \A o \in Pid : segment[o] \in DOMAIN segments
    BY SegmentsAre DEF Base
  <2>2. Forked(p) => segments[segment[p]].forkedBy \in DOMAIN segments
    BY <2>1 DEF Base, SegmentInv, Forked
  <2> QED
    BY <2>1, <2>2, SegmentsAre DEF Base, Forker
<1>1. ASSUME UNCHANGED segment, DOMAIN segments' = DOMAIN segments,
             \A k \in DOMAIN segments : /\ segments'[k].pid = segments[k].pid
                                        /\ segments'[k].forkedBy = segments[k].forkedBy,
             status'[p] # "unborn", \A q \in Pid : status[q] = "dead" => status'[q] = "dead"
      PROVE  Goal
  BY <1>0, <1>1 DEF Forked, Forker
<1>2. ASSUME NEW q \in Pid, NEW n, NEW f, Enters(q, n, f), p # q \/ f = segments[segment[q]].forkedBy,
             status[q] # "dead", status'[q] = "running", \A o \in Pid \ {q} : status'[o] = status[o]
      PROVE  Goal
  <2>1. \A k \in DOMAIN segments : k \in DOMAIN segments' /\ segments'[k] = segments[k]
    BY <1>2 DEF Enters
  <2>2. segments'[segment'[p]].forkedBy = segments[segment[p]].forkedBy
    BY <1>0, <1>2 DEF Enters
  <2> QED
    BY <1>0, <1>2, <2>1, <2>2 DEF Forked, Forker
<1> HIDE DEF Goal
<1>3. ASSUME NEW q \in Pid, Call(q) PROVE Goal
  BY <1>1, <1>3, CallIs
<1>4. ASSUME NEW q \in Pid, NEW op, NEW s, Flushes(q, op, s) PROVE Goal
  <2>1. s # "unborn"
    BY <1>4 DEF Flushes
  <2>2. status[q] = "running" /\ status'[q] = s /\ \A o \in Pid \ {q} : status'[o] = status[o]
    BY <1>4, FlushIs
  <2>3. status'[p] # "unborn" /\ \A o \in Pid : status[o] = "dead" => status'[o] = "dead"
    BY <2>1, <2>2
  <2> QED
    BY <1>1, <1>4, <2>3, FlushIs
<1>5. ASSUME NEW q \in Pid, ExecFails(q) PROVE Goal
  BY <1>2, <1>5, FailIs
<1>6. ASSUME NEW q \in Pid, Kill(q) PROVE Goal
  <2>1. status'[q] = "dead" /\ \A o \in Pid \ {q} : status'[o] = status[o]
    BY <1>6, KillIs
  <2>2. status'[p] # "unborn" /\ \A o \in Pid : status[o] = "dead" => status'[o] = "dead"
    BY <2>1
  <2> QED
    BY <1>1, <1>6, <2>2, KillIs
<1>7. ASSUME NEW q \in Pid, NEW c \in Pid, Fork(q, c) \/ Vfork(q, c) PROVE Goal
  <2>1. /\ status[c] = "unborn" /\ status'[c] = "running" /\ \A o \in Pid \ {c} : status'[o] = status[o]
        /\ Enters(c, id[q], segment[q])
    BY <1>7, BegetIs
  <2> QED
    BY <1>2, <2>1
<1>8. ASSUME NEW q \in Pid, NEW n \in Id, ExecSucceeds(q, n) PROVE Goal
  BY <1>2, <1>8, ExecIs
<1>9. ASSUME NEW q \in Pid, NEW n \in Id, Setenv(q, n) PROVE Goal
  BY <1>1, <1>9, SetenvIs
<1>10. ASSUME UNCHANGED vars PROVE Goal
  BY <1>1, <1>10 DEF vars, observers
<1>11. ASSUME NEW q \in Pid, ExecHook(q) \/ Exit(q) PROVE \E op, s : Flushes(q, op, s)
  BY <1>11 DEF Flushes
<1>12. Goal
  BY <1>3, <1>4, <1>5, <1>6, <1>7, <1>8, <1>9, <1>10, <1>11 DEF Next
<1> QED
  BY <1>12 DEF Goal

\* The parent of p is pp, or p's forker is dead.
Fathered(p, pp) == Forked(p) => pp = Forker(p) \/ status[Forker(p)] = "dead"
OrphanInv ==
    /\ \A p \in Pid : status[p] # "unborn" => Fathered(p, parent[p])
    /\ \A s \in Starts : Fathered(s.pid, s.ppid)
    /\ \A i, j \in DOMAIN files : \A s \in Starts :
          s = files[i][2][1] /\ i <= j /\ Forked(s.pid) /\ s.ppid # Forker(s.pid)
          => segments[files[j][1]].pid # Forker(s.pid)

LEMMA FatheredStep ==
    ASSUME Base, NEW p \in Pid, status[p] # "unborn", NEW pp, Fathered(p, pp), [Next]_vars
    PROVE  Fathered(p, pp)'
BY ForkersStay DEF Fathered
\* Who is stamped in a START, and whose parent is gone.
LEMMA StampsAre ==
    ASSUME Base, [Next]_vars
    PROVE  /\ \/ Starts' \subseteq Starts
              \/ \E q \in Pid : status[q] # "unborn" /\ Starts' \subseteq Starts \cup {NewStart(q)}
           /\ \A p \in Pid : \/ parent'[p] = parent[p]
                             \/ parent[p] \in Pid /\ status'[parent[p]] = "dead"
                             \/ status[p] = "unborn"
           /\ \A p \in Pid : status[p] = "unborn" /\ status'[p] # "unborn" =>
                 \E q \in Pid : /\ parent'[p] = q /\ status[q] # "unborn" /\ p # q
                                /\ Enters(p, id[q], segment[q])
<1> DEFINE Goal == /\ \/ Starts' \subseteq Starts
                      \/ \E q \in Pid : status[q] # "unborn" /\ Starts' \subseteq Starts \cup {NewStart(q)}
                   /\ \A p \in Pid : \/ parent'[p] = parent[p]
                                     \/ parent[p] \in Pid /\ status'[parent[p]] = "dead"
                                     \/ status[p] = "unborn"
                   /\ \A p \in Pid : status[p] = "unborn" /\ status'[p] # "unborn" =>
                         \E q \in Pid : /\ parent'[p] = q /\ status[q] # "unborn" /\ p # q
                                        /\ Enters(p, id[q], segment[q])
<1>1. ASSUME NEW q \in Pid, Call(q) PROVE Goal
  BY <1>1, CallIs
<1>2. ASSUME NEW q \in Pid, NEW op, NEW s, Flushes(q, op, s) PROVE Goal
  <2>1. /\ status[q] = "running" /\ status'[q] = s /\ \A o \in Pid \ {q} : status'[o] = status[o]
        /\ Starts' \subseteq Starts \cup {NewStart(q)}
    BY <1>2, FlushIs
  <2>2. \A p \in Pid : parent'[p] = parent[p] \/ (parent[p] = q /\ s = "dead")
    BY <1>2 DEF Flushes, ExecHook, Exit, Dies, Base, TypeInv
  <2> QED
    BY <2>1, <2>2
<1>3. ASSUME NEW q \in Pid, ExecFails(q) PROVE Goal
  BY <1>3, FailIs
<1>4. ASSUME NEW q \in Pid, Kill(q) PROVE Goal
  <2>1. /\ Alive(q) /\ status'[q] = "dead" /\ \A o \in Pid \ {q} : status'[o] = status[o]
        /\ \A o \in Pid : parent'[o] = parent[o] \/ parent[o] = q
        /\ Starts' \subseteq Starts
    BY <1>4, KillIs
  <2> QED
    BY <2>1 DEF Alive
<1>5. ASSUME NEW q \in Pid, NEW c \in Pid, Fork(q, c) \/ Vfork(q, c) PROVE Goal
  <2>1. /\ status[q] = "running" /\ q # c /\ status[c] = "unborn" /\ parent'[c] = q
        /\ \A o \in Pid \ {c} : status'[o] = status[o] /\ parent'[o] = parent[o]
        /\ Starts' \subseteq Starts /\ Enters(c, id[q], segment[q])
    BY <1>5, BegetIs
  <2> QED
    BY <2>1
<1>6. ASSUME NEW q \in Pid, NEW n \in Id, ExecSucceeds(q, n) PROVE Goal
  <2>1. /\ status[q] = "exec" /\ \A o \in Pid \ {q} : status'[o] = status[o]
        /\ UNCHANGED parent /\ Starts' \subseteq Starts
    BY <1>6, ExecIs
  <2> QED
    BY <2>1
<1>7. ASSUME NEW q \in Pid, NEW n \in Id, Setenv(q, n) PROVE Goal
  BY <1>7, SetenvIs
<1>8. ASSUME UNCHANGED vars PROVE Goal
  BY <1>8 DEF vars, observers, Starts, Buffers, Saves
<1>9. ASSUME NEW q \in Pid, ExecHook(q) \/ Exit(q) PROVE \E op, s : Flushes(q, op, s)
  BY <1>9 DEF Flushes
<1> HIDE DEF Goal
<1>10. Goal
  BY <1>1, <1>2, <1>3, <1>4, <1>5, <1>6, <1>7, <1>8, <1>9 DEF Next
<1> QED
  BY <1>10 DEF Goal

LEMMA OrphanStep ==
    ASSUME Base, KinInv, OrphanInv, [Next]_vars PROVE OrphanInv'
<1>0. /\ TypeInv /\ SegmentInv /\ BufferInv
      /\ \A s \in Starts : s.pid \in Pid /\ status[s.pid] # "unborn"
  BY StartsIn DEF Base, KinInv, Kin, Starts
<1>1. \A q \in Pid : status[q] # "unborn" => Fathered(q, parent[q])
  BY DEF OrphanInv
<1>2. \A s \in Starts' : Fathered(s.pid, s.ppid) /\ s.pid \in Pid /\ status[s.pid] # "unborn"
  <2>1. \A q \in Pid : NewStart(q).pid = q /\ NewStart(q).ppid = parent[q]
    BY StartsIn
  <2>2. \A s \in Starts : Fathered(s.pid, s.ppid)
    BY DEF OrphanInv
  <2> QED
    BY <1>0, <1>1, <2>1, <2>2, StampsAre
<1>3. ASSUME NEW s \in Starts' PROVE Fathered(s.pid, s.ppid)'
  <2>1. PICK p \in Pid : p = s.pid
    BY <1>2, <1>3
  <2>2. PICK pp : pp = s.ppid
    OBVIOUS
  <2>3. Fathered(p, pp)'
    BY <1>2, <1>3, <2>1, <2>2, FatheredStep
  <2> QED
    BY <2>1, <2>2, <2>3
<1>4. ASSUME NEW p \in Pid, status'[p] # "unborn" PROVE Fathered(p, parent[p])'
  <2>1. CASE status[p] = "unborn"
    <3>1. PICK q \in Pid : /\ parent'[p] = q /\ status[q] # "unborn" /\ p # q
                           /\ Enters(p, id[q], segment[q])
      BY <1>4, <2>1, StampsAre
    <3>2. segment[q] \in DOMAIN segments /\ segments[segment[q]].pid = q
      BY <1>0, <3>1 DEF SegmentInv
    <3>3. segments'[segments'[segment'[p]].forkedBy].pid = q
      BY <3>1, <3>2 DEF Enters
    <3> QED
      BY <3>1, <3>3 DEF Fathered, Forker
  <2>2. CASE status[p] # "unborn"
    <3>1. PICK pp : pp = parent[p]
      OBVIOUS
    <3>2. Fathered(p, pp)'
      BY <1>1, <2>2, <3>1, FatheredStep
    <3>3. parent'[p] = pp \/ status'[pp] = "dead"
      BY <2>2, <3>1, StampsAre
    <3> QED
      BY <3>2, <3>3 DEF Fathered
  <2> QED
    BY <2>1, <2>2
<1>5. ASSUME NEW p \in Pid, status[p] # "unborn"
      PROVE  /\ Forked(p)' <=> Forked(p)
             /\ Forked(p) => Forker(p)' = Forker(p)
  BY <1>5, ForkersStay
<1>6. \A k \in DOMAIN segments : segments'[k].pid = segments[k].pid
  <2>1. CASE \E p \in Pid : status[p] # "unborn"
    BY <2>1, ForkersStay
  <2>2. CASE \A p \in Pid : status[p] = "unborn"
    BY <1>0, <2>2, SegmentsAre DEF SegmentInv
  <2> QED
    BY <2>1, <2>2
<1>7. ASSUME NEW i \in DOMAIN files, NEW j \in DOMAIN files, NEW s \in Starts',
             s = files[i][2][1], i <= j, Forked(s.pid)', s.ppid # Forker(s.pid)'
      PROVE  segments'[files[j][1]].pid # Forker(s.pid)'
  <2>1. PICK p \in Pid : p = s.pid /\ status[p] # "unborn"
    BY <1>2, <1>7
  <2>2. Forked(p) /\ Forker(p)' = Forker(p) /\ s.ppid # Forker(p)
    BY <1>5, <1>7, <2>1
  <2>3. s \in Starts /\ files[j][1] \in DOMAIN segments
    BY <1>7, StartsIn
  <2>4. segments[files[j][1]].pid # Forker(p)
    BY <1>7, <2>1, <2>2, <2>3 DEF OrphanInv
  <2> QED
    BY <1>6, <2>1, <2>2, <2>3, <2>4
<1>8. ASSUME NEW q \in Pid, NEW op, NEW st, Flushes(q, op, st),
             NEW i \in DOMAIN files', NEW j \in DOMAIN files', NEW s \in Starts',
             s = files'[i][2][1], i <= j, Forked(s.pid)', s.ppid # Forker(s.pid)'
      PROVE  segments'[files'[j][1]].pid # Forker(s.pid)'
  <2>1. /\ UNCHANGED <<segment, segments>> /\ status[q] = "running"
    BY <1>8, FlushIs
  <2>2. PICK n \in Nat : /\ DOMAIN files = 1..n /\ DOMAIN files' = 1..(n + 1)
                         /\ files'[n + 1][1] = segment[q]
                         /\ \A k \in 1..n : files'[k] = files[k]
    BY <1>8, FlushIs
  <2>3. CASE j = n + 1
    <3>1. PICK p \in Pid : p = s.pid /\ status[p] # "unborn"
      BY <1>2, <1>8
    <3>2. Forked(p) /\ Forker(p)' = Forker(p) /\ s.ppid # Forker(p)
      BY <1>5, <1>8, <3>1
    <3>3. status[Forker(p)] = "dead"
      BY <1>2, <1>8, <3>1, <3>2 DEF Fathered
    <3>4. segments[segment[q]].pid = q
      BY <1>0, <2>1 DEF SegmentInv
    <3> QED
      BY <2>1, <2>2, <2>3, <3>1, <3>2, <3>3, <3>4
  <2>4. CASE j # n + 1
    <3>1. /\ i \in DOMAIN files /\ files'[i] = files[i]
          /\ j \in DOMAIN files /\ files'[j] = files[j]
      BY <1>8, <2>2, <2>4
    <3> QED
      BY <1>7, <1>8, <3>1
  <2> QED
    BY <2>3, <2>4
<1>9. UNCHANGED files \/ \E q \in Pid : \E op, st : Flushes(q, op, st)
  <2>1. UNCHANGED files \/ \E q \in Pid : ExecHook(q) \/ Exit(q)
    BY DEF Next, Call, ExecFails, Kill, Fork, Vfork, Begets, ExecSucceeds, Setenv, vars
  <2>2. ASSUME NEW q \in Pid, ExecHook(q) \/ Exit(q) PROVE \E op, s : Flushes(q, op, s)
    BY <2>2 DEF Flushes
  <2> QED
    BY <2>1, <2>2
<1>10. ASSUME NEW i \in DOMAIN files', NEW j \in DOMAIN files', NEW s \in Starts',
              s = files'[i][2][1], i <= j, Forked(s.pid)', s.ppid # Forker(s.pid)'
       PROVE  segments'[files'[j][1]].pid # Forker(s.pid)'
  BY <1>7, <1>8, <1>9, <1>10
<1> QED
  BY <1>3, <1>4, <1>10 DEF OrphanInv
-----------------------------------------------------------------------------
(* The EXEC of an exec that went well has no EXEC_FAIL to itself, and none  *)
(* that comes after it has an EXEC before it.                              *)

\* Segments whose exec is under way or succeeded, and began alone.
Marked(s) ==
    /\ s \notin crossed
    /\ \/ \E x \in execs : x.from = s
       \/ \E p \in Pid : status[p] = "exec" /\ segment[p] = s

\* A buffer of id n with an EXEC_FAIL not before t.
Late(b, n, t) == Failing(b) /\ b[1].id = n /\ b[2].ts >= t

Clear(u, v, s, n, t) ==
    /\ \A i \in DOMAIN files : Late(files[i][2], n, t) => u[i] > t
    /\ \A m \in Pid : Late(queue[m], n, t) => v[m] > t
    /\ \A p \in Pid : status[p] = "exec" /\ id[p] = n /\ segment[p] # s => v[memory[p]] > t

Clears(u, v) ==
    \A i \in DOMAIN files : \A s, n : \A t \in Nat :
        /\ s = files[i][1] /\ n = files[i][2][1].id /\ t = End(files[i][2]).ts
        /\ Marked(s)
        => Clear(u, v, s, n, t)
ClearInv == \E u, v : Tickets(u, v, files, queue, status, memory, id, clock) /\ Clears(u, v)

LEMMA MarksStay ==
    ASSUME Base, NEW i \in DOMAIN files, NEW s, s = files[i][1], Marked(s)', [Next]_vars
    PROVE  Marked(s) /\ \A q \in Pid : ExecFails(q) => segment[q] # s
<1>0. TypeInv /\ SegmentInv /\ \A q \in Pid : segment[q] \in DOMAIN segments
  BY SegmentsAre DEF Base
<1>a. s \in DOMAIN segments
  BY <1>0 DEF SegmentInv
<1>1. ASSUME crossed \subseteq crossed', execs' = execs,
             \A p \in Pid : status'[p] = "exec" /\ segment'[p] = s =>
                 status[p] = "exec" /\ segment[p] = s
      PROVE  Marked(s)
  BY <1>1 DEF Marked
<1>2. ASSUME NEW q \in Pid, Call(q) PROVE Marked(s)
  BY <1>1, <1>2, CallIs
<1>3. ASSUME NEW q \in Pid, NEW op, NEW st, Flushes(q, op, st) PROVE Marked(s)
  <2>1. /\ UNCHANGED <<segment, execs>> /\ status[q] = "running"
        /\ \A o \in Pid \ {q} : status'[o] = status[o]
    BY <1>3, FlushIs
  <2>2. segment[q] # s
    BY <1>0, <2>1 DEF SegmentInv
  <2>3. crossed \subseteq crossed'
    BY <1>3 DEF Flushes, ExecHook, Exit, Dies, observers
  <2> QED
    BY <1>1, <2>1, <2>2, <2>3
<1>4. ASSUME NEW q \in Pid, ExecFails(q) PROVE Marked(s) /\ segment[q] # s
  <2>1. /\ UNCHANGED <<execs, crossed>> /\ status[q] = "exec" /\ status'[q] = "running"
        /\ \A o \in Pid \ {q} : status'[o] = status[o] /\ segment'[o] = segment[o]
    BY <1>4, FailIs DEF Enters
  <2>2. Marked(s)
    BY <1>1, <2>1
  <2>3. ASSUME segment[q] = s PROVE FALSE
    <3>1. \A x \in execs : x.from # s
      BY <2>1, <2>3, ExecsAre DEF Alive
    <3>2. PICK p \in Pid : status'[p] = "exec" /\ segment'[p] = s
      BY <2>1, <3>1 DEF Marked
    <3>3. p # q /\ status[p] = "exec" /\ segment[p] = s
      BY <2>1, <3>2
    <3>4. segments[s].pid = p /\ segments[s].pid = q
      BY <1>0, <2>1, <2>3, <3>3 DEF SegmentInv
    <3> QED
      BY <3>3, <3>4
  <2> QED
    BY <2>2, <2>3
<1>5. ASSUME NEW q \in Pid, Kill(q) PROVE Marked(s)
  <2>1. /\ UNCHANGED <<segment, execs, crossed>> /\ status'[q] = "dead"
        /\ \A o \in Pid \ {q} : status'[o] = status[o]
    BY <1>5, KillIs
  <2> QED
    BY <1>1, <2>1
<1>6. ASSUME NEW q \in Pid, NEW c \in Pid, Fork(q, c) \/ Vfork(q, c) PROVE Marked(s)
  <2>1. /\ UNCHANGED <<execs, crossed>> /\ status'[c] = "running"
        /\ \A o \in Pid \ {c} : status'[o] = status[o]
        /\ Enters(c, id[q], segment[q])
    BY <1>6, BegetIs
  <2> QED
    BY <1>1, <2>1 DEF Enters
<1>7. ASSUME NEW q \in Pid, NEW n \in Id, ExecSucceeds(q, n) PROVE Marked(s)
  <2>1. /\ UNCHANGED crossed /\ status[q] = "exec" /\ status'[q] = "running"
        /\ \A o \in Pid \ {q} : status'[o] = status[o]
        /\ execs' = execs \cup {[from |-> segment[q], to |-> Len(segments) + 1]}
        /\ Enters(q, n, segments[segment[q]].forkedBy)
    BY <1>7, ExecIs
  <2>2. \A o \in Pid \ {q} : segment'[o] = segment[o]
    BY <2>1 DEF Enters
  <2>3. ASSUME NEW x \in execs', x.from = s PROVE x \in execs \/ segment[q] = s
    BY <2>1, <2>3
  <2> QED
    BY <2>1, <2>2, <2>3 DEF Marked
<1>8. ASSUME NEW q \in Pid, NEW n \in Id, Setenv(q, n) PROVE Marked(s)
  BY <1>1, <1>8, SetenvIs
<1>9. ASSUME UNCHANGED vars PROVE Marked(s)
  BY <1>1, <1>9 DEF vars, observers
<1>10. ASSUME NEW q \in Pid, ExecHook(q) \/ Exit(q) PROVE \E op, st : Flushes(q, op, st)
  BY <1>10 DEF Flushes
<1> QED
  BY <1>2, <1>3, <1>4, <1>5, <1>6, <1>7, <1>8, <1>9, <1>10 DEF Next
\* A step that saves nothing.
LEMMA ClearKeeps ==
    ASSUME UNCHANGED files, NEW u, NEW v, NEW s, NEW n, NEW t, Clear(u, v, s, n, t),
           \A m \in Pid : Late(queue'[m], n, t) =>
               \/ Late(queue[m], n, t)
               \/ \E p \in Pid : status[p] = "exec" /\ id[p] = n /\ segment[p] # s /\ memory[p] = m,
           \A p \in Pid : status'[p] = "exec" =>
               /\ status[p] = "exec" /\ segment'[p] = segment[p]
               /\ memory'[p] = memory[p] /\ id'[p] = id[p]
    PROVE  Clear(u, v, s, n, t)'
BY DEF Clear

LEMMA ClearQuiet ==
    ASSUME Base, ~uneven', [Next]_vars, UNCHANGED files, NEW u, NEW v, NEW i \in DOMAIN files,
           NEW s, NEW n, NEW t, s = files[i][1], Marked(s)', Clear(u, v, s, n, t)
    PROVE  Clear(u, v, s, n, t)'
<1> DEFINE Goal == Clear(u, v, s, n, t)'
<1>0. TypeInv /\ MemoryInv /\ SegmentInv /\ ~Failing(<< >>)
  BY DEF Base, Failing
<1>1. ASSUME NEW q \in Pid, Call(q) PROVE Goal
  <2>1. \A m \in Pid : Failing(queue'[m]) => queue'[m] = queue[m]
    BY <1>1, CallIs
  <2>2. UNCHANGED <<status, id, memory, segment>>
    BY <1>1, CallIs
  <2> QED
    BY <2>1, <2>2, ClearKeeps DEF Late
<1>2. ASSUME NEW q \in Pid, ExecHook(q) \/ Exit(q) PROVE Goal
  <2>1. PICK op, st : Flushes(q, op, st)
    BY <1>2 DEF Flushes
  <2>2. \E k \in Nat : DOMAIN files = 1..k /\ DOMAIN files' = 1..(k + 1)
    BY <2>1, FlushIs
  <2>3. PICK k \in Nat : DOMAIN files = 1..k /\ DOMAIN files' = 1..(k + 1)
    BY <2>2
  <2>4. k + 1 \in 1..k
    BY <2>3
  <2> QED
    BY <2>4
<1>3. ASSUME NEW q \in Pid, ExecFails(q) PROVE Goal
  <2>1. /\ UNCHANGED <<id, memory>> /\ status[q] = "exec" /\ status'[q] = "running"
        /\ \A o \in Pid \ {q} : status'[o] = status[o] /\ segment'[o] = segment[o]
        /\ \A o \in Pid \ {memory[q]} : queue'[o] = queue[o]
        /\ Begun(queue'[memory[q]], q)
    BY <1>3, FailIs DEF Enters
  <2>2. queue'[memory[q]][1].id = id[q]
    BY <2>1, StartsIn DEF Begun
  <2>3. segment[q] # s
    BY <1>3, MarksStay
  <2>4. ASSUME NEW m \in Pid, Late(queue'[m], n, t)
        PROVE  \/ Late(queue[m], n, t)
               \/ \E p \in Pid : status[p] = "exec" /\ id[p] = n /\ segment[p] # s /\ memory[p] = m
    BY <2>1, <2>2, <2>3, <2>4 DEF Late
  <2> QED
    BY <2>1, <2>4, ClearKeeps
<1>4. ASSUME NEW q \in Pid, Kill(q) PROVE Goal
  <2>1. /\ UNCHANGED <<id, memory, segment>> /\ status'[q] = "dead"
        /\ \A o \in Pid \ {q} : status'[o] = status[o] /\ queue'[o] = queue[o]
        /\ queue'[q] \in {queue[q], << >>}
    BY <1>4, KillIs
  <2>2. \A m \in Pid : Failing(queue'[m]) => queue'[m] = queue[m]
    BY <1>0, <2>1
  <2> QED
    BY <2>1, <2>2, ClearKeeps DEF Late
<1>5. ASSUME NEW q \in Pid, NEW c \in Pid, Fork(q, c) \/ Vfork(q, c) PROVE Goal
  <2>1. /\ status'[c] = "running"
        /\ \A o \in Pid \ {c} : /\ status'[o] = status[o] /\ id'[o] = id[o]
                                /\ memory'[o] = memory[o] /\ queue'[o] = queue[o]
        /\ Failing(queue'[c]) => queue'[c] = queue[c]
        /\ Enters(c, id[q], segment[q])
    BY <1>5, BegetIs
  <2>2. \A m \in Pid : Failing(queue'[m]) => queue'[m] = queue[m]
    BY <2>1
  <2>3. \A o \in Pid \ {c} : segment'[o] = segment[o]
    BY <2>1 DEF Enters
  <2> QED
    BY <2>1, <2>2, <2>3, ClearKeeps DEF Late
<1>6. ASSUME NEW q \in Pid, NEW k \in Id, ExecSucceeds(q, k) PROVE Goal
  <2>1. /\ UNCHANGED queue /\ status'[q] = "running"
        /\ \A o \in Pid \ {q} : status'[o] = status[o] /\ id'[o] = id[o] /\ memory'[o] = memory[o]
        /\ Enters(q, k, segments[segment[q]].forkedBy)
    BY <1>6, ExecIs
  <2>2. \A o \in Pid \ {q} : segment'[o] = segment[o]
    BY <2>1 DEF Enters
  <2> QED
    BY <2>1, <2>2, ClearKeeps
<1>7. ASSUME NEW q \in Pid, NEW k \in Id, Setenv(q, k) PROVE Goal
  <2>1. /\ UNCHANGED <<status, memory, queue, segment>> /\ status[q] = "running"
        /\ \A o \in Pid \ {q} : id'[o] = id[o]
    BY <1>7, SetenvIs
  <2> QED
    BY <2>1, ClearKeeps
<1>8. ASSUME UNCHANGED vars PROVE Goal
  BY <1>8, ClearKeeps DEF vars, observers
<1> HIDE DEF Goal
<1>9. Goal
  BY <1>1, <1>2, <1>3, <1>4, <1>5, <1>6, <1>7, <1>8 DEF Next
<1> QED
  BY <1>9 DEF Goal

\* The file that q saves.
LEMMA FlushLate ==
    ASSUME Base, NEW q \in Pid, NEW op, NEW st, Flushes(q, op, st), NEW k \in Nat,
           DOMAIN files = 1..k, NEW n, NEW t, Late(files'[k + 1][2], n, t)
    PROVE  Late(queue[memory[q]], n, t)
<1>1. TypeInv /\ BufferInv /\ op \in {"EXEC", "END"} /\ Flush(q, op)
  BY FlushIs DEF Base, Flushes
<1>2. files'[k + 1][2] = Logged(q, op)
  <2>1. PICK j \in Nat : DOMAIN files = 1..j /\ files'[j + 1][2] = Logged(q, op)
    BY <1>1, FilesGrow
  <2>2. j = k
    BY <2>1
  <2> QED
    BY <2>1, <2>2
<1>3. Failing(Logged(q, op)) /\ Logged(q, op)[1].id = n /\ Logged(q, op)[2].ts >= t
  BY <1>2 DEF Late
<1>4. /\ Failing(queue[memory[q]])
      /\ Logged(q, op)[1].id = queue[memory[q]][1].id
      /\ Logged(q, op)[2] = queue[memory[q]][2]
  BY <1>1, <1>3, LoggedFails
<1> QED
  BY <1>3, <1>4 DEF Late
LEMMA ClearFlush ==
    ASSUME Base, SaneInv, NEW u, NEW v, NEW u2, NEW v2, Clears(u, v), [Next]_vars,
           NEW q \in Pid, NEW op, NEW st, Flushes(q, op, st), NEW k \in Nat, DOMAIN files = 1..k,
           Moves(u, v, k, memory[q], clock, u2, v2)
    PROVE  Clears(u2, v2)'
<1>0. TypeInv /\ BufferInv /\ SegmentInv /\ EndInv /\ clock \in Nat
      /\ ~Failing(<< >>) /\ \A p \in Pid : memory[p] \in Pid
  BY DEF Base, TypeInv, Failing
<1>1. /\ Runs(q) /\ status[q] = "running" /\ status'[q] = st
      /\ \A o \in Pid \ {q} : status'[o] = status[o]
      /\ UNCHANGED <<id, memory, segment, execs>> /\ queue'[memory[q]] = << >>
      /\ \A o \in Pid \ {memory[q]} : queue'[o] = queue[o]
  BY FlushIs
<1>2. /\ DOMAIN files' = 1..(k + 1) /\ files'[k + 1][1] = segment[q]
      /\ files'[k + 1][2][1] = IF queue[memory[q]] = << >> THEN NewStart(q) ELSE queue[memory[q]][1]
      /\ End(files'[k + 1][2]).ts = 2 * (clock + 1)
      /\ \A i \in 1..k : files'[i] = files[i]
  <2>1. PICK j \in Nat :
              /\ DOMAIN files = 1..j /\ DOMAIN files' = 1..(j + 1)
              /\ files'[j + 1][1] = segment[q]
              /\ files'[j + 1][2][1] = IF queue[memory[q]] = << >> THEN NewStart(q)
                                       ELSE queue[memory[q]][1]
              /\ End(files'[j + 1][2]).ts = 2 * (clock + 1)
              /\ \A i \in 1..j : files'[i] = files[i]
    BY FlushIs
  <2>2. j = k
    BY <2>1
  <2> QED
    BY <2>1, <2>2
<1>3. files'[k + 1][2][1].id = id[q]
  <2>1. CASE queue[memory[q]] = << >>
    BY <1>2, <2>1, StartsIn
  <2>2. CASE queue[memory[q]] # << >>
    <3>1. queue[memory[q]][1].id = id[q]
      BY <1>1, <2>2 DEF SaneInv, Queue, Alive
    <3> QED
      BY <1>2, <2>2, <3>1
  <2> QED
    BY <2>1, <2>2
<1>4. /\ u2[k + 1] = v[memory[q]] /\ \A i \in 1..k : u2[i] = u[i]
      /\ v2[memory[q]] = 2 * (clock + 1) /\ \A o \in Pid \ {memory[q]} : v2[o] = v[o]
  BY DEF Moves
<1> SUFFICES ASSUME NEW i \in DOMAIN files', NEW s, NEW n, NEW t \in Nat,
                    s = files'[i][1], n = files'[i][2][1].id, t = End(files'[i][2]).ts,
                    Marked(s)'
             PROVE  Clear(u2, v2, s, n, t)'
  BY DEF Clears
<1>5. CASE i \in 1..k
  <2>1. Marked(s)
    BY <1>2, <1>5, MarksStay
  <2>2. Clear(u, v, s, n, t)
    BY <1>2, <1>5, <2>1 DEF Clears
  <2>3. t <= 2 * clock
    BY <1>0, <1>2, <1>5 DEF EndInv
  <2>4. ASSUME NEW j \in DOMAIN files', Late(files'[j][2], n, t) PROVE u2[j] > t
    <3>1. CASE j \in 1..k
      <4>1. Late(files[j][2], n, t)
        BY <1>2, <2>4, <3>1
      <4> QED
        BY <1>4, <2>2, <3>1, <4>1 DEF Clear
    <3>2. CASE j = k + 1
      <4>1. Late(queue[memory[q]], n, t)
        BY <2>4, <3>2, FlushLate
      <4> QED
        BY <1>0, <1>4, <2>2, <3>2, <4>1 DEF Clear
    <3> QED
      BY <1>2, <3>1, <3>2
  <2>5. ASSUME NEW m \in Pid, Late(queue'[m], n, t) PROVE v2[m] > t
    <3>1. m # memory[q]
      BY <1>0, <1>1, <2>5 DEF Late
    <3>2. Late(queue[m], n, t)
      BY <1>1, <2>5, <3>1
    <3> QED
      BY <1>4, <2>2, <3>1, <3>2 DEF Clear
  <2>6. ASSUME NEW p \in Pid, status'[p] = "exec", id[p] = n, segment[p] # s PROVE v2[memory[p]] > t
    <3>1. CASE memory[p] = memory[q]
      BY <1>0, <1>4, <2>3, <3>1
    <3>2. CASE memory[p] # memory[q]
      <4>1. status[p] = "exec"
        BY <1>1, <2>6, <3>2
      <4>2. v[memory[p]] > t
        BY <2>2, <2>6, <4>1 DEF Clear
      <4> QED
        BY <1>0, <1>4, <3>2, <4>2
    <3> QED
      BY <3>1, <3>2
  <2> QED
    BY <1>1, <2>4, <2>5, <2>6 DEF Clear
<1>6. CASE i = k + 1
  <2>1. s = segment[q] /\ n = id[q] /\ t = 2 * (clock + 1)
    BY <1>2, <1>3, <1>6
  <2>2. \A b \in Buffers : ~Late(b, n, t)
    <3>1. ASSUME NEW b \in Buffers, Failing(b) PROVE ~(b[2].ts >= t)
      <4>1. b[2].ts \in Nat /\ b[2].ts <= 2 * clock
        BY <1>0, <3>1, FailingWhen
      <4> QED
        BY <1>0, <2>1, <4>1
    <3> QED
      BY <3>1 DEF Late
  <2>3. /\ \A m \in Pid : queue[m] \in Buffers
        /\ \A j \in 1..k : files[j][2] \in Buffers
    BY DEF Buffers, Saves
  <2>4. ASSUME NEW j \in DOMAIN files' PROVE ~Late(files'[j][2], n, t)
    <3>1. CASE j \in 1..k
      BY <1>2, <2>2, <2>3, <3>1
    <3>2. CASE j = k + 1
      BY <1>0, <2>2, <2>3, <3>2, FlushLate
    <3> QED
      BY <1>2, <3>1, <3>2
  <2>5. ASSUME NEW m \in Pid PROVE ~Late(queue'[m], n, t)
    <3>1. queue'[m] \in {queue[m], << >>}
      BY <1>1
    <3> QED
      BY <1>0, <2>2, <2>3, <3>1 DEF Late
  <2>6. ASSUME NEW p \in Pid, status'[p] = "exec", id[p] = n, segment[p] # s PROVE FALSE
    <3>1. p # q /\ status[p] = "exec"
      BY <1>1, <2>1, <2>6
    <3>2. CASE ExecHook(q)
      <4>1. segment[q] \in crossed'
        BY <2>1, <2>6, <3>1, <3>2 DEF ExecHook
      <4> QED
        BY <2>1, <4>1 DEF Marked
    <3>3. CASE Exit(q) /\ st = "dead"
      <4>1. \A x \in execs : x.from # s
        BY <1>1, <2>1, ExecsAre DEF Alive
      <4>2. PICK o \in Pid : status'[o] = "exec" /\ segment[o] = s
        BY <1>1, <4>1 DEF Marked
      <4>3. o # q /\ status[o] = "exec"
        BY <1>1, <3>3, <4>2
      <4>4. segments[s].pid = o /\ segments[s].pid = q
        BY <1>0, <1>1, <2>1, <4>2, <4>3 DEF SegmentInv
      <4> QED
        BY <4>3, <4>4
    <3> QED
      BY <3>2, <3>3 DEF Flushes
  <2> QED
    BY <1>1, <2>4, <2>5, <2>6 DEF Clear
<1> QED
  BY <1>2, <1>5, <1>6

LEMMA ClearStep ==
    ASSUME Base, ~uneven => SaneInv /\ ClearInv, [Next]_vars PROVE ~uneven' => ClearInv'
<1> SUFFICES ASSUME ~uneven' PROVE ClearInv'
  OBVIOUS
<1>1. ~uneven
  BY DEF Next, Call, ExecHook, ExecFails, Exit, Kill, Dies, Fork, Vfork, ExecSucceeds, Setenv,
         vars, observers
<1>2. SaneInv /\ TypeInv /\ BufferInv /\ MemoryInv
  BY <1>1 DEF Base
<1>3. PICK u, v : Tickets(u, v, files, queue, status, memory, id, clock) /\ Clears(u, v)
  BY <1>1 DEF ClearInv
<1>4. PICK u2, v2 : /\ Tickets(u2, v2, files', queue', status', memory', id', clock')
                    /\ Retickets(u, v, u2, v2)
  BY <1>2, <1>3, TicketStep
<1>5. Clears(u2, v2)'
  <2>1. CASE UNCHANGED files /\ u2 = u /\ v2 = v
    <3> SUFFICES ASSUME NEW i \in DOMAIN files, NEW s, NEW n, NEW t \in Nat,
                        s = files[i][1], n = files[i][2][1].id, t = End(files[i][2]).ts,
                        Marked(s)'
                 PROVE  Clear(u2, v2, s, n, t)'
      BY <2>1 DEF Clears
    <3>1. Clear(u2, v2, s, n, t)
      BY <1>3, <2>1, MarksStay DEF Clears
    <3> QED
      BY <2>1, <3>1, ClearQuiet
  <2>2. ASSUME NEW q \in Pid, NEW k \in Nat, ExecHook(q) \/ Exit(q),
               DOMAIN files = 1..k, Moves(u, v, k, memory[q], clock, u2, v2)
        PROVE  Clears(u2, v2)'
    <3>1. PICK op, st : Flushes(q, op, st)
      BY <2>2 DEF Flushes
    <3> QED
      BY <1>2, <1>3, <2>2, <3>1, ClearFlush
  <2> QED
    BY <1>4, <2>1, <2>2 DEF Retickets
<1> QED
  BY <1>4, <1>5 DEF ClearInv
-----------------------------------------------------------------------------
(* All of it is inductive.                                                 *)

ExecInv ==
    /\ TreeInv /\ PopInv /\ SegmentInv /\ EndInv
    /\ VforkInv /\ LastInv /\ DateInv /\ OrphanInv
    /\ ~uneven => ImageInv /\ ExecImageInv /\ ClearInv

LEMMA ExecInit == ASSUME Init PROVE ExecInv
<1>0. /\ files = << >> /\ execs = {} /\ \A p \in Pid : queue[p] = << >> /\ memory[p] = p
      /\ \A p \in Pid : status[p] \in {"running", "unborn"} /\ segment[p] = 1 /\ id[p] = RootId
      /\ \A p \in Pid : status[p] # "unborn" <=> p = Root
      /\ segments = <<[pid |-> Root, id |-> RootId, forkedBy |-> 0]>>
      /\ DOMAIN files = {} /\ ~Failing(<< >>)
  BY DEF Init, Failing
<1>1. TreeInv /\ PopInv
  BY TreeInit, PopInit
<1>2. /\ DOMAIN segments = {1} /\ segments[1].pid = Root /\ segments[1].id = RootId
      /\ segments[1].forkedBy = 0
  BY <1>0
<1>3. SegmentInv
  <2>1. segments \in Seq(Segment)
    <3>1. [pid |-> Root, id |-> RootId, forkedBy |-> 0] \in Segment
      BY ProcessTreeAssumption DEF Segment
    <3> QED
      BY <1>0, <3>1
  <2>2. segment \in [Pid -> DOMAIN segments]
    BY <1>2 DEF Init
  <2> QED
    BY <1>0, <1>2, <2>1, <2>2, ProcessTreeAssumption DEF SegmentInv
<1>4. EndInv
  BY <1>0 DEF EndInv
<1>5. VforkInv /\ LastInv
  BY <1>0 DEF VforkInv, LastInv
<1>6. DateInv /\ ExecImageInv
  BY <1>0 DEF DateInv, ExecImageInv
<1>7. ImageInv
  BY <1>0, <1>2 DEF ImageInv
<1>8. OrphanInv
  <2>1. Starts = {}
    BY <1>0 DEF Starts, StartsOf, Buffers, Saves
  <2>2. \A p \in Pid : status[p] # "unborn" => ~Forked(p)
    BY <1>0, <1>2 DEF Forked
  <2> QED
    BY <1>0, <2>1, <2>2 DEF OrphanInv, Fathered
<1>a. ~uneven
  BY DEF Init
<1>9. ClearInv
  <2>1. ASSUME NEW u, NEW v PROVE Clears(u, v)
    BY <1>0 DEF Clears
  <2>2. PICK u, v : Tickets(u, v, files, queue, status, memory, id, clock)
    BY <1>1, <1>a DEF PopInv, TicketInv
  <2> QED
    BY <2>1, <2>2 DEF ClearInv
<1> QED
  BY <1>1, <1>3, <1>4, <1>5, <1>6, <1>7, <1>8, <1>9 DEF ExecInv

LEMMA ExecInvStep == ASSUME ExecInv, [Next]_vars PROVE ExecInv'
<1>1. /\ TreeInv /\ PopInv /\ TypeInv /\ BufferInv /\ KinInv /\ MemoryInv /\ SegmentInv /\ EndInv
      /\ Base /\ VforkInv /\ LastInv /\ DateInv /\ OrphanInv
      /\ ~uneven => SaneInv /\ ImageInv /\ ExecImageInv /\ ClearInv
  BY DEF ExecInv, TreeInv, PopInv, Base
<1>2. TreeInv' /\ PopInv'
  BY <1>1, PopStep
<1>3. SegmentInv' /\ EndInv'
  BY <1>1, SegmentStep, EndStep
<1>4. VforkInv' /\ LastInv' /\ DateInv' /\ OrphanInv'
  BY <1>1, VforkStep, LastStep, DateStep, OrphanStep
<1>5. ~uneven' => ImageInv' /\ ExecImageInv'
  BY <1>1, ImageStep, ExecImageStep
<1>6. ~uneven' => ClearInv'
  BY <1>1, ClearStep
<1> QED
  BY <1>2, <1>3, <1>4, <1>5, <1>6 DEF ExecInv
-----------------------------------------------------------------------------
(* What Processor makes of the saved files.                                *)

\* The end of the process of a file is the event it ends with.
LEMMA EndTimeIs ==
    ASSUME NEW S, NEW b \in Seq(S), b # << >>, End(b).op \in {"EXEC", "END"}
    PROVE  EndTime(b) = End(b).ts
<1> DEFINE I == {i \in 1..Len(b) : b[i].op \in {"END", "EXEC"}}
           n == Len(b)
<1>1. n \in Nat \ {0} /\ n \in I /\ I \subseteq 1..n
  BY DEF End
<1> HIDE DEF I
<1>2. \E x \in I : \A y \in I : x >= y
  BY <1>1
<1>3. Max(I) = n
  <2> DEFINE m == Max(I)
  <2>1. m \in I /\ \A y \in I : m >= y
    BY <1>2 DEF Max
  <2> HIDE DEF m
  <2>2. m \in Nat /\ m <= n /\ m >= n
    BY <1>1, <2>1
  <2>3. m = n
    BY <1>1, <2>2
  <2> QED
    BY <2>3 DEF m
<1>4. SelectLastInSeq(b, LAMBDA e : e.op \in {"END", "EXEC"}) = n
  BY <1>1, <1>3 DEF SelectLastInSeq, I
<1> QED
  BY <1>1, <1>4 DEF EndTime, End

\* Saved files and their processes, in f.
FileAt(f, h, i) ==
    LET l == LinuxProcesses(f)[h]
        s == files[i][2][1] IN
    /\ i \in DOMAIN files /\ h \in DOMAIN f /\ f[h] = files[i][2]
    /\ l.pid = s.pid /\ l.ppid = s.ppid /\ l.process_id = s.id
    /\ l.start_time = s.ts /\ l.end_time = End(files[i][2]).ts

LEMMA FilesAt ==
    ASSUME Base, NEW f \in Orders
    PROVE  /\ \A i \in DOMAIN files : \E h \in DOMAIN f : FileAt(f, h, i)
           /\ \A h \in DOMAIN f : \E i \in DOMAIN files : FileAt(f, h, i)
<1>1. TypeInv /\ BufferInv /\ EndInv
  BY DEF Base
<1>2. PICK n \in Nat : \E g : Ordered(f, n, g)
  BY <1>1, OrderIs
<1>a. PICK g : Ordered(f, n, g)
  BY <1>2
<1>3. /\ n \in Nat /\ g \in [1..n -> 1..n] /\ DOMAIN files = 1..n /\ DOMAIN f = 1..n
      /\ \A h \in 1..n : f[h] = files[g[h]][2]
      /\ \A i \in 1..n : \E h \in 1..n : g[h] = i
  BY <1>a DEF Ordered
<1>4. ASSUME NEW h \in 1..n, NEW i \in 1..n, g[h] = i PROVE FileAt(f, h, i)
  <2>1. f[h] = files[i][2] /\ StartOf(files[i][2]) = files[i][2][1]
    BY <1>3, <1>4, StartsIn
  <2>2. EndTime(files[i][2]) = End(files[i][2]).ts
    <3>1. files[i][2] \in Buffers /\ files[i][2] # << >>
      BY <1>1, <1>3 DEF BufferInv, Buffers, Saves
    <3>2. files[i][2] \in Seq(StartEvents(clock) \cup OtherEvents(clock))
      BY <1>1, <3>1 DEF BufferInv, BufferOK
    <3>3. End(files[i][2]).op \in {"EXEC", "END"}
      BY <1>1, <1>3 DEF EndInv
    <3> QED
      BY <3>1, <3>2, <3>3, EndTimeIs
  <2>3. /\ LinuxProcesses(f)[h].pid = StartOf(f[h]).pid
        /\ LinuxProcesses(f)[h].ppid = StartOf(f[h]).ppid
        /\ LinuxProcesses(f)[h].start_time = StartOf(f[h]).ts
        /\ LinuxProcesses(f)[h].process_id = StartOf(f[h]).id
        /\ LinuxProcesses(f)[h].end_time = EndTime(f[h])
    <3>1. \A k \in 1..n : LET l == LinuxProcesses(f)[k] IN
                /\ l.pid = StartOf(f[k]).pid /\ l.ppid = StartOf(f[k]).ppid
                /\ l.start_time = StartOf(f[k]).ts /\ l.process_id = StartOf(f[k]).id
                /\ l.end_time = EndTime(f[k])
      BY <1>3, ProcessesAre
    <3> QED
      BY <1>4, <3>1
  <2> QED
    BY <1>3, <2>1, <2>2, <2>3 DEF FileAt
<1> QED
  BY <1>3, <1>4
LEMMA FileOfIs ==
    ASSUME Base, NEW s, Saved(s)
    PROVE  /\ IndexOf(s) \in DOMAIN files /\ files[IndexOf(s)][1] = s
           /\ FileOf(s) = files[IndexOf(s)][2]
           /\ StartOf(FileOf(s)) = files[IndexOf(s)][2][1]
           /\ \A i \in DOMAIN files : files[i][1] = s => i = IndexOf(s)
<1>1. IndexOf(s) \in DOMAIN files /\ files[IndexOf(s)][1] = s
  BY DEF Saved, IndexOf
<1> HIDE DEF IndexOf
<1>2. FileOf(s) = files[IndexOf(s)][2] /\ StartOf(FileOf(s)) = files[IndexOf(s)][2][1]
  BY <1>1, StartsIn DEF FileOf
<1> QED
  BY <1>1, <1>2 DEF Base, SegmentInv

\* A process whose forker outlived it is the child of a process with the id that
\* the forker had.
LEMMA ForkFound ==
    ASSUME Base, OrphanInv, NEW f \in Orders, NEW visited, NEW s \in DOMAIN segments,
           Saved(s), Own(s), Outlived(s), segments[s].pid \in visited
    PROVE  <<segments[segments[s].forkedBy].id, segments[s].id>>
               \in resolve_forks(LinuxProcesses(f), visited)
<1> DEFINE q == segments[s].forkedBy
           ps == LinuxProcesses(f)
           j == IndexOf(s)
           k == IndexOf(q)
           S == files[j][2][1]
<1>0. SegmentInv /\ EndInv /\ TypeInv
  BY DEF Base
<1>1. /\ q # 0 /\ Saved(q) /\ Own(q) /\ k \in Around(s)
      /\ \A i \in Around(s) : StartOf(files[i][2]).id = segments[q].id
  BY DEF Outlived
<1>2. /\ j \in DOMAIN files /\ files[j][1] = s /\ StartOf(FileOf(s)) = S
      /\ S.pid = segments[s].pid /\ S.id = segments[s].id
  BY FileOfIs DEF Own
<1>3. /\ k \in DOMAIN files /\ files[k][1] = q /\ k > j
      /\ files[k][2][1].pid = segments[q].pid /\ files[k][2][1].ts < S.ts
  <2>1. k \in DOMAIN files /\ files[k][1] = q /\ StartOf(FileOf(q)) = files[k][2][1]
    BY <1>1, FileOfIs
  <2>2. k > j /\ StartOf(files[k][2]).ts < S.ts
    BY <1>1, <1>2 DEF Around
  <2>3. StartOf(files[k][2]) = files[k][2][1]
    BY <2>1, StartsIn
  <2> QED
    BY <1>1, <2>1, <2>2, <2>3 DEF Own
<1>4. S.ppid = segments[q].pid
  <2>1. S \in Starts
    BY <1>2, StartsIn
  <2>2. S.pid \in Pid /\ segments[segment[S.pid]].forkedBy = q
    BY <1>0, <1>2, SegmentsAre DEF SegmentInv
  <2>3. Forked(S.pid) /\ Forker(S.pid) = segments[q].pid
    BY <1>1, <2>2 DEF Forked, Forker
  <2>4. j <= k
    <3>1. j \in Nat /\ k \in Nat
      BY <1>0, <1>2, <1>3 DEF TypeInv
    <3> QED
      BY <1>3, <3>1
  <2> HIDE DEF S, j, k, q
  <2>5. S = files[j][2][1] /\ segments[files[k][1]].pid = Forker(S.pid)
    BY <1>3, <2>3 DEF S
  <2>6. S.ppid # Forker(S.pid) => segments[files[k][1]].pid # Forker(S.pid)
    BY <1>2, <1>3, <2>1, <2>3, <2>4, <2>5 DEF OrphanInv
  <2> QED
    BY <2>3, <2>5, <2>6
<1>5. PICK c \in DOMAIN f : FileAt(f, c, j)
  BY <1>2, FilesAt
<1>6. PICK d \in DOMAIN f : FileAt(f, d, k)
  BY <1>3, FilesAt
<1> DEFINE Test(l) == l.pid = ps[c].ppid /\ IsParent(l, ps[c])
           I == {i \in 1..Len(ps) : Test(ps[i])}
<1>7. PICK n \in Nat : DOMAIN f = 1..n /\ DOMAIN ps = 1..n /\ Len(ps) = n
  <2>1. PICK n \in Nat : DOMAIN f = 1..n
    BY <1>0, OrderIs DEF Ordered
  <2> QED
    BY <2>1, ProcessesAre
<1>8. /\ ps[c].pid = segments[s].pid /\ ps[c].ppid = segments[q].pid /\ ps[c].process_id = segments[s].id
      /\ ps[c].start_time = S.ts /\ ps[c].end_time = End(files[j][2]).ts
  BY <1>2, <1>4, <1>5 DEF FileAt
<1>9. d \in I
  <2>1. /\ ps[d].pid = segments[q].pid /\ ps[d].start_time < S.ts
        /\ ps[d].end_time = End(files[k][2]).ts
    BY <1>3, <1>6 DEF FileAt
  <2>2. /\ End(files[j][2]).ts < End(files[k][2]).ts
        /\ End(files[j][2]).ts \in Nat /\ End(files[k][2]).ts \in Nat
    <3>1. j \in Nat /\ k \in Nat
      BY <1>0, <1>2, <1>3 DEF TypeInv
    <3>2. j < k
      BY <1>3, <3>1
    <3> QED
      BY <1>0, <1>2, <1>3, <3>2 DEF EndInv
  <2> HIDE DEF ps, q, S, j, k
  <2>3. Test(ps[d])
    BY <1>8, <2>1, <2>2 DEF IsParent
  <2> QED
    BY <1>7, <2>3
<1>10. ASSUME NEW h \in I PROVE ps[h].process_id = segments[q].id
  <2>1. h \in DOMAIN f
    BY <1>7
  <2>2. PICK a \in DOMAIN files : FileAt(f, h, a)
    BY <2>1, FilesAt
  <2>3. /\ ps[h].pid = files[a][2][1].pid /\ ps[h].process_id = files[a][2][1].id
        /\ ps[h].start_time = files[a][2][1].ts /\ ps[h].end_time = End(files[a][2]).ts
    BY <2>2 DEF FileAt
  <2>4. /\ files[a][2][1].pid = segments[q].pid /\ files[a][2][1].ts < S.ts
        /\ End(files[a][2]).ts > End(files[j][2]).ts
    BY <1>8, <1>10, <2>3 DEF IsParent
  <2>5. a > j
    <3>1. a \in Nat /\ j \in Nat /\ End(files[a][2]).ts \in Nat /\ End(files[j][2]).ts \in Nat
      BY <1>0, <1>2 DEF TypeInv, EndInv
    <3>2. ASSUME ~(a > j) PROVE FALSE
      <4>1. CASE a = j
        BY <2>4, <3>1, <4>1
      <4>2. CASE a < j
        <5>1. End(files[a][2]).ts < End(files[j][2]).ts
          BY <1>0, <1>2, <4>2 DEF EndInv
        <5> QED
          BY <2>4, <3>1, <5>1
      <4> QED
        BY <3>1, <3>2, <4>1, <4>2
    <3> QED
      BY <3>2
  <2>6. StartOf(files[a][2]) = files[a][2][1]
    BY StartsIn
  <2>7. a \in Around(s)
    BY <1>2, <2>4, <2>5, <2>6 DEF Around
  <2> QED
    BY <1>1, <2>3, <2>6, <2>7
<1> DEFINE Parent(i) == SelectInSeq(ps, LAMBDA l : l.pid = ps[i].ppid /\ IsParent(l, ps[i]))
<1>11. Parent(c) = Min(I)
  BY <1>9 DEF SelectInSeq
<1>12. Min(I) \in I
  <2>1. I \in SUBSET Nat /\ I # {}
    BY <1>7, <1>9
  <2> HIDE DEF I
  <2>2. \E x \in I : \A y \in I : x <= y
    BY <2>1, LeastNumber
  <2> QED
    BY <2>2 DEF Min
<1> HIDE DEF I
<1>13. Parent(c) # 0 /\ ps[Parent(c)].process_id = segments[q].id
  <2>1. Parent(c) \in I
    BY <1>11, <1>12
  <2>2. 0 \notin I
    BY <1>7 DEF I
  <2> HIDE DEF Parent
  <2> QED
    BY <1>10, <2>1, <2>2
<1>14. c \in DOMAIN ps /\ ps[c].pid \in visited /\ ps[c].process_id = segments[s].id
  BY <1>7, <1>8
<1>15. <<ps[Parent(c)].process_id, ps[c].process_id>> \in resolve_forks(ps, visited)
  <2> HIDE DEF ps
  <2> QED
    BY <1>13, <1>14 DEF resolve_forks
<1> QED
  BY <1>13, <1>14, <1>15
\* The EXEC of an exec that began alone, and is under way or succeeded, is left on
\* the stack of the id of its file.
LEMMA ExecStacked ==
    ASSUME Base, FailPlace, NEW f \in Orders, NEW u, NEW v,
           Tickets(u, v, files, queue, status, memory, id, clock), Clears(u, v),
           NEW i \in DOMAIN files, Marked(files[i][1]), End(files[i][2]).op = "EXEC"
    PROVE  LET stack == Stack(ProcessedData(f, << >>), files[i][2][1].id)
           IN \E e \in DOMAIN stack : stack[e] = Labelled(files[i][2], End(files[i][2]))
<1> DEFINE N == files[i][2][1].id
           t == End(files[i][2]).ts
           P == Places(f)
           Fail(x) == LabelledAt(f, x).event.op = "EXEC_FAIL"
<1>0. TypeInv /\ BufferInv /\ EndInv /\ clock \in Nat
  BY DEF Base, TypeInv
<1>1. PICK n \in Nat : \E g : Ordered(f, n, g)
  BY <1>0, OrderIs
<1>2. PICK g : Ordered(f, n, g)
  BY <1>1
<1>3. /\ g \in [1..n -> 1..n] /\ DOMAIN files = 1..n /\ DOMAIN f = 1..n
      /\ \A h \in 1..n : f[h] = files[g[h]][2]
      /\ \A h, k \in 1..n : g[h] = g[k] => h = k
      /\ \A j \in 1..n : \E h \in 1..n : g[h] = j
  BY <1>2 DEF Ordered
<1>4. /\ FilesOK(f)
      /\ \A h \in 1..n : f[h] \in Buffers /\ f[h] # << >> /\ StartOf(f[h]) = f[h][1]
  <2>1. ASSUME NEW h \in DOMAIN f PROVE f[h] \in Saves
    <3>1. g[h] \in DOMAIN files /\ f[h] = files[g[h]][2]
      BY <1>3
    <3> QED
      BY <3>1 DEF Saves
  <2>2. n \in Nat /\ DOMAIN f = 1..n
    BY <1>1, <1>3
  <2>3. /\ FilesOK(f)
        /\ \A h \in DOMAIN f : f[h] \in Buffers /\ f[h] # << >> /\ StartOf(f[h]) = f[h][1]
    BY <1>0, <2>1, <2>2, SavedFiles
  <2> QED
    BY <2>2, <2>3
<1>t. /\ \A j \in 1..n : Failing(files[j][2]) =>
            ExecAt(files, u[j], files[j][2][1].id) /\ u[j] < files[j][2][2].ts
      /\ \A j, k \in 1..n : Failing(files[j][2]) /\ Failing(files[k][2]) /\ u[j] = u[k] => j = k
  BY <1>3 DEF Tickets
<1>5. t \in Nat /\ Clear(u, v, files[i][1], N, t)
  <2>1. t \in Nat
    BY <1>0 DEF EndInv
  <2> QED
    BY <2>1 DEF Clears
<1>6. ASSUME NEW x \in P
      PROVE  /\ x = <<x[1], x[2]>> /\ x[1] \in 1..n /\ x[2] \in DOMAIN f[x[1]]
             /\ LabelledAt(f, x) = Labelled(f[x[1]], f[x[1]][x[2]])
             /\ LabelledAt(f, x).process_id = f[x[1]][1].id
             /\ LabelledAt(f, x).event = f[x[1]][x[2]]
             /\ Ts(f, x) = f[x[1]][x[2]].ts /\ Ts(f, x) \in Nat
  BY <1>3, <1>4, PlacesAre DEF LabelledAt, Labelled, Ts
<1>7. \A x, y \in P : /\ Ts(f, x) > Ts(f, y) => ~NotAfter(f, x, y)
                      /\ ~NotAfter(f, x, y) => Ts(f, x) >= Ts(f, y)
  BY <1>6 DEF NotAfter, Ts
<1>8. PICK h0 \in 1..n : g[h0] = i
  BY <1>3
<1>9. f[h0] = files[i][2] /\ Len(f[h0]) \in DOMAIN f[h0]
  <2>1. f[h0] = files[i][2] /\ f[h0] \in Buffers /\ f[h0] # << >>
    BY <1>3, <1>4, <1>8
  <2>2. f[h0] \in Seq(StartEvents(clock) \cup OtherEvents(clock))
    BY <1>0, <2>1 DEF BufferInv, BufferOK
  <2> QED
    BY <2>1, <2>2
<1> DEFINE x0 == <<h0, Len(f[h0])>>
<1>10. x0 \in P /\ x0[1] = h0 /\ x0[2] = Len(f[h0])
  BY <1>3, <1>4, <1>9, PlacesAre
<1>11. /\ LabelledAt(f, x0) = Labelled(files[i][2], End(files[i][2]))
       /\ LabelledAt(f, x0).process_id = N /\ LabelledAt(f, x0).event.op = "EXEC"
       /\ Ts(f, x0) = t
  BY <1>6, <1>9, <1>10 DEF End
<1> HIDE DEF x0, N, t, P
<1> DEFINE Execs(x, y) == /\ LabelledAt(f, y).event.op = "EXEC"
                          /\ LabelledAt(f, y).process_id = LabelledAt(f, x).process_id
                          /\ Ts(f, y) = u[g[x[1]]] /\ Ts(f, y) < Ts(f, x)
<1>12. ASSUME NEW x \in P, Fail(x)
       PROVE  /\ x[2] = 2 /\ Failing(files[g[x[1]]][2]) /\ g[x[1]] \in 1..n
              /\ \E y \in P : Execs(x, y)
  <2> DEFINE h == x[1]
  <2>1. h \in 1..n /\ x[2] \in DOMAIN f[h] /\ f[h][x[2]].op = "EXEC_FAIL"
    BY <1>6, <1>12
  <2>2. x[2] = 2
    BY <1>4, <2>1 DEF FailPlace
  <2>3. Failing(f[h]) /\ f[h] = files[g[h]][2] /\ g[h] \in 1..n
    BY <1>3, <2>1, <2>2 DEF Failing
  <2>4. ExecAt(files, u[g[h]], f[h][1].id) /\ u[g[h]] < f[h][2].ts
    BY <1>t, <2>3
  <2>5. PICK j \in 1..n : \E k \in DOMAIN files[j][2] :
            /\ files[j][2][k].op = "EXEC" /\ files[j][2][k].ts = u[g[h]]
            /\ files[j][2][1].id = f[h][1].id
    BY <1>3, <2>4 DEF ExecAt
  <2>6. PICK l \in 1..n : g[l] = j
    BY <1>3
  <2>7. PICK k \in DOMAIN f[l] :
            f[l][k].op = "EXEC" /\ f[l][k].ts = u[g[h]] /\ f[l][1].id = f[h][1].id
    BY <1>3, <2>5, <2>6
  <2> DEFINE y == <<l, k>>
  <2>8. y \in P /\ y[1] = l /\ y[2] = k
    BY <1>3, <1>4, <2>7, PlacesAre DEF P
  <2> HIDE DEF y
  <2>9. /\ LabelledAt(f, y).process_id = f[l][1].id /\ LabelledAt(f, y).event = f[l][k]
        /\ Ts(f, y) = f[l][k].ts
    BY <1>6, <2>8
  <2>10. LabelledAt(f, x).process_id = f[h][1].id /\ Ts(f, x) = f[h][2].ts
    BY <1>6, <2>2
  <2>11. Execs(x, y)
    BY <2>4, <2>7, <2>9, <2>10
  <2> QED
    BY <2>2, <2>3, <2>8, <2>11
<1> DEFINE push == [x \in P |-> CHOOSE y \in P : Execs(x, y)]
<1>13. ASSUME NEW x \in P, Fail(x) PROVE push[x] \in P /\ Execs(x, push[x])
  <2>1. \E y \in P : Execs(x, y)
    BY <1>12, <1>13
  <2> HIDE DEF Execs
  <2> QED
    BY <2>1
<1> HIDE DEF push
<1>14. ASSUME NEW x \in P, Fail(x), LabelledAt(f, x).process_id = N, ~NotAfter(f, x, x0)
       PROVE  ~NotAfter(f, push[x], x0)
  <2>1. Ts(f, x) >= t
    BY <1>7, <1>10, <1>11, <1>14
  <2>2. /\ x[2] = 2 /\ Failing(files[g[x[1]]][2]) /\ g[x[1]] \in 1..n
    BY <1>12, <1>14
  <2>3. files[g[x[1]]][2][1].id = N /\ files[g[x[1]]][2][2].ts >= t
    <3>1. x[1] \in 1..n /\ f[x[1]] = files[g[x[1]]][2]
      BY <1>3, <1>6
    <3>2. LabelledAt(f, x).process_id = f[x[1]][1].id /\ Ts(f, x) = f[x[1]][2].ts
      BY <1>6, <2>2
    <3> QED
      BY <1>14, <2>1, <3>1, <3>2
  <2>4. Late(files[g[x[1]]][2], N, t)
    BY <2>2, <2>3 DEF Late
  <2>5. u[g[x[1]]] > t
    BY <1>3, <1>5, <2>2, <2>4 DEF Clear
  <2>6. push[x] \in P /\ Ts(f, push[x]) > Ts(f, x0)
    BY <1>11, <1>13, <1>14, <2>5
  <2> QED
    BY <1>7, <1>10, <2>6
<1>15. ASSUME NEW x \in P, NEW y \in P, Fail(x), Fail(y), push[x] = push[y] PROVE x = y
  <2>1. u[g[x[1]]] = u[g[y[1]]]
    BY <1>13, <1>15
  <2>2. /\ x[2] = 2 /\ Failing(files[g[x[1]]][2]) /\ g[x[1]] \in 1..n
        /\ y[2] = 2 /\ Failing(files[g[y[1]]][2]) /\ g[y[1]] \in 1..n
    BY <1>12, <1>15
  <2>3. g[x[1]] = g[y[1]]
    BY <1>t, <2>1, <2>2
  <2>4. x[1] \in 1..n /\ y[1] \in 1..n /\ x = <<x[1], x[2]>> /\ y = <<y[1], y[2]>>
    BY <1>6
  <2>5. x[1] = y[1]
    BY <1>3, <2>3, <2>4
  <2> QED
    BY <2>2, <2>4, <2>5
<1>16. PushingSince(f, push, x0)
  <2>1. \A x \in P : FailsSince(f, x0, x) =>
            /\ Fail(x) /\ LabelledAt(f, x).process_id = N /\ ~NotAfter(f, x, x0)
    BY <1>11 DEF FailsSince
  <2>2. \A x \in P : FailsSince(f, x0, x) =>
            /\ push[x] \in P /\ LabelledAt(f, push[x]).event.op = "EXEC"
            /\ LabelledAt(f, push[x]).process_id = LabelledAt(f, x0).process_id
            /\ Ts(f, push[x]) < Ts(f, x) /\ ~NotAfter(f, push[x], x0)
    BY <1>11, <1>13, <1>14, <2>1
  <2>3. \A x, y \in P : FailsSince(f, x0, x) /\ FailsSince(f, x0, y) /\ push[x] = push[y] => x = y
    BY <1>15, <2>1
  <2> HIDE DEF Fail
  <2> QED
    BY <1>10, <1>11, <2>2, <2>3 DEF PushingSince, P
<1> HIDE DEF Fail, Execs
<1>17. FilesOK(f)
  BY <1>4
<1>18. \E h \in DOMAIN Stack(ProcessedData(f, << >>), LabelledAt(f, x0).process_id) :
           Stack(ProcessedData(f, << >>), LabelledAt(f, x0).process_id)[h] = LabelledAt(f, x0)
  BY <1>16, <1>17, ExecStays
<1> QED
  BY <1>11, <1>18 DEF N
\* resolve_exec finds the process that starts first of those that come into
\* question.
LEMMA FirstFound ==
    ASSUME NEW label, NEW ps, NEW n \in Nat, DOMAIN ps = 1..n, NEW d \in 1..n,
           \A h \in 1..n : ps[h].start_time \in Nat,
           ps[d].pid = label.file_pid, ps[d].process_id # label.process_id,
           ps[d].start_time > label.event.ts
    PROVE  \E e \in 1..n : /\ ps[e].pid = label.file_pid /\ ps[e].start_time > label.event.ts
                           /\ ps[e].start_time <= ps[d].start_time
                           /\ <<label.process_id, ps[e].process_id>> \in resolve_exec(label, ps)
<1> DEFINE later == {l \in ToSet(ps) : /\ l.pid = label.file_pid
                                       /\ l.process_id # label.process_id
                                       /\ l.start_time > label.event.ts}
           T == {l.start_time : l \in later}
<1>1. ps[d] \in later
  BY DEF ToSet
<1>2. \A l \in later : \E h \in 1..n : l = ps[h]
  BY DEF ToSet
<1>3. T \in SUBSET Nat /\ T # {}
  BY <1>1, <1>2
<1>4. \E m \in T : \A k \in T : m <= k
  <2> HIDE DEF T
  <2> QED
    BY <1>3, LeastNumber
<1>5. PICK l \in later : \A k \in T : l.start_time <= k
  BY <1>4
<1>6. \A m \in later : l.start_time <= m.start_time
  BY <1>5
<1>7. PICK e \in 1..n : l = ps[e]
  BY <1>2
<1>8. l.pid = label.file_pid /\ l.start_time > label.event.ts
  BY <1>5
<1>9. <<label.process_id, l.process_id>> \in resolve_exec(label, ps)
  BY <1>5, <1>6 DEF resolve_exec, First
<1>10. l.start_time <= ps[d].start_time
  BY <1>1, <1>6
<1> HIDE DEF later, T
<1> QED
  BY <1>7, <1>8, <1>9, <1>10

\* An exec that succeeded and began alone is found, when the STARTs of both
\* segments are their own.
LEMMA ExecFound ==
    ASSUME Base, FailPlace, DateInv, ExecImageInv, ClearInv, NEW f \in Orders, NEW x \in execs,
           x.from \notin crossed, Own(x.from), Saved(x.to), Own(x.to),
           segments[x.from].id # segments[x.to].id
    PROVE  <<segments[x.from].id, segments[x.to].id>>
               \in resolve_execs(ProcessedData(f, << >>).enqueued_execs, LinuxProcesses(f))
<1> DEFINE p == segments[x.to].pid
           n == segments[x.from].id
           ps == LinuxProcesses(f)
           stacks == ProcessedData(f, << >>).enqueued_execs
<1>0. TypeInv /\ SegmentInv /\ EndInv
  BY DEF Base
<1>1. /\ p \in Pid /\ segments[x.from].pid = p
      /\ \A i \in DOMAIN files : End(files[i][2]).ts \in Nat
  BY ExecsAre
<1>2. PICK i \in DOMAIN files : files[i][1] = x.from /\ End(files[i][2]).op = "EXEC"
  BY <1>0 DEF EndInv, ExecFile
<1> DEFINE t == End(files[i][2]).ts
           label == Labelled(files[i][2], End(files[i][2]))
<1>3. files[i][2][1].pid = p /\ files[i][2][1].id = n /\ StartOf(files[i][2]) = files[i][2][1]
  <2>1. Saved(x.from)
    BY <1>2 DEF Saved
  <2>2. StartOf(FileOf(x.from)) = files[i][2][1]
    BY <1>2, <2>1, FileOfIs
  <2> QED
    BY <1>1, <2>2, StartsIn DEF Own
<1>4. label.process_id = n /\ label.file_pid = p /\ label.event.ts = t /\ t \in Nat
  BY <1>1, <1>3 DEF Labelled
<1>5. PICK h \in DOMAIN Stack(ProcessedData(f, << >>), n) :
          Stack(ProcessedData(f, << >>), n)[h] = label
  <2>1. PICK u, v : Tickets(u, v, files, queue, status, memory, id, clock) /\ Clears(u, v)
    BY DEF ClearInv
  <2>2. Marked(files[i][1])
    BY <1>2 DEF Marked
  <2>3. LET stack == Stack(ProcessedData(f, << >>), files[i][2][1].id)
        IN \E e \in DOMAIN stack : stack[e] = Labelled(files[i][2], End(files[i][2]))
    BY <1>2, <2>1, <2>2, ExecStacked
  <2> QED
    BY <1>3, <2>3
<1>6. n \in DOMAIN stacks /\ h \in DOMAIN stacks[n] /\ stacks[n][h] = label
  BY <1>5 DEF Stack, At
<1>7. ExecOf(x, i, p, t)
  BY <1>2 DEF ExecOf
<1>8. Dated(p, x.to, t) /\ Imaged(p, x.to, t)
  <2> HIDE DEF p, t
  <2> QED
    BY <1>1, <1>4, <1>7 DEF DateInv, ExecImageInv
<1>9. PICK j \in DOMAIN files :
          /\ files[j][1] = x.to /\ files[j][2][1].pid = p
          /\ files[j][2][1].id = segments[x.to].id
  BY FileOfIs DEF Own
<1>10. files[j][2][1].ts > t
  BY <1>8, <1>9 DEF Dated
<1>11. PICK k \in Nat : DOMAIN f = 1..k /\ DOMAIN ps = 1..k
  <2>1. PICK k \in Nat : DOMAIN f = 1..k
    BY <1>0, OrderIs DEF Ordered
  <2> QED
    BY <2>1, ProcessesAre
<1>12. ASSUME NEW d \in 1..k
       PROVE  \E a \in DOMAIN files :
                  /\ ps[d].pid = files[a][2][1].pid /\ ps[d].process_id = files[a][2][1].id
                  /\ ps[d].start_time = files[a][2][1].ts
  <2>1. PICK a \in DOMAIN files : FileAt(f, d, a)
    BY <1>11, FilesAt
  <2> QED
    BY <2>1 DEF FileAt
<1>13. PICK d \in 1..k :
           /\ ps[d].pid = files[j][2][1].pid /\ ps[d].process_id = files[j][2][1].id
           /\ ps[d].start_time = files[j][2][1].ts
  <2>1. PICK d \in DOMAIN f : FileAt(f, d, j)
    BY FilesAt
  <2> QED
    BY <1>11, <2>1 DEF FileAt
<1>14. \A a \in DOMAIN files : files[a][2][1] \in Starts /\ files[a][2][1].ts \in Nat
  BY StartsIn
<1>15. \A e \in 1..k : ps[e].start_time \in Nat
  BY <1>12, <1>14
<1> HIDE DEF ps, label, stacks, p, n, t
<1>16. PICK e \in 1..k : /\ ps[e].pid = p /\ ps[e].start_time > t
                         /\ ps[e].start_time <= ps[d].start_time
                         /\ <<n, ps[e].process_id>> \in resolve_exec(label, ps)
  <2>1. /\ ps[d].pid = label.file_pid /\ ps[d].process_id # label.process_id
        /\ ps[d].start_time > label.event.ts
    BY <1>4, <1>9, <1>10, <1>13 DEF n
  <2> QED
    BY <1>4, <1>11, <1>15, <2>1, FirstFound
<1>17. ps[e].process_id = segments[x.to].id
  <2>1. PICK a \in DOMAIN files : /\ ps[e].pid = files[a][2][1].pid
                                  /\ ps[e].process_id = files[a][2][1].id
                                  /\ ps[e].start_time = files[a][2][1].ts
    BY <1>12
  <2> DEFINE s == files[a][2][1]
  <2>2. s \in Starts /\ s.pid = p /\ s.ts > t /\ s.ts <= files[j][2][1].ts
    BY <1>13, <1>14, <1>16, <2>1
  <2>3. s.ts \in Nat /\ files[j][2][1].ts \in Nat
    BY <1>14
  <2>4. ~(files[j][2][1].ts < s.ts)
    BY <2>2, <2>3
  <2> HIDE DEF s
  <2>5. s.id = segments[x.to].id
    BY <1>8, <1>9, <2>2, <2>4 DEF Imaged
  <2> QED
    BY <2>1, <2>5 DEF s
<1>18. <<n, segments[x.to].id>> \in resolve_execs(stacks, ps)
  BY <1>6, <1>16, <1>17 DEF resolve_execs
<1> QED
  BY <1>18 DEF n, stacks, ps

\* ProcessTree's ExecsAreFound: a program that executed another, of which a file
\* was saved with a START of its own, is found to have done so, in any order of
\* the files: by its exec, when the program's own START was its own too, no exec of
\* its id was under way when it began, and no process changed its environment after
\* its START or forked with an EXEC_FAIL in its queue; or by its fork, when the
\* process that forked it had the program's id and outlived it.
THEOREM ExecsTheorem == Spec => []ExecsAreFound
<1>1. Init => ExecInv
  BY ExecInit
<1>2. ExecInv /\ [Next]_vars => ExecInv'
  BY ExecInvStep
<1>3. ASSUME ExecInv PROVE ExecsAreFound
  <2>1. /\ Base /\ FailPlace /\ DateInv /\ OrphanInv /\ EndInv
        /\ ~uneven => ExecImageInv /\ ClearInv
    BY <1>3 DEF ExecInv, TreeInv, PopInv, Base
  <2>2. ASSUME NEW f \in Orders, NEW visited, NEW x \in execs, Saved(x.to), Own(x.to),
               segments[x.from].id # segments[x.to].id,
               \/ Own(x.from) /\ x.from \notin crossed /\ ~uneven
               \/ /\ Outlived(x.to) /\ segments[segments[x.to].forkedBy].id = segments[x.from].id
                  /\ segments[x.to].pid \in visited
        PROVE  <<segments[x.from].id, segments[x.to].id>> \in ExecuteSet(f, visited)
    <3>1. CASE Own(x.from) /\ x.from \notin crossed /\ ~uneven
      <4>1. <<segments[x.from].id, segments[x.to].id>>
                \in resolve_execs(ProcessedData(f, << >>).enqueued_execs, LinuxProcesses(f))
        BY <2>1, <2>2, <3>1, ExecFound
      <4> QED
        BY <4>1 DEF ExecuteSet
    <3>2. CASE /\ Outlived(x.to) /\ segments[segments[x.to].forkedBy].id = segments[x.from].id
               /\ segments[x.to].pid \in visited
      <4>1. x.to \in DOMAIN segments
        BY <2>1, <2>2, ExecsAre
      <4>2. <<segments[segments[x.to].forkedBy].id, segments[x.to].id>>
                \in resolve_forks(LinuxProcesses(f), visited)
        BY <2>1, <2>2, <3>2, <4>1, ForkFound
      <4>3. <<segments[x.from].id, segments[x.to].id>> \in resolve_forks(LinuxProcesses(f), visited)
        BY <3>2, <4>2
      <4> QED
        BY <4>3 DEF ExecuteSet
    <3> QED
      BY <2>2, <3>1, <3>2
  <2> QED
    BY <2>2 DEF ExecsAreFound
<1> QED
  BY <1>1, <1>2, <1>3, PTL DEF Spec
=============================================================================
