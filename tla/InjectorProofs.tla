--------------------------- MODULE InjectorProofs ---------------------------
(* Theorems about Injector, for every number of processes, threads and     *)
(* Operations.                                                             *)
EXTENDS Injector, SequenceTheorems, FiniteSetTheorems, TLAPS

LEMMA HookKind ==
    ASSUME NEW p \in Proc, NEW t \in Thread,
           \/ WriteHook(p, t)  \/ TransferHook(p, t) \/ ReadHook(p, t)
           \/ RenameHook(p, t) \/ UnlinkHook(p, t)
    PROVE  \E kind \in OpKinds : HookedCall(p, t, kind)
  BY DEF HookedCall, WriteHook, TransferHook, ReadHook, RenameHook, UnlinkHook

LEMMA StampType ==
    ASSUME TypeOK, NEW p \in Proc, NEW t \in Thread, NEW kind \in Kinds,
           NEW c \in Conts, Stamp(p, t, kind, c)
    PROVE  /\ clock' \in Nat
           /\ pending' \in [Proc -> [Thread -> Stamped]]
           /\ cont' \in [Proc -> [Thread -> Conts]]
           /\ pc' \in [Proc -> [Thread -> Phases]]
  BY DEF TypeOK, Stamp, Stamped, Operation, Goto, Phases

LEMMA LoggedType ==
    ASSUME NEW p \in Proc, NEW op \in Stamped
    PROVE  /\ Logged(p, op) \in Seq(Operation)
           /\ op \in Operation
<1> DEFINE start == [op EXCEPT !.kind = "START", !.ts = @ - 1]
<1>1. op \in Operation /\ op.ts - 1 \in Nat
  BY DEF Stamped, Operation
<1>2. start \in Operation
  BY <1>1 DEF Operation, Kinds
<1>3. <<start, op>> \in Seq(Operation) /\ <<op>> \in Seq(Operation)
  BY <1>1, <1>2
<1> QED
  BY <1>1, <1>3 DEF Logged

LEMMA ConcatType ==
    ASSUME NEW S, NEW a \in Seq(S), NEW b \in Seq(S)
    PROVE  a \o b \in Seq(S)
  OBVIOUS

LEMMA EventsType ==
    ASSUME NEW S, NEW a \in Seq(S)
    PROVE  Events(a) \subseteq S
  BY DEF Events

LEMMA EventsConcat ==
    ASSUME NEW S, NEW a \in Seq(S), NEW b \in Seq(S)
    PROVE  Events(a \o b) = Events(a) \cup Events(b)
<1>1. ASSUME NEW e \in Events(a \o b)
      PROVE  e \in Events(a) \cup Events(b)
  <2>1. PICK i \in 1..Len(a \o b) : e = (a \o b)[i]
    BY <1>1 DEF Events
  <2>2. CASE i <= Len(a)
    BY <2>1, <2>2 DEF Events
  <2>3. CASE i > Len(a)
    <3>1. i - Len(a) \in 1..Len(b) /\ e = b[i - Len(a)]
      BY <2>1, <2>3
    <3> QED
      BY <3>1 DEF Events
  <2> QED
    BY <2>1, <2>2, <2>3
<1>2. ASSUME NEW e \in Events(a)
      PROVE  e \in Events(a \o b)
  <2>1. PICK i \in 1..Len(a) : e = a[i]
    BY <1>2 DEF Events
  <2>2. i \in 1..Len(a \o b) /\ e = (a \o b)[i]
    BY <2>1
  <2> QED
    BY <2>2 DEF Events
<1>3. ASSUME NEW e \in Events(b)
      PROVE  e \in Events(a \o b)
  <2>1. PICK i \in 1..Len(b) : e = b[i]
    BY <1>3 DEF Events
  <2>2. i + Len(a) \in 1..Len(a \o b) /\ e = (a \o b)[i + Len(a)]
    BY <2>1
  <2> QED
    BY <2>2 DEF Events
<1> QED
  BY <1>1, <1>2, <1>3

LEMMA DiscardType ==
    ASSUME NEW S \in SUBSET Operation, NEW t \in Thread,
           NEW why \in {"save", "reset", "gone"}
    PROVE  Discard(S, t, why) \subseteq [event : Operation, by : Thread,
                                         why : {"save", "reset", "gone"}]
  BY DEF Discard

LEMMA ImageGoneType ==
    ASSUME TypeOK, NEW p \in Proc, NEW t \in Thread,
           NEW threads \in [Thread -> Phases], ImageGone(p, t, threads)
    PROVE  /\ pc' \in [Proc -> [Thread -> Phases]]
           /\ cont' \in [Proc -> [Thread -> Conts]]
           /\ buffer' \in [Proc -> [Thread -> Seq(Operation)]]
           /\ operations' \in [Proc -> Seq(Operation)]
           /\ mutex' \in [Proc -> Thread \cup {Free, Orphan}]
           /\ firstOperation' \in [Proc -> BOOLEAN]
           /\ afterFailedExecv' \in [Proc -> BOOLEAN]
           /\ provFlushed' \in [Proc -> BOOLEAN]
           /\ lost' \subseteq [event : Operation, by : Thread,
                               why : {"save", "reset", "gone"}]
<1>1. Unsaved(p) \subseteq Operation
  <2>1. \A u \in Thread : Events(buffer[p][u]) \subseteq Operation
    BY EventsType DEF TypeOK
  <2>2. Events(operations[p]) \subseteq Operation
    BY EventsType DEF TypeOK
  <2> QED
    BY <2>1, <2>2 DEF Unsaved
<1>2. Discard(Unsaved(p), t, "gone") \subseteq [event : Operation, by : Thread,
                                                why : {"save", "reset", "gone"}]
  BY <1>1, DiscardType
<1>3. <<>> \in Seq(Operation) /\ "return" \in Conts
  BY DEF Conts
<1> QED
  BY <1>2, <1>3 DEF TypeOK, ImageGone

LEMMA DieType ==
    ASSUME TypeOK, NEW p \in Proc, NEW t \in Thread,
           NEW how \in {"exited", "killed"}, Die(p, t, how)
    PROVE  /\ status' \in [Proc -> {"unborn", "running", "exited", "killed"}]
           /\ [u \in Thread |-> "none"] \in [Thread -> Phases]
           /\ ImageGone(p, t, [u \in Thread |-> "none"])
           /\ UNCHANGED <<pending, path, nodename, files, clock, pushed, inherited>>
  BY DEF TypeOK, Die, Phases

LEMMA WrittenType ==
    ASSUME TypeOK, NEW f \in Path, NEW evs \in Seq(Operation)
    PROVE  /\ DOMAIN Written(f, evs) = DOMAIN files \cup {f}
           /\ DOMAIN Written(f, evs) \subseteq Path
           /\ \A g \in DOMAIN Written(f, evs) : Written(f, evs)[g] \in Seq(Operation)
           /\ Written(f, evs)[f] = FileAt(f) \o evs
           /\ \A g \in DOMAIN files \ {f} : Written(f, evs)[g] = files[g]
           /\ FileAt(f) \in Seq(Operation)
<1>1. FileAt(f) \in Seq(Operation)
  BY DEF FileAt, TypeOK
<1>2. FileAt(f) \o evs \in Seq(Operation)
  BY <1>1, ConcatType
<1> QED
  BY <1>1, <1>2 DEF Written, TypeOK

LEMMA InitType == Init => TypeOK
<1> SUFFICES ASSUME Init PROVE TypeOK
  OBVIOUS
<1>1. NoOp \in Stamped
  BY InjectorAssumption DEF NoOp, Stamped, Operation, Kinds
<1>2. DOMAIN files = {}
  BY DEF Init
<1> QED
  BY <1>1, <1>2 DEF Init, TypeOK, Phases, Conts, Path

LEMMA NextType == TypeOK /\ [Next]_vars => TypeOK'
<1> SUFFICES ASSUME TypeOK, [Next]_vars PROVE TypeOK'
  OBVIOUS
<1> USE DEF Goto, threadVars, imageVars, observers
<1>1. CASE UNCHANGED vars
  BY <1>1 DEF TypeOK, vars
<1>2. ASSUME NEW p \in Proc, NEW t \in Thread, NEW kind \in OpKinds, HookedCall(p, t, kind)
      PROVE  TypeOK'
  BY <1>2, StampType DEF TypeOK, HookedCall, Kinds, Conts
<1>3. ASSUME NEW p \in Proc, NEW t \in Thread, Acquire(p, t)
      PROVE  TypeOK'
  BY <1>3 DEF TypeOK, Acquire, Phases, FlushPhases
<1>4. ASSUME NEW p \in Proc, NEW t \in Thread, LogOperation(p, t)
      PROVE  TypeOK'
  <2>1. pending[p][t] \in Stamped
    BY DEF TypeOK
  <2>2. operations[p] \o Logged(p, pending[p][t]) \in Seq(Operation)
    BY <2>1, LoggedType, ConcatType DEF TypeOK
  <2>3. operations' \in [Proc -> Seq(Operation)]
    BY <1>4, <2>2 DEF TypeOK, LogOperation
  <2>4. pushed' \subseteq Operation
    BY <1>4, <2>1, LoggedType DEF TypeOK, LogOperation
  <2>5. raced' \in [Proc -> BOOLEAN]
    BY <1>4 DEF TypeOK, LogOperation, InFlush
  <2> QED
    BY <1>4, <2>3, <2>4, <2>5 DEF TypeOK, LogOperation, Phases, FlushPhases
<1>5. ASSUME NEW p \in Proc, NEW t \in Thread, FlushPath(p, t)
      PROVE  TypeOK'
  <2>1. PICK n \in {nodename[p], nodename[p] + 1} :
            path' = [path EXCEPT ![p][t] = <<p, n>>]
    BY <1>5 DEF FlushPath
  <2>2. <<p, n>> \in Path
    <3>1. nodename[p] \in Nat
      BY DEF TypeOK
    <3> QED
      BY ONLY <3>1, p \in Proc, n \in {nodename[p], nodename[p] + 1} DEF Path
  <2>3. path' \in [Proc -> [Thread -> Path]]
    <3>1. path \in [Proc -> [Thread -> Path]]
      BY DEF TypeOK
    <3> QED
      BY ONLY <2>1, <2>2, <3>1, p \in Proc, t \in Thread
  <2> QED
    BY <1>5, <2>3 DEF TypeOK, FlushPath, Phases, FlushPhases
<1>6. ASSUME NEW p \in Proc, NEW t \in Thread, Drain(p, t)
      PROVE  TypeOK'
  BY <1>6 DEF TypeOK, Drain, Phases, FlushPhases
<1>7. ASSUME NEW p \in Proc, NEW t \in Thread, Save(p, t)
      PROVE  TypeOK'
  <2>1. path[p][t] \in Path /\ buffer[p][t] \in Seq(Operation)
    BY DEF TypeOK
  <2>2. /\ DOMAIN files' \subseteq Path
        /\ \A g \in DOMAIN files' : files'[g] \in Seq(Operation)
    BY <1>7, <2>1, WrittenType DEF Save
  <2> QED
    BY <1>7, <2>2 DEF TypeOK, Save, Phases, FlushPhases
<1>8. ASSUME NEW p \in Proc, NEW t \in Thread, SaveFails(p, t)
      PROVE  TypeOK'
  <2>1. Discard(Events(buffer[p][t]), t, "save") \subseteq
            [event : Operation, by : Thread, why : {"save", "reset", "gone"}]
    <3>1. Events(buffer[p][t]) \subseteq Operation
      BY EventsType DEF TypeOK
    <3> QED
      BY <3>1, DiscardType
  <2> QED
    BY <1>8, <2>1 DEF TypeOK, SaveFails, Phases, FlushPhases
<1>9. ASSUME NEW p \in Proc, NEW t \in Thread, Swap(p, t)
      PROVE  TypeOK'
  <2>1. Discard(Events(operations[p]), t, "reset") \subseteq
            [event : Operation, by : Thread, why : {"save", "reset", "gone"}]
    BY EventsType, DiscardType DEF TypeOK
  <2> QED
    BY <1>9, <2>1 DEF TypeOK, Swap, Phases, FlushPhases
<1>10. ASSUME NEW p \in Proc, NEW t \in Thread, ResetFirst(p, t)
       PROVE  TypeOK'
  BY <1>10 DEF TypeOK, ResetFirst, Phases, FlushPhases
<1>11. ASSUME NEW p \in Proc, NEW t \in Thread, ResetNames(p, t)
       PROVE  TypeOK'
  BY <1>11 DEF TypeOK, ResetNames, Phases, FlushPhases
<1>12. ASSUME NEW p \in Proc, NEW t \in Thread, ExitHook(p, t)
       PROVE  TypeOK'
  BY <1>12, StampType DEF TypeOK, ExitHook, Kinds, Conts
<1>13. ASSUME NEW p \in Proc, NEW t \in Thread, ExitHookAgain(p, t)
       PROVE  TypeOK'
  <2>1. Die(p, t, "exited")
    BY <1>13 DEF ExitHookAgain
  <2> QED
    BY <1>13, <2>1, DieType, ImageGoneType DEF TypeOK, ExitHookAgain
<1>14. ASSUME NEW p \in Proc, NEW t \in Thread, Fini(p, t)
       PROVE  TypeOK'
  BY <1>14, StampType DEF TypeOK, Fini, Kinds, Conts
<1>15. ASSUME NEW p \in Proc, NEW t \in Thread, RealExit(p, t)
       PROVE  TypeOK'
  <2>1. Die(p, t, "exited")
    BY <1>15 DEF RealExit
  <2> QED
    BY <1>15, <2>1, DieType, ImageGoneType DEF TypeOK, RealExit
<1>16. ASSUME NEW p \in Proc, Kill(p)
       PROVE  TypeOK'
  <2>1. Die(p, Main, "killed") /\ Main \in Thread
    BY <1>16, InjectorAssumption DEF Kill
  <2> QED
    BY <1>16, <2>1, DieType, ImageGoneType DEF TypeOK, Kill
<1>17. ASSUME NEW p \in Proc, NEW t \in Thread, ExecHook(p, t)
       PROVE  TypeOK'
  BY <1>17, StampType DEF TypeOK, ExecHook, Kinds, Conts
<1>18. ASSUME NEW p \in Proc, NEW t \in Thread, ExecSucceeds(p, t)
       PROVE  TypeOK'
  <2>1. [u \in Thread |-> IF u = Main THEN "idle" ELSE "none"] \in [Thread -> Phases]
    BY DEF Phases
  <2>2. ImageGone(p, t, [u \in Thread |-> IF u = Main THEN "idle" ELSE "none"])
    BY <1>18 DEF ExecSucceeds
  <2>3. nodename' \in [Proc -> Nat]
    BY <1>18 DEF TypeOK, ExecSucceeds
  <2> QED
    BY <1>18, <2>1, <2>2, <2>3, ImageGoneType DEF TypeOK, ExecSucceeds
<1>19. ASSUME NEW p \in Proc, NEW t \in Thread, ExecFails(p, t)
       PROVE  TypeOK'
  BY <1>19, StampType DEF TypeOK, ExecFails, Kinds, Conts
<1>20. ASSUME NEW p \in Proc, NEW t \in Thread, NEW q \in Proc, Fork(p, t, q)
       PROVE  TypeOK'
  BY <1>20 DEF TypeOK, Fork, InFlush, Phases
<1>21. ASSUME NEW p \in Proc, NEW t \in Thread, ThreadStarts(p, t)
       PROVE  TypeOK'
  BY <1>21 DEF TypeOK, ThreadStarts, Phases
<1> QED
  BY <1>1, <1>2, <1>3, <1>4, <1>5, <1>6, <1>7, <1>8, <1>9, <1>10, <1>11, <1>12,
     <1>13, <1>14, <1>15, <1>16, <1>17, <1>18, <1>19, <1>20, <1>21, HookKind
     DEF Next, LibraryStep, ProgramStep

(* Every variable keeps its type in every behaviour: the queue, the save   *)
(* buffers and the .jsonl files hold Operations and nothing else.          *)
THEOREM TypeCorrect == Spec => []TypeOK
<1>1. Init => TypeOK
  BY InitType
<1>2. TypeOK /\ [Next]_vars => TypeOK'
  BY NextType
<1> QED
  BY <1>1, <1>2, PTL DEF Spec
-----------------------------------------------------------------------------
(* The inductive invariant behind FlushCoversOwnEvents.                    *)

\* A critical section is run by the owner of the mutex.
LockInv == \A p \in Proc, t \in Thread :
    pc[p][t] \in CriticalSections => mutex[p] = t

\* An Operation on its way to the queue is the caller's own.
PendingInv == \A p \in Proc, t \in Thread :
    pc[p][t] \in {"log_lock", "log"} => pending[p][t].pid = p /\ pending[p][t].tid = t

\* Drained events are held between drain and save only.
BufferInv == \A p \in Proc, t \in Thread :
    pc[p][t] # "save" => buffer[p][t] = <<>>

\* A process that does not exist yet has no thread and an empty queue.
UnbornInv == \A p \in Proc : status[p] = "unborn" =>
    operations[p] = <<>> /\ \A t \in Thread : pc[p][t] = "none"

AfterDrain == {"save", "swap_lock", "swap", "first", "names", "exec_call", "dying"}

\* Once a thread has drained the queue, nothing of its own is in it.
DrainedInv == \A p \in Proc, t \in Thread : pc[p][t] \in AfterDrain =>
    \A e \in Events(operations[p]) : e.tid # t

\* So the swap of reset_state throws away other threads' Operations only.
ForeignInv == \A l \in lost : l.why = "reset" => l.event.tid # l.by

\* A queued Operation does not vanish: it is somewhere, or its loss is recorded.
Accounted(e) ==
    \/ InFiles(e)
    \/ e \in Events(operations[e.pid])
    \/ \E u \in Thread : e \in Events(buffer[e.pid][u])
    \/ \E l \in lost : l.event = e
AccountedInv == \A e \in pushed : Accounted(e)

CoreInv == LockInv /\ PendingInv /\ BufferInv /\ UnbornInv
QueueInv == DrainedInv /\ ForeignInv
IInv == CoreInv /\ QueueInv /\ AccountedInv

LEMMA CoreNext == TypeOK /\ CoreInv /\ [Next]_vars => CoreInv'
<1> SUFFICES ASSUME TypeOK, CoreInv, [Next]_vars PROVE CoreInv'
  OBVIOUS
<1> USE DEF TypeOK, CoreInv, LockInv, PendingInv, BufferInv, UnbornInv,
            CriticalSections, At, Goto, Stamp, Die, ImageGone,
            threadVars, imageVars, observers
<1>1. CASE UNCHANGED vars
  BY <1>1 DEF vars
<1>2. ASSUME NEW p \in Proc, NEW t \in Thread, NEW kind \in OpKinds, HookedCall(p, t, kind)
      PROVE  CoreInv'
  BY <1>2 DEF HookedCall
<1>3. ASSUME NEW p \in Proc, NEW t \in Thread, Acquire(p, t)
      PROVE  CoreInv'
  <2>1. LockInv'
    <3> SUFFICES ASSUME NEW r \in Proc, NEW u \in Thread, pc'[r][u] \in CriticalSections
                 PROVE  mutex'[r] = u
      OBVIOUS
    <3>1. mutex'[p] = t /\ (r # p => mutex'[r] = mutex[r])
      BY <1>3 DEF Acquire
    <3>2. r # p \/ u # t => pc'[r][u] = pc[r][u]
      BY <1>3 DEF Acquire
    <3>3. CASE r = p /\ u # t
      BY <1>3, <3>2, <3>3, InjectorAssumption DEF Acquire
    <3> QED
      BY <3>1, <3>2, <3>3
  <2>2. PendingInv' /\ BufferInv'
    <3> SUFFICES ASSUME NEW r \in Proc, NEW u \in Thread
                 PROVE  /\ pc'[r][u] \in {"log_lock", "log"} =>
                              pending'[r][u].pid = r /\ pending'[r][u].tid = u
                        /\ pc'[r][u] # "save" => buffer'[r][u] = <<>>
      OBVIOUS
    <3>1. pending' = pending /\ buffer' = buffer
      BY <1>3 DEF Acquire
    <3>2. CASE r # p \/ u # t
      <4>1. pc'[r][u] = pc[r][u]
        BY <1>3, <3>2 DEF Acquire
      <4> QED
        BY <3>1, <4>1
    <3>3. CASE r = p /\ u = t
      <4>1. pc[p][t] \in {"log_lock", "drain_lock", "swap_lock"}
        BY <1>3 DEF Acquire, LockWait
      <4>2. pc[p][t] # "log_lock" => pc'[p][t] \in {"drain", "swap"}
        BY <1>3, <4>1 DEF Acquire
      <4> QED
        BY <3>1, <3>3, <4>1, <4>2
    <3> QED
      BY <3>2, <3>3
  <2>3. UnbornInv'
    BY <1>3, InjectorAssumption DEF Acquire, LockWait
  <2> QED
    BY <2>1, <2>2, <2>3
<1>4. ASSUME NEW p \in Proc, NEW t \in Thread, LogOperation(p, t)
      PROVE  CoreInv'
  BY <1>4 DEF LogOperation
<1>5. ASSUME NEW p \in Proc, NEW t \in Thread, FlushPath(p, t)
      PROVE  CoreInv'
  BY <1>5 DEF FlushPath
<1>6. ASSUME NEW p \in Proc, NEW t \in Thread, Drain(p, t)
      PROVE  CoreInv'
  BY <1>6 DEF Drain
<1>7. ASSUME NEW p \in Proc, NEW t \in Thread, Save(p, t)
      PROVE  CoreInv'
  BY <1>7 DEF Save
<1>8. ASSUME NEW p \in Proc, NEW t \in Thread, SaveFails(p, t)
      PROVE  CoreInv'
  BY <1>8 DEF SaveFails
<1>9. ASSUME NEW p \in Proc, NEW t \in Thread, Swap(p, t)
      PROVE  CoreInv'
  BY <1>9 DEF Swap
<1>10. ASSUME NEW p \in Proc, NEW t \in Thread, ResetFirst(p, t)
       PROVE  CoreInv'
  BY <1>10 DEF ResetFirst
<1>11. ASSUME NEW p \in Proc, NEW t \in Thread, ResetNames(p, t)
       PROVE  CoreInv'
  BY <1>11 DEF ResetNames
<1>12. ASSUME NEW p \in Proc, NEW t \in Thread, ExitHook(p, t)
       PROVE  CoreInv'
  BY <1>12 DEF ExitHook
<1>13. ASSUME NEW p \in Proc, NEW t \in Thread, ExitHookAgain(p, t)
       PROVE  CoreInv'
  BY <1>13 DEF ExitHookAgain
<1>14. ASSUME NEW p \in Proc, NEW t \in Thread, Fini(p, t)
       PROVE  CoreInv'
  BY <1>14 DEF Fini
<1>15. ASSUME NEW p \in Proc, NEW t \in Thread, RealExit(p, t)
       PROVE  CoreInv'
  BY <1>15 DEF RealExit
<1>16. ASSUME NEW p \in Proc, Kill(p)
       PROVE  CoreInv'
  BY <1>16 DEF Kill
<1>17. ASSUME NEW p \in Proc, NEW t \in Thread, ExecHook(p, t)
       PROVE  CoreInv'
  BY <1>17 DEF ExecHook
<1>18. ASSUME NEW p \in Proc, NEW t \in Thread, ExecSucceeds(p, t)
       PROVE  CoreInv'
  BY <1>18 DEF ExecSucceeds
<1>19. ASSUME NEW p \in Proc, NEW t \in Thread, ExecFails(p, t)
       PROVE  CoreInv'
  BY <1>19 DEF ExecFails
<1>20. ASSUME NEW p \in Proc, NEW t \in Thread, NEW q \in Proc, Fork(p, t, q)
       PROVE  CoreInv'
  BY <1>20 DEF Fork
<1>21. ASSUME NEW p \in Proc, NEW t \in Thread, ThreadStarts(p, t)
       PROVE  CoreInv'
  BY <1>21 DEF ThreadStarts
<1> QED
  BY <1>1, <1>2, <1>3, <1>4, <1>5, <1>6, <1>7, <1>8, <1>9, <1>10, <1>11, <1>12,
     <1>13, <1>14, <1>15, <1>16, <1>17, <1>18, <1>19, <1>20, <1>21, HookKind
     DEF Next, LibraryStep, ProgramStep

LEMMA EventsEmpty == Events(<<>>) = {}
  BY DEF Events

LEMMA LoggedEvents ==
    ASSUME NEW p \in Proc, NEW op \in Stamped
    PROVE  /\ op \in Events(Logged(p, op))
           /\ \A e \in Events(Logged(p, op)) : e.tid = op.tid
<1> DEFINE start == [op EXCEPT !.kind = "START", !.ts = @ - 1]
<1>1. op \in Operation
  BY DEF Stamped
<1>2. start.tid = op.tid
  BY <1>1 DEF Operation
<1>3. Events(<<start, op>>) = {start, op} /\ Events(<<op>>) = {op}
  <2>1. Len(<<start, op>>) = 2 /\ <<start, op>>[1] = start /\ <<start, op>>[2] = op
    OBVIOUS
  <2>2. 1..2 = {1, 2} /\ 1..1 = {1}
    OBVIOUS
  <2>3. Len(<<op>>) = 1 /\ <<op>>[1] = op
    OBVIOUS
  <2> HIDE DEF start
  <2> QED
    BY <2>1, <2>2, <2>3 DEF Events
<1> QED
  BY <1>2, <1>3 DEF Logged

\* What log_operation does to the queue.
LEMMA LogQueue ==
    ASSUME TypeOK, CoreInv, NEW p \in Proc, NEW t \in Thread, LogOperation(p, t)
    PROVE  /\ Events(operations'[p]) =
                Events(operations[p]) \cup Events(Logged(p, pending[p][t]))
           /\ \A r \in Proc \ {p} : operations'[r] = operations[r]
           /\ \A e \in Events(Logged(p, pending[p][t])) : e.tid = t
           /\ pending[p][t] \in Events(Logged(p, pending[p][t]))
           /\ pending[p][t].pid = p
<1>1. pending[p][t] \in Stamped /\ pending[p][t].tid = t /\ pending[p][t].pid = p
  BY DEF TypeOK, CoreInv, PendingInv, LogOperation, At
<1>2. Logged(p, pending[p][t]) \in Seq(Operation) /\ operations[p] \in Seq(Operation)
  BY <1>1, LoggedType DEF TypeOK
<1>3. Events(operations[p] \o Logged(p, pending[p][t])) =
        Events(operations[p]) \cup Events(Logged(p, pending[p][t]))
  BY <1>2, EventsConcat
<1> QED
  BY <1>1, <1>3, LoggedEvents DEF TypeOK, LogOperation

LEMMA QueueNext == TypeOK /\ CoreInv /\ QueueInv /\ [Next]_vars => QueueInv'
<1> SUFFICES ASSUME TypeOK, CoreInv, QueueInv, [Next]_vars PROVE QueueInv'
  OBVIOUS
<1> USE DEF TypeOK, QueueInv, DrainedInv, ForeignInv, AfterDrain,
            At, Goto, Stamp, Die, ImageGone, Discard,
            threadVars, imageVars, observers
<1>1. CASE UNCHANGED vars
  BY <1>1 DEF vars
<1>2. ASSUME NEW p \in Proc, NEW t \in Thread, NEW kind \in OpKinds, HookedCall(p, t, kind)
      PROVE  QueueInv'
  BY <1>2 DEF HookedCall
<1>3. ASSUME NEW p \in Proc, NEW t \in Thread, Acquire(p, t)
      PROVE  QueueInv'
  BY <1>3 DEF Acquire, LockWait
<1>4. ASSUME NEW p \in Proc, NEW t \in Thread, LogOperation(p, t)
      PROVE  QueueInv'
  <2>1. \A r \in Proc, u \in Thread : pc'[r][u] \in AfterDrain =>
            pc[r][u] \in AfterDrain /\ <<r, u>> # <<p, t>>
    BY <1>4 DEF LogOperation
  <2>2. \A e \in Events(operations'[p]) : e \in Events(operations[p]) \/ e.tid = t
    BY <1>4, LogQueue
  <2>3. \A r \in Proc \ {p} : operations'[r] = operations[r]
    BY <1>4, LogQueue
  <2>4. ASSUME NEW r \in Proc, NEW u \in Thread, pc'[r][u] \in AfterDrain,
               NEW e \in Events(operations'[r])
        PROVE  e.tid # u
    <3>1. CASE r = p
      BY <2>1, <2>2, <2>4, <3>1
    <3>2. CASE r # p
      BY <2>1, <2>3, <2>4, <3>2
    <3> QED
      BY <3>1, <3>2
  <2> QED
    BY <1>4, <2>4 DEF LogOperation
<1>5. ASSUME NEW p \in Proc, NEW t \in Thread, FlushPath(p, t)
      PROVE  QueueInv'
  BY <1>5 DEF FlushPath
<1>6. ASSUME NEW p \in Proc, NEW t \in Thread, Drain(p, t)
      PROVE  QueueInv'
  BY <1>6, EventsEmpty DEF Drain
<1>7. ASSUME NEW p \in Proc, NEW t \in Thread, Save(p, t)
      PROVE  QueueInv'
  BY <1>7 DEF Save
<1>8. ASSUME NEW p \in Proc, NEW t \in Thread, SaveFails(p, t)
      PROVE  QueueInv'
  BY <1>8 DEF SaveFails
<1>9. ASSUME NEW p \in Proc, NEW t \in Thread, Swap(p, t)
      PROVE  QueueInv'
  BY <1>9, EventsEmpty DEF Swap
<1>10. ASSUME NEW p \in Proc, NEW t \in Thread, ResetFirst(p, t)
       PROVE  QueueInv'
  BY <1>10 DEF ResetFirst
<1>11. ASSUME NEW p \in Proc, NEW t \in Thread, ResetNames(p, t)
       PROVE  QueueInv'
  BY <1>11 DEF ResetNames
<1>12. ASSUME NEW p \in Proc, NEW t \in Thread, ExitHook(p, t)
       PROVE  QueueInv'
  BY <1>12 DEF ExitHook
<1>13. ASSUME NEW p \in Proc, NEW t \in Thread, ExitHookAgain(p, t)
       PROVE  QueueInv'
  BY <1>13, EventsEmpty DEF ExitHookAgain
<1>14. ASSUME NEW p \in Proc, NEW t \in Thread, Fini(p, t)
       PROVE  QueueInv'
  BY <1>14 DEF Fini
<1>15. ASSUME NEW p \in Proc, NEW t \in Thread, RealExit(p, t)
       PROVE  QueueInv'
  BY <1>15, EventsEmpty DEF RealExit
<1>16. ASSUME NEW p \in Proc, Kill(p)
       PROVE  QueueInv'
  BY <1>16, EventsEmpty DEF Kill
<1>17. ASSUME NEW p \in Proc, NEW t \in Thread, ExecHook(p, t)
       PROVE  QueueInv'
  BY <1>17 DEF ExecHook
<1>18. ASSUME NEW p \in Proc, NEW t \in Thread, ExecSucceeds(p, t)
       PROVE  QueueInv'
  BY <1>18, EventsEmpty DEF ExecSucceeds
<1>19. ASSUME NEW p \in Proc, NEW t \in Thread, ExecFails(p, t)
       PROVE  QueueInv'
  BY <1>19 DEF ExecFails
<1>20. ASSUME NEW p \in Proc, NEW t \in Thread, NEW q \in Proc, Fork(p, t, q)
       PROVE  QueueInv'
  BY <1>20 DEF Fork, CoreInv, UnbornInv
<1>21. ASSUME NEW p \in Proc, NEW t \in Thread, ThreadStarts(p, t)
       PROVE  QueueInv'
  BY <1>21 DEF ThreadStarts
<1> QED
  BY <1>1, <1>2, <1>3, <1>4, <1>5, <1>6, <1>7, <1>8, <1>9, <1>10, <1>11, <1>12,
     <1>13, <1>14, <1>15, <1>16, <1>17, <1>18, <1>19, <1>20, <1>21, HookKind
     DEF Next, LibraryStep, ProgramStep

\* An Operation that is accounted for in the queue or a buffer of p, when both
\* are emptied into files or the record of losses.
LEMMA AccountedNext == TypeOK /\ CoreInv /\ AccountedInv /\ [Next]_vars => AccountedInv'
<1> SUFFICES ASSUME TypeOK, CoreInv, AccountedInv, [Next]_vars PROVE AccountedInv'
  OBVIOUS
<1> USE DEF AccountedInv, Accounted, InFiles, At, Goto, Stamp,
            threadVars, imageVars, observers
<1>0. ASSUME UNCHANGED <<files, operations, buffer, pushed, lost>>
      PROVE  AccountedInv'
  BY <1>0
<1>1. CASE UNCHANGED vars
  BY <1>0, <1>1 DEF vars
<1>22. ASSUME NEW p \in Proc, NEW t \in Thread, NEW threads, ImageGone(p, t, threads),
              UNCHANGED <<files, pushed>>
       PROVE  AccountedInv'
  <2> SUFFICES ASSUME NEW e \in pushed
               PROVE  Accounted(e)'
    BY <1>22
  <2>1. e.pid \in Proc
    BY DEF TypeOK, Operation
  <2>2. CASE e.pid = p /\ (e \in Events(operations[p])
                            \/ \E u \in Thread : e \in Events(buffer[p][u]))
    <3>1. e \in Unsaved(p)
      BY <2>2 DEF Unsaved
    <3>2. [event |-> e, by |-> t, why |-> "gone"] \in lost'
      BY <1>22, <3>1 DEF ImageGone, Discard
    <3> QED
      BY <3>2
  <2>3. CASE e.pid # p
    BY <1>22, <2>1, <2>3 DEF ImageGone, TypeOK
  <2>4. CASE InFiles(e) \/ \E l \in lost : l.event = e
    BY <1>22, <2>4 DEF ImageGone
  <2> QED
    BY <2>2, <2>3, <2>4
<1>2. ASSUME NEW p \in Proc, NEW t \in Thread, NEW kind \in OpKinds, HookedCall(p, t, kind)
      PROVE  AccountedInv'
  BY <1>0, <1>2 DEF HookedCall
<1>3. ASSUME NEW p \in Proc, NEW t \in Thread, Acquire(p, t)
      PROVE  AccountedInv'
  BY <1>0, <1>3 DEF Acquire
<1>4. ASSUME NEW p \in Proc, NEW t \in Thread, LogOperation(p, t)
      PROVE  AccountedInv'
  <2> SUFFICES ASSUME NEW e \in pushed'
               PROVE  Accounted(e)'
    OBVIOUS
  <2>1. CASE e = pending[p][t]
    BY <1>4, <2>1, LogQueue
  <2>2. CASE e \in pushed
    <3>1. e.pid \in Proc
      BY <2>2 DEF TypeOK, Operation
    <3>2. Events(operations[e.pid]) \subseteq Events(operations'[e.pid])
      <4>1. CASE e.pid = p
        BY <1>4, <4>1, LogQueue
      <4>2. CASE e.pid # p
        BY <1>4, <3>1, <4>2, LogQueue
      <4> QED
        BY <4>1, <4>2
    <3> QED
      BY <1>4, <2>2, <3>2 DEF LogOperation
  <2> QED
    BY <1>4, <2>1, <2>2 DEF LogOperation
<1>5. ASSUME NEW p \in Proc, NEW t \in Thread, FlushPath(p, t)
      PROVE  AccountedInv'
  BY <1>0, <1>5 DEF FlushPath
<1>6. ASSUME NEW p \in Proc, NEW t \in Thread, Drain(p, t)
      PROVE  AccountedInv'
  <2> SUFFICES ASSUME NEW e \in pushed
               PROVE  Accounted(e)'
    BY <1>6 DEF Drain
  <2>1. e.pid \in Proc
    BY DEF TypeOK, Operation
  <2>2. buffer[p][t] = <<>>
    BY <1>6 DEF Drain, CoreInv, BufferInv
  <2>3. CASE e \in Events(operations[p]) /\ e.pid = p
    BY <1>6, <2>3 DEF Drain, TypeOK
  <2>4. CASE e.pid = p /\ \E u \in Thread : e \in Events(buffer[p][u])
    <3>1. PICK u \in Thread \ {t} : e \in Events(buffer[p][u])
      BY <2>2, <2>4, EventsEmpty
    <3> QED
      BY <1>6, <2>4, <3>1 DEF Drain, TypeOK
  <2> QED
    BY <1>6, <2>1, <2>3, <2>4 DEF Drain, TypeOK
<1>7. ASSUME NEW p \in Proc, NEW t \in Thread, Save(p, t)
      PROVE  AccountedInv'
  <2> SUFFICES ASSUME NEW e \in pushed
               PROVE  Accounted(e)'
    BY <1>7 DEF Save
  <2>1. path[p][t] \in Path /\ buffer[p][t] \in Seq(Operation)
    BY DEF TypeOK
  <2> DEFINE f == path[p][t]
  <2>2. FileAt(f) \in Seq(Operation) /\ files'[f] = FileAt(f) \o buffer[p][t]
    BY <1>7, <2>1, WrittenType DEF Save
  <2>3. Events(files'[f]) = Events(FileAt(f)) \cup Events(buffer[p][t])
    BY <2>1, <2>2, EventsConcat
  <2>4. f \in DOMAIN files' /\ \A g \in DOMAIN files :
            g \in DOMAIN files' /\ Events(files[g]) \subseteq Events(files'[g])
    <3>1. /\ DOMAIN files' = DOMAIN files \cup {f}
          /\ \A g \in DOMAIN files \ {f} : files'[g] = files[g]
      BY <1>7, <2>1, WrittenType DEF Save
    <3>2. f \in DOMAIN files => Events(files[f]) \subseteq Events(files'[f])
      BY <2>3 DEF FileAt
    <3> QED
      BY <3>1, <3>2
  <2>5. CASE e \in Events(buffer[p][t])
    BY <2>3, <2>4, <2>5
  <2>6. CASE InFiles(e)
    BY <2>4, <2>6
  <2>7. CASE \E u \in Thread : e \in Events(buffer[e.pid][u]) /\ <<e.pid, u>> # <<p, t>>
    <3>1. e.pid \in Proc
      BY DEF TypeOK, Operation
    <3> QED
      BY <1>7, <2>7, <3>1 DEF Save, TypeOK
  <2> QED
    BY <1>7, <2>5, <2>6, <2>7 DEF Save
<1>8. ASSUME NEW p \in Proc, NEW t \in Thread, SaveFails(p, t)
      PROVE  AccountedInv'
  <2> SUFFICES ASSUME NEW e \in pushed
               PROVE  Accounted(e)'
    BY <1>8 DEF SaveFails
  <2>1. e.pid \in Proc
    BY DEF TypeOK, Operation
  <2>2. CASE e \in Events(buffer[p][t])
    <3>1. [event |-> e, by |-> t, why |-> "save"] \in lost'
      BY <1>8, <2>2 DEF SaveFails, Discard
    <3> QED
      BY <3>1
  <2>3. CASE \E u \in Thread : e \in Events(buffer[e.pid][u]) /\ <<e.pid, u>> # <<p, t>>
    BY <1>8, <2>1, <2>3 DEF SaveFails, TypeOK
  <2> QED
    BY <1>8, <2>2, <2>3 DEF SaveFails
<1>9. ASSUME NEW p \in Proc, NEW t \in Thread, Swap(p, t)
      PROVE  AccountedInv'
  <2> SUFFICES ASSUME NEW e \in pushed
               PROVE  Accounted(e)'
    BY <1>9 DEF Swap
  <2>1. e.pid \in Proc
    BY DEF TypeOK, Operation
  <2>2. CASE e \in Events(operations[p])
    <3>1. [event |-> e, by |-> t, why |-> "reset"] \in lost'
      BY <1>9, <2>2 DEF Swap, Discard
    <3> QED
      BY <3>1
  <2>3. CASE e \notin Events(operations[p])
    BY <1>9, <2>1, <2>3 DEF Swap, TypeOK
  <2> QED
    BY <2>2, <2>3
<1>10. ASSUME NEW p \in Proc, NEW t \in Thread, ResetFirst(p, t)
       PROVE  AccountedInv'
  BY <1>0, <1>10 DEF ResetFirst
<1>11. ASSUME NEW p \in Proc, NEW t \in Thread, ResetNames(p, t)
       PROVE  AccountedInv'
  BY <1>0, <1>11 DEF ResetNames
<1>12. ASSUME NEW p \in Proc, NEW t \in Thread, ExitHook(p, t)
       PROVE  AccountedInv'
  BY <1>0, <1>12 DEF ExitHook
<1>13. ASSUME NEW p \in Proc, NEW t \in Thread, ExitHookAgain(p, t)
       PROVE  AccountedInv'
  BY <1>22, <1>13 DEF ExitHookAgain, Die
<1>14. ASSUME NEW p \in Proc, NEW t \in Thread, Fini(p, t)
       PROVE  AccountedInv'
  BY <1>0, <1>14 DEF Fini
<1>15. ASSUME NEW p \in Proc, NEW t \in Thread, RealExit(p, t)
       PROVE  AccountedInv'
  BY <1>22, <1>15 DEF RealExit, Die
<1>16. ASSUME NEW p \in Proc, Kill(p)
       PROVE  AccountedInv'
  BY <1>22, <1>16, InjectorAssumption DEF Kill, Die
<1>17. ASSUME NEW p \in Proc, NEW t \in Thread, ExecHook(p, t)
       PROVE  AccountedInv'
  BY <1>0, <1>17 DEF ExecHook
<1>18. ASSUME NEW p \in Proc, NEW t \in Thread, ExecSucceeds(p, t)
       PROVE  AccountedInv'
  BY <1>22, <1>18 DEF ExecSucceeds
<1>19. ASSUME NEW p \in Proc, NEW t \in Thread, ExecFails(p, t)
       PROVE  AccountedInv'
  BY <1>0, <1>19 DEF ExecFails
<1>20. ASSUME NEW p \in Proc, NEW t \in Thread, NEW q \in Proc, Fork(p, t, q)
       PROVE  AccountedInv'
  <2> SUFFICES ASSUME NEW e \in pushed
               PROVE  Accounted(e)'
    BY <1>20 DEF Fork
  <2>1. e.pid \in Proc
    BY DEF TypeOK, Operation
  <2>2. operations[q] = <<>>
    BY <1>20 DEF Fork, CoreInv, UnbornInv
  <2>3. CASE e \in Events(operations[e.pid])
    <3>1. e.pid # q
      BY <2>2, <2>3, EventsEmpty
    <3> QED
      BY <1>20, <2>1, <2>3, <3>1 DEF Fork, TypeOK
  <2>4. CASE e \notin Events(operations[e.pid])
    BY <1>20, <2>4 DEF Fork
  <2> QED
    BY <2>3, <2>4
<1>21. ASSUME NEW p \in Proc, NEW t \in Thread, ThreadStarts(p, t)
       PROVE  AccountedInv'
  BY <1>0, <1>21 DEF ThreadStarts
<1> QED
  BY <1>1, <1>2, <1>3, <1>4, <1>5, <1>6, <1>7, <1>8, <1>9, <1>10, <1>11, <1>12,
     <1>13, <1>14, <1>15, <1>16, <1>17, <1>18, <1>19, <1>20, <1>21, HookKind
     DEF Next, LibraryStep, ProgramStep

LEMMA InitInv == Init => IInv
<1> SUFFICES ASSUME Init PROVE IInv
  OBVIOUS
<1>1. CoreInv
  BY DEF Init, CoreInv, LockInv, PendingInv, BufferInv, UnbornInv, CriticalSections
<1>2. QueueInv /\ AccountedInv
  BY EventsEmpty DEF Init, QueueInv, DrainedInv, ForeignInv, AccountedInv, AfterDrain
<1> QED
  BY <1>1, <1>2 DEF IInv

LEMMA CoversOwn == TypeOK /\ IInv => FlushCoversOwnEvents
<1> SUFFICES ASSUME TypeOK, IInv, NEW p \in Proc, NEW t \in Thread, NEW e \in pushed,
                    pc[p][t] \in {"dying", "exec_call"}, e.pid = p, e.tid = t
             PROVE  \/ InFiles(e)
                    \/ \E u \in Thread \ {t} : e \in Events(buffer[p][u])
                    \/ \E l \in lost : l.event = e /\ (l.by # t \/ l.why # "reset")
  BY DEF FlushCoversOwnEvents
<1>1. e \notin Events(operations[p])
  BY DEF IInv, QueueInv, DrainedInv, AfterDrain
<1>2. \A u \in Thread : e \in Events(buffer[p][u]) => u # t
  BY EventsEmpty DEF IInv, CoreInv, BufferInv
<1>3. \A l \in lost : l.event = e => (l.by # t \/ l.why # "reset")
  BY DEF IInv, QueueInv, ForeignInv
<1> QED
  BY <1>1, <1>2, <1>3 DEF IInv, AccountedInv, Accounted

(* Whatever the other threads and processes do, an Operation a thread has  *)
(* logged is not thrown away by the thread's own flush.  The invariant is  *)
(* not inductive alone: it needs that a queued Operation is always         *)
(* accounted for, that a queue holds nothing of a thread past its drain,   *)
(* and that critical sections exclude each other.                          *)
THEOREM FlushKeepsOwnEvents == Spec => []FlushCoversOwnEvents
<1>1. Init => TypeOK /\ IInv
  BY InitType, InitInv
<1>2. TypeOK /\ IInv /\ [Next]_vars => TypeOK' /\ IInv'
  BY NextType, CoreNext, QueueNext, AccountedNext DEF IInv
<1>3. TypeOK /\ IInv => FlushCoversOwnEvents
  BY CoversOwn
<1> QED
  BY <1>1, <1>2, <1>3, PTL DEF Spec
-----------------------------------------------------------------------------
LEMMA PrefixOfConcat ==
    ASSUME NEW S, NEW a \in Seq(S), NEW b \in Seq(S)
    PROVE  /\ Len(a) <= Len(a \o b)
           /\ SubSeq(a \o b, 1, Len(a)) = a
<1>1. SubSeq(a \o b, 1, Len(a)) \in Seq(S) /\ Len(SubSeq(a \o b, 1, Len(a))) = Len(a)
  OBVIOUS
<1>2. \A i \in 1..Len(a) : SubSeq(a \o b, 1, Len(a))[i] = a[i]
  OBVIOUS
<1> QED
  BY <1>1, <1>2

LEMMA GrowUnchanged ==
    ASSUME TypeOK, UNCHANGED files
    PROVE  FilesGrow
<1> SUFFICES ASSUME NEW f \in DOMAIN files
             PROVE  SubSeq(files[f], 1, Len(files[f])) = files[f]
  BY DEF FilesGrow, TypeOK
<1>1. files[f] \in Seq(Operation)
  BY DEF TypeOK
<1> QED
  BY <1>1

LEMMA SaveGrows ==
    ASSUME TypeOK, NEW p \in Proc, NEW t \in Thread, Save(p, t)
    PROVE  FilesGrow
<1> DEFINE g == path[p][t]
           evs == buffer[p][t]
<1>1. g \in Path /\ evs \in Seq(Operation)
  BY DEF TypeOK
<1>2. /\ DOMAIN files' = DOMAIN files \cup {g}
      /\ files'[g] = FileAt(g) \o evs
      /\ \A f \in DOMAIN files \ {g} : files'[f] = files[f]
      /\ FileAt(g) \in Seq(Operation)
  BY <1>1, WrittenType DEF Save
<1> SUFFICES ASSUME NEW f \in DOMAIN files
             PROVE  /\ Len(files[f]) <= Len(files'[f])
                    /\ SubSeq(files'[f], 1, Len(files[f])) = files[f]
  BY <1>2 DEF FilesGrow
<1>3. files[f] \in Seq(Operation)
  BY DEF TypeOK
<1>4. CASE f = g
  <2>1. files'[f] = files[f] \o evs
    BY <1>2, <1>4 DEF FileAt
  <2> QED
    BY <1>1, <1>3, <2>1, PrefixOfConcat
<1>5. CASE f # g
  <2>1. files'[f] = files[f]
    BY <1>2, <1>5
  <2> QED
    BY <1>3, <2>1
<1> QED
  BY <1>4, <1>5

LEMMA OnlySaveWrites ==
    ASSUME [Next]_vars
    PROVE  UNCHANGED files \/ \E p \in Proc, t \in Thread : Save(p, t)
<1> USE DEF imageVars
<1>1. ASSUME NEW p \in Proc, NEW t \in Thread, LibraryStep(p, t), ~Save(p, t)
      PROVE  UNCHANGED files
  BY <1>1 DEF LibraryStep, Acquire, LogOperation, FlushPath, Drain, SaveFails, Swap,
              ResetFirst, ResetNames, RealExit, Die, ExecSucceeds, ExecFails
<1>2. ASSUME NEW p \in Proc, NEW t \in Thread, ProgramStep(p, t)
      PROVE  UNCHANGED files
  BY <1>2 DEF ProgramStep, WriteHook, TransferHook, ReadHook, RenameHook, UnlinkHook,
              HookedCall, ExecHook, ExitHook, ExitHookAgain, Die, Fini, ThreadStarts, Fork
<1>3. ASSUME NEW p \in Proc, Kill(p)
      PROVE  UNCHANGED files
  BY <1>3 DEF Kill, Die
<1>4. CASE UNCHANGED vars
  BY <1>4 DEF vars
<1> QED
  BY <1>1, <1>2, <1>3, <1>4 DEF Next

(* Events that reached a file are never overwritten, cut off or reordered, *)
(* however many images, threads and processes flush to it afterwards.      *)
THEOREM SavedStayForever == Spec => SavedStaySaved
<1>1. TypeOK /\ [Next]_vars => [FilesGrow]_vars
  BY GrowUnchanged, SaveGrows, OnlySaveWrites
<1> QED
  BY <1>1, TypeCorrect, PTL DEF Spec, SavedStaySaved
-----------------------------------------------------------------------------
(* The order of the queue and the contents of the .jsonl files.  The         *)
(* inductive invariant.                                                     *)


OwnFiles(p) == {f \in DOMAIN files : f[1] = p}

\* All that the process has of the past: queued, drained or saved.
HeldIn(q, b, F, p) == Events(q) \cup (UNION {Events(b[t]) : t \in Thread})
                          \cup (UNION {Events(F[f]) : f \in {g \in DOMAIN F : g[1] = p}})
Held(p) == HeldIn(operations[p], buffer[p], files, p)

Calling(p, t) == pc[p][t] \in {"log_lock", "log"}

\* A thread flushes to a file named after its process, and a process that does
\* not exist yet has no file and no call that overlapped a flush.
PathInv == /\ \A p \in Proc, t \in Thread : path[p][t][1] = p
           /\ \A f \in DOMAIN files : status[f[1]] # "unborn"
           /\ \A p \in Proc : raced[p] => status[p] # "unborn"

\* Nothing is stamped later than now, and the call a thread is about to log
\* was stamped after all it logged before, with a stamp to spare for a START.
OldInv == \A p \in Proc :
    /\ \A e \in Held(p) : e.ts <= 2 * clock
    /\ \A t \in Thread : Calling(p, t) =>
          /\ pending[p][t].ts <= 2 * clock
          /\ \A e \in Held(p) : e.tid = t => e.ts < pending[p][t].ts - 1

Ordered(s) == \A i, j \in 1..Len(s) : (i < j /\ s[i].tid = s[j].tid) => s[i].ts < s[j].ts
OrderInv == \A p \in Proc : Ordered(operations[p])

\* EXEC and END are what a thread flushes for, and nothing else;
KindInv == \A p \in Proc, t \in Thread : Calling(p, t) =>
    /\ pending[p][t].kind # "START"
    /\ cont[p][t] = "return" <=> pending[p][t].kind \notin {"EXEC", "END"}
\* a failed exec is logged before anything else its thread logs.
FailInv == \A p \in Proc, t \in Thread :
    (Calling(p, t) /\ pending[p][t].kind = "EXEC_FAIL") =>
        \A e \in Events(operations[p]) : e.tid # t

\* IsSegment but for its end.
Begun(s, p, inh) ==
    /\ Len(s) >= 2
    /\ s[1].kind = "START" /\ (inh \/ s[1].pid = p)
    /\ \A i \in 2..Len(s) :
        s[i].kind # "START" /\ (s[i].tid = s[1].tid => s[i].ts > s[1].ts)
    /\ \A i \in 1..Len(s) - 1 : s[i].kind \notin {"EXEC", "END"}
    /\ \A i, j \in 2..Len(s) :
        (s[i].kind = "EXEC_FAIL" /\ s[j].tid = s[i].tid) => i <= j
Closed(s) == s[Len(s)].kind \in {"EXEC", "END"}

\* In a process where no call overlapped a flush, one thread flushes at a time;
AloneInv == \A p \in Proc : ~raced[p] =>
    \A t, u \in Thread : (pc[p][t] \in FlushPhases /\ pc[p][u] \in FlushPhases) => t = u
\* the queue is a segment that grows, or ends and is about to be drained;
SegAt(p) ==
    /\ (\A t \in Thread : pc[p][t] \notin FlushPhases) =>
          IF firstOperation[p] THEN operations[p] = <<>>
          ELSE Begun(operations[p], p, inherited[p]) /\ ~Closed(operations[p])
    /\ \A t \in Thread :
        /\ pc[p][t] \in {"path", "drain_lock", "drain"} =>
              Begun(operations[p], p, inherited[p]) /\ Closed(operations[p])
        /\ pc[p][t] = "save" =>
              Begun(buffer[p][t], p, inherited[p]) /\ Closed(buffer[p][t])
        /\ pc[p][t] \in AfterDrain => operations[p] = <<>>
        /\ pc[p][t] \in {"names", "exec_call", "dying"} => firstOperation[p]
SegInv == \A p \in Proc : ~raced[p] => SegAt(p)
\* a flush goes to a file that is not there yet;
NameInv ==
    /\ \A f \in DOMAIN files : (~raced[f[1]] /\ status[f[1]] = "running") =>
          /\ f[2] <= nodename[f[1]]
          /\ f[2] < nodename[f[1]] \/
                \E t \in Thread : pc[f[1]][t] \in {"swap_lock", "swap", "first", "names"}
    /\ \A p \in Proc, t \in Thread :
          (~raced[p] /\ pc[p][t] \in {"drain_lock", "drain", "save"}) =>
              path[p][t] = <<p, nodename[p]>>
FileInv == \A f \in DOMAIN files : ~raced[f[1]] =>
    Begun(files[f], f[1], inherited[f[1]]) /\ Closed(files[f])

\* what is in one place is in no other,
Distinct(s) == \A i, j \in 1..Len(s) : s[i] = s[j] => i = j
UniqueInv == \A p \in Proc : ~raced[p] =>
    /\ \A t \in Thread : Distinct(buffer[p][t])
    /\ \A f \in OwnFiles(p) :
        /\ Distinct(files[f])
        /\ Events(files[f]) \cap Events(operations[p]) = {}
        /\ \A t \in Thread : Events(files[f]) \cap Events(buffer[p][t]) = {}
        /\ \A g \in OwnFiles(p) : f # g => Events(files[f]) \cap Events(files[g]) = {}
\* and nothing is missing, but for a kill or a file that would not open.
Placed(e, p) ==
    \/ \E f \in OwnFiles(p) : e \in Events(files[f])
    \/ e \in Events(operations[p])
    \/ \E t \in Thread : e \in Events(buffer[p][t])
    \/ \E l \in lost : l.event = e /\ l.why = "save"
PlacedInv == \A e \in pushed :
    (~raced[e.pid] /\ status[e.pid] # "killed") => Placed(e, e.pid)
DeadInv == \A p \in Proc : status[p] \in {"exited", "killed"} =>
    operations[p] = <<>> /\ \A t \in Thread : pc[p][t] = "none"
-----------------------------------------------------------------------------
(* Every step is of one of these kinds. *)

Calls(p, t) == \E kind \in Kinds \ {"START"}, c \in Conts :
    /\ kind = "EXEC_FAIL" <=> pc[p][t] = "exec_call"
    /\ pc[p][t] \in {"idle", "exec_call"}
    /\ c = "return" <=> kind \notin {"EXEC", "END"}
    /\ Stamp(p, t, kind, c)
    /\ UNCHANGED <<status, path, buffer, operations, firstOperation, nodename, files, observers>>

\* The image is gone: by exit, kill, or a successful exec.
Gone(p, t) ==
    /\ \E threads \in [Thread -> {"none", "idle"}] :
          /\ ImageGone(p, t, threads)
          /\ \/ status' = status /\ pc[p][t] # "dying"
             \/ /\ threads = [u \in Thread |-> "none"]
                /\ \E how \in {"exited", "killed"} : status' = [status EXCEPT ![p] = how]
    /\ nodename' \in {nodename, [nodename EXCEPT ![p] = @ + 2]}
    /\ raced' \in {raced, [raced EXCEPT ![p] = TRUE]}
    /\ \/ status'[p] = "killed" \/ raced'[p]
       \/ pc[p][t] = "dying"
       \/ pc[p][t] = "exec_call" /\ nodename' = [nodename EXCEPT ![p] = @ + 2]
    /\ pc[p][t] = "none" => status[p] = "running" /\ status'[p] = "killed"
    /\ UNCHANGED <<pending, path, files, clock, pushed, inherited>>

Kind(p, t) ==
    \/ Calls(p, t)     \/ Acquire(p, t) \/ LogOperation(p, t) \/ FlushPath(p, t)
    \/ Drain(p, t)     \/ Save(p, t)    \/ SaveFails(p, t)    \/ Swap(p, t)
    \/ ResetFirst(p, t) \/ ResetNames(p, t) \/ Gone(p, t)     \/ ThreadStarts(p, t)
    \/ \E q \in Proc : Fork(p, t, q)

LEMMA CallKinds ==
    ASSUME NEW p \in Proc, NEW t \in Thread,
           \/ \E kind \in OpKinds : HookedCall(p, t, kind)
           \/ ExecHook(p, t) \/ ExitHook(p, t) \/ Fini(p, t) \/ ExecFails(p, t)
    PROVE  Calls(p, t)
<1> USE DEF Calls, At, Kinds, Conts, imageVars, observers
<1>1. ASSUME NEW kind \in OpKinds, HookedCall(p, t, kind) PROVE Calls(p, t)
  <2>1. kind \in Kinds \ {"START"} /\ kind # "EXEC_FAIL" /\ kind \notin {"EXEC", "END"}
    BY InjectorAssumption
  <2> QED
    BY <1>1, <2>1 DEF HookedCall
<1>2. CASE ExecHook(p, t)
  BY <1>2 DEF ExecHook
<1>3. CASE ExitHook(p, t)
  BY <1>3 DEF ExitHook
<1>4. CASE Fini(p, t)
  BY <1>4 DEF Fini
<1>5. CASE ExecFails(p, t)
  BY <1>5 DEF ExecFails
<1> QED
  BY <1>1, <1>2, <1>3, <1>4, <1>5

LEMMA GoneKinds ==
    ASSUME TypeOK, NEW p \in Proc, NEW t \in Thread,
           \/ ExitHookAgain(p, t) \/ RealExit(p, t) \/ ExecSucceeds(p, t)
           \/ Kill(p) /\ t = Main
    PROVE  Gone(p, t)
<1> DEFINE none == [u \in Thread |-> "none"]
           image == [u \in Thread |-> IF u = Main THEN "idle" ELSE "none"]
<1>1. none \in [Thread -> {"none", "idle"}] /\ image \in [Thread -> {"none", "idle"}]
  OBVIOUS
<1>2. CASE ExitHookAgain(p, t)
  <2>1. raced'[p]
    BY <1>2 DEF ExitHookAgain, TypeOK
  <2> QED
    BY <1>1, <1>2, <2>1 DEF ExitHookAgain, Die, Gone, At
<1>3. CASE RealExit(p, t)
  BY <1>1, <1>3 DEF RealExit, Die, Gone, At
<1>4. CASE Kill(p) /\ t = Main
  <2>1. status'[p] = "killed"
    BY <1>4 DEF Kill, Die, TypeOK
  <2> QED
    BY <1>1, <1>4, <2>1 DEF Kill, Die, Gone
<1>5. CASE ExecSucceeds(p, t)
  BY <1>1, <1>5 DEF ExecSucceeds, Gone, At
<1> QED
  BY <1>2, <1>3, <1>4, <1>5

LEMMA GoneEffect ==
    ASSUME TypeOK, NEW p \in Proc, NEW t \in Thread, Gone(p, t)
    PROVE  /\ \A r \in Proc \ {p} :
                /\ pc'[r] = pc[r] /\ cont'[r] = cont[r] /\ buffer'[r] = buffer[r]
                /\ operations'[r] = operations[r] /\ firstOperation'[r] = firstOperation[r]
                /\ nodename'[r] = nodename[r] /\ raced'[r] = raced[r] /\ status'[r] = status[r]
           /\ \A u \in Thread : pc'[p][u] \in {"none", "idle"} /\ buffer'[p][u] = <<>>
           /\ operations'[p] = <<>> /\ firstOperation'[p] = TRUE
           /\ raced[p] => raced'[p]
           /\ \/ status'[p] = status[p]
              \/ status'[p] \in {"exited", "killed"} /\ \A u \in Thread : pc'[p][u] = "none"
           /\ \/ status'[p] = "killed" \/ raced'[p]
              \/ pc[p][t] = "dying" /\ status'[p] # "running"
              \/ pc[p][t] = "exec_call" /\ nodename'[p] = nodename[p] + 2
           /\ pc[p][t] = "none" => status[p] = "running" /\ status'[p] = "killed"
           /\ UNCHANGED <<pending, path, files, clock, pushed, inherited>>
<1>1. PICK threads \in [Thread -> {"none", "idle"}] :
          /\ ImageGone(p, t, threads)
          /\ \/ status' = status /\ pc[p][t] # "dying"
             \/ /\ threads = [u \in Thread |-> "none"]
                /\ \E how \in {"exited", "killed"} : status' = [status EXCEPT ![p] = how]
  BY DEF Gone
<1>2. /\ pc' = [pc EXCEPT ![p] = threads]
      /\ cont' = [cont EXCEPT ![p] = [u \in Thread |-> "return"]]
      /\ buffer' = [buffer EXCEPT ![p] = [u \in Thread |-> <<>>]]
      /\ operations' = [operations EXCEPT ![p] = <<>>]
      /\ firstOperation' = [firstOperation EXCEPT ![p] = TRUE]
  BY <1>1 DEF ImageGone
<1>3. /\ nodename' \in {nodename, [nodename EXCEPT ![p] = @ + 2]}
      /\ raced' \in {raced, [raced EXCEPT ![p] = TRUE]}
      /\ \/ status'[p] = "killed" \/ raced'[p]
         \/ pc[p][t] = "dying"
         \/ pc[p][t] = "exec_call" /\ nodename' = [nodename EXCEPT ![p] = @ + 2]
      /\ pc[p][t] = "none" => status[p] = "running" /\ status'[p] = "killed"
      /\ UNCHANGED <<pending, path, files, clock, pushed, inherited>>
  BY DEF Gone
<1>4. /\ DOMAIN pc = Proc /\ DOMAIN cont = Proc /\ DOMAIN buffer = Proc /\ DOMAIN operations = Proc
      /\ DOMAIN firstOperation = Proc /\ DOMAIN nodename = Proc /\ DOMAIN raced = Proc
      /\ DOMAIN status = Proc
  BY DEF TypeOK
<1>5. ASSUME NEW r \in Proc \ {p}
      PROVE  /\ pc'[r] = pc[r] /\ cont'[r] = cont[r] /\ buffer'[r] = buffer[r]
             /\ operations'[r] = operations[r] /\ firstOperation'[r] = firstOperation[r]
             /\ nodename'[r] = nodename[r] /\ raced'[r] = raced[r] /\ status'[r] = status[r]
  BY <1>1, <1>2, <1>3, <1>4
<1>6. /\ pc'[p] = threads /\ buffer'[p] = [u \in Thread |-> <<>>]
      /\ operations'[p] = <<>> /\ firstOperation'[p] = TRUE
  BY <1>2, <1>4
<1>7. \A u \in Thread : pc'[p][u] \in {"none", "idle"} /\ buffer'[p][u] = <<>>
  BY <1>6
<1>8. raced[p] => raced'[p]
  BY <1>3, <1>4
<1>9. \/ status' = status /\ pc[p][t] # "dying"
      \/ status'[p] \in {"exited", "killed"} /\ \A u \in Thread : pc'[p][u] = "none"
  BY <1>1, <1>4, <1>6
<1>10. \/ status'[p] = "killed" \/ raced'[p]
       \/ pc[p][t] = "dying" /\ status'[p] # "running"
       \/ pc[p][t] = "exec_call" /\ nodename'[p] = nodename[p] + 2
  BY <1>3, <1>4, <1>9
<1> QED
  BY <1>3, <1>5, <1>6, <1>7, <1>8, <1>9, <1>10

LEMMA GoneOthers ==
    ASSUME TypeOK, NEW p \in Proc, NEW t \in Thread, Gone(p, t), NEW r \in Proc, r # p
    PROVE  /\ pc'[r] = pc[r] /\ cont'[r] = cont[r] /\ buffer'[r] = buffer[r]
           /\ operations'[r] = operations[r] /\ firstOperation'[r] = firstOperation[r]
           /\ nodename'[r] = nodename[r] /\ raced'[r] = raced[r] /\ status'[r] = status[r]
<1>1. r \in Proc \ {p}
  OBVIOUS
<1>2. \A x \in Proc \ {p} :
                /\ pc'[x] = pc[x] /\ cont'[x] = cont[x] /\ buffer'[x] = buffer[x]
                /\ operations'[x] = operations[x] /\ firstOperation'[x] = firstOperation[x]
                /\ nodename'[x] = nodename[x] /\ raced'[x] = raced[x] /\ status'[x] = status[x]
  BY GoneEffect
<1> QED
  BY <1>1, <1>2

LEMMA StepKinds ==
    ASSUME TypeOK, Next
    PROVE  \E p \in Proc : \E t \in Thread : Kind(p, t)
<1>1. ASSUME NEW p \in Proc, Kill(p) PROVE \E t \in Thread : Kind(p, t)
  BY <1>1, GoneKinds, InjectorAssumption DEF Kind
<1>2. ASSUME NEW p \in Proc, NEW t \in Thread, LibraryStep(p, t) PROVE Kind(p, t)
  BY <1>2, CallKinds, GoneKinds DEF Kind, LibraryStep
<1>3. ASSUME NEW p \in Proc, NEW t \in Thread, ProgramStep(p, t) PROVE Kind(p, t)
  BY <1>3, CallKinds, GoneKinds, HookKind DEF Kind, ProgramStep
<1> QED
  BY <1>1, <1>2, <1>3 DEF Next
-----------------------------------------------------------------------------
(* The order of the queue. *)

PlainInv == PathInv /\ KindInv /\ DeadInv

LEMMA PlainGone ==
    ASSUME TypeOK, CoreInv, PlainInv, NEW p \in Proc, NEW t \in Thread, Gone(p, t)
    PROVE  PlainInv'
<1>1. UNCHANGED <<pending, path, files>>
  BY GoneEffect
<1>2. status[p] \notin {"unborn", "exited", "killed"}
  <2>1. pc[p][t] = "none" => status[p] = "running"
    BY GoneEffect
  <2> QED
    BY <2>1 DEF CoreInv, UnbornInv, PlainInv, DeadInv
<1>3. PathInv'
  <2>1. \A f \in DOMAIN files : f[1] \in Proc
    BY DEF TypeOK, Path
  <2>2. status'[p] # "unborn"
    <3>1. \/ status'[p] = status[p]
          \/ status'[p] \in {"exited", "killed"}
      BY GoneEffect
    <3> QED
      BY <1>2, <3>1
  <2>3. \A r \in Proc : r # p => status'[r] = status[r] /\ raced'[r] = raced[r]
    BY GoneOthers
  <2>4. \A f \in DOMAIN files' : status'[f[1]] # "unborn"
    BY <1>1, <2>1, <2>2, <2>3 DEF PlainInv, PathInv
  <2>5. \A r \in Proc : raced'[r] => status'[r] # "unborn"
    BY <2>2, <2>3 DEF PlainInv, PathInv
  <2> QED
    BY <1>1, <2>4, <2>5 DEF PlainInv, PathInv
<1>4. KindInv'
  <2> SUFFICES ASSUME NEW r \in Proc, NEW u \in Thread, pc'[r][u] \in {"log_lock", "log"}
               PROVE  /\ pending'[r][u].kind # "START"
                      /\ cont'[r][u] = "return" <=> pending'[r][u].kind \notin {"EXEC", "END"}
    BY DEF KindInv, Calling
  <2>1. r # p
    BY GoneEffect
  <2>2. pc'[r] = pc[r] /\ cont'[r] = cont[r]
    BY <2>1, GoneOthers
  <2> QED
    BY <1>1, <2>2 DEF PlainInv, KindInv, Calling
<1>5. DeadInv'
  <2> SUFFICES ASSUME NEW r \in Proc, status'[r] \in {"exited", "killed"}
               PROVE  operations'[r] = <<>> /\ \A u \in Thread : pc'[r][u] = "none"
    BY DEF DeadInv
  <2>1. CASE r = p
    BY <1>2, <2>1, GoneEffect
  <2>2. CASE r # p
    <3>1. status'[r] = status[r] /\ operations'[r] = operations[r] /\ pc'[r] = pc[r]
      BY <2>2, GoneOthers
    <3> QED
      BY <3>1 DEF PlainInv, DeadInv
  <2> QED
    BY <2>1, <2>2
<1> QED
  BY <1>3, <1>4, <1>5 DEF PlainInv

LEMMA PlainKind ==
    ASSUME TypeOK, CoreInv, PlainInv, NEW p \in Proc, NEW t \in Thread, Kind(p, t)
    PROVE  PlainInv'
<1> USE DEF TypeOK, CoreInv, UnbornInv, PlainInv, PathInv, KindInv, DeadInv, Calling, At, Goto,
            imageVars, observers, Phases, FlushPhases
<1>1. CASE Calls(p, t)
  BY <1>1 DEF Calls, Stamp
<1>2. CASE Acquire(p, t)
  BY <1>2 DEF Acquire, LockWait
<1>3. CASE LogOperation(p, t)
  BY <1>3 DEF LogOperation
<1>4. CASE FlushPath(p, t)
  BY <1>4 DEF FlushPath
<1>5. CASE Drain(p, t)
  BY <1>5 DEF Drain
<1>6. CASE Save(p, t)
  BY <1>6 DEF Save, Written
<1>7. CASE SaveFails(p, t)
  BY <1>7 DEF SaveFails
<1>8. CASE Swap(p, t)
  BY <1>8 DEF Swap
<1>9. CASE ResetFirst(p, t)
  BY <1>9 DEF ResetFirst
<1>10. CASE ResetNames(p, t)
  BY <1>10 DEF ResetNames
<1>11. CASE Gone(p, t)
  BY <1>11, PlainGone
<1>12. CASE ThreadStarts(p, t)
  BY <1>12 DEF ThreadStarts
<1>13. ASSUME NEW q \in Proc, Fork(p, t, q) PROVE PlainInv'
  BY <1>13 DEF Fork
<1> QED
  BY <1>1, <1>2, <1>3, <1>4, <1>5, <1>6, <1>7, <1>8, <1>9, <1>10, <1>11, <1>12, <1>13 DEF Kind
LEMMA InHeld ==
    ASSUME NEW q, NEW b, NEW F, NEW p, NEW e
    PROVE  e \in HeldIn(q, b, F, p) <=>
              \/ e \in Events(q)
              \/ \E t \in Thread : e \in Events(b[t])
              \/ \E f \in DOMAIN F : f[1] = p /\ e \in Events(F[f])
<1> DEFINE B == UNION {Events(b[t]) : t \in Thread}
           C == UNION {Events(F[f]) : f \in {g \in DOMAIN F : g[1] = p}}
<1>1. e \in B <=> \E t \in Thread : e \in Events(b[t])
  OBVIOUS
<1>2. e \in C <=> \E f \in DOMAIN F : f[1] = p /\ e \in Events(F[f])
  OBVIOUS
<1>3. HeldIn(q, b, F, p) = Events(q) \cup B \cup C
  BY DEF HeldIn
<1> HIDE DEF B, C
<1> QED
  BY <1>1, <1>2, <1>3

LEMMA HeldQueue ==
    ASSUME NEW q, NEW b, NEW F, NEW p, NEW r, NEW c,
           Events(r) \subseteq HeldIn(q, b, F, p),
           \A t \in Thread : Events(c[t]) \subseteq HeldIn(q, b, F, p)
    PROVE  HeldIn(r, c, F, p) \subseteq HeldIn(q, b, F, p)
<1> SUFFICES ASSUME NEW e \in HeldIn(r, c, F, p) PROVE e \in HeldIn(q, b, F, p)
  OBVIOUS
<1> QED
  BY InHeld

\* What a thread saves was held before; a fork has what its parent had queued.
LEMMA HeldKind ==
    ASSUME TypeOK, CoreInv, PlainInv, NEW p \in Proc, NEW t \in Thread, Kind(p, t),
           NEW x \in Proc, NEW e \in Held(x)'
    PROVE  \/ e \in Held(x)
           \/ LogOperation(p, t) /\ x = p /\ e \in Events(Logged(p, pending[p][t]))
           \/ Fork(p, t, x) /\ e \in Held(p)
<1>1. ASSUME operations'[x] = operations[x], buffer'[x] = buffer[x], files' = files
      PROVE  e \in Held(x)
  BY <1>1 DEF Held
<1>2. CASE \/ Calls(p, t) \/ Acquire(p, t) \/ FlushPath(p, t)
           \/ ResetFirst(p, t) \/ ResetNames(p, t) \/ ThreadStarts(p, t)
  <2>1. operations' = operations /\ buffer' = buffer /\ files' = files
    BY <1>2 DEF Calls, Acquire, FlushPath, ResetFirst, ResetNames, ThreadStarts, imageVars
  <2> QED
    BY <1>1, <2>1
<1>3. Events(<<>>) = {}
  BY EventsEmpty
<1>4. CASE LogOperation(p, t)
  <2>1. buffer' = buffer /\ files' = files /\ \A r \in Proc : r # p => operations'[r] = operations[r]
    BY <1>4 DEF LogOperation, TypeOK
  <2>2. CASE x = p
    <3>1. operations'[p] = operations[p] \o Logged(p, pending[p][t])
      BY <1>4 DEF LogOperation, TypeOK
    <3>2. Events(operations'[p]) = Events(operations[p]) \cup Events(Logged(p, pending[p][t]))
      <4>1. operations[p] \in Seq(Operation) /\ Logged(p, pending[p][t]) \in Seq(Operation)
        BY LoggedType DEF TypeOK
      <4> QED
        BY <3>1, <4>1, EventsConcat
    <3> QED
      BY <1>4, <2>1, <2>2, <3>2 DEF Held, HeldIn
  <2>3. CASE x # p
    BY <1>1, <2>1, <2>3
  <2> QED
    BY <2>2, <2>3
<1>5. CASE Drain(p, t)
  <2>1. /\ files' = files /\ operations'[p] = <<>> /\ buffer'[p][t] = operations[p]
        /\ \A u \in Thread : u # t => buffer'[p][u] = buffer[p][u]
        /\ \A r \in Proc : r # p => operations'[r] = operations[r] /\ buffer'[r] = buffer[r]
    BY <1>5 DEF Drain, TypeOK
  <2>2. CASE x = p
    <3>1. \A u \in Thread : Events(buffer'[p][u]) \subseteq Held(p)
      BY <2>1 DEF Held, HeldIn
    <3>2. HeldIn(operations'[p], buffer'[p], files, p) \subseteq Held(p)
      BY <1>3, <2>1, <3>1, HeldQueue DEF Held
    <3> QED
      BY <2>1, <2>2, <3>2 DEF Held
  <2>3. CASE x # p
    BY <1>1, <2>1, <2>3
  <2> QED
    BY <2>2, <2>3
<1>6. CASE SaveFails(p, t) \/ Swap(p, t) \/ Gone(p, t)
  <2>1. /\ files' = files /\ operations'[p] \in {<<>>, operations[p]}
        /\ \A u \in Thread : buffer'[p][u] \in {<<>>, buffer[p][u]}
    <3>1. CASE SaveFails(p, t) \/ Swap(p, t)
      BY <3>1 DEF SaveFails, Swap, TypeOK, imageVars
    <3>2. CASE Gone(p, t)
      BY <3>2, GoneEffect
    <3> QED
      BY <1>6, <3>1, <3>2
  <2>2. x # p => operations'[x] = operations[x] /\ buffer'[x] = buffer[x]
    BY <1>6, GoneOthers DEF SaveFails, Swap, TypeOK, imageVars
  <2>3. CASE x = p
    <3>1. \A u \in Thread : Events(buffer'[p][u]) \subseteq Held(p)
      BY <1>3, <2>1 DEF Held, HeldIn
    <3>2. Events(operations'[p]) \subseteq Held(p)
      BY <1>3, <2>1 DEF Held, HeldIn
    <3>3. HeldIn(operations'[p], buffer'[p], files, p) \subseteq Held(p)
      BY <3>1, <3>2, HeldQueue DEF Held
    <3> QED
      BY <2>1, <2>3, <3>3 DEF Held
  <2>4. CASE x # p
    BY <1>1, <2>1, <2>2, <2>4
  <2> QED
    BY <2>3, <2>4
<1>7. CASE Save(p, t)
  <2> DEFINE f == path[p][t]
  <2>1. f \in Path /\ f[1] = p /\ buffer[p][t] \in Seq(Operation)
    BY DEF TypeOK, PlainInv, PathInv
  <2>2. /\ files' = Written(f, buffer[p][t]) /\ operations' = operations
        /\ \A u \in Thread : buffer'[p][u] \in {<<>>, buffer[p][u]}
        /\ \A r \in Proc : r # p => buffer'[r] = buffer[r]
    BY <1>7 DEF Save, TypeOK, imageVars
  <2> HIDE DEF f
  <2>3. /\ DOMAIN files' = DOMAIN files \cup {f}
        /\ \A g \in DOMAIN files' : g # f => files'[g] = files[g]
        /\ files'[f] = FileAt(f) \o buffer[p][t] /\ FileAt(f) \in Seq(Operation)
    <3>1. /\ DOMAIN files' = DOMAIN files \cup {f}
          /\ \A g \in DOMAIN files \ {f} : files'[g] = files[g]
          /\ files'[f] = FileAt(f) \o buffer[p][t] /\ FileAt(f) \in Seq(Operation)
      BY <2>1, <2>2, WrittenType
    <3> QED
      BY <3>1
  <2>4. Events(files'[f]) = Events(FileAt(f)) \cup Events(buffer[p][t])
    BY <2>1, <2>3, EventsConcat
  <2>5. Events(FileAt(f)) \subseteq Held(p)
    <3>1. CASE f \in DOMAIN files
      <4>1. FileAt(f) = files[f]
        BY <3>1 DEF FileAt
      <4> QED
        BY <2>1, <3>1, <4>1, InHeld DEF Held
    <3>2. CASE f \notin DOMAIN files
      BY <1>3, <3>2 DEF FileAt
    <3> QED
      BY <3>1, <3>2
  <2>6. CASE e \in Events(operations'[x])
    BY <2>2, <2>6 DEF Held, HeldIn
  <2>7. ASSUME NEW u \in Thread, e \in Events(buffer'[x][u])
        PROVE  e \in Held(x)
    <3>1. buffer'[x][u] \in {<<>>, buffer[x][u]}
      BY <2>2
    <3> QED
      BY <1>3, <2>7, <3>1 DEF Held, HeldIn
  <2>8. ASSUME NEW g \in DOMAIN files', g[1] = x, e \in Events(files'[g])
        PROVE  e \in Held(x)
    <3>1. CASE g = f
      <4>1. Events(buffer[p][t]) \subseteq Held(p)
        BY DEF Held, HeldIn
      <4> QED
        BY <2>1, <2>4, <2>5, <2>8, <3>1, <4>1
    <3>2. CASE g # f
      <4>1. g \in DOMAIN files /\ files'[g] = files[g]
        BY <2>3, <3>2
      <4> QED
        BY <2>8, <4>1, InHeld DEF Held
    <3> QED
      BY <3>1, <3>2
  <2> QED
    BY <2>6, <2>7, <2>8, InHeld DEF Held
<1>8. ASSUME NEW q \in Proc, Fork(p, t, q)
      PROVE  e \in Held(x) \/ (x = q /\ e \in Held(p))
  <2>1. /\ buffer' = buffer /\ files' = files /\ operations'[q] = operations[p]
        /\ \A r \in Proc : r # q => operations'[r] = operations[r]
        /\ status[q] = "unborn"
    BY <1>8 DEF Fork, TypeOK
  <2>2. CASE x = q
    <3>1. \A u \in Thread : buffer[q][u] = <<>>
      BY <2>1 DEF CoreInv, UnbornInv, BufferInv
    <3>2. \A f \in DOMAIN files : f[1] # q
      BY <2>1 DEF PlainInv, PathInv
    <3>3. Held(q)' = Events(operations[p])
      BY <1>3, <2>1, <3>1, <3>2 DEF Held, HeldIn
    <3> QED
      BY <2>2, <3>3 DEF Held, HeldIn
  <2>3. CASE x # q
    <3>1. operations'[x] = operations[x] /\ buffer'[x] = buffer[x]
      BY <2>1, <2>3
    <3> QED
      BY <1>1, <2>1, <3>1
  <2> QED
    BY <2>2, <2>3
<1> QED
  BY <1>2, <1>4, <1>5, <1>6, <1>7, <1>8 DEF Kind
\* Who is about to log was so before, or is stamped now; and its stamp stays.
LEMMA CallingKind ==
    ASSUME TypeOK, CoreInv, NEW p \in Proc, NEW t \in Thread, Kind(p, t),
           NEW x \in Proc, NEW u \in Thread, Calling(x, u)'
    PROVE  \/ /\ Calling(x, u) /\ pending'[x][u] = pending[x][u]
              /\ ~(LogOperation(p, t) /\ x = p /\ u = t) /\ ~Fork(p, t, x)
           \/ /\ Calls(p, t) /\ x = p /\ u = t /\ pending'[x][u].ts = 2 * (clock + 1)
              /\ pending'[x][u].tid = t
              /\ pending'[x][u].kind = "EXEC_FAIL" <=> pc[p][t] = "exec_call"
<1> DEFINE Stays == Calling(x, u) /\ pending'[x][u] = pending[x][u]
<1>1. ASSUME Calls(p, t), ~(x = p /\ u = t) PROVE Stays
  BY <1>1 DEF Calls, Stamp, Goto, TypeOK, Calling
<1>2. ASSUME Calls(p, t), x = p, u = t
      PROVE  /\ pending'[x][u].ts = 2 * (clock + 1) /\ pending'[x][u].tid = t
             /\ pending'[x][u].kind = "EXEC_FAIL" <=> pc[p][t] = "exec_call"
  <2>1. PICK kind \in Kinds, c \in Conts :
            Stamp(p, t, kind, c) /\ (kind = "EXEC_FAIL" <=> pc[p][t] = "exec_call")
    BY <1>2 DEF Calls
  <2>2. pending'[p][t] = [kind |-> kind, pid |-> p, tid |-> t, ts |-> 2 * (clock + 1)]
    BY <2>1 DEF Stamp, TypeOK
  <2> QED
    BY <1>2, <2>1, <2>2
<1>3. ASSUME Acquire(p, t) PROVE Stays
  BY <1>3 DEF Acquire, LockWait, TypeOK, Calling, At, Goto
<1>4. ASSUME LogOperation(p, t) PROVE Stays
  BY <1>4 DEF LogOperation, TypeOK, Calling, At, Goto
<1>5. ASSUME NEW k \in Phases \ {"log_lock", "log"}, Goto(p, t, k), pending' = pending PROVE Stays
  BY <1>5 DEF Goto, TypeOK, Calling
<1>6. ASSUME \/ FlushPath(p, t) \/ Drain(p, t) \/ Save(p, t) \/ SaveFails(p, t) \/ Swap(p, t)
             \/ ResetFirst(p, t) \/ ResetNames(p, t) \/ ThreadStarts(p, t)
      PROVE  Stays
  <2>1. \A k \in {"idle", "drain_lock", "save", "swap_lock", "first", "names", "exec_call", "dying"} :
            k \in Phases \ {"log_lock", "log"}
    BY DEF Phases, FlushPhases
  <2>2. pending' = pending
    BY <1>6 DEF FlushPath, Drain, Save, SaveFails, Swap, ResetFirst, ResetNames, ThreadStarts
  <2>3. \E k \in {"idle", "drain_lock", "save", "swap_lock", "first", "names", "exec_call", "dying"} :
            Goto(p, t, k)
    BY <1>6 DEF FlushPath, Drain, Save, SaveFails, Swap, ResetFirst, ResetNames, ThreadStarts
  <2> QED
    BY <1>5, <2>1, <2>2, <2>3
<1>7. ASSUME Gone(p, t) PROVE Stays
  <2>1. x # p
    <3>1. \A v \in Thread : pc'[p][v] \in {"none", "idle"}
      BY <1>7, GoneEffect
    <3> QED
      BY <3>1 DEF Calling
  <2>2. pc'[x] = pc[x]
    BY <1>7, <2>1, GoneOthers
  <2>3. pending' = pending
    BY <1>7, GoneEffect
  <2> QED
    BY <2>1, <2>2, <2>3 DEF Calling
<1>8. ASSUME NEW q \in Proc, Fork(p, t, q) PROVE Stays
  BY <1>8 DEF Fork, TypeOK, Calling
<1>9. Calling(x, u) => ~Fork(p, t, x)
  BY DEF CoreInv, UnbornInv, Calling, Fork
<1>10. ~(LogOperation(p, t) /\ x = p /\ u = t)
  BY DEF LogOperation, Calling, Goto, TypeOK
<1> QED
  BY <1>1, <1>2, <1>3, <1>4, <1>5, <1>6, <1>7, <1>8, <1>9, <1>10 DEF Kind
LEMMA HeldType == ASSUME TypeOK, NEW p \in Proc, NEW e \in Held(p) PROVE e \in Operation /\ e.ts \in Nat
<1>1. e \in Operation
  <2>1. CASE e \in Events(operations[p])
    BY <2>1, EventsType DEF TypeOK
  <2>2. ASSUME NEW t \in Thread, e \in Events(buffer[p][t]) PROVE e \in Operation
    BY <2>2, EventsType DEF TypeOK
  <2>3. ASSUME NEW f \in DOMAIN files, e \in Events(files[f]) PROVE e \in Operation
    BY <2>3, EventsType DEF TypeOK
  <2> QED
    BY <2>1, <2>2, <2>3, InHeld DEF Held
<1> QED
  BY <1>1 DEF Operation


LEMMA LoggedOps ==
    ASSUME NEW p \in Proc, NEW op \in Stamped, NEW e \in Events(Logged(p, op))
    PROVE  e.tid = op.tid /\ e.ts <= op.ts /\ e.ts >= op.ts - 1 /\ e.ts \in Nat
<1> DEFINE start == [op EXCEPT !.kind = "START", !.ts = @ - 1]
<1>1. op.ts \in Nat /\ op.ts >= 2 /\ op = [kind |-> op.kind, pid |-> op.pid, tid |-> op.tid, ts |-> op.ts]
  BY DEF Stamped, Operation
<1>2. start.tid = op.tid /\ start.ts = op.ts - 1
  BY <1>1
<1> HIDE DEF start
<1>3. Events(<<start, op>>) = {start, op} /\ Events(<<op>>) = {op}
  BY DEF Events
<1>4. e \in {start, op}
  BY <1>3 DEF Logged, start
<1> QED
  BY <1>1, <1>2, <1>4

LEMMA OldKind ==
    ASSUME TypeOK, CoreInv, PlainInv, OldInv, NEW p \in Proc, NEW t \in Thread, Kind(p, t)
    PROVE  OldInv'
<1>1. clock \in Nat /\ clock' \in {clock, clock + 1} /\ (Calls(p, t) => clock' = clock + 1)
  <2>1. CASE Calls(p, t)
    BY <2>1 DEF Calls, Stamp, TypeOK
  <2>2. CASE ~Calls(p, t) /\ ~Gone(p, t)
    BY <2>2 DEF Kind, Acquire, LogOperation, FlushPath, Drain, Save, SaveFails, Swap, ResetFirst,
                ResetNames, ThreadStarts, Fork, TypeOK
  <2>3. CASE Gone(p, t) /\ ~Calls(p, t)
    BY <2>3, GoneEffect DEF TypeOK
  <2> QED
    BY <2>1, <2>2, <2>3
<1>2. LogOperation(p, t) =>
        /\ Calling(p, t) /\ pending[p][t] \in Stamped /\ pending[p][t].tid = t
        /\ pending[p][t].ts <= 2 * clock /\ pending[p][t].ts \in Nat
  BY DEF LogOperation, At, Calling, CoreInv, PendingInv, OldInv, TypeOK, Stamped, Operation
<1>3. ASSUME NEW x \in Proc, NEW e \in Held(x)'
      PROVE  e.ts <= 2 * clock
  <2>1. CASE e \in Held(x) \/ e \in Held(p)
    BY <2>1 DEF OldInv
  <2>2. CASE LogOperation(p, t) /\ e \in Events(Logged(p, pending[p][t]))
    <3>1. e.ts <= pending[p][t].ts /\ e.ts \in Nat
      BY <1>2, <2>2, LoggedOps
    <3> QED
      BY <1>1, <1>2, <2>2, <3>1
  <2> QED
    BY <1>3, <2>1, <2>2, HeldKind
<1>4. ASSUME NEW x \in Proc, NEW u \in Thread, Calling(x, u)'
      PROVE  /\ pending'[x][u].ts <= 2 * clock'
             /\ \A e \in Held(x)' : e.tid = u => e.ts < pending'[x][u].ts - 1
  <2>1. CASE /\ Calling(x, u) /\ pending'[x][u] = pending[x][u]
             /\ ~(LogOperation(p, t) /\ x = p /\ u = t) /\ ~Fork(p, t, x)
    <3>1. /\ pending[x][u].ts <= 2 * clock /\ pending[x][u].ts \in Nat
          /\ \A e \in Held(x) : e.tid = u => e.ts < pending[x][u].ts - 1
      BY <2>1 DEF OldInv, TypeOK, Stamped, Operation
    <3>2. pending'[x][u].ts <= 2 * clock'
      BY <1>1, <2>1, <3>1
    <3>3. ASSUME NEW e \in Held(x)', e.tid = u PROVE e \in Held(x)
      <4>1. CASE LogOperation(p, t) /\ x = p /\ e \in Events(Logged(p, pending[p][t]))
        BY <1>2, <2>1, <3>3, <4>1, LoggedOps
      <4> QED
        BY <2>1, <3>3, <4>1, HeldKind
    <3> QED
      BY <2>1, <3>1, <3>2, <3>3
  <2>2. CASE /\ Calls(p, t) /\ x = p /\ u = t /\ pending'[x][u].ts = 2 * (clock + 1)
             /\ pending'[x][u].tid = t
    <3>1. ~LogOperation(p, t) /\ ~Fork(p, t, x)
      BY <2>2 DEF Calls, LogOperation, At, Fork, CoreInv, UnbornInv
    <3>2. \A e \in Held(x)' : e \in Held(x)
      BY <3>1, HeldKind
    <3>3. ASSUME NEW e \in Held(x) PROVE e.ts < 2 * (clock + 1) - 1
      <4>1. e.ts <= 2 * clock /\ e.ts \in Nat
        BY HeldType DEF OldInv
      <4> QED
        BY <1>1, <4>1
    <3> QED
      BY <1>1, <2>2, <3>2, <3>3
  <2> QED
    BY <1>4, <2>1, <2>2, CallingKind
<1>5. ASSUME NEW x \in Proc, NEW e \in Held(x)' PROVE e.ts <= 2 * clock'
  <2>1. e.ts \in Nat
    <3>1. CASE LogOperation(p, t) /\ e \in Events(Logged(p, pending[p][t]))
      BY <1>2, <3>1, LoggedOps
    <3>2. CASE e \in Held(x) \/ e \in Held(p)
      BY <3>2, HeldType
    <3> QED
      BY <1>5, <3>1, <3>2, HeldKind
  <2> QED
    BY <1>1, <1>3, <1>5, <2>1
<1> QED
  BY <1>4, <1>5 DEF OldInv

LEMMA OrderedPush ==
    ASSUME NEW s \in Seq(Operation), Ordered(s), NEW a \in Operation,
           \A e \in Events(s) : e.tid = a.tid => e.ts < a.ts
    PROVE  Ordered(s \o <<a>>)
<1> DEFINE n == Len(s)
           u == s \o <<a>>
<1>1. /\ n \in Nat /\ Len(u) = n + 1 /\ u[n + 1] = a
      /\ \A i \in 1..n : u[i] = s[i] /\ s[i] \in Events(s)
  BY DEF Events
<1> HIDE DEF n, u
<1> SUFFICES ASSUME NEW i \in 1..n + 1, NEW j \in 1..n + 1, i < j, u[i].tid = u[j].tid
             PROVE  u[i].ts < u[j].ts
  BY <1>1 DEF Ordered, u
<1>2. i \in 1..n
  BY <1>1
<1>3. CASE j \in 1..n
  BY <1>1, <1>2, <1>3 DEF Ordered, n
<1>4. CASE j = n + 1
  BY <1>1, <1>2, <1>4
<1> QED
  BY <1>1, <1>3, <1>4

LEMMA OrderedLogged ==
    ASSUME NEW p \in Proc, NEW s \in Seq(Operation), Ordered(s), NEW op \in Stamped,
           \A e \in Events(s) : e.tid = op.tid => e.ts < op.ts - 1
    PROVE  Ordered(s \o Logged(p, op))
<1> DEFINE start == [op EXCEPT !.kind = "START", !.ts = @ - 1]
<1>1. /\ op \in Operation /\ start \in Operation /\ start.tid = op.tid /\ start.ts = op.ts - 1
      /\ op.ts \in Nat /\ op.ts >= 2
  <2>1. op \in Operation /\ op.ts \in Nat /\ op.ts >= 2 /\ op.ts - 1 \in Nat
    BY DEF Stamped, Operation
  <2>2. start \in Operation
    BY <2>1 DEF Operation, Kinds
  <2>3. start.tid = op.tid /\ start.ts = op.ts - 1
    BY <2>1 DEF Operation
  <2> QED
    BY <2>1, <2>2, <2>3
<1> HIDE DEF start
<1>2. \A e \in Events(s) : e.ts \in Nat
  BY EventsType DEF Operation
<1>3. \A e \in Events(s) : e.tid = op.tid => e.ts < op.ts
  BY <1>1, <1>2
<1>4. Ordered(s \o <<op>>)
  BY <1>1, <1>3, OrderedPush
<1>5. Ordered(s \o <<start>>)
  BY <1>1, OrderedPush
<1>6. s \o <<start>> \in Seq(Operation) /\ Events(s \o <<start>>) = Events(s) \cup {start}
  <2>1. <<start>> \in Seq(Operation) /\ Events(<<start>>) = {start}
    BY <1>1 DEF Events
  <2>2. s \o <<start>> \in Seq(Operation)
    BY <2>1, ConcatType
  <2>3. s \in Seq(Operation)
    OBVIOUS
  <2>4. Events(s \o <<start>>) = Events(s) \cup Events(<<start>>)
    BY ONLY <2>1, <2>3, EventsConcat, ZenonT(60)
  <2> QED
    BY <2>1, <2>2, <2>4
<1>7. \A e \in Events(s \o <<start>>) : e.tid = op.tid => e.ts < op.ts
  BY <1>1, <1>3, <1>6
<1>8. Ordered((s \o <<start>>) \o <<op>>)
  BY <1>1, <1>5, <1>6, <1>7, OrderedPush
<1>9. (s \o <<start>>) \o <<op>> = s \o <<start, op>>
  BY <1>1
<1> QED
  BY <1>4, <1>8, <1>9 DEF Logged, start

\* What a step makes of a queue: nothing, nothing left, one Operation more, or
\* for a new process its parent's.
LEMMA QueueKind ==
    ASSUME TypeOK, NEW p \in Proc, NEW t \in Thread, Kind(p, t), NEW x \in Proc
    PROVE  \/ operations'[x] = operations[x]
           \/ operations'[x] = <<>>
           \/ LogOperation(p, t) /\ x = p
              /\ operations'[p] = operations[p] \o Logged(p, pending[p][t])
           \/ Fork(p, t, x) /\ operations'[x] = operations[p]
<1>1. CASE LogOperation(p, t)
  BY <1>1 DEF LogOperation, TypeOK
<1>2. CASE Gone(p, t)
  BY <1>2, GoneEffect, GoneOthers
<1>3. ASSUME NEW q \in Proc, Fork(p, t, q)
      PROVE  operations'[x] = operations[x] \/ (q = x /\ operations'[x] = operations[p])
  <2>1. operations' = [operations EXCEPT ![q] = operations[p]]
    BY <1>3 DEF Fork
  <2>2. operations \in [Proc -> Seq(Operation)]
    BY DEF TypeOK
  <2> QED
    BY ONLY <2>1, <2>2, q \in Proc, x \in Proc
<1>4. CASE Drain(p, t) \/ Swap(p, t)
  BY <1>4 DEF Drain, Swap, TypeOK
<1>5. CASE \/ Calls(p, t) \/ Acquire(p, t) \/ FlushPath(p, t) \/ Save(p, t) \/ SaveFails(p, t)
           \/ ResetFirst(p, t) \/ ResetNames(p, t) \/ ThreadStarts(p, t)
  BY <1>5 DEF Calls, Acquire, FlushPath, Save, SaveFails, ResetFirst, ResetNames, ThreadStarts,
              imageVars
<1> QED
  BY <1>1, <1>2, <1>3, <1>4, <1>5 DEF Kind

LEMMA OrderKind ==
    ASSUME TypeOK, CoreInv, OldInv, OrderInv, NEW p \in Proc, NEW t \in Thread, Kind(p, t)
    PROVE  OrderInv'
<1> SUFFICES ASSUME NEW x \in Proc PROVE Ordered(operations'[x])
  BY DEF OrderInv
<1>1. CASE operations'[x] = <<>>
  BY <1>1 DEF Ordered
<1>2. CASE operations'[x] = operations[x] \/ operations'[x] = operations[p]
  BY <1>2 DEF OrderInv
<1>3. CASE LogOperation(p, t) /\ operations'[x] = operations[p] \o Logged(p, pending[p][t])
  <2>1. Calling(p, t) /\ pending[p][t] \in Stamped /\ pending[p][t].tid = t
    BY <1>3 DEF LogOperation, At, Calling, CoreInv, PendingInv, TypeOK
  <2>2. Events(operations[p]) \subseteq Held(p)
    BY DEF Held, HeldIn
  <2>3. operations[p] \in Seq(Operation) /\ Ordered(operations[p])
    BY DEF TypeOK, OrderInv
  <2>4. \A e \in Events(operations[p]) : e.tid = pending[p][t].tid => e.ts < pending[p][t].ts - 1
    BY <2>1, <2>2 DEF OldInv
  <2> QED
    BY <1>3, <2>1, <2>3, <2>4, OrderedLogged
<1> QED
  BY <1>1, <1>2, <1>3, QueueKind

OrderedInv == TypeOK /\ CoreInv /\ PlainInv /\ OldInv /\ OrderInv

LEMMA OrderedInit == Init => OrderedInv
<1> SUFFICES ASSUME Init PROVE OrderedInv
  OBVIOUS
<1>1. TypeOK
  BY InitType
<1>2. CoreInv
  BY InitInv DEF IInv
<1>3. PlainInv /\ ~\E p \in Proc, t \in Thread : Calling(p, t)
  BY DEF Init, PlainInv, PathInv, KindInv, DeadInv, Calling
<1>4. \A p \in Proc : Held(p) = {}
  <2>1. DOMAIN files = {}
    BY DEF Init
  <2> QED
    BY <2>1, EventsEmpty DEF Init, Held, HeldIn
<1>5. OldInv /\ OrderInv
  BY <1>3, <1>4 DEF Init, OldInv, OrderInv, Ordered
<1> QED
  BY <1>1, <1>2, <1>3, <1>5 DEF OrderedInv

LEMMA OrderedNext == OrderedInv /\ [Next]_vars => OrderedInv'
<1> SUFFICES ASSUME OrderedInv, [Next]_vars PROVE OrderedInv'
  OBVIOUS
<1>1. TypeOK' /\ CoreInv'
  BY NextType, CoreNext DEF OrderedInv
<1>2. CASE UNCHANGED vars
  BY <1>1, <1>2
     DEF OrderedInv, PlainInv, PathInv, KindInv, DeadInv, OldInv, OrderInv, Held, Calling,
         vars, threadVars, imageVars, observers
<1>3. CASE Next
  <2>1. PICK p \in Proc, t \in Thread : Kind(p, t)
    BY <1>3, StepKinds DEF OrderedInv
  <2> QED
    BY <1>1, <2>1, PlainKind, OldKind, OrderKind DEF OrderedInv
<1> QED
  BY <1>2, <1>3

\* log_operation stamps before it locks, yet the queue holds the Operations of
\* each thread in the order of its calls, START before the first of a segment.
THEOREM QueueStaysInOrder == Spec => []QueueKeepsThreadOrder
<1>1. OrderedInv => QueueKeepsThreadOrder
  BY DEF OrderedInv, OrderInv, Ordered, QueueKeepsThreadOrder
<1> QED
  BY <1>1, OrderedInit, OrderedNext, PTL DEF Spec
-----------------------------------------------------------------------------
(* Where no call overlaps a flush, a file is a segment. *)

\* A step of p leaves other processes alone, but for a new one.
LEMMA OthersKind ==
    ASSUME TypeOK, NEW p \in Proc, NEW t \in Thread, Kind(p, t), NEW x \in Proc,
           x # p \/ (\E q \in Proc : Fork(p, t, q)), ~Fork(p, t, x)
    PROVE  /\ pc'[x] = pc[x] /\ buffer'[x] = buffer[x] /\ operations'[x] = operations[x]
           /\ firstOperation'[x] = firstOperation[x] /\ nodename'[x] = nodename[x]
           /\ raced'[x] = raced[x] /\ inherited'[x] = inherited[x] /\ status'[x] = status[x]
           /\ path'[x] = path[x]
<1>1. ASSUME NEW q \in Proc, Fork(p, t, q), q # x
      PROVE  /\ pc'[x] = pc[x] /\ buffer'[x] = buffer[x] /\ operations'[x] = operations[x]
             /\ firstOperation'[x] = firstOperation[x] /\ nodename'[x] = nodename[x]
             /\ raced'[x] = raced[x] /\ inherited'[x] = inherited[x] /\ status'[x] = status[x]
             /\ path'[x] = path[x]
  BY <1>1 DEF Fork, TypeOK
<1>2. CASE x # p /\ ~Gone(p, t) /\ ~\E q \in Proc : Fork(p, t, q)
  <2>1. CASE Calls(p, t)
    BY <1>2, <2>1 DEF Calls, Stamp, Goto, TypeOK, observers
  <2>2. CASE Acquire(p, t) \/ ThreadStarts(p, t)
    BY <1>2, <2>2 DEF Acquire, ThreadStarts, Goto, TypeOK, observers, imageVars
  <2>3. CASE LogOperation(p, t)
    BY <1>2, <2>3 DEF LogOperation, Goto, TypeOK
  <2>4. CASE FlushPath(p, t)
    BY <1>2, <2>4 DEF FlushPath, Goto, TypeOK, observers, imageVars
  <2>5. CASE Drain(p, t)
    BY <1>2, <2>5 DEF Drain, Goto, TypeOK, observers
  <2>6. CASE Save(p, t) \/ SaveFails(p, t)
    BY <1>2, <2>6 DEF Save, SaveFails, Goto, TypeOK, observers, imageVars
  <2>7. CASE Swap(p, t)
    BY <1>2, <2>7 DEF Swap, Goto, TypeOK
  <2>8. CASE ResetFirst(p, t)
    BY <1>2, <2>8 DEF ResetFirst, Goto, TypeOK, observers
  <2>9. CASE ResetNames(p, t)
    BY <1>2, <2>9 DEF ResetNames, Goto, TypeOK, observers
  <2> QED
    BY <1>2, <2>1, <2>2, <2>3, <2>4, <2>5, <2>6, <2>7, <2>8, <2>9 DEF Kind
<1>3. CASE x # p /\ Gone(p, t)
  <2>1. path' = path /\ inherited' = inherited
    BY <1>3, GoneEffect
  <2> QED
    BY <1>3, <2>1, GoneOthers
<1>4. ASSUME NEW q \in Proc, Fork(p, t, q) PROVE q # x
  BY <1>4
<1> QED
  BY <1>1, <1>2, <1>3, <1>4

\* What a process with no call overlapping a flush was before.
LEMMA RacedKind ==
    ASSUME TypeOK, NEW p \in Proc, NEW t \in Thread, Kind(p, t),
           NEW x \in Proc, ~raced'[x], ~Fork(p, t, x)
    PROVE  ~raced[x] /\ (LogOperation(p, t) /\ x = p => ~InFlush(p, t))
<1>1. CASE x # p \/ \E q \in Proc : Fork(p, t, q)
  <2>1. raced'[x] = raced[x]
    BY <1>1, OthersKind
  <2>2. x = p => ~LogOperation(p, t)
    BY <1>1 DEF Fork, LogOperation, At
  <2> QED
    BY <2>1, <2>2
<1>2. CASE LogOperation(p, t) /\ x = p
  <2>1. raced'[p] = (raced[p] \/ InFlush(p, t))
    BY <1>2 DEF LogOperation, TypeOK
  <2> QED
    BY <1>2, <2>1
<1>3. CASE Gone(p, t) /\ x = p
  <2>1. raced[p] => raced'[p]
    BY <1>3, GoneEffect
  <2>2. ~LogOperation(p, t) \/ ~InFlush(p, t)
    BY <1>2, <1>3
  <2> QED
    BY <1>3, <2>1, <2>2
<1>4. CASE \/ Calls(p, t) \/ Acquire(p, t) \/ FlushPath(p, t)
           \/ Drain(p, t) \/ Save(p, t) \/ SaveFails(p, t) \/ Swap(p, t)
           \/ ResetFirst(p, t) \/ ResetNames(p, t) \/ ThreadStarts(p, t)
  <2>1. raced' = raced
    BY <1>4 DEF Calls, Acquire, FlushPath, Drain, Save, SaveFails, Swap, ResetFirst, ResetNames,
                ThreadStarts, observers
  <2> QED
    BY <1>2, <2>1
<1> QED
  BY <1>1, <1>2, <1>3, <1>4 DEF Kind

\* A thread begins a flush when it has logged what it flushes for.
LEMMA FlushKind ==
    ASSUME TypeOK, NEW p \in Proc, NEW t \in Thread, Kind(p, t),
           NEW x \in Proc, NEW u \in Thread, pc'[x][u] \in FlushPhases, ~Fork(p, t, x)
    PROVE  \/ pc[x][u] \in FlushPhases
           \/ LogOperation(p, t) /\ x = p /\ u = t
<1>1. CASE x # p \/ \E q \in Proc : Fork(p, t, q)
  BY <1>1, OthersKind
<1>2. CASE x = p /\ u # t /\ ~Gone(p, t)
  BY <1>2 DEF Kind, Calls, Stamp, Acquire, LogOperation, FlushPath, Drain, Save, SaveFails, Swap,
              ResetFirst, ResetNames, ThreadStarts, Fork, Goto, TypeOK
<1>3. CASE x = p /\ Gone(p, t)
  <2>1. \A v \in Thread : pc'[p][v] \in {"none", "idle"}
    BY <1>3, GoneEffect
  <2> QED
    BY <1>3, <2>1 DEF FlushPhases
<1>4. CASE x = p /\ u = t /\ ~(\E q \in Proc : Fork(p, t, q)) /\ ~Gone(p, t)
  <2>1. CASE Calls(p, t) \/ ThreadStarts(p, t)
    BY <1>4, <2>1 DEF Calls, Stamp, ThreadStarts, Goto, TypeOK, FlushPhases
  <2>2. CASE Acquire(p, t)
    BY <1>4, <2>2 DEF Acquire, LockWait, Goto, At, TypeOK, FlushPhases
  <2>3. CASE \/ FlushPath(p, t) \/ Drain(p, t) \/ Save(p, t) \/ SaveFails(p, t) \/ Swap(p, t)
             \/ ResetFirst(p, t) \/ ResetNames(p, t)
    <3>1. pc[p][t] \in {"path", "drain", "save", "swap", "first", "names"}
      BY <2>3 DEF FlushPath, Drain, Save, SaveFails, Swap, ResetFirst, ResetNames, At
    <3> QED
      BY <1>4, <3>1 DEF FlushPhases
  <2> QED
    BY <1>4, <2>1, <2>2, <2>3 DEF Kind
<1> QED
  BY <1>1, <1>2, <1>3, <1>4

\* A new process has one thread, which is in the program.
LEMMA ForkedThreads ==
    ASSUME TypeOK, CoreInv, NEW p \in Proc, NEW t \in Thread, NEW q \in Proc, Fork(p, t, q)
    PROVE  /\ q # p /\ pc'[q][t] = "idle" /\ \A u \in Thread : pc'[q][u] \in {"none", "idle"}
           /\ \A u \in Thread : buffer'[q][u] = <<>>
<1>1. status[q] = "unborn" /\ pc[p][t] = "idle" /\ pc' = [pc EXCEPT ![q][t] = "idle"]
      /\ buffer' = buffer
  BY DEF Fork, At
<1>2. \A u \in Thread : pc[q][u] = "none" /\ buffer[q][u] = <<>>
  BY <1>1 DEF CoreInv, UnbornInv, BufferInv
<1> QED
  BY <1>1, <1>2 DEF TypeOK

LEMMA AloneKind ==
    ASSUME TypeOK, CoreInv, AloneInv, NEW p \in Proc, NEW t \in Thread, Kind(p, t)
    PROVE  AloneInv'
<1> SUFFICES ASSUME NEW x \in Proc, ~raced'[x], NEW u \in Thread, NEW v \in Thread,
                    pc'[x][u] \in FlushPhases, pc'[x][v] \in FlushPhases
             PROVE  u = v
  BY DEF AloneInv
<1>1. ~Fork(p, t, x)
  <2>1. "none" \notin FlushPhases /\ "idle" \notin FlushPhases
    BY DEF FlushPhases
  <2> QED
    BY <2>1, ForkedThreads
<1>2. ~raced[x] /\ (LogOperation(p, t) /\ x = p => ~InFlush(p, t))
  BY <1>1, RacedKind
<1>3. /\ pc[x][u] \in FlushPhases \/ (LogOperation(p, t) /\ x = p /\ u = t)
      /\ pc[x][v] \in FlushPhases \/ (LogOperation(p, t) /\ x = p /\ v = t)
  BY <1>1, FlushKind
<1> QED
  BY <1>2, <1>3 DEF AloneInv, InFlush
\* One Operation more in a segment that is not closed;
LEMMA BegunPush ==
    ASSUME NEW s \in Seq(Operation), NEW p, NEW inh, NEW a \in Operation,
           Begun(s, p, inh), ~Closed(s), a.kind # "START",
           \A e \in Events(s) : e.tid = a.tid => e.ts < a.ts /\ a.kind # "EXEC_FAIL"
    PROVE  /\ Begun(s \o <<a>>, p, inh)
           /\ Closed(s \o <<a>>) <=> a.kind \in {"EXEC", "END"}
<1> DEFINE n == Len(s)
           u == s \o <<a>>
<1>1. /\ n \in Nat /\ n >= 2 /\ Len(u) = n + 1 /\ u[n + 1] = a
      /\ \A i \in 1..n : u[i] = s[i] /\ s[i] \in Events(s) /\ s[i].ts \in Nat
  <2>1. n \in Nat /\ n >= 2 /\ Len(u) = n + 1 /\ u[n + 1] = a
    BY DEF Begun
  <2>2. \A i \in 1..n : s[i] \in Operation /\ s[i] \in Events(s) /\ u[i] = s[i]
    BY DEF Events
  <2>3. \A o \in Operation : o.ts \in Nat
    BY DEF Operation
  <2> QED
    BY <2>1, <2>2, <2>3
<1>2. /\ s[1].kind = "START" /\ (inh \/ s[1].pid = p)
      /\ \A i \in 2..n : s[i].kind # "START" /\ (s[i].tid = s[1].tid => s[i].ts > s[1].ts)
      /\ \A i \in 1..n - 1 : s[i].kind \notin {"EXEC", "END"}
      /\ \A i, j \in 2..n : (s[i].kind = "EXEC_FAIL" /\ s[j].tid = s[i].tid) => i <= j
      /\ s[n].kind \notin {"EXEC", "END"}
  BY DEF Begun, Closed
<1>3. a.ts \in Nat
  BY DEF Operation
<1> HIDE DEF n, u
<1>4. u[1] = s[1] /\ s[1] \in Events(s)
  BY <1>1
<1>5. \A i \in 2..(n + 1) : u[i].kind # "START" /\ (u[i].tid = u[1].tid => u[i].ts > u[1].ts)
  <2> SUFFICES ASSUME NEW i \in 2..(n + 1)
               PROVE  u[i].kind # "START" /\ (u[i].tid = u[1].tid => u[i].ts > u[1].ts)
    OBVIOUS
  <2>1. CASE i = n + 1
    <3>1. a.tid = s[1].tid => s[1].ts < a.ts
      BY <1>4
    <3>2. s[1].ts \in Nat
      BY <1>1
    <3> QED
      BY <1>1, <1>3, <1>4, <2>1, <3>1, <3>2
  <2>2. CASE i \in 2..n
    BY <1>1, <1>2, <1>4, <2>2
  <2> QED
    BY <1>1, <2>1, <2>2
<1>6. \A i \in 1..n : u[i].kind \notin {"EXEC", "END"}
  BY <1>1, <1>2
<1>7. ASSUME NEW i \in 2..(n + 1), NEW j \in 2..(n + 1), u[i].kind = "EXEC_FAIL", u[j].tid = u[i].tid
      PROVE  i <= j
  <2>1. CASE j = n + 1
    BY <1>1, <2>1
  <2>2. CASE i = n + 1 /\ j \in 2..n
    <3>1. s[j] \in Events(s) /\ s[j].tid = a.tid /\ a.kind = "EXEC_FAIL"
      BY <1>1, <1>7, <2>2
    <3> QED
      BY <3>1
  <2>3. CASE i \in 2..n /\ j \in 2..n
    BY <1>1, <1>2, <1>7, <2>3
  <2> QED
    BY <1>1, <2>1, <2>2, <2>3
<1>8. (n + 1) - 1 = n /\ n + 1 >= 2
  BY <1>1
<1>9. Begun(u, p, inh)
  BY <1>1, <1>2, <1>4, <1>5, <1>6, <1>7, <1>8 DEF Begun
<1> QED
  BY <1>1, <1>9 DEF Closed, u

\* and the two that a segment begins with.
LEMMA BegunStart ==
    ASSUME NEW p \in Proc, NEW inh, NEW op \in Stamped, op.pid = p, op.kind # "START",
           firstOperation[p]
    PROVE  /\ Begun(Logged(p, op), p, inh)
           /\ Closed(Logged(p, op)) <=> op.kind \in {"EXEC", "END"}
<1> DEFINE start == [op EXCEPT !.kind = "START", !.ts = @ - 1]
           u == <<start, op>>
<1>1. /\ start.kind = "START" /\ start.pid = p /\ start.ts = op.ts - 1
      /\ op.ts \in Nat /\ op.ts > op.ts - 1
  BY DEF Stamped, Operation
<1>2. Len(u) = 2 /\ u[1] = start /\ u[2] = op /\ Logged(p, op) = u
  BY DEF Logged
<1> HIDE DEF start, u
<1>3. \A i \in 2..2 : i = 2
  OBVIOUS
<1>4. \A i \in 1..2 - 1 : i = 1
  OBVIOUS
<1>5. Begun(u, p, inh)
  BY <1>1, <1>2, <1>3, <1>4 DEF Begun
<1> QED
  BY <1>2, <1>5 DEF Closed

LEMMA FailKind ==
    ASSUME TypeOK, CoreInv, QueueInv, FailInv, NEW p \in Proc, NEW t \in Thread, Kind(p, t)
    PROVE  FailInv'
<1> SUFFICES ASSUME NEW x \in Proc, NEW u \in Thread, Calling(x, u)',
                    pending'[x][u].kind = "EXEC_FAIL", NEW e \in Events(operations'[x])
             PROVE  e.tid # u
  BY DEF FailInv, Events
<1>1. CASE /\ Calling(x, u) /\ pending'[x][u] = pending[x][u]
           /\ ~(LogOperation(p, t) /\ x = p /\ u = t) /\ ~Fork(p, t, x)
  <2>1. \A d \in Events(operations[x]) : d.tid # u
    BY <1>1 DEF FailInv
  <2>2. CASE LogOperation(p, t) /\ x = p
    <3>1. /\ Events(operations'[p]) = Events(operations[p]) \cup Events(Logged(p, pending[p][t]))
          /\ \A d \in Events(Logged(p, pending[p][t])) : d.tid = t
      BY <2>2, LogQueue
    <3> QED
      BY <1>1, <2>1, <2>2, <3>1
  <2>3. CASE operations'[x] = operations[x] \/ operations'[x] = <<>>
    BY <2>1, <2>3, EventsEmpty
  <2> QED
    BY <1>1, <2>2, <2>3, QueueKind
<1>2. CASE /\ Calls(p, t) /\ x = p /\ u = t
           /\ pending'[x][u].kind = "EXEC_FAIL" <=> pc[p][t] = "exec_call"
  <2>1. operations' = operations /\ pc[p][t] = "exec_call"
    BY <1>2 DEF Calls
  <2> QED
    BY <1>2, <2>1 DEF QueueInv, DrainedInv, AfterDrain
<1> QED
  BY <1>1, <1>2, CallingKind
LEMMA EmptyConcat == ASSUME NEW S, NEW s \in Seq(S) PROVE <<>> \o s = s
  OBVIOUS

\* A call that overlaps no flush goes to the end of a growing segment.
LEMMA SegLog ==
    ASSUME TypeOK, CoreInv, PlainInv, OldInv, FailInv, SegInv,
           NEW p \in Proc, NEW t \in Thread, LogOperation(p, t), ~raced[p], ~InFlush(p, t)
    PROVE  SegAt(p)'
<1> DEFINE op == pending[p][t]
<1>1. /\ pc[p][t] = "log" /\ firstOperation'[p] = FALSE /\ buffer' = buffer
      /\ operations'[p] = operations[p] \o Logged(p, op) /\ inherited' = inherited
      /\ pc' = [pc EXCEPT ![p][t] = IF cont[p][t] = "return" THEN "idle" ELSE "path"]
  BY DEF LogOperation, TypeOK, At, Goto
<1>2. Calling(p, t) /\ op \in Stamped /\ op.pid = p /\ op.tid = t /\ op.kind # "START"
      /\ (cont[p][t] = "return" <=> op.kind \notin {"EXEC", "END"})
  <2>1. Calling(p, t)
    BY <1>1 DEF Calling
  <2>2. op \in Stamped
    BY DEF TypeOK
  <2>3. op.pid = p /\ op.tid = t
    BY <1>1 DEF CoreInv, PendingInv
  <2> QED
    BY <2>1, <2>2, <2>3 DEF PlainInv, KindInv
<1>3. \A u \in Thread : pc[p][u] \notin FlushPhases
  BY <1>1 DEF InFlush, FlushPhases
<1>4. IF firstOperation[p] THEN operations[p] = <<>>
      ELSE Begun(operations[p], p, inherited[p]) /\ ~Closed(operations[p])
  BY <1>3 DEF SegInv, SegAt
<1>5. operations[p] \in Seq(Operation) /\ op \in Operation /\ op.ts \in Nat
  BY <1>2 DEF TypeOK, Stamped, Operation
<1>6. /\ Begun(operations'[p], p, inherited[p])
      /\ Closed(operations'[p]) <=> op.kind \in {"EXEC", "END"}
  <2>1. CASE firstOperation[p]
    <3>1. Logged(p, op) \in Seq(Operation)
      BY <1>2, LoggedType
    <3>2. operations'[p] = Logged(p, op)
      <4>1. operations[p] = <<>> /\ operations'[p] = operations[p] \o Logged(p, op)
        BY <1>1, <1>4, <2>1
      <4>2. \A s \in Seq(Operation) : <<>> \o s = s
        BY EmptyConcat
      <4> QED
        BY <3>1, <4>1, <4>2
    <3> QED
      BY <1>2, <2>1, <3>2, BegunStart
  <2>2. CASE ~firstOperation[p]
    <3>1. operations'[p] = operations[p] \o <<op>>
      BY <1>1, <2>2 DEF Logged
    <3>2. ASSUME NEW e \in Events(operations[p]), e.tid = op.tid
          PROVE  e.ts < op.ts /\ op.kind # "EXEC_FAIL"
      <4>1. e \in Held(p) /\ e.ts \in Nat
        <5>1. e \in Held(p)
          BY DEF Held, HeldIn
        <5> QED
          BY <5>1, HeldType
      <4>2. e.ts < op.ts - 1
        BY <1>2, <3>2, <4>1 DEF OldInv
      <4>3. op.kind # "EXEC_FAIL"
        BY <1>2, <3>2 DEF FailInv
      <4> QED
        BY <1>5, <4>1, <4>2, <4>3
    <3> HIDE DEF op
    <3> QED
      BY <1>2, <1>4, <1>5, <2>2, <3>1, <3>2, BegunPush
  <2> QED
    BY <2>1, <2>2
<1>7. \A u \in Thread : u # t => pc'[p][u] \notin FlushPhases
  BY <1>1, <1>3 DEF TypeOK
<1>8. pc'[p][t] = IF cont[p][t] = "return" THEN "idle" ELSE "path"
  BY <1>1 DEF TypeOK
<1>9. CASE cont[p][t] = "return"
  <2>1. \A u \in Thread : pc'[p][u] \notin FlushPhases
    BY <1>7, <1>8, <1>9 DEF FlushPhases
  <2> QED
    BY <1>1, <1>2, <1>6, <1>9, <2>1 DEF SegAt, AfterDrain, FlushPhases
<1>10. CASE cont[p][t] # "return"
  <2>1. pc'[p][t] = "path" /\ "path" \in FlushPhases
    BY <1>8, <1>10 DEF FlushPhases
  <2> QED
    BY <1>1, <1>2, <1>6, <1>7, <1>10, <2>1 DEF SegAt, AfterDrain, FlushPhases
<1> QED
  BY <1>9, <1>10

LEMMA SegFork ==
    ASSUME TypeOK, CoreInv, SegInv, NEW p \in Proc, NEW t \in Thread, NEW q \in Proc,
           Fork(p, t, q), ~raced'[q]
    PROVE  SegAt(q)'
<1>1. /\ pc[p][t] = "idle" /\ operations'[q] = operations[p] /\ firstOperation'[q] = firstOperation[p]
      /\ inherited'[q] = (operations[p] # <<>>) /\ raced'[q] = (raced[p] \/ InFlush(p, t))
  BY DEF Fork, At, TypeOK
<1>2. ~raced[p] /\ \A u \in Thread : pc[p][u] \notin FlushPhases
  BY <1>1 DEF InFlush, FlushPhases
<1>3. IF firstOperation[p] THEN operations[p] = <<>>
      ELSE Begun(operations[p], p, inherited[p]) /\ ~Closed(operations[p])
  BY <1>2 DEF SegInv, SegAt
<1>4. \A u \in Thread : pc'[q][u] \in {"none", "idle"}
  BY ForkedThreads
<1>5. Begun(operations[p], p, inherited[p]) => Begun(operations[p], q, inherited'[q])
  <2>1. Begun(operations[p], p, inherited[p]) => operations[p] # <<>>
    BY DEF Begun
  <2> QED
    BY <1>1, <2>1 DEF Begun
<1> QED
  BY <1>1, <1>3, <1>4, <1>5 DEF SegAt, AfterDrain, FlushPhases

\* The flushing thread's own steps, and its image's end.
LEMMA SegFlush ==
    ASSUME TypeOK, CoreInv, AloneInv, SegInv, NEW p \in Proc, NEW t \in Thread, ~raced[p],
           \/ Calls(p, t) \/ Acquire(p, t) \/ FlushPath(p, t) \/ Drain(p, t) \/ Save(p, t)
           \/ SaveFails(p, t) \/ Swap(p, t) \/ ResetFirst(p, t) \/ ResetNames(p, t)
           \/ Gone(p, t) \/ ThreadStarts(p, t)
    PROVE  SegAt(p)'
<1>1. SegAt(p) /\ \A u \in Thread \ {t} : pc[p][t] \in FlushPhases => pc[p][u] \notin FlushPhases
  BY DEF SegInv, AloneInv
<1> USE DEF SegAt, AfterDrain, FlushPhases, At, Goto
<1>2. CASE Gone(p, t)
  <2>1. /\ \A u \in Thread : pc'[p][u] \in {"none", "idle"}
        /\ operations'[p] = <<>> /\ firstOperation'[p] = TRUE
    BY <1>2, GoneEffect
  <2> QED
    BY <2>1
<1>3. CASE Calls(p, t)
  <2>1. /\ pc[p][t] \in {"idle", "exec_call"} /\ pc'[p][t] = "log_lock"
        /\ \A u \in Thread : u # t => pc'[p][u] = pc[p][u]
        /\ operations' = operations /\ buffer' = buffer /\ firstOperation' = firstOperation
        /\ inherited' = inherited
    BY <1>3 DEF Calls, Stamp, TypeOK, observers
  <2>2. CASE pc[p][t] = "idle"
    BY <1>1, <2>1, <2>2
  <2>3. CASE pc[p][t] = "exec_call"
    BY <1>1, <2>1, <2>3
  <2> QED
    BY <2>1, <2>2, <2>3
<1>4. CASE Acquire(p, t) \/ ThreadStarts(p, t) \/ FlushPath(p, t)
  <2>1. /\ \/ pc[p][t] \in {"log_lock", "none"} /\ pc'[p][t] \in {"log", "idle"}
           \/ pc[p][t] \in {"path", "drain_lock"} /\ pc'[p][t] \in {"drain_lock", "drain"}
           \/ pc[p][t] = "swap_lock" /\ pc'[p][t] = "swap"
        /\ \A u \in Thread : u # t => pc'[p][u] = pc[p][u]
        /\ operations' = operations /\ buffer' = buffer /\ firstOperation' = firstOperation
        /\ inherited' = inherited
    BY <1>4 DEF Acquire, LockWait, ThreadStarts, FlushPath, TypeOK, observers, imageVars
  <2>2. CASE pc[p][t] \in {"log_lock", "none"} /\ pc'[p][t] \in {"log", "idle"}
    BY <1>1, <2>1, <2>2
  <2>3. CASE pc[p][t] \in {"path", "drain_lock"} /\ pc'[p][t] \in {"drain_lock", "drain"}
    BY <1>1, <2>1, <2>3
  <2>4. CASE pc[p][t] = "swap_lock" /\ pc'[p][t] = "swap"
    BY <1>1, <2>1, <2>4
  <2> QED
    BY <2>1, <2>2, <2>3, <2>4
<1>5. CASE Drain(p, t)
  <2>1. /\ pc[p][t] = "drain" /\ pc'[p][t] = "save" /\ operations'[p] = <<>>
        /\ buffer'[p][t] = operations[p] /\ inherited' = inherited
        /\ \A u \in Thread : u # t => pc'[p][u] = pc[p][u]
    BY <1>5 DEF Drain, TypeOK, observers
  <2> QED
    BY <1>1, <2>1
<1>6. CASE Save(p, t) \/ SaveFails(p, t) \/ Swap(p, t) \/ ResetFirst(p, t) \/ ResetNames(p, t)
  <2>1. /\ pc[p][t] \in {"save", "swap", "first", "names"}
        /\ pc'[p][t] \in {"swap_lock", "first", "names", "exec_call", "dying"}
        /\ pc'[p][t] = "names" => firstOperation'[p]
        /\ pc'[p][t] \in {"exec_call", "dying"} => pc[p][t] = "names" /\ firstOperation' = firstOperation
        /\ operations'[p] = operations[p] \/ operations'[p] = <<>>
        /\ \A u \in Thread : u # t => pc'[p][u] = pc[p][u]
    <3>1. CASE Save(p, t) \/ SaveFails(p, t)
      BY <3>1 DEF Save, SaveFails, TypeOK, imageVars
    <3>2. CASE Swap(p, t) \/ ResetFirst(p, t) \/ ResetNames(p, t)
      BY <3>2 DEF Swap, ResetFirst, ResetNames, TypeOK
    <3> QED
      BY <1>6, <3>1, <3>2
  <2>2. operations'[p] = <<>>
    BY <1>1, <2>1
  <2> QED
    BY <1>1, <2>1, <2>2
<1> QED
  BY <1>2, <1>3, <1>4, <1>5, <1>6

LEMMA SegKind ==
    ASSUME TypeOK, CoreInv, PlainInv, OldInv, FailInv, AloneInv, SegInv,
           NEW p \in Proc, NEW t \in Thread, Kind(p, t)
    PROVE  SegInv'
<1> SUFFICES ASSUME NEW x \in Proc, ~raced'[x] PROVE SegAt(x)'
  BY DEF SegInv
<1>1. CASE Fork(p, t, x)
  BY <1>1, SegFork
<1>2. CASE (x # p \/ \E q \in Proc : Fork(p, t, q)) /\ ~Fork(p, t, x)
  <2>1. /\ pc'[x] = pc[x] /\ buffer'[x] = buffer[x] /\ operations'[x] = operations[x]
        /\ firstOperation'[x] = firstOperation[x] /\ raced'[x] = raced[x]
        /\ inherited'[x] = inherited[x]
    BY <1>2, OthersKind
  <2> QED
    BY <2>1 DEF SegInv, SegAt
<1>3. CASE x = p /\ ~\E q \in Proc : Fork(p, t, q)
  <2>1. ~raced[p] /\ (LogOperation(p, t) => ~InFlush(p, t))
    BY <1>3, RacedKind
  <2> QED
    BY <1>3, <2>1, SegLog, SegFlush DEF Kind
<1> QED
  BY <1>1, <1>2, <1>3
\* Only a Save changes a file, and it is one of its own process.
LEMMA FilesKind ==
    ASSUME TypeOK, PlainInv, NEW p \in Proc, NEW t \in Thread, Kind(p, t)
    PROVE  \/ files' = files /\ ~Save(p, t)
           \/ /\ Save(p, t) /\ path[p][t][1] = p /\ DOMAIN files' = DOMAIN files \cup {path[p][t]}
              /\ files'[path[p][t]] = FileAt(path[p][t]) \o buffer[p][t]
              /\ \A g \in DOMAIN files : g # path[p][t] => files'[g] = files[g]
<1>1. CASE ~Save(p, t)
  <2>1. CASE Gone(p, t)
    BY <1>1, <2>1, GoneEffect
  <2>2. CASE ~Gone(p, t)
    BY <1>1, <2>2 DEF Kind, Calls, Acquire, LogOperation, FlushPath, Drain, SaveFails, Swap,
                      ResetFirst, ResetNames, ThreadStarts, Fork
  <2> QED
    BY <1>1, <2>1, <2>2
<1>2. CASE Save(p, t)
  <2> DEFINE f == path[p][t]
             evs == buffer[p][t]
  <2>1. f \in Path /\ evs \in Seq(Operation) /\ f[1] = p
    BY DEF TypeOK, PlainInv, PathInv
  <2>2. files' = Written(f, evs)
    BY <1>2 DEF Save
  <2> HIDE DEF f, evs
  <2>3. /\ DOMAIN files' = DOMAIN files \cup {f}
        /\ files'[f] = FileAt(f) \o evs
        /\ \A g \in DOMAIN files \ {f} : files'[g] = files[g]
    BY <2>1, <2>2, WrittenType
  <2>4. \A g \in DOMAIN files : g # f => files'[g] = files[g]
    BY <2>3
  <2> QED
    BY <1>2, <2>1, <2>3, <2>4 DEF f, evs
<1> QED
  BY <1>1, <1>2

\* A save changes no other file.
LEMMA SaveKeepsOthers ==
    ASSUME TypeOK, PlainInv, NEW p \in Proc, NEW t \in Thread, Save(p, t)
    PROVE  \A g \in DOMAIN files : g # path[p][t] => files'[g] = files[g]
<1>1. Kind(p, t)
  BY DEF Kind
<1>2. \/ files' = files /\ ~Save(p, t)
      \/ /\ Save(p, t) /\ path[p][t][1] = p /\ DOMAIN files' = DOMAIN files \cup {path[p][t]}
         /\ files'[path[p][t]] = FileAt(path[p][t]) \o buffer[p][t]
         /\ \A g \in DOMAIN files : g # path[p][t] => files'[g] = files[g]
  BY <1>1, FilesKind
<1> QED
  BY ONLY <1>2, Save(p, t)

\* A save appends to its file.
LEMMA SaveAppends ==
    ASSUME TypeOK, PlainInv, NEW p \in Proc, NEW t \in Thread, Save(p, t)
    PROVE  files'[path[p][t]] = FileAt(path[p][t]) \o buffer[p][t]
<1>1. Kind(p, t)
  BY DEF Kind
<1>2. \/ files' = files /\ ~Save(p, t)
      \/ /\ Save(p, t) /\ path[p][t][1] = p /\ DOMAIN files' = DOMAIN files \cup {path[p][t]}
         /\ files'[path[p][t]] = FileAt(path[p][t]) \o buffer[p][t]
         /\ \A g \in DOMAIN files : g # path[p][t] => files'[g] = files[g]
  BY <1>1, FilesKind
<1> QED
  BY ONLY <1>2, Save(p, t)

\* The files after a save are those before it and its own.
LEMMA SaveDomain ==
    ASSUME TypeOK, PlainInv, NEW p \in Proc, NEW t \in Thread, Save(p, t)
    PROVE  DOMAIN files' = DOMAIN files \cup {path[p][t]}
<1>1. Kind(p, t)
  BY DEF Kind
<1>2. \/ files' = files /\ ~Save(p, t)
      \/ /\ Save(p, t) /\ path[p][t][1] = p /\ DOMAIN files' = DOMAIN files \cup {path[p][t]}
         /\ files'[path[p][t]] = FileAt(path[p][t]) \o buffer[p][t]
         /\ \A g \in DOMAIN files : g # path[p][t] => files'[g] = files[g]
  BY <1>1, FilesKind
<1> QED
  BY ONLY <1>2, Save(p, t)

LEMMA NewFile ==
    ASSUME TypeOK, PlainInv, NEW p \in Proc, NEW t \in Thread, Kind(p, t), NEW f \in DOMAIN files'
    PROVE  /\ f \in DOMAIN files \/ (f = path[p][t] /\ Save(p, t) /\ f[1] = p)
           /\ f \in Path /\ f[1] \in Proc
<1>1. CASE files' = files
  <2>1. f \in DOMAIN files
    BY <1>1
  <2> QED
    BY <2>1 DEF TypeOK, Path
<1>2. CASE Save(p, t) /\ path[p][t][1] = p /\ DOMAIN files' = DOMAIN files \cup {path[p][t]}
  <2>1. f \in DOMAIN files \/ f = path[p][t]
    BY <1>2
  <2>2. f \in Path
    BY <2>1 DEF TypeOK
  <2> QED
    BY <1>2, <2>1, <2>2 DEF Path
<1> QED
  BY <1>1, <1>2, FilesKind

\* NameInv, for the files and for the flushes of one process.
Naming(p, u) == pc[p][u] \in {"swap_lock", "swap", "first", "names"}
NamedAt(f, p) == /\ f[2] <= nodename[p]
                 /\ f[2] < nodename[p] \/ \E t \in Thread : Naming(p, t)

LEMMA NamedFiles ==
    ASSUME TypeOK, CoreInv, PlainInv, NameInv, NEW p \in Proc, NEW t \in Thread, Kind(p, t),
           ~raced[p], ~\E q \in Proc : Fork(p, t, q), status'[p] = "running", ~raced'[p],
           NEW f \in DOMAIN files', f[1] = p
    PROVE  NamedAt(f, p)'
<1>1. status[p] = "running"
  <2>1. CASE Gone(p, t)
    BY <2>1, GoneEffect
  <2>2. CASE ~Gone(p, t)
    BY <2>2 DEF Kind, Calls, Acquire, LogOperation, FlushPath, Drain, Save, SaveFails, Swap,
                ResetFirst, ResetNames, ThreadStarts
  <2> QED
    BY <2>1, <2>2
<1>2. f \in DOMAIN files => NamedAt(f, p)
  BY <1>1 DEF NameInv, NamedAt, Naming
<1>3. /\ f \in Path /\ f[2] \in Nat /\ nodename[p] \in Nat
  <2>1. f \in Path
    BY NewFile
  <2> QED
    BY <2>1 DEF TypeOK, Path
<1>4. CASE Save(p, t)
  <2>1. /\ pc[p][t] = "save" /\ pc'[p][t] = "swap_lock" /\ nodename' = nodename
    BY <1>4 DEF Save, At, Goto, TypeOK, imageVars
  <2>2. path[p][t] = <<p, nodename[p]>>
    BY <2>1 DEF NameInv
  <2>3. f \in DOMAIN files \/ f = path[p][t]
    BY NewFile
  <2>4. f[2] <= nodename[p]
    BY <1>2, <1>3, <2>2, <2>3 DEF NamedAt
  <2> QED
    BY <2>1, <2>4 DEF NamedAt, Naming
<1>5. CASE ~Save(p, t)
  <2>1. f \in DOMAIN files /\ NamedAt(f, p)
    BY <1>2, <1>5, FilesKind
  <2>2. CASE Gone(p, t)
    <3>1. nodename'[p] = nodename[p] + 2
      BY <1>1, <2>2, GoneEffect
    <3> QED
      BY <1>3, <2>1, <3>1 DEF NamedAt
  <2>3. CASE ResetNames(p, t)
    <3>1. nodename'[p] = nodename[p] + 2
      BY <2>3 DEF ResetNames, TypeOK
    <3> QED
      BY <1>3, <2>1, <3>1 DEF NamedAt
  <2>4. CASE \/ Calls(p, t) \/ Acquire(p, t) \/ LogOperation(p, t) \/ FlushPath(p, t)
             \/ Drain(p, t) \/ SaveFails(p, t) \/ Swap(p, t) \/ ResetFirst(p, t)
             \/ ThreadStarts(p, t)
    <3>1. nodename' = nodename
      BY <2>4 DEF Calls, Acquire, LogOperation, FlushPath, Drain, SaveFails, Swap, ResetFirst,
                  ThreadStarts, imageVars
    <3>2. ASSUME NEW u \in Thread, Naming(p, u) PROVE Naming(p, u)'
      <4>1. CASE u = t
        <5>1. \/ Acquire(p, t) /\ pc[p][t] = "swap_lock"
              \/ Swap(p, t) \/ ResetFirst(p, t)
          BY <2>4, <3>2, <4>1
             DEF Calls, Acquire, LockWait, LogOperation, FlushPath, Drain, SaveFails,
                 ThreadStarts, At, Naming
        <5> QED
          BY <4>1, <5>1 DEF Acquire, Swap, ResetFirst, At, Goto, TypeOK, Naming
      <4>2. CASE u # t
        BY <2>4, <3>2, <4>2
           DEF Calls, Stamp, Acquire, LogOperation, FlushPath, Drain, SaveFails, Swap, ResetFirst,
               ThreadStarts, Goto, TypeOK, Naming
      <4> QED
        BY <4>1, <4>2
    <3> QED
      BY <2>1, <3>1, <3>2 DEF NamedAt
  <2> QED
    BY <1>5, <2>2, <2>3, <2>4 DEF Kind
<1> QED
  BY <1>4, <1>5

LEMMA NamedFlush ==
    ASSUME TypeOK, AloneInv, NameInv, NEW p \in Proc, NEW t \in Thread, Kind(p, t),
           ~raced[p], ~\E q \in Proc : Fork(p, t, q),
           NEW u \in Thread, pc'[p][u] \in {"drain_lock", "drain", "save"}
    PROVE  path'[p][u] = <<p, nodename'[p]>>
<1>1. CASE FlushPath(p, t) /\ u = t
  <2>1. pc[p][t] = "path" /\ \A v \in Thread \ {t} : ~At(p, v, "names")
    BY <1>1 DEF FlushPath, At, AloneInv, FlushPhases
  <2>2. PICK n \in {nodename[p]} \cup
               (IF \E v \in Thread \ {t} : At(p, v, "names") THEN {nodename[p] + 1} ELSE {}) :
            path' = [path EXCEPT ![p][t] = <<p, n>>]
    BY <1>1 DEF FlushPath
  <2>3. n = nodename[p]
    BY <2>1, <2>2
  <2> QED
    BY <1>1, <2>2, <2>3 DEF FlushPath, TypeOK, imageVars
<1>2. CASE Gone(p, t)
  <2>1. pc'[p][u] \in {"none", "idle"}
    BY <1>2, GoneEffect
  <2> QED
    BY <2>1
<1>3. CASE ResetNames(p, t)
  <2>1. pc[p][t] = "names" /\ u # t /\ pc[p][u] = pc'[p][u]
    BY <1>3 DEF ResetNames, At, Goto, TypeOK
  <2> QED
    BY <2>1 DEF AloneInv, FlushPhases
<1>4. CASE FlushPath(p, t) /\ u # t
  <2>1. path'[p][u] = path[p][u] /\ pc'[p][u] = pc[p][u] /\ nodename' = nodename
    BY <1>4 DEF FlushPath, Goto, TypeOK, imageVars
  <2> QED
    BY <2>1 DEF NameInv
<1>5. CASE \/ Calls(p, t) \/ Acquire(p, t) \/ LogOperation(p, t) \/ Drain(p, t) \/ Save(p, t)
           \/ SaveFails(p, t) \/ Swap(p, t) \/ ResetFirst(p, t) \/ ThreadStarts(p, t)
  <2>1. path' = path /\ nodename' = nodename
    BY <1>5 DEF Calls, Acquire, LogOperation, Drain, Save, SaveFails, Swap, ResetFirst,
                ThreadStarts, imageVars
  <2>2. pc[p][u] \in {"drain_lock", "drain", "save"}
    <3>1. CASE u # t
      BY <1>5, <3>1 DEF Calls, Stamp, Acquire, LogOperation, Drain, Save, SaveFails, Swap,
                        ResetFirst, ThreadStarts, Goto, TypeOK
    <3>2. CASE u = t /\ Acquire(p, t)
      BY <3>2 DEF Acquire, LockWait, At, Goto, TypeOK
    <3>3. CASE u = t /\ ~Acquire(p, t)
      BY <1>5, <3>3 DEF Calls, Stamp, LogOperation, Drain, Save, SaveFails, Swap,
                        ResetFirst, ThreadStarts, At, Goto, TypeOK
    <3> QED
      BY <3>1, <3>2, <3>3
  <2> QED
    BY <2>1, <2>2 DEF NameInv
<1> QED
  BY <1>1, <1>2, <1>3, <1>4, <1>5 DEF Kind

LEMMA NameKind ==
    ASSUME TypeOK, CoreInv, PlainInv, AloneInv, NameInv,
           NEW p \in Proc, NEW t \in Thread, Kind(p, t)
    PROVE  NameInv'
<1> DEFINE Own(x) == x = p /\ ~\E q \in Proc : Fork(p, t, q)
<1>1. ASSUME NEW f \in DOMAIN files', ~raced'[f[1]], status'[f[1]] = "running"
      PROVE  NamedAt(f, f[1])'
  <2> DEFINE x == f[1]
  <2>1. x \in Proc /\ (f \in DOMAIN files \/ (x = p /\ Save(p, t)))
    <3>1. f[1] \in Proc /\ (f \in DOMAIN files \/ (f[1] = p /\ Save(p, t)))
      BY NewFile
    <3> QED
      BY <3>1
  <2> HIDE DEF x
  <2>2. ~Fork(p, t, x)
    <3>1. Fork(p, t, x) => status[x] = "unborn" /\ ~Save(p, t)
      BY DEF Fork, Save, At
    <3> QED
      BY <2>1, <3>1 DEF PlainInv, PathInv, x
  <2>3. ~raced[x]
    BY <1>1, <2>1, <2>2, RacedKind DEF x
  <2>4. CASE Own(x)
    BY <1>1, <2>3, <2>4, NamedFiles DEF x
  <2>5. CASE ~Own(x)
    <3>1. pc'[x] = pc[x] /\ nodename'[x] = nodename[x] /\ status'[x] = status[x]
      BY <2>1, <2>2, <2>5, OthersKind
    <3>2. f \in DOMAIN files
      BY <2>1, <2>5 DEF Fork, Save, At
    <3> QED
      BY <1>1, <2>3, <3>1, <3>2 DEF NameInv, NamedAt, Naming, x
  <2> QED
    BY <2>4, <2>5 DEF x
<1>2. ASSUME NEW x \in Proc, NEW u \in Thread, ~raced'[x],
             pc'[x][u] \in {"drain_lock", "drain", "save"}
      PROVE  path'[x][u] = <<x, nodename'[x]>>
  <2>1. ~Fork(p, t, x)
    <3>1. Fork(p, t, x) => pc'[x][u] \in {"none", "idle"}
      BY ForkedThreads
    <3> QED
      BY <1>2, <3>1
  <2>2. ~raced[x]
    BY <1>2, <2>1, RacedKind
  <2>3. CASE Own(x)
    BY <1>2, <2>2, <2>3, NamedFlush
  <2>4. CASE ~Own(x)
    <3>1. pc'[x] = pc[x] /\ nodename'[x] = nodename[x] /\ path'[x] = path[x]
      BY <2>1, <2>4, OthersKind
    <3> QED
      BY <1>2, <2>2, <3>1 DEF NameInv
  <2> QED
    BY <2>3, <2>4
<1> QED
  BY <1>1, <1>2 DEF NameInv, NamedAt, Naming
\* A flush that overlaps no call writes what it drained to a file of its own.
LEMMA FreshFile ==
    ASSUME TypeOK, CoreInv, PlainInv, AloneInv, NameInv,
           NEW p \in Proc, NEW t \in Thread, Save(p, t), ~raced[p]
    PROVE  path[p][t] = <<p, nodename[p]>> /\ path[p][t] \notin DOMAIN files
<1>1. pc[p][t] = "save" /\ path[p][t] = <<p, nodename[p]>>
  BY DEF Save, At, NameInv
<1>2. status[p] = "running"
  BY <1>1 DEF TypeOK, CoreInv, UnbornInv, PlainInv, DeadInv
<1>3. ASSUME path[p][t] \in DOMAIN files PROVE FALSE
  <2> DEFINE f == path[p][t]
  <2>1. f[1] = p /\ f[2] = nodename[p] /\ nodename[p] \in Nat /\ f \in DOMAIN files
    BY <1>1, <1>3 DEF TypeOK
  <2> HIDE DEF f
  <2>2. PICK u \in Thread : pc[p][u] \in {"swap_lock", "swap", "first", "names"}
    BY <1>2, <2>1 DEF NameInv
  <2> QED
    BY <1>1, <2>2 DEF AloneInv, FlushPhases
<1> QED
  BY <1>1, <1>3

LEMMA SavedFile ==
    ASSUME TypeOK, CoreInv, PlainInv, AloneInv, NameInv,
           NEW p \in Proc, NEW t \in Thread, Save(p, t), ~raced[p]
    PROVE  files'[path[p][t]] = buffer[p][t]
<1>1. path[p][t] \notin DOMAIN files
  BY FreshFile
<1>2. files'[path[p][t]] = FileAt(path[p][t]) \o buffer[p][t]
  BY SaveAppends
<1>3. FileAt(path[p][t]) = <<>>
  BY <1>1 DEF FileAt
<1>4. buffer[p][t] \in Seq(Operation)
  BY DEF TypeOK
<1> QED
  BY <1>2, <1>3, <1>4, EmptyConcat

\* A file that was there before, of a process that is not forked in the step.
LEMMA OldFile ==
    ASSUME TypeOK, CoreInv, PlainInv, AloneInv, NameInv,
           NEW p \in Proc, NEW t \in Thread, Kind(p, t), NEW f \in DOMAIN files, ~raced'[f[1]]
    PROVE  /\ f \in DOMAIN files' /\ f[1] \in Proc /\ ~Fork(p, t, f[1]) /\ ~raced[f[1]]
           /\ files'[f] = files[f] /\ inherited'[f[1]] = inherited[f[1]]
<1>1. f[1] \in Proc
  BY DEF TypeOK, Path
<1>2. ~Fork(p, t, f[1])
  BY DEF Fork, PlainInv, PathInv
<1>3. ~raced[f[1]]
  BY <1>1, <1>2, RacedKind
<1>4. inherited'[f[1]] = inherited[f[1]]
  <2>1. CASE f[1] # p \/ \E q \in Proc : Fork(p, t, q)
    BY <1>1, <1>2, <2>1, OthersKind
  <2>2. CASE ~\E q \in Proc : Fork(p, t, q)
    <3>1. CASE Gone(p, t)
      BY <3>1, GoneEffect
    <3>2. CASE ~Gone(p, t)
      BY <2>2, <3>2 DEF Kind, Calls, Acquire, LogOperation, FlushPath, Drain, Save, SaveFails,
                        Swap, ResetFirst, ResetNames, ThreadStarts, observers
    <3> QED
      BY <3>1, <3>2
  <2> QED
    BY <2>1, <2>2
<1>5. f \in DOMAIN files' /\ files'[f] = files[f]
  <2>1. CASE files' = files
    BY <2>1
  <2>2. CASE Save(p, t) /\ f[1] = p
    <3>1. path[p][t] \notin DOMAIN files
      BY <1>3, <2>2, FreshFile
    <3>2. f # path[p][t]
      BY <3>1
    <3>3. f \in DOMAIN files'
      BY <2>2, FilesKind
    <3>4. \A g \in DOMAIN files : g # path[p][t] => files'[g] = files[g]
      BY <2>2, SaveKeepsOthers
    <3> QED
      BY <3>2, <3>3, <3>4
  <2>3. CASE Save(p, t) /\ f[1] # p
    <3>1. path[p][t][1] = p
      BY DEF PlainInv, PathInv
    <3>2. f \in DOMAIN files' /\ f # path[p][t]
      BY <2>3, <3>1, SaveDomain
    <3> QED
      BY <2>3, <3>2, SaveKeepsOthers
  <2>4. files' = files \/ Save(p, t)
    BY FilesKind
  <2> QED
    BY ONLY <2>1, <2>2, <2>3, <2>4
<1> QED
  BY <1>1, <1>2, <1>3, <1>4, <1>5

LEMMA FileKind ==
    ASSUME TypeOK, CoreInv, PlainInv, AloneInv, SegInv, NameInv, FileInv,
           NEW p \in Proc, NEW t \in Thread, Kind(p, t)
    PROVE  FileInv'
<1> SUFFICES ASSUME NEW f \in DOMAIN files', ~raced'[f[1]]
             PROVE  Begun(files'[f], f[1], inherited'[f[1]]) /\ Closed(files'[f])
  BY DEF FileInv
<1>1. CASE f \in DOMAIN files
  <2>1. ~raced[f[1]] /\ files'[f] = files[f] /\ inherited'[f[1]] = inherited[f[1]]
    BY <1>1, OldFile
  <2> QED
    BY <1>1, <2>1 DEF FileInv
<1>2. CASE f \notin DOMAIN files
  <2>1. f = path[p][t] /\ Save(p, t) /\ f[1] = p
    BY <1>2, NewFile
  <2>2. ~Fork(p, t, p) /\ inherited' = inherited
    BY <2>1 DEF Save, Fork, At, observers
  <2>3. ~raced[p]
    BY <2>1, <2>2, RacedKind
  <2>4. files'[f] = buffer[p][t]
    BY <2>1, <2>3, SavedFile
  <2>5. Begun(buffer[p][t], p, inherited[p]) /\ Closed(buffer[p][t])
    BY <2>1, <2>3 DEF Save, At, SegInv, SegAt
  <2> QED
    BY <2>1, <2>2, <2>4, <2>5
<1> QED
  BY <1>1, <1>2

SegmentInv == OrderedInv /\ QueueInv /\ FailInv /\ AloneInv /\ SegInv /\ NameInv /\ FileInv

LEMMA SegmentInit == Init => SegmentInv
<1> SUFFICES ASSUME Init PROVE SegmentInv
  OBVIOUS
<1>1. OrderedInv
  BY OrderedInit
<1>2. QueueInv
  BY InitInv DEF IInv
<1>3. /\ DOMAIN files = {} /\ \A p \in Proc : firstOperation[p] /\ operations[p] = <<>>
      /\ \A p \in Proc, t \in Thread : pc[p][t] \in {"none", "idle"}
  BY DEF Init
<1>4. FailInv /\ AloneInv /\ SegInv /\ NameInv /\ FileInv
  BY <1>3 DEF FailInv, Calling, AloneInv, SegInv, SegAt, AfterDrain, FlushPhases, NameInv, FileInv
<1> QED
  BY <1>1, <1>2, <1>4 DEF SegmentInv

LEMMA SegmentNext == SegmentInv /\ [Next]_vars => SegmentInv'
<1> SUFFICES ASSUME SegmentInv, [Next]_vars PROVE SegmentInv'
  OBVIOUS
<1>1. OrderedInv' /\ QueueInv'
  BY OrderedNext, QueueNext DEF SegmentInv, OrderedInv
<1>2. CASE UNCHANGED vars
  <2>1. FailInv' /\ AloneInv' /\ SegInv' /\ NameInv' /\ FileInv'
    BY <1>2 DEF SegmentInv, FailInv, Calling, AloneInv, SegInv, SegAt, NameInv, FileInv,
                vars, threadVars, imageVars, observers
  <2> QED
    BY <1>1, <2>1 DEF SegmentInv
<1>3. CASE Next
  <2>1. PICK p \in Proc, t \in Thread : Kind(p, t)
    BY <1>3, StepKinds DEF SegmentInv, OrderedInv
  <2>2. FailInv' /\ AloneInv' /\ SegInv' /\ NameInv' /\ FileInv'
    BY <2>1, FailKind, AloneKind, SegKind, NameKind, FileKind DEF SegmentInv, OrderedInv
  <2> QED
    BY <1>1, <2>2 DEF SegmentInv
<1> QED
  BY <1>2, <1>3

\* Every .jsonl file is one segment, from START to EXEC or END, unless a call of
\* its image overlapped a flush.
THEOREM FilesStaySegments == Spec => []FilesAreSegments
<1>1. SegmentInv => FilesAreSegments
  <2> SUFFICES ASSUME SegmentInv, NEW f \in DOMAIN files, ~raced[f[1]]
               PROVE  IsSegment(files[f], f[1])
    BY DEF FilesAreSegments
  <2> QED
    BY DEF SegmentInv, FileInv, Begun, Closed, IsSegment
<1> QED
  BY <1>1, SegmentInit, SegmentNext, PTL DEF Spec
-----------------------------------------------------------------------------
(* Where no call overlaps a flush, a process that exits has saved all it logged. *)

LEMMA OrderedDistinct ==
    ASSUME NEW s \in Seq(Operation), Ordered(s) PROVE Distinct(s)
<1> SUFFICES ASSUME NEW i \in 1..Len(s), NEW j \in 1..Len(s), s[i] = s[j] PROVE i = j
  BY DEF Distinct
<1>1. s[i].ts \in Nat
  <2>1. s[i] \in Operation
    OBVIOUS
  <2> QED
    BY <2>1 DEF Operation
<1>2. ~(i < j) /\ ~(j < i)
  BY <1>1 DEF Ordered
<1> QED
  BY <1>2

\* What UniqueInv says of the files of one process.
UniqueAt(p) ==
    /\ \A t \in Thread : Distinct(buffer[p][t])
    /\ \A f \in OwnFiles(p) :
        /\ Distinct(files[f])
        /\ Events(files[f]) \cap Events(operations[p]) = {}
        /\ \A t \in Thread : Events(files[f]) \cap Events(buffer[p][t]) = {}
        /\ \A g \in OwnFiles(p) : f # g => Events(files[f]) \cap Events(files[g]) = {}

\* A step that saves nothing and brings nothing new to the process.
LEMMA UniqueShrinks ==
    ASSUME NEW p \in Proc, UniqueAt(p), OwnFiles(p)' = OwnFiles(p),
           \A f \in OwnFiles(p) : files'[f] = files[f],
           \A t \in Thread : Distinct(buffer'[p][t]),
           \A f \in OwnFiles(p) : Events(files[f]) \cap Events(operations'[p]) = {},
           \A f \in OwnFiles(p) : \A t \in Thread :
                Events(files[f]) \cap Events(buffer'[p][t]) = {}
    PROVE  UniqueAt(p)'
  BY DEF UniqueAt

LEMMA UniqueSave ==
    ASSUME TypeOK, CoreInv, PlainInv, AloneInv, SegInv, NameInv, UniqueInv,
           NEW p \in Proc, NEW t \in Thread, Save(p, t), ~raced[p]
    PROVE  UniqueAt(p)'
<1> DEFINE h == path[p][t]
<1>1. /\ pc[p][t] = "save" /\ operations' = operations
      /\ \A u \in Thread : buffer'[p][u] \in {<<>>, buffer[p][u]}
  BY DEF Save, At, TypeOK, imageVars
<1>2. UniqueAt(p) /\ operations[p] = <<>>
  BY <1>1 DEF UniqueInv, UniqueAt, SegInv, SegAt, AfterDrain
<1>3. \A u \in Thread : buffer'[p][u] = <<>>
  <2>1. ASSUME NEW u \in Thread, u # t PROVE buffer[p][u] = <<>>
    BY <1>1, <2>1 DEF AloneInv, FlushPhases, CoreInv, BufferInv
  <2>2. buffer'[p][t] = <<>>
    BY DEF Save, TypeOK
  <2> QED
    BY <1>1, <2>1, <2>2
<1>4. h \notin DOMAIN files /\ files'[h] = buffer[p][t]
  BY FreshFile, SavedFile
<1>5. \A f \in DOMAIN files : f # h => files'[f] = files[f]
  BY SaveKeepsOthers
<1>6. \A f \in OwnFiles(p)' : f = h \/ f \in OwnFiles(p)
  BY NewFile DEF Kind, OwnFiles
<1> HIDE DEF h
<1>7. \A f \in OwnFiles(p) : f # h /\ files'[f] = files[f]
  BY <1>4, <1>5 DEF OwnFiles
<1>8. Distinct(<<>>)
  BY DEF Distinct
<1>9. ASSUME NEW f \in OwnFiles(p)'
      PROVE  /\ Distinct(files'[f])
             /\ \A g \in OwnFiles(p)' : f # g => Events(files'[f]) \cap Events(files'[g]) = {}
  <2>1. CASE f = h
    BY <1>2, <1>4, <1>6, <1>7, <2>1 DEF UniqueAt
  <2>2. CASE f \in OwnFiles(p)
    BY <1>2, <1>4, <1>6, <1>7, <2>2 DEF UniqueAt
  <2> QED
    BY <1>6, <2>1, <2>2
<1> QED
  BY <1>1, <1>2, <1>3, <1>8, <1>9, EventsEmpty DEF UniqueAt

LEMMA UniqueLog ==
    ASSUME TypeOK, CoreInv, OldInv, NEW p \in Proc, NEW t \in Thread, LogOperation(p, t),
           UniqueAt(p)
    PROVE  UniqueAt(p)'
<1> DEFINE op == pending[p][t]
<1>1. files' = files /\ buffer' = buffer
  BY DEF LogOperation
<1>2. Calling(p, t) /\ op \in Stamped /\ op.tid = t
  BY DEF LogOperation, At, Calling, CoreInv, PendingInv, TypeOK
<1>3. Events(operations'[p]) = Events(operations[p]) \cup Events(Logged(p, op))
  BY LogQueue
<1>4. ASSUME NEW f \in OwnFiles(p), NEW e \in Events(files[f]) PROVE e \notin Events(Logged(p, op))
  <2>1. e \in Held(p)
    BY <1>4, InHeld DEF Held, OwnFiles
  <2>2. e.tid = t => e.ts < op.ts - 1
    BY <1>2, <2>1 DEF OldInv
  <2>3. e \in Events(Logged(p, op)) => e.tid = t /\ e.ts >= op.ts - 1 /\ e.ts \in Nat
    BY <1>2, LoggedOps
  <2>4. op.ts \in Nat
    BY <1>2 DEF Stamped, Operation
  <2> QED
    BY <2>2, <2>3, <2>4
<1> HIDE DEF op
<1>5. \A f \in OwnFiles(p) : Events(files[f]) \cap Events(operations'[p]) = {}
  BY <1>3, <1>4 DEF UniqueAt
<1>6. OwnFiles(p)' = OwnFiles(p)
  BY <1>1 DEF OwnFiles
<1> QED
  BY <1>1, <1>5, <1>6 DEF UniqueAt

LEMMA UniqueFlush ==
    ASSUME TypeOK, CoreInv, OrderInv, UniqueInv, NEW p \in Proc, NEW t \in Thread, ~raced[p],
           \/ Calls(p, t) \/ Acquire(p, t) \/ FlushPath(p, t) \/ Drain(p, t)
           \/ SaveFails(p, t) \/ Swap(p, t) \/ ResetFirst(p, t) \/ ResetNames(p, t)
           \/ Gone(p, t) \/ ThreadStarts(p, t)
    PROVE  UniqueAt(p)'
<1>1. UniqueAt(p)
  BY DEF UniqueInv, UniqueAt
<1>2. files' = files
  <2>1. CASE Gone(p, t)
    BY <2>1, GoneEffect
  <2> QED
    BY <2>1 DEF Calls, Acquire, FlushPath, Drain, SaveFails, Swap, ResetFirst, ResetNames,
                ThreadStarts
<1>3. operations'[p] = operations[p] \/ operations'[p] = <<>>
  <2>1. CASE Gone(p, t)
    BY <2>1, GoneEffect
  <2> QED
    BY <2>1 DEF Calls, Acquire, FlushPath, Drain, SaveFails, Swap, ResetFirst, ResetNames,
                ThreadStarts, TypeOK, imageVars
<1>4. ASSUME NEW u \in Thread
      PROVE  buffer'[p][u] = buffer[p][u] \/ buffer'[p][u] = <<>> \/ buffer'[p][u] = operations[p]
  <2>1. CASE Gone(p, t)
    BY <2>1, GoneEffect
  <2>2. CASE Drain(p, t) \/ SaveFails(p, t)
    BY <2>2 DEF Drain, SaveFails, TypeOK
  <2> QED
    BY <2>1, <2>2 DEF Calls, Acquire, FlushPath, Swap, ResetFirst, ResetNames, ThreadStarts
<1>5. Distinct(<<>>) /\ Distinct(operations[p])
  <2>1. Distinct(operations[p])
    BY OrderedDistinct DEF TypeOK, OrderInv
  <2> QED
    BY <2>1 DEF Distinct
<1>6. OwnFiles(p)' = OwnFiles(p)
  BY <1>2 DEF OwnFiles
<1>7. \A f \in OwnFiles(p) : Events(files[f]) \cap Events(operations'[p]) = {}
  BY <1>1, <1>3, EventsEmpty DEF UniqueAt
<1>8. \A f \in OwnFiles(p) : \A u \in Thread : Events(files[f]) \cap Events(buffer'[p][u]) = {}
  BY <1>1, <1>4, EventsEmpty DEF UniqueAt
<1>9. \A u \in Thread : Distinct(buffer'[p][u])
  BY <1>1, <1>4, <1>5 DEF UniqueAt
<1> QED
  BY <1>1, <1>2, <1>6, <1>7, <1>8, <1>9, UniqueShrinks

LEMMA UniqueKind ==
    ASSUME TypeOK, CoreInv, PlainInv, OldInv, OrderInv, AloneInv, SegInv, NameInv, UniqueInv,
           NEW p \in Proc, NEW t \in Thread, Kind(p, t)
    PROVE  UniqueInv'
<1> SUFFICES ASSUME NEW x \in Proc, ~raced'[x] PROVE UniqueAt(x)'
  BY DEF UniqueInv, UniqueAt
<1>1. CASE Fork(p, t, x)
  <2>1. \A u \in Thread : buffer'[x][u] = <<>>
    BY <1>1, ForkedThreads
  <2>2. OwnFiles(x)' = {}
    BY <1>1 DEF Fork, OwnFiles, PlainInv, PathInv
  <2> QED
    BY <2>1, <2>2 DEF UniqueAt, Distinct
<1>2. CASE (x # p \/ \E q \in Proc : Fork(p, t, q)) /\ ~Fork(p, t, x)
  <2>1. buffer'[x] = buffer[x] /\ operations'[x] = operations[x] /\ raced'[x] = raced[x]
    BY <1>2, OthersKind
  <2>2. UniqueAt(x)
    BY <2>1 DEF UniqueInv, UniqueAt
  <2>3. Save(p, t) => x # p
    BY <1>2 DEF Fork, Save, At
  <2>4. ASSUME NEW f \in OwnFiles(x)' PROVE f \in OwnFiles(x)
    <3>1. f \in DOMAIN files \/ (Save(p, t) /\ f[1] = p)
      BY <2>4, NewFile DEF OwnFiles
    <3> QED
      BY <2>3, <2>4, <3>1 DEF OwnFiles
  <2>5. ASSUME NEW f \in OwnFiles(x) PROVE f \in OwnFiles(x)' /\ files'[f] = files[f]
    <3>1. f \in DOMAIN files /\ f[1] = x
      BY <2>5 DEF OwnFiles
    <3>2. f \in DOMAIN files' /\ files'[f] = files[f]
      BY <3>1, OldFile
    <3> QED
      BY <3>1, <3>2 DEF OwnFiles
  <2>6. OwnFiles(x)' = OwnFiles(x)
    BY <2>4, <2>5
  <2> QED
    BY <2>1, <2>2, <2>5, <2>6 DEF UniqueAt
<1>3. CASE x = p /\ ~\E q \in Proc : Fork(p, t, q)
  <2>1. ~raced[p]
    BY <1>3, RacedKind
  <2>2. UniqueAt(p)
    BY <2>1 DEF UniqueInv, UniqueAt
  <2> QED
    BY <1>3, <2>1, <2>2, UniqueSave, UniqueLog, UniqueFlush DEF Kind
<1> QED
  BY <1>1, <1>2, <1>3
\* What was recorded as lost stays so, and a killed process stays killed.
LEMMA LostKind ==
    ASSUME TypeOK, CoreInv, PlainInv, NEW p \in Proc, NEW t \in Thread, Kind(p, t)
    PROVE  /\ lost \subseteq lost'
           /\ \A x \in Proc : status[x] = "killed" => status'[x] = "killed"
<1>1. CASE Gone(p, t)
  <2>1. lost \subseteq lost'
    BY <1>1 DEF Gone, ImageGone
  <2>2. status[p] # "killed"
    <3>1. pc[p][t] = "none" => status[p] = "running"
      BY <1>1, GoneEffect
    <3> QED
      BY <3>1 DEF PlainInv, DeadInv
  <2>3. \A x \in Proc : x # p => status'[x] = status[x]
    BY <1>1, GoneOthers
  <2> QED
    BY <2>1, <2>2, <2>3
<1>2. CASE \E q \in Proc : Fork(p, t, q)
  BY <1>2 DEF Fork, TypeOK
<1>3. CASE \/ Calls(p, t) \/ Acquire(p, t) \/ LogOperation(p, t) \/ FlushPath(p, t) \/ Drain(p, t)
           \/ Save(p, t) \/ SaveFails(p, t) \/ Swap(p, t) \/ ResetFirst(p, t) \/ ResetNames(p, t)
           \/ ThreadStarts(p, t)
  BY <1>3 DEF Calls, Acquire, LogOperation, FlushPath, Drain, Save, SaveFails, Swap, ResetFirst,
              ResetNames, ThreadStarts, observers
<1> QED
  BY <1>1, <1>2, <1>3 DEF Kind

\* What is in a file stays in it.
LEMMA FileKeeps ==
    ASSUME TypeOK, PlainInv, NEW p \in Proc, NEW t \in Thread, Kind(p, t),
           NEW x, NEW f \in OwnFiles(x), NEW e \in Events(files[f])
    PROVE  \E g \in OwnFiles(x)' : e \in Events(files'[g])
<1>1. f \in DOMAIN files /\ f[1] = x
  BY DEF OwnFiles
<1>2. CASE files' = files
  BY <1>2 DEF OwnFiles
<1>3. CASE Save(p, t)
  <2>1. f \in DOMAIN files'
    BY <1>1, <1>3, FilesKind
  <2>2. CASE f # path[p][t]
    <3>1. \A g \in DOMAIN files : g # path[p][t] => files'[g] = files[g]
      BY <1>3, SaveKeepsOthers
    <3> QED
      BY <1>1, <2>1, <2>2, <3>1 DEF OwnFiles
  <2>3. CASE f = path[p][t]
    <3>1. files'[f] = FileAt(f) \o buffer[p][t]
      BY <1>3, <2>3, FilesKind
    <3>2. FileAt(f) = files[f] /\ files[f] \in Seq(Operation) /\ buffer[p][t] \in Seq(Operation)
      BY <1>1 DEF FileAt, TypeOK
    <3>3. Events(files'[f]) = Events(files[f]) \cup Events(buffer[p][t])
      BY <3>1, <3>2, EventsConcat
    <3> QED
      BY <1>1, <2>1, <3>3 DEF OwnFiles
  <2> QED
    BY <2>2, <2>3
<1> QED
  BY <1>2, <1>3, FilesKind

\* The image of p ends with nothing in it, when it ends by a flush.
LEMMA GoneEmpty ==
    ASSUME TypeOK, CoreInv, AloneInv, SegInv, NEW p \in Proc, NEW t \in Thread,
           Gone(p, t), ~raced'[p], status'[p] # "killed"
    PROVE  operations[p] = <<>> /\ \A u \in Thread : buffer[p][u] = <<>>
<1>1. pc[p][t] \in {"dying", "exec_call"} /\ ~raced[p]
  BY GoneEffect
<1>2. operations[p] = <<>>
  BY <1>1 DEF SegInv, SegAt, AfterDrain
<1>3. \A u \in Thread : pc[p][u] # "save"
  BY <1>1 DEF AloneInv, FlushPhases
<1> QED
  BY <1>2, <1>3 DEF CoreInv, BufferInv

\* What was placed in the process before the step.
LEMMA PlacedOld ==
    ASSUME TypeOK, CoreInv, PlainInv, AloneInv, SegInv, NEW p \in Proc, NEW t \in Thread,
           Kind(p, t), NEW x \in Proc, NEW e, ~raced'[x], status'[x] # "killed", Placed(e, x)
    PROVE  Placed(e, x)'
<1>1. ASSUME NEW f \in OwnFiles(x), e \in Events(files[f]) PROVE Placed(e, x)'
  BY <1>1, FileKeeps DEF Placed
<1>2. ASSUME NEW l \in lost, l.event = e, l.why = "save" PROVE Placed(e, x)'
  BY <1>2, LostKind DEF Placed
<1>3. CASE Fork(p, t, x)
  <2>1. status[x] = "unborn" /\ operations[x] = <<>> /\ OwnFiles(x) = {}
    BY <1>3 DEF Fork, CoreInv, UnbornInv, PlainInv, PathInv, OwnFiles
  <2>2. \A u \in Thread : buffer[x][u] = <<>>
    BY <2>1 DEF CoreInv, UnbornInv, BufferInv
  <2> QED
    BY <1>2, <2>1, <2>2, EventsEmpty DEF Placed
<1>4. CASE (x # p \/ \E q \in Proc : Fork(p, t, q)) /\ ~Fork(p, t, x)
  <2>1. buffer'[x] = buffer[x] /\ operations'[x] = operations[x]
    BY <1>4, OthersKind
  <2> QED
    BY <1>1, <1>2, <2>1 DEF Placed
<1>5. CASE x = p /\ ~(\E q \in Proc : Fork(p, t, q))
  <2>1. ~raced[p]
    BY <1>5, RacedKind
  <2>2. CASE e \in Events(operations[p])
    <3>1. CASE LogOperation(p, t)
      <4>1. e \in Events(operations'[p])
        BY <2>2, <3>1, LogQueue
      <4> QED
        BY <1>5, <4>1 DEF Placed
    <3>2. CASE Drain(p, t)
      <4>1. buffer'[p][t] = operations[p]
        BY <3>2 DEF Drain, TypeOK
      <4> QED
        BY <1>5, <2>2, <4>1 DEF Placed
    <3>3. CASE Swap(p, t)
      <4>1. operations[p] = <<>>
        BY <2>1, <3>3 DEF Swap, At, SegInv, SegAt, AfterDrain
      <4> QED
        BY <2>2, <4>1, EventsEmpty
    <3>4. CASE Gone(p, t)
      <4>1. operations[p] = <<>>
        BY <1>5, <3>4, GoneEmpty
      <4> QED
        BY <2>2, <4>1, EventsEmpty
    <3>5. CASE \/ Calls(p, t) \/ Acquire(p, t) \/ FlushPath(p, t) \/ Save(p, t)
               \/ SaveFails(p, t) \/ ResetFirst(p, t) \/ ResetNames(p, t) \/ ThreadStarts(p, t)
      <4>1. operations' = operations
        BY <3>5 DEF Calls, Acquire, FlushPath, Save, SaveFails, ResetFirst, ResetNames,
                    ThreadStarts, imageVars
      <4> QED
        BY <1>5, <2>2, <4>1 DEF Placed
    <3> QED
      BY <1>5, <3>1, <3>2, <3>3, <3>4, <3>5 DEF Kind
  <2>3. ASSUME NEW u \in Thread, e \in Events(buffer[p][u]) PROVE Placed(e, x)'
    <3>1. pc[p][u] = "save"
      BY <2>3, EventsEmpty DEF CoreInv, BufferInv
    <3>2. CASE u = t /\ Save(p, t)
      <4> DEFINE f == path[p][t]
      <4>1. f \in DOMAIN files' /\ f[1] = p /\ files'[f] = FileAt(f) \o buffer[p][t]
        <5>1. Save(p, t)
          BY <3>2
        <5>2. DOMAIN files' = DOMAIN files \cup {path[p][t]}
          BY <5>1, SaveDomain
        <5>3. f[1] = p
          BY DEF PlainInv, PathInv
        <5>4. files'[f] = FileAt(f) \o buffer[p][t]
          BY <5>1, SaveAppends
        <5> QED
          BY <5>2, <5>3, <5>4
      <4>2. FileAt(f) \in Seq(Operation) /\ buffer[p][t] \in Seq(Operation)
        BY DEF FileAt, TypeOK
      <4>3. Events(files'[f]) = Events(FileAt(f)) \cup Events(buffer[p][t])
        BY <4>1, <4>2, EventsConcat
      <4>4. f \in OwnFiles(p)' /\ e \in Events(files'[f])
        BY <2>3, <3>2, <4>1, <4>3 DEF OwnFiles
      <4> QED
        BY <1>5, <4>4 DEF Placed
    <3>3. CASE u = t /\ SaveFails(p, t)
      <4>1. lost' = lost \cup Discard(Events(buffer[p][t]), t, "save")
        BY <3>3 DEF SaveFails
      <4>2. [event |-> e, by |-> t, why |-> "save"] \in lost'
        BY <2>3, <3>3, <4>1 DEF Discard
      <4> QED
        BY <4>2 DEF Placed
    <3>4. CASE Gone(p, t)
      <4>1. buffer[p][u] = <<>>
        BY <1>5, <3>4, GoneEmpty
      <4> QED
        BY <2>3, <4>1, EventsEmpty
    <3>5. CASE ~(u = t /\ (Save(p, t) \/ SaveFails(p, t))) /\ ~Gone(p, t)
      <4>1. buffer'[p][u] = buffer[p][u]
        BY <1>5, <3>1, <3>5
           DEF Kind, Calls, Acquire, LogOperation, FlushPath, Drain, Save, SaveFails, Swap,
               ResetFirst, ResetNames, ThreadStarts, TypeOK, At
      <4> QED
        BY <1>5, <2>3, <4>1 DEF Placed
    <3> QED
      BY <3>2, <3>3, <3>4, <3>5
  <2> QED
    BY <1>1, <1>2, <1>5, <2>2, <2>3 DEF Placed
<1> QED
  BY <1>3, <1>4, <1>5
LEMMA PlacedKind ==
    ASSUME TypeOK, CoreInv, PlainInv, AloneInv, SegInv, PlacedInv, TypeOK',
           NEW p \in Proc, NEW t \in Thread, Kind(p, t)
    PROVE  PlacedInv'
<1> SUFFICES ASSUME NEW e \in pushed', ~raced'[e.pid], status'[e.pid] # "killed"
             PROVE  Placed(e, e.pid)'
  BY DEF PlacedInv
<1> DEFINE x == e.pid
<1>1. x \in Proc
  BY DEF TypeOK, Operation
<1>2. CASE e \in pushed
  <2>1. status[x] # "killed"
    BY <1>1, LostKind
  <2>2. CASE ~raced[x]
    BY <1>1, <1>2, <2>1, <2>2, PlacedOld DEF PlacedInv
  <2>3. CASE raced[x]
    <3>1. Fork(p, t, x)
      BY <1>1, <2>3, RacedKind
    <3> QED
      BY <1>1, <2>3, <3>1 DEF Fork, PlainInv, PathInv
  <2> QED
    BY <2>2, <2>3
<1>3. CASE e \notin pushed
  <2>1. LogOperation(p, t) /\ e = pending[p][t]
    <3>1. CASE Gone(p, t)
      BY <1>3, <3>1, GoneEffect
    <3>2. CASE ~Gone(p, t)
      BY <1>3, <3>2 DEF Kind, Calls, Acquire, LogOperation, FlushPath, Drain, Save, SaveFails,
                        Swap, ResetFirst, ResetNames, ThreadStarts, Fork, observers
    <3> QED
      BY <3>1, <3>2
  <2>2. e.pid = p /\ e \in Events(operations'[p])
    BY <2>1, LogQueue
  <2> QED
    BY <2>2 DEF Placed
<1> QED
  BY <1>2, <1>3
CompleteInv == SegmentInv /\ UniqueInv /\ PlacedInv

LEMMA CompleteInit == Init => CompleteInv
<1> SUFFICES ASSUME Init PROVE CompleteInv
  OBVIOUS
<1>1. SegmentInv
  BY SegmentInit
<1>2. UniqueInv /\ PlacedInv
  BY DEF Init, UniqueInv, OwnFiles, Distinct, PlacedInv
<1> QED
  BY <1>1, <1>2 DEF CompleteInv

LEMMA CompleteNext == CompleteInv /\ [Next]_vars => CompleteInv'
<1> SUFFICES ASSUME CompleteInv, [Next]_vars PROVE CompleteInv'
  OBVIOUS
<1>1. SegmentInv' /\ TypeOK'
  BY SegmentNext, NextType DEF CompleteInv, SegmentInv, OrderedInv
<1>2. CASE UNCHANGED vars
  <2>1. UniqueInv' /\ PlacedInv'
    BY <1>2 DEF CompleteInv, UniqueInv, OwnFiles, PlacedInv, Placed,
                vars, threadVars, imageVars, observers
  <2> QED
    BY <1>1, <2>1 DEF CompleteInv
<1>3. CASE Next
  <2>1. PICK p \in Proc, t \in Thread : Kind(p, t)
    BY <1>3, StepKinds DEF CompleteInv, SegmentInv, OrderedInv
  <2>2. UniqueInv' /\ PlacedInv'
    BY <1>1, <2>1, UniqueKind, PlacedKind DEF CompleteInv, SegmentInv, OrderedInv
  <2> QED
    BY <1>1, <2>2 DEF CompleteInv
<1> QED
  BY <1>2, <1>3

LEMMA OneCopy ==
    ASSUME TypeOK, UniqueInv, NEW p \in Proc, ~raced[p], NEW f \in OwnFiles(p),
           NEW e \in Events(files[f])
    PROVE  Cardinality(Copies(p, e)) = 1
<1>1. PICK i \in 1..Len(files[f]) : files[f][i] = e
  BY DEF Events
<1>2. f \in DOMAIN files /\ f[1] = p
  BY DEF OwnFiles
<1>3. <<f, i>> \in Copies(p, e)
  <2>1. i \in {j \in 1..Len(files[f]) : files[f][j] = e}
    BY <1>1
  <2>2. <<f, i>> \in {<<f, j>> : j \in {k \in 1..Len(files[f]) : files[f][k] = e}}
    BY <2>1
  <2>3. f \in {g \in DOMAIN files : g[1] = p}
    BY <1>2
  <2> QED
    BY <2>2, <2>3 DEF Copies
<1>4. ASSUME NEW c \in Copies(p, e) PROVE c = <<f, i>>
  <2>1. PICK g \in {h \in DOMAIN files : h[1] = p} :
            c \in {<<g, j>> : j \in {k \in 1..Len(files[g]) : files[g][k] = e}}
    BY <1>4 DEF Copies
  <2>2. PICK j \in 1..Len(files[g]) : files[g][j] = e /\ c = <<g, j>>
    BY <2>1
  <2>3. g \in OwnFiles(p) /\ e \in Events(files[g])
    BY <2>1, <2>2 DEF OwnFiles, Events
  <2>4. g = f
    BY <2>3 DEF UniqueInv
  <2>5. Distinct(files[f])
    BY DEF UniqueInv
  <2>6. j = i
    BY <1>1, <2>2, <2>4, <2>5 DEF Distinct
  <2> QED
    BY <2>2, <2>4, <2>6
<1>5. Copies(p, e) = {<<f, i>>}
  BY <1>3, <1>4
<1> QED
  BY <1>5, FS_Singleton

\* A process that exits has every Operation it logged exactly once in its own
\* files, unless a call overlapped a flush or a file did not open.
THEOREM ExitedStayComplete == Spec => []ExitedIsComplete
<1>1. CompleteInv => ExitedIsComplete
  <2> SUFFICES ASSUME CompleteInv, NEW p \in Proc, status[p] = "exited", ~raced[p],
                      NEW e \in pushed, e.pid = p
               PROVE  \/ Cardinality(Copies(p, e)) = 1
                      \/ \E l \in lost : l.event = e /\ l.why = "save"
    BY DEF ExitedIsComplete
  <2>1. TypeOK /\ CoreInv /\ PlainInv /\ UniqueInv
    BY DEF CompleteInv, SegmentInv, OrderedInv
  <2>2. Placed(e, p)
    BY DEF CompleteInv, PlacedInv
  <2>3. operations[p] = <<>> /\ \A t \in Thread : buffer[p][t] = <<>>
    BY <2>1 DEF PlainInv, DeadInv, CoreInv, BufferInv
  <2>4. (\E f \in OwnFiles(p) : e \in Events(files[f]))
        \/ \E l \in lost : l.event = e /\ l.why = "save"
    BY <2>2, <2>3, EventsEmpty DEF Placed
  <2> QED
    BY <2>1, <2>4, OneCopy
<1> QED
  BY <1>1, CompleteInit, CompleteNext, PTL DEF Spec
=============================================================================
