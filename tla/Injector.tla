------------------------------ MODULE Injector ------------------------------
(***************************************************************************)
(* The LD_PRELOAD library (injector/src/injector.cpp) inside the processes *)
(* of one command.  Every hooked libc call appends an Operation to a queue *)
(* of its process under operations_mutex; _exit, the library destructor    *)
(* and exec drain the queue into a .jsonl file and reset the statics.      *)
(*                                                                         *)
(* A step is the code between two points where another thread of the       *)
(* process can see or change the shared statics.  A time stamp is unique   *)
(* and even and serves as the identity of its Operation; START carries     *)
(* the odd stamp below it.  fork is not hooked: the child is a copy of the *)
(* parent's statics with the calling thread only.                          *)
(***************************************************************************)
EXTENDS Naturals, Sequences, FiniteSets

CONSTANTS Proc,         \* process slots; a slot is the pid
          Root,         \* the process the command starts as
          Thread,       \* thread slots of a process
          Main,         \* the thread every image starts with
          OpKinds,      \* the kinds of hooked calls the program makes
          Free,         \* operations_mutex is unlocked
          Orphan,       \* operations_mutex is locked by a thread that a fork left behind
          MaxClock,     \* bound: Operations stamped in a behaviour
          KillAllowed,  \* a process may die by a signal
          SaveMayFail   \* open of the .jsonl file may fail

ASSUME InjectorAssumption ==
    /\ Root \in Proc
    /\ Main \in Thread
    /\ {Free, Orphan} \cap Thread = {} /\ Free # Orphan
    /\ OpKinds \subseteq {"WRITE", "TRANSFER", "READ", "RENAME", "UNLINK"}
    /\ MaxClock \in Nat
    /\ {KillAllowed, SaveMayFail} \subseteq BOOLEAN

VARIABLES status,            \* of a process: unborn, running, exited, killed
          pc,                \* where each thread is; "none": no such thread
          cont,              \* what the thread's log call was made for
          pending,           \* the Operation the thread has stamped
          path,              \* prov_save_data.path_write of the thread's flush
          buffer,            \* prov_save_data.all_events of the thread's flush
          operations,        \* static std::queue<Operation> operations
          mutex,             \* owner of operations_mutex
          firstOperation,    \* static bool first_operation
          afterFailedExecv,  \* static atomic_bool after_failed_execv
          nodename,          \* static std::string nodename: even; odd is a torn read
          provFlushed,       \* static std::atomic<int> prov_flushed
          files,             \* path -> events, the .jsonl files of PROV_PATH_WRITE
          clock,             \* stamps handed out
          pushed,            \* observer: every Operation ever queued by a hook
          lost,              \* observer: queued Operations thrown away, by whom and why
          raced,             \* observer: a call overlapped a flush of the same image
          inherited          \* observer: forked while the parent had unsaved Operations

threadVars == <<pc, cont, pending, path, buffer>>
imageVars == <<operations, mutex, firstOperation, afterFailedExecv, nodename, provFlushed>>
observers == <<pushed, lost, raced, inherited>>
vars == <<status, threadVars, imageVars, files, clock, observers>>

Kinds == OpKinds \cup {"START", "END", "EXEC", "EXEC_FAIL"}
\* pid and tid name the caller; the file itself records a pid in START only.
Operation == [kind : Kinds, pid : Proc, tid : Thread, ts : Nat]
Conts == {"return", "exec", "exit", "fini"}
LockWait == {"log_lock", "drain_lock", "swap_lock"}
CriticalSections == {"log", "drain", "swap"}
\* From the end of the log call that starts a flush to the end of the image.
FlushPhases == {"path", "drain_lock", "drain", "save", "swap_lock", "swap",
                "first", "names", "exec_call", "dying"}
Phases == {"none", "idle", "log_lock", "log"} \cup FlushPhases
Path == Proc \X Nat

\* Hooks stamp 2, 4, ...; only START has an odd stamp.
Stamped == {op \in Operation : op.ts >= 2}
NoOp == [kind |-> "END", pid |-> Root, tid |-> Main, ts |-> 2]
Events(s) == {s[i] : i \in 1..Len(s)}
FileAt(f) == IF f \in DOMAIN files THEN files[f] ELSE <<>>
-----------------------------------------------------------------------------
Init ==
    /\ status = [p \in Proc |-> IF p = Root THEN "running" ELSE "unborn"]
    /\ pc = [p \in Proc |-> [t \in Thread |->
                IF p = Root /\ t = Main THEN "idle" ELSE "none"]]
    /\ cont = [p \in Proc |-> [t \in Thread |-> "return"]]
    /\ pending = [p \in Proc |-> [t \in Thread |-> NoOp]]
    /\ path = [p \in Proc |-> [t \in Thread |-> <<p, 0>>]]
    /\ buffer = [p \in Proc |-> [t \in Thread |-> <<>>]]
    /\ operations = [p \in Proc |-> <<>>]
    /\ mutex = [p \in Proc |-> Free]
    /\ firstOperation = [p \in Proc |-> TRUE]
    /\ afterFailedExecv = [p \in Proc |-> FALSE]
    /\ nodename = [p \in Proc |-> 0]
    /\ provFlushed = [p \in Proc |-> FALSE]
    /\ files = [f \in {} |-> <<>>]
    /\ clock = 0
    /\ pushed = {} /\ lost = {}
    /\ raced = [p \in Proc |-> FALSE]
    /\ inherited = [p \in Proc |-> FALSE]

At(p, t, phase) == pc[p][t] = phase
Goto(p, t, phase) == pc' = [pc EXCEPT ![p][t] = phase]
InFlush(p, t) == \E u \in Thread \ {t} : pc[p][u] \in FlushPhases
Discard(evs, t, why) == {[event |-> e, by |-> t, why |-> why] : e \in evs}
-----------------------------------------------------------------------------
(* Logging: now_ns() is read before operations_mutex is taken.             *)

Stamp(p, t, kind, c) ==
    /\ clock < MaxClock
    /\ clock' = clock + 1
    /\ pending' = [pending EXCEPT ![p][t] =
            [kind |-> kind, pid |-> p, tid |-> t, ts |-> 2 * (clock + 1)]]
    /\ cont' = [cont EXCEPT ![p][t] = c]
    /\ Goto(p, t, "log_lock")

\* A hooked call has made the real call, whatever its result, and logs it.
HookedCall(p, t, kind) ==
    /\ kind \in OpKinds
    /\ At(p, t, "idle")
    /\ Stamp(p, t, kind, "return")
    /\ UNCHANGED <<status, path, buffer, imageVars, files, observers>>

WriteHook(p, t) == HookedCall(p, t, "WRITE")
TransferHook(p, t) == HookedCall(p, t, "TRANSFER")
ReadHook(p, t) == HookedCall(p, t, "READ")
RenameHook(p, t) == HookedCall(p, t, "RENAME")
UnlinkHook(p, t) == HookedCall(p, t, "UNLINK")

\* Taking operations_mutex, in log_operation, prepare_save_events, reset_state.
Acquire(p, t) ==
    /\ pc[p][t] \in LockWait
    /\ mutex[p] = Free
    /\ mutex' = [mutex EXCEPT ![p] = t]
    /\ Goto(p, t, CASE At(p, t, "log_lock")   -> "log"
                    [] At(p, t, "drain_lock") -> "drain"
                    [] OTHER                  -> "swap")
    /\ UNCHANGED <<status, cont, pending, path, buffer, operations, firstOperation,
                   afterFailedExecv, nodename, provFlushed, files, clock, observers>>

\* Mutants: no START in the segment after a failed exec; START stamped like the
\* Operation it precedes; START stamped so early that the first one underflows.
LoggedNoRestart(p, op) ==
    IF firstOperation[p] /\ ~afterFailedExecv[p]
    THEN <<[op EXCEPT !.kind = "START", !.ts = @ - 1], op>>
    ELSE <<op>>
LoggedSameStamp(p, op) ==
    IF firstOperation[p] THEN <<[op EXCEPT !.kind = "START"], op>> ELSE <<op>>
LoggedUnderflow(p, op) ==
    IF firstOperation[p]
    THEN <<[op EXCEPT !.kind = "START", !.ts = @ - 3], op>>
    ELSE <<op>>

\* What log_operation appends: START first when no Operation of the segment was logged.
Logged(p, op) ==
    IF firstOperation[p]
    THEN <<[op EXCEPT !.kind = "START", !.ts = @ - 1], op>>
    ELSE <<op>>

LogOperation(p, t) ==
    /\ At(p, t, "log")
    /\ operations' = [operations EXCEPT ![p] = @ \o Logged(p, pending[p][t])]
    /\ firstOperation' = [firstOperation EXCEPT ![p] = FALSE]
    /\ mutex' = [mutex EXCEPT ![p] = Free]
    /\ Goto(p, t, IF cont[p][t] = "return" THEN "idle" ELSE "path")
    /\ pushed' = pushed \cup {pending[p][t]}
    /\ raced' = [raced EXCEPT ![p] = @ \/ InFlush(p, t)]
    /\ UNCHANGED <<status, cont, pending, path, buffer, afterFailedExecv, nodename,
                   provFlushed, files, clock, lost, inherited>>
-----------------------------------------------------------------------------
(* Flushing: run_destructor_code = prepare_save_events, save, reset_state. *)

\* nodename is read without the mutex: while another thread assigns it, the
\* name read may be a third one.
FlushPath(p, t) ==
    /\ At(p, t, "path")
    /\ \E n \in {nodename[p]} \cup
               (IF \E u \in Thread \ {t} : At(p, u, "names") THEN {nodename[p] + 1} ELSE {}) :
            path' = [path EXCEPT ![p][t] = <<p, n>>]
    /\ Goto(p, t, "drain_lock")
    /\ UNCHANGED <<status, cont, pending, buffer, imageVars, files, clock, observers>>

\* Mutants: the loop stops one Operation early; an empty queue returns early
\* and keeps the mutex.
DrainLeavesOne(p, t) ==
    /\ At(p, t, "drain")
    /\ LET n == Len(operations[p]) IN
        /\ buffer' = [buffer EXCEPT ![p][t] = SubSeq(operations[p], 1, n - 1)]
        /\ operations' = [operations EXCEPT ![p] = SubSeq(@, n, n)]
    /\ mutex' = [mutex EXCEPT ![p] = Free]
    /\ Goto(p, t, "save")
    /\ UNCHANGED <<status, cont, pending, path, firstOperation, afterFailedExecv,
                   nodename, provFlushed, files, clock, observers>>
DrainKeepsLock(p, t) ==
    /\ At(p, t, "drain")
    /\ buffer' = [buffer EXCEPT ![p][t] = operations[p]]
    /\ operations' = [operations EXCEPT ![p] = <<>>]
    /\ mutex' = [mutex EXCEPT ![p] = IF operations[p] = <<>> THEN t ELSE Free]
    /\ Goto(p, t, "save")
    /\ UNCHANGED <<status, cont, pending, path, firstOperation, afterFailedExecv,
                   nodename, provFlushed, files, clock, observers>>

Drain(p, t) ==
    /\ At(p, t, "drain")
    /\ buffer' = [buffer EXCEPT ![p][t] = operations[p]]
    /\ operations' = [operations EXCEPT ![p] = <<>>]
    /\ mutex' = [mutex EXCEPT ![p] = Free]
    /\ Goto(p, t, "save")
    /\ UNCHANGED <<status, cont, pending, path, firstOperation, afterFailedExecv,
                   nodename, provFlushed, files, clock, observers>>

\* Mutant: O_TRUNC for O_APPEND.
WrittenTruncates(f, evs) ==
    [g \in DOMAIN files \cup {f} |-> IF g = f THEN evs ELSE files[g]]

\* The file after open(O_WRONLY | O_CREAT | O_APPEND), write, close.
Written(f, evs) ==
    [g \in DOMAIN files \cup {f} |-> IF g = f THEN FileAt(f) \o evs ELSE files[g]]

\* Mutant: append_events_clean expects the file to be there (no O_CREAT).
SaveNoCreate(p, t) ==
    /\ At(p, t, "save")
    /\ files' = IF afterFailedExecv[p] /\ path[p][t] \notin DOMAIN files
                THEN files ELSE Written(path[p][t], buffer[p][t])
    /\ buffer' = [buffer EXCEPT ![p][t] = <<>>]
    /\ Goto(p, t, "swap_lock")
    /\ UNCHANGED <<status, cont, pending, path, imageVars, clock, observers>>

\* save_events_clean and append_events_clean: the same calls; afterFailedExecv
\* chooses between them and nothing else.
Save(p, t) ==
    /\ At(p, t, "save")
    /\ files' = Written(path[p][t], buffer[p][t])
    /\ buffer' = [buffer EXCEPT ![p][t] = <<>>]
    /\ Goto(p, t, "swap_lock")
    /\ UNCHANGED <<status, cont, pending, path, imageVars, clock, observers>>

\* Both return silently when open fails; the events were moved into the call.
SaveFails(p, t) ==
    /\ SaveMayFail
    /\ At(p, t, "save")
    /\ lost' = lost \cup Discard(Events(buffer[p][t]), t, "save")
    /\ buffer' = [buffer EXCEPT ![p][t] = <<>>]
    /\ Goto(p, t, "swap_lock")
    /\ UNCHANGED <<status, cont, pending, path, imageVars, files, clock,
                   pushed, raced, inherited>>

Swap(p, t) ==
    /\ At(p, t, "swap")
    /\ lost' = lost \cup Discard(Events(operations[p]), t, "reset")
    /\ operations' = [operations EXCEPT ![p] = <<>>]
    /\ mutex' = [mutex EXCEPT ![p] = Free]
    /\ Goto(p, t, "first")
    /\ UNCHANGED <<status, cont, pending, path, buffer, firstOperation, afterFailedExecv,
                   nodename, provFlushed, files, clock, pushed, raced, inherited>>

\* The rest of reset_state runs without the mutex.
ResetFirst(p, t) ==
    /\ At(p, t, "first")
    /\ firstOperation' = [firstOperation EXCEPT ![p] = TRUE]
    /\ Goto(p, t, "names")
    /\ UNCHANGED <<status, cont, pending, path, buffer, operations, mutex,
                   afterFailedExecv, nodename, provFlushed, files, clock, observers>>

ResetNames(p, t) ==
    /\ At(p, t, "names")
    /\ afterFailedExecv' = [afterFailedExecv EXCEPT ![p] = FALSE]
    /\ nodename' = [nodename EXCEPT ![p] = @ + 2]
    /\ provFlushed' = [provFlushed EXCEPT ![p] = FALSE]
    /\ Goto(p, t, IF cont[p][t] = "exec" THEN "exec_call" ELSE "dying")
    /\ UNCHANGED <<status, cont, pending, path, buffer, operations, mutex,
                   firstOperation, files, clock, observers>>
-----------------------------------------------------------------------------
(* The end of an image. *)

Unsaved(p) == Events(operations[p]) \cup UNION {Events(buffer[p][t]) : t \in Thread}

\* The image of p is gone, with whatever its queue and its flushes held.
ImageGone(p, t, threads) ==
    /\ pc' = [pc EXCEPT ![p] = threads]
    /\ cont' = [cont EXCEPT ![p] = [u \in Thread |-> "return"]]
    /\ buffer' = [buffer EXCEPT ![p] = [u \in Thread |-> <<>>]]
    /\ operations' = [operations EXCEPT ![p] = <<>>]
    /\ mutex' = [mutex EXCEPT ![p] = Free]
    /\ firstOperation' = [firstOperation EXCEPT ![p] = TRUE]
    /\ afterFailedExecv' = [afterFailedExecv EXCEPT ![p] = FALSE]
    /\ provFlushed' = [provFlushed EXCEPT ![p] = FALSE]
    /\ lost' = lost \cup Discard(Unsaved(p), t, "gone")

Die(p, t, how) ==
    /\ ImageGone(p, t, [u \in Thread |-> "none"])
    /\ status' = [status EXCEPT ![p] = how]
    /\ UNCHANGED <<pending, path, nodename, files, clock, pushed, inherited>>

\* _exit, _Exit, quick_exit: prov_flush_once wins the compare-exchange ...
ExitHook(p, t) ==
    /\ At(p, t, "idle")
    /\ ~provFlushed[p]
    /\ provFlushed' = [provFlushed EXCEPT ![p] = TRUE]
    /\ Stamp(p, t, "END", "exit")
    /\ UNCHANGED <<status, path, buffer, operations, mutex, firstOperation,
                   afterFailedExecv, nodename, files, observers>>

\* ... or loses it to a thread that is still flushing, and the process ends here.
ExitHookAgain(p, t) ==
    /\ At(p, t, "idle")
    /\ provFlushed[p]
    /\ raced' = [raced EXCEPT ![p] = TRUE]
    /\ Die(p, t, "exited")

\* exit or return from main: the destructor preload_fini, run once per image.
Fini(p, t) ==
    /\ At(p, t, "idle")
    /\ \A u \in Thread : cont[p][u] # "fini"
    /\ Stamp(p, t, "END", "fini")
    /\ UNCHANGED <<status, path, buffer, imageVars, files, observers>>

RealExit(p, t) ==
    /\ At(p, t, "dying")
    /\ Die(p, t, "exited")
    /\ UNCHANGED raced

Kill(p) ==
    /\ KillAllowed
    /\ status[p] = "running"
    /\ Die(p, Main, "killed")
    /\ UNCHANGED raced
-----------------------------------------------------------------------------
(* exec and fork. *)

ExecHook(p, t) ==
    /\ At(p, t, "idle")
    /\ Stamp(p, t, "EXEC", "exec")
    /\ UNCHANGED <<status, path, buffer, imageVars, files, observers>>

\* A new image of the same process: fresh statics, the main thread alone.
ExecSucceeds(p, t) ==
    /\ At(p, t, "exec_call")
    /\ ImageGone(p, t, [u \in Thread |-> IF u = Main THEN "idle" ELSE "none"])
    /\ nodename' = [nodename EXCEPT ![p] = @ + 2]
    /\ UNCHANGED <<status, pending, path, files, clock, pushed, raced, inherited>>

\* The real call returned: set_after_failed_execv_true, log_exec_fail, return -1.
ExecFails(p, t) ==
    /\ At(p, t, "exec_call")
    /\ afterFailedExecv' = [afterFailedExecv EXCEPT ![p] = TRUE]
    /\ Stamp(p, t, "EXEC_FAIL", "return")
    /\ UNCHANGED <<status, path, buffer, operations, mutex, firstOperation,
                   nodename, provFlushed, files, observers>>

\* The child keeps the queue, the flags, the name and the mutex as they are.
Fork(p, t, q) ==
    /\ At(p, t, "idle")
    /\ status[q] = "unborn"
    /\ status' = [status EXCEPT ![q] = "running"]
    /\ pc' = [pc EXCEPT ![q][t] = "idle"]
    /\ operations' = [operations EXCEPT ![q] = operations[p]]
    /\ mutex' = [mutex EXCEPT ![q] = IF mutex[p] = Free THEN Free ELSE Orphan]
    /\ firstOperation' = [firstOperation EXCEPT ![q] = firstOperation[p]]
    /\ afterFailedExecv' = [afterFailedExecv EXCEPT ![q] = afterFailedExecv[p]]
    /\ nodename' = [nodename EXCEPT ![q] = nodename[p]]
    /\ provFlushed' = [provFlushed EXCEPT ![q] = provFlushed[p]]
    /\ raced' = [raced EXCEPT ![q] = raced[p] \/ InFlush(p, t)]
    /\ inherited' = [inherited EXCEPT ![q] = operations[p] # <<>>]
    /\ UNCHANGED <<cont, pending, path, buffer, files, clock, pushed, lost>>

ThreadStarts(p, t) ==
    /\ status[p] = "running"
    /\ At(p, t, "none")
    /\ Goto(p, t, "idle")
    /\ UNCHANGED <<status, cont, pending, path, buffer, imageVars, files, clock, observers>>
-----------------------------------------------------------------------------
(* What a thread does once it has entered the library; the rest is the
   program's choice. *)
LibraryStep(p, t) ==
    \/ Acquire(p, t)    \/ LogOperation(p, t)
    \/ FlushPath(p, t)  \/ Drain(p, t)
    \/ Save(p, t)       \/ SaveFails(p, t)
    \/ Swap(p, t)       \/ ResetFirst(p, t)  \/ ResetNames(p, t)
    \/ RealExit(p, t)   \/ ExecSucceeds(p, t) \/ ExecFails(p, t)

ProgramStep(p, t) ==
    \/ WriteHook(p, t)  \/ TransferHook(p, t)  \/ ReadHook(p, t)
    \/ RenameHook(p, t) \/ UnlinkHook(p, t)
    \/ ExecHook(p, t)   \/ ExitHook(p, t)      \/ ExitHookAgain(p, t)
    \/ Fini(p, t)       \/ ThreadStarts(p, t)
    \/ \E q \in Proc : Fork(p, t, q)

Next == \E p \in Proc :
            \/ \E t \in Thread : LibraryStep(p, t) \/ ProgramStep(p, t)
            \/ Kill(p)

Spec == Init /\ [][Next]_vars

\* The kernel runs every runnable thread; nothing obliges a program to make calls.
Fairness == \A p \in Proc, t \in Thread : WF_vars(LibraryStep(p, t))
FairSpec == Spec /\ Fairness
-----------------------------------------------------------------------------
TypeOK ==
    /\ status \in [Proc -> {"unborn", "running", "exited", "killed"}]
    /\ pc \in [Proc -> [Thread -> Phases]]
    /\ cont \in [Proc -> [Thread -> Conts]]
    /\ pending \in [Proc -> [Thread -> Stamped]]
    /\ path \in [Proc -> [Thread -> Path]]
    /\ buffer \in [Proc -> [Thread -> Seq(Operation)]]
    /\ operations \in [Proc -> Seq(Operation)]
    /\ mutex \in [Proc -> Thread \cup {Free, Orphan}]
    /\ firstOperation \in [Proc -> BOOLEAN]
    /\ afterFailedExecv \in [Proc -> BOOLEAN]
    /\ nodename \in [Proc -> Nat]
    /\ provFlushed \in [Proc -> BOOLEAN]
    /\ DOMAIN files \subseteq Path
    /\ \A f \in DOMAIN files : files[f] \in Seq(Operation)
    /\ clock \in Nat
    /\ pushed \subseteq Operation
    /\ lost \subseteq [event : Operation, by : Thread, why : {"save", "reset", "gone"}]
    /\ raced \in [Proc -> BOOLEAN]
    /\ inherited \in [Proc -> BOOLEAN]

InFiles(e) == \E f \in DOMAIN files : e \in Events(files[f])

(* When a thread has finished a flush, every Operation it logged is in a   *)
(* file, or another thread holds it in its own flush or threw it away, or  *)
(* its own open failed: reset_state's swap never discards the flusher's    *)
(* own Operations (prepare_save_events has drained them before).           *)
FlushCoversOwnEvents ==
    \A p \in Proc, t \in Thread : \A e \in pushed :
        (pc[p][t] \in {"dying", "exec_call"} /\ e.pid = p /\ e.tid = t) =>
            \/ InFiles(e)
            \/ \E u \in Thread \ {t} : e \in Events(buffer[p][u])
            \/ \E l \in lost : l.event = e /\ (l.by # t \/ l.why # "reset")

(* What init_processing relies on: a .jsonl file is one segment, START     *)
(* first and only there, EXEC or END last and only there, an EXEC_FAIL     *)
(* before all else its thread logged; START is stamped before every        *)
(* Operation of the thread that logged it (another thread may have stamped *)
(* earlier), and it carries the file's own pid unless the process was      *)
(* forked with Operations pending.  Holds unless a call overlapped a flush.*)
IsSegment(s, p) ==
    /\ Len(s) >= 2
    /\ s[1].kind = "START" /\ (inherited[p] \/ s[1].pid = p)
    /\ s[Len(s)].kind \in {"EXEC", "END"}
    /\ \A i \in 2..Len(s) :
        s[i].kind # "START" /\ (s[i].tid = s[1].tid => s[i].ts > s[1].ts)
    /\ \A i \in 1..Len(s) - 1 : s[i].kind \notin {"EXEC", "END"}
    /\ \A i, j \in 2..Len(s) :
        (s[i].kind = "EXEC_FAIL" /\ s[j].tid = s[i].tid) => i <= j

FilesAreSegments ==
    \A f \in DOMAIN files : raced[f[1]] \/ IsSegment(files[f], f[1])

\* The places of e in the files of p.
Copies(p, e) ==
    UNION {{<<f, i>> : i \in {j \in 1..Len(files[f]) : files[f][j] = e}} :
                f \in {g \in DOMAIN files : g[1] = p}}

(* A process that ended by exit, and in which no call overlapped a flush,  *)
(* has each Operation it logged exactly once in its own files.             *)
ExitedIsComplete ==
    \A p \in Proc : (status[p] = "exited" /\ ~raced[p]) =>
        \A e \in {x \in pushed : x.pid = p} :
            \/ Cardinality(Copies(p, e)) = 1
            \/ \E l \in lost : l.event = e /\ l.why = "save"

(* The queue holds the Operations of one thread in the order of its calls, *)
(* although threads stamp before they lock.                                *)
QueueKeepsThreadOrder ==
    \A p \in Proc : \A i, j \in 1..Len(operations[p]) :
        (i < j /\ operations[p][i].tid = operations[p][j].tid)
            => operations[p][i].ts < operations[p][j].ts

FilesGrow ==
    \A f \in DOMAIN files :
        /\ f \in DOMAIN files'
        /\ Len(files[f]) <= Len(files'[f])
        /\ SubSeq(files'[f], 1, Len(files[f])) = files[f]

(* What was saved stays saved, whatever flush of whatever image follows.   *)
SavedStaySaved == [][FilesGrow]_vars

(* Every hooked call returns or ends its process, except in a child forked *)
(* while another thread of the parent held operations_mutex.               *)
CallsReturn ==
    \A p \in Proc, t \in Thread :
        pc[p][t] \notin {"none", "idle"} ~> (pc[p][t] \in {"none", "idle"} \/ mutex[p] = Orphan)
=============================================================================
