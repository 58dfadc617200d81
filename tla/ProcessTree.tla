----------------------------- MODULE ProcessTree -----------------------------
(***************************************************************************)
(* Processes that fork, exec, fail to exec and end under the injector, the *)
(* files it saves of them, and the pairs <<process, process it executed>>  *)
(* Processor finds in these files (resolve_forks, resolve_execs), against  *)
(* the processes there were.                                               *)
(*                                                                         *)
(* A segment is what one flush saves: START, other events, END or EXEC.    *)
(* START is stamped at the first Operation of a segment, not when the      *)
(* process begins; and a fork copies the queue, so the child of a process  *)
(* that had a START goes on under the pid of its parent.  The child of a   *)
(* vfork has no queue of its own: until it execs or ends it logs into, and *)
(* saves, that of its parent, who waits.                                   *)
(***************************************************************************)
EXTENDS Processor

CONSTANTS Pid,        \* pids; none is used twice
          Root,       \* the shell that prov starts
          Outside,    \* the pid of prov, and of whom orphans are given to
          Id,         \* command lines with environments
          RootId,     \* that of the shell
          Thresholds, \* numbers of pids at which linux_process_map rehashes
          KillAllowed,\* a process may be killed
          SetenvAllowed, \* a process may change its environment
          VforkAllowed,  \* a process may vfork
          EveryOrder, \* look at the files in every order, not in two
          MaxEvents   \* bound: stamps

ASSUME ProcessTreeAssumption ==
    /\ Root \in Pid /\ Outside \notin Pid
    /\ RootId \in Id
    /\ Thresholds \subseteq Nat
    /\ {KillAllowed, SetenvAllowed, VforkAllowed, EveryOrder} \subseteq BOOLEAN
    /\ MaxEvents \in Nat

VARIABLES status,   \* of a pid: unborn, running, exec, dead
          id,       \* command line and environment of its image
          parent,   \* pid of its parent; Outside when that is dead
          memory,   \* whose memory it runs on: its own, or after vfork its parent's
          queue,    \* of a memory, the unsaved events
          files,    \* what was saved, in that order: <<segment, events>>
          clock,    \* stamps handed out
          segment,  \* observer: of a pid, the segment it is in
          segments, \* observer: segment -> its pid, id and the segment that forked its process
          descent,  \* observer: ids a process has had, and those it comes from
          descends, \* observer: <<id, id of a process that comes from it>>
          execs,    \* observer: execs that succeeded, from a segment to a segment
          crossed,  \* observer: segments whose exec began while one of the same id was under way
          uneven    \* observer: a process changed its environment after its START,
                    \* or forked with an unsaved EXEC_FAIL

observers == <<segment, segments, descent, descends, execs, crossed, uneven>>
vars == <<status, id, parent, memory, queue, files, clock, observers>>

Init ==
    /\ status = [p \in Pid |-> IF p = Root THEN "running" ELSE "unborn"]
    /\ id = [p \in Pid |-> RootId]
    /\ parent = [p \in Pid |-> Outside]
    /\ memory = [p \in Pid |-> p]
    /\ queue = [p \in Pid |-> << >>]
    /\ files = << >>
    /\ clock = 0
    /\ segment = [p \in Pid |-> 1]
    /\ segments = <<[pid |-> Root, id |-> RootId, forkedBy |-> 0]>>
    /\ descent = [p \in Pid |-> {RootId}]
    /\ descends = {}
    /\ execs = {}
    /\ crossed = {}
    /\ uneven = FALSE
-----------------------------------------------------------------------------
Queue(p) == queue[memory[p]]
WithQueue(p, events) == [queue EXCEPT ![memory[p]] = events]
\* The caller of a vfork waits for the child to exec or to end.
Waits(p) == \E c \in Pid \ {p} : memory[c] = p /\ status[c] \in {"running", "exec"}
Runs(p) == status[p] = "running" /\ ~Waits(p)

\* log_operation: the queue with the event, START first.
Logged(p, op) ==
    LET e == [op |-> op, ts |-> 2 * (clock + 1)]
        start == [op |-> "START", ts |-> e.ts - 1, id |-> id[p], pid |-> p, ppid |-> parent[p]]
    IN IF Queue(p) = << >> THEN <<start, e>> ELSE Append(Queue(p), e)

Tick == clock < MaxEvents /\ clock' = clock + 1

\* Mutant: the event is logged after the flush.
FlushFirst(p, op) ==
    /\ files' = IF Queue(p) = << >> THEN files ELSE Append(files, <<segment[p], Queue(p)>>)
    /\ queue' = WithQueue(p, << >>)

\* run_destructor_code: save the queue and begin a new segment.
Flush(p, op) ==
    /\ files' = Append(files, <<segment[p], Logged(p, op)>>)
    /\ queue' = WithQueue(p, << >>)

NewSegment(p, n, forkedBy) ==
    /\ segments' = Append(segments, [pid |-> p, id |-> n, forkedBy |-> forkedBy])
    /\ segment' = [segment EXCEPT ![p] = Len(segments) + 1]

\* The image of p gets another id: p, and the children it has then, come from it.
Becomes(p, n) ==
    LET others == {p} \cup {c \in Pid : parent[c] = p /\ status[c] # "unborn"} IN
    /\ id' = [id EXCEPT ![p] = n]
    /\ descent' = [q \in Pid |-> IF q \in others THEN descent[q] \cup {n} ELSE descent[q]]
    /\ descends' = descends \cup {<<m, n>> : m \in descent[p]}
                            \cup {<<n, id[c]>> : c \in others \ {p}}

\* Any hooked call that is not about processes.
Call(p) ==
    /\ Runs(p) /\ Queue(p) = << >>
    /\ Tick
    /\ queue' = WithQueue(p, Logged(p, "CALL"))
    /\ UNCHANGED <<status, id, parent, memory, files, observers>>

Begets(p, c) ==
    /\ Runs(p) /\ status[c] = "unborn"
    /\ status' = [status EXCEPT ![c] = "running"]
    /\ id' = [id EXCEPT ![c] = id[p]]
    /\ parent' = [parent EXCEPT ![c] = p]
    /\ NewSegment(c, id[p], segment[p])
    /\ descent' = [descent EXCEPT ![c] = descent[p]]
    /\ descends' = descends \cup {<<n, id[p]>> : n \in descent[p]}
    /\ UNCHANGED <<files, clock, execs, crossed>>

Fork(p, c) ==
    /\ Begets(p, c)
    /\ queue' = [queue EXCEPT ![c] = Queue(p)]
    /\ uneven' = (uneven \/ \E i \in DOMAIN Queue(p) : Queue(p)[i].op = "EXEC_FAIL")
    /\ UNCHANGED memory

\* Bound: the child of a vfork calls neither vfork nor setenv.
Vfork(p, c) ==
    /\ VforkAllowed /\ memory[p] = p
    /\ Begets(p, c)
    /\ memory' = [memory EXCEPT ![c] = p]
    /\ UNCHANGED <<queue, uneven>>

\* START has been stamped in the segment p is in: it is queued, or a child of a
\* vfork has saved it.
Started(p) ==
    \/ queue[p] # << >>
    \/ \E i \in DOMAIN files :
           /\ segments[files[i][1]].forkedBy = segment[p]
           /\ StartOf(files[i][2]).pid = p

\* setenv: environ, and with it the id that the next START will have.
Setenv(p, n) ==
    /\ SetenvAllowed
    /\ Runs(p) /\ memory[p] = p
    /\ n # id[p]
    /\ Becomes(p, n)
    /\ IF Started(p)
       THEN uneven' = TRUE /\ UNCHANGED segments
       ELSE segments' = [segments EXCEPT ![segment[p]].id = n] /\ UNCHANGED uneven
    /\ UNCHANGED <<status, parent, memory, queue, files, clock, segment, execs, crossed>>

\* log_exec and the flush.
ExecHook(p) ==
    /\ Runs(p)
    /\ Tick
    /\ Flush(p, "EXEC")
    /\ status' = [status EXCEPT ![p] = "exec"]
    /\ crossed' = IF \E q \in Pid : status[q] = "exec" /\ id[q] = id[p]
                  THEN crossed \cup {segment[p]} ELSE crossed
    /\ UNCHANGED <<id, parent, memory, segment, segments, descent, descends, execs, uneven>>

\* The real exec, with n = id[p] for a program that starts itself again.
ExecSucceeds(p, n) ==
    /\ status[p] = "exec"
    /\ status' = [status EXCEPT ![p] = "running"]
    /\ Becomes(p, n)
    /\ NewSegment(p, n, segments[segment[p]].forkedBy)
    /\ execs' = execs \cup {[from |-> segment[p], to |-> Len(segments) + 1]}
    /\ memory' = [memory EXCEPT ![p] = p]
    /\ UNCHANGED <<parent, queue, files, clock, crossed, uneven>>

ExecFails(p) ==
    /\ status[p] = "exec"
    /\ Tick
    /\ status' = [status EXCEPT ![p] = "running"]
    /\ queue' = WithQueue(p, Logged(p, "EXEC_FAIL"))
    /\ NewSegment(p, id[p], segments[segment[p]].forkedBy)
    /\ UNCHANGED <<id, parent, memory, files, descent, descends, execs, crossed, uneven>>

\* The end of a process makes orphans of its children.
Dies(p) ==
    /\ status' = [status EXCEPT ![p] = "dead"]
    /\ parent' = [q \in Pid |-> IF parent[q] = p THEN Outside ELSE parent[q]]
    /\ UNCHANGED <<id, memory, observers>>

Exit(p) ==
    /\ Runs(p)
    /\ Tick
    /\ Flush(p, "END")
    /\ Dies(p)

Kill(p) ==
    /\ KillAllowed
    /\ status[p] \in {"running", "exec"}
    /\ Dies(p)
    /\ queue' = IF memory[p] = p /\ ~Waits(p) THEN WithQueue(p, << >>) ELSE queue
    /\ UNCHANGED <<files, clock>>

Next ==
    \E p \in Pid :
        \/ Call(p) \/ ExecHook(p) \/ ExecFails(p) \/ Exit(p) \/ Kill(p)
        \/ \E c \in Pid : Fork(p, c) \/ Vfork(p, c)
        \/ \E n \in Id : ExecSucceeds(p, n) \/ Setenv(p, n)

Spec == Init /\ [][Next]_vars
-----------------------------------------------------------------------------
\* prov looks at the files when the command has ended.
Ended == \A p \in Pid : status[p] \in {"unborn", "dead"}

\* The directory yields the files in any order.  Bound: without EveryOrder two
\* are looked at, that in which they were saved and its reverse.
Orders ==
    LET n == Len(files)
        orders == IF EveryOrder THEN Bijection(1..n, 1..n)
                  ELSE {[i \in 1..n |-> i], [i \in 1..n |-> n - i + 1]}
    IN {[i \in 1..n |-> files[g[i]][2]] : g \in orders}

Saved(s) == \E i \in DOMAIN files : files[i][1] = s
IndexOf(s) == CHOOSE i \in DOMAIN files : files[i][1] = s
FileOf(s) == files[IndexOf(s)][2]
\* The START of the segment is its own: not a copy of that of the process that
\* forked, nor stamped after its environment changed and a child of a vfork had
\* saved the first one.
Own(s) ==
    /\ StartOf(FileOf(s)).pid = segments[s].pid
    /\ StartOf(FileOf(s)).id = segments[s].id

\* Files under the pid of the process that forked s, from before s to after it.
Around(s) ==
    {i \in DOMAIN files :
        /\ i > IndexOf(s)
        /\ StartOf(files[i][2]).pid = segments[segments[s].forkedBy].pid
        /\ StartOf(files[i][2]).ts < StartOf(FileOf(s)).ts}

\* The process that forked s was, in one segment of its own, heard of before s
\* and saved after it, and no child of it with the id of an earlier image was
\* then still recorded under its pid.
Outlived(s) ==
    LET q == segments[s].forkedBy IN
    /\ q # 0 /\ Saved(q) /\ Own(q)
    /\ IndexOf(q) \in Around(s)
    /\ \A i \in Around(s) : StartOf(files[i][2]).id = segments[q].id

\* Every pair found is of a process and one that comes from it: an image of the
\* same process, of a process it forked, or of a child of a process that took
\* this id while the child was there.
PairsAreTrue == Ended =>
    \A f \in Orders : \A visited \in Visits(LinuxProcesses(f), Thresholds) :
        ExecuteSet(f, visited) \subseteq descends

\* A program that executed another, of which a file was saved with a START of its
\* own, is found to have done so, if the program's own START was its own too and
\* no exec of the same id was under way, or if the process that forked it had the
\* program's id and outlived it, and the loop over the pids does not pass over its
\* pid.
ExecsAreFound == Ended =>
    \A f \in Orders : \A visited \in Visits(LinuxProcesses(f), Thresholds) :
        \A x \in execs :
            LET from == segments[x.from]
                to == segments[x.to]
            IN /\ Saved(x.to) /\ Own(x.to)
               /\ from.id # to.id
               /\ \/ Own(x.from) /\ x.from \notin crossed /\ ~uneven
                  \/ Outlived(x.to) /\ segments[to.forkedBy].id = from.id /\ to.pid \in visited
               => <<from.id, to.id>> \in ExecuteSet(f, visited)

\* While no process has changed its environment after START was queued, and none
\* has forked with an EXEC_FAIL in its queue (which is then there twice), every
\* EXEC_FAIL finds an EXEC on the stack of its id: pop() of an empty one is
\* undefined, and the whole exec may be lost.
PopsArePushed == Ended =>
    uneven \/ ~ProcessedData([i \in DOMAIN files |-> files[i][2]], << >>).undefined
=============================================================================
