------------------------------ MODULE Processor ------------------------------
(***************************************************************************)
(* injector/src/processor.cpp: what `prov exec` makes of the event files   *)
(* of its command.  Files are read in any order, every event gets the id   *)
(* (command line and environment) of the START of its file, the events are *)
(* sorted by time, and a fold over them yields the operations of each      *)
(* process id on each path, the renames and the processes that executed    *)
(* another.                                                                *)
(*                                                                         *)
(* An event is a record: op, ts and the payload of its kind.  Every file   *)
(* has a START (Injector's FilesAreSegments); a file without one leaves    *)
(* pid and start_time uninitialized in the code and is left out.           *)
(***************************************************************************)
EXTENDS Naturals, Sequences, SequencesExt, FiniteSets, TLC

\* "" in the code.
NoChecksum == "none"
\* Operations: no flag set and no checksum.
NoOperations == [read |-> FALSE, write |-> FALSE, deleted |-> FALSE, start |-> NoChecksum]
\* Process: named once log_process_start has filled it in.
NoProcess == [named |-> FALSE, operation_map |-> << >>]

At(map, key, default) == IF key \in DOMAIN map THEN map[key] ELSE default
With(map, key, value) == [k \in DOMAIN map \cup {key} |-> IF k = key THEN value ELSE map[k]]
Without(map, key) == Restrict(map, DOMAIN map \ {key})
-----------------------------------------------------------------------------
\* init_processing: one LinuxProcess per file.
StartOf(file) == file[SelectInSeq(file, LAMBDA e : e.op = "START")]

\* Mutant: a process that executes another has no end.
EndOnly(file) ==
    LET last == SelectLastInSeq(file, LAMBDA e : e.op = "END")
    IN IF last = 0 THEN 0 ELSE file[last].ts

EndTime(file) ==
    LET last == SelectLastInSeq(file, LAMBDA e : e.op \in {"END", "EXEC"})
    IN IF last = 0 THEN 0 ELSE file[last].ts

LinuxProcess(file) ==
    [pid |-> StartOf(file).pid, ppid |-> StartOf(file).ppid,
     start_time |-> StartOf(file).ts, end_time |-> EndTime(file),
     process_id |-> StartOf(file).id]

LinuxProcesses(events_by_file) ==
    [i \in DOMAIN events_by_file |-> LinuxProcess(events_by_file[i])]

\* event.process_id and, of an EXEC, ExecCall{pid} are those of the START.
Labelled(file, e) ==
    [process_id |-> StartOf(file).id, file_pid |-> StartOf(file).pid, event |-> e]

\* combine_events: an event is at a place, <<file, index>>.
Places(events_by_file) ==
    UNION {{i} \X DOMAIN events_by_file[i] : i \in DOMAIN events_by_file}

\* sort_events: of a set of places, the last.  std::sort leaves the order of equal
\* stamps open; only the copies of an event that fork made have the same, and
\* for them it makes no difference.
NotAfter(events_by_file, x, y) ==
    LET ts(z) == events_by_file[z[1]][z[2]].ts
    IN \/ ts(x) < ts(y)
       \/ ts(x) = ts(y) /\ (x[1] < y[1] \/ (x[1] = y[1] /\ x[2] <= y[2]))

LastOf(events_by_file, places) ==
    CHOOSE x \in places : \A y \in places : NotAfter(events_by_file, y, x)

-----------------------------------------------------------------------------
\* process_events: the loop over the events.
Nothing == [process_map |-> << >>, rename_map |-> << >>, seen_files |-> {},
            enqueued_execs |-> << >>, undefined |-> FALSE]

WithProcess(data, id, process) ==
    [data EXCEPT !.process_map = With(@, id, process)]

log_process_start(data, id) ==
    IF id \in DOMAIN data.process_map THEN data
    ELSE WithProcess(data, id, [NoProcess EXCEPT !.named = TRUE])

log_operation(data, path, id, op_type, checksum) ==
    LET process == At(data.process_map, id, NoProcess)
        old == At(process.operation_map, path, NoOperations)
        new == [read |-> old.read \/ op_type = "READ",
                write |-> old.write \/ op_type = "WRITE",
                deleted |-> old.deleted \/ op_type = "UNLINK",
                start |-> IF checksum = NoChecksum THEN old.start ELSE checksum]
    IN WithProcess(data, id, [process EXCEPT !.operation_map = With(@, path, new)])

\* Mutants: a rename does not move operations; it copies them.
MovedNothing(map, original_path, new_path) == map
MovedCopy(map, original_path, new_path) ==
    IF original_path \in DOMAIN map
    THEN With(map, new_path, map[original_path]) ELSE map

\* The entry of original_path moves to new_path; onto itself it is erased.
Moved(map, original_path, new_path) ==
    IF original_path \in DOMAIN map
    THEN Without(With(map, new_path, map[original_path]), original_path)
    ELSE map

MovedAll(process_map, original_path, new_path) ==
    [id \in DOMAIN process_map |->
        [process_map[id] EXCEPT !.operation_map = Moved(@, original_path, new_path)]]

\* Mutant: a second rename starts from the path the first one led to.
log_rename_once(data, original_path, new_path) ==
    [data EXCEPT
        !.rename_map = With(@, new_path, original_path),
        !.process_map = MovedAll(@, original_path, new_path)]

log_rename(data, original_path, new_path) ==
    [data EXCEPT
        !.rename_map = IF original_path \in DOMAIN @
                       THEN Moved(@, original_path, new_path)
                       ELSE With(@, new_path, original_path),
        !.process_map = MovedAll(@, original_path, new_path)]

\* Mutant: renames are not looked up.
get_checksum_by_path(data, originals, path) ==
    IF path \in data.seen_files THEN NoChecksum ELSE At(originals, path, NoChecksum)

\* get_checksum: of the path the file had first, and only the first time.
get_checksum(data, originals, path) ==
    LET resolved == At(data.rename_map, path, path)
    IN IF resolved \in data.seen_files THEN NoChecksum
       ELSE At(originals, resolved, NoChecksum)

Seen(data, path) ==
    [data EXCEPT !.seen_files = @ \cup {At(data.rename_map, path, path)}]

Accessed(data, originals, path, id, op_type) ==
    log_operation(Seen(data, path), path, id, op_type, get_checksum(data, originals, path))

\* Mutant: one EXEC per id, not a stack of them.
PushOver(data, labelled) ==
    [data EXCEPT !.enqueued_execs = With(@, labelled.process_id, <<labelled>>)]

PushExec(data, labelled) ==
    [data EXCEPT !.enqueued_execs =
        With(@, labelled.process_id, Append(At(@, labelled.process_id, << >>), labelled))]

\* pop() of the stack of the process id, whichever process pushed its top; of an
\* empty one it is undefined.
PopExec(data, id) ==
    IF At(data.enqueued_execs, id, << >>) = << >> THEN [data EXCEPT !.undefined = TRUE]
    ELSE [data EXCEPT !.enqueued_execs = With(@, id, Front(@[id]))]

Processed(data, originals, labelled) ==
    LET e == labelled.event
        id == labelled.process_id
    IN CASE e.op = "START" -> log_process_start(data, id)
         [] e.op \in {"READ", "WRITE", "UNLINK"} -> Accessed(data, originals, e.path, id, e.op)
         [] e.op = "TRANSFER" ->
                log_operation(Accessed(data, originals, e.from, id, "READ"),
                              e.to, id, "WRITE", NoChecksum)
         [] e.op = "RENAME" -> log_rename(data, e.from, e.to)
         [] e.op = "EXEC" -> PushExec(data, labelled)
         [] e.op = "EXEC_FAIL" -> PopExec(data, id)
         [] OTHER -> data

ProcessedData(events_by_file, originals) ==
    MapThenFoldSet(LAMBDA labelled, data : Processed(data, originals, labelled), Nothing,
                   LAMBDA x : Labelled(events_by_file[x[1]], events_by_file[x[1]][x[2]]),
                   LAMBDA places : LastOf(events_by_file, places),
                   Places(events_by_file))
-----------------------------------------------------------------------------
\* Mutant: the parent need not be there first.
EndsLater(l, child) == l.end_time > child.end_time

\* resolve_forks: the parent is the first process with the parent's pid that
\* ran before and after.  "visited" are the pids its loop gets to.
IsParent(l, child) == l.start_time < child.start_time /\ l.end_time > child.end_time

resolve_forks(processes, visited) ==
    LET children == {i \in DOMAIN processes : processes[i].pid \in visited}
        ParentOf(i) == SelectInSeq(processes,
            LAMBDA l : l.pid = processes[i].ppid /\ IsParent(l, processes[i]))
    IN {<<processes[ParentOf(i)].process_id, processes[i].process_id>> :
            i \in {j \in children : ParentOf(j) # 0}}

\* The loop looks parents up with operator[], which inserts unknown pids into
\* the map it iterates over; when the map then rehashes, the pids that come
\* later may be passed over.
Visits(processes, Thresholds) ==
    LET pids == {processes[i].pid : i \in DOMAIN processes}
        inserted == {processes[i].ppid : i \in DOMAIN processes} \ pids
        rehashes == \E n \in Thresholds : Cardinality(pids) <= n /\ n < Cardinality(pids \cup inserted)
    IN IF rehashes THEN {v \in SUBSET pids : v # {} /\ \E i \in DOMAIN processes :
                                processes[i].pid \in v /\ processes[i].ppid \in inserted}
       ELSE {pids}

\* Of a set of processes, the one that started first.
First(processes) == {l \in processes : \A m \in processes : l.start_time <= m.start_time}

\* Mutant: the first process of the pid with another id.
resolve_exec_first(labelled, processes) ==
    LET others == {l \in ToSet(processes) :
                       l.pid = labelled.file_pid /\ l.process_id # labelled.process_id}
    IN {<<labelled.process_id, l.process_id>> : l \in First(others)}

\* resolve_exec, sort_linux_processes: the next process of the pid with another id.
resolve_exec(labelled, processes) ==
    LET later == {l \in ToSet(processes) :
                      /\ l.pid = labelled.file_pid
                      /\ l.process_id # labelled.process_id
                      /\ l.start_time > labelled.event.ts}
    IN {<<labelled.process_id, l.process_id>> : l \in First(later)}

resolve_execs(enqueued_execs, processes) ==
    UNION {UNION {resolve_exec(enqueued_execs[id][i], processes) :
                      i \in DOMAIN enqueued_execs[id]} : id \in DOMAIN enqueued_execs}

\* execute_set_map as a set of pairs.
ExecuteSet(events_by_file, visited) ==
    LET processes == LinuxProcesses(events_by_file)
    IN resolve_forks(processes, visited)
       \cup resolve_execs(ProcessedData(events_by_file, << >>).enqueued_execs, processes)
=============================================================================
