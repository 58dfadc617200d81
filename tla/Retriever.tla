------------------------------- MODULE Retriever -------------------------------
(***************************************************************************)
(* What a job records of its files and what the retriever rebuilds from    *)
(* it.  Each `prov exec` hashes the files under its path, runs a command   *)
(* whose calls process_events turns into operations with checksums         *)
(* (Processor), adds the checksums the written files have at the end, and  *)
(* posts; the receiver merges the operations of its processes path by path *)
(* (fetch_job_operations); the retriever derives from all execs of the job *)
(* what was on each path before the first exec or after any of them, and   *)
(* copies the artifacts there (db_interface/src/retriever).                *)
(*                                                                         *)
(* Contents stand for their checksum, and execs are numbered as they post. *)
(* The calls of a command are stamped and queued in the order they are     *)
(* made; FileHistory has the other orders, and ArtifactStore the steps in  *)
(* which artifacts are stored.                                             *)
(***************************************************************************)
EXTENDS Processor, FiniteSetsExt

CONSTANTS Exec,         \* the `prov exec` of a job
          Id,           \* processes of its commands
          Path,         \* paths
          Root,         \* those under the path of the execs
          Above,        \* path -> the paths its directory stands on
          Bare,         \* names without a directory, which only calls by name log
          ByText,       \* the contents of files, in the order of their checksums
          FirstContent, \* what the files hold at first
          Kinds,        \* the calls the programs make
          MaxCalls      \* bound: calls in a behaviour, those of other programs included

Content == ToSet(ByText)
\* No file; sha256_file gives "" then.
Absent == NoChecksum

ASSUME RetrieverAssumption ==
    /\ Root \subseteq Path /\ Bare \subseteq Path \ Root
    /\ Above \in [Path -> SUBSET Path]
    /\ \A path \in Path : path \notin Above[path]
    /\ ByText \in Seq(Content) /\ Absent \notin Content
    /\ FirstContent \in [Path -> Content \cup {Absent}]
    /\ \A path \in Path, q \in Path :
           q \in Above[path] => FirstContent[path] = Absent \/ FirstContent[q] = Absent
    /\ Kinds \subseteq {"READ", "WRITE", "UNLINK", "RENAME", "TRANSFER"}
    /\ MaxCalls \in Nat

VARIABLES workspace, \* path -> contents
          phase,     \* exec -> new, running, posted
          originals, \* exec -> original_checksums_by_files
          data,      \* exec -> processed_exec_data of its calls so far
          stored,    \* posted execs: path -> operations
          artifacts, \* the checksums that are recorded
          lost,      \* those among them whose file is missing
          wrong,     \* those whose file holds something else: cut off, or changed when copied
          calls,     \* calls so far
          retrieval, \* the retriever: where it is, its exec, the state it rebuilds, its path
          snapshots, \* observer: the files before the first exec and as each exec ended
          odd        \* observer: <<what, path>>, what the record does not tell

execVars == <<phase, originals, data, stored, snapshots>>
vars == <<workspace, execVars, artifacts, lost, wrong, calls, retrieval, odd>>

Running == {e \in Exec : phase[e] = "running"}
Nowhere == [at |-> "idle", exec |-> 0, state |-> << >>, path |-> Absent, clear |-> {}]
Odd(what, paths) == {<<what, path>> : path \in paths}

Init ==
    /\ workspace = FirstContent
    /\ phase = [e \in Exec |-> "new"]
    /\ originals = [e \in Exec |-> << >>]
    /\ data = [e \in Exec |-> Nothing]
    /\ stored = << >>
    /\ artifacts = {}
    /\ lost = {}
    /\ wrong = {}
    /\ calls = 0
    /\ retrieval = Nowhere
    /\ snapshots = << >>
    /\ odd = {}
-----------------------------------------------------------------------------
\* An exec.
Present(paths) == {path \in paths : workspace[path] # Absent}

\* No path is below a file: a directory is wherever files are in it.
Room(path) ==
    /\ Present(Above[path]) = {}
    /\ Present({q \in Path : path \in Above[q]}) = {}

\* collect_directory_files and process_files.
Begin(e) ==
    /\ phase[e] = "new"
    /\ retrieval = Nowhere
    /\ phase' = [phase EXCEPT ![e] = "running"]
    /\ originals' = [originals EXCEPT ![e] = Restrict(workspace, Present(Root))]
    /\ artifacts' = artifacts \cup {workspace[path] : path \in Present(Root)}
    /\ snapshots' = IF snapshots = << >> THEN <<workspace>> ELSE snapshots
    /\ odd' = odd \cup IF snapshots = << >> \/ Running # {} THEN {}
                       ELSE Odd("other", {path \in Path : workspace[path] # Last(snapshots)[path]})
    /\ UNCHANGED <<workspace, data, stored, lost, wrong, calls, retrieval>>

\* A call of a process i of exec e, which changes the files to "files".
Call(e, i, event, files) ==
    /\ phase[e] = "running"
    /\ event.op \in Kinds
    /\ calls < MaxCalls
    /\ calls' = calls + 1
    /\ workspace' = files
    /\ data' = [data EXCEPT ![e] =
           Processed(@, originals[e], [process_id |-> i, file_pid |-> i, event |-> event])]
    /\ UNCHANGED <<phase, originals, stored, snapshots, artifacts, lost, wrong, retrieval>>

Read(e, i, path) ==
    /\ path \notin Bare /\ workspace[path] # Absent
    /\ Call(e, i, [op |-> "READ", path |-> path], workspace)
    /\ UNCHANGED odd

Write(e, i, path, c) ==
    /\ path \notin Bare /\ Room(path)
    /\ Call(e, i, [op |-> "WRITE", path |-> path], [workspace EXCEPT ![path] = c])
    /\ UNCHANGED odd

Unlink(e, i, path) ==
    /\ workspace[path] # Absent
    /\ Call(e, i, [op |-> "UNLINK", path |-> path], [workspace EXCEPT ![path] = Absent])
    /\ UNCHANGED odd

Rename(e, i, from, to) ==
    /\ from # to /\ workspace[from] # Absent /\ Room(to)
    /\ Call(e, i, [op |-> "RENAME", from |-> from, to |-> to],
            [workspace EXCEPT ![to] = workspace[from], ![from] = Absent])
    /\ odd' = odd \cup Odd("renamed", {from, to})

\* sendfile and the like: the checksum of the target is not asked for.
Transfer(e, i, from, to) ==
    /\ from # to /\ {from, to} \cap Bare = {}
    /\ workspace[from] # Absent /\ Room(to)
    /\ Call(e, i, [op |-> "TRANSFER", from |-> from, to |-> to],
            [workspace EXCEPT ![to] = workspace[from]])
    /\ odd' = odd \cup Odd("transferred", {to})

\* The operations of an exec e on a path, one per process.
OperationsOn(e, path) ==
    {data[e].process_map[i].operation_map[path] :
        i \in {j \in DOMAIN data[e].process_map :
                  path \in DOMAIN data[e].process_map[j].operation_map}}

\* attach_checksums_after_processing.
EndChecksum(op, path) ==
    IF op.write /\ ~op.deleted /\ path \in Root THEN workspace[path] ELSE NoChecksum

\* MAX(NULLIF(..., '')).
Greatest(checksums) ==
    LET places == {n \in DOMAIN ByText : ByText[n] \in checksums}
    IN IF places = {} THEN NoChecksum ELSE ByText[Max(places)]

\* Mutant: as long as one process has not deleted the file.
MergedAll(e, path) ==
    LET ops == OperationsOn(e, path) IN
    [deleted |-> \A op \in ops : op.deleted,
     start |-> Greatest({op.start : op \in ops}),
     end |-> Greatest({EndChecksum(op, path) : op \in ops})]

\* fetch_job_operations: a row for each exec and path, with MAX of each column.
Merged(e, path) ==
    LET ops == OperationsOn(e, path) IN
    [deleted |-> \E op \in ops : op.deleted,
     start |-> Greatest({op.start : op \in ops}),
     end |-> Greatest({EndChecksum(op, path) : op \in ops})]

\* Mutants: a file that cannot be opened is collected; nothing is.
CollectedAll(rows) == {rows[path].end : path \in DOMAIN rows}
CollectedNothing(rows) == {}

\* collect_files_after_processing and process_files.
Collected(rows) == {rows[path].end : path \in DOMAIN rows} \ {NoChecksum}

Used(e) == {path \in Path : OperationsOn(e, path) # {}}
Changed(e) == {path \in Path : \E op \in OperationsOn(e, path) : op.write \/ op.deleted}

\* The command ends; its prov collects what was written and posts.
End(e) ==
    LET touched == Used(e)
        rows == [path \in touched |-> Merged(e, path)]
        gone == {path \in touched : rows[path].deleted}
    IN /\ phase[e] = "running"
       /\ phase' = [phase EXCEPT ![e] = "posted"]
       /\ stored' = Append(stored, rows)
       /\ artifacts' = artifacts \cup Collected(rows)
       /\ snapshots' = Append(snapshots, workspace)
       /\ odd' = odd \cup Odd("revived", {path \in gone : workspace[path] # Absent})
                     \cup Odd("overlapped", UNION {Changed(d) \cup (Used(d) \cap gone) : d \in Running \ {e}})
       /\ UNCHANGED <<workspace, originals, data, lost, wrong, calls, retrieval>>

\* A program that no exec runs, or a call that is not hooked.
Elsewhere(path) ==
    /\ retrieval.at # "dead"
    /\ calls < MaxCalls
    /\ calls' = calls + 1
    /\ retrieval' = [retrieval EXCEPT !.clear = @ \ ({path} \cup Above[path])]
    /\ UNCHANGED <<execVars, artifacts, lost, wrong>>

Other(path, c) ==
    /\ Elsewhere(path)
    /\ workspace[path] # c /\ (c # Absent => Room(path))
    /\ workspace' = [workspace EXCEPT ![path] = c]
    /\ odd' = IF Running # {} THEN odd \cup Odd("other", {path}) ELSE odd

\* A directory without files, which matters to nobody but the retriever.
OtherFolder(path) ==
    /\ retrieval.at = "move" /\ path \in retrieval.clear \cap DOMAIN retrieval.state
    /\ Elsewhere(path)
    /\ UNCHANGED <<workspace, odd>>

\* Faults of ArtifactStore.  What is recorded is not copied again, and nobody but
\* the retriever looks at the file: it may have been gone, or wrong, for long.
Spoil(c) ==
    /\ retrieval.at = "copy" /\ c = retrieval.state[retrieval.path]
    /\ \/ lost' = lost \cup {c} /\ UNCHANGED wrong
       \/ wrong' = wrong \cup {c} /\ UNCHANGED lost
    /\ UNCHANGED <<workspace, execVars, artifacts, calls, retrieval, odd>>
-----------------------------------------------------------------------------
\* get_initial_state_before_first_exec: the first exec that has the path tells.
InitialState ==
    LET firsts == [path \in UNION {DOMAIN stored[n] : n \in DOMAIN stored} |->
                      stored[Min({n \in DOMAIN stored : path \in DOMAIN stored[n]})][path].start]
    IN Restrict(firsts, {path \in DOMAIN firsts : firsts[path] # NoChecksum})

\* get_state_after_exec, one exec.
AfterOperations(state, rows) ==
    LET gone == {path \in DOMAIN rows : rows[path].deleted}
        ended == {path \in DOMAIN rows \ gone : rows[path].end # NoChecksum}
        started == {path \in DOMAIN rows \ (gone \cup ended \cup DOMAIN state) :
                       rows[path].start # NoChecksum}
    IN [path \in (DOMAIN state \ gone) \cup ended \cup started |->
           IF path \in ended THEN rows[path].end
           ELSE IF path \in started THEN rows[path].start ELSE state[path]]

\* Mutant: break comes before the exec that was asked for.
StateBefore(exec) ==
    LET state[n \in 0..exec] ==
            IF n = 0 THEN InitialState ELSE AfterOperations(state[n - 1], stored[n])
    IN state[IF exec = 0 THEN 0 ELSE exec - 1]

\* get_state_after_exec; exec 0 is the state before the first one.
StateAfter(exec) ==
    LET state[n \in 0..exec] ==
            IF n = 0 THEN InitialState ELSE AfterOperations(state[n - 1], stored[n])
    IN state[exec]

\* fs::exists: a file, or a directory that holds one.
Exists(path) == workspace[path] # Absent \/ Present({q \in Path : path \in Above[q]}) # {}

\* fetch_retriever_db_data and retrieve_exec_state, of a job at rest.
Retrieve(exec) ==
    /\ retrieval = Nowhere /\ Running = {} /\ stored # << >>
    /\ retrieval' = [at |-> "move", exec |-> exec, state |-> StateAfter(exec), path |-> Absent,
                     clear |-> {path \in Path : ~Exists(path)}]
    /\ UNCHANGED <<workspace, execVars, artifacts, lost, wrong, calls, odd>>

\* create_directories: not for "", nor in the place of a file.
Rootable(path) == path \notin Bare /\ Present(Above[path]) = {}

Moving(path) ==
    /\ retrieval.at = "move" /\ path \in DOMAIN retrieval.state
    /\ UNCHANGED <<workspace, execVars, artifacts, lost, wrong, calls, odd>>

\* move_artifact: what throws there is caught nowhere.
MoveDies(path) ==
    /\ Moving(path) /\ ~Rootable(path)
    /\ retrieval' = [retrieval EXCEPT !.at = "dead", !.path = path]

\* What is there is left alone; a path that is no longer clear may be a directory.
MoveSkips(path) ==
    /\ Moving(path) /\ Rootable(path)
    /\ Exists(path) \/ path \notin retrieval.clear
    /\ retrieval' = [retrieval EXCEPT !.state = Without(@, path)]

MoveFinds(path) ==
    /\ Moving(path) /\ Rootable(path) /\ ~Exists(path)
    /\ retrieval' = [retrieval EXCEPT !.at = "copy", !.path = path]

Copyable ==
    /\ retrieval.state[retrieval.path] \in artifacts \ lost
    /\ workspace[retrieval.path] = Absent /\ Room(retrieval.path)

\* copy_file takes the artifact for what it is called.
MoveCopies(c) ==
    /\ retrieval.at = "copy" /\ Copyable
    /\ retrieval.state[retrieval.path] \in wrong \cup {c}
    /\ workspace' = [workspace EXCEPT ![retrieval.path] = c]
    /\ retrieval' = [retrieval EXCEPT !.at = "move", !.state = Without(@, retrieval.path)]
    /\ UNCHANGED <<execVars, artifacts, lost, wrong, calls, odd>>

\* copy_file throws, without an artifact or with a target.
MoveThrows ==
    /\ retrieval.at = "copy"
    /\ ~Copyable \/ retrieval.path \notin retrieval.clear
    /\ retrieval' = [retrieval EXCEPT !.at = "dead"]
    /\ UNCHANGED <<workspace, execVars, artifacts, lost, wrong, calls, odd>>

Retrieved ==
    /\ retrieval.at = "move" /\ retrieval.state = << >>
    /\ retrieval' = [retrieval EXCEPT !.at = "done"]
    /\ UNCHANGED <<workspace, execVars, artifacts, lost, wrong, calls, odd>>
-----------------------------------------------------------------------------
CommandCall(e, i) ==
    /\ phase[e] = "running"
    /\ \E path \in Path :
        \/ Read(e, i, path) \/ Unlink(e, i, path)
        \/ \E c \in Content : Write(e, i, path, c)
        \/ \E to \in Path : Rename(e, i, path, to) \/ Transfer(e, i, path, to)

Next ==
    \/ \E e \in Exec : Begin(e) \/ End(e) \/ \E i \in Id : CommandCall(e, i)
    \/ \E path \in Path : OtherFolder(path) \/ \E c \in Content \cup {Absent} : Other(path, c)
    \/ \E c \in Content : Spoil(c)
    \/ \E exec \in 0..Len(stored) : Retrieve(exec)
    \/ \E path \in Path : MoveDies(path) \/ MoveSkips(path) \/ MoveFinds(path)
    \/ \E c \in Content : MoveCopies(c)
    \/ MoveThrows \/ Retrieved

Spec == Init /\ [][Next]_vars
-----------------------------------------------------------------------------
Oddities == {"other", "renamed", "transferred", "revived", "overlapped"}
Plain(path) == \A what \in Oddities : <<what, path>> \notin odd
Mentioned == UNION {DOMAIN stored[n] : n \in DOMAIN stored}

TypeOK ==
    /\ workspace \in [Path -> Content \cup {Absent}]
    /\ phase \in [Exec -> {"new", "running", "posted"}]
    /\ \A n \in DOMAIN stored : DOMAIN stored[n] \subseteq Path
    /\ Len(snapshots) = (IF snapshots = << >> THEN 0 ELSE Len(stored) + 1)
    /\ lost \cup wrong \subseteq artifacts /\ artifacts \subseteq Content
    /\ calls \in 0..MaxCalls
    /\ retrieval.at \in {"idle", "move", "copy", "done", "dead"}
    /\ DOMAIN retrieval.state \subseteq Path
    /\ odd \subseteq Oddities \X Path

\* The paths the record tells of.
Sure == {path \in Mentioned \cap Root : Plain(path)}

\* The state rebuilt for any moment of the job has, of every path under the
\* path of the execs that one of them used, the contents it had then.
RebuiltIsTrue ==
    \A exec \in 0..Len(stored) : LET state == StateAfter(exec) IN
        \A path \in Sure : At(state, path, Absent) = snapshots[exec + 1][path]

\* A retriever that comes to its end has put back every file that was missing
\* when it began and that nobody touched since, unless the artifact was wrong or
\* the record is mistaken in what was below the file.
RestoredIsTrue ==
    retrieval.at = "done" =>
        \A path \in retrieval.clear \cap Sure :
            LET then == snapshots[retrieval.exec + 1][path] IN
            \/ workspace[path] = then
            \/ then \in wrong
            \/ \E q \in Path \ Sure : path \in Above[q] /\ q \in DOMAIN StateAfter(retrieval.exec)

\* What is rebuilt was recorded: a retriever dies only of an artifact that was
\* lost, of what came in the way after it had looked, of a name without a
\* directory, or of a file in the place of a directory; and of such a file only
\* when it was there before or came meanwhile, or when the record is mistaken in
\* one of the two.
RetrieverDiesOfOthers ==
    retrieval.at = "dead" => LET path == retrieval.path IN
        \/ retrieval.state[path] \in lost
        \/ path \notin retrieval.clear
        \/ path \in Bare
        \/ \E q \in Present(Above[path]) : q \notin retrieval.clear \/ {q, path} \cap Sure # {q, path}
=============================================================================
