# libcprov in TLA+

libcprov records where the files of batch jobs come from.  `prov exec` runs a
command with an LD_PRELOAD library that logs every file call; when the command
is done, `prov` turns the logs into processes, operations and renames, stores
the files it saw by checksum and posts the result to a receiver, which keeps it
in SQLite for the visualizer, the querier and the retriever.

The modules here state what these parts promise to each other and check it:
TLC on small instances, TLAPS for every instance where a theorem says so.
Paths below are relative to the repository.

## The system

| Part | State it keeps | Operations | What is hard |
|---|---|---|---|
| injector (`injector/src/injector.cpp`) | statics of each process: `operations`, `operations_mutex`, `first_operation`, `after_failed_execv`, `nodename`, `prov_flushed`; the `.jsonl` files | the hooks, exec hooks, exit hooks, the destructor | threads of the process, fork, failed exec, kill |
| prov (`injector/src/prov.cpp`, `process_coordinator.cpp`) | the session directory `/dev/shm/libcprov/<job><cluster>` | `start`, `exec`, `end` | execs of one job at the same time; posts that fail; descendants that outlive the command |
| processor (`injector/src/processor.cpp`, `parser.cpp`) | none between calls | `process_events` | the order of events of many files, renames, parents by time |
| ingester (`injector/src/ingester.cpp`) | `checksums.db`, `artifact_files/` | `collect_*`, `process_files` | provs of many jobs over one store, crashes between row and copy |
| receiver, write side (`receiver/src/main.cpp`, `db_access.cpp`, `db.cpp`) | `request_queue`, `local_queue`, `active_jobs_`, the database | `/prov_api`, the worker's Start, Exec and End | acknowledged before stored, crash and restart, refused INSERTs |
| receiver, read side (`db.cpp`) | none | `/graph_api`, `/db_interface_api`, `/retriever_api` | aggregates, jobs without an end |
| retriever (`db_interface/src/retriever`) | the directory it rebuilds | rebuild the state before or after an exec | deletes, renames, order of execs |
| querier, visualizer, config | none | text, SVG, configuration | (input and output only) |

How they interact: a hooked call appends to its process's queue; a flush (exit,
destructor, exec) appends the queue to a file in the session directory; `prov
exec` waits for the shell it started, reads and removes that directory, and
posts; the receiver's HTTP threads queue the body under a mutex and answer 200;
one worker thread stores the requests in order through the job's own SQLite
connection; the tools read the database.

What makes each part correct:

- injector: an Operation a program made is in exactly one file of its process,
  or its loss has a named cause; a file is one segment that the processor can
  read (START first, EXEC or END last); no call blocks for ever; what was saved
  is never overwritten.
- receiver: requests take effect whole, in the order of their
  acknowledgement, at most once; a crash takes away what had not taken effect
  and nothing else; rows belong to the process and exec they came from.
- prov: the events an exec posts are its command's, all of them, unless somebody
  else used the session directory at the same time.
- processor: the operations, renames, checksums and execs it derives from the
  event files are those that happened.
- ingester: a recorded checksum has its file, with the contents of that
  checksum, or gets it, or a fault is known.
- retriever: the rebuilt directory is the one the execs left.

## Modules

| Module | Models |
|---|---|
| `Injector` | the injector in the processes of one command |
| `MCInjector` | values for its constants |
| `InjectorProofs` | its theorems: flushes, and the queue and the files |
| `JobStore` | abstract: what the receiver promises |
| `Receiver` | the write side of the receiver, and the prov commands that post to it |
| `MCReceiver` | values for its constants |
| `ReceiverProofs` | its theorems, with the refinement of `JobStore` |
| `ProvSession` | `prov start`, `exec` and `end` over one session directory, with the processes of the commands |
| `ProvSessionProofs` | its theorems |
| `ArtifactStore` | the ingester in several `prov exec` at once |
| `ArtifactStoreProofs` | its theorems |
| `Processor` | `process_events` as operators over event files (no state) |
| `ProcessorProofs` | lemmas about its fold over the events, for any event files |
| `FileHistory` | programs that use files, what the injector logs of them, `Processor` run on the log |
| `FileHistoryProofs` | its theorems |
| `ProcessTree` | programs that fork, vfork, exec, setenv and end, what the injector saves of them, `Processor` run on the files |
| `ProcessTreeProofs` | its theorems |
| `Retriever` | the execs of a job on its files, what they post, the state the retriever rebuilds, and the restore |
| `RetrieverProofs` | its theorems |
| `MCProvSession`, `MCArtifactStore`, `MCFileHistory`, `MCProcessTree`, `MCRetriever` | values for their constants, and symmetries |

How they fit: `Injector` says which events a file holds (`FilesAreSegments`) and
that none is lost; `FileHistory` and `ProcessTree` take such files for granted
and ask what `Processor` makes of them; `ProvSession` says which files an exec
gets to read; `ArtifactStore` what becomes of the contents; `Retriever` composes
`Processor`'s fold with the two collections of the ingester and the receiver's
merge; `Receiver` what is stored of a post, and when.

### Injector

A variable that is a static of the library is a function of the process (which
is its pid); `pc`, `cont`, `pending`, `path` and `buffer` are the stack of a
thread inside the library.  A step is the code between two points where another
thread can see or change a static:

| Phase of a thread | Code (`injector.cpp`) | Action |
|---|---|---|
| `idle` | a hook, its real call done, reads `now_ns()` | `WriteHook` ... `UnlinkHook`, `ExecHook`, `ExitHook`, `Fini` |
| `log_lock`, `log` | `log_operation`, 274-283 | `Acquire`, `LogOperation` |
| `path` | file name, 390 (no mutex) | `FlushPath` |
| `drain_lock`, `drain` | the loop of `prepare_save_events`, 395-404 | `Acquire`, `Drain` |
| `save` | `save_events_clean` or `append_events_clean`, 417-438 | `Save`, `SaveFails` |
| `swap_lock`, `swap` | first block of `reset_state`, 441-445 | `Acquire`, `Swap` |
| `first`, `names` | the rest of `reset_state` (no mutex), 446-449 | `ResetFirst`, `ResetNames` |
| `exec_call` | the real exec | `ExecSucceeds`, `ExecFails` |
| `dying` | the real `_exit` | `RealExit` |

`ExitHookAgain` is the loser of the compare-exchange in `prov_flush_once`, which
goes to the real `_exit` while the winner flushes.  `Fork`, `Kill` and
`ThreadStarts` are the kernel's and the program's; fork is not hooked, so the
child starts with the parent's queue, flags, name and mutex.

The hooks of one kind differ in the call they wrap only, so each kind is one
action.  An Operation is its kind, its caller and its stamp; its payload is left
out because no step looks at it.  Stamps are unique: two now_ns() of the same
value are not modelled.  A hook's stamp is even and START takes the odd number
below.  `nodename` is a number: an even one is a name, an odd one a torn read of
the unlocked string; a collision of random names is not modelled.
write(2) is taken to write all or (with `SaveFails`) nothing.  The real exec is
tried only after the flush, as in the code.

Observers (`pushed`, `lost`, `raced`, `inherited`) record history for the
properties; no guard reads them.

`raced[p]` is set when a call of p overlapped a flush of the same image, and
`inherited[p]` when p was forked with Operations in its parent's queue.  They
are the exact conditions under which the code loses or misplaces events, so the
properties name them instead of forbidding the behaviour: the runs do take these
paths, and `FlushCoversOwnEvents`, `QueueKeepsThreadOrder`, `SavedStaySaved` and
`CallsReturn` hold on them too.

Properties:

- `FlushCoversOwnEvents`: the reset of a flush never throws away what the
  flushing thread logged.
- `FilesAreSegments`: what `init_processing` of the processor relies on.
- `ExitedIsComplete`: exactly one copy of each Operation of a process that
  exited, over failed execs and several files, also in the child of a fork.
- `QueueKeepsThreadOrder`: per thread, stamps rise along the queue.
- `SavedStaySaved`: files only grow at their end.
- `CallsReturn`: under fairness, hooks return, except in a child whose fork
  copied a locked mutex (the mutex is then `Orphan`).

### Receiver and JobStore

`JobStore` is the promise: an inbox of acknowledged requests, the sessions that
are open (one per key, which two jobs may share), the stored jobs and execs; a request at the head takes effect in one
step; a crash empties the inbox and closes the sessions.  It also says what the
receiver does not promise: an acknowledged request may be lost in a crash, an
exec of a job without a session is not stored (the worker dies on it, and with it
all that was waiting), nor is one that finds the session of another job and has no
row of its own, and the end of a job closes the session of every job with its key.
These are the only ways to lose a request: a kill (`Crash`, where `CrashAllowed`),
and an exec whose turn comes without a session (`DieOfExec`).

`Receiver` has the code's queues, the map `active_jobs_` by key (the
concatenation of job id and cluster), the committed tables (`disk`), the tables
as the worker's transaction sees them (`txn`), and the worker's program counter.
Start and End are one step each: no other part sees the tables before their
COMMIT, and they touch one row.  Exec is a step per helper of `save_db_data`
(and one per process), because a crash may fall between any two.  The tables
follow the schema: a row whose foreign key has no target or whose primary key is
taken is refused, the code does not notice, and `sqlite3_last_insert_rowid`
then returns an older id (`lastRowid`), which the code takes for the new row's.
Loops over unordered maps are nondeterministic where the order shows: the last
environment pair inserted, the order of the processes, which of two operations
on the same row comes first.

Senders are the prov commands of batch jobs: start, execs, end, perhaps an exec
later than the end (a background step of the batch script), and the same job id
again.  A post to a receiver that is down is lost, as `send_json` drops the
error.  Bodies are two: `Paired`, what the processor produces for two processes,
one executing the other and a third that is unknown, with a rename, which never
arrives (`Parsed`): `get_exec_data` parses the `rename_map` of a payload and leaves
it out of the `ExecData` it returns (`receiver/src/parser.cpp:180-192`), so that
`add_renames` is always given an empty map and the table `renames` stays empty,
although prov sends renames and the querier shows that table.  No text of the
repository says what should be in it.  The other body is `Unpaired`, with a process the processor created by default (an operation sorted
before its START), which has no name and whose environment hash 0 has no pair.

Properties:

- `RefinesJobStore`: the code implements `JobStore`, crash or not.
- `ExecIsWhole`: what is stored of an exec is all that the parser hands on, hence
  not its renames, save what hangs on a process whose own INSERT was refused.
- `OperationsBelong`: operations are on the process that made them, with the
  same exception: it is exact, since the operations of a refused process do go to
  another process's row.
- `StaysUp`, `RequestsAreServed`, `EndIsStored`: jobs that post in order, with
  keys of their own and no kill, never bring the worker down, and all they post
  is served.

### ProvSession

The state is the directory, one file per process (`none`, `empty` between the
`open` and the `write` of `save_events_clean`, `whole`), and the place of each
prov command in its code; the actions follow `start_preload_process` (create the
directory, fork, `waitpid`), `parse_all_jsonl_files` (the iterator lists, then
each file is loaded) and `remove_all` (lists, unlinks one by one, removes the
directory).  The script may start a command while an exec still runs; a process
may outlive its shell, which alone is waited for; any prov may be killed.

Observers: `disturbed[c]` (somebody else used the directory, or had a file in
it, while c used it), `reaped[e]` (the own processes that had exited when the
shell was reaped), `outlived[e]`, `background`.

- `EventsAreTheCommands`: an undisturbed exec posts events of its own command
  only, and all that were saved by the time its shell was reaped.
- `ExitedIsAccounted`: events of a process that exited are in the directory or
  posted, unless its exec was disturbed, outlived or died.  The exceptions are
  real: an exec in the background removes files of another that nobody has read.
- `DisturbedByOutliving`: one after the other, execs are disturbed only by
  processes that outlived their shell, or by what a killed prov left.
- `DiesOfOthers`: an exec or an end that throws (a directory that is gone, a file
  that vanished after it was listed, a directory that is not empty when it is
  removed) was disturbed or outlived.

### ArtifactStore

A prov goes through `collect_directory_files`, and `process_files`' three loops
(SELECT each checksum, INSERT the missing ones, copy their files), runs its
command, and does the same for what the command wrote
(`collect_files_after_processing`).  Steps are the single SELECT, INSERT and the
two halves of a copy (truncate, fill), between which other provs, programs that
change files, and a kill come in.  Contents stand for their checksum.
`SQLITE_BUSY` may answer while another prov is at the database: the SELECT takes
it for "missing", the INSERT ignores it.  The contents a copy ends with are those
of a moment between its open and its close; contents torn within one read, and
a target that was unlinked while open, are left out.

`collect_files_after_processing` (`ingester.cpp:103-120`) decides per process which
files are collected: a path one process wrote and another unlinked is.  The model
has what a command wrote and what it unlinked, not which process did; `Ended` takes
any part (`apart`) of the paths that were both.

Observers: `stale` (paths that changed after a prov hashed them), `left` (what
the command left), `doubted` (checksums whose copy was broken off, or made of a
stale path).

- `RecordedIsKept`, `RecordedIsStored`: a recorded checksum has its file, or a
  living prov owes it, or it is doubted; and under fairness the debt is paid.
- `ArtifactsAreTrue`: a file of the store that nobody is copying holds what its
  name says, or is doubted.
- `WrittenIsKept`: when a prov posts, the contents its command wrote and left are
  kept, except of a path that it unlinked at some time (`deleted` stays set).
- `SettledStays`: a complete artifact is never touched again, except through a
  refused lookup.

### Processor, FileHistory and ProcessTree

`Processor` translates `processor.cpp` function by function: `init_processing`
(a LinuxProcess per file), the sort (an event is at a place, its file and its
index; a set of places has a last one, `LastOf`), the fold `process_events` over START, READ,
WRITE, UNLINK, TRANSFER, RENAME, EXEC and EXEC_FAIL, `log_rename` with its chain
of names, `get_checksum`, `resolve_forks` with the loop over a map that its own
`operator[]` extends (`Visits`: after a rehash pids may be passed over), and
`resolve_execs`.  A map is a function, an absent key is `At(map, key, default)`.
`undefined` records a `pop()` of an empty stack.

`FileHistory` runs it against the truth about files: a file is an object whose
path changes; each call acts on objects at once and is stamped later, in any
order of the threads, then queued (START first, one stamp below the Operation
that causes it).  `odd` names, per path, the reasons why the record and the truth
may differ:

| Oddity | Code |
|---|---|
| `failed` | rename and unlink hooks log whether or not the call succeeded |
| `attempted` | so do those of reads, writes and transfers |
| `unlinked` | a descriptor of a file that is gone is logged as "path (deleted)" (`fd_path`, 188-201) |
| `relative` | they log the caller's string, reads and writes the absolute path |
| `late` | the stamp is taken after the call, so two calls may be stamped in the other order |
| `reused` | a path that had another file before |
| `copied` | led to, by any number of renames, from a path of a RENAME that was in a queue when the process forked: the RENAME is processed twice |
| `self` | a rename of a path onto itself erases its operations |
| `early` | (of an id) an Operation stamped before START and queued after it |

`attempted` and `unlinked` are excepted in `OperationsAreTrue` alone, since a call
that failed only adds operations, and one on a file that is gone is missing where
nobody else looks; `attempted` travels with the file, as all oddities of its path do.

Each of them is needed: without it TLC finds the property violated.  `copied` is
closed under the renames that were logged (`Led`), which only an instance of 4
calls shows: where the copied RENAME is not the last one of its file, the paths
the later ones led to have the wrong first name too.  What is
claimed of the other paths: `OperationsAreFound` and `OperationsAreTrue` (what
each process did to a file is under the path it has now, and nothing else),
`RenamesAreTraced` (any chain of renames by several processes leads back to the
first name), `ChecksumsAreTrue` (the checksum before the command is with the
process whose call came first, and nowhere else) and `ProcessesAreNamed`.
`OperationsAreFound` needs fewer exceptions than the others: it holds of reused
and copied paths too.

Simplified are: a read, write or transfer takes place when its hook reads the path
of the descriptor, after the real call, and both paths of a transfer are read at
once; `Create` is `open` with `O_CREAT`, which is not hooked, together with the first
write; descriptors that are not of files (pipes, sockets, closed ones, logged as
"fd=n") have names that no path of a file is, and are left out.

`ProcessTree` runs it against the truth about processes: pids with their parents,
images with an id (command line and environment), and the segments that the
injector saves.  START is stamped at the first Operation of a segment, so a
process that logs nothing until its children have ended is not seen to precede
them; a fork copies a queued START, so the child goes on under its parent's pid; a
vfork child logs into and saves its parent's queue until it execs or ends, so that
part of the parent's events bears a file name of the child, and an exec of either
may be recorded under the other's pid.  A process may be killed anywhere and
change its environment, hence its id.  Pids are not reused; a vfork child neither
vforks nor calls setenv; posix_spawn is left out.

- `PairsAreTrue`: a pair <parent, child> found is of a process and an image that
  comes from it (its later image, a process it forked, or a child that was there
  when it took that id), for every order of the files and every rehash.  Of the orders
  `tree_three` tries all (`EveryOrder`), `tree_faults` that in which the files were
  saved and its reverse, and the theorems are of all.
- `ExecsAreFound`: an exec whose new image saved a file is found, if the files of
  both sides begin with a START of their own (`Own`: pid and id) and no exec of the
  same id was under way (`crossed`), and no process changed its environment after its
  START or forked with a queued EXEC_FAIL (`uneven`); or if the process that forked it
  has its own id, was heard of before it and saved after it, and the loop reaches its
  pid.
- `PopsArePushed`: an EXEC_FAIL finds an EXEC on its stack unless `uneven`.

The files of `Injector` are taken for granted: a flush saves what it drained, and a
file that does not open, which loses its events, is `Injector`'s matter.  `execl`,
`execlp` and `execle` return early if `build_argv_from_varargs` gives NULL
(938-941, 959-962, 982-985), which it never does, as it always appends the final null
pointer of argv (134-145); these branches have no action.

Each of these conditions was found by TLC refusing the property without it; some
(`uneven` in `ExecsAreFound`, the clauses of `Around` and `Outlived`) matter only
beyond the bounds of the runs, where random simulation of three processes, three
programs, kill, vfork and setenv and 7 events refuted the property without them,
and passed some ten million states with them.  The id in `Own` came with the proof of
`ExecsAreFound`, which failed without it: a process whose vfork child has saved its
START may change its environment and then exec under a START of another id.  TLC finds
that with four processes and nine events only.

### Retriever

Each exec hashes the files under its path, runs calls that `Processor`'s fold
turns into operations at once, adds the checksums the written files have at the
end, and posts; `Merged` is the receiver's `fetch_job_operations`, which takes the
MAX of each column over the processes of an exec; `InitialState`, `StateAfter` are
the retriever's two functions.  Execs may overlap, in which case they are numbered
as they post.

The restore is `move_artifact` for each path, in any order: `create_directories`,
which throws if a file stands in the place of a directory, or for a name without
a directory, whose `parent_path` is "" (`Rootable`, `MoveDies`); `exists`
(`MoveSkips`, `MoveFinds`); and, a step later, `copy_file` (`MoveCopies`, `MoveThrows`),
which throws without an artifact or with a target, and copies whatever the artifact
holds.  `Spoil` has the faults of `ArtifactStore`: `lost` are recorded checksums whose
file is missing, `wrong` those whose file has other contents (cut off by a kill, or
made of a file that had changed).  Nobody but the retriever looks at these files, so
a fault comes when it matters.

`Above` gives for a path the paths where its directories are; the file system keeps
files from being above others (`Room`).  Directories are wherever files are in them:
one without files matters only to a retriever that finds it in the place of a file,
which is `OtherFolder`.  `Bare` are names that a command gave to rename or unlink
without a directory, as they are logged, relative to a directory that nobody records.
`clear` are the paths where there was nothing when the restore began and nobody came
since.  A restore is asked for while no exec of the job runs (`Running = {}`): the
code has no such check, and a retriever of a job that still runs takes what its execs
have posted so far, while their commands are the other programs of this model.

`odd` names, per path, what the record cannot tell: `other` (changed by a program
that no exec ran), `renamed`, `transferred` (no checksum of a TRANSFER's target
before the call), `revived` (written again after an unlink in the same exec:
`deleted` stays set), `overlapped` (used by an exec while another changed it).

- `RebuiltIsTrue`: the state before the first exec and after each one is, of every
  other path that was used, what the files were then.
- `RestoredIsTrue`: after a restore that ended well, files that were missing are as
  they were at the chosen moment, unless the artifact was wrong, or the record is
  mistaken about a path below the file, which was restored first and made its
  directory.
- `RetrieverDiesOfOthers`: whatever the oddities, a restore throws only for a lost
  artifact, for what came in the way after it had looked, for a bare name, or for a
  file in the place of a directory; the last only if that file was there before or
  came meanwhile, or if the record is mistaken in one of the two.  So what is rebuilt
  is always a checksum that was recorded, and a true record never has a file below
  another.

## Runs

Deadlock is not an error in any run: clocks, posts and calls are bounded and a
program may stop.

| Run | Instance | Bounds and why they are enough |
|---|---|---|
| `injector_threads` | 1 process, 2 threads, READ, kill, failing open | 3 stamps: two threads' Operations and a flush, or an Operation, a failed exec (EXEC, EXEC_FAIL) |
| `injector_fork` | 2 processes of 1 thread, WRITE and UNLINK, kill, failing open | 4 stamps: one Operation before the fork, one after it in each process, and an end; or a failed exec, its EXEC_FAIL, one more Operation and the end |
| `injector_liveness` | 2 processes of 2 threads, RENAME and TRANSFER, fair | 2 stamps: one call holds the mutex while another thread forks; a flush and a call contend for the mutex |
| `receiver_crash` | 3 jobs, two of which have the same key, both bodies, kill, late execs | 5 posts: start and exec of two jobs and one more, or start, exec, end, exec, start of one; the end of one job with the key of another that still runs |
| `receiver_jobs` | 2 jobs with keys of their own, in order, no kill, fair | 6 posts: start, exec, end of both |
| `artifacts` | 2 provs, one over both of 2 files and one over one; 2 contents; kill, SQLITE_BUSY; fair | 2 changes: a file changes between hash and copy and again, or the command of each prov writes; both files hold the same contents at first, so one checksum has two paths |
| `session` | 2 execs, one with a second process, and the end, in any overlap, kill | one process that outlives its shell is enough to disturb the next exec and the end; unbounded otherwise |
| `files_processes` | 2 processes, 3 paths of which 2 have files, calls of all kinds, failing and relative ones, and on files that are gone | 3 calls: a chain of two renames and an access, or a path that is left, reused and accessed |
| `files_threads` | 1 process with 2 threads, that may fork | 3 calls: two threads stamp and queue in the other order; a queued rename is copied and both copies processed |
| `tree_faults` | 2 processes, 2 programs, vfork, setenv, kill; 2 orders of the files | 4 events: an exec that fails and one that succeeds, in parent and child, or a START that a fork copied and the exec and end of both |
| `tree_three` | 3 processes, 3 programs, vfork, a map that rehashes at two pids; every order of the files | 4 events: an orphan and its dead parent's parent; a chain of two execs and their ends |
| `retriever` | 2 execs of 2 processes, 4 paths: one that has a file, another, one below the first, a bare name; 2 contents, all kinds, lost and wrong artifacts, restore | 3 calls, those of other programs included: write, unlink, write in one exec or over two, a rename and its use, a file that gives way to a directory |

Every property is checked in one run, the ones for which a second instance has
other cases (`OperationsAreFound`, `PairsAreTrue`, `ExecsAreFound`) in two.
Larger instances were searched in part, without a violation: `session` with a
second process in both execs (17 million states), `retriever` with 5 calls and
`ProcessTree` as said above (at random).

Fairness.  `Injector`: weak fairness of each thread's steps inside the library,
which is the kernel scheduling runnable threads; none for the program's calls,
for fork and for kill.  With two threads weak fairness is enough for the mutex:
bounded stamps mean that no thread can take it for ever, as in a program whose
other threads at some point stop calling.  `Receiver`: weak fairness of the
worker thread; none for senders, crash or restart.  `ArtifactStore`: weak fairness
of each prov's own steps (a prov is one thread that waits for nothing but its
command); none for commands, other programs and kill.

Symmetry is used where a run has invariants only and the constants it permutes
enter the model through nothing but equality: the two programs that are not the
shell's and the two pids that are not the root's in `tree_three`, execs and
processes in `retriever`, the two processes with their threads and ids, and the two paths
that have files, in `files_processes`.  `retriever` has a view too: once a restore has
begun, no action that is still enabled, and no property, reads `phase`, `originals` or
`data`, as only execs that run or begin do, none runs, and none begins any more.

## Proofs

Every safety and action property of `Injector`, `Receiver`, `ProvSession`,
`ArtifactStore`, `Retriever`, `FileHistory` and `ProcessTree` that a run checks is a
theorem, for every number of processes, threads, jobs, execs, provs, files and contents.  The assumptions on constants are the named
ones of those modules, and the runs' constants satisfy them.

### InjectorProofs

Assumed is `InjectorAssumption`: the root is a process, Main is a thread, and
the two mutex markers are not threads.

- `TypeCorrect`: `Spec => []TypeOK`.  `TypeOK` is inductive; the lemmas are that
  START's stamp is a natural number (hooks stamp 2 at least), that a file's new
  contents are a sequence of Operations, and what the death of an image leaves.
- `FlushKeepsOwnEvents`: `Spec => []FlushCoversOwnEvents`.  The property says
  nothing of the states between drain and swap, so it is not inductive.  The
  invariant is

      IInv = LockInv /\ PendingInv /\ BufferInv /\ UnbornInv    (CoreInv)
             /\ DrainedInv /\ ForeignInv                        (QueueInv)
             /\ AccountedInv

  Critical sections are run by the owner of the mutex; a pending Operation is its
  thread's own; only a thread in `save` holds events.  Hence, after its drain, a
  thread has nothing in the queue until it logs again (`DrainedInv`), so a swap
  throws away other threads' Operations only (`ForeignInv`).  `AccountedInv` says
  that a logged Operation is in a file, in the queue, in a buffer or recorded as
  lost; with the others it gives the property.
- `SavedStayForever`: `Spec => SavedStaySaved`, from `TypeCorrect`: only `Save`
  changes `files`, and it appends.

### InjectorProofs: the queue and the files

It adds to `CoreInv` and `QueueInv`, in three layers.  A step is first sorted
into one of a few kinds (`StepKinds`), so that each conjunct is proved against
the kinds and not against every action.

- `QueueStaysInOrder` (`QueueKeepsThreadOrder`).  The order of the queue
  (`OrderInv`) is kept by a log only if nothing that the process holds, in its
  queue, buffers or files, is stamped later than the call its thread is about to
  log, with a stamp to spare for a START (`OldInv`).  This is where it shows why
  stamping before the mutex does no harm: one thread has one call at a time.
- `FilesStaySegments` (`FilesAreSegments`).  Of a process in which no call
  overlapped a flush: at most one thread flushes (`AloneInv`); the queue is a
  segment that grows while nobody does, a closed one before the drain, and empty
  after it, when the buffer is the closed one (`SegInv`); the thread saves to a
  file that is not there yet (`NameInv`), so that a file is exactly one segment
  (`FileInv`); and an EXEC_FAIL is logged before anything else of its thread
  (`FailInv`), so that it comes first in the file.
- `ExitedStayComplete` (`ExitedIsComplete`).  `UniqueInv`: what is at one place is
  at no other and there once, which needs that a new call's stamp is greater
  than those of all that the process holds of its thread.  `PlacedInv`: what was
  logged is somewhere, but for a kill or a file that would not open.  A process
  that exited has neither queue nor threads (`DeadInv`), which leaves the files.

### ReceiverProofs

Assumed is `ReceiverAssumption`: a job's key is a function of it, and a payload
is finite, as every JSON text is, with natural numbers for hashes (they are
`uint64_t`).  Finiteness is what makes `sqlite3_last_insert_rowid` give a new id.

- `TypeCorrect`: `TypeOK` with the foreign keys of every row, on `disk` and in
  `txn`.  It needs that ids are numbered from 1 without a gap and never given
  twice (`Shape`), and that the worker's local variables hold while an exec is
  in hand what its code has put there (`QueueInv`, `ProcessInv`).
- `ExecsStayWhole` (`ExecIsWhole`) and `OperationsStayOwn` (`OperationsBelong`).
  The exec in hand has its row, or has none and all of its processes are refused
  (`CurrentInv`); each of its processes owns the row whose id the code keeps, or
  is refused (`Owned`); and after each helper of `save_db_data` its table is
  complete (`DoneInv`): `OpsDone`, then `MapsDone`.  COMMIT
  turns this into the property, and a crash returns to the committed tables.
- `KeepsThePromise` (`RefinesJobStore`): initial states map to initial states, and
  each action to an abstract one or to a stutter: `Post...` to the acknowledgement
  (or to nothing if the daemon is down), `StartJob`, `EndJob` and `CommitExec` to the
  request taking effect, the helpers within an exec, `TakeAll` and `Restart` to
  stutters, a kill to `Crash`, and the worker's death on a missing session, of which
  the exec in hand is the head of the inbox, to `DieOfExec`.
- `StaysUpWithDistinctKeys` (`StaysUp`) has hypotheses beside the assumption, the
  ones under which its run checks it: two jobs have two keys, no kill, no exec
  after its job's end.  The invariant (`OpenInv`) is about the order of requests:
  wherever an exec is in the queues, serving what is before it leaves the session
  of its job open; and a job that runs would find it open behind the last one.

### ProvSessionProofs

Assumed is `ProvSessionAssumption`.  Besides `TypeCorrect`:

- `PostsOwnEvents` (`EventsAreTheCommands`), `ExitedStayAccounted`
  (`ExitedIsAccounted`), `DisturbancesHaveCauses` (`DisturbedByOutliving`) and
  `DeathsHaveCauses` (`DiesOfOthers`) come from one invariant.  An undisturbed
  command that uses the directory uses it alone (`AloneInv`), so until it removes
  them, what its reaped processes saved is there (`FileInv`), is listed (`ReadInv`:
  `AllInSight`) and is read (`AllRead`); when it removes them, all that is there
  was listed, unless it was outlived (`RemoveInv`).  Execs that run one after the
  other never use the directory together (`OrderInv`), and what one leaves behind
  has a cause (`DoneInv`, `CauseInv`).  `CauseInv` and `DisturbedByOutliving` need
  each other: the cause of a disturbance is what an earlier command left, and it
  left it because it was killed, outlived or itself disturbed.

### ArtifactStoreProofs

Assumed is `ArtifactStoreAssumption`.  Besides `TypeCorrect`, which carries that an
open copy stands at a missing entry:

- `RecordedStayKept` (`RecordedIsKept`) and `ArtifactsStayTrue` (`ArtifactsAreTrue`):
  `StoreInv` says that an entry's checksum is that of its path unless the path is
  stale (`FreshInv`, `HashInv`), that a file that is wrong is one somebody copies
  or a doubted one (`PartialInv`, `WrongInv`), and that a recorded checksum is
  there, owed or doubted (`RowsInv`).  The delicate step is a second copy of the
  same checksum, which truncates a file that was complete: it is then owed again.
- `WrittenStaysKept` (`WrittenIsKept`): what the command left is still to be visited,
  is an entry, is recorded, and is copied by the end of the pass (`LeftInv`, and
  `PassInv` for the place of the loops in the entries).
- `SettledIsStable` (`SettledStays`), an action property, from the same invariant: a
  prov touches the file of an entry only if its SELECT did not find it.

The lemmas of this module are about a sequence into which an entry is inserted at
any place (the order of an unordered map): it has the old entries and the new one.

### RetrieverProofs

Assumed is `RetrieverAssumption`: the contents, in the order of their checksums,
are a sequence, and none of them is the mark of a missing file; no path is above
itself, the files there are at first are not above one another, and bare names are
not under the path of the execs.  Besides `TypeCorrect`:

- `RebuiltStaysTrue` (`RebuiltIsTrue`) has three parts.  First, what a call does to
  the operations on a path (`LogOps`, `AccessOps`, `TransferOps`, `RenameOps`): those
  of another path stay, those of its own get its mark, and the first access alone
  brings the checksum (`OpsInv`); so a call of an exec has one of four effects on a
  path that was not renamed or the target of a transfer (`Effect`).  Second, the
  invariant of execs that run at once: a path that no running exec has changed is as
  the last exec left it (`SameInv`), one that was changed and is missing was deleted
  by one of them (`GoneInv`), one that was read only was there (`ReadInv`), one that no
  exec has posted yet is as before the first exec, and whoever began then hashed it so
  (`BeforeInv`).  When an exec ends, these make its row say what became of the path
  (`RowsInv`); the exclusion of `overlapped` is used there and nowhere else.  Third,
  `InitialState` and each step of `StateAfter` agree with the snapshots if the rows are
  true, by the least exec for which they would not; `RunExists` shows that the function
  that `StateAfter` defines meets its equation.
- `RestoredStaysTrue` (`RestoredIsTrue`): of a retriever on its way, each path that was
  missing at first and not touched since is still missing and due, or holds what the
  rebuilt state has, or the artifact was wrong, or a path below it was rebuilt
  (`RetrievalInv`).
- `DeathsHaveCauses` (`RetrieverDiesOfOthers`): all checksums of all rows are recorded
  (`ShapeInv`), hence all those that are rebuilt.  A file in the place of a directory
  was there when the retriever looked, or came since, or the retriever put it there; in
  the last case both paths are in the rebuilt state (`RetrievalInv`).  As no snapshot has
  a file below another (`TreeInv`), the record is then mistaken in one (`NotBoth`, by
  `RebuiltStaysTrue`).

`IInv` of this module was checked by TLC on smaller instances of the run `retriever`
before it was proved.

### ProcessorProofs

`ProcessedData` is a fold over the set of places, last one first, so there is no
log to take apart: its equations are those of the fold of a set, and what holds of
`Nothing` and is kept by each event holds of the result (`PrefixInduction`: a set of
places that has all that come before its last one is the places of a prefix).

- `FoldSteps`: the fold over a prefix is `Processed` of the fold without its last
  place; `StartStep`, `AccessStep`, `TransferStep`, `RenameStep`, `ExecStep` say what
  one event does.
- `AllNamed`: in files that begin with their START, a process is named unless one of
  its events has an earlier stamp.
- `StacksAre`, `NoEmptyPop`: what is on the stack of an id, and that no stack is popped
  when it is empty if each EXEC_FAIL has an EXEC of its own before it (`Pushing`).
- `ExecStays`: an EXEC is on its stack at the end if each later EXEC_FAIL of its id has
  a later EXEC of its own (`PushingSince`).

### FileHistoryProofs

Assumed is `FileHistoryAssumption`: threads belong to processes, paths are not
numbers nor the names of relative or deleted files, which are pairs, and a program's
operations are calls of the five kinds.

- `NamedTheorem` (`ProcessesAreNamed`): `BaseInv` says what a queue holds, its START
  first, of its own id also after a fork, and every other Operation with a later
  stamp, unless the id is `early`; the rest is `AllNamed`.
- `FoundTheorem` (`OperationsAreFound`), `TrueTheorem` (`OperationsAreTrue`) and
  `TracedTheorem` (`RenamesAreTraced`).  The log is spread over queues and threads and
  its order is known only at the end, so the invariant (`TraceInv`) speaks of a history
  h that needs to exist: all calls in the order of their stamps, those without one last,
  in the order they were made (`HistoryInv`), with the result after each (`Runs`).  The
  last of these results is what happened, but for odd paths (`Truth`).
  1. A call puts an event at the end of h, and each kind of call keeps `Truth`
     (`CallTruth`: `AccessTruth`, `TransferTruth`, `CreateTruth`, `UnlinkTruth`,
     `RenameTruth`, `FailTruth`; `Outcomes` and `NameIs` say what a call on descriptors
     does and logs, if it fails or its files are gone).  `PlaceInv` says that two files at one path are there
     only if it is `reused`.
  2. A stamp that is not taken in order moves a call ahead of others in h (`Ahead`), which
     changes the results, but only for paths that the calls without stamp name
     (`RunOutside`), and all of these are `late` now (`StampLate`).
  3. Queueing changes nothing of h, nor does a fork; but the fork copies Operations.
     `Taints` has for each call the paths where a copied RENAME may have spoilt first
     names so far; they are closed under the renames of h, hence `Led` has them.
  4. At the end (`FoldFollows`) the fold over the places is the fold over h, an event
     taken once or, if copied, several times in a row: the second time it changes nothing
     (`CallAgain`), but for the first name of a RENAME's new path.
- `ChecksumsTheorem` (`ChecksumsAreTrue`): the fold takes the checksum of the first
  Operation on a path that `rename_map` does not lead to a path it has seen, so the
  history must say which file was asked for by which call.  `AskInv` gives it two
  companions: Z, where what is at a path at each call is at the end of the history
  (`Ends`), and A, the files that each call asks for (`AskedRight`).
  1. The first path of a file leads to the path it has now (`RootsHome`), so a path has
     been seen if and only if its file was asked for (`AskedSeen`); files at fine paths
     are one file (`FineOne`).
  2. The owner of a file is the process of the first call in A on it (`Owners`); of the
     calls with a stamp this is `opener` (`Opened`), and stays so when a stamp is taken
     out of order (`StampOpened`).
  3. The checksums after the last call are with the owners, at the paths the files have
     now (`SumsBy`): `AskSums` and `RenameSums` for a new call, `LateSums` for a late
     stamp, where the calls that change places ask for no file whose path is not odd.
  4. An event taken several times keeps the checksums of paths that are not odd, and so do
     those the spoilt first names reach (`ChecksHold`, beside `Taints`).

### ProcessTreeProofs

Assumed is `ProcessTreeAssumption`.

- `PairsTheorem` (`PairsAreTrue`): a START in a queue or a file is of the process whose
  pid it has or of one it was forked from, and names its parent.  `KinInv` says that a
  process comes from all that its parent is and was since its START; `PairInv` that the
  STARTs there are say so: an earlier one of the pid of the parent is of an ancestor, a
  later one of the same pid of a descendant.  Both resolutions give such pairs, whatever
  the order of the files.
- `PopsTheorem` (`PopsArePushed`): processes share a stack by their id, so who pushed
  what is popped cannot be said.  `TicketInv` gives instead to each EXEC_FAIL that is or
  may still come an EXEC of the same id, saved and earlier, and no two the same one.
- `ExecsTheorem` (`ExecsAreFound`) needs, besides these two invariants, the lives of the
  two processes (`ExecInv`):
  1. `SegmentInv` and `EndInv`: segments have at most one file each, files end in an EXEC
     or END later than that of the file before, and an exec that is under way or
     succeeded has a file that ends in its EXEC.
  2. `ClearInv` chooses the EXECs of `TicketInv` so that none that comes after the EXEC of
     a successful, uncrossed exec on its stack goes back behind it: hence that EXEC is on
     the stack at the end (`ExecStacked`, from `ExecStays`).
  3. `DateInv`, with `LastInv` and `VforkInv`: what the process stamped after its exec is
     of the segment that follows or of later ones; `ExecImageInv`, with `ImageInv`: the
     first of it has the id of that segment.  So the first process that `resolve_exec`
     finds is the right one (`ExecFound`).
  4. `OrphanInv`: a START names the process that forked its process, unless that is dead
     and saves nothing any more.  If it outlived the other, it is the first that
     `resolve_forks` finds, or one of the same id is (`ForkFound`).

### Model-checked only

- Liveness: `CallsReturn`, `RequestsAreServed`, `EndIsStored`, `RecordedIsStored`.
  TLAPS has no proof rules here for fairness (ENABLED).

Every safety invariant and every action property of the runs is proved.

## Not modelled

- posix_spawn; vfork in `Injector` (it is in `ProcessTree`, where it matters to
  what is derived from the files).
- Payloads and their JSON, SQL text, the bytes of a file: contents stand for their
  checksum, and no property depends on more.
- The lists of excluded files: `parse_ignore_file` is given a directory and reads
  nothing from it, so they are always empty.
- The queries of `/graph_api` and `/db_interface_api`: they select and format rows
  of committed execs.  `fetch_job_operations`, the one that merges rows, is in
  `Retriever`.  An exec id that nobody posted (`db.cpp:590` makes a string of NULL)
  is not asked for.
- The retrieval of one checksum: its request says `{"checksum":abc"}`, which is not
  JSON (`retriever_build_json.cpp:27`), so nothing comes of it.
- An event file without START (`Injector` says when there is one): pid and
  start time are then uninitialized in `init_processing`.
- Querier, visualizer, configuration: input and output without state.
- The benchmark variants of the injector.
- The vendored libraries (two copies of SQLite, httplib, CLI11, xxHash, picosha2),
  which are nearly all of the repository's lines: they are modelled from their use,
  as external.

## Plan

1. `Injector`, `Receiver` against `JobStore`, the first theorems (done).
2. `ProvSession`, `ArtifactStore`, `Processor` with `FileHistory` and
   `ProcessTree`, `Retriever` (done).
3. Proofs of every safety property of `Injector`, `Receiver` with `JobStore`,
   `ProvSession`, `ArtifactStore`, `FileHistory`, `ProcessTree` and `Retriever` (done).
4. The read side of the receiver: readers that make several SELECTs, each of which
   sees another snapshot unless a statement is kept open.
