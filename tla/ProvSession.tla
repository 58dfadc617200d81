----------------------------- MODULE ProvSession -----------------------------
(***************************************************************************)
(* The session directory /dev/shm/libcprov/<job><cluster> of a job         *)
(* (injector/src/prov.cpp, process_coordinator.cpp, parser.cpp).  `prov    *)
(* start` creates it, every `prov exec` runs a shell whose processes write *)
(* one file each when they exit, waits for the shell alone, reads every    *)
(* file it finds and removes the directory, and `prov end` removes it too. *)
(* The batch script may run execs in the background, and processes may     *)
(* outlive their shell.                                                    *)
(*                                                                         *)
(* A file stands for the events of the process that writes it; what is in  *)
(* it is Injector's subject, what becomes of it Processor's.               *)
(***************************************************************************)
EXTENDS FiniteSets

CONSTANTS Exec,              \* prov exec commands of the job
          End,               \* prov end
          Shell,             \* the process prov waits for
          ChildrenOf         \* the other processes of the command of an exec

ASSUME ProvSessionAssumption ==
    /\ End \notin Exec
    /\ DOMAIN ChildrenOf = Exec
    /\ \A e \in Exec : Shell \notin ChildrenOf[e]

VARIABLES dir,        \* the directory exists
          files,      \* what is in it: no file, an empty or a whole one of each process
          proc,       \* processes of the commands
          pc,         \* where each prov command is; "idle" before it runs
          listing,    \* entries its directory_iterator has yet to yield
          events,     \* events_by_file of an exec: processes whose file it read
          disturbed,  \* observer: others used the directory at the same time
          reaped,     \* observer: own processes that had exited with the shell
          outlived,   \* observer: an own process outlived the shell
          background  \* observer: the script ran a command while an exec ran

dirVars == <<dir, files>>
observers == <<disturbed, reaped, outlived, background>>
vars == <<dirVars, proc, pc, listing, events, observers>>

Cmd == Exec \cup {End}
Proc == UNION {{e} \X ({Shell} \cup ChildrenOf[e]) : e \in Exec}
Own(c) == {p \in Proc : p[1] = c}
Alive == {p \in Proc : proc[p] \in {"running", "opened"}}
Listed == {p \in Proc : files[p] # "none"}
UsesDir == {"fork", "wait", "list", "read", "remove_list", "remove"}
Finished == {"done", "dead", "killed"}

Init ==
    /\ dir = FALSE
    /\ files = [p \in Proc |-> "none"]
    /\ proc = [p \in Proc |-> "unborn"]
    /\ pc = [c \in Cmd |-> "idle"]
    /\ listing = [c \in Cmd |-> {}]
    /\ events = [e \in Exec |-> {}]
    /\ disturbed = [c \in Cmd |-> FALSE]
    /\ reaped = [e \in Exec |-> {}]
    /\ outlived = [e \in Exec |-> FALSE]
    /\ background = FALSE

Goto(c, phase) == pc' = [pc EXCEPT ![c] = phase]
-----------------------------------------------------------------------------
\* prov start.  Its post and those of the others are Receiver's.
StartJob ==
    /\ ~dir /\ \A c \in Cmd : pc[c] = "idle"
    /\ dir' = TRUE
    /\ UNCHANGED <<files, proc, pc, listing, events, reaped, outlived, background>>

\* The script runs a command when those before it are done or in the background.
ScriptAtPrompt ==
    /\ dir \/ \E c \in Cmd : pc[c] # "idle"
    /\ pc[End] = "idle"
    /\ background' = (background \/ \E e \in Exec : pc[e] \notin Finished \cup {"idle"})

\* start_preload_process.
CreateDirectory(e) ==
    /\ ScriptAtPrompt
    /\ pc[e] = "idle"
    /\ dir' = TRUE
    /\ Goto(e, "fork")
    /\ UNCHANGED <<files, proc, listing, events, reaped, outlived>>

ForkShell(e) ==
    /\ pc[e] = "fork"
    /\ proc' = [proc EXCEPT ![<<e, Shell>>] = "running"]
    /\ Goto(e, "wait")
    /\ UNCHANGED <<dirVars, listing, events, reaped, outlived, background>>

\* Mutant: the directory is removed before it is read.
WaitPidRemovesFirst(e) ==
    /\ pc[e] = "wait"
    /\ proc[<<e, Shell>>] = "exited"
    /\ reaped' = [reaped EXCEPT ![e] = {p \in Own(e) : proc[p] = "exited"}]
    /\ outlived' = [outlived EXCEPT ![e] = Own(e) \cap Alive # {}]
    /\ Goto(e, "remove_list")
    /\ UNCHANGED <<dirVars, proc, listing, events, background>>

WaitPid(e) ==
    /\ pc[e] = "wait"
    /\ proc[<<e, Shell>>] = "exited"
    /\ reaped' = [reaped EXCEPT ![e] = {p \in Own(e) : proc[p] = "exited"}]
    /\ outlived' = [outlived EXCEPT ![e] = Own(e) \cap Alive # {}]
    /\ Goto(e, "list")
    /\ UNCHANGED <<dirVars, proc, listing, events, background>>

\* parse_all_jsonl_files.  The constructor of the iterator throws when there is
\* no directory, and the entries of a small directory are read at once.
OpenDirectory(e) ==
    /\ pc[e] = "list"
    /\ IF dir
       THEN listing' = [listing EXCEPT ![e] = Listed] /\ Goto(e, "read")
       ELSE Goto(e, "dead") /\ UNCHANGED listing
    /\ UNCHANGED <<dirVars, proc, events, reaped, outlived, background>>

\* Mutant: only the first file is read.
ParseFileFirst(e) ==
    /\ pc[e] = "read"
    /\ \E p \in listing[e] :
        /\ files[p] # "none"
        /\ events' = IF files[p] = "whole"
                     THEN [events EXCEPT ![e] = @ \cup {p}] ELSE events
        /\ listing' = [listing EXCEPT ![e] = {}]
    /\ UNCHANGED <<dirVars, proc, pc, reaped, outlived, background>>

\* An empty file has no events.
ParseFile(e) ==
    /\ pc[e] = "read"
    /\ \E p \in listing[e] :
        /\ files[p] # "none"
        /\ events' = IF files[p] = "whole"
                     THEN [events EXCEPT ![e] = @ \cup {p}] ELSE events
        /\ listing' = [listing EXCEPT ![e] = @ \ {p}]
    /\ UNCHANGED <<dirVars, proc, pc, reaped, outlived, background>>

\* load() of a file that another command removed: value() throws.
ParseThrows(e) ==
    /\ pc[e] = "read"
    /\ \E p \in listing[e] : files[p] = "none"
    /\ Goto(e, "dead")
    /\ UNCHANGED <<dirVars, proc, listing, events, reaped, outlived, background>>

\* Mutant: nothing is removed.
ParsedAllKeeps(e) ==
    /\ pc[e] = "read" /\ listing[e] = {}
    /\ Goto(e, "done")
    /\ UNCHANGED <<dirVars, proc, listing, events, reaped, outlived, background>>

ParsedAll(e) ==
    /\ pc[e] = "read" /\ listing[e] = {}
    /\ Goto(e, "remove_list")
    /\ UNCHANGED <<dirVars, proc, listing, events, reaped, outlived, background>>

RunEnd ==
    /\ ScriptAtPrompt
    /\ Goto(End, "remove_list")
    /\ UNCHANGED <<dirVars, proc, listing, events, reaped, outlived>>

\* Mutant: remove instead of remove_all.
RemoveOne(c) ==
    /\ pc[c] = "remove_list"
    /\ listing' = [listing EXCEPT ![c] = {}]
    /\ Goto(c, IF dir THEN "remove" ELSE "done")
    /\ UNCHANGED <<dirVars, proc, events, reaped, outlived, background>>

\* remove_all: nothing to do without a directory; entries that are gone are no
\* error; a directory that is not empty is, and the command does not post.
RemoveAll(c) ==
    /\ pc[c] = "remove_list"
    /\ listing' = [listing EXCEPT ![c] = Listed]
    /\ Goto(c, IF dir THEN "remove" ELSE "done")
    /\ UNCHANGED <<dirVars, proc, events, reaped, outlived, background>>

RemoveFile(c) ==
    /\ pc[c] = "remove"
    /\ \E p \in listing[c] :
        /\ files' = [files EXCEPT ![p] = "none"]
        /\ listing' = [listing EXCEPT ![c] = @ \ {p}]
    /\ UNCHANGED <<dir, proc, pc, events, reaped, outlived, background>>

\* Mutant: the directory goes with whatever is in it.
RemovedAnyway(c) ==
    /\ pc[c] = "remove" /\ listing[c] = {}
    /\ Goto(c, "done") /\ dir' = FALSE
    /\ UNCHANGED <<files, proc, listing, events, reaped, outlived, background>>

RemovedAll(c) ==
    /\ pc[c] = "remove" /\ listing[c] = {}
    /\ IF dir /\ Listed # {}
       THEN Goto(c, "dead") /\ UNCHANGED dir
       ELSE Goto(c, "done") /\ dir' = FALSE
    /\ UNCHANGED <<files, proc, listing, events, reaped, outlived, background>>

KillProv(c) ==
    /\ pc[c] \in UsesDir
    /\ Goto(c, "killed")
    /\ UNCHANGED <<dirVars, proc, listing, events, reaped, outlived, background>>
-----------------------------------------------------------------------------
\* The processes of a command: fork, and the two calls of save_events_clean.
ForkChild(p, q) ==
    /\ proc[p] = "running" /\ proc[q] = "unborn"
    /\ p[1] = q[1] /\ q[2] # Shell
    /\ proc' = [proc EXCEPT ![q] = "running"]
    /\ UNCHANGED <<dirVars, pc, listing, events, reaped, outlived, background>>

\* Without a directory open fails and the events are gone.
OpenFile(p) ==
    /\ proc[p] = "running"
    /\ IF dir
       THEN files' = [files EXCEPT ![p] = "empty"] /\ proc' = [proc EXCEPT ![p] = "opened"]
       ELSE proc' = [proc EXCEPT ![p] = "exited"] /\ UNCHANGED files
    /\ UNCHANGED <<dir, pc, listing, events, reaped, outlived, background>>

\* The file may have been unlinked in between.
WriteFile(p) ==
    /\ proc[p] = "opened"
    /\ proc' = [proc EXCEPT ![p] = "exited"]
    /\ files' = IF files[p] = "empty" THEN [files EXCEPT ![p] = "whole"] ELSE files
    /\ UNCHANGED <<dir, pc, listing, events, reaped, outlived, background>>
-----------------------------------------------------------------------------
\* Whoever is not c and uses the directory, or has left something in it.
Foreign(c) ==
    \/ \E d \in Cmd \ {c} : pc[d] \in UsesDir
    \/ \E p \in Proc \ Own(c) : p \in Alive \cup Listed

Observe ==
    disturbed' = [c \in Cmd |-> disturbed[c] \/ (pc'[c] \in UsesDir /\ Foreign(c)')]

ProvStep(c) ==
    \/ RemoveAll(c) \/ RemoveFile(c) \/ RemovedAll(c)
    \/ c \in Exec /\ (\/ ForkShell(c) \/ WaitPid(c) \/ OpenDirectory(c)
                      \/ ParseFile(c) \/ ParseThrows(c) \/ ParsedAll(c))

ScriptStep == StartJob \/ RunEnd \/ \E e \in Exec : CreateDirectory(e)

ProcessStep(p) == OpenFile(p) \/ WriteFile(p) \/ \E q \in Proc : ForkChild(p, q)

Next ==
    /\ \/ \E c \in Cmd : ProvStep(c) \/ KillProv(c)
       \/ ScriptStep
       \/ \E p \in Proc : ProcessStep(p)
    /\ Observe

Spec == Init /\ [][Next]_vars
-----------------------------------------------------------------------------
TypeOK ==
    /\ dir \in BOOLEAN
    /\ files \in [Proc -> {"none", "empty", "whole"}]
    /\ ~dir => Listed = {}
    /\ proc \in [Proc -> {"unborn", "running", "opened", "exited"}]
    /\ pc \in [Cmd -> UsesDir \cup Finished \cup {"idle"}]
    /\ listing \in [Cmd -> SUBSET Proc]
    /\ events \in [Exec -> SUBSET Proc]
    /\ disturbed \in [Cmd -> BOOLEAN]
    /\ reaped \in [Exec -> SUBSET Proc]
    /\ outlived \in [Exec -> BOOLEAN]
    /\ background \in BOOLEAN

\* What an exec posts are events of its own command, and all of those that were
\* saved when its shell was reaped, unless others used the directory meanwhile.
EventsAreTheCommands ==
    \A e \in Exec : pc[e] = "done" /\ ~disturbed[e] =>
        reaped[e] \subseteq events[e] /\ events[e] \subseteq Own(e)

\* The events of a process that exited are in the directory, or posted or about
\* to be by its exec, unless that exec was disturbed, outlived or died.
ExitedIsAccounted ==
    \A p \in Proc : proc[p] = "exited" =>
        \/ files[p] = "whole"
        \/ p \in events[p[1]]
        \/ disturbed[p[1]] \/ outlived[p[1]] \/ pc[p[1]] \in {"dead", "killed"}

\* In a script that runs its execs one after the other only a process that
\* outlives its shell, or a prov that was killed, gets in the way of another.
DisturbedByOutliving ==
    \A c \in Cmd : disturbed[c] =>
        background \/ \E e \in Exec \ {c} : outlived[e] \/ pc[e] = "killed"

\* A command that nobody disturbs and no process outlives gets to its post.
DiesOfOthers ==
    \A c \in Cmd : pc[c] = "dead" => disturbed[c] \/ (c \in Exec /\ outlived[c])
=============================================================================
