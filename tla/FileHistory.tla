----------------------------- MODULE FileHistory -----------------------------
(***************************************************************************)
(* Processes that use files under the injector, what the injector logs of  *)
(* them, and what Processor makes of the log, against what happened.       *)
(*                                                                         *)
(* A file is an object; it has a path at any time, is renamed, replaced    *)
(* and unlinked.  A hook makes the real call and takes its time stamp      *)
(* afterwards, and the Operation enters the queue of its process, START    *)
(* first, after that: calls of other threads come in between.  Reads,      *)
(* writes and transfers are logged with the paths their descriptors have,  *)
(* marked when the file is gone, renames and unlinks with the string of    *)
(* the caller, relative or not; all of them whether they succeeded or not  *)
(* (injector/src/injector.cpp).                                            *)
(***************************************************************************)
EXTENDS Processor

CONSTANTS Thread,          \* threads
          Proc,            \* processes
          ProcOf,          \* thread -> its process
          Born,            \* the processes there are at first; others are forked
          IdOf,            \* process -> command line and environment
          Path,            \* absolute paths
          Original,        \* the paths that have files at first
          Kinds,           \* the calls the programs make
          FailAllowed,     \* calls may fail
          RelativeAllowed, \* renames and unlinks may name relative paths
          NoCall,          \* the thread is not in a hook
          MaxCalls         \* bound: calls in a behaviour

\* Strings of programs: absolute paths, and pairs for relative ones and for
\* "path (deleted)", which the descriptor of a file that is gone has.
String == Path \cup ({"relative", "deleted"} \X Path)
\* Operations before they are stamped, and stamped.
Operation == [op : Kinds, path : String] \cup [op : Kinds, from : String, to : String]
Stamped == [op : Kinds, path : String, ts : Nat]
           \cup [op : Kinds, from : String, to : String, ts : Nat]

ASSUME FileHistoryAssumption ==
    /\ ProcOf \in [Thread -> Proc] /\ Born \subseteq Proc
    /\ DOMAIN IdOf = Proc
    /\ Original \subseteq Path /\ IsFiniteSet(Path)
    /\ Path \cap Nat = {} /\ Path \cap ({"relative", "deleted"} \X Path) = {}
    /\ Kinds \subseteq {"READ", "WRITE", "UNLINK", "RENAME", "TRANSFER"}
    /\ {FailAllowed, RelativeAllowed} \subseteq BOOLEAN
    /\ NoCall \notin Operation \cup Stamped
    /\ MaxCalls \in Nat

VARIABLES place,    \* object -> its path, the last one if it is gone
          first,    \* object -> its first path
          alive,    \* the objects that exist
          log,      \* process -> its events; the queue, saved when it exits
          pending,  \* thread -> the Operation of its call
          unstamped,\* threads whose call is made and not stamped, in that order
          clock,    \* stamps handed out
          born,     \* the processes that run
          did,      \* observer: <<id, object, flag>> of every call
          renamed,  \* observer: objects that were renamed
          subject,  \* observer: thread -> objects its call asks get_checksum for
          opener,   \* observer: object -> the id whose such call was stamped first
          odd       \* observer: <<what, path>>, what Processor is not made for

world == <<place, first, alive>>
observers == <<did, renamed, subject, opener, odd>>
vars == <<world, log, pending, unstamped, clock, born, observers>>

Object == DOMAIN place
Id(t) == IdOf[ProcOf[t]]
On(path) == {o \in alive : place[o] = path}
\* failed: named in a call that failed; relative: named by a relative path;
\* late: of calls stamped in another order than they were made; reused: of a
\* second file; copied: led to by a rename that a fork copied; self: renamed to itself;
\* early: of an id, queued after an Operation with an earlier stamp.
Oddities == {"failed", "relative", "late", "reused", "copied", "self"}
\* Its file was named in a read, write or transfer that failed; a file that was
\* gone from there was read or written.
Attempts == {"attempted", "unlinked"}
Odd(what, paths) == {<<what, path>> : path \in paths}

\* Initial objects are the paths of Original; a new one gets the next number.
Init ==
    /\ place = [o \in Original |-> o]
    /\ first = [o \in Original |-> o]
    /\ alive = Original
    /\ log = [p \in Proc |-> << >>]
    /\ pending = [t \in Thread |-> NoCall]
    /\ unstamped = << >>
    /\ clock = 0
    /\ born = Born
    /\ did = {}
    /\ renamed = {}
    /\ subject = [t \in Thread |-> {}]
    /\ opener = << >>
    /\ odd = {}
-----------------------------------------------------------------------------
\* Calls.  "to" of an event is its second path; a relative path is a pair.
Spelled(path) == {path} \cup (IF RelativeAllowed THEN {<<"relative", path>>} ELSE {})

MayCall(t) ==
    /\ ProcOf[t] \in born /\ pending[t] = NoCall
    /\ clock + Len(unstamped) < MaxCalls

Enter(t, e, asked) ==
    /\ MayCall(t)
    /\ e.op \in Kinds
    /\ pending' = [pending EXCEPT ![t] = e]
    /\ unstamped' = Append(unstamped, t)
    /\ subject' = [subject EXCEPT ![t] = asked]
    /\ UNCHANGED <<log, clock, born, opener>>

Done(t, objects, flag) == did' = did \cup {<<Id(t), o, flag>> : o \in objects}

\* A path that had another file before.
Reused(path, others) ==
    IF \E o \in others : path \in {place[o], first[o]} THEN {<<"reused", path>>} ELSE {}

\* open with O_CREAT, and write.
Create(t, path) ==
    LET new == 1 + Cardinality(Object) IN
    /\ On(path) = {}
    /\ Enter(t, [op |-> "WRITE", path |-> path], {new})
    /\ place' = With(place, new, path)
    /\ first' = With(first, new, path)
    /\ alive' = alive \cup {new}
    /\ did' = did \cup {<<Id(t), new, "write">>}
    /\ odd' = odd \cup Reused(path, Object)
    /\ UNCHANGED renamed

Flag == [READ |-> "read", WRITE |-> "write"]

\* fd_path.
Name(o) == IF o \in alive THEN place[o] ELSE <<"deleted", place[o]>>

\* The call does this to these objects, or fails.
Outcome(done, objects) ==
    \/ /\ did' = did \cup done
       /\ odd' = odd \cup Odd("unlinked", {place[o] : o \in objects \ alive})
    \/ /\ FailAllowed
       /\ did' = did
       /\ odd' = odd \cup Odd("attempted", {place[o] : o \in objects \cap alive})

Access(t, op, o) ==
    /\ op \in {"READ", "WRITE"}
    /\ Enter(t, [op |-> op, path |-> Name(o)], {o} \cap alive)
    /\ Outcome({<<Id(t), o, Flag[op]>>}, {o})
    /\ UNCHANGED <<world, renamed>>

\* sendfile, splice, copy_file_range.
Transfer(t, from, to) ==
    /\ from # to
    /\ Enter(t, [op |-> "TRANSFER", from |-> Name(from), to |-> Name(to)], {from} \cap alive)
    /\ Outcome({<<Id(t), from, "read">>, <<Id(t), to, "write">>}, {from, to})
    /\ UNCHANGED <<world, renamed>>

\* Relative strings are pairs.
Unlink(t, path) ==
    /\ On(path) # {}
    /\ \E s \in Spelled(path) :
        /\ Enter(t, [op |-> "UNLINK", path |-> s], On(path))
        /\ odd' = odd \cup Odd("relative", {path} \ {s})
    /\ alive' = alive \ On(path)
    /\ Done(t, On(path), "deleted")
    /\ UNCHANGED <<place, first, renamed>>

\* What is at the new path is replaced.  Oddities of a path go with its file.
Rename(t, from, to) ==
    /\ On(from) # {}
    /\ \E s \in Spelled(from), r \in Spelled(to) :
        /\ Enter(t, [op |-> "RENAME", from |-> s, to |-> r], {})
        /\ odd' = odd
              \cup {<<what, to>> : what \in {k \in Oddities \cup Attempts : <<k, from>> \in odd}}
              \cup (IF <<s, r>> = <<from, to>> THEN {} ELSE Odd("relative", {from, to}))
              \cup (IF from = to THEN Odd("self", {to})
                   ELSE Reused(to, Object \ On(from)))
    /\ place' = [o \in Object |-> IF o \in On(from) THEN to ELSE place[o]]
    /\ alive' = IF from = to THEN alive ELSE alive \ On(to)
    /\ renamed' = renamed \cup On(from)
    /\ UNCHANGED <<first, did>>

\* Renames and unlinks that fail are logged all the same.
Fail(t) ==
    /\ FailAllowed
    /\ \E path \in Path :
        \/ /\ Enter(t, [op |-> "UNLINK", path |-> path], {})
           /\ odd' = odd \cup Odd("failed", {path})
        \/ \E to \in Path \ {path} :
              /\ Enter(t, [op |-> "RENAME", from |-> path, to |-> to], {})
              /\ odd' = odd \cup Odd("failed", {path, to})
    /\ UNCHANGED <<world, did, renamed>>
-----------------------------------------------------------------------------
\* Logging.
Others(t) == {u \in Thread \ {t} : ProcOf[u] = ProcOf[t]}
Event(op, ts) == With(op, "ts", ts)
Start(p, ts) == [op |-> "START", ts |-> ts, id |-> IdOf[p], pid |-> p, ppid |-> NoCall]

\* Mutant: START is stamped when it is queued.
LoggedStartNow(p, e) ==
    log' = [log EXCEPT ![p] =
        IF @ = << >> THEN <<Start(p, e.ts + 1), e>> ELSE Append(@, e)]

\* log_operation: START comes before the first Operation, one stamp earlier.
Logged(p, e) ==
    log' = [log EXCEPT ![p] =
        IF @ = << >> THEN <<Start(p, e.ts - 1), e>> ELSE Append(@, e)]

PathsOf(e) ==
    {path \in Path : \E field \in {"path", "from", "to"} \cap DOMAIN e :
                        e[field] \in Spelled(path)}

\* now_ns().  What a process of one thread stamps it queues next; with others
\* the mutex decides.
Stamp(t) ==
    LET e == Event(pending[t], 2 * (clock + 1)) IN
    /\ Contains(unstamped, t)
    /\ clock' = clock + 1
    /\ IF Others(t) = {}
       THEN Logged(ProcOf[t], e) /\ pending' = [pending EXCEPT ![t] = NoCall]
       ELSE pending' = [pending EXCEPT ![t] = e] /\ UNCHANGED log
    /\ \E i \in DOMAIN unstamped : unstamped[i] = t /\ unstamped' = RemoveAt(unstamped, i)
    /\ odd' = IF Head(unstamped) = t THEN odd
              ELSE odd \cup Odd("late", UNION {PathsOf(pending[u]) : u \in ToSet(unstamped)})
    /\ opener' = [o \in DOMAIN opener \cup subject[t] |-> At(opener, o, Id(t))]
    /\ subject' = [subject EXCEPT ![t] = {}]
    /\ UNCHANGED <<world, born, did, renamed>>

Queue(t) ==
    /\ pending[t] # NoCall /\ ~Contains(unstamped, t)
    /\ Logged(ProcOf[t], pending[t])
    /\ pending' = [pending EXCEPT ![t] = NoCall]
    /\ odd' = IF \E e \in ToSet(log[ProcOf[t]]) : e.op = "START" /\ pending[t].ts < e.ts
              THEN odd \cup {<<"early", Id(t)>>} ELSE odd
    /\ UNCHANGED <<world, unstamped, clock, born, did, renamed, subject, opener>>

RenamesOf(events) == {e \in events : e.op = "RENAME"}
Renames == RenamesOf(UNION ({ToSet(log[p]) : p \in Proc} \cup {{pending[t]} \ {NoCall} : t \in Thread}))
\* These paths, and where renames led from them.
Led(paths) ==
    {path \in Path : \A S \in SUBSET Path :
        (/\ paths \subseteq S
         /\ \A e \in Renames : e.from \in S /\ e.to \in Path => e.to \in S) => path \in S}

\* fork copies the queue; so does its START.
Fork(p, c) ==
    /\ p \in born /\ c \notin born /\ IdOf[c] = IdOf[p]
    /\ \A t \in Thread : ProcOf[t] = p => pending[t] = NoCall
    /\ born' = born \cup {c}
    /\ log' = [log EXCEPT ![c] = log[p]]
    /\ odd' = odd \cup Odd("copied", Led(UNION {PathsOf(e) : e \in RenamesOf(ToSet(log[p]))}))
    /\ UNCHANGED <<world, pending, unstamped, clock, did, renamed, subject, opener>>

Call(t) ==
    /\ MayCall(t)
    /\ \/ \E path \in Path :
           \/ Create(t, path) \/ Unlink(t, path)
           \/ \E to \in Path : Rename(t, path, to)
       \/ \E o \in Object :
           \/ \E op \in Kinds : Access(t, op, o)
           \/ \E to \in Object : Transfer(t, o, to)
       \/ Fail(t)

Next ==
    \/ \E t \in Thread : Call(t) \/ Stamp(t) \/ Queue(t)
    \/ \E p, c \in Proc : Fork(p, c)

Spec == Init /\ [][Next]_vars
-----------------------------------------------------------------------------
\* The event files if the command ended here.
Quiet == \A t \in Thread : pending[t] = NoCall
Files == SetToSeq({p \in Proc : log[p] # << >>})
EventFiles == LET files == Files IN [i \in DOMAIN files |-> log[files[i]]]
\* Contents of an original file are named by its path.
Result == ProcessedData(EventFiles, [o \in Original |-> o])

Operations(result, id, path) ==
    At(At(result.process_map, id, NoProcess).operation_map, path, NoOperations)
Ids == {IdOf[p] : p \in Proc}
Flags == {"read", "write", "deleted"}
Plain(path, oddities) == \A what \in oddities : <<what, path>> \notin odd

\* What a process did to a file that exists is found under the path it has now,
\* also when the path had other files before.
OperationsAreFound ==
    LET result == Result IN Quiet => \A d \in did :
        d[2] \in alive /\ Plain(place[d[2]], {"failed", "relative", "late", "self"})
            => Operations(result, d[1], place[d[2]])[d[3]]

\* What is found under a path was done to the one file that has or last had it.
OperationsAreTrue ==
    LET result == Result IN Quiet => \A id \in Ids, path \in Path, flag \in Flags :
        Plain(path, (Oddities \ {"copied"}) \cup Attempts) =>
            (Operations(result, id, path)[flag] <=>
                \E o \in Object : place[o] = path /\ <<id, o, flag>> \in did)

\* rename_map leads from the path of a renamed file to its first, over any
\* number of renames by any process, and has nothing else.
RenamesAreTraced ==
    LET result == Result IN Quiet => \A path \in Path : Plain(path, Oddities) =>
        LET os == {o \in renamed : place[o] = path} IN
        At(result.rename_map, path, path) =
            IF os = {} THEN path ELSE first[CHOOSE o \in os : TRUE]

\* The checksum a file had before the command is at the process whose call on
\* it comes first, under the path the file has now, and nowhere else.
ChecksumsAreTrue ==
    LET result == Result IN Quiet => \A id \in Ids, path \in Path :
        LET os == {o \in Original \cap DOMAIN opener : place[o] = path /\ opener[o] = id}
            firsts == {first[o] : o \in {x \in Object : place[x] = path}}
        IN (\A at \in {path} \cup firsts : Plain(at, Oddities)) =>
               Operations(result, id, path).start =
                   IF os = {} THEN NoChecksum ELSE CHOOSE o \in os : TRUE

\* Every process has its command line and environment, unless another of its
\* threads stamped an Operation before START and queued it after.
ProcessesAreNamed ==
    LET result == Result IN Quiet => \A id \in DOMAIN result.process_map :
        <<"early", id>> \notin odd => result.process_map[id].named
=============================================================================
