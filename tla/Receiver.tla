------------------------------ MODULE Receiver ------------------------------
(***************************************************************************)
(* The receiver daemon (receiver/src): HTTP threads acknowledge a request  *)
(* once it is in request_queue; one detached worker moves the whole queue  *)
(* away and stores each request through the SQLite connection of its job.  *)
(* Tables are as the schema of db.cpp makes them: foreign keys are on, and *)
(* the code ignores every failed INSERT and goes on with the rowid of the  *)
(* last INSERT that succeeded.  SQLite itself is external.                 *)
(*                                                                         *)
(* The senders are the prov commands of the batch jobs: start, execs, end, *)
(* a post to a receiver that is down being lost without notice.            *)
(***************************************************************************)
EXTENDS Naturals, Sequences, FiniteSets

CONSTANTS Job,           \* batch jobs
          KeyOf,         \* job -> std::to_string(job_id) + cluster_name
          Bodies,        \* what the exec requests may carry
          NoJob,         \* no row in jobs
          MaxPosts,      \* bound: posts in a behaviour
          CrashAllowed,  \* the receiver may be killed
          LateAllowed    \* an exec may be posted after its job's end

ASSUME ReceiverAssumption ==
    /\ KeyOf \in [Job -> {KeyOf[j] : j \in Job}]
    /\ MaxPosts \in Nat
    /\ {CrashAllowed, LateAllowed} \subseteq BOOLEAN
    \* A JSON payload is finite, and a hash is a uint64_t.
    /\ \A b \in Bodies :
        /\ IsFiniteSet(DOMAIN b.procs)
        /\ \A n \in DOMAIN b.procs : IsFiniteSet(b.procs[n].paths)
        /\ IsFiniteSet(b.pairs) /\ b.pairs \subseteq Nat
        /\ IsFiniteSet(b.maps) /\ IsFiniteSet(b.renames)

VARIABLES up,            \* the receiver runs
          posts,         \* posts made so far; the stamp of the last one
          phase,         \* of each job at its sender: new, running, ended
          requestQueue,  \* request_queue
          localQueue,    \* local_queue of loop_request_processing
          pc,            \* the worker: wait, take, or the table it fills
          active,        \* active_jobs_: key -> none, or open with a connection
          lastRowid,     \* sqlite3_last_insert_rowid of the key's connection
          disk,          \* the committed tables
          txn,           \* the tables as the open transaction sees them
          execId,        \* exec_id in save_db_data
          processIds,    \* process_id_to_process_db_id
          refused        \* observer: processes whose own row was refused

senders == <<posts, phase>>
worker == <<localQueue, pc, execId, processIds, refused>>
store == <<active, lastRowid, disk, txn>>
vars == <<up, senders, requestQueue, worker, store>>

Key == {KeyOf[j] : j \in Job}
Types == {"start", "exec", "end"}
NoBody == [procs |-> <<>>, pairs |-> {}, maps |-> {}, renames |-> {}]
Request == [type : Types, job : Job, ts : 1..MaxPosts, body : Bodies \cup {NoBody}]
Pcs == {"wait", "take", "pairs", "procs", "ops", "maps", "renames", "commit"}

\* build_tables.  INTEGER PRIMARY KEY columns are the rowid.
EmptyTables ==
    [jobs |-> [j \in Job |-> NoJob],   \* end is 0 where the code stores -1
     execs |-> {},                     \* [id, req]
     pairs |-> {},                     \* env_variables_hash
     procs |-> {},                     \* [id, exec, name, env]
     ops |-> {},                       \* [proc, path, from]; from: <<exec, name>>
     maps |-> {},                      \* <<parent, child>>
     renames |-> {}]                   \* <<exec, key, value>>

Ids(rows) == {r.id : r \in rows}
NextId(rows) == Cardinality(rows) + 1

Init ==
    /\ up = TRUE
    /\ posts = 0
    /\ phase = [j \in Job |-> "new"]
    /\ requestQueue = <<>>
    /\ localQueue = <<>>
    /\ pc = "wait"
    /\ active = [k \in Key |-> "none"]
    /\ lastRowid = [k \in Key |-> 0]
    /\ disk = EmptyTables
    /\ txn = EmptyTables
    /\ execId = 0
    /\ processIds = <<>>
    /\ refused = {}

req == Head(localQueue)
key == KeyOf[req.job]
-----------------------------------------------------------------------------
(* The senders and the HTTP handler of /prov_api. *)

\* Mutant: a stack for a queue.
Stacked(q, r) == <<r>> \o q
Enqueued(q, r) == Append(q, r)

\* send_json ignores a failed post; the handler pushes under request_mutex,
\* notifies and answers 200.
Post(type, j, body) ==
    /\ posts < MaxPosts
    /\ posts' = posts + 1
    /\ requestQueue' =
            IF up THEN Enqueued(requestQueue,
                                [type |-> type, job |-> j, ts |-> posts + 1, body |-> body])
            ELSE requestQueue
    /\ UNCHANGED <<up, worker, store>>

PostStart(j) ==
    /\ phase[j] # "running"
    /\ phase' = [phase EXCEPT ![j] = "running"]
    /\ Post("start", j, NoBody)

PostExec(j) ==
    /\ phase[j] = "running" \/ (LateAllowed /\ phase[j] = "ended")
    /\ \E b \in Bodies : Post("exec", j, b)
    /\ UNCHANGED phase

PostEnd(j) ==
    /\ phase[j] = "running"
    /\ phase' = [phase EXCEPT ![j] = "ended"]
    /\ Post("end", j, NoBody)
-----------------------------------------------------------------------------
(* The worker. *)

\* The wait returns with the queue not empty and the whole queue moves.
TakeAll ==
    /\ up
    /\ pc = "wait"
    /\ requestQueue # <<>>
    /\ localQueue' = requestQueue
    /\ requestQueue' = <<>>
    /\ pc' = "take"
    /\ UNCHANGED <<up, senders, execId, processIds, refused, store>>

Taking(type) == up /\ pc = "take" /\ localQueue # <<>> /\ req.type = type

\* Mutant: one request per wake-up.
PopOne == localQueue' = Tail(localQueue) /\ pc' = "wait"

\* The request is done: local_queue.pop() and the loop.
Pop == /\ localQueue' = Tail(localQueue)
       /\ pc' = IF Len(localQueue) = 1 THEN "wait" ELSE "take"

\* Mutant: INSERT OR REPLACE.
WithJobReplaced(t, r) == [t EXCEPT !.jobs[r.job] = [start |-> r.ts, end |-> 0]]

\* INSERT INTO jobs fails on a row that is there.
WithJob(t, r) ==
    IF t.jobs[r.job] = NoJob
    THEN [t EXCEPT !.jobs[r.job] = [start |-> r.ts, end |-> 0]]
    ELSE t

\* init_job overwrites an entry that is there, and leaks its connection.
InitJob(k) == [active EXCEPT ![k] = "open"]
\* finish_job closes the connection and erases the entry.
FinishJob(k) == [active EXCEPT ![k] = "none"]

\* case Start: init_job, set_current_job, add_job, commit_job.
StartJob ==
    /\ Taking("start")
    /\ active' = InitJob(key)
    /\ lastRowid' = [lastRowid EXCEPT ![key] =
            IF disk.jobs[req.job] = NoJob
            THEN Cardinality({j \in Job : disk.jobs[j] # NoJob}) + 1 ELSE 0]
    /\ disk' = WithJob(disk, req)
    /\ txn' = disk'
    /\ Pop
    /\ UNCHANGED <<up, senders, requestQueue, execId, processIds, refused>>

\* case End: set_current_job, set_job_end_time, commit_job, finish_job.  On an
\* entry set_current_job has just made every call is refused for want of a
\* connection, and the entry is erased again.
WithEndRolledBack(t, r) == t  \* mutant: finish_job before commit_job
WithEnd(t, r) ==
    IF active[KeyOf[r.job]] = "open" /\ t.jobs[r.job] # NoJob
    THEN [t EXCEPT !.jobs[r.job].end = r.ts]
    ELSE t

EndJob ==
    /\ Taking("end")
    /\ disk' = WithEnd(disk, req)
    /\ txn' = disk'
    /\ active' = FinishJob(key)
    /\ lastRowid' = [lastRowid EXCEPT ![key] = 0]
    /\ Pop
    /\ UNCHANGED <<up, senders, requestQueue, execId, processIds, refused>>

\* All that was in memory is gone, the open transactions roll back.
Down ==
    /\ up' = FALSE
    /\ requestQueue' = <<>>
    /\ localQueue' = <<>>
    /\ pc' = "wait"
    /\ active' = [k \in Key |-> "none"]
    /\ lastRowid' = [k \in Key |-> 0]
    /\ txn' = disk
    /\ execId' = 0
    /\ processIds' = <<>>
    /\ UNCHANGED <<senders, disk, refused>>

\* case Exec on an entry without a connection: sqlite3_last_insert_rowid(NULL).
ExecWithoutJob ==
    /\ Taking("exec")
    /\ active[key] # "open"
    /\ Down

\* add_exec: the foreign key wants the job's row.
AddExec ==
    /\ Taking("exec")
    /\ active[key] = "open"
    /\ IF txn.jobs[req.job] # NoJob
       THEN LET id == NextId(txn.execs) IN
            /\ txn' = [txn EXCEPT !.execs = @ \cup {[id |-> id, req |-> req]}]
            /\ lastRowid' = [lastRowid EXCEPT ![key] = id]
            /\ UNCHANGED refused
       ELSE /\ refused' = refused \cup {<<req.ts, n>> : n \in DOMAIN req.body.procs}
            /\ UNCHANGED <<txn, lastRowid>>
    /\ execId' = lastRowid'[key]
    /\ pc' = "pairs"
    /\ UNCHANGED <<up, senders, requestQueue, localQueue, processIds, active, disk>>

\* add_variable_hash_pairs, in the order of an unordered map; a pair that is
\* stored already is refused.
AddPairs ==
    /\ up /\ pc = "pairs"
    /\ LET new == req.body.pairs \ txn.pairs IN
        /\ txn' = [txn EXCEPT !.pairs = @ \cup new]
        /\ IF new = {} THEN UNCHANGED lastRowid
           ELSE \E h \in new : lastRowid' = [lastRowid EXCEPT ![key] = h]
    /\ processIds' = <<>>
    /\ pc' = "procs"
    /\ UNCHANGED <<up, senders, requestQueue, localQueue, execId, refused, active, disk>>

\* add_process refused for want of the exec's row or of the environment's pair
\* returns the rowid of whatever was inserted last.
CanInsertUnchecked(env) == TRUE  \* mutant: no PRAGMA foreign_keys
CanInsertProcess(env) == execId \in Ids(txn.execs) /\ env \in txn.pairs

AddProcess ==
    /\ up /\ pc = "procs"
    /\ \E name \in DOMAIN req.body.procs \ DOMAIN processIds :
        LET env == req.body.procs[name].env
            id == NextId(txn.procs) IN
        /\ IF CanInsertProcess(env)
           THEN /\ txn' = [txn EXCEPT !.procs = @ \cup
                        {[id |-> id, exec |-> execId, name |-> name, env |-> env]}]
                /\ lastRowid' = [lastRowid EXCEPT ![key] = id]
                /\ UNCHANGED refused
           ELSE /\ refused' = refused \cup {<<req.ts, name>>}
                /\ UNCHANGED <<txn, lastRowid>>
        /\ processIds' = [n \in DOMAIN processIds \cup {name} |->
                IF n = name THEN lastRowid'[key] ELSE processIds[n]]
    /\ UNCHANGED <<up, senders, requestQueue, localQueue, pc, execId, active, disk>>

ProcessesDone ==
    /\ up /\ pc = "procs"
    /\ DOMAIN processIds = DOMAIN req.body.procs
    /\ pc' = "ops"
    /\ UNCHANGED <<up, senders, requestQueue, localQueue, execId, processIds, refused, store>>

\* add_operations: the rows the foreign key and the primary key (process_id,
\* path) let in; where two want one key, the first of them, in no fixed order.
WantedOnExec ==  \* mutant: the exec's id where the process's belongs
    {[proc |-> execId, path |-> p, from |-> <<req.ts, n>>] :
        n \in DOMAIN processIds, p \in UNION {req.body.procs[m].paths :
                        m \in DOMAIN req.body.procs}}
Wanted == {[proc |-> processIds[n], path |-> p, from |-> <<req.ts, n>>] :
                n \in DOMAIN processIds, p \in UNION {req.body.procs[m].paths :
                        m \in DOMAIN req.body.procs}}
LegalByPath ==  \* mutant: the path alone as primary key
    {o \in Wanted : /\ o.path \in req.body.procs[o.from[2]].paths
                    /\ o.proc \in Ids(txn.procs)
                    /\ \A x \in txn.ops : x.path # o.path}
Legal == {o \in Wanted : /\ o.path \in req.body.procs[o.from[2]].paths
                         /\ o.proc \in Ids(txn.procs)
                         /\ \A x \in txn.ops : <<x.proc, x.path>> # <<o.proc, o.path>>}

AddOperations ==
    /\ up /\ pc = "ops"
    /\ \E new \in SUBSET Legal :
        /\ \A o \in Legal : \E x \in new : <<x.proc, x.path>> = <<o.proc, o.path>>
        /\ \A o, x \in new : <<x.proc, x.path>> = <<o.proc, o.path>> => o = x
        /\ txn' = [txn EXCEPT !.ops = @ \cup new]
        /\ lastRowid' = IF new = {} THEN lastRowid
                        ELSE [lastRowid EXCEPT ![key] = Cardinality(txn'.ops)]
    /\ pc' = "maps"
    /\ UNCHANGED <<up, senders, requestQueue, localQueue, execId, processIds, refused,
                   active, disk>>

\* add_execute_mappings: a name without a process has id 0 and is refused.
IdOf(name) == IF name \in DOMAIN processIds THEN processIds[name] ELSE 0
AddMappings ==
    /\ up /\ pc = "maps"
    /\ LET new == {m \in {<<IdOf(x[1]), IdOf(x[2])>> : x \in req.body.maps} :
                        {m[1], m[2]} \subseteq Ids(txn.procs)} \ txn.maps IN
        /\ txn' = [txn EXCEPT !.maps = @ \cup new]
        /\ lastRowid' = IF new = {} THEN lastRowid
                        ELSE [lastRowid EXCEPT ![key] = Cardinality(txn'.maps)]
    /\ pc' = "renames"
    /\ UNCHANGED <<up, senders, requestQueue, localQueue, execId, processIds, refused,
                   active, disk>>

\* get_exec_data parses the renames of the payload and leaves them out of the
\* ExecData that it returns.
Parsed(body) == [procs |-> body.procs, pairs |-> body.pairs, maps |-> body.maps, renames |-> {}]

AddRenames ==
    /\ up /\ pc = "renames"
    /\ LET new == IF execId \in Ids(txn.execs)
                  THEN {<<execId, x[1], x[2]>> : x \in Parsed(req.body).renames} \ txn.renames
                  ELSE {} IN
        /\ txn' = [txn EXCEPT !.renames = @ \cup new]
        /\ lastRowid' = IF new = {} THEN lastRowid
                        ELSE [lastRowid EXCEPT ![key] = Cardinality(txn'.renames)]
    /\ pc' = "commit"
    /\ UNCHANGED <<up, senders, requestQueue, localQueue, execId, processIds, refused,
                   active, disk>>

CommitExec ==
    /\ up /\ pc = "commit"
    /\ disk' = txn
    /\ execId' = 0
    /\ processIds' = <<>>
    /\ Pop
    /\ UNCHANGED <<up, senders, requestQueue, refused, active, lastRowid, txn>>
-----------------------------------------------------------------------------
Crash == CrashAllowed /\ up /\ Down

\* The operator starts the daemon again; build_tables keeps what is there.
Restart ==
    /\ ~up
    /\ up' = TRUE
    /\ UNCHANGED <<senders, requestQueue, worker, store>>

Worker ==
    \/ TakeAll \/ StartJob \/ EndJob \/ ExecWithoutJob
    \/ AddExec \/ AddPairs
    \/ AddProcess \/ ProcessesDone \/ AddOperations \/ AddMappings \/ AddRenames \/ CommitExec

Next == \/ \E j \in Job : PostStart(j) \/ PostExec(j) \/ PostEnd(j)
        \/ Worker \/ Crash \/ Restart

Spec == Init /\ [][Next]_vars

\* The detached worker thread is always scheduled; senders owe nothing.
FairSpec == Spec /\ WF_vars(Worker)
-----------------------------------------------------------------------------
TablesOK(t) ==
    /\ t.jobs \in [Job -> {NoJob} \cup [start : 1..MaxPosts, end : 0..MaxPosts]]
    /\ \A e \in t.execs : e.id \in Nat /\ e.req \in Request
    /\ \A p \in t.procs : p.id \in Nat /\ p.exec \in Ids(t.execs) /\ p.env \in t.pairs
    /\ \A o \in t.ops : o.proc \in Ids(t.procs)
    /\ t.maps \subseteq Ids(t.procs) \X Ids(t.procs)
    /\ \A r \in t.renames : r[1] \in Ids(t.execs)

TypeOK ==
    /\ up \in BOOLEAN
    /\ posts \in 0..MaxPosts
    /\ phase \in [Job -> {"new", "running", "ended"}]
    /\ requestQueue \in Seq(Request)
    /\ localQueue \in Seq(Request)
    /\ pc \in Pcs
    /\ active \in [Key -> {"none", "open"}]
    /\ lastRowid \in [Key -> Nat]
    /\ execId \in Nat
    /\ TablesOK(disk) /\ TablesOK(txn)

Inbox == localQueue \o requestQueue

(* The daemon does for its clients what JobStore promises: an exec becomes *)
(* visible whole and in its turn, whatever readers see and whenever it is  *)
(* killed.                                                                 *)
Promise == INSTANCE JobStore WITH
    inbox <- Inbox,
    open <- {k \in Key : active[k] = "open"},
    jobs <- disk.jobs,
    execs <- {e.req : e \in disk.execs}
RefinesJobStore == Promise!Spec

Row(t, e, name) == {p \in t.procs : p.exec = e.id /\ p.name = name}

(* A stored exec is whole: every process has its row, every path of it an  *)
(* operation on that row, every execute pair of known processes a mapping; *)
(* except for processes whose INSERT was refused, and for the paths a      *)
(* refused process's operation took first.  Its renames are lost (Parsed). *)
ExecIsWhole ==
    \A e \in disk.execs : LET b == e.req.body IN
        /\ \A n \in DOMAIN b.procs : <<e.req.ts, n>> \notin refused =>
            \E p \in Row(disk, e, n) : \A f \in b.procs[n].paths :
                \E o \in disk.ops : /\ o.proc = p.id /\ o.path = f
                                    /\ o.from = <<e.req.ts, n>> \/ o.from \in refused
        /\ \A m \in b.maps :
            (/\ {m[1], m[2]} \subseteq DOMAIN b.procs
             /\ {<<e.req.ts, m[1]>>, <<e.req.ts, m[2]>>} \cap refused = {}) =>
                \E p \in Row(disk, e, m[1]), q \in Row(disk, e, m[2]) :
                    <<p.id, q.id>> \in disk.maps

(* An operation is stored on the process that made it.  Only a process     *)
(* refused for want of its environment's pair, or of its exec's row, has   *)
(* its operations on rows of other processes.                              *)
OperationsBelong ==
    \A o \in disk.ops : o.from \in refused \/
        \E e \in disk.execs : /\ e.req.ts = o.from[1]
                              /\ \E p \in Row(disk, e, o.from[2]) : p.id = o.proc

(* With distinct keys, no kill and no exec after its job's end, the worker *)
(* never meets an exec without a connection.                               *)
StaysUp == up

(* Every acknowledged request is taken off the queues.                     *)
RequestsAreServed ==
    \A n \in 1..MaxPosts :
        (\E i \in 1..Len(Inbox) : Inbox[i].ts = n) ~>
            (\A i \in 1..Len(Inbox) : Inbox[i].ts # n)

(* The end a job posted is stored in time, unless the job starts again.    *)
EndIsStored ==
    \A j \in Job : (phase[j] = "ended") ~>
        (phase[j] = "running" \/ (disk.jobs[j] # NoJob /\ disk.jobs[j].end # 0))
=============================================================================
