------------------------------ MODULE JobStore ------------------------------
(***************************************************************************)
(* What the receiver promises to the clients that post to /prov_api and to *)
(* the tools that read the database: requests it acknowledged take effect  *)
(* one at a time, whole, in the order they were acknowledged, and at most  *)
(* once; a kill forgets the ones that had not taken effect and every open  *)
(* job session, never what was stored, and so does an exec for a session   *)
(* that is not open, when its turn comes; nothing else does.               *)
(***************************************************************************)
EXTENDS Naturals, Sequences

CONSTANTS Job, Request, NoJob,
          KeyOf,       \* job -> the name of its session, which others may have too
          CrashAllowed \* the receiver may be killed

VARIABLES inbox,   \* acknowledged, not in effect yet
          open,    \* keys of the sessions the receiver holds
          jobs,    \* job -> NoJob or [start, end]; end is 0 for a job without one
          execs    \* exec requests stored

vars == <<inbox, open, jobs, execs>>

Init == /\ inbox = <<>>
        /\ open = {}
        /\ jobs = [j \in Job |-> NoJob]
        /\ execs = {}

Accept(r) == /\ inbox' = Append(inbox, r)
             /\ UNCHANGED <<open, jobs, execs>>

Applies(type) == inbox # <<>> /\ Head(inbox).type = type /\ inbox' = Tail(inbox)

ApplyStart ==
    /\ Applies("start")
    /\ LET r == Head(inbox) IN
        /\ open' = open \cup {KeyOf[r.job]}
        /\ jobs' = IF jobs[r.job] = NoJob
                   THEN [jobs EXCEPT ![r.job] = [start |-> r.ts, end |-> 0]]
                   ELSE jobs
    /\ UNCHANGED execs

ApplyExec ==
    /\ Applies("exec")
    /\ KeyOf[Head(inbox).job] \in open
    /\ execs' = execs \cup {r \in {Head(inbox)} : jobs[r.job] # NoJob}
    /\ UNCHANGED <<open, jobs>>

ApplyEnd ==
    /\ Applies("end")
    /\ LET r == Head(inbox) IN
        /\ open' = open \ {KeyOf[r.job]}
        /\ jobs' = IF KeyOf[r.job] \in open /\ jobs[r.job] # NoJob
                   THEN [jobs EXCEPT ![r.job].end = r.ts]
                   ELSE jobs
    /\ UNCHANGED execs

Forget == /\ inbox' = <<>>
          /\ open' = {}
          /\ UNCHANGED <<jobs, execs>>

Crash == CrashAllowed /\ Forget

DieOfExec ==
    /\ inbox # <<>> /\ Head(inbox).type = "exec"
    /\ KeyOf[Head(inbox).job] \notin open
    /\ Forget

Next == \/ \E r \in Request : Accept(r)
        \/ ApplyStart \/ ApplyExec \/ ApplyEnd \/ Crash \/ DieOfExec

Spec == Init /\ [][Next]_vars
=============================================================================
