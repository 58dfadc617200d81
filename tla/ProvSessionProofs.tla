------------------------- MODULE ProvSessionProofs -------------------------
(* Theorems about ProvSession, for every number of execs and processes.    *)
EXTENDS ProvSession, TLAPS

\* A process belongs to the exec it is paired with.
LEMMA ProcOwner ==
    /\ \A p \in Proc : p[1] \in Exec /\ p[1] \in Cmd /\ p \in Own(p[1])
    /\ \A c \in Cmd : \A p \in Own(c) : p \in Proc /\ p[1] = c /\ c \in Exec
    /\ \A e \in Exec : <<e, Shell>> \in Own(e)
  BY ProvSessionAssumption DEF Proc, Own, Cmd

LEMMA InitType == Init => TypeOK
<1> SUFFICES ASSUME Init PROVE TypeOK
  OBVIOUS
<1>1. Listed = {}
  BY DEF Init, Listed
<1> QED
  BY <1>1 DEF Init, TypeOK

LEMMA NextType == TypeOK /\ [Next]_vars => TypeOK'
<1> SUFFICES ASSUME TypeOK, [Next]_vars PROVE TypeOK'
  OBVIOUS
<1> USE ProcOwner DEF TypeOK, Goto, UsesDir, Finished, Listed, Cmd
<1>1. CASE UNCHANGED vars
  BY <1>1 DEF vars, dirVars, observers
<1>2. ASSUME Next PROVE disturbed' \in [Cmd -> BOOLEAN]
  BY <1>2 DEF Next, Observe
<1>3. ASSUME NEW c \in Cmd, ProvStep(c), Next PROVE TypeOK'
  <2> USE <1>2, <1>3
  <2>1. CASE RemoveAll(c)
    BY <2>1 DEF RemoveAll, dirVars
  <2>2. CASE RemoveFile(c)
    BY <2>2 DEF RemoveFile
  <2>3. CASE RemovedAll(c)
    <3>1. CASE dir /\ Listed # {}
      BY <2>3, <3>1 DEF RemovedAll
    <3>2. CASE ~(dir /\ Listed # {})
      <4>1. Listed = {} /\ files' = files
        BY <2>3, <3>2 DEF RemovedAll
      <4>2. dir' = FALSE /\ pc' = [pc EXCEPT ![c] = "done"]
        BY <2>3, <3>2 DEF RemovedAll
      <4>3. Listed' = {}
        BY <4>1
      <4> QED
        BY <2>3, <4>2, <4>3 DEF RemovedAll
    <3> QED
      BY <3>1, <3>2
  <2>4. CASE c \in Exec /\ ForkShell(c)
    BY <2>4 DEF ForkShell, dirVars
  <2>5. CASE c \in Exec /\ WaitPid(c)
    BY <2>5 DEF WaitPid, dirVars, Own
  <2>6. CASE c \in Exec /\ OpenDirectory(c)
    BY <2>6 DEF OpenDirectory, dirVars
  <2>7. CASE c \in Exec /\ ParseFile(c)
    BY <2>7 DEF ParseFile, dirVars
  <2>8. CASE c \in Exec /\ ParseThrows(c)
    BY <2>8 DEF ParseThrows, dirVars
  <2>9. CASE c \in Exec /\ ParsedAll(c)
    BY <2>9 DEF ParsedAll, dirVars
  <2> QED
    BY <2>1, <2>2, <2>3, <2>4, <2>5, <2>6, <2>7, <2>8, <2>9 DEF ProvStep
<1>4. ASSUME NEW c \in Cmd, KillProv(c), Next PROVE TypeOK'
  BY <1>2, <1>4 DEF KillProv, dirVars
<1>5. ASSUME ScriptStep, Next PROVE TypeOK'
  <2>1. CASE StartJob
    BY <1>2, <1>5, <2>1 DEF StartJob
  <2>2. CASE RunEnd
    BY <1>2, <1>5, <2>2 DEF RunEnd, ScriptAtPrompt, dirVars
  <2>3. ASSUME NEW e \in Exec, CreateDirectory(e) PROVE TypeOK'
    BY <1>2, <1>5, <2>3 DEF CreateDirectory, ScriptAtPrompt
  <2> QED
    BY <1>5, <2>1, <2>2, <2>3 DEF ScriptStep
<1>6. ASSUME NEW p \in Proc, ProcessStep(p), Next PROVE TypeOK'
  <2>1. CASE OpenFile(p)
    BY <1>2, <1>6, <2>1 DEF OpenFile
  <2>2. CASE WriteFile(p)
    BY <1>2, <1>6, <2>2 DEF WriteFile
  <2>3. ASSUME NEW q \in Proc, ForkChild(p, q) PROVE TypeOK'
    BY <1>2, <1>6, <2>3 DEF ForkChild, dirVars
  <2> QED
    BY <1>6, <2>1, <2>2, <2>3 DEF ProcessStep
<1> QED
  BY <1>1, <1>3, <1>4, <1>5, <1>6 DEF Next

(* Every variable keeps its type, and without a directory there are no files. *)
THEOREM TypeCorrect == Spec => []TypeOK
<1>1. Init => TypeOK
  BY InitType
<1>2. TypeOK /\ [Next]_vars => TypeOK'
  BY NextType
<1> QED
  BY <1>1, <1>2, PTL DEF Spec
-----------------------------------------------------------------------------
(* The inductive invariant.  p[1] is the exec whose command p belongs to. *)

Early == {"fork", "wait", "list", "read"}
Left(p) == p \in Alive \cup Listed

\* Before its shell runs a command has no process, and its prov has seen none.
LifeInv ==
    /\ \A p \in Proc : pc[p[1]] \in {"idle", "fork"} => proc[p] = "unborn" /\ files[p] = "none"
    /\ \A e \in Exec : pc[e] \in {"idle", "fork", "wait"} => ~outlived[e] /\ reaped[e] = {}
    /\ \A e \in Exec : pc[e] \in {"idle", "fork", "wait", "list"} => events[e] = {}

\* A process runs under a prov that waits for the shell, or was killed, or that
\* it outlives.
AliveInv == \A p \in Alive : pc[p[1]] \in {"wait", "killed"} \/ outlived[p[1]]

\* What was reaped has exited; unless a process outlived the shell, it is all that did.
ReapedInv ==
    /\ \A e \in Exec : \A p \in reaped[e] : p[1] = e /\ proc[p] = "exited"
    /\ \A p \in Proc :
        (/\ pc[p[1]] \notin {"idle", "fork", "wait", "killed"}
         /\ ~outlived[p[1]]
         /\ proc[p] = "exited") => p \in reaped[p[1]]

\* A command that is not marked as disturbed is alone.
AloneInv == \A c \in Cmd : pc[c] \in UsesDir /\ ~disturbed[c] => ~Foreign(c)

\* Until it removes them an undisturbed exec finds the directory and the files.
FilesThere(e) ==
    /\ dir
    /\ \A p \in Proc : p[1] = e => /\ proc[p] = "opened" => files[p] = "empty"
                                   /\ proc[p] = "exited" => files[p] = "whole"
FileInv == \A e \in Exec : pc[e] \in Early /\ ~disturbed[e] => FilesThere(e)

\* What an undisturbed exec has read and has yet to read are its own processes'
\* files, and all of those it reaped.
AllInSight(e) ==
    /\ \A p \in reaped[e] : p \in events[e] \/ p \in listing[e]
    /\ \A p \in listing[e] : p[1] = e /\ files[p] # "none"
    /\ \A p \in events[e] : p[1] = e
AllRead(e) == \A p \in Proc : /\ p \in reaped[e] => p \in events[e]
                              /\ p \in events[e] => p[1] = e
ReadInv == \A e \in Exec : ~disturbed[e] =>
    /\ pc[e] = "read" => AllInSight(e)
    /\ pc[e] \in {"remove_list", "remove", "done"} => AllRead(e)

\* Nothing is added to what an undisturbed command removes.
RemoveInv == \A c \in Cmd :
    (pc[c] = "remove" /\ ~disturbed[c] /\ (c \in Exec => ~outlived[c])) =>
        \A p \in Listed : p \in listing[c]

\* A script without background commands runs one at a time.
OrderInv == background \/ \A c, d \in Cmd : pc[c] \in UsesDir /\ pc[d] \in UsesDir => c = d

\* An exec that has posted leaves nothing behind, unless a process outlived it.
DoneInv == \A p \in Proc : pc[p[1]] = "done" => outlived[p[1]] \/ ~Left(p)

\* What a finished exec leaves behind goes back to an outliving process or a kill.
CauseInv == background \/ \A p \in Proc : (pc[p[1]] \in Finished /\ Left(p)) =>
    \E d \in Exec : pc[d] \in Finished /\ (outlived[d] \/ pc[d] = "killed")

LocalInv == LifeInv /\ AliveInv /\ ReapedInv /\ DoneInv

(* What holds of an exec and its processes whoever else there is.          *)
LEMMA LocalNext == TypeOK /\ LocalInv /\ [Next]_vars => LocalInv'
<1> SUFFICES ASSUME TypeOK /\ LocalInv, [Next]_vars PROVE LocalInv'
  OBVIOUS
<1> USE ProcOwner
        DEF TypeOK, LocalInv, LifeInv, AliveInv, ReapedInv, DoneInv, Left, Cmd, Own,
            Goto, UsesDir, Finished, Listed, Alive
<1>1. CASE UNCHANGED vars
  BY <1>1 DEF vars, dirVars, observers
<1>2. ASSUME NEW c \in Cmd, RemoveAll(c) PROVE LocalInv'
  BY <1>2 DEF RemoveAll, dirVars
<1>3. ASSUME NEW c \in Cmd, RemoveFile(c) PROVE LocalInv'
  BY <1>3 DEF RemoveFile, dirVars
<1>4. ASSUME NEW c \in Cmd, RemovedAll(c) PROVE LocalInv'
  BY <1>4 DEF RemovedAll, dirVars
<1>5. ASSUME NEW c \in Exec, ForkShell(c) PROVE LocalInv'
  BY <1>5 DEF ForkShell, dirVars
<1>6. ASSUME NEW c \in Exec, WaitPid(c) PROVE LocalInv'
  <2> USE <1>6 DEF WaitPid, dirVars
  <2>1. LifeInv'
    OBVIOUS
  <2>2. AliveInv'
    <3>1. ASSUME NEW p \in Alive, p[1] = c PROVE outlived'[c]
      <4>1. p \in Own(c) \cap Alive
        BY <3>1
      <4>2. Own(c) \cap Alive # {}
        BY ONLY <4>1
      <4>3. /\ outlived \in [Exec -> BOOLEAN] /\ c \in Exec
            /\ outlived' = [outlived EXCEPT ![c] = Own(c) \cap Alive # {}]
        BY <1>6
      <4> QED
        BY ONLY <4>2, <4>3, Zenon
    <3>2. \A p \in Alive : p[1] # c => outlived'[p[1]] = outlived[p[1]] /\ pc'[p[1]] = pc[p[1]]
      OBVIOUS
    <3>3. Alive' = Alive
      OBVIOUS
    <3> QED
      BY <3>1, <3>2, <3>3
  <2>3. ReapedInv'
    OBVIOUS
  <2>4. DoneInv'
    OBVIOUS
  <2> QED
    BY <2>1, <2>2, <2>3, <2>4
<1>7. ASSUME NEW c \in Exec, OpenDirectory(c) PROVE LocalInv'
  BY <1>7 DEF OpenDirectory, dirVars
<1>8. ASSUME NEW c \in Exec, ParseFile(c) PROVE LocalInv'
  BY <1>8 DEF ParseFile, dirVars
<1>9. ASSUME NEW c \in Exec, ParseThrows(c) PROVE LocalInv'
  BY <1>9 DEF ParseThrows, dirVars
<1>10. ASSUME NEW c \in Exec, ParsedAll(c) PROVE LocalInv'
  BY <1>10 DEF ParsedAll, dirVars
<1>11. ASSUME NEW c \in Cmd, KillProv(c) PROVE LocalInv'
  BY <1>11 DEF KillProv, dirVars
<1>12. ASSUME StartJob PROVE LocalInv'
  BY <1>12 DEF StartJob, dirVars
<1>13. ASSUME RunEnd PROVE LocalInv'
  BY <1>13 DEF RunEnd, ScriptAtPrompt, dirVars
<1>14. ASSUME NEW c \in Exec, CreateDirectory(c) PROVE LocalInv'
  BY <1>14 DEF CreateDirectory, ScriptAtPrompt, dirVars
<1>15. ASSUME NEW p \in Proc, OpenFile(p) PROVE LocalInv'
  BY <1>15 DEF OpenFile, dirVars
<1>16. ASSUME NEW p \in Proc, WriteFile(p) PROVE LocalInv'
  BY <1>16 DEF WriteFile, dirVars
<1>17. ASSUME NEW p \in Proc, NEW q \in Proc, ForkChild(p, q) PROVE LocalInv'
  BY <1>17 DEF ForkChild, dirVars
<1> QED
  BY <1>1, <1>2, <1>3, <1>4, <1>5, <1>6, <1>7, <1>8, <1>9, <1>10, <1>11, <1>12,
     <1>13, <1>14, <1>15, <1>16, <1>17
     DEF Next, ProvStep, ScriptStep, ProcessStep

LEMMA OrderNext == TypeOK /\ OrderInv /\ [Next]_vars => OrderInv'
<1> SUFFICES ASSUME TypeOK /\ OrderInv, [Next]_vars PROVE OrderInv'
  OBVIOUS
<1> USE ProcOwner DEF TypeOK, OrderInv, Goto, UsesDir, Finished, Listed, Alive, Cmd
<1>1. CASE UNCHANGED vars
  BY <1>1 DEF vars, dirVars, observers
<1>2. ASSUME NEW c \in Cmd, RemoveAll(c) PROVE OrderInv'
  BY <1>2 DEF RemoveAll, dirVars
<1>3. ASSUME NEW c \in Cmd, RemoveFile(c) PROVE OrderInv'
  BY <1>3 DEF RemoveFile, dirVars
<1>4. ASSUME NEW c \in Cmd, RemovedAll(c) PROVE OrderInv'
  BY <1>4 DEF RemovedAll, dirVars
<1>5. ASSUME NEW c \in Exec, ForkShell(c) PROVE OrderInv'
  BY <1>5 DEF ForkShell, dirVars
<1>6. ASSUME NEW c \in Exec, WaitPid(c) PROVE OrderInv'
  BY <1>6 DEF WaitPid, dirVars
<1>7. ASSUME NEW c \in Exec, OpenDirectory(c) PROVE OrderInv'
  BY <1>7 DEF OpenDirectory, dirVars
<1>8. ASSUME NEW c \in Exec, ParseFile(c) PROVE OrderInv'
  BY <1>8 DEF ParseFile, dirVars
<1>9. ASSUME NEW c \in Exec, ParseThrows(c) PROVE OrderInv'
  BY <1>9 DEF ParseThrows, dirVars
<1>10. ASSUME NEW c \in Exec, ParsedAll(c) PROVE OrderInv'
  BY <1>10 DEF ParsedAll, dirVars
<1>11. ASSUME NEW c \in Cmd, KillProv(c) PROVE OrderInv'
  BY <1>11 DEF KillProv, dirVars
<1>12. ASSUME StartJob PROVE OrderInv'
  BY <1>12 DEF StartJob, dirVars
<1>13. ASSUME RunEnd PROVE OrderInv'
  BY <1>13 DEF RunEnd, ScriptAtPrompt, dirVars
<1>14. ASSUME NEW c \in Exec, CreateDirectory(c) PROVE OrderInv'
  BY <1>14 DEF CreateDirectory, ScriptAtPrompt, dirVars
<1>15. ASSUME NEW p \in Proc, OpenFile(p) PROVE OrderInv'
  BY <1>15 DEF OpenFile, dirVars
<1>16. ASSUME NEW p \in Proc, WriteFile(p) PROVE OrderInv'
  BY <1>16 DEF WriteFile, dirVars
<1>17. ASSUME NEW p \in Proc, NEW q \in Proc, ForkChild(p, q) PROVE OrderInv'
  BY <1>17 DEF ForkChild, dirVars
<1> QED
  BY <1>1, <1>2, <1>3, <1>4, <1>5, <1>6, <1>7, <1>8, <1>9, <1>10, <1>11, <1>12,
     <1>13, <1>14, <1>15, <1>16, <1>17
     DEF Next, ProvStep, ScriptStep, ProcessStep

LEMMA DisturbedStays == TypeOK /\ [Next]_vars => \A c \in Cmd : disturbed[c] => disturbed'[c]
  BY DEF TypeOK, Next, Observe, vars, observers

\* Observe marks whoever is not alone.
LEMMA DisturbedSince ==
    TypeOK /\ [Next]_vars => \A c \in Cmd : disturbed'[c] =>
        disturbed[c] \/ (pc'[c] \in UsesDir /\ Foreign(c)')
  BY DEF TypeOK, Next, Observe, vars, observers

LEMMA AloneNext == TypeOK /\ AloneInv /\ [Next]_vars => AloneInv'
<1> SUFFICES ASSUME TypeOK, AloneInv, [Next]_vars PROVE AloneInv'
  OBVIOUS
<1>1. CASE UNCHANGED vars
  BY <1>1 DEF AloneInv, Foreign, Alive, Listed, vars, dirVars, observers
<1>2. CASE Next
  <2>1. \A c \in Cmd : disturbed'[c] = (disturbed[c] \/ (pc'[c] \in UsesDir /\ Foreign(c)'))
    BY <1>2 DEF Next, Observe, TypeOK
  <2> QED
    BY <2>1 DEF AloneInv
<1> QED
  BY <1>1, <1>2

\* Whom an undisturbed command does not meet.
Alone(c) == /\ \A d \in Cmd : d # c => pc[d] \notin UsesDir
            /\ \A p \in Proc : p[1] # c => proc[p] \in {"unborn", "exited"} /\ files[p] = "none"

LEMMA AloneMeans ==
    ASSUME TypeOK, AloneInv, NEW c \in Cmd, pc[c] \in UsesDir, ~disturbed[c]
    PROVE  Alone(c)
  BY DEF TypeOK, AloneInv, Alone, Foreign, Alive, Listed, Own

LEMMA AloneMeansNext ==
    ASSUME TypeOK', AloneInv', NEW c \in Cmd, pc'[c] \in UsesDir, ~disturbed'[c]
    PROVE  Alone(c)'
  BY DEF TypeOK, AloneInv, Alone, Foreign, Alive, Listed, Own

(* What holds of a command b that a step leaves undisturbed: nobody else is *)
(* at the directory, so only steps of b and of its processes concern it.    *)
LEMMA FilesStay ==
    ASSUME TypeOK, LocalInv, AloneInv, FileInv, [Next]_vars,
           NEW b \in Exec, pc'[b] \in Early, ~disturbed'[b]
    PROVE  FilesThere(b)'
<1> USE ProcOwner
        DEF LocalInv, LifeInv, AliveInv, ReapedInv, Alone, FileInv, FilesThere,
            Early, Goto, UsesDir, Finished, Listed, Alive, Cmd
<1>a. TypeOK' /\ AloneInv' /\ ~disturbed[b] /\ b \in Cmd
  BY NextType, AloneNext, DisturbedStays DEF Cmd
<1>b. pc[b] \in UsesDir => Alone(b)
  BY <1>a, AloneMeans
<1>c. pc'[b] \in UsesDir => Alone(b)'
  BY <1>a, AloneMeansNext
<1> USE <1>a, <1>b, <1>c DEF TypeOK
<1>1. CASE UNCHANGED vars
  BY <1>1 DEF vars, dirVars, observers
<1>2. ASSUME NEW c \in Cmd, RemoveAll(c) PROVE FilesThere(b)'
  BY <1>2 DEF RemoveAll, dirVars
<1>3. ASSUME NEW c \in Cmd, RemoveFile(c) PROVE FilesThere(b)'
  BY <1>3 DEF RemoveFile, dirVars
<1>4. ASSUME NEW c \in Cmd, RemovedAll(c) PROVE FilesThere(b)'
  BY <1>4 DEF RemovedAll, dirVars
<1>5. ASSUME NEW c \in Exec, ForkShell(c) PROVE FilesThere(b)'
  BY <1>5 DEF ForkShell, dirVars
<1>6. ASSUME NEW c \in Exec, WaitPid(c) PROVE FilesThere(b)'
  BY <1>6 DEF WaitPid, dirVars
<1>7. ASSUME NEW c \in Exec, OpenDirectory(c) PROVE FilesThere(b)'
  BY <1>7 DEF OpenDirectory, dirVars
<1>8. ASSUME NEW c \in Exec, ParseFile(c) PROVE FilesThere(b)'
  BY <1>8 DEF ParseFile, dirVars
<1>9. ASSUME NEW c \in Exec, ParseThrows(c) PROVE FilesThere(b)'
  BY <1>9 DEF ParseThrows, dirVars
<1>10. ASSUME NEW c \in Exec, ParsedAll(c) PROVE FilesThere(b)'
  BY <1>10 DEF ParsedAll, dirVars
<1>11. ASSUME NEW c \in Cmd, KillProv(c) PROVE FilesThere(b)'
  BY <1>11 DEF KillProv, dirVars
<1>12. ASSUME StartJob PROVE FilesThere(b)'
  BY <1>12 DEF StartJob, dirVars
<1>13. ASSUME RunEnd PROVE FilesThere(b)'
  BY <1>13 DEF RunEnd, ScriptAtPrompt, dirVars
<1>14. ASSUME NEW c \in Exec, CreateDirectory(c) PROVE FilesThere(b)'
  BY <1>14 DEF CreateDirectory, ScriptAtPrompt, dirVars
<1>15. ASSUME NEW p \in Proc, OpenFile(p) PROVE FilesThere(b)'
  BY <1>15 DEF OpenFile, dirVars
<1>16. ASSUME NEW p \in Proc, WriteFile(p) PROVE FilesThere(b)'
  BY <1>16 DEF WriteFile, dirVars
<1>17. ASSUME NEW p \in Proc, NEW q \in Proc, ForkChild(p, q) PROVE FilesThere(b)'
  BY <1>17 DEF ForkChild, dirVars
<1> QED
  BY <1>1, <1>2, <1>3, <1>4, <1>5, <1>6, <1>7, <1>8, <1>9, <1>10, <1>11, <1>12,
     <1>13, <1>14, <1>15, <1>16, <1>17
     DEF Next, ProvStep, ScriptStep, ProcessStep

LEMMA SightStays ==
    ASSUME TypeOK, LocalInv, AloneInv, FileInv, ReadInv, [Next]_vars,
           NEW b \in Exec, pc'[b] = "read", ~disturbed'[b]
    PROVE  AllInSight(b)'
<1> USE ProcOwner
        DEF LocalInv, LifeInv, AliveInv, ReapedInv, Alone, FileInv, FilesThere,
            ReadInv, AllInSight, Early, Goto, UsesDir, Finished, Listed, Alive, Cmd
<1>a. TypeOK' /\ AloneInv' /\ ~disturbed[b] /\ b \in Cmd
  BY NextType, AloneNext, DisturbedStays DEF Cmd
<1>b. pc[b] \in UsesDir => Alone(b)
  BY <1>a, AloneMeans
<1>c. pc'[b] \in UsesDir => Alone(b)'
  BY <1>a, AloneMeansNext
<1> USE <1>a, <1>b, <1>c DEF TypeOK
<1>1. CASE UNCHANGED vars
  BY <1>1 DEF vars, dirVars, observers
<1>2. ASSUME NEW c \in Cmd, RemoveAll(c) PROVE AllInSight(b)'
  BY <1>2 DEF RemoveAll, dirVars
<1>3. ASSUME NEW c \in Cmd, RemoveFile(c) PROVE AllInSight(b)'
  BY <1>3 DEF RemoveFile, dirVars
<1>4. ASSUME NEW c \in Cmd, RemovedAll(c) PROVE AllInSight(b)'
  BY <1>4 DEF RemovedAll, dirVars
<1>5. ASSUME NEW c \in Exec, ForkShell(c) PROVE AllInSight(b)'
  BY <1>5 DEF ForkShell, dirVars
<1>6. ASSUME NEW c \in Exec, WaitPid(c) PROVE AllInSight(b)'
  BY <1>6 DEF WaitPid, dirVars
<1>7. ASSUME NEW c \in Exec, OpenDirectory(c) PROVE AllInSight(b)'
  BY <1>7 DEF OpenDirectory, dirVars
<1>8. ASSUME NEW c \in Exec, ParseFile(c) PROVE AllInSight(b)'
  BY <1>8 DEF ParseFile, dirVars
<1>9. ASSUME NEW c \in Exec, ParseThrows(c) PROVE AllInSight(b)'
  BY <1>9 DEF ParseThrows, dirVars
<1>10. ASSUME NEW c \in Exec, ParsedAll(c) PROVE AllInSight(b)'
  BY <1>10 DEF ParsedAll, dirVars
<1>11. ASSUME NEW c \in Cmd, KillProv(c) PROVE AllInSight(b)'
  BY <1>11 DEF KillProv, dirVars
<1>12. ASSUME StartJob PROVE AllInSight(b)'
  BY <1>12 DEF StartJob, dirVars
<1>13. ASSUME RunEnd PROVE AllInSight(b)'
  BY <1>13 DEF RunEnd, ScriptAtPrompt, dirVars
<1>14. ASSUME NEW c \in Exec, CreateDirectory(c) PROVE AllInSight(b)'
  BY <1>14 DEF CreateDirectory, ScriptAtPrompt, dirVars
<1>15. ASSUME NEW p \in Proc, OpenFile(p) PROVE AllInSight(b)'
  BY <1>15 DEF OpenFile, dirVars
<1>16. ASSUME NEW p \in Proc, WriteFile(p) PROVE AllInSight(b)'
  BY <1>16 DEF WriteFile, dirVars
<1>17. ASSUME NEW p \in Proc, NEW q \in Proc, ForkChild(p, q) PROVE AllInSight(b)'
  BY <1>17 DEF ForkChild, dirVars
<1> QED
  BY <1>1, <1>2, <1>3, <1>4, <1>5, <1>6, <1>7, <1>8, <1>9, <1>10, <1>11, <1>12,
     <1>13, <1>14, <1>15, <1>16, <1>17
     DEF Next, ProvStep, ScriptStep, ProcessStep

LEMMA ReadStays ==
    ASSUME TypeOK, LocalInv, AloneInv, ReadInv, [Next]_vars,
           NEW b \in Exec, pc'[b] \in {"remove_list", "remove", "done"}, ~disturbed'[b]
    PROVE  AllRead(b)'
<1> USE ProcOwner
        DEF LocalInv, LifeInv, AliveInv, ReapedInv, Alone, ReadInv, AllInSight,
            AllRead, Goto, UsesDir, Finished, Listed, Alive, Cmd
<1>a. TypeOK' /\ AloneInv' /\ ~disturbed[b] /\ b \in Cmd
  BY NextType, AloneNext, DisturbedStays DEF Cmd
<1>b. pc[b] \in UsesDir => Alone(b)
  BY <1>a, AloneMeans
<1>c. pc'[b] \in UsesDir => Alone(b)'
  BY <1>a, AloneMeansNext
<1> USE <1>a, <1>b, <1>c DEF TypeOK
<1>1. CASE UNCHANGED vars
  BY <1>1 DEF vars, dirVars, observers
<1>2. ASSUME NEW c \in Cmd, RemoveAll(c) PROVE AllRead(b)'
  BY <1>2 DEF RemoveAll, dirVars
<1>3. ASSUME NEW c \in Cmd, RemoveFile(c) PROVE AllRead(b)'
  BY <1>3 DEF RemoveFile, dirVars
<1>4. ASSUME NEW c \in Cmd, RemovedAll(c) PROVE AllRead(b)'
  BY <1>4 DEF RemovedAll, dirVars
<1>5. ASSUME NEW c \in Exec, ForkShell(c) PROVE AllRead(b)'
  BY <1>5 DEF ForkShell, dirVars
<1>6. ASSUME NEW c \in Exec, WaitPid(c) PROVE AllRead(b)'
  BY <1>6 DEF WaitPid, dirVars
<1>7. ASSUME NEW c \in Exec, OpenDirectory(c) PROVE AllRead(b)'
  BY <1>7 DEF OpenDirectory, dirVars
<1>8. ASSUME NEW c \in Exec, ParseFile(c) PROVE AllRead(b)'
  BY <1>8 DEF ParseFile, dirVars
<1>9. ASSUME NEW c \in Exec, ParseThrows(c) PROVE AllRead(b)'
  BY <1>9 DEF ParseThrows, dirVars
<1>10. ASSUME NEW c \in Exec, ParsedAll(c) PROVE AllRead(b)'
  BY <1>10 DEF ParsedAll, dirVars
<1>11. ASSUME NEW c \in Cmd, KillProv(c) PROVE AllRead(b)'
  BY <1>11 DEF KillProv, dirVars
<1>12. ASSUME StartJob PROVE AllRead(b)'
  BY <1>12 DEF StartJob, dirVars
<1>13. ASSUME RunEnd PROVE AllRead(b)'
  BY <1>13 DEF RunEnd, ScriptAtPrompt, dirVars
<1>14. ASSUME NEW c \in Exec, CreateDirectory(c) PROVE AllRead(b)'
  BY <1>14 DEF CreateDirectory, ScriptAtPrompt, dirVars
<1>15. ASSUME NEW p \in Proc, OpenFile(p) PROVE AllRead(b)'
  BY <1>15 DEF OpenFile, dirVars
<1>16. ASSUME NEW p \in Proc, WriteFile(p) PROVE AllRead(b)'
  BY <1>16 DEF WriteFile, dirVars
<1>17. ASSUME NEW p \in Proc, NEW q \in Proc, ForkChild(p, q) PROVE AllRead(b)'
  BY <1>17 DEF ForkChild, dirVars
<1> QED
  BY <1>1, <1>2, <1>3, <1>4, <1>5, <1>6, <1>7, <1>8, <1>9, <1>10, <1>11, <1>12,
     <1>13, <1>14, <1>15, <1>16, <1>17
     DEF Next, ProvStep, ScriptStep, ProcessStep

LEMMA RemoveStays ==
    ASSUME TypeOK, LocalInv, AloneInv, RemoveInv, [Next]_vars,
           NEW b \in Cmd, pc'[b] = "remove", ~disturbed'[b], b \in Exec => ~outlived'[b]
    PROVE  \A p \in Listed' : p \in listing'[b]
<1> USE ProcOwner
        DEF LocalInv, LifeInv, AliveInv, ReapedInv, Alone, RemoveInv, Goto, UsesDir,
            Finished, Listed, Alive, Cmd
<1>a. TypeOK' /\ AloneInv' /\ ~disturbed[b] /\ b \in Cmd
  BY NextType, AloneNext, DisturbedStays DEF Cmd
<1>b. pc[b] \in UsesDir => Alone(b)
  BY <1>a, AloneMeans
<1>c. pc'[b] \in UsesDir => Alone(b)'
  BY <1>a, AloneMeansNext
<1> USE <1>a, <1>b, <1>c DEF TypeOK
<1>1. CASE UNCHANGED vars
  BY <1>1 DEF vars, dirVars, observers
<1>2. ASSUME NEW c \in Cmd, RemoveAll(c) PROVE \A p \in Listed' : p \in listing'[b]
  BY <1>2 DEF RemoveAll, dirVars
<1>3. ASSUME NEW c \in Cmd, RemoveFile(c) PROVE \A p \in Listed' : p \in listing'[b]
  BY <1>3 DEF RemoveFile, dirVars
<1>4. ASSUME NEW c \in Cmd, RemovedAll(c) PROVE \A p \in Listed' : p \in listing'[b]
  BY <1>4 DEF RemovedAll, dirVars
<1>5. ASSUME NEW c \in Exec, ForkShell(c) PROVE \A p \in Listed' : p \in listing'[b]
  BY <1>5 DEF ForkShell, dirVars
<1>6. ASSUME NEW c \in Exec, WaitPid(c) PROVE \A p \in Listed' : p \in listing'[b]
  BY <1>6 DEF WaitPid, dirVars
<1>7. ASSUME NEW c \in Exec, OpenDirectory(c)
      PROVE \A p \in Listed' : p \in listing'[b]
  BY <1>7 DEF OpenDirectory, dirVars
<1>8. ASSUME NEW c \in Exec, ParseFile(c) PROVE \A p \in Listed' : p \in listing'[b]
  BY <1>8 DEF ParseFile, dirVars
<1>9. ASSUME NEW c \in Exec, ParseThrows(c) PROVE \A p \in Listed' : p \in listing'[b]
  BY <1>9 DEF ParseThrows, dirVars
<1>10. ASSUME NEW c \in Exec, ParsedAll(c) PROVE \A p \in Listed' : p \in listing'[b]
  BY <1>10 DEF ParsedAll, dirVars
<1>11. ASSUME NEW c \in Cmd, KillProv(c) PROVE \A p \in Listed' : p \in listing'[b]
  BY <1>11 DEF KillProv, dirVars
<1>12. ASSUME StartJob PROVE \A p \in Listed' : p \in listing'[b]
  BY <1>12 DEF StartJob, dirVars
<1>13. ASSUME RunEnd PROVE \A p \in Listed' : p \in listing'[b]
  BY <1>13 DEF RunEnd, ScriptAtPrompt, dirVars
<1>14. ASSUME NEW c \in Exec, CreateDirectory(c)
       PROVE \A p \in Listed' : p \in listing'[b]
  BY <1>14 DEF CreateDirectory, ScriptAtPrompt, dirVars
<1>15. ASSUME NEW p \in Proc, OpenFile(p) PROVE \A f \in Listed' : f \in listing'[b]
  BY <1>15 DEF OpenFile, dirVars
<1>16. ASSUME NEW p \in Proc, WriteFile(p) PROVE \A f \in Listed' : f \in listing'[b]
  BY <1>16 DEF WriteFile, dirVars
<1>17. ASSUME NEW p \in Proc, NEW q \in Proc, ForkChild(p, q)
       PROVE \A f \in Listed' : f \in listing'[b]
  BY <1>17 DEF ForkChild, dirVars
<1> QED
  BY <1>1, <1>2, <1>3, <1>4, <1>5, <1>6, <1>7, <1>8, <1>9, <1>10, <1>11, <1>12,
     <1>13, <1>14, <1>15, <1>16, <1>17
     DEF Next, ProvStep, ScriptStep, ProcessStep

LEMMA DiesStays ==
    ASSUME TypeOK, LocalInv, AloneInv, FileInv, ReadInv, RemoveInv, DiesOfOthers, [Next]_vars,
           NEW b \in Cmd, pc'[b] = "dead", ~disturbed'[b]
    PROVE  b \in Exec /\ outlived'[b]
<1> USE ProcOwner
        DEF LocalInv, LifeInv, AliveInv, ReapedInv, Alone, FileInv, FilesThere,
            ReadInv, AllInSight, RemoveInv, DiesOfOthers, Early, Goto, UsesDir,
            Finished, Listed, Alive, Cmd
<1>a. TypeOK' /\ AloneInv' /\ ~disturbed[b] /\ b \in Cmd
  BY NextType, AloneNext, DisturbedStays DEF Cmd
<1>b. pc[b] \in UsesDir => Alone(b)
  BY <1>a, AloneMeans
<1>c. pc'[b] \in UsesDir => Alone(b)'
  BY <1>a, AloneMeansNext
<1> USE <1>a, <1>b, <1>c DEF TypeOK
<1>1. CASE UNCHANGED vars
  BY <1>1 DEF vars, dirVars, observers
<1>2. ASSUME NEW c \in Cmd, RemoveAll(c) PROVE b \in Exec /\ outlived'[b]
  BY <1>2 DEF RemoveAll, dirVars
<1>3. ASSUME NEW c \in Cmd, RemoveFile(c) PROVE b \in Exec /\ outlived'[b]
  BY <1>3 DEF RemoveFile, dirVars
<1>4. ASSUME NEW c \in Cmd, RemovedAll(c) PROVE b \in Exec /\ outlived'[b]
  BY <1>4 DEF RemovedAll, dirVars
<1>5. ASSUME NEW c \in Exec, ForkShell(c) PROVE b \in Exec /\ outlived'[b]
  BY <1>5 DEF ForkShell, dirVars
<1>6. ASSUME NEW c \in Exec, WaitPid(c) PROVE b \in Exec /\ outlived'[b]
  BY <1>6 DEF WaitPid, dirVars
<1>7. ASSUME NEW c \in Exec, OpenDirectory(c) PROVE b \in Exec /\ outlived'[b]
  BY <1>7 DEF OpenDirectory, dirVars
<1>8. ASSUME NEW c \in Exec, ParseFile(c) PROVE b \in Exec /\ outlived'[b]
  BY <1>8 DEF ParseFile, dirVars
<1>9. ASSUME NEW c \in Exec, ParseThrows(c) PROVE b \in Exec /\ outlived'[b]
  BY <1>9 DEF ParseThrows, dirVars
<1>10. ASSUME NEW c \in Exec, ParsedAll(c) PROVE b \in Exec /\ outlived'[b]
  BY <1>10 DEF ParsedAll, dirVars
<1>11. ASSUME NEW c \in Cmd, KillProv(c) PROVE b \in Exec /\ outlived'[b]
  BY <1>11 DEF KillProv, dirVars
<1>12. ASSUME StartJob PROVE b \in Exec /\ outlived'[b]
  BY <1>12 DEF StartJob, dirVars
<1>13. ASSUME RunEnd PROVE b \in Exec /\ outlived'[b]
  BY <1>13 DEF RunEnd, ScriptAtPrompt, dirVars
<1>14. ASSUME NEW c \in Exec, CreateDirectory(c) PROVE b \in Exec /\ outlived'[b]
  BY <1>14 DEF CreateDirectory, ScriptAtPrompt, dirVars
<1>15. ASSUME NEW p \in Proc, OpenFile(p) PROVE b \in Exec /\ outlived'[b]
  BY <1>15 DEF OpenFile, dirVars
<1>16. ASSUME NEW p \in Proc, WriteFile(p) PROVE b \in Exec /\ outlived'[b]
  BY <1>16 DEF WriteFile, dirVars
<1>17. ASSUME NEW p \in Proc, NEW q \in Proc, ForkChild(p, q)
       PROVE b \in Exec /\ outlived'[b]
  BY <1>17 DEF ForkChild, dirVars
<1> QED
  BY <1>1, <1>2, <1>3, <1>4, <1>5, <1>6, <1>7, <1>8, <1>9, <1>10, <1>11, <1>12,
     <1>13, <1>14, <1>15, <1>16, <1>17
     DEF Next, ProvStep, ScriptStep, ProcessStep

(* A script without background commands: who disturbs, and why.            *)
LEMMA CauseNext ==
    (/\ TypeOK /\ LocalInv /\ OrderInv /\ CauseInv
     /\ DisturbedByOutliving /\ DiesOfOthers' /\ [Next]_vars) => CauseInv'
<1> SUFFICES ASSUME TypeOK, LocalInv, OrderInv, CauseInv,
                    DisturbedByOutliving, DiesOfOthers', [Next]_vars
             PROVE CauseInv'
  OBVIOUS
<1> USE ProcOwner
        DEF TypeOK, LocalInv, LifeInv, AliveInv, DoneInv, OrderInv, CauseInv,
            DisturbedByOutliving, DiesOfOthers, Left, Goto, UsesDir, Finished,
            Listed, Alive, Cmd
<1>1. CASE UNCHANGED vars
  BY <1>1 DEF vars, dirVars, observers
<1>2. ASSUME NEW c \in Cmd, RemoveAll(c) PROVE CauseInv'
  BY <1>2 DEF RemoveAll, dirVars
<1>3. ASSUME NEW c \in Cmd, RemoveFile(c) PROVE CauseInv'
  BY <1>3 DEF RemoveFile, dirVars
<1>4. ASSUME NEW c \in Cmd, RemovedAll(c) PROVE CauseInv'
  <2>1. disturbed'[c] => disturbed[c]
    BY <1>4, DisturbedSince DEF RemovedAll, Goto, UsesDir
  <2>2. ASSUME NEW d \in Exec, d # c, outlived[d]
        PROVE background \/ pc[d] \in Finished
    BY <1>4, <2>2 DEF RemovedAll
  <2>3. ASSUME ~background, pc'[c] = "dead", c \in Exec
        PROVE  \E d \in Exec : pc'[d] \in Finished /\ (outlived'[d] \/ pc'[d] = "killed")
    <3>1. CASE outlived[c]
      BY <1>4, <2>3, <3>1 DEF RemovedAll
    <3>2. CASE ~outlived[c]
      <4>1. disturbed[c]
        BY <1>4, <2>1, <2>3, <3>2 DEF RemovedAll
      <4>2. PICK d \in Exec \ {c} : outlived[d] \/ pc[d] = "killed"
        BY <2>3, <4>1 DEF RemovedAll
      <4>3. pc[d] \in Finished /\ pc'[d] = pc[d] /\ outlived'[d] = outlived[d]
        BY <1>4, <2>2, <2>3, <4>2 DEF RemovedAll
      <4> QED
        BY <4>2, <4>3
    <3> QED
      BY <3>1, <3>2
  <2> QED
    BY <1>4, <2>3 DEF RemovedAll, dirVars
<1>5. ASSUME NEW c \in Exec, ForkShell(c) PROVE CauseInv'
  BY <1>5 DEF ForkShell, dirVars
<1>6. ASSUME NEW c \in Exec, WaitPid(c) PROVE CauseInv'
  BY <1>6 DEF WaitPid, dirVars
<1>7. ASSUME NEW c \in Exec, OpenDirectory(c) PROVE CauseInv'
  BY <1>7 DEF OpenDirectory, dirVars
<1>8. ASSUME NEW c \in Exec, ParseFile(c) PROVE CauseInv'
  BY <1>8 DEF ParseFile, dirVars
<1>9. ASSUME NEW c \in Exec, ParseThrows(c) PROVE CauseInv'
  <2>1. disturbed'[c] => disturbed[c]
    BY <1>9, DisturbedSince DEF ParseThrows, Goto, UsesDir
  <2>2. ASSUME NEW d \in Exec, d # c, outlived[d]
        PROVE background \/ pc[d] \in Finished
    BY <1>9, <2>2 DEF ParseThrows
  <2>3. ASSUME ~background, pc'[c] = "dead", c \in Exec
        PROVE  \E d \in Exec : pc'[d] \in Finished /\ (outlived'[d] \/ pc'[d] = "killed")
    <3>1. CASE outlived[c]
      BY <1>9, <2>3, <3>1 DEF ParseThrows
    <3>2. CASE ~outlived[c]
      <4>1. disturbed[c]
        BY <1>9, <2>1, <2>3, <3>2 DEF ParseThrows
      <4>2. PICK d \in Exec \ {c} : outlived[d] \/ pc[d] = "killed"
        BY <2>3, <4>1 DEF ParseThrows
      <4>3. pc[d] \in Finished /\ pc'[d] = pc[d] /\ outlived'[d] = outlived[d]
        BY <1>9, <2>2, <2>3, <4>2 DEF ParseThrows
      <4> QED
        BY <4>2, <4>3
    <3> QED
      BY <3>1, <3>2
  <2> QED
    BY <1>9, <2>3 DEF ParseThrows, dirVars
<1>10. ASSUME NEW c \in Exec, ParsedAll(c) PROVE CauseInv'
  BY <1>10 DEF ParsedAll, dirVars
<1>11. ASSUME NEW c \in Cmd, KillProv(c) PROVE CauseInv'
  BY <1>11 DEF KillProv, dirVars
<1>12. ASSUME StartJob PROVE CauseInv'
  BY <1>12 DEF StartJob, dirVars
<1>13. ASSUME RunEnd PROVE CauseInv'
  BY <1>13 DEF RunEnd, ScriptAtPrompt, dirVars
<1>14. ASSUME NEW c \in Exec, CreateDirectory(c) PROVE CauseInv'
  BY <1>14 DEF CreateDirectory, ScriptAtPrompt, dirVars
<1>15. ASSUME NEW p \in Proc, OpenFile(p) PROVE CauseInv'
  BY <1>15 DEF OpenFile, dirVars
<1>16. ASSUME NEW p \in Proc, WriteFile(p) PROVE CauseInv'
  BY <1>16 DEF WriteFile, dirVars
<1>17. ASSUME NEW p \in Proc, NEW q \in Proc, ForkChild(p, q) PROVE CauseInv'
  BY <1>17 DEF ForkChild, dirVars
<1> QED
  BY <1>1, <1>2, <1>3, <1>4, <1>5, <1>6, <1>7, <1>8, <1>9, <1>10, <1>11, <1>12,
     <1>13, <1>14, <1>15, <1>16, <1>17
     DEF Next, ProvStep, ScriptStep, ProcessStep

\* What a step never takes back.
MarksStay == /\ background => background'
             /\ \A e \in Exec : outlived[e] => outlived'[e]
             /\ \A e \in Exec : pc[e] = "killed" => pc'[e] = "killed"

LEMMA MarksNext == TypeOK /\ LifeInv /\ [Next]_vars => MarksStay
<1> SUFFICES ASSUME TypeOK /\ LifeInv, [Next]_vars PROVE MarksStay
  OBVIOUS
<1> USE ProcOwner
        DEF TypeOK, LifeInv, MarksStay, Goto, UsesDir, Finished, Listed, Alive, Cmd
<1>1. CASE UNCHANGED vars
  BY <1>1 DEF vars, dirVars, observers
<1>2. ASSUME NEW c \in Cmd, RemoveAll(c) PROVE MarksStay
  BY <1>2 DEF RemoveAll, dirVars
<1>3. ASSUME NEW c \in Cmd, RemoveFile(c) PROVE MarksStay
  BY <1>3 DEF RemoveFile, dirVars
<1>4. ASSUME NEW c \in Cmd, RemovedAll(c) PROVE MarksStay
  BY <1>4 DEF RemovedAll, dirVars
<1>5. ASSUME NEW c \in Exec, ForkShell(c) PROVE MarksStay
  BY <1>5 DEF ForkShell, dirVars
<1>6. ASSUME NEW c \in Exec, WaitPid(c) PROVE MarksStay
  BY <1>6 DEF WaitPid, dirVars
<1>7. ASSUME NEW c \in Exec, OpenDirectory(c) PROVE MarksStay
  BY <1>7 DEF OpenDirectory, dirVars
<1>8. ASSUME NEW c \in Exec, ParseFile(c) PROVE MarksStay
  BY <1>8 DEF ParseFile, dirVars
<1>9. ASSUME NEW c \in Exec, ParseThrows(c) PROVE MarksStay
  BY <1>9 DEF ParseThrows, dirVars
<1>10. ASSUME NEW c \in Exec, ParsedAll(c) PROVE MarksStay
  BY <1>10 DEF ParsedAll, dirVars
<1>11. ASSUME NEW c \in Cmd, KillProv(c) PROVE MarksStay
  BY <1>11 DEF KillProv, dirVars
<1>12. ASSUME StartJob PROVE MarksStay
  BY <1>12 DEF StartJob, dirVars
<1>13. ASSUME RunEnd PROVE MarksStay
  BY <1>13 DEF RunEnd, ScriptAtPrompt, dirVars
<1>14. ASSUME NEW c \in Exec, CreateDirectory(c) PROVE MarksStay
  BY <1>14 DEF CreateDirectory, ScriptAtPrompt, dirVars
<1>15. ASSUME NEW p \in Proc, OpenFile(p) PROVE MarksStay
  BY <1>15 DEF OpenFile, dirVars
<1>16. ASSUME NEW p \in Proc, WriteFile(p) PROVE MarksStay
  BY <1>16 DEF WriteFile, dirVars
<1>17. ASSUME NEW p \in Proc, NEW q \in Proc, ForkChild(p, q) PROVE MarksStay
  BY <1>17 DEF ForkChild, dirVars
<1> QED
  BY <1>1, <1>2, <1>3, <1>4, <1>5, <1>6, <1>7, <1>8, <1>9, <1>10, <1>11, <1>12,
     <1>13, <1>14, <1>15, <1>16, <1>17
     DEF Next, ProvStep, ScriptStep, ProcessStep

LEMMA OutlivingNext ==
    ASSUME TypeOK, LocalInv, DisturbedByOutliving, CauseInv', OrderInv', TypeOK', LocalInv', [Next]_vars
    PROVE  DisturbedByOutliving'
<1> USE ProcOwner DEF TypeOK, Cmd
<1>1. /\ background => background'
      /\ \A e \in Exec : outlived[e] => outlived'[e]
      /\ \A e \in Exec : pc[e] = "killed" => pc'[e] = "killed"
  BY MarksNext DEF LocalInv, MarksStay
<1>2. ASSUME NEW c \in Cmd, disturbed'[c], ~background'
      PROVE  \E e \in Exec \ {c} : outlived'[e] \/ pc'[e] = "killed"
  <2>1. CASE disturbed[c]
    BY <1>1, <1>2, <2>1 DEF DisturbedByOutliving
  <2>2. CASE ~disturbed[c]
    <3>1. pc'[c] \in UsesDir /\ Foreign(c)'
      BY <1>2, <2>2, DisturbedSince
    <3>2. \A d \in Cmd : d # c => pc'[d] \notin UsesDir
      BY <1>2, <3>1 DEF OrderInv
    <3>3. PICK p \in Proc : p[1] # c /\ Left(p)'
      BY <3>1, <3>2 DEF Foreign, Own, Left, Alive, Listed
    <3>4. pc'[p[1]] \in Finished
      BY <3>2, <3>3 DEF LocalInv, LifeInv, Left, Alive, Listed
    <3>5. PICK d \in Exec : pc'[d] \in Finished /\ (outlived'[d] \/ pc'[d] = "killed")
      BY <1>2, <3>3, <3>4 DEF CauseInv
    <3> QED
      BY <3>1, <3>5 DEF UsesDir, Finished
  <2> QED
    BY <2>1, <2>2
<1> QED
  BY <1>2 DEF DisturbedByOutliving

-----------------------------------------------------------------------------
IInv == /\ LocalInv /\ OrderInv /\ AloneInv /\ FileInv /\ ReadInv /\ RemoveInv
        /\ CauseInv /\ DisturbedByOutliving /\ DiesOfOthers

LEMMA InitInv == Init => IInv
<1> SUFFICES ASSUME Init PROVE IInv
  OBVIOUS
<1> USE ProcOwner DEF Init
<1>1. LocalInv
  BY DEF LocalInv, LifeInv, AliveInv, ReapedInv, DoneInv, Alive, Cmd
<1>2. OrderInv /\ AloneInv
  BY DEF OrderInv, AloneInv, UsesDir
<1>3. FileInv /\ ReadInv /\ RemoveInv
  BY DEF FileInv, ReadInv, RemoveInv, Early, Cmd
<1>4. CauseInv /\ DisturbedByOutliving /\ DiesOfOthers
  BY DEF CauseInv, DisturbedByOutliving, DiesOfOthers, Finished, Cmd
<1> QED
  BY <1>1, <1>2, <1>3, <1>4 DEF IInv

LEMMA NextInv == TypeOK /\ IInv /\ [Next]_vars => IInv'
<1> SUFFICES ASSUME TypeOK, IInv, [Next]_vars PROVE IInv'
  OBVIOUS
<1> USE DEF IInv
<1>1. TypeOK' /\ LocalInv' /\ OrderInv' /\ AloneInv'
  BY NextType, LocalNext, OrderNext, AloneNext
<1>2. FileInv'
  BY FilesStay DEF FileInv
<1>3. ReadInv'
  BY SightStays, ReadStays DEF ReadInv
<1>4. RemoveInv'
  BY RemoveStays DEF RemoveInv
<1>5. DiesOfOthers'
  BY DiesStays DEF DiesOfOthers
<1>6. CauseInv'
  BY <1>5, CauseNext
<1>7. DisturbedByOutliving'
  BY <1>1, <1>6, OutlivingNext
<1> QED
  BY <1>1, <1>2, <1>3, <1>4, <1>5, <1>6, <1>7

LEMMA Invariant == Spec => [](TypeOK /\ IInv)
<1>1. Init => TypeOK /\ IInv
  BY InitType, InitInv
<1>2. TypeOK /\ IInv /\ [Next]_vars => (TypeOK /\ IInv)'
  BY NextType, NextInv
<1> QED
  BY <1>1, <1>2, PTL DEF Spec

(* What an exec posts are the events of its own command, and of every one  *)
(* of its processes that had exited when prov's waitpid returned, unless   *)
(* another command or process used the job's directory meanwhile.          *)
THEOREM PostsOwnEvents == Spec => []EventsAreTheCommands
<1>1. TypeOK /\ IInv => EventsAreTheCommands
  BY ProcOwner DEF TypeOK, IInv, EventsAreTheCommands, ReadInv, AllRead, Cmd, Own
<1> QED
  BY <1>1, Invariant, PTL

(* The events of a process that exited are in the directory or with its    *)
(* exec, unless that exec was disturbed, outlived, killed or threw.        *)
THEOREM ExitedStayAccounted == Spec => []ExitedIsAccounted
<1>1. TypeOK /\ IInv => ExitedIsAccounted
  <2> SUFFICES ASSUME TypeOK, IInv, NEW p \in Proc, proc[p] = "exited",
                      ~disturbed[p[1]], ~outlived[p[1]], pc[p[1]] \notin {"dead", "killed"}
               PROVE  files[p] = "whole" \/ p \in events[p[1]]
    BY DEF ExitedIsAccounted
  <2> USE ProcOwner DEF IInv
  <2>1. CASE pc[p[1]] \in {"idle", "fork"}
    BY <2>1 DEF LocalInv, LifeInv
  <2>2. CASE pc[p[1]] \in Early
    BY <2>2 DEF FileInv, FilesThere
  <2>3. CASE pc[p[1]] \in {"remove_list", "remove", "done"}
    BY <2>3 DEF LocalInv, ReapedInv, ReadInv, AllRead
  <2> QED
    BY <2>1, <2>2, <2>3 DEF TypeOK, UsesDir, Finished, Early, Cmd
<1> QED
  BY <1>1, Invariant, PTL

(* A batch script that runs its execs one after the other is disturbed only *)
(* by a process that outlived its shell or by a prov that was killed.       *)
THEOREM DisturbancesHaveCauses == Spec => []DisturbedByOutliving
  BY Invariant, PTL DEF IInv

(* prov throws only where others used its directory or a process of its own *)
(* command went on saving.                                                  *)
THEOREM DeathsHaveCauses == Spec => []DiesOfOthers
  BY Invariant, PTL DEF IInv
=============================================================================
