---------------------------- MODULE ArtifactStore ----------------------------
(***************************************************************************)
(* The artifact store (injector/src/ingester.cpp) under several `prov      *)
(* exec` at once.  A prov hashes the files under its path, looks up each   *)
(* checksum in checksums.db, records the missing ones and copies their     *)
(* files to artifact_files/<checksum>; it does so before its command runs  *)
(* and again, for the files the command wrote, after it.                   *)
(*                                                                         *)
(* Contents stand for their checksum.  Each SELECT and each INSERT is a    *)
(* transaction of its own, and a copy truncates its target before it fills *)
(* it, so these are the steps; between any two of them other provs run,    *)
(* programs change files, and a prov may be killed.                        *)
(***************************************************************************)
EXTENDS Naturals, Sequences

CONSTANTS Prov,          \* prov exec processes
          File,          \* paths
          RootOf,        \* prov -> the files under its path
          Content,       \* contents of files, and their checksums
          Absent,        \* no file
          Partial,       \* a target truncated or written by two copies at once
          FirstContent,  \* what the files hold at first
          MaxChanges,    \* bound: changes of files in a behaviour
          KillAllowed,   \* a prov may be killed
          BusyAllowed    \* SQLite may answer SQLITE_BUSY

ASSUME ArtifactStoreAssumption ==
    /\ RootOf \in [Prov -> SUBSET File]
    /\ FirstContent \in [File -> Content \cup {Absent}]
    /\ Absent \notin Content /\ Partial \notin Content /\ Absent # Partial
    /\ MaxChanges \in Nat
    /\ {KillAllowed, BusyAllowed} \subseteq BOOLEAN

VARIABLES workspace,  \* path -> contents
          rows,       \* checksums.db
          artifacts,  \* artifact_files: checksum -> contents
          pc,         \* where a prov is
          pass,       \* 1: before its command, 2: after it
          todo,       \* paths it has not visited yet
          entries,    \* process_files: the vectors entries and missing
          at,         \* the index i of its loop
          source,     \* contents of the file its copy has open
          written,    \* paths its command wrote
          deleted,    \* paths its command unlinked
          changes,    \* changes of files so far
          stale,      \* observer: paths changed since the prov hashed them
          left,       \* observer: <<path, contents>> as its command left them
          doubted     \* observer: checksums that a fault may have cost their file

storeVars == <<rows, artifacts>>
loopVars == <<todo, entries, at>>
commandVars == <<workspace, written, deleted, changes>>
vars == <<storeVars, pc, pass, loopVars, source, commandVars, stale, left, doubted>>

Entry == [path : File, checksum : Content, missing : BOOLEAN]
Working == {"hash", "select", "insert", "copy", "fill"}
Current(p) == entries[p][at[p]]
InLoop(p) == at[p] <= Len(entries[p])
Entries(p) == {entries[p][i] : i \in 1..Len(entries[p])}

Init ==
    /\ workspace = FirstContent
    /\ rows = {}
    /\ artifacts = [c \in Content |-> Absent]
    /\ pc = [p \in Prov |-> "idle"]
    /\ pass = [p \in Prov |-> 1]
    /\ todo = [p \in Prov |-> {}]
    /\ entries = [p \in Prov |-> <<>>]
    /\ at = [p \in Prov |-> 1]
    /\ source = [p \in Prov |-> Absent]
    /\ written = [p \in Prov |-> {}]
    /\ deleted = [p \in Prov |-> {}]
    /\ changes = 0
    /\ stale = [p \in Prov |-> {}]
    /\ left = [p \in Prov |-> {}]
    /\ doubted = {}
-----------------------------------------------------------------------------
\* Mutant: the vector is not cleared for the second pass.
CollectKeepsEntries(p, files, n) ==
    /\ pc' = [pc EXCEPT ![p] = "hash"]
    /\ pass' = [pass EXCEPT ![p] = n]
    /\ todo' = [todo EXCEPT ![p] = files]
    /\ entries' = entries
    /\ stale' = [stale EXCEPT ![p] = {}]

\* Collecting files.
Collect(p, files, n) ==
    /\ pc' = [pc EXCEPT ![p] = "hash"]
    /\ pass' = [pass EXCEPT ![p] = n]
    /\ todo' = [todo EXCEPT ![p] = files]
    /\ entries' = [entries EXCEPT ![p] = <<>>]
    /\ stale' = [stale EXCEPT ![p] = {}]

Start(p) ==
    /\ pc[p] = "idle"
    /\ Collect(p, RootOf[p], 1)
    /\ UNCHANGED <<storeVars, at, source, commandVars, left, doubted>>

\* add_file: a path that cannot be opened is left out.  The order of the
\* vector is that of an unordered_map, whatever the order of the visits.
Inserted(p, e) ==
    {SubSeq(entries[p], 1, i) \o <<e>> \o SubSeq(entries[p], i + 1, Len(entries[p])) :
        i \in 0..Len(entries[p])}

Visit(p) ==
    /\ pc[p] = "hash"
    /\ \E f \in todo[p] :
        /\ todo' = [todo EXCEPT ![p] = @ \ {f}]
        /\ IF workspace[f] = Absent
           THEN UNCHANGED entries
           ELSE \E s \in Inserted(p, [path |-> f, checksum |-> workspace[f], missing |-> FALSE]) :
                    entries' = [entries EXCEPT ![p] = s]
    /\ UNCHANGED <<storeVars, pc, pass, at, source, commandVars, stale, left, doubted>>
-----------------------------------------------------------------------------
\* process_files.  Another prov that is at the database holds its lock.
Busy(p) == BusyAllowed /\ \E q \in Prov \ {p} : pc[q] \in {"select", "insert"}

\* Mutant: everything is copied again.
SelectNothing(p) ==
    /\ pc[p] = "select" /\ InLoop(p)
    /\ entries' = [entries EXCEPT ![p][at[p]].missing = TRUE]
    /\ at' = [at EXCEPT ![p] = @ + 1]
    /\ UNCHANGED <<storeVars, pc, pass, todo, source, commandVars, stale, left, doubted>>

\* get_missing_checksums: any answer but a row is "missing".
Select(p) ==
    /\ pc[p] = "select" /\ InLoop(p)
    /\ \E missing \in {Current(p).checksum \notin rows} \cup (IF Busy(p) THEN {TRUE} ELSE {}) :
        entries' = [entries EXCEPT ![p][at[p]].missing = missing]
    /\ at' = [at EXCEPT ![p] = @ + 1]
    /\ UNCHANGED <<storeVars, pc, pass, todo, source, commandVars, stale, left, doubted>>

\* insert_missing_checksums ignores the result.
Insert(p) ==
    /\ pc[p] = "insert" /\ InLoop(p)
    /\ rows' \in {rows \cup {e.checksum : e \in {x \in {Current(p)} : x.missing}}}
                 \cup (IF Busy(p) THEN {rows} ELSE {})
    /\ at' = [at EXCEPT ![p] = @ + 1]
    /\ UNCHANGED <<artifacts, pc, pass, todo, entries, source, commandVars, stale, left, doubted>>

CopySkips(p) ==
    /\ pc[p] = "copy" /\ InLoop(p) /\ ~Current(p).missing
    /\ at' = [at EXCEPT ![p] = @ + 1]
    /\ UNCHANGED <<storeVars, pc, pass, todo, entries, source, commandVars, stale, left, doubted>>

\* Mutant: the flag missing is not looked at.
CopyOpensAll(p) ==
    /\ pc[p] = "copy" /\ InLoop(p)
    /\ workspace[Current(p).path] # Absent
    /\ source' = [source EXCEPT ![p] = workspace[Current(p).path]]
    /\ artifacts' = [artifacts EXCEPT ![Current(p).checksum] = Partial]
    /\ pc' = [pc EXCEPT ![p] = "fill"]
    /\ UNCHANGED <<rows, pass, loopVars, commandVars, stale, left, doubted>>

\* fs::copy_file opens the file, then its target with O_TRUNC.
CopyOpens(p) ==
    /\ pc[p] = "copy" /\ InLoop(p) /\ Current(p).missing
    /\ workspace[Current(p).path] # Absent
    /\ source' = [source EXCEPT ![p] = workspace[Current(p).path]]
    /\ artifacts' = [artifacts EXCEPT ![Current(p).checksum] = Partial]
    /\ pc' = [pc EXCEPT ![p] = "fill"]
    /\ UNCHANGED <<rows, pass, loopVars, commandVars, stale, left, doubted>>

\* The contents written are those of a moment between open and close.  Two
\* copies to one target may leave a hole, or a mixture if they differ.
Copied(p, c, contents) ==
    {contents} \cup
    (IF \/ artifacts[c] \notin {Partial, contents}
        \/ \E q \in Prov \ {p} : pc[q] = "fill" /\ Current(q).checksum = c
     THEN {Partial} ELSE {})

CopyFills(p) ==
    LET e == Current(p) IN
    /\ pc[p] = "fill"
    /\ \E contents \in {source[p], workspace[e.path]} \ {Absent} :
        \E result \in Copied(p, e.checksum, contents) :
            artifacts' = [artifacts EXCEPT ![e.checksum] = result]
    /\ doubted' = IF e.path \in stale[p] THEN doubted \cup {e.checksum} ELSE doubted
    /\ source' = [source EXCEPT ![p] = Absent]
    /\ at' = [at EXCEPT ![p] = @ + 1]
    /\ pc' = [pc EXCEPT ![p] = "copy"]
    /\ UNCHANGED <<rows, pass, todo, entries, commandVars, stale, left>>

\* The checksums of the entries whose copy p has yet to finish.
Owed(p) ==
    IF pc[p] \in {"select", "insert", "copy", "fill"}
    THEN {entries[p][i].checksum :
             i \in {j \in 1..Len(entries[p]) :
                      entries[p][j].missing /\ (pc[p] \in {"copy", "fill"} => j >= at[p])}}
    ELSE {}

Dies(p, how) ==
    /\ pc' = [pc EXCEPT ![p] = how]
    /\ doubted' = doubted \cup Owed(p)
    /\ UNCHANGED <<storeVars, pass, loopVars, source, commandVars, stale, left>>

\* Mutant: copy_file with an error_code that is ignored.
CopyThrowsIgnored(p) ==
    /\ pc[p] = "copy" /\ InLoop(p) /\ Current(p).missing
    /\ workspace[Current(p).path] = Absent
    /\ at' = [at EXCEPT ![p] = @ + 1]
    /\ UNCHANGED <<storeVars, pc, pass, todo, entries, source, commandVars, stale, left, doubted>>

\* copy_file throws and nothing catches it.
CopyThrows(p) ==
    /\ pc[p] = "copy" /\ InLoop(p) /\ Current(p).missing
    /\ workspace[Current(p).path] = Absent
    /\ Dies(p, "dead")

\* Mutant: the post is sent before the copies.
NextPhaseEarlyPost(p) ==
    CASE pc[p] = "hash"   -> "select"
      [] pc[p] = "select" -> "insert"
      [] pc[p] = "insert" -> IF pass[p] = 1 THEN "copy" ELSE "done"
      [] pc[p] = "copy"   -> "run"

\* The phase that follows when a loop is done: the command, or the post.
NextPhase(p) ==
    CASE pc[p] = "hash"   -> "select"
      [] pc[p] = "select" -> "insert"
      [] pc[p] = "insert" -> "copy"
      [] pc[p] = "copy"   -> IF pass[p] = 1 THEN "run" ELSE "done"

LoopDone(p) ==
    /\ \/ pc[p] = "hash" /\ todo[p] = {}
       \/ pc[p] \in {"select", "insert", "copy"} /\ ~InLoop(p)
    /\ pc' = [pc EXCEPT ![p] = NextPhase(p)]
    /\ at' = [at EXCEPT ![p] = 1]
    /\ UNCHANGED <<storeVars, pass, todo, entries, source, commandVars, stale, left, doubted>>
-----------------------------------------------------------------------------
\* Programs change files: a prov's command, or one that nobody records.
Change(f, c) ==
    /\ changes < MaxChanges
    /\ workspace[f] # c
    /\ changes' = changes + 1
    /\ workspace' = [workspace EXCEPT ![f] = c]
    /\ stale' = [q \in Prov |->
           IF \E e \in Entries(q) : e.path = f THEN stale[q] \cup {f} ELSE stale[q]]
    /\ left' = [q \in Prov |->
           IF f \in todo[q] THEN {l \in left[q] : l[1] # f} ELSE left[q]]
    /\ UNCHANGED <<storeVars, pc, pass, loopVars, source, doubted>>

CommandWrites(p, f, c) ==
    /\ pc[p] = "run"
    /\ Change(f, c)
    /\ written' = [written EXCEPT ![p] = @ \cup {f}]
    /\ UNCHANGED deleted

CommandUnlinks(p, f) ==
    /\ pc[p] = "run"
    /\ Change(f, Absent)
    /\ deleted' = [deleted EXCEPT ![p] = @ \cup {f}]
    /\ UNCHANGED written

OtherChanges(f, c) == Change(f, c) /\ UNCHANGED <<written, deleted>>

\* collect_files_after_processing: what one process wrote and did not unlink;
\* apart: unlinked, but by processes that did not write it, or not all of them.
Ended(p, apart) == ((written[p] \ deleted[p]) \cup apart) \cap RootOf[p]

CommandEnds(p) ==
    /\ pc[p] = "run"
    /\ \E apart \in SUBSET (written[p] \cap deleted[p]) : Collect(p, Ended(p, apart), 2)
    /\ left' = [left EXCEPT ![p] =
           {<<f, workspace[f]>> : f \in {g \in written[p] \cap RootOf[p] : workspace[g] # Absent}}]
    /\ UNCHANGED <<storeVars, at, source, commandVars, doubted>>

Kill(p) ==
    /\ KillAllowed
    /\ pc[p] \in Working \cup {"run"}
    /\ Dies(p, "killed")
-----------------------------------------------------------------------------
ProvStep(p) ==
    \/ Visit(p) \/ Select(p) \/ Insert(p) \/ CopySkips(p) \/ CopyOpens(p)
    \/ CopyFills(p) \/ CopyThrows(p) \/ LoopDone(p)

CommandStep(p) ==
    \/ Start(p) \/ CommandEnds(p)
    \/ \E f \in File : CommandUnlinks(p, f) \/ \E c \in Content : CommandWrites(p, f, c)

Next ==
    \/ \E p \in Prov : ProvStep(p) \/ CommandStep(p) \/ Kill(p)
    \/ \E f \in File : \E c \in Content \cup {Absent} : OtherChanges(f, c)

Fairness == \A p \in Prov : WF_vars(ProvStep(p))
Spec == Init /\ [][Next]_vars /\ Fairness
-----------------------------------------------------------------------------
TypeOK ==
    /\ workspace \in [File -> Content \cup {Absent}]
    /\ rows \subseteq Content
    /\ artifacts \in [Content -> Content \cup {Absent, Partial}]
    /\ pc \in [Prov -> Working \cup {"idle", "run", "done", "dead", "killed"}]
    /\ pass \in [Prov -> {1, 2}]
    /\ todo \in [Prov -> SUBSET File]
    /\ entries \in [Prov -> Seq(Entry)]
    /\ at \in [Prov -> Nat \ {0}]
    /\ \A p \in Prov : pc[p] = "fill" => InLoop(p) /\ Current(p).missing /\ source[p] \in Content
    /\ source \in [Prov -> Content \cup {Absent}]
    /\ written \in [Prov -> SUBSET File] /\ deleted \in [Prov -> SUBSET File]
    /\ changes \in 0..MaxChanges
    /\ stale \in [Prov -> SUBSET File]
    /\ left \in [Prov -> SUBSET (File \X Content)]
    /\ doubted \subseteq Content

\* The file of a checksum is there, on its way, or a fault is known.
Kept(c) ==
    \/ artifacts[c] = c
    \/ \E p \in Prov : c \in Owed(p)
    \/ c \in doubted

\* A recorded checksum has its file with its contents, or a living prov still
\* copies it, or a copier died or copied a file that had changed: the row is
\* written before the copy, and copies of one target overlap.
RecordedIsKept == \A c \in rows : Kept(c)

\* What the store holds under a checksum and is not being copied has the
\* contents of that checksum, unless a fault is known.
ArtifactsAreTrue ==
    \A c \in Content :
        artifacts[c] \notin {Absent, c} => (c \in doubted \/ \E p \in Prov : c \in Owed(p))

\* When a prov posts, what its command wrote and left under the path of the
\* exec is kept; a path it also unlinked is not, since the flag deleted stays.
WrittenIsKept ==
    \A p \in Prov : pc[p] = "done" =>
        \A l \in left[p] : l[1] \notin deleted[p] => Kept(l[2])

\* A checksum that is recorded, complete and owed by nobody keeps its file; only
\* a lookup that the database refuses has it copied over once more.
Settled(c) == c \in rows /\ artifacts[c] = c /\ \A p \in Prov : c \notin Owed(p)
Refused(p) == pc[p] = "select" /\ Busy(p)
SettledStays ==
    [][\A c \in Content : Settled(c) => Settled(c)' \/ \E p \in Prov : Refused(p)]_vars

\* Every recorded checksum gets its file, unless a fault is known.
RecordedIsStored == \A c \in Content : c \in rows ~> (artifacts[c] = c \/ c \in doubted)
=============================================================================
