------------------------------ MODULE MCRetriever ------------------------------
(* Instances of Retriever for TLC.                                         *)
EXTENDS Retriever

CONSTANTS e1, e2, i1, i2, a, b, below, bare, c1, c2

TwoExecs == {e1, e2}
TwoIds == {i1, i2}
Paths == {a, b, below, bare}
UnderRoot == {a, b, below}
Named == {bare}
\* below would be in a directory a.
Tree == [path \in Paths |-> IF path = below THEN {a} ELSE {}]
TwoContents == <<c1, c2>>
OneFile == [path \in Paths |-> IF path = a THEN c1 ELSE Absent]
AllKinds == {"READ", "WRITE", "UNLINK", "RENAME", "TRANSFER"}
\* Execs are numbered as they post; processes have no names elsewhere.
Alike == Permutations({e1, e2}) \cup Permutations({i1, i2})
\* A restore no longer reads what the execs were made of.
View ==
    IF retrieval = Nowhere THEN vars
    ELSE <<workspace, stored, snapshots, artifacts, lost, wrong, calls, retrieval, odd>>
=============================================================================
