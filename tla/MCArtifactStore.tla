--------------------------- MODULE MCArtifactStore ---------------------------
(* Instances of ArtifactStore for TLC.                                     *)
EXTENDS ArtifactStore, TLC

CONSTANTS p1, p2, f1, f2, c1, c2

TwoProvs == {p1, p2}
TwoFiles == {f1, f2}
TwoContents == {c1, c2}
\* One exec on both files, one on the first only.
Nested == (p1 :> {f1, f2}) @@ (p2 :> {f1})
SameContents == (f1 :> c1) @@ (f2 :> c1)
=============================================================================
