---------------------------- MODULE MCFileHistory ----------------------------
(* Instances of FileHistory for TLC.                                       *)
EXTENDS FileHistory

CONSTANTS t1, t2, p1, p2, a, b, c, x, y

TwoThreads == {t1, t2}
OneProcess == {p1}
TwoProcesses == {p1, p2}
OneEach == (t1 :> p1) @@ (t2 :> p2)
BothOfOne == (t1 :> p1) @@ (t2 :> p1)
TwoIds == (p1 :> x) @@ (p2 :> y)
OneId == (p1 :> x) @@ (p2 :> x)
TwoPaths == {a, b}
ThreePaths == {a, b, c}
FirstPath == {a}
ReadWrite == {"READ", "WRITE", "UNLINK", "RENAME"}
AllKinds == {"READ", "WRITE", "UNLINK", "RENAME", "TRANSFER"}

\* The two processes are alike, and so are the two paths that have files.
Swapped(u, v) == (u :> v) @@ (v :> u)
AlikePaths == {Swapped(a, a) @@ Swapped(b, b), Swapped(a, b)}
AlikeProcesses ==
    {Swapped(t1, t1) @@ Swapped(t2, t2) @@ Swapped(p1, p1) @@ Swapped(p2, p2) @@ Swapped(x, x) @@ Swapped(y, y),
     Swapped(t1, t2) @@ Swapped(p1, p2) @@ Swapped(x, y)}
Alike == {f @@ g : f \in AlikePaths, g \in AlikeProcesses}
=============================================================================
