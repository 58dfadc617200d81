---------------------------- MODULE MCProcessTree ----------------------------
(* Instances of ProcessTree for TLC.                                       *)
EXTENDS ProcessTree

CONSTANTS q0, q1, q2, sh, x, y

TwoPids == {q0, q1}
ThreePids == {q0, q1, q2}
TwoPrograms == {sh, x}
ThreePrograms == {sh, x, y}
NoThresholds == {}
\* As with 13 pids in libstdc++.
SmallThresholds == {2}
\* No program but the shell's is told apart.
AlikePrograms == Permutations({x, y})
\* Nor are the processes that are forked.
AlikePids == Permutations({q1, q2})
Alike == AlikePrograms \cup AlikePids
=============================================================================
