----------------------------- MODULE MCInjector -----------------------------
(* Instances of Injector for TLC: processes and threads as model values.   *)
EXTENDS Injector, TLC

CONSTANTS p1, p2, t1, t2

OneProc == {p1}
TwoProcs == {p1, p2}
OneThread == {t1}
TwoThreads == {t1, t2}
=============================================================================
