----------------------------- MODULE MCReceiver -----------------------------
(* Instances of Receiver for TLC.                                          *)
EXTENDS Receiver, TLC

CONSTANTS j1, j2, j3

TwoJobs == {j1, j2}
DistinctKeys == (j1 :> "1a") @@ (j2 :> "2a")
ThreeJobs == {j1, j2, j3}
\* Job 1 on cluster "2a", job 12 on cluster "a", and another one.
SharedKey == (j1 :> "12a") @@ (j2 :> "12a") @@ (j3 :> "3a")

\* Two processes, one executing the other and something unknown, and a rename.
Paired == [procs |-> [n \in {"a", "b"} |->
                        IF n = "a" THEN [env |-> 101, paths |-> {"f"}]
                        ELSE [env |-> 102, paths |-> {"f", "g"}]],
           pairs |-> {101, 102},
           maps |-> {<<"a", "b">>, <<"a", "x">>},
           renames |-> {<<"g", "f">>}]
\* A process whose first operation was stamped before its START has no pair.
Unpaired == [procs |-> [n \in {"a", ""} |->
                        IF n = "a" THEN [env |-> 101, paths |-> {"f"}]
                        ELSE [env |-> 0, paths |-> {"f"}]],
             pairs |-> {101}, maps |-> {}, renames |-> {}]
PairedOnly == {Paired}
BothBodies == {Paired, Unpaired}
=============================================================================
