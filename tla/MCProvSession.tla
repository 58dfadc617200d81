---------------------------- MODULE MCProvSession ----------------------------
(* Instances of ProvSession for TLC.                                       *)
EXTENDS ProvSession, TLC

CONSTANTS e1, e2, k1

TwoExecs == {e1, e2}
OneChild == (e1 :> {k1}) @@ (e2 :> {})
=============================================================================
