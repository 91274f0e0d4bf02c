------------------------------ MODULE MCEngine ------------------------------
(***************************************************************************)
(* Instances of Engine for TLC.                                            *)
(***************************************************************************)
EXTENDS Engine, TLC

CONSTANTS k1, k2

Keys1 == {k1}
Keys2 == {k1, k2}
Interchangeable == Permutations(Keys2)
OneClass == {0}
TwoClasses == {0, 1}

AnyFault == FaultKinds
NoFaults == {}
=============================================================================
