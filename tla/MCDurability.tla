---------------------------- MODULE MCDurability ----------------------------
(***************************************************************************)
(* Instances of Durability for TLC.                                        *)
(***************************************************************************)
EXTENDS Durability, TLC

CONSTANTS k1, k2, k3

Keys2 == {k1, k2}
Keys3 == {k1, k2, k3}
Interchangeable == Permutations(Key)

\* Everything but an exception between an erase and its note.
Reported == FaultKinds \ {"oom"}
RestartOnly == {"restart"}
NoFaults == {}
=============================================================================
