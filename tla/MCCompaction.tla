---------------------------- MODULE MCCompaction ----------------------------
(***************************************************************************)
(* Instances of Compaction for TLC.                                        *)
(***************************************************************************)
EXTENDS Compaction, TLC

CONSTANTS k1, k2, k3

Keys2 == {k1, k2}
Keys3 == {k1, k2, k3}
Interchangeable == Permutations(Keys2)

\* Everything but a loss of power.
WithoutPowerLoss == {"crash", "barrier", "unlink", "io", "space"}
\* Power is lost, calls fail, but every barrier that returns has worked and the
\* process itself does not die alone.
PowerLossOnly == {"power", "unlink", "io"}
CrashOnly == {"crash"}
CrashAndPower == {"crash", "power"}
=============================================================================
