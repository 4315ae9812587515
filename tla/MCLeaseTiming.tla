--------------------------- MODULE MCLeaseTiming ---------------------------
(* Instances of LeaseTiming for TLC, in seconds. *)
EXTENDS LeaseTiming, TLC

CONSTANTS k1, k2

UpToSix == {-6, 0, 6}
Symmetry == Permutations(Coordinators)
=============================================================================
