---------------------------- MODULE MCJobLeases ----------------------------
(* Small instances of JobLeases for TLC. *)
EXTENDS JobLeases, TLC

\* Identities are only compared for equality; tokens are ordered and are not permuted.
Symmetry == Permutations(Jobs) \cup Permutations(Workers) \cup Permutations(Slots)
=============================================================================
