--------------------------- MODULE MCFencingClock ---------------------------
(* Small instances of FencingClock for TLC. *)
EXTENDS FencingClock, TLC

\* Sessions are interchangeable; tokens and times are ordered and are not permuted.
Symmetry == Permutations(Sessions)
=============================================================================
