----------------------------- MODULE MCSessions -----------------------------
(* Sessions on a small board. *)
EXTENDS Sessions, TLC

CONSTANTS c1, c2, c3

\* Callers are interchangeable, and so are members: the safety run takes both up
\* to permutation.
Symmetry == Permutations(Callers) \cup Permutations(Handles)
=============================================================================
