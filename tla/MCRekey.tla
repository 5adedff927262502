------------------------------- MODULE MCRekey -------------------------------
(* Key rotation of a board with a few blobs. *)
EXTENDS Rekey, TLC

Symmetry == Permutations(Blobs)
=============================================================================
