----------------------------- MODULE MCAuditLog -----------------------------
(* The audit trail with a handful of events. *)
EXTENDS AuditLog, TLC

\* An ideal MAC: the MAC of a line is the sequence of events it commits to, so
\* two chains have the same MAC only if they are the same chain.
IdealMAC(prev, ct) == Append(prev, ct)
IdealGenesis == <<>>
IdealJunkMac == <<JunkCt>>

Symmetry == Permutations(Events)
=============================================================================
