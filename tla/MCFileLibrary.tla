--------------------------- MODULE MCFileLibrary ----------------------------
EXTENDS FileLibrary, TLC

CONSTANTS ann, bob, s1, s2, n1, n2

\* One member twice, or a member and a SysOp
TwoLogins == {w \in [{s1, s2} -> {ann, bob}] : w # [s \in {s1, s2} |-> bob]}

Symmetric == Permutations({s1, s2}) \cup Permutations({n1, n2})
=============================================================================
