----------------------------- MODULE MCContent ------------------------------
EXTENDS Content

CONSTANTS ann, bob, s1, s2

\* One member twice, or a member and a SysOp
TwoLogins == {w \in [{s1, s2} -> {ann, bob}] : w # [s \in {s1, s2} |-> bob]}

Symmetric == Permutations({s1, s2})
=============================================================================
