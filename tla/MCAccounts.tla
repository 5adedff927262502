----------------------------- MODULE MCAccounts -----------------------------
(* Accounts on a board with two handles. *)
EXTENDS Accounts, FiniteSets, TLC

CONSTANTS root, alice, k1, p1, p2, c1, c2, x1

\* Applicants are interchangeable.
Symmetric == Permutations({p1, p2})

\* Bound: two applicants and one menu command, or one and two.
MaxLoad == 3
Load == commands + Cardinality({p \in Applicants : applicant[p].pc # "new"}) <= MaxLoad
=============================================================================
