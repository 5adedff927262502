----------------------------- MODULE NodeLeases -----------------------------
(***************************************************************************)
(* What NodePool and Roster together promise the rest of the board: a      *)
(* session leases the lowest free node number, may be shown on it in the   *)
(* who's-online list, and gives the number back only once it is no longer  *)
(* shown.  Sessions implements this specification.                         *)
(***************************************************************************)
EXTENDS Naturals

CONSTANTS Handles, MaxNodes

VARIABLES lease,  \* the set of <<node, handle>> pairs leased
          shown   \* the set of <<node, handle>> pairs in who's-online

vars == <<lease, shown>>

Nodes == 1..MaxNodes

Taken(n) == \E h \in Handles : <<n, h>> \in lease

Init == lease = {} /\ shown = {}

Seize(n, h) ==
  /\ ~ Taken(n)
  /\ \A m \in 1..(n - 1) : Taken(m)
  /\ lease' = lease \cup {<<n, h>>}
  /\ UNCHANGED shown

Show(n, h) ==
  /\ <<n, h>> \in lease \ shown
  /\ shown' = shown \cup {<<n, h>>}
  /\ UNCHANGED lease

Hide(n, h) ==
  /\ <<n, h>> \in shown
  /\ shown' = shown \ {<<n, h>>}
  /\ UNCHANGED lease

Free(n, h) ==
  /\ <<n, h>> \in lease \ shown
  /\ lease' = lease \ {<<n, h>>}
  /\ UNCHANGED shown

Next == \E n \in Nodes, h \in Handles :
          Seize(n, h) \/ Show(n, h) \/ Hide(n, h) \/ Free(n, h)

Spec == Init /\ [][Next]_vars
=============================================================================
