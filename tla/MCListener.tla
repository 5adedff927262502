----------------------------- MODULE MCListener -----------------------------
(* One listener, of either kind, with a handful of connections from two hosts. *)
EXTENDS Listener
=============================================================================
