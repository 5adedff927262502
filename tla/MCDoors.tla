------------------------------ MODULE MCDoors ------------------------------
(* Installed doors on a small board. *)
EXTENDS Doors
=============================================================================
