------------------------------ MODULE MCRemote ------------------------------
(* A small instance of Remote for TLC. *)
EXTENDS Remote
=============================================================================
