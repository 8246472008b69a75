------------------------------- MODULE MCRest -------------------------------
(* A small instance of Rest for TLC. *)
EXTENDS Rest
=============================================================================
