----------------------------- MODULE MCServing -----------------------------
(* A small instance of Serving for TLC. *)
EXTENDS Serving
=============================================================================
