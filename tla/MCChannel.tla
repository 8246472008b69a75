----------------------------- MODULE MCChannel -----------------------------
(* A small instance of Channel for TLC. *)
EXTENDS Channel

\* A call of get, or one of invoke.
SomeAsks == <<{0}, {1}>>
=============================================================================
