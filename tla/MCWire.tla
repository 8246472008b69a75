------------------------------- MODULE MCWire -------------------------------
(* A small instance of Wire for TLC. *)
EXTENDS Wire

SomeNumbers == {-1, 103}
=============================================================================
