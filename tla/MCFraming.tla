----------------------------- MODULE MCFraming -----------------------------
(* A small instance of Framing for TLC. *)
EXTENDS Framing, TLC

CONSTANTS m1, m2, m3

\* A long payload, one of a single unit, none.
Sizes == m1 :> 2 @@ m2 :> 1 @@ m3 :> 0
=============================================================================
