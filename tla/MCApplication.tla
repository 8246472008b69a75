--------------------------- MODULE MCApplication ---------------------------
(* Small instances of Application for TLC. *)
EXTENDS Application, TLC

\* Process objects and names only ever appear in comparisons.
Symmetry == Permutations(Procs) \cup Permutations(Names)
=============================================================================
