--------------------------- MODULE MCInvocations ---------------------------
(* Small instances of Invocations for TLC. *)
EXTENDS Invocations

\* Requests and process objects only ever appear in comparisons.
Symmetry == Permutations(Reqs) \cup Permutations(Procs)
=============================================================================
