----------------------------- MODULE MCMailbox -----------------------------
(* Small instances of Mailbox for TLC. *)
EXTENDS Mailbox, TLC

\* Payloads, workers and sources only ever appear in comparisons; AnyProcess and
\* Local are not among them.
Symmetry == Permutations(Payloads) \cup Permutations(Workers) \cup Permutations(Sources)
=============================================================================
