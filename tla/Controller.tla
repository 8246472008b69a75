----------------------------- MODULE Controller -----------------------------
(***************************************************************************)
(* What the tables of the controller of a process have in common.          *)
(***************************************************************************)
CONSTANTS Workers, \* function workers
          None     \* end(), nullptr: no invocation, no request, no entry
=============================================================================
