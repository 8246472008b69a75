---------------------------- MODULE MCWorkQueue ----------------------------
(* Small instances of WorkQueue for TLC.  The sets of model values are given  *)
(* in the configurations; no symmetry is used, as the runs check liveness.    *)
EXTENDS WorkQueue
=============================================================================
