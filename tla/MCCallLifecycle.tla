-------------------------- MODULE MCCallLifecycle --------------------------
(***************************************************************************)
(* CallLifecycle for TLC.  Handlers and tracks are interchangeable.        *)
(***************************************************************************)
EXTENDS CallLifecycle, TLC

Symmetry == Permutations(Procs) \cup Permutations(Tracks)
=============================================================================
