------------------------- MODULE MCAuthPublication -------------------------
(* Instances of AuthPublication for TLC; the goroutines are interchangeable. *)
EXTENDS AuthPublication, TLC

Symmetry == Permutations(Procs)
=============================================================================
