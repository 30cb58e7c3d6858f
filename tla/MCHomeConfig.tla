---------------------------- MODULE MCHomeConfig ----------------------------
(* The Home configuration worker with the bounds of its configurations. *)
EXTENDS HomeConfig

=============================================================================
