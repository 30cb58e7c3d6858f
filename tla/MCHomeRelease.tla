--------------------------- MODULE MCHomeRelease ---------------------------
(* Instances of HomeRelease for TLC. *)
EXTENDS HomeRelease

=============================================================================
