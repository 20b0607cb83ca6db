------------------------------ MODULE MCLaunch ------------------------------
(* Instances of SliceLaunch for TLC. *)
EXTENDS SliceLaunch
=============================================================================
