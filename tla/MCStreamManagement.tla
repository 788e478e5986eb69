------------------------- MODULE MCStreamManagement -------------------------
(* A small instance of StreamManagement for TLC. *)
EXTENDS StreamManagement
=============================================================================
