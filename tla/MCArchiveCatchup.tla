------------------------- MODULE MCArchiveCatchup -------------------------
(* A small instance of ArchiveCatchup for TLC. *)
EXTENDS ArchiveCatchup

\* Any one of the steps of the environment, once.
MCBudget == [step \in EnvStep |-> 1]
=============================================================================
