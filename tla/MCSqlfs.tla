------------------------------ MODULE MCSqlfs ------------------------------
(* Small instances of Sqlfs for TLC. *)
EXTENDS Sqlfs, TLC

MCWrites == {<<0, 1>>, <<0, 3>>, <<1, 2>>, <<3, 1>>}
MCLinkTarget == <<7>>
Symmetry == Permutations(Name)
=============================================================================
