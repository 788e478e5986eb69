------------------------ MODULE MCSqlfsTransactions ------------------------
(* A small instance of SqlfsTransactions for TLC. *)
EXTENDS SqlfsTransactions
=============================================================================
