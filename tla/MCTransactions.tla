--------------------------- MODULE MCTransactions ---------------------------
(***************************************************************************)
(* Instances of Transactions: model values from the cfg files.             *)
(***************************************************************************)
EXTENDS Transactions
=============================================================================
