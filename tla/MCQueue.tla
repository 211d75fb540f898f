------------------------------ MODULE MCQueue -------------------------------
(***************************************************************************)
(* Instances of Queue: values from the cfg files.                          *)
(***************************************************************************)
EXTENDS Queue
=============================================================================
