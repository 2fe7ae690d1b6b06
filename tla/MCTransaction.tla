---------------------------- MODULE MCTransaction ---------------------------
(***************************************************************************)
(* Instances of Transaction for TLC; the .cfg files give the bounds.       *)
(***************************************************************************)
EXTENDS Transaction
=============================================================================
