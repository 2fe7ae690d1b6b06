---------------------------- MODULE MCConnection ----------------------------
(***************************************************************************)
(* Instances of Connection for TLC; the .cfg files give the bounds.        *)
(***************************************************************************)
EXTENDS ConnectionInv
=============================================================================
