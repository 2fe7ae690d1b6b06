---------------------------- MODULE MCSyncClient ----------------------------
(***************************************************************************)
(* The instance of SyncClient for TLC.                                     *)
(***************************************************************************)
EXTENDS SyncClient
=============================================================================
