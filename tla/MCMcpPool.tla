----------------------------- MODULE MCMcpPool ------------------------------
(***************************************************************************)
(* Instances of McpPool for TLC; the .cfg files give the bounds.           *)
(***************************************************************************)
EXTENDS McpPool, TLC

\* Callers are interchangeable, and so are the sessions' histories of them.
CallerSymmetry == Permutations(Callers)
=============================================================================
