--------------------------- MODULE MCCredentials ----------------------------
(***************************************************************************)
(* An instance of Credentials for TLC: two databases of one server, with   *)
(* the same user, and two processes at a time.                             *)
(***************************************************************************)
EXTENDS Credentials, TLC

CONSTANTS a, b, p1, p2

MCUserOf   == [c \in Conns |-> "u"]
MCHostOf   == [c \in Conns |-> "h"]
MCDbnameOf == [c \in Conns |-> c]

\* Processes are interchangeable.
ProcSymmetry == Permutations(Procs)
=============================================================================
