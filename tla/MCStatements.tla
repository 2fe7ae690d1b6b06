---------------------------- MODULE MCStatements ----------------------------
(***************************************************************************)
(* Instances of Statements for TLC: a composite type with two fields of a  *)
(* simple user-defined type, and an enum.                                  *)
(***************************************************************************)
EXTENDS Statements, TLC

CONSTANTS comp, simple, enum, t1, t2

MCKindOf  == (comp :> "fields") @@ (simple :> "simple") @@ (enum :> "enum")
MCPartsOf == (comp :> <<simple, simple>>) @@ (simple :> <<>>) @@ (enum :> <<>>)
MCUserQueries == {<<comp>>, <<enum>>}

\* Tasks are interchangeable.
TaskSymmetry == Permutations(Tasks)
=============================================================================
