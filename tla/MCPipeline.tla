------------------------------ MODULE MCPipeline ------------------------------
(***************************************************************************)
(* Pipeline on a small instance.                                           *)
(***************************************************************************)
EXTENDS Pipeline, TLC

CONSTANTS a, b

\* No change, each kind of change, and two in a row.
SmallOutputs == {
    <<>>,
    <<[op |-> "create", path |-> a]>>,
    <<[op |-> "update", path |-> a], [op |-> "delete", path |-> b]>>}

\* Tasks are alike, to TaskLife as well.  Nothing is asked that needs fairness.
TaskSymmetry == Permutations(Tasks)
=============================================================================
