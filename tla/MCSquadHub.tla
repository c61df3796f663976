------------------------------ MODULE MCSquadHub ------------------------------
(***************************************************************************)
(* Small instances of SquadHub for TLC.                                    *)
(***************************************************************************)
EXTENDS SquadHub, TLC

Symmetry == Permutations(Task) \cup Permutations(Operator)
=============================================================================
