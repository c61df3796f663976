----------------------------- MODULE MCSquadPool -----------------------------
(***************************************************************************)
(* Small instances of SquadPool for TLC.                                   *)
(***************************************************************************)
EXTENDS SquadPool, TLC

Symmetry == Permutations(Caller) \cup Permutations(Slot)
=============================================================================
