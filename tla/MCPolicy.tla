------------------------------ MODULE MCPolicy ------------------------------
(***************************************************************************)
(* Small instances of Policy for TLC.                                      *)
(***************************************************************************)
EXTENDS Policy

CONSTANTS q1, q2, t1

MCRequest == {q1, q2}
MCTurn    == {t1}
MCWriter  == MCRequest \cup MCTurn
MCInside  == {<<"src", "src/main">>}
MCBefore == {[profile |-> "build", tool |-> "edit", prefix |-> "src",
              decision |-> "allow", id |-> 1]}
Symmetry == Permutations(MCRequest)
=============================================================================
