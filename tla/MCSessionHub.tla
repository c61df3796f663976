---------------------------- MODULE MCSessionHub ----------------------------
(***************************************************************************)
(* Small instances of SessionHub for TLC.                                  *)
(***************************************************************************)
EXTENDS SessionHub, TLC

Symmetry == Permutations(Message) \cup Permutations(Session)
=============================================================================
