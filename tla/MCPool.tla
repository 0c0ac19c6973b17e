------------------------------- MODULE MCPool -------------------------------
(* Model values and symmetry for checking Pool. *)
EXTENDS Pool, TLC

Symmetry == Permutations(Tasks) \cup Permutations(Conns)
=============================================================================
