-------------------------- MODULE MCMaybankAttempts --------------------------
(* Small instances of MaybankAttempts for TLC. *)
EXTENDS MaybankAttempts, TLC

Symmetry == Permutations(Keys) \cup Permutations(Workers) \cup Permutations(Slots)
=============================================================================
