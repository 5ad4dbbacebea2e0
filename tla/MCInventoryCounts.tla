-------------------------- MODULE MCInventoryCounts --------------------------
(* Two tasks, their confirmations by two requests at once.                  *)
EXTENDS InventoryCounts, TLC

Symmetry == Permutations(Tasks) \cup Permutations(Commands)
            \cup Permutations(Tokens) \cup Permutations(Workers)
=============================================================================
