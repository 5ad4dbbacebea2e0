------------------------- MODULE MCGuidedStockTasks -------------------------
(* Three commands of one kind, sent by two requests at once.                *)
EXTENDS GuidedStockTasks, TLC

Symmetry == Permutations(Commands) \cup Permutations(Requests)
=============================================================================
