------------------------ MODULE MCInventoryProjection ------------------------
(* All remade lines are of the order a. *)
EXTENDS InventoryProjection

CONSTANTS a

MCAnyKind == [o \in Orders |-> Kinds]
MCRecipesOnly == [o \in Orders |-> {"recipe"}]
MCOrderOf == [r \in Remakes |-> a]

=============================================================================
