------------------------ MODULE MCPurchaseActivation ------------------------
(* Instances of PurchaseActivation; requests of a customer are interchangeable. *)
EXTENDS PurchaseActivation, TLC

RequestSymmetry == Permutations(Requests)

=============================================================================
