----------------------------- MODULE MCRoutedWrites -----------------------------
(* Small instance of RoutedWrites: one cheap and one dear request.         *)
EXTENDS RoutedWrites, TLC

CONSTANTS c1, c2, c3, r1, r2, k1, k2, cheap, dear, owner, token

MCCost == (cheap :> 1) @@ (dear :> 2)

CallSymmetry == Permutations(Calls) \cup Permutations(Reconcilers)
================================================================================
