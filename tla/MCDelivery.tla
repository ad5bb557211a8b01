----------------------------- MODULE MCDelivery -----------------------------
(* Small instances of Delivery for TLC. *)
EXTENDS DeliveryRefinement, TLC

\* Row 1 and row 2 belong to one player, or to two.
OnePlayer == [d \in Deliveries |-> CHOOSE p \in Players : TRUE]
TwoPlayers == CHOOSE f \in [Deliveries -> Players] : \A d, e \in Deliveries : f[d] = f[e] => d = e

\* Daemon processes run the same code.
Symmetry == Permutations(Workers)
=============================================================================
