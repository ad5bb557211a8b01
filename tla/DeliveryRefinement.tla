------------------------- MODULE DeliveryRefinement -------------------------
(* The delivery queue implements RewardLifecycle. *)
EXTENDS Delivery

\* What the state of a row means for its reward.
PhaseOf(r) ==
  CASE r.state = "ABSENT" -> "none"
    [] r.state \in ClaimableStates /\ r.approval -> "held"
    [] r.state \in ClaimableStates /\ ~r.approval -> "open"
    [] r.state = "DELIVERING" -> "busy"
    [] Resolvable(r) /\ Listed(r) -> "review"
    [] OTHER -> "closed"

Lifecycle == INSTANCE RewardLifecycle WITH
  Rewards <- Deliveries,
  phase <- [d \in Deliveries |-> PhaseOf(queue[d])],
  allowed <- budget,
  given <- [d \in Deliveries |-> Cardinality(granted[d])]

\* Every behaviour of the daemons, the administrator and the game server,
\* with stalls and crashes, is one that RewardLifecycle permits: no step
\* gives an item beyond its permissions, reopens a closed reward, or takes
\* one out of review without an administrator.
ImplementsLifecycle == Lifecycle!Spec
=============================================================================
