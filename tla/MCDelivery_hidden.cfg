\* The rows an earlier version left behind.
SPECIFICATION Spec
CONSTANTS
  Workers = {w1, w2}
  Deliveries = {1, 2}
  Historical = {1}
  Players = {p}
  Owner <- OnePlayer
  Stalls = FALSE
  CarefulAdmin = TRUE
  MaxBudget = 2
  MaxFaults = 1
  MaxFlips = 2
INVARIANTS
  UncertainIsReviewable
