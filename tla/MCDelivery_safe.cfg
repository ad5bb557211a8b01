\* Leases outlive their workers; the administrator reconciles before acting.
SPECIFICATION FairSpec
CONSTANTS
  Workers = {w1, w2}
  Deliveries = {1, 2}
  Historical = {1}
  Players = {p1, p2}
  Owner <- TwoPlayers
  Stalls = FALSE
  CarefulAdmin = TRUE
  MaxBudget = 2
  MaxFaults = 2
  MaxFlips = 3
INVARIANTS
  NoDuplicate
  NoReplay
  DispatchIsExclusive
  Agreement
  FailedIsUndelivered
PROPERTIES
  ClaimEnds
  OnlineIsServed
