\* Workers may outlive their leases; the administrator may decide anything.
SPECIFICATION Spec
CONSTANTS
  Workers = {w1, w2}
  Deliveries = {1, 2}
  Historical = {1}
  Players = {p1, p2}
  Owner <- TwoPlayers
  Stalls = TRUE
  CarefulAdmin = FALSE
  MaxBudget = 2
  MaxFaults = 1
  MaxFlips = 2
SYMMETRY Symmetry
INVARIANTS
  TypeOK
  Accounts
  GrantsAuthorized
  ReceiptBeforeCommand
  LeaseMarksClaim
PROPERTIES
  NeverSilentlyReopened
  ImplementsLifecycle
