\* Several handlers per tab share one cached version.
SPECIFICATION Spec
CONSTANTS
  Tabs = {t1, t2}
  Payloads = {p1}
  Concurrent = TRUE
  Consistent = TRUE
  Timeouts = FALSE
  MaxClicks = 3
  MaxChecks = 1
  MaxTroubles = 0
SYMMETRY Symmetry
INVARIANTS
  OpenIdRetained
\* A page on which nobody clicks any more has stopped.
CHECK_DEADLOCK FALSE
