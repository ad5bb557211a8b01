\* One tab whose handlers overlap, a reload or a failing call, and a host that need not answer.
SPECIFICATION FairSpec
CONSTANTS
  Tabs = {t1}
  Payloads = {p1, p2}
  Concurrent = TRUE
  Consistent = TRUE
  Timeouts = TRUE
  MaxClicks = 2
  MaxChecks = 1
  MaxTroubles = 1
INVARIANTS
  OpenIdRetained
  AtMostOneOpenGrant
PROPERTIES
  ConfirmEnds
\* A page on which nobody clicks any more has stopped.
CHECK_DEADLOCK FALSE
