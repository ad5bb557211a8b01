\* One handler at a time in each tab; the host answers an ID always alike.
SPECIFICATION Spec
CONSTANTS
  Tabs = {t1, t2}
  Payloads = {p1}
  Concurrent = FALSE
  Consistent = TRUE
  Timeouts = TRUE
  MaxClicks = 3
  MaxChecks = 0
  MaxTroubles = 0
SYMMETRY Symmetry
INVARIANTS
  TypeOK
  OpenIdRetained
  AtMostOneOpenGrant
PROPERTIES
  NeverReplaced
\* A page on which nobody clicks any more has stopped.
CHECK_DEADLOCK FALSE
