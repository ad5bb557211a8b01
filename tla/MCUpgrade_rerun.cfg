\* The default loot of version 1.3.6 returns to its old pools.
SPECIFICATION Spec
CONSTANTS
  Null = Null
  MaxId = 3
  Historical <- MCHistorical
  CustomLoot <- MCCustomLoot
  Olds <- MCOlds
  CarefulSave = TRUE
  MaxUnheeded = 0
INVARIANTS
  RerunSucceeds
