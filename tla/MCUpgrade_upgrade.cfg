\* Upgrades from every version, by hand and from the console, executed again.
SPECIFICATION Spec
CONSTANTS
  Null = Null
  MaxId = 3
  Historical <- MCHistorical
  CustomLoot <- MCCustomLoot
  Olds <- MCOlds
  CarefulSave = TRUE
  MaxUnheeded = 1
INVARIANTS
  TypeOK
  HistoricalHeld
  HistoryKept
  RewardsQueued
  OnePool
  SettingsKept
  HandsOver
PROPERTIES
  RerunHarmless
