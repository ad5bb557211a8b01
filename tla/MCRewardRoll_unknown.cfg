\* A character whose level is not in the database.
SPECIFICATION Spec
CONSTANTS
  Null = Null
  armor = armor
  ore = ore
  water = water
  part = part
  plan = plan
  Pawns <- MCPawns
  Templates = {armor, ore, water, part, plan}
  Bulk = {ore}
  Loot <- MCLoot
  Economies <- MCEconomies
  Multipliers <- MCMultipliers
  MaxStreak = 2
  MaxAttempts = 2
INVARIANTS
  UnknownIsBeginner
