---------------------------- MODULE MCRewardRoll ----------------------------
(* Small instances of RewardRoll for TLC. *)
EXTENDS RewardRoll

CONSTANTS armor, ore, water, part, plan

\* The highest tier has everything, the lowest no gear and no schematics, and
\* the others nothing at all.
MCLoot ==
  [t \in Tiers |->
     CASE t = 6 -> [gear |-> {armor}, raw_resources |-> {ore, water},
                    crafted_components |-> {part}, schematics |-> {plan}]
       [] t = 0 -> [gear |-> {}, raw_resources |-> {ore},
                    crafted_components |-> {part}, schematics |-> {}]
       [] OTHER -> [c \in Categories |-> {}]]

\* One setting within its limits, and one with an inverted range, a range that
\* starts below zero, and a minimum that the lowest tier cannot meet.
MCEconomies ==
  {[sure |-> {"raw_resources"}, min_items |-> 2,
    min |-> [t \in Tiers |-> 2], max |-> [t \in Tiers |-> 3]],
   [sure |-> {}, min_items |-> 4,
    min |-> [t \in Tiers |-> IF t = 0 THEN 0 - 1 ELSE 5], max |-> [t \in Tiers |-> 0]]}

\* In halves: factors below one, and enough for two rolls.
MCMultipliers ==
  {[playtime |-> [t \in Tiers |-> 0], step |-> 1, weekly |-> 3],
   [playtime |-> [t \in Tiers |-> IF t = 6 THEN 4 ELSE 2], step |-> 0, weekly |-> 0]}

\* Levels just below and at a threshold, one below 1, and no level at all.
MCPawns ==
  {[entity |-> TRUE, xp |-> 8099, skill |-> 0, keystone |-> 0],
   [entity |-> TRUE, xp |-> 8100, skill |-> 0, keystone |-> 0],
   [entity |-> TRUE, xp |-> 0, skill |-> 1, keystone |-> 5],
   [entity |-> TRUE, xp |-> 0, skill |-> 150, keystone |-> 1],
   [entity |-> FALSE, xp |-> 0, skill |-> 0, keystone |-> 0]}
=============================================================================
