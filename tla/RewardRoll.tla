----------------------------- MODULE RewardRoll -----------------------------
(***************************************************************************)
(* How a reward becomes rows of the queue: the level decides the tier, the *)
(* multiplier the number of rolls, and each roll draws at most one item of *)
(* each category of the tier's loot table, with a minimum that is tried    *)
(* for a limited number of times.  RANDOM() is a free choice.  The         *)
(* settings are two rows of the config table, which the settings page      *)
(* saves one after the other, also while a reward is being rolled.         *)
(***************************************************************************)
EXTENDS Integers, FiniteSets

CONSTANTS
  Null,         \* SQL NULL
  Pawns,        \* characters: what their level is computed from
  Templates,    \* kinds of items
  Bulk,         \* those whose name looks like an ore, an ingot or sand
  Loot,         \* Loot[t][c]: the loot table
  Economies,    \* what airdrop_economy may be set to
  Multipliers,  \* what airdrop_multipliers may be set to, in halves
  MaxStreak,    \* bound: streaks
  MaxAttempts   \* attempts at the minimum

Categories == {"gear", "raw_resources", "crafted_components", "schematics"}
Stacks == {"raw_resources", "crafted_components"}   \* with an amount of their own
Tiers == 0..6

ASSUME NullAssumption == Null \notin Int \cup Templates
ASSUME LootAssumption ==
  /\ Loot \in [Tiers -> [Categories -> SUBSET Templates]]
  /\ Bulk \subseteq Templates
ASSUME SettingsAssumption ==
  /\ Economies \subseteq [sure : SUBSET Categories, min_items : Int,
                          min : [Tiers -> Int], max : [Tiers -> Int]]
  /\ Multipliers \subseteq [playtime : [Tiers -> Int], step : Nat, weekly : Int]
ASSUME BoundsAssumption == MaxStreak \in Nat \ {0} /\ MaxAttempts \in Nat
\* No entity: the character's level component is not in the database.
ASSUME PawnsAssumption ==
  Pawns \subseteq [entity : BOOLEAN, xp : Nat, skill : Nat, keystone : Nat]

VARIABLES
  economy,      \* the stored airdrop_economy
  multipliers,  \* the stored airdrop_multipliers
  saving,       \* the second half of a save under way, or Null
  pc,           \* where the roll is
  pawn,         \* the character rewarded
  tier,         \* its tier
  rolls,        \* rolls left
  limits,       \* what the roll has read from airdrop_economy
  picked,       \* the item of each category
  attempts,     \* attempts at the minimum
  rows          \* the rows queued for this reward

settings == <<economy, multipliers, saving>>
reward == <<pawn, tier>>
vars == <<settings, pc, reward, rolls, limits, picked, attempts, rows>>

Least(m, n) == IF m < n THEN m ELSE n
Greatest(m, n) == IF m > n THEN m ELSE n

-----------------------------------------------------------------------------
(* Tier: fn_get_pawn_tier_v2 *)

\* FLOOR(SQRT(xp / 100)) + 1, as far as the cap of 200.
LevelOfXP(xp) == CHOOSE n \in 1..200 : 100 * (n - 1) * (n - 1) <= xp /\ (n = 200 \/ xp < 100 * n * n)

LevelOfPoints(p) == Least(200, p.skill - p.keystone + 1)

\* Without an entity the SELECT returns no row, the variables become NULL, and
\* LEAST(200, NULL) is 200.
Level(p) == IF ~p.entity THEN 200
            ELSE Greatest(1, IF p.skill > 0 THEN LevelOfPoints(p) ELSE LevelOfXP(p.xp))

Thresholds == {10, 20, 50, 80, 120, 150}

TierOf(p) == Cardinality({n \in Thresholds : Level(p) >= n})

-----------------------------------------------------------------------------
(* Starting a reward *)

NothingPicked == [c \in Categories |-> Null]

Init ==
  /\ economy \in Economies
  /\ multipliers \in Multipliers
  /\ saving = Null
  /\ pc = "idle"
  /\ pawn \in Pawns
  /\ tier = 0
  /\ rolls = 0
  /\ limits = economy
  /\ picked = NothingPicked
  /\ attempts = 0
  /\ rows = {}

\* GREATEST(1, ROUND(multiplier)) of a multiplier in halves.
Rolls(halves) == Greatest(1, (halves + 1) \div 2)

Start(p, t, halves) ==
  /\ pc = "idle"
  /\ pc' = "economy"
  /\ pawn' = p /\ tier' = t
  /\ rolls' = Rolls(halves)
  /\ rows' = {}
  /\ UNCHANGED <<settings, limits, picked, attempts>>

\* A multiplier of less than one counts as one.
rollPlaytime ==
  \E p \in Pawns : Start(p, TierOf(p), Greatest(2, multipliers.playtime[TierOf(p)]))

rollDaily ==
  \E p \in Pawns, streak \in 1..MaxStreak :
    Start(p, TierOf(p), 2 + (streak - 1) * multipliers.step)

rollWeekly == \E p \in Pawns : Start(p, TierOf(p), multipliers.weekly)

-----------------------------------------------------------------------------
(* Rolling: fn_queue_reward_roll_v2 *)

\* The minimum is at most the number of categories, and a range is not empty.
Limits(e) == [e EXCEPT !.min_items = Least(4, Greatest(0, @)),
                       !.max[tier] = Greatest(e.min[tier], @)]

readEconomy ==
  /\ pc = "economy"
  /\ limits' = Limits(economy)
  /\ pc' = "roll"
  /\ UNCHANGED <<settings, reward, rolls, picked, attempts, rows>>

\* What a SELECT from the loot table may return: nothing if there is nothing.
Draws(c) == IF Loot[tier][c] = {} THEN {Null} ELSE Loot[tier][c]

\* RANDOM() <= 1.0 always holds; a smaller chance may fail.
initialRolls ==
  /\ pc = "roll"
  /\ picked' \in {f \in [Categories -> Templates \cup {Null}] :
       \A c \in Categories : f[c] \in Draws(c) \cup (IF c \in limits.sure THEN {} ELSE {Null})}
  /\ pc' = "minimum"
  /\ UNCHANGED <<settings, reward, rolls, limits, attempts, rows>>

Granted == {c \in Categories : picked[c] # Null}

Short == Cardinality(Granted) < limits.min_items /\ attempts < MaxAttempts

\* One attempt draws from a missing category.  With schematics granted, the
\* chances of the others may all fail, and it draws nothing.
Attempt ==
  \/ \E c \in Categories \ Granted : \E item \in Draws(c) :
       picked' = [picked EXCEPT ![c] = item]
  \/ "schematics" \in Granted /\ UNCHANGED picked

\* A bug: attempts that draw nothing are not counted.
WrongMinimumAttempt ==
  /\ pc = "minimum" /\ Short
  /\ Attempt
  /\ attempts' = IF picked' = picked THEN attempts ELSE attempts + 1
  /\ UNCHANGED <<settings, pc, reward, rolls, limits, rows>>

minimumAttempt ==
  /\ pc = "minimum" /\ Short
  /\ Attempt
  /\ attempts' = attempts + 1
  /\ UNCHANGED <<settings, pc, reward, rolls, limits, rows>>

Factor(item) == IF item \in Bulk THEN 10 ELSE 1

\* A bug: nothing keeps an amount positive.
WrongAmounts(c) ==
  IF c \notin Stacks THEN {1}
  ELSE {Factor(picked[c]) * n : n \in limits.min[tier] .. limits.max[tier]}

Amounts(c) ==
  IF c \notin Stacks THEN {1}
  ELSE {Factor(picked[c]) * Greatest(1, n) : n \in limits.min[tier] .. limits.max[tier]}

\* The rows that a roll may queue for what it has picked.
Queued ==
  LET amounts == {f \in [Granted -> UNION {Amounts(c) : c \in Granted}] :
                    \A c \in Granted : f[c] \in Amounts(c)}
  IN {{[roll |-> rolls, category |-> c, template_id |-> picked[c], stack_size |-> f[c]] :
         c \in Granted} : f \in amounts}

\* A bug: each roll reads the settings anew.
WrongQueueItems ==
  /\ pc = "minimum" /\ ~Short
  /\ \E new \in Queued : rows' = rows \cup new
  /\ rolls' = rolls - 1
  /\ pc' = IF rolls = 1 THEN "idle" ELSE "economy"
  /\ picked' = NothingPicked /\ attempts' = 0
  /\ UNCHANGED <<settings, reward, limits>>

\* The next roll starts from nothing.
queueItems ==
  /\ pc = "minimum" /\ ~Short
  /\ \E new \in Queued : rows' = rows \cup new
  /\ rolls' = rolls - 1
  /\ pc' = IF rolls = 1 THEN "idle" ELSE "roll"
  /\ picked' = NothingPicked /\ attempts' = 0
  /\ UNCHANGED <<settings, reward, limits>>

-----------------------------------------------------------------------------
(* The settings page: handleSaveAllSettings *)

saveEconomy ==
  /\ saving = Null
  /\ economy' \in Economies
  /\ saving' \in Multipliers
  /\ UNCHANGED <<multipliers, pc, reward, rolls, limits, picked, attempts, rows>>

saveMultipliers ==
  /\ saving # Null
  /\ multipliers' = saving
  /\ saving' = Null
  /\ UNCHANGED <<economy, pc, reward, rolls, limits, picked, attempts, rows>>

\* The second statement fails, or the page is gone.
saveFails ==
  /\ saving # Null
  /\ saving' = Null
  /\ UNCHANGED <<economy, multipliers, pc, reward, rolls, limits, picked, attempts, rows>>

-----------------------------------------------------------------------------

Starts == rollPlaytime \/ rollDaily \/ rollWeekly
Roll == readEconomy \/ initialRolls \/ minimumAttempt \/ queueItems
Save == saveEconomy \/ saveMultipliers \/ saveFails

Next == Starts \/ Roll \/ Save

Spec == Init /\ [][Next]_vars

\* The database carries on with a statement it has begun.
FairSpec == Spec /\ WF_vars(Roll)

-----------------------------------------------------------------------------
(* Properties *)

\* Every variable holds what its column, setting or local variable can hold.
TypeOK ==
  /\ economy \in Economies /\ multipliers \in Multipliers
  /\ saving \in Multipliers \cup {Null}
  /\ pc \in {"idle", "economy", "roll", "minimum"}
  /\ pawn \in Pawns /\ tier \in Tiers
  /\ rolls \in Nat /\ (pc = "idle" <=> rolls = 0)
  /\ picked \in [Categories -> Templates \cup {Null}]
  /\ attempts \in 0..MaxAttempts
  /\ \A r \in rows : r.roll \in Nat /\ r.category \in Categories
                     /\ r.template_id \in Loot[tier][r.category] /\ r.stack_size \in Nat \ {0}

\* What may be said of an amount when e was the stored economy.
Fits(r, e) ==
  LET low == Greatest(1, e.min[tier])
      high == Greatest(low, e.max[tier])
  IN IF r.category \in Stacks
     THEN r.stack_size \in {Factor(r.template_id) * n : n \in low..high}
     ELSE r.stack_size = 1

\* All amounts of a reward lie in the range of its tier in one economy that
\* was saved, however ranges are entered and whenever they are saved.
AmountsInRange == \E e \in Economies : \A r \in rows : Fits(r, e)

\* A reward is rolled in full, whatever tables are empty: the minimum must
\* not "leave the trigger looping" (setup_playtime_airdrops.sql:194).
RollEnds == (pc # "idle") ~> (pc = "idle")

\* A character without a known level is a beginner: "IF v_level IS NULL OR
\* v_level < 1 THEN v_level := 1" (setup_playtime_airdrops.sql:149).
UnknownIsBeginner == ~pawn.entity => tier = 0
=============================================================================
