-------------------------- MODULE RewardRollProofs --------------------------
(***************************************************************************)
(* Proofs about RewardRoll for every loot table, every set of settings and *)
(* every character.                                                        *)
(***************************************************************************)
EXTENDS RewardRoll, FiniteSetTheorems, TLAPS

-----------------------------------------------------------------------------
(* The operators *)

\* Least and Greatest are what their names say.
LEMMA Extremes ==
  ASSUME NEW m \in Int, NEW n \in Int
  PROVE  /\ Least(m, n) \in Int /\ Least(m, n) <= m /\ Least(m, n) <= n
         /\ Greatest(m, n) \in Int /\ Greatest(m, n) >= m /\ Greatest(m, n) >= n
         /\ Greatest(m, n) \in {m, n}
BY DEF Least, Greatest

\* Six thresholds make seven tiers, whatever the level is.
LEMMA TierInTiers ==
  ASSUME NEW p
  PROVE  TierOf(p) \in Tiers
<1> DEFINE S == {n \in Thresholds : Level(p) >= n}
<1>1. IsFiniteSet(Thresholds) /\ Cardinality(Thresholds) = 6
  <2>1. IsFiniteSet({10}) /\ Cardinality({10}) = 1
    BY FS_Singleton
  <2>2. IsFiniteSet({10, 20}) /\ Cardinality({10, 20}) = 2
    <3>1. {10, 20} = {10} \cup {20}
      OBVIOUS
    <3> QED BY <2>1, <3>1, FS_AddElement
  <2>3. IsFiniteSet({10, 20, 50}) /\ Cardinality({10, 20, 50}) = 3
    <3>1. {10, 20, 50} = {10, 20} \cup {50}
      OBVIOUS
    <3> QED BY <2>2, <3>1, FS_AddElement
  <2>4. IsFiniteSet({10, 20, 50, 80}) /\ Cardinality({10, 20, 50, 80}) = 4
    <3>1. {10, 20, 50, 80} = {10, 20, 50} \cup {80}
      OBVIOUS
    <3> QED BY <2>3, <3>1, FS_AddElement
  <2>5. IsFiniteSet({10, 20, 50, 80, 120}) /\ Cardinality({10, 20, 50, 80, 120}) = 5
    <3>1. {10, 20, 50, 80, 120} = {10, 20, 50, 80} \cup {120}
      OBVIOUS
    <3> QED BY <2>4, <3>1, FS_AddElement
  <2>6. Thresholds = {10, 20, 50, 80, 120} \cup {150}
    BY DEF Thresholds
  <2> QED BY <2>5, <2>6, FS_AddElement
<1>2. S \subseteq Thresholds
  OBVIOUS
<1>3. Cardinality(S) \in Nat /\ Cardinality(S) <= 6
  BY <1>1, <1>2, FS_Subset, FS_CardinalityType
<1> QED BY <1>3 DEF TierOf, Tiers

\* Every reward is at least one roll.
LEMMA RollsPositive ==
  ASSUME NEW h \in Int
  PROVE  Rolls(h) \in Nat \ {0}
BY Extremes DEF Rolls

\* A range read from stored settings is not empty and starts where the stored
\* one does.
LEMMA LimitsRange ==
  ASSUME NEW e \in Economies, tier \in Tiers
  PROVE  /\ Limits(e).min = e.min
         /\ Limits(e).max[tier] = Greatest(e.min[tier], e.max[tier])
         /\ e.min[tier] \in Int /\ e.max[tier] \in Int
BY SettingsAssumption DEF Limits

\* What is drawn is in the loot table, or nothing.
LEMMA DrawsFromLoot ==
  ASSUME tier \in Tiers, NEW c \in Categories, NEW item \in Draws(c)
  PROVE  item \in Loot[tier][c] \cup {Null} /\ item \in Templates \cup {Null}
BY LootAssumption DEF Draws

-----------------------------------------------------------------------------
(* The invariant *)

\* Between readEconomy and the end of the reward, limits are those of one
\* stored economy, which all rows of the reward fit.
OneEconomy(e) == limits = Limits(e) /\ \A r \in rows : Fits(r, e)

Rolling ==
  /\ TypeOK
  /\ pc = "minimum" => \A c \in Categories : picked[c] \in Loot[tier][c] \cup {Null}
  /\ pc = "economy" => rows = {}
  /\ pc \in {"roll", "minimum"} => \E e \in Economies : OneEconomy(e)
  /\ AmountsInRange

\* Nothing is rolled and nothing queued at the beginning.
LEMMA InitRolling ==
  ASSUME Init
  PROVE  Rolling
<1>1. picked \in [Categories -> Templates \cup {Null}]
  BY DEF Init, NothingPicked
<1>2. TypeOK
  BY <1>1, BoundsAssumption DEF Init, TypeOK, Tiers
<1>3. AmountsInRange
  BY DEF Init, AmountsInRange
<1> QED BY <1>2, <1>3 DEF Rolling, Init

\* A reward begins without rows, in the tier of its character.
LEMMA StartRolling ==
  ASSUME Rolling, NEW p \in Pawns, NEW h \in Int, Start(p, TierOf(p), h)
  PROVE  Rolling'
<1>1. TierOf(p) \in Tiers /\ Rolls(h) \in Nat \ {0}
  BY TierInTiers, RollsPositive
<1>2. TypeOK'
  BY <1>1 DEF Rolling, TypeOK, Start, settings
<1>3. AmountsInRange'
  BY DEF Start, AmountsInRange, Rolling, TypeOK
<1> QED BY <1>2, <1>3 DEF Rolling, Start

\* So do playtime, daily and weekly rewards, with at least one roll each.
LEMMA StartsRolling ==
  ASSUME Rolling, Starts
  PROVE  Rolling'
<1>1. /\ multipliers.playtime \in [Tiers -> Int]
      /\ multipliers.step \in Nat /\ multipliers.weekly \in Int
  BY SettingsAssumption DEF Rolling, TypeOK
<1>2. CASE rollPlaytime
  <2>1. PICK p \in Pawns : Start(p, TierOf(p), Greatest(2, multipliers.playtime[TierOf(p)]))
    BY <1>2 DEF rollPlaytime
  <2>2. Greatest(2, multipliers.playtime[TierOf(p)]) \in Int
    <3>1. multipliers.playtime[TierOf(p)] \in Int
      BY <1>1, TierInTiers
    <3> QED BY <3>1 DEF Greatest
  <2> QED BY <2>1, <2>2, StartRolling
<1>3. CASE rollDaily
  <2>1. PICK p \in Pawns, streak \in 1..MaxStreak :
          Start(p, TierOf(p), 2 + (streak - 1) * multipliers.step)
    BY <1>3 DEF rollDaily
  <2>2. 2 + (streak - 1) * multipliers.step \in Int
    BY <1>1, BoundsAssumption
  <2> QED BY <2>1, <2>2, StartRolling
<1>4. CASE rollWeekly
  <2>1. PICK p \in Pawns : Start(p, TierOf(p), multipliers.weekly)
    BY <1>4 DEF rollWeekly
  <2> QED BY <1>1, <2>1, StartRolling
<1> QED BY <1>2, <1>3, <1>4 DEF Starts

\* The limits that the function reads are those of the saved economy.
LEMMA ReadRolling ==
  ASSUME Rolling, readEconomy
  PROVE  Rolling'
<1>1. TypeOK'
  BY DEF readEconomy, Rolling, TypeOK, settings, reward
<1>2. economy \in Economies /\ limits' = Limits(economy) /\ rows' = {} /\ tier' = tier
  BY DEF readEconomy, Rolling, TypeOK, reward
<1>3. (\E e \in Economies : OneEconomy(e))' /\ AmountsInRange'
  BY <1>2 DEF OneEconomy, Limits, AmountsInRange
<1> QED BY <1>1, <1>3 DEF readEconomy, Rolling

\* A step that leaves the rows, the tier and the limits leaves their economy.
LEMMA EconomyKept ==
  ASSUME Rolling, UNCHANGED <<tier, limits, rows>>
  PROVE  /\ AmountsInRange'
         /\ pc \in {"roll", "minimum"} => (\E e \in Economies : OneEconomy(e))'
BY DEF Rolling, AmountsInRange, OneEconomy, Limits, Fits

\* What the first rolls pick is in the loot of the tier.
LEMMA InitialRolling ==
  ASSUME Rolling, initialRolls
  PROVE  Rolling'
<1>1. tier \in Tiers /\ tier' = tier /\ Loot[tier] \in [Categories -> SUBSET Templates]
  BY LootAssumption DEF initialRolls, Rolling, TypeOK, reward
<1>2. picked' \in [Categories -> Templates \cup {Null}]
  BY DEF initialRolls
<1>3. ASSUME NEW c \in Categories
      PROVE  picked'[c] \in Loot[tier][c] \cup {Null}
  <2>1. picked'[c] \in Draws(c) \cup {Null}
    BY DEF initialRolls
  <2> QED BY <1>1, <2>1, DrawsFromLoot
<1>4. TypeOK'
  BY <1>1, <1>2 DEF initialRolls, Rolling, TypeOK, settings, reward
<1> QED BY <1>1, <1>3, <1>4, EconomyKept DEF initialRolls, Rolling

\* So is what an attempt at the minimum adds.
LEMMA MinimumRolling ==
  ASSUME Rolling, minimumAttempt
  PROVE  Rolling'
<1>1. tier \in Tiers /\ tier' = tier /\ pc = "minimum" /\ pc' = "minimum"
  BY DEF minimumAttempt, Rolling, TypeOK, reward
<1>2. /\ picked' \in [Categories -> Templates \cup {Null}]
      /\ \A c \in Categories : picked'[c] \in Loot[tier][c] \cup {Null}
  <2>1. CASE UNCHANGED picked
    BY <1>1, <2>1 DEF Rolling, TypeOK
  <2>2. ASSUME NEW c \in Categories \ Granted, NEW item \in Draws(c),
               picked' = [picked EXCEPT ![c] = item]
        PROVE  <1>2!1 /\ <1>2!2
    <3>1. item \in Loot[tier][c] \cup {Null} /\ item \in Templates \cup {Null}
      BY <1>1, DrawsFromLoot
    <3> QED BY <1>1, <2>2, <3>1 DEF Rolling, TypeOK
  <2> QED BY <2>1, <2>2 DEF minimumAttempt, Attempt
<1>3. attempts' \in 0..MaxAttempts
  BY BoundsAssumption DEF minimumAttempt, Short, Rolling, TypeOK
<1>4. TypeOK'
  BY <1>1, <1>2, <1>3 DEF minimumAttempt, Rolling, TypeOK, settings, reward
<1> QED BY <1>1, <1>2, <1>4, EconomyKept DEF minimumAttempt, Rolling

\* What a roll queues is in the loot table of the tier, with an amount in the
\* range of the economy that the reward has read.
LEMMA QueuedFits ==
  ASSUME Rolling, pc = "minimum", NEW e \in Economies, limits = Limits(e),
         NEW new \in Queued, NEW r \in new
  PROVE  /\ r.roll \in Nat /\ r.category \in Categories
         /\ r.template_id \in Loot[tier][r.category] /\ r.stack_size \in Nat \ {0}
         /\ Fits(r, e)
<1>1. PICK f \in [Granted -> UNION {Amounts(c) : c \in Granted}] :
        /\ \A c \in Granted : f[c] \in Amounts(c)
        /\ new = {[roll |-> rolls, category |-> c, template_id |-> picked[c], stack_size |-> f[c]] :
                    c \in Granted}
  BY DEF Queued
<1>2. PICK c \in Granted :
        r = [roll |-> rolls, category |-> c, template_id |-> picked[c], stack_size |-> f[c]]
  BY <1>1
<1>3. /\ c \in Categories /\ picked[c] \in Loot[tier][c] /\ f[c] \in Amounts(c)
      /\ rolls \in Nat /\ tier \in Tiers
  BY <1>1, <1>2 DEF Granted, Rolling, TypeOK
<1>4. CASE c \notin Stacks
  <2>1. f[c] = 1
    BY <1>3, <1>4 DEF Amounts
  <2> QED BY <1>2, <1>3, <1>4, <2>1 DEF Fits
<1>5. CASE c \in Stacks
  <2> DEFINE low == Greatest(1, e.min[tier])
             high == Greatest(low, e.max[tier])
             k == Factor(picked[c])
  <2>1. PICK n \in limits.min[tier] .. limits.max[tier] : f[c] = k * Greatest(1, n)
    BY <1>3, <1>5 DEF Amounts
  <2>2. /\ limits.min[tier] = e.min[tier]
        /\ limits.max[tier] = Greatest(e.min[tier], e.max[tier])
        /\ e.min[tier] \in Int /\ e.max[tier] \in Int
    BY <1>3, LimitsRange
  <2>3. Greatest(1, n) \in low..high /\ Greatest(1, n) \in Nat \ {0}
    BY <2>1, <2>2 DEF Greatest
  <2>4. k \in {1, 10}
    BY DEF Factor
  <2>5. f[c] \in Nat \ {0}
    <3> HIDE DEF k, low, high
    <3>1. CASE k = 1
      BY <2>1, <2>3, <3>1
    <3>2. CASE k = 10
      BY <2>1, <2>3, <3>2
    <3> QED BY <2>4, <3>1, <3>2
  <2>6. r.stack_size \in {Factor(r.template_id) * m : m \in low..high}
    BY <1>2, <2>1, <2>3
  <2>7. Fits(r, e)
    BY <1>2, <1>5, <2>6 DEF Fits
  <2> QED BY <1>2, <1>3, <2>5, <2>7
<1> QED BY <1>4, <1>5

\* The rows that are queued fit the economy whose limits were read.
LEMMA QueueRolling ==
  ASSUME Rolling, queueItems
  PROVE  Rolling'
<1>1. PICK new \in Queued : rows' = rows \cup new
  BY DEF queueItems
<1>2. PICK e \in Economies : OneEconomy(e)
  BY DEF queueItems, Rolling
<1>3. /\ pc = "minimum" /\ tier' = tier /\ limits' = limits /\ limits = Limits(e)
  BY <1>2 DEF queueItems, reward, OneEconomy
<1>4. \A r \in rows' : /\ r.roll \in Nat /\ r.category \in Categories
                       /\ r.template_id \in Loot[tier][r.category]
                       /\ r.stack_size \in Nat \ {0} /\ Fits(r, e)
  BY <1>1, <1>2, <1>3, QueuedFits DEF Rolling, TypeOK, OneEconomy
<1>5. rolls \in Nat \ {0}
  BY <1>3 DEF Rolling, TypeOK
<1>6. picked' \in [Categories -> Templates \cup {Null}]
  BY DEF queueItems, NothingPicked
<1>7. TypeOK'
  BY <1>3, <1>4, <1>5, <1>6, BoundsAssumption DEF queueItems, Rolling, TypeOK, settings, reward
<1>8. OneEconomy(e)' /\ AmountsInRange'
  BY <1>3, <1>4 DEF OneEconomy, Limits, Fits, AmountsInRange
<1> QED BY <1>3, <1>7, <1>8 DEF queueItems, Rolling

\* A save meanwhile replaces the settings, not the limits that were read.
LEMMA SaveRolling ==
  ASSUME Rolling, Save
  PROVE  Rolling'
<1>1. UNCHANGED <<pc, reward, rolls, limits, picked, attempts, rows>>
  BY DEF Save, saveEconomy, saveMultipliers, saveFails
<1>2. /\ economy' \in Economies /\ multipliers' \in Multipliers
      /\ saving' \in Multipliers \cup {Null}
  BY DEF Save, saveEconomy, saveMultipliers, saveFails, Rolling, TypeOK
<1>3. TypeOK'
  BY <1>1, <1>2 DEF Rolling, TypeOK, reward
<1> QED BY <1>1, <1>3, EconomyKept DEF Rolling, reward

\* The invariant holds throughout, for every loot table and all settings.
LEMMA AlwaysRolling == Spec => []Rolling
<1>1. Rolling /\ [Next]_vars => Rolling'
  <2> SUFFICES ASSUME Rolling, [Next]_vars
               PROVE  Rolling'
    OBVIOUS
  <2>1. CASE UNCHANGED vars
    <3>1. UNCHANGED <<economy, multipliers, saving, pc, pawn, tier, rolls, limits, picked, attempts, rows>>
      BY <2>1 DEF vars, settings, reward
    <3>2. TypeOK'
      BY <3>1 DEF Rolling, TypeOK
    <3> QED BY <3>1, <3>2, EconomyKept DEF Rolling
  <2> QED BY <2>1, StartsRolling, ReadRolling, InitialRolling, MinimumRolling, QueueRolling,
            SaveRolling DEF Next, Roll
<1> QED BY <1>1, InitRolling, PTL DEF Spec

-----------------------------------------------------------------------------
(* The theorems *)

\* Whatever is stored and drawn, every variable keeps its type: tiers are at
\* most six, the attempts at the minimum are limited, and every row names an
\* item of the tier's loot table in a positive amount.
THEOREM RollTypeCorrect == Spec => []TypeOK
<1>1. Rolling => TypeOK
  BY DEF Rolling
<1> QED BY <1>1, AlwaysRolling, PTL

\* However ranges are entered and whenever they are saved, the amounts of one
\* reward lie in the range of its tier in one economy that was saved.
THEOREM RewardInOneRange == Spec => []AmountsInRange
<1>1. Rolling => AmountsInRange
  BY DEF Rolling
<1> QED BY <1>1, AlwaysRolling, PTL
=============================================================================
