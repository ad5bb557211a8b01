---------------------------- MODULE SchemaScript ----------------------------
(***************************************************************************)
(* What setup_playtime_airdrops.sql does to the addon's tables, statement  *)
(* by statement, on an empty database, on one of version 1.3.7, and on one *)
(* of version 1.3.6, whose tables lie in the game's schema and are copied. *)
(* The script is also what every later upgrade executes again.             *)
(*                                                                         *)
(* A database is a record; a statement is a function from databases to     *)
(* databases.  Module Upgrade says when they are executed.                 *)
(***************************************************************************)
EXTENDS Naturals

CONSTANTS
  Null,        \* SQL NULL, or no row
  MaxId,       \* bound: the last id of a queue row
  Historical,  \* ids in use before the upgrade
  CustomLoot   \* loot rows that only an administrator can have added

Ids == 1 .. MaxId

ASSUME NullAssumption == Null \notin Nat
ASSUME IdsAssumption == MaxId \in Nat /\ Historical \subseteq Ids

-----------------------------------------------------------------------------
(* The tables *)

\* The rows of config with settings.  Each is represented by one field that
\* the settings page converts: the playtime interval, and the least amount
\* of a tier.
Keys == {"airdrop_multipliers", "airdrop_economy"}
Default == [k \in Keys |-> IF k = "airdrop_multipliers" THEN 60 ELSE 5]

\* PLAIN is a row from before the lifecycle columns.
States == {"READY", "RETRY_WAIT", "WAITING_FOR_PLAYER", "DELIVERING", "DELIVERED",
           "UNCERTAIN", "LEGACY_REVIEW"}
Row == [state : States \cup {"ABSENT", "PLAIN"}, applied : BOOLEAN, approval : BOOLEAN]
Absent == [state |-> "ABSENT", applied |-> FALSE, approval |-> FALSE]
Plain(applied) == [Absent EXCEPT !.state = "PLAIN", !.applied = applied]

ReceiptStatus == {"NONE", "SUCCESS", "PENDING", "UNCERTAIN"}

Exists(d, i) == d.queue[i].state # "ABSENT"

\* Two of the corrected items, one for each direction, and an item that is
\* in no other pool.
Corrections ==
  {[item |-> "JasmiumCrystal", from |-> "crafted_components", to |-> "raw_resources"],
   [item |-> "SpicedFuelCell", from |-> "raw_resources", to |-> "crafted_components"]}
OldLoot == {<<c.from, c.item>> : c \in Corrections}
Generated == {<<c.to, c.item>> : c \in Corrections} \cup {<<"schematics", "T6_Augment">>}
Loot == OldLoot \cup Generated \cup CustomLoot

ASSUME CustomLootAssumption == CustomLoot \cap (OldLoot \cup Generated) = {}

Database ==
  [tables : BOOLEAN, queue : [Ids -> Row], receipt : [Ids -> ReceiptStatus], nextId : Nat,
   config : [Keys -> Nat \cup {Null}], loot : SUBSET Loot,
   legacy_v136_migrated : BOOLEAN, delivery_lifecycle_v2_migrated : BOOLEAN]

Empty ==
  [tables |-> FALSE, queue |-> [i \in Ids |-> Absent], receipt |-> [i \in Ids |-> "NONE"],
   nextId |-> 1, config |-> [k \in Keys |-> Null], loot |-> {},
   legacy_v136_migrated |-> FALSE, delivery_lifecycle_v2_migrated |-> FALSE]

\* What an earlier version left: the rows it had, their receipts, its
\* settings (Null where it had no such row) and its loot.
Old == [version : {"fresh", "1.3.6", "1.3.7"}, applied : [Historical -> BOOLEAN],
        status : [Historical -> ReceiptStatus], config : [Keys -> Nat \cup {Null}],
        loot : SUBSET Loot]

Above(ids) == IF ids = {} THEN 1 ELSE 1 + CHOOSE m \in ids : \A i \in ids : i <= m

\* A bug: rewards that were applied are not copied.
WrongFilled(d, old) ==
  [d EXCEPT !.queue = [i \in Ids |-> IF i \in Historical /\ ~Exists(d, i) /\ ~old.applied[i]
                                     THEN Plain(FALSE) ELSE d.queue[i]],
            !.receipt = [i \in Ids |-> IF i \in Historical /\ d.receipt[i] = "NONE"
                                       THEN old.status[i] ELSE d.receipt[i]]]

\* The rows of an earlier version, put into d where it has none.
Filled(d, old) ==
  [d EXCEPT !.queue = [i \in Ids |-> IF i \in Historical /\ ~Exists(d, i)
                                     THEN Plain(old.applied[i]) ELSE d.queue[i]],
            !.receipt = [i \in Ids |-> IF i \in Historical /\ d.receipt[i] = "NONE"
                                       THEN old.status[i] ELSE d.receipt[i]]]

\* The database an upgrade starts from.
Before(old) ==
  IF old.version # "1.3.7" THEN Empty
  ELSE [Filled(Empty, old) EXCEPT !.tables = TRUE, !.nextId = Above(Historical),
                                  !.config = old.config, !.loot = old.loot]

-----------------------------------------------------------------------------
(* The statements, in the order of the script *)

\* CREATE TABLE IF NOT EXISTS, ADD COLUMN IF NOT EXISTS
CreateTables(d) == [d EXCEPT !.tables = TRUE]

\* ON CONFLICT (config_key) DO NOTHING
InsertDefaults(d) ==
  [d EXCEPT !.config = [k \in Keys |-> IF d.config[k] = Null THEN Default[k] ELSE d.config[k]]]

\* UNIQUE(tier, category, template_id) refuses the move of a row to where
\* the item is already; the statement then moves none.
Collides(d) == \E c \in Corrections : {<<c.from, c.item>>, <<c.to, c.item>>} \subseteq d.loot

\* A bug: nothing is moved.
WrongCorrectPools(d) == d
CorrectPools(d) ==
  IF Collides(d) THEN d
  ELSE [d EXCEPT !.loot = (d.loot \ OldLoot)
                    \cup {<<c.to, c.item>> : c \in {x \in Corrections : <<x.from, x.item>> \in d.loot}}]

\* ON CONFLICT (tier, category, template_id) DO NOTHING
InsertGenerated(d) == [d EXCEPT !.loot = @ \cup Generated]

\* A bug: the settings of the administrator do not replace the defaults.
WrongCopyLegacy(d, old) ==
  IF d.legacy_v136_migrated THEN d
  ELSE LET copied == IF old.version # "1.3.6" THEN d
                     ELSE [Filled(d, old) EXCEPT !.loot = @ \cup old.loot]
       IN  [copied EXCEPT !.legacy_v136_migrated = TRUE]

\* The DO block that copies the tables of version 1.3.6, once.
CopyLegacy(d, old) ==
  IF d.legacy_v136_migrated THEN d
  ELSE LET copied == IF old.version # "1.3.6" THEN d
                     ELSE [Filled(d, old) EXCEPT
                             !.config = [k \in Keys |-> IF old.config[k] = Null THEN d.config[k]
                                                        ELSE old.config[k]],
                             !.loot = @ \cup old.loot]
       IN  [copied EXCEPT !.legacy_v136_migrated = TRUE]

\* A bug: the sequence still counts from where it was.
WrongSetSequence(d) == d
SetSequence(d) == [d EXCEPT !.nextId = Above({i \in Ids : Exists(d, i)})]

\* ADD COLUMN IF NOT EXISTS with the defaults READY and FALSE
AddLifecycleColumns(d) ==
  [d EXCEPT !.queue = [i \in Ids |-> IF d.queue[i].state = "PLAIN"
                                     THEN [d.queue[i] EXCEPT !.state = "READY"] ELSE d.queue[i]]]

HeldState(status, applied) ==
  CASE status = "SUCCESS" -> "DELIVERED"
    [] status \in {"PENDING", "UNCERTAIN"} -> "UNCERTAIN"
    [] status = "NONE" /\ applied -> "LEGACY_REVIEW"
    [] OTHER -> "WAITING_FOR_PLAYER"

\* A bug: rows wait for their player, but not for an approval.
WrongHeldRow(status, row) ==
  IF row.state = "ABSENT" THEN row ELSE [row EXCEPT !.state = HeldState(status, row.applied)]
HeldRow(status, row) ==
  IF row.state = "ABSENT" THEN row
  ELSE [row EXCEPT !.state = HeldState(status, row.applied), !.approval = ~row.applied]

\* A bug: the marker is written but not read.
WrongHoldHistory(d) ==
  [d EXCEPT !.queue = [i \in Ids |-> HeldRow(d.receipt[i], d.queue[i])],
            !.receipt = [i \in Ids |-> IF d.receipt[i] = "PENDING" THEN "UNCERTAIN" ELSE d.receipt[i]],
            !.delivery_lifecycle_v2_migrated = TRUE]

\* A bug: the receipts of unfinished deliveries stay as they are.
LaxHoldHistory(d) ==
  IF d.delivery_lifecycle_v2_migrated THEN d
  ELSE [d EXCEPT !.queue = [i \in Ids |-> HeldRow(d.receipt[i], d.queue[i])],
                 !.delivery_lifecycle_v2_migrated = TRUE]

\* The DO block that holds historical rows, once.
HoldHistory(d) ==
  IF d.delivery_lifecycle_v2_migrated THEN d
  ELSE [d EXCEPT !.queue = [i \in Ids |-> HeldRow(d.receipt[i], d.queue[i])],
                 !.receipt = [i \in Ids |-> IF d.receipt[i] = "PENDING" THEN "UNCERTAIN"
                                            ELSE d.receipt[i]],
                 !.delivery_lifecycle_v2_migrated = TRUE]

-----------------------------------------------------------------------------
(* The script *)

Last == 8

Statement(n, d, old) ==
  CASE n = 1 -> CreateTables(d)
    [] n = 2 -> InsertDefaults(d)
    [] n = 3 -> CorrectPools(d)
    [] n = 4 -> InsertGenerated(d)
    [] n = 5 -> CopyLegacy(d, old)
    [] n = 6 -> SetSequence(d)
    [] n = 7 -> AddLifecycleColumns(d)
    [] n = 8 -> HoldHistory(d)

\* All of it in one transaction.
Script(d, old) ==
  HoldHistory(AddLifecycleColumns(SetSequence(CopyLegacy(
    InsertGenerated(CorrectPools(InsertDefaults(CreateTables(d)))), old))))
=============================================================================
