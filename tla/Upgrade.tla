------------------------------ MODULE Upgrade ------------------------------
(***************************************************************************)
(* Installing and upgrading the addon: the schema script, sent by the      *)
(* console page as one request (one transaction) or executed by hand       *)
(* statement by statement, interrupted and executed again at any time; the *)
(* servers around it (battlegroup and daemon), which the administrator     *)
(* starts once the script has succeeded; and the settings page, which      *)
(* loads and saves the rows that the script migrates.                      *)
(***************************************************************************)
EXTENDS SchemaScript

CONSTANTS
  Olds,          \* what earlier versions may have left
  CarefulSave,   \* TRUE: settings are saved only after they have been loaded
  MaxUnheeded    \* bound: scripts still to be executed that nobody waits for

ASSUME UpgradeAssumption == /\ Olds \subseteq Old
                            /\ CarefulSave \in BOOLEAN
                            /\ MaxUnheeded \in Nat

VARIABLES
  db,        \* the schema dune_airdrop
  old,       \* what the earlier version left; nobody writes it
  manual,    \* the statement that an execution by hand has reached, or 0
  request,   \* the page's request to execute the script
  unheeded,  \* scripts sent by a page that has given up waiting
  ready,     \* whether the last execution is known to have succeeded
  running,   \* whether battlegroup and daemon run
  page,      \* the settings page
  approved,  \* history: historical rows approved by the administrator
  lost       \* history: rewards that could not be queued

vars == <<db, old, manual, request, unheeded, ready, running, page, approved, lost>>

execution == <<manual, request, unheeded, ready>>
servers == <<running, approved, lost>>

Form == [Keys -> Nat]

\* The values in the page's markup.
Blank == Default

\* load and save: the next query or statement of loadSettings and of
\* handleSaveAllSettings.  current: the form shows the upgraded settings.
Page == [form : Form, load : Keys \cup {"none"}, save : Keys \cup {"none"},
         payload : Form, current : BOOLEAN]
Opened == [form |-> Blank, load |-> "none", save |-> "none", payload |-> Blank,
           current |-> FALSE]

Init ==
  /\ old \in Olds
  /\ db = Before(old)
  /\ manual = 0
  /\ request = "none"
  /\ unheeded = 0
  /\ ready = FALSE
  /\ running = FALSE
  /\ page = Opened
  /\ approved = {}
  /\ lost = 0

-----------------------------------------------------------------------------
(* Execution by hand: a transaction per statement.  A statement that fails  *)
(* changes nothing, and psql goes on with the next.                         *)

ManualStart ==
  /\ ~running /\ manual = 0 /\ request = "none"
  /\ manual' = 1
  /\ ready' = FALSE
  /\ page' = [page EXCEPT !.current = FALSE]
  /\ UNCHANGED <<db, old, request, unheeded, servers>>

ManualStep ==
  /\ manual # 0
  /\ db' = Statement(manual, db, old)
  /\ manual' = IF manual = Last THEN 0 ELSE manual + 1
  /\ ready' = (manual = Last)
  /\ UNCHANGED <<old, request, unheeded, servers, page>>

ManualAbort ==
  /\ manual # 0
  /\ manual' = 0
  /\ UNCHANGED <<db, old, request, unheeded, ready, servers, page>>

-----------------------------------------------------------------------------
(* INIT SCHEMA on the console page                                          *)

\* The administrator confirms having stopped the battlegroup.
handleInitializeSchema ==
  /\ ~running /\ manual = 0 /\ request = "none"
  /\ request' = "sent"
  /\ ready' = FALSE
  /\ page' = [page EXCEPT !.current = FALSE]
  /\ UNCHANGED <<db, old, manual, unheeded, servers>>

\* The database executes a script that was sent: the one the page waits for,
\* or one that nobody waits for.
ScriptCommits ==
  /\ \/ request = "sent" /\ request' = "committed" /\ UNCHANGED unheeded
     \/ unheeded > 0 /\ unheeded' = unheeded - 1 /\ UNCHANGED request
  /\ ~Collides(db)
  /\ db' = Script(db, old)
  /\ UNCHANGED <<old, manual, ready, servers, page>>

\* A lock or statement timeout, or a statement that fails: no effect.
ScriptFails ==
  /\ \/ request = "sent" /\ request' = "failed" /\ UNCHANGED unheeded
     \/ unheeded > 0 /\ unheeded' = unheeded - 1 /\ UNCHANGED request
  /\ UNCHANGED <<db, old, manual, ready, servers, page>>

\* The response arrives; the page loads the settings.
initSucceeds ==
  /\ request = "committed"
  /\ request' = "none"
  /\ ready' = TRUE
  /\ page' = [page EXCEPT !.load = "airdrop_multipliers"]
  /\ UNCHANGED <<db, old, manual, unheeded, servers>>

initFails ==
  /\ request = "failed"
  /\ request' = "none"
  /\ UNCHANGED <<db, old, manual, unheeded, ready, servers, page>>

\* The timer of the bridge.  The database may still execute the script.
initTimesOut ==
  /\ \/ request \in {"committed", "failed"} /\ UNCHANGED unheeded
     \/ request = "sent" /\ unheeded < MaxUnheeded /\ unheeded' = unheeded + 1
  /\ request' = "none"
  /\ UNCHANGED <<db, old, manual, ready, servers, page>>

-----------------------------------------------------------------------------
(* The settings page.  Nobody edits the form here.                          *)

\* A bug: a missing row leaves the form without a value.
WrongShown(k, v) == IF v = 0 THEN (IF k = "airdrop_multipliers" THEN 60 ELSE 1) ELSE v

\* What loadSettings puts into the form: `|| 60` and `|| 1` replace a zero.
Shown(k, v) == IF v = Null THEN Default[k]
               ELSE IF v = 0 THEN (IF k = "airdrop_multipliers" THEN 60 ELSE 1)
               ELSE v

\* The page is opened, or opened again: the markup, then loadSettings unless
\* isAirdropSchemaReady finds no tables or fails.
openPage ==
  /\ request = "none"
  /\ \/ page' = Opened
     \/ db.tables /\ page' = [Opened EXCEPT !.load = "airdrop_multipliers"]
  /\ UNCHANGED <<db, old, execution, servers>>

loadMultipliers ==
  /\ page.load = "airdrop_multipliers"
  /\ page' = [page EXCEPT
       !.form["airdrop_multipliers"] = Shown("airdrop_multipliers", db.config["airdrop_multipliers"]),
       !.load = "airdrop_economy", !.current = ready]
  /\ UNCHANGED <<db, old, execution, servers>>

loadEconomy ==
  /\ page.load = "airdrop_economy"
  /\ page' = [page EXCEPT
       !.form["airdrop_economy"] = Shown("airdrop_economy", db.config["airdrop_economy"]),
       !.load = "none"]
  /\ UNCHANGED <<db, old, execution, servers>>

\* The catch block of loadSettings: the rest of the form stays as it is.
loadFails ==
  /\ page.load # "none"
  /\ page' = [page EXCEPT !.load = "none", !.current = FALSE]
  /\ UNCHANGED <<db, old, execution, servers>>

\* Both payloads are read from the form before the first statement.
handleSaveAllSettings ==
  /\ page.save = "none"
  /\ CarefulSave => ready /\ page.current /\ page.load = "none"
  /\ page' = [page EXCEPT !.save = "airdrop_economy", !.payload = page.form]
  /\ UNCHANGED <<db, old, execution, servers>>

\* Each statement is an INSERT ... ON CONFLICT DO UPDATE.
saveEconomy ==
  /\ page.save = "airdrop_economy" /\ db.tables
  /\ db' = [db EXCEPT !.config["airdrop_economy"] = page.payload["airdrop_economy"]]
  /\ page' = [page EXCEPT !.save = "airdrop_multipliers"]
  /\ UNCHANGED <<old, execution, servers>>

saveMultipliers ==
  /\ page.save = "airdrop_multipliers"
  /\ db' = [db EXCEPT !.config["airdrop_multipliers"] = page.payload["airdrop_multipliers"]]
  /\ page' = [page EXCEPT !.save = "none", !.payload = Blank]
  /\ UNCHANGED <<old, execution, servers>>

\* Its catch block: what was saved stays saved.
saveFails ==
  /\ page.save # "none"
  /\ page' = [page EXCEPT !.save = "none", !.payload = Blank]
  /\ UNCHANGED <<db, old, execution, servers>>

-----------------------------------------------------------------------------
(* The servers                                                              *)

\* As the upgrade guide has it: not before the script has succeeded.
Start ==
  /\ ~running /\ ready /\ manual = 0 /\ request = "none"
  /\ running' = TRUE
  /\ UNCHANGED <<db, old, execution, approved, lost, page>>

Stop ==
  /\ running
  /\ running' = FALSE
  /\ UNCHANGED <<db, old, execution, approved, lost, page>>

\* The playtime trigger queues a reward under the next id; if the id is taken,
\* the insert fails, and the trigger's exception handler drops the reward.
queueReward ==
  /\ running /\ db.nextId \in Ids
  /\ IF Exists(db, db.nextId)
     THEN /\ db' = [db EXCEPT !.nextId = @ + 1]
          /\ lost' = lost + 1
     ELSE /\ db' = [db EXCEPT !.nextId = @ + 1,
                              !.queue[db.nextId] = [Absent EXCEPT !.state = "READY"]]
          /\ UNCHANGED lost
  /\ UNCHANGED <<old, execution, running, approved, page>>

\* What module Delivery says of a row that a daemon may claim.
Dispatchable(r) == ~r.applied /\ ~r.approval
                   /\ r.state \in {"READY", "RETRY_WAIT", "WAITING_FOR_PLAYER"}

\* The daemon claims row i, and delivers it or is stopped before it knows.
deliver(i) ==
  /\ running /\ Dispatchable(db.queue[i])
  /\ \/ db' = [db EXCEPT !.queue[i].state = "DELIVERED", !.queue[i].applied = TRUE,
                         !.receipt[i] = "SUCCESS"]
     \/ db' = [db EXCEPT !.queue[i].state = "DELIVERING", !.receipt[i] = "PENDING"]
  /\ UNCHANGED <<old, execution, servers, page>>

\* The console's review of a historical row.
approveHistoricalDelivery(i) ==
  /\ db.queue[i].state = "WAITING_FOR_PLAYER" /\ db.queue[i].approval
  /\ db' = [db EXCEPT !.queue[i].approval = FALSE]
  /\ approved' = approved \cup {i}
  /\ UNCHANGED <<old, execution, running, lost, page>>

-----------------------------------------------------------------------------
(* Specification *)

ByHand == ManualStart \/ ManualStep \/ ManualAbort
Console == \/ handleInitializeSchema \/ ScriptCommits \/ ScriptFails
           \/ initSucceeds \/ initFails \/ initTimesOut
Settings == \/ openPage \/ loadMultipliers \/ loadEconomy \/ loadFails
            \/ handleSaveAllSettings \/ saveEconomy \/ saveMultipliers \/ saveFails
Servers == \/ Start \/ Stop \/ queueReward
           \/ \E i \in Ids : deliver(i) \/ approveHistoricalDelivery(i)

Next == ByHand \/ Console \/ Settings \/ Servers

Spec == Init /\ [][Next]_vars

-----------------------------------------------------------------------------
(* Properties *)

\* The types of all variables.
TypeOK ==
  /\ db \in Database /\ old \in Old
  /\ manual \in 0 .. Last /\ request \in {"none", "sent", "committed", "failed"}
  /\ unheeded \in 0 .. MaxUnheeded
  /\ ready \in BOOLEAN /\ running \in BOOLEAN
  /\ page \in Page
  /\ approved \subseteq Ids /\ lost \in Nat

\* The ids of rewards that were queued before the upgrade.
HistoricalRows == IF old.version = "fresh" THEN {} ELSE Historical

\* When a daemon runs, it may claim a reward from before the upgrade only if
\* an administrator has approved it; and no later reward ever needs approval,
\* however often and by whatever way the script was executed and interrupted.
HistoricalHeld ==
  /\ running => \A i \in HistoricalRows : Dispatchable(db.queue[i]) => i \in approved
  /\ \A i \in Ids : db.queue[i].approval => i \in HistoricalRows

\* When the servers run, every historical row and receipt is there and says
\* what it said: what was applied is applied, what has been delivered counts
\* as delivered, what is open is under review; and custom loot is left.
HistoryKept ==
  running =>
    /\ old.version # "fresh" => old.loot \cap CustomLoot \subseteq db.loot
    /\ \A i \in HistoricalRows :
         /\ Exists(db, i)
         /\ old.applied[i] => db.queue[i].applied
         /\ old.status[i] = "SUCCESS" => db.receipt[i] = "SUCCESS" /\ db.queue[i].state = "DELIVERED"
         /\ old.status[i] \in {"PENDING", "UNCERTAIN"} =>
              db.receipt[i] = "UNCERTAIN" /\ db.queue[i].state = "UNCERTAIN"

\* No reward of the new version is dropped because its id is taken by a row
\* that the script copied under its old id.
RewardsQueued == lost = 0

\* Once the script has migrated a database, no later execution, complete,
\* interrupted or belated, touches queue, receipts or settings.
RerunHarmless ==
  [][db.legacy_v136_migrated /\ db.delivery_lifecycle_v2_migrated /\ (ManualStep \/ ScriptCommits)
     => db'.queue = db.queue /\ db'.receipt = db.receipt /\ db'.config = db.config]_vars

\* When the servers run, no item is in two pools, so its chance is that of
\* one pool.  Version 1.3.6 is excepted: see RerunSucceeds.
OnePool ==
  running /\ old.version # "1.3.6" => \A a, b \in db.loot : a[2] = b[2] => a = b

\* Nobody edits the settings here, so once the script has migrated them they
\* are those of the earlier version, or the defaults where it had none, but
\* for zeros, which the form cannot show: through later executions, loads
\* that stop half-way and saves.
Inherited(k) == IF old.version = "fresh" \/ old.config[k] = Null THEN Default[k] ELSE old.config[k]
SettingsKept ==
  db.legacy_v136_migrated =>
    \A k \in Keys : db.config[k] \in {Inherited(k), Shown(k, Inherited(k))}

\* The comment before the legacy copy and the upgrade guide say that the
\* script remains safe to execute again: it does not fail then.
RerunSucceeds == ready => ~Collides(db)
=============================================================================
