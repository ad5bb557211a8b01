# Verification of the Dune airdrop addon

TLA+ specifications, TLC models and TLAPS proofs for the airdrop addon: the
rewards that a database trigger queues for active players, the daemon that
delivers them through the game's command line, and the console addon with which
an administrator watches, repairs and grants.

Source paths are relative to the repository root. `index.js` is
`daemon/index.js`, `sql` is `setup_playtime_airdrops.sql`.

## 1. The system

| Component | State | Operations | Interacts with |
|---|---|---|---|
| Playtime trigger (`sql:350-624`) | `active_playtime` (active seconds, last position and XP, streak, week mask) | on every player-state write: count activity, pay intervals, daily and weekly rewards | inserts into the queue |
| Reward roll (`sql:124-306`) | `config`, `loot_tables` | pick tier, items and amounts; queue them | called by the trigger and the console |
| Delivery queue (`sql:31-58`, `sql:2454-2530`) | `pending_deliveries`, `delivery_receipts`, `delivery_events` | insert with NOTIFY; lifecycle migration of older rows | read and written by daemon and console |
| Delivery daemon (`daemon/index.js`, `deliveryState.js`, `identityAdapter.js`) | `tickRunning`, the delivery at hand, its lease in the row | tick: recover leases, defer offline rows, claim, prepare; dispatch: resolve identity, run command, classify, finalize; heartbeat | several processes may share a queue; the game's command wrapper |
| Review console (`web/addon.js:711-834`) | none of its own | list, approve a historical reward, resolve an uncertain one | writes the queue's tables |
| Manual grant (`web/addon.js:195-419`, `web/grant_logic.js`) | one durable request in addon storage, a cached version per tab | confirm, discard, select container | the console bridge, other tabs |
| Console bridge client (`web/dune-addon-bridge.js`) | pending request map | request, answer, 30 s timeout | the console's parent window |
| Schema script (`sql:8-120`, `sql:636-2530`) | all tables of `dune_airdrop`, two markers in `config` | create, correct, insert, copy version 1.3.6, hold historical rows | executed by hand or by the schema page, on every upgrade |
| Settings and schema pages (`web/addon.js:440-651`, `web/addon.js:946-977`) | the form, a request under way | load and save settings, initialise the schema, test resets | `config`, loot tables, the schema script |
| Packaging, validation, loot generation (`scripts/`, `.github/`, `dist/`) | files | build | none at run time |

What makes each part correct:

* Playtime: playtime that is rewarded was played; a day of attendance is paid
  once and never forgotten; so is a week with enough of them; the streak is the
  number of days in a row.
* Roll: a roll belongs to the player's tier, yields at least the minimum number
  of items that the tables allow, and amounts within the tier's range.
* Queue and daemon: each reward is delivered at most once, one whose outcome is
  unknown waits for an administrator, and one whose player stays online is
  settled.
* Review console: what an administrator decides is what happens, and everything
  that waits for a decision can be found.
* Manual grant: while the outcome of a grant is open its request ID stays in
  durable storage, and the same intent is not granted under another one.
* Bridge client: every request ends.
* Settings and schema: a roll sees settings that belong together; an upgrade,
  however often it is interrupted and executed again, puts every historical
  reward on hold and no other, loses none, keeps the settings, and leaves ids
  that are free for the rewards to come.

What is hard here: between the transaction that claims a reward and the one
that finalizes it a daemon holds no lock, runs a command that may be killed
after it has already reached the game, and may crash, be paused, or lose its
database; several daemons and an administrator work on the same rows meanwhile.
The property everything else serves is that a player gets each earned item once:
not twice because something was retried, and not never because something was
lost. `PROJECT.json` lists the hazards, each at its line.

## 2. The modules

| Module | What it is |
|---|---|
| `Delivery` | The queue, the daemon processes, the receipts, the audit trail, the review console and the game server as far as the daemon can see it. |
| `RewardLifecycle` | What the queue promises: the life of one reward and the permissions by which its item may be given. |
| `DeliveryRefinement` | The mapping from rows to phases; `ImplementsLifecycle`. |
| `DeliveryProofs` | Type correctness, `Accounts` and `GrantsAuthorized`, proved. |
| `DeliveryStepProofs` | What one step may do to a row: three properties, proved. |
| `DeliverySafeProofs` | At most one delivery, exclusive claims and agreeing records in the environment of `safe`, proved. |
| `DeliveryRefinementProofs` | The refinement, proved. |
| `ManualGrant` | The tabs of the console addon that grant items by hand, their durable request, and the console host as far as the bridge shows it. |
| `ManualGrantProofs` | Type correctness and the three safety properties of `ManualGrant`, proved. |
| `Playtime` | One character, the trigger that watches it, and the calendar. |
| `PlaytimeProofs` | Type correctness and the six properties of `Playtime`, proved. |
| `RewardRoll` | How one reward becomes rows of the queue, beside a save of the settings. |
| `RewardRollProofs` | Type correctness and `AmountsInRange`, proved. |
| `SchemaScript` | What the schema script does to the tables, statement by statement, as functions on databases. |
| `Upgrade` | Who executes it, when, and what goes wrong: by hand, from the console, interrupted, again; the settings page and the servers beside it. |
| `UpgradeHandover` | What an upgrade leaves, read as a state of `Delivery`; `HandsOver`. |
| `UpgradeProofs` | Type correctness and the seven properties of `Upgrade`, proved. |
| `MCDelivery`, `MCManualGrant`, `MCPlaytime`, `MCRewardRoll`, `MCUpgrade` | Small instances for TLC. |

The five models meet at narrow places. `Upgrade` leaves a database from which
`Delivery` starts: `HandsOver` says that queue and receipts satisfy `Delivery!Init`.
`Playtime` decides that a reward is due, `RewardRoll` what it consists of; for
`Delivery` it is some number of `Enqueue` steps of one player, which are free
there. `ManualGrant` reaches the game through the host and not through the queue. An operator named `Wrong...`, `Lax...` or
`Strict...` and introduced as "A bug" is not part of a model: it is a variant of
the definition after it, kept to show which property notices such a mistake.

### 2.1 `Delivery`

State. `queue[d]` is row *d* with the columns the code decides on:
`delivery_state`, `is_applied`, `requires_recovery_approval` (`approval`),
`resolution_status`, `locked_at` as `lease` (none, younger or older than five
minutes), `next_attempt_at` as `due`, and `delivery_attempts`. `receipt[d]` is
the row of `delivery_receipts` with the same `request_id`; `same` says whether
it names the row's account, item and quantity. `event[d]` is the newest audit
entry. `worker[w]` is where daemon process *w* is; `n` is the attempt it
claimed. `inflight` and `granted` are the game: commands it may still carry out
and attempts whose item arrived. `budget` and `refuted` are history: grants
permitted (by the trigger, an approval, an authorized retry) and attempts
finalized as known non-deliveries.

| Action | Code |
|---|---|
| `Enqueue` | `fn_queue_reward_roll_v2` inserts a row |
| `TickSweep`, `TickPrepare`, `TickBlocked` | one `tick` transaction: `recoverExpiredLeases`, `deferOfflineDeliveries`, `claimDelivery`, `prepareDelivery`, with nothing to claim, a command to run, or a receipt that forbids one |
| `ResolveFails`, `ResolveOffline`, `StartCommand` | `dispatchDelivery` up to the command |
| `Grant` | the game carries a command out, before or after its wrapper ended |
| `CommandEnds` | `runCommand` and `classifyDeliveryResult` |
| `finalizeDelivery` | the finalize transaction |
| `DispatchThrows`, `Crash`, `Restart` | a failing database call, a lost process, a new one |
| `LeaseLapses`, `BecomesDue` | five minutes pass |
| `LogIn`, `LogOut` | the game writes `player_state` |
| `approveHistoricalDelivery`, `resolveDelivered`, `resolveRetry`, `resolveArchive` | the console's statements |

A tick is one action although it is several statements: the rows it has touched
stay locked until COMMIT, a claim skips locked rows, and a tick that fails is
rolled back. `finalizeDelivery` is one transaction as well. Everything between
them is interleaved freely.

Two constants select the environment. `Stalls` says whether a worker can be
paused for longer than its lease. Without that, a worker is done before its
lease lapses: the command is killed after 180 s, a connection attempt fails
after 2 s, and the lease lasts 300 s; a virtual machine that is suspended or a
database clock that jumps breaks it. `CarefulAdmin` says whether an
administrator compares with the game before confirming or retrying, which the
console asks for but cannot enforce.

The game server is external. `PossibleResult` says what the wrapper's report
may mean: success without the "inventory stack did not increase" notice means
that the item arrived, a refusal the wrapper lived to report means that it will
not, anything else means nothing.

Left out: several events per delivery (only the newest is kept), error codes
and details, the identity that is passed to the command, and the number of
seconds of a lease or a deferral.

### 2.2 `RewardLifecycle`

A reward is `none`, `held` (historical, not approved), `open`, `busy`, in
`review` or `closed`. Only the trigger, an approval and an authorized retry
permit a grant, and every item given is covered by a permission. `Delivery`
refines it under `PhaseOf`.

### 2.3 `ManualGrant`

State. `store` is the one durable request in addon storage with the version the
host gives it; `version[t]` is the version that the grant store of tab *t*
caches (`grant_logic.js:7`). `task[t][k]` is the handler of kind *k* (confirm,
discard, check) in tab *t*: which bridge call it awaits, with which request ID,
and what the host has answered. `stray` holds calls whose tab has given up on
them. `granted` and `refused` are the game. History: `confirmed`, `reviewed`,
`submitted`.

| Action | Code |
|---|---|
| `clickConfirm`, `confirmLoaded`, `confirmSaved`, `confirmReceipt` | the confirm handler up to its receipt (`addon.js:297-375`) |
| `confirmUnclear`, `confirmRejected`, `confirmReread`, `confirmStored`, `confirmChecked`, `confirmFails` | its catch block and what follows (`addon.js:382-408`) |
| `clickDiscard`, `discardLoaded`, `discardDecided`, `discardReread`, `discardStored`, `discardFails` | the discard handler (`addon.js:237-248`) |
| `selectContainer`, `handleStateCheck`, `checkFails` | the state checks (`addon.js:221-235`, `259-289`, `414-418`) |
| `TimesOut` | the timer of `request` (`dune-addon-bridge.js:19-24`) |
| `Reload` | the frame is loaded again |
| `HostGets`, `HostPuts`, `HostGrants`, `HostRefuses`, `HostFails`, `HostServesStray` | the console host (external) |

A handler is cut where it awaits a bridge call, since there the other handlers
of the tab run. The account lookup before the first storage call changes no
state and is part of that call; so is `loadContainers`. The checks of the input
fields, the toasts and the layout are left out. The statuses PENDING and
UNCERTAIN of a stored request lead to the same decisions
(`grant_logic.js:89-115`), so `store` keeps only the ID. A payload is a model
value; which one a click grants is chosen when the handler needs it.

The host is external: `docs/bridge-api.md` promises compare-and-swap on the
version and idempotence per request ID. `Consistent` says in addition that an
ID that was rejected is never granted, nor the other way round. `Open` are the
submitted IDs of which nobody knows whether they were or will be delivered: a
receipt and a review settle an ID, and a rejection does unless an item was given
under the ID or another call for it can still be carried out. `Concurrent`
says whether the handlers of one tab overlap; the page allows it (only the
confirm button is disabled while confirming). `Timeouts` says whether a call
may outlast its timer.

### 2.4 `Playtime`

State. `row` is the character's row of `active_playtime` with its columns'
names. `playing` and `away` are the game: whether the character is in it, and
whether its place or XP differ enough from the recorded ones for the idle check
(`sql:560-566`). `settings` says which rewards are enabled, `Settings` which
choices the administrator makes; `saves` counts the saves of the settings, at most
`MaxSaves`. `rewards` counts the rolls queued. History: `played`, `attended`, `pressed`.

| Action | Code |
|---|---|
| `SaveOnline` | a player-state write with status online: `trg_track_playtime_v2`, with `fn_check_daily_weekly_rewards_v2` |
| `SaveOffline` | one with another status |
| `Crash`, `Move`, `Advance` | the game and the clock (external) |
| `handleSaveAllSettings` | the settings page |
| `testResetDaily`, `testSetWeekly` | the console's test buttons |

A save is one step: a trigger runs inside the statement that fires it, on a row
which that statement has locked. An error in it undoes all of it. One character
is enough because characters share nothing but the settings. A missing row is
one without week; the daily block inserts it before the playtime block looks at
it, so the insert of `sql:602-605` is never reached. The time of a save is the
time of its step.

`Day`, `Throttle`, `Cap` and `Interval` scale the clock: only their order
matters (a throttle of one minute, a gap limit of ten minutes, an interval, a
day). Day 0 is a Tuesday, on which the Coriolis week begins. Multipliers and
what a reward contains are left to `RewardRoll`.

### 2.5 `RewardRoll`

State. `economy` and `multipliers` are two rows of `config`; `saving` is the
second half of a save that is under way. `pc`, `pawn`, `tier`, `rolls`,
`limits`, `picked` and `attempts` are the local variables of the trigger's
functions, and `rows` is what they have queued.

| Action | Code |
|---|---|
| `rollPlaytime`, `rollDaily`, `rollWeekly` | tier and multiplier (`sql:124-160`, `289-306`, `436-457`) |
| `readEconomy`, `initialRolls`, `minimumAttempt`, `queueItems` | `fn_queue_reward_roll_v2` (`sql:163-287`) |
| `saveEconomy`, `saveMultipliers`, `saveFails` | `handleSaveAllSettings` (`addon.js:575-607`) |

The function is cut into steps although it runs in one transaction: each of its
statements reads what has been committed meanwhile, so a save may fall between
them. Only one reward is rolled at a time, since rewards share nothing but the
settings. A chance is 1 (a category in `sure`) or it may fail; a draw returns any
item of the category, or nothing if there is none. Weights and the order of the
rows are left out.

### 2.6 `SchemaScript`, `Upgrade`, `UpgradeHandover`

A database is a record: whether the tables exist, the queue with `state`,
`applied` and `approval` of each id, the receipts, the next id of the sequence,
one field of each of the two settings rows, the loot, and the two markers of
completed migrations. A row from before the lifecycle columns is `PLAIN`. Each
operator of `SchemaScript` is one statement or DO block of the script, a function
from databases to databases; `Script` is all of them in order, which is what a
transaction does. `Old` is what an earlier version left: tables of 1.3.7 are
upgraded in place, those of 1.3.6 lie in the game's schema and are copied.

State of `Upgrade`. `db` and `old`; `manual` is the statement that an execution
by hand has reached; `request` is the page's request, `unheeded` the scripts that
the database may still execute although the page has given up; `ready` says
whether the last execution is known to have succeeded, `running` whether
battlegroup and daemon run; `page` is the settings form with the query or
statement it is at. History: `approved`, `lost`.

| Action | Code |
|---|---|
| `ManualStart`, `ManualStep`, `ManualAbort` | `psql` executes the script, a transaction per statement (external) |
| `handleInitializeSchema`, `initSucceeds`, `initFails`, `initTimesOut` | the INIT SCHEMA button (`addon.js:610-651`) and the bridge's timer |
| `ScriptCommits`, `ScriptFails` | the console host and the database (external) |
| `openPage`, `loadMultipliers`, `loadEconomy`, `loadFails` | `loadSettings` (`addon.js:440-542`) |
| `handleSaveAllSettings`, `saveEconomy`, `saveMultipliers`, `saveFails` | the save, in two statements (`addon.js:544-608`) |
| `queueReward` | `fn_queue_reward_roll_v2` under the sequence's next id; an error is swallowed |
| `deliver`, `approveHistoricalDelivery` | a claim and its end, an approval, reduced to what a script executed meanwhile could spoil |
| `Start`, `Stop` | the administrator, as `docs/upgrade-v2.md` has it (external) |

The statements of the corrections are one action, and so is `InsertGenerated`:
they touch disjoint rows. Two corrected items stand for the two directions of a
correction, and one setting per row for the row, since the script copies rows as
a whole. The copy of `active_playtime` is a statement like the others, guarded by
the same marker, and is left out. `CarefulSave` says that an administrator saves
the form only after it has been loaded completely since the last execution.

## 3. The runs

| Run | Environment | Checks | Shows |
|---|---|---|---|
| `safe` | `FairSpec`, no stalls, careful administrator | `NoDuplicate`, `NoReplay`, `DispatchIsExclusive`, `Agreement`, `FailedIsUndelivered`, `ClaimEnds`, `OnlineIsServed` | a reward is delivered at most once, whatever crashes, orphaned commands and retries happen; no claim is stuck, and no online player's reward is forgotten |
| `stalls` | stalls, any administrator | `TypeOK`, `Accounts`, `GrantsAuthorized`, `ReceiptBeforeCommand`, `LeaseMarksClaim`, `NeverSilentlyReopened`, `ImplementsLifecycle` | what survives even then: permissions bound grants, and the daemon alone never reopens anything |
| `hidden` | historical rows | `UncertainIsReviewable` is violated | see 3.2 |
| `tabs` | two tabs, one handler at a time, calls that time out | `TypeOK`, `OpenIdRetained`, `AtMostOneOpenGrant`, `NeverReplaced` | an open request keeps its ID, nothing is granted beside it, and no tab overwrites another, whatever arrives late |
| `page` | `FairSpec`, one tab whose handlers overlap, timeouts, a failure or a reload, a host that need not answer | `OpenIdRetained`, `AtMostOneOpenGrant`, `ConfirmEnds` | the ID survives the page, nothing is granted beside it, and the confirm button is not blocked forever |
| `clash` | several handlers at once | `OpenIdRetained` is violated | see 3.2 |
| `weeks` | four days across the end of a week: logins, idling, attendance, rewards enabled or not, one crash, one test button | `TypeOK`, `DailyPaid`, `DailyOnce`, `WeeklyEarned`, `WeeklyOnce`, `StreakMatches`, `PlaytimeBacked` | nobody is paid too little, twice, or for time not played |
| `newyear` | 1 January within a week | `WeeklyEarned` is violated | see 3.2 |
| `rolls` | levels around thresholds, incomplete tables, odd ranges, saves meanwhile | `TypeOK`, `AmountsInRange`, `RollEnds` | every reward ends, with positive amounts of one saved economy |
| `unknown` | a character without a level | `UnknownIsBeginner` is violated | see 3.2 |
| `upgrade` | installations and upgrades from both versions, by hand and from the console, interrupted, failed, timed out, belated, again | `TypeOK`, `HistoricalHeld`, `HistoryKept`, `RewardsQueued`, `OnePool`, `SettingsKept`, `HandsOver`, `RerunHarmless` | old rewards are held and kept, new ones queued, settings survive, and `Delivery` may begin |
| `rerun` | the same | `RerunSucceeds` is violated | see 3.2 |

### 3.1 Bounds and fairness

Two workers and two rows: a property of one row needs a second worker to
interfere and a second row to compete for the claim. The rows belong to two
players in `safe` and `stalls`, so that one may be online while the other is
not. Row 1 is historical, in every state the migration can leave it.
`MaxBudget = 2` allows an approval or a retry after the first delivery;
`MaxFaults` (1 or 2) crashes or failed calls are enough to lose a claim and to
lose its recovery; `MaxFlips` (2 or 3) lets a player log in, out and in again.
Attempts are not bounded by a constant: logins and permissions bound them.
`Symmetry` permutes workers or tabs, in runs without liveness properties.

Fairness is weak, per worker: a crashed process is restarted (the documented
deployment runs it as a service), it polls every 30 seconds
(`index.js:146`), its awaits end (commands and connections have timeouts), and
it finalizes. Leases and deferrals run out because time passes. No fairness is
assumed of players, of the game server, or of administrators.

Manual grants: two tabs are what it takes to interfere. `MaxClicks = 3` in
`tabs` allows a request, a discard of it and a new request, or three competing
ones; a fourth would repeat one of these. `page` has one tab with two clicks, a
click on a container beside them, and two payloads, so that a stored request may be
for something else, and `MaxTroubles = 1`, a call that fails or a page that is
reloaded, at any moment. Timeouts are not bounded in either. A reload
beside a second tab is left to the theorems, which hold for any number of tabs and
reloads; with it `tabs` has three times the states. The host is consistent in all
three runs (see the observations in 3.2 for one that is not). Two tabs with overlapping handlers appear in
`clash` only, since that is what breaks `OpenIdRetained`; its counterexample
needs no timeout, so it is shown without. These runs do not check for deadlock: a page on which nobody clicks any more stops. Fairness
in `page` is on the confirm handler, whose awaits end, and on the bridge's 30
second timer, for that handler only; nothing is assumed of the host.

Playtime: `weeks` has days of three units, a throttle of two and a gap limit of
four, so that gaps fall on both sides of both, across midnight too, and an
interval (5) that takes several saves. It starts in the last unit of day 5 and
ends with day 8, so that two days lie on each side of a week's end: enough to reach
the two that are required and to miss them, and to reach the streak limit (2) and
exceed it. All rewards are enabled, or none; one save of the settings switches at
any time, for instance to enabled only after the required days. The theorems hold
for every other choice of the settings as well. One crash and one use of a test button fall
anywhere. `newyear` places 1 January on the fourth
day of the week. No deadlock can occur, and no liveness is claimed: rewards
follow from saves, which the game makes when it likes.

Rolls: five characters, just below and at a threshold, below level 1, at the
highest tier, and without a level. One tier has two items in one category and
one in the others, one lacks two categories, the others have nothing at all. One
economy is within its limits, the other has an inverted range, one that starts
below zero, and a minimum of four. Multipliers give one or two rolls. Two
attempts instead of 32 are enough to reach the minimum and to miss it. Fairness
is on the database, which carries on with a statement it has begun.

Upgrade: three ids, two of them historical, so that a third is free for a reward
of the new version and another insert has none left. The first historical row is
in every state an earlier version can leave, the second waits beside it. One
script may still be executed that nobody waits for; executions by hand, requests
and interruptions are not bounded. Loot is custom only or custom and default,
settings are present, zero or missing. No fairness is assumed: an upgrade may be
given up, and every property is about what holds until then.

### 3.2 Findings

`hidden`: a historical row with `is_applied = true` and a pending or uncertain
receipt becomes UNCERTAIN, but the pending list shows only rows that are not
applied; nobody can resolve it there.

`clash`: the cached version of a tab is shared by all its handlers. A state
check between a grant and its receipt refreshes it, and the clear after the
receipt (`addon.js:375`), which does not compare the ID, then erases a newer
request of another tab whose outcome is open.

`newyear`: the week ID joins the calendar year with the ISO week
(`sql:390`). The two change on different days; on 1 January the mask starts
anew in the middle of a week, and days before and after do not add up.

`unknown`: when a character has no `DuneCharacter` entity, the SELECT of
`sql:130-139` sets its variables to NULL, and PostgreSQL's `LEAST(200, NULL)` is
200. The test for NULL after it (`sql:149`) comes too late, and the character is
rewarded as one of level 200.

`rerun`: on an upgrade from 1.3.6 the corrections (`sql:648-666`) find an empty
loot table, the generated inserts add the corrected rows, and only then the old
loot is copied, default rows in their old pools included. A corrected item is
then in two pools, and on the next execution the corrections violate the unique
key: the script fails as a whole, although `sql:2332` says that it "remains safe
to rerun".

Observations without a run:

* `dispatchDelivery` never looks at the row again before it sends the command. A
  worker that is paused between claim and command for more than five minutes
  sends it after its lease was taken away and after an administrator, who saw no
  command, authorized a retry: with `Stalls` and `CarefulAdmin`, `NoReplay` fails.
  `Accounts` limits the damage: the retry is a second permission, so even then
  nothing is granted beyond what was permitted.
* A bridge error that is not recognized as ambiguous clears the stored request
  (`addon.js:400`), also when an earlier call under the same ID is still
  uncertain. With `Consistent = FALSE`, one tab and two clicks are enough for
  `OpenIdRetained` to fail: a grant times out and its request is marked, the
  administrator tries again under the same ID, the host rejects that call, the
  handler clears the ID without a review, and the first call delivers, or has
  done so. `docs/bridge-api.md:36` says that "An uncertain request retains its
  ID until reviewed". Whether it happens depends on whether a host may reject a
  request ID of which it still has a call to serve, or has served one; the
  repository does not say, so the runs and the theorems assume a host that does
  not. The code itself never makes sure.
* With `CarefulSave = FALSE`, `SettingsKept` fails: a load that stops half-way
  leaves the defaults of the markup in the form, and Save All stores them
  (`addon.js:539-542`). A stored interval of 0 is shown, and saved, as 60.
* The generated inserts run on every execution (`sql:682-690`), so a default loot
  row that an administrator has deleted returns with each upgrade.
* An execution of the script by hand that stops before the copy of version 1.3.6,
  and a battlegroup that is started nevertheless, make new rewards take the ids
  of old ones, and the copy then skips those (`ON CONFLICT DO NOTHING`). The
  upgrade guide forbids it; `Start` follows the guide.
* The settings page labels tiers 3 to 5 "Level 35-49", "50-79" and "80-149"
  (`web/index.template.html:371-417`), while `sql:151-158` has 50, 80 and 120. And
  `ILIKE '%ore%'` (`sql:257`), meant for ores, also matches `T6IrradiatedCore`.

## 4. The proofs

The theorems about `Delivery` hold for every set of workers, rows and players,
from the ASSUMEs in `Delivery` alone; those of `DeliverySafeProofs` assume
`~Stalls` or that and `CarefulAdmin` in their statements, the others hold with
and without both.

* `TypeCorrect`: `TypeOK`, action by action.
* `BooksBalance`, `NoUnauthorizedGrant`: `GrantsAuthorized` is not inductive: nothing in it
  says why a claim may run a command. `Accounts` does, as bookkeeping.
  `AttemptsDisjoint`: the attempts of a row are numbered 1 to its counter and
  each is granted, refuted, under way, or none of these, never two.
  `WorkersHonest`: a worker's attempt belongs to it alone, it sends one command,
  and it calls an attempt undelivered only if it is. `ClaimsPaid`: attempts, plus
  one for a row a daemon may still claim, never exceed permissions plus refuted
  attempts. A claim spends one, a refutation gives one back, and a permission
  adds one; finalizing a row that somebody else claimed meanwhile changes none
  of these. Counting gives grants <= attempts - refuted <= permissions.
* `NoStrandedClaim`, `UncertainNeedsDecision`: `RowSteps` shows that a step
  changes a row in one of nine ways, each a statement of the code; the
  strengthening `ResolvedAtRest` says that a resolved row has no timer and no
  claim, so that the clock leaves it alone.
* `ReceiptPrecedesCommand`: `ReceiptsHeld` extends the claim to every worker
  between prepare and finalize and to every command and grant.
* `QueueImplementsLifecycle`: `Spec => ImplementsLifecycle`, from `RowSteps`,
  `GrantSteps` (a step grants at most one item of a row and then leaves the
  queue alone), `Accounts` and `ClaimedIsApproved` (a claimed row needs no
  approval, or finalizing could put it on hold).
* `ClaimsAreExclusive` assumes `~Stalls`. The property says nothing of the row,
  so it does not exclude that another worker claims it. `ClaimHeld` does: as long
  as a worker is at work its row is claimed with the worker's attempt under a
  lease that has not lapsed, which no sweep, claim or decision touches.
* `DeliveredOnce`, `NothingIsReplayed`, `WrittenOffIsUndelivered` assume
  `CarefulAdmin` besides and share the invariant `OnceOnly`: of a row that may
  be claimed or is written off, and of a worker that has not sent its command or
  knows it to be refused, nothing is under way and nothing has arrived; and all
  that is under way or has arrived of a row is one attempt. A refusal takes
  away that only attempt (which by `Accounts` has not arrived as well), and a
  careful retry finds none.
* `RecordsAgree` assumes `~Stalls`: `AllAgree` adds to `Agreement` what keeps it,
  for instance that a claimable row has no receipt of an open command. A stalled
  worker that finalizes a row it has lost breaks it.

The theorems about `ManualGrant` hold for any number of tabs, payloads, clicks,
checks and troubles, with and without timeouts. They rest on the invariant
`Kept`, which reads the compare-and-swap from the clients' side: `Knows(s, v, id)`
says that whoever has seen version *v* of the durable request with *id* is right
about it until a later version is stored.

* `GrantTypeCorrect`: `TypeOK`.
* `NoRequestReplaced`: `NeverReplaced`, whatever overlaps. `PutCurrent` says what
  the sender of a put knew of the version that the put expects, for calls that
  nobody waits for any more as well: a save was sent when nothing or its own
  request was stored, a mark when its own was. So a put that is served finds no
  other request. The same property of a clear is what overlapping handlers of
  several tabs lose.
* `OpenRequestsStored`, `OneOpenGrant` assume `Separate` and `Consistent`. The
  first says that each tab runs one handler at a time, or that there is one tab,
  whose handlers may overlap (as in `page`). `Justified` says that whoever clears a request has a receipt, a review or a
  rejection of it, and `SubmittedKept` that a submitted request is stored or
  closed. What remains is the clear after the receipt, sent with the version that
  the tab has cached. With one handler at a time that is the version of the request
  it saved (`OneHandler`). With one tab, `OnePage` says that no other request is
  stored from the save to the answer of the grant, because every earlier save that
  may still arrive expects an older version; whatever the tab has cached then is
  safe to clear. With both several tabs and overlapping handlers neither argument
  holds, and `clash` shows that the theorem does not either. `Consistent` is needed
  because a rejected ID is cleared without a review (see 3.2): with it, the game
  gives only what was submitted, and never what the host has rejected.

The theorems about `Playtime` hold for all units, bounds and sets of settings, and
for all calendars but where they say so.

* `TypeCorrect`: `TypeOK`, action by action.
* `NoUnplayedReward`: `PlaytimeBacked` is not inductive: a save turns time that
  has passed since the last one into credit. `Backed` adds the pending time:
  credit plus what the next save may still count is covered by the time played
  and the allowance for crashes, and what is pending after a crash is covered by
  that crash's allowance alone, since a gap of `Cap` or more counts nothing.
* `DailyPaidOnce`: `DailyOnce` is not inductive either. `PaidOnce` adds why
  today's reward is not queued again: once it was queued more often than it was
  reset, the row carries today's date; and days to come have none.
* `EveryDayPaid` assumes nothing. `DailyPaid` speaks of the step that makes a day
  one of attendance, since a day on which daily rewards are disabled then is not
  made up for. It follows from `Recorded`: the row's date is a day of
  attendance, so a day that is not due any more has been attended.
* `StreakIsLength` assumes nothing. `LastLogin` says that, until a reset, the row's
  date is the last day of attendance, so that a gap in the dates is one in the
  attendance. That the number stops at the limit, and is then at least as long, is
  part of the property.
* `WeekPaidOnce` assumes `WholeWeeks`: all days of a week have one ID.
  `ClaimedOnce` says why this week's reward is not queued again: once it was
  queued more often than the attendance was set by hand, the row has a claim of
  this week; and weeks to come have none.
* `AttendancePaid` assumes `FaithfulWeeks` (no two weeks share an ID either) and
  `Attainable`: at most five days are required if somebody uses the test button,
  which sets five days and forgets the other two. `Masked` says that the days
  attended in this week are in the mask, so whoever attends on enough days is
  paid, `ClaimPaid` that a claim of this week has been paid, and `MaskEarned` that
  all days in the mask were attended unless the button was used, so nobody else
  is. `WeeksAreFaithful` says which calendars satisfy the hypothesis:
  those without 1 January within the horizon, or with 1 January on a Monday (the ID
  is computed from the day before), and at most 53 weeks a year. `newyear` shows the property violated by another.

The theorems about `RewardRoll` hold for every loot table, every set of settings
and characters.

* `RollTypeCorrect`, `RewardInOneRange`: `AmountsInRange` says that one economy
  explains all rows of a reward; while it is rolled, that economy must be the one
  whose limits the function holds. `Rolling` says so: from `readEconomy` to the
  end, `limits` are those of a saved economy that all rows so far fit, whatever
  is saved meanwhile. What has been picked is in the tier's loot table.

The theorems about `Upgrade` hold for every number of ids and historical rows,
every custom loot, every earlier database in `Olds` and any number of belated
scripts.

* `UpgradeTypeCorrect`, `HistoricalRewardsHeld`, `HistoryIsKept`,
  `NoRewardDropped`, `RerunTouchesNothing`, `UpgradeHandsOver` rest on one
  invariant, `Upgraded`. Before the second marker is set, every historical row is
  as the earlier version left it, or not yet copied (`Waiting`); afterwards it is
  as held, or has been approved since (`Held`). Ids at or above the sequence are
  free once the sequence has been set, and an id without a row has no receipt
  (`Numbered`, `Unused`). `Reached` says what the statements up to a given
  one have established, which is what an execution by hand relies on from
  statement to statement. The invariant is shown for each statement, then for
  `Script` as their composition, so one proof serves both ways of execution. The
  servers run only when `ready`, and `ready` implies that both markers are set.
* `OnePoolEach` assumes `TidyOlds`, of an administrator of version 1.3.7: no item
  was in two pools, and none of the generated ones had been added to a pool
  of his own choice, since the generated inserts would add it to theirs. `Pooled`
  says that before the corrections the loot is that of the earlier version, and
  afterwards that without the corrected rows, beside generated ones. Version
  1.3.6, whose loot is copied too late, is excepted by the property (see `rerun`).
* `SettingsSurvive` assumes `CarefulSave`: a page saves only what it has loaded. The
  page does not enforce that (see 3.2). `Configured` says what the two rows of
  `config` are before and after the copy of version 1.3.6, and `Careful` that
  a form which is current, and whatever is about to be saved from it, was loaded
  after that copy.

Only model-checked: liveness (`ClaimEnds`, `OnlineIsServed`, `ConfirmEnds`,
`RollEnds`), which the prover does not handle. Every other property of a passing run
is a theorem.

## 5. Not modelled

See `components` in `PROJECT.json` for the reasons. Build scripts, the
validation of packages and the generation of loot data transform files and have
no state at run time (the generator of the loot inserts decides by words in item
names, which only its data can refute); pages that only read, connection settings and the
uninstaller have no order of steps to go wrong; some code is called by nothing
(`daemon/deliveryResult.js`, `fn_deliver_playtime_airdrops_v2`,
`fn_manual_airdrop_spawn`). Of the schema script, the copy of `active_playtime`, the
replacement of functions and triggers of earlier versions, and the recreation of the
notify trigger (`sql:2413-2419`) are left out: they are replaced as a whole, and
nothing runs beside them. Of the settings page, edits of single fields and the
rounding of chances are left out.

## 6. Plan

In this order:

1. `LeaseTiming`: a worker with clocks instead of `Stalls`: connection timeout,
   command timeout and lease as numbers. Theorem: with a lease longer than the
   sum of the others, no worker dispatches after its lease, which justifies
   `Stalls = FALSE`.
2. More proofs: what `Script` makes of a database, as a theorem about the operator
   for every database and not only for those that `Upgrade` reaches.
