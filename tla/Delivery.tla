------------------------------ MODULE Delivery ------------------------------
(***************************************************************************)
(* The delivery queue of the airdrop addon: the rows that the playtime     *)
(* trigger queues, the daemon processes that claim and deliver them, the   *)
(* receipts they keep, the administrator's review of uncertain deliveries, *)
(* and the game server as far as the daemon can see it.                    *)
(*                                                                         *)
(* One action is one database transaction or one external event.  Between  *)
(* the transaction that prepares a delivery and the one that finalizes it  *)
(* the worker holds no lock: only the row's state and its lease say that   *)
(* somebody is at work.                                                    *)
(***************************************************************************)
EXTENDS Naturals, FiniteSets

CONSTANTS
  Workers,       \* the daemon processes that poll the queue
  Deliveries,    \* row ids, in the order of (created_at, id)
  Historical,    \* the rows the lifecycle migration found in the queue
  Players,       \* accounts
  Owner,         \* Owner[d] is the account_id of row d
  Stalls,        \* TRUE: a worker may be paused for longer than its lease
  CarefulAdmin,  \* TRUE: the administrator reconciles with the game first
  MaxBudget,     \* bound: grants that may be permitted for one row
  MaxFaults,     \* bound: process crashes and failed database calls
  MaxFlips       \* bound: logins and logouts

ASSUME DeliveriesAssumption == Deliveries \subseteq Nat \ {0}
ASSUME HistoricalAssumption == Historical \subseteq Deliveries
ASSUME OwnerAssumption == Owner \in [Deliveries -> Players]
ASSUME FlagsAssumption == Stalls \in BOOLEAN /\ CarefulAdmin \in BOOLEAN
ASSUME BoundsAssumption == MaxBudget \in Nat /\ MaxFaults \in Nat /\ MaxFlips \in Nat

VARIABLES
  queue,     \* dune_airdrop.pending_deliveries
  receipt,   \* dune_airdrop.delivery_receipts
  event,     \* the latest dune_airdrop.delivery_events row of each delivery
  worker,    \* what each daemon process is doing
  online,    \* accounts with an online dune.player_state row
  inflight,  \* commands the game server may still carry out
  granted,   \* granted[d]: the attempts whose item reached the player
  budget,    \* history: how many grants of d have been permitted
  refuted,   \* history: attempts of d finalized as known non-deliveries
  faults,    \* crashes and failed calls so far
  flips      \* logins and logouts so far

vars == <<queue, receipt, event, worker, online, inflight, granted,
          budget, refuted, faults, flips>>

tables == <<queue, receipt, event>>
game == <<inflight, granted>>
history == <<budget, refuted>>

-----------------------------------------------------------------------------
(* Rows, receipts and workers *)

\* Names beginning with Wrong are what a plausible mistake would make of the
\* definition after them.  The specification does not use them.
WrongClaimableStates == {"READY", "RETRY_WAIT"}
ClaimableStates == {"READY", "RETRY_WAIT", "WAITING_FOR_PLAYER"}
States == ClaimableStates \cup
          {"ABSENT", "DELIVERING", "DELIVERED", "FAILED", "UNCERTAIN", "LEGACY_REVIEW"}

\* lease abstracts locked_at as the code reads it, in DELIVERING rows only:
\* NULL, younger or older than five minutes.
\* due abstracts coalesce(next_attempt_at, NOW()) <= NOW().
Row == [state : States, applied : BOOLEAN, approval : BOOLEAN,
        resolution : {"none", "CONFIRMED_DELIVERED", "ARCHIVED"},
        lease : {"none", "fresh", "expired"}, due : BOOLEAN, attempts : Nat]

NewRow == [state |-> "READY", applied |-> FALSE, approval |-> FALSE,
           resolution |-> "none", lease |-> "none", due |-> TRUE, attempts |-> 0]

\* The row before the trigger has inserted it.
Absent == [NewRow EXCEPT !.state = "ABSENT"]

\* same: the receipt names the account, item and quantity of its row.
Receipt == [status : {"NONE", "PENDING", "SUCCESS", "WAITING_FOR_PLAYER",
                      "RETRY_WAIT", "UNCERTAIN", "FAILED"},
            same : BOOLEAN]
NoReceipt == [status |-> "NONE", same |-> TRUE]

Outcomes == {"DELIVERED", "WAITING_FOR_PLAYER", "FAILED", "UNCERTAIN"}

\* n is the value of delivery_attempts the worker read when it claimed d.
Idle == [pc |-> "idle", d |-> 0, n |-> 0, outcome |-> "none"]
Down == [Idle EXCEPT !.pc = "down"]
Worker == {Idle, Down}
          \cup [pc : {"resolving", "commanding"}, d : Deliveries, n : Nat, outcome : {"none"}]
          \cup [pc : {"finalizing"}, d : Deliveries, n : Nat, outcome : Outcomes]

Busy(w) == worker[w].pc \in {"resolving", "commanding", "finalizing"}

\* What the lifecycle migration makes of a row of an earlier version, from
\* its is_applied flag and the status of its receipt.
MigratedRow(applied, status) ==
  [Absent EXCEPT !.applied = applied, !.approval = ~applied,
     !.state = CASE status = "SUCCESS" -> "DELIVERED"
                 [] status \in {"PENDING", "UNCERTAIN"} -> "UNCERTAIN"
                 [] status = "NONE" /\ applied -> "LEGACY_REVIEW"
                 [] OTHER -> "WAITING_FOR_PLAYER"]

MigratedReceipt(status, same) ==
  IF status = "NONE" THEN NoReceipt
  ELSE [status |-> IF status = "PENDING" THEN "UNCERTAIN" ELSE status, same |-> same]

Migrated == {[row |-> MigratedRow(a, s), receipt |-> MigratedReceipt(s, m)] :
               a \in BOOLEAN, s \in {"NONE", "SUCCESS", "PENDING", "UNCERTAIN"}, m \in BOOLEAN}

Init ==
  /\ \E old \in [Historical -> Migrated] :
       /\ queue = [d \in Deliveries |-> IF d \in Historical THEN old[d].row ELSE Absent]
       /\ receipt = [d \in Deliveries |-> IF d \in Historical THEN old[d].receipt ELSE NoReceipt]
  /\ event = [d \in Deliveries |-> "NONE"]
  /\ worker = [w \in Workers |-> Idle]
  /\ online = {}
  /\ inflight = {}
  /\ granted = [d \in Deliveries |-> {}]
  /\ budget = [d \in Deliveries |-> 0]
  /\ refuted = [d \in Deliveries |-> {}]
  /\ faults = 0
  /\ flips = 0

-----------------------------------------------------------------------------
(* The playtime trigger queues a reward *)

Enqueue(d) ==
  /\ queue[d].state = "ABSENT"
  /\ queue' = [queue EXCEPT ![d] = NewRow]
  /\ budget' = [budget EXCEPT ![d] = @ + 1]
  /\ UNCHANGED <<receipt, event, worker, online, game, refuted, faults, flips>>

-----------------------------------------------------------------------------
(* One tick of a daemon: recover, defer, claim and prepare in one           *)
(* transaction.  A tick that fails before COMMIT changes nothing.           *)

WrongDispatchableState(r) == ~r.applied /\ ~r.approval /\ r.resolution = "none" /\ r.due
WrongDispatchableApproval(r) ==
  ~r.applied /\ r.resolution = "none" /\ r.state \in ClaimableStates /\ r.due
Dispatchable(r) ==
  /\ ~r.applied /\ ~r.approval /\ r.resolution = "none"
  /\ r.state \in ClaimableStates
  /\ r.due

WrongLeaseExpired(r) == r.state = "DELIVERING"
LeaseExpired(r) == r.state = "DELIVERING" /\ r.lease = "expired"

Expired == {d \in Deliveries : LeaseExpired(queue[d])}
Deferred == {d \in Deliveries : Dispatchable(queue[d]) /\ Owner[d] \notin online}
Claimable == {d \in Deliveries : Dispatchable(queue[d]) /\ Owner[d] \in online}

\* recoverExpiredLeases and deferOfflineDeliveries, row by row.
WrongRecoveredRow(r) == [r EXCEPT !.state = "READY", !.lease = "none"]
RecoveredRow(r) == [r EXCEPT !.state = "UNCERTAIN", !.lease = "none"]
DeferredRow(r) == [r EXCEPT !.state = "WAITING_FOR_PLAYER", !.due = FALSE]

SweptRow(d) == IF d \in Expired THEN RecoveredRow(queue[d])
               ELSE IF d \in Deferred THEN DeferredRow(queue[d])
               ELSE queue[d]
WrongSweptReceipt(d) == receipt[d]
SweptReceipt(d) == IF d \in Expired /\ receipt[d].status = "PENDING"
                   THEN [receipt[d] EXCEPT !.status = "UNCERTAIN"]
                   ELSE receipt[d]
SweptEvent(d) == IF d \in Expired THEN "UNCERTAIN"
                 ELSE IF d \in Deferred THEN "WAITING_FOR_PLAYER"
                 ELSE event[d]

\* The tick leaves every other row swept, and row d as given.
CommitTick(d, row, rcpt, ev) ==
  /\ queue' = [x \in Deliveries |-> IF x = d THEN row ELSE SweptRow(x)]
  /\ receipt' = [x \in Deliveries |-> IF x = d THEN rcpt ELSE SweptReceipt(x)]
  /\ event' = [x \in Deliveries |-> IF x = d THEN ev ELSE SweptEvent(x)]

\* ORDER BY created_at, id LIMIT 1, after the offline rows were deferred.
Oldest(d) == d \in Claimable /\ \A e \in Claimable : d <= e

WrongClaimedRow(r) == [r EXCEPT !.state = "DELIVERING", !.attempts = @ + 1]
ClaimedRow(r) == [r EXCEPT !.state = "DELIVERING", !.lease = "fresh", !.attempts = @ + 1]

\* prepareDelivery lets the command through only if there is no receipt, or
\* a matching one that says the last attempt is known not to have delivered.
MayDispatch(rc) == \/ rc.status = "NONE"
                   \/ rc.same /\ rc.status \in {"WAITING_FOR_PLAYER", "RETRY_WAIT"}

WrongPreparedReceipt(rc) == rc
PreparedReceipt(rc) == [rc EXCEPT !.status = "PENDING"]

TickSweep(w) ==
  /\ worker[w].pc = "idle"
  /\ Claimable = {}
  /\ queue' = [x \in Deliveries |-> SweptRow(x)]
  /\ receipt' = [x \in Deliveries |-> SweptReceipt(x)]
  /\ event' = [x \in Deliveries |-> SweptEvent(x)]
  /\ UNCHANGED <<worker, online, game, history, faults, flips>>

TickPrepare(w, d) ==
  /\ worker[w].pc = "idle"
  /\ Oldest(d)
  /\ MayDispatch(receipt[d])
  /\ CommitTick(d, ClaimedRow(queue[d]), PreparedReceipt(receipt[d]), "DELIVERING")
  /\ worker' = [worker EXCEPT ![w] = [pc |-> "resolving", d |-> d,
                                      n |-> queue[d].attempts + 1, outcome |-> "none"]]
  /\ UNCHANGED <<online, game, history, faults, flips>>

\* The receipt forbids a command: the row is closed without dispatching one.
BlockedState(rc) == IF rc.status = "SUCCESS" /\ rc.same THEN "DELIVERED" ELSE "UNCERTAIN"
BlockedRow(r, rc) == [ClaimedRow(r) EXCEPT !.state = BlockedState(rc), !.lease = "none",
                        !.applied = (BlockedState(rc) = "DELIVERED")]

TickBlocked(w, d) ==
  /\ worker[w].pc = "idle"
  /\ Oldest(d)
  /\ ~MayDispatch(receipt[d])
  /\ CommitTick(d, BlockedRow(queue[d], receipt[d]), receipt[d], BlockedState(receipt[d]))
  /\ UNCHANGED <<worker, online, game, history, faults, flips>>

-----------------------------------------------------------------------------
(* Dispatch: resolve the player, run the command, finalize.  The worker     *)
(* holds no transaction here.                                               *)

ResolveFails(w) ==
  /\ worker[w].pc = "resolving"
  /\ worker' = [worker EXCEPT ![w].pc = "finalizing", ![w].outcome = "FAILED"]
  /\ UNCHANGED <<tables, online, game, history, faults, flips>>

ResolveOffline(w) ==
  /\ worker[w].pc = "resolving"
  /\ Owner[worker[w].d] \notin online
  /\ worker' = [worker EXCEPT ![w].pc = "finalizing", ![w].outcome = "WAITING_FOR_PLAYER"]
  /\ UNCHANGED <<tables, online, game, history, faults, flips>>

StartCommand(w) ==
  /\ worker[w].pc = "resolving"
  /\ Owner[worker[w].d] \in online
  /\ worker' = [worker EXCEPT ![w].pc = "commanding"]
  /\ inflight' = inflight \cup {<<worker[w].d, worker[w].n>>}
  /\ UNCHANGED <<tables, online, granted, history, faults, flips>>

\* The game server carries out a command, whether or not anybody waits.
Grant(d, n) ==
  /\ <<d, n>> \in inflight
  /\ inflight' = inflight \ {<<d, n>>}
  /\ granted' = [granted EXCEPT ![d] = @ \cup {n}]
  /\ UNCHANGED <<tables, worker, online, history, faults, flips>>

\* What the command wrapper reports: its exit, and the phrase its output
\* holds, if any, that the classifier knows.
Result == [ok : BOOLEAN, timedOut : BOOLEAN,
           says : {"offline", "invalid_item", "invalid_identity", "unchanged", "nothing"}]

WrongClassifyTimeout(r) ==
  CASE r.says = "offline" -> "WAITING_FOR_PLAYER"
    [] r.says \in {"invalid_item", "invalid_identity"} -> "FAILED"
    [] ~r.timedOut /\ r.says = "nothing" /\ r.ok -> "DELIVERED"
    [] OTHER -> "UNCERTAIN"
WrongClassifyError(r) ==
  CASE r.says = "offline" /\ ~r.timedOut -> "WAITING_FOR_PLAYER"
    [] r.ok /\ r.says = "nothing" -> "DELIVERED"
    [] OTHER -> "FAILED"
classifyDeliveryResult(r) ==
  CASE r.timedOut -> "UNCERTAIN"
    [] ~r.timedOut /\ r.says = "offline" -> "WAITING_FOR_PLAYER"
    [] ~r.timedOut /\ r.says \in {"invalid_item", "invalid_identity"} -> "FAILED"
    [] ~r.timedOut /\ r.says = "nothing" /\ r.ok -> "DELIVERED"
    [] OTHER -> "UNCERTAIN"

Refusals == {"offline", "invalid_item", "invalid_identity"}

\* A refusal the wrapper lived to report: the server will not grant.
Refused(r) == ~r.timedOut /\ r.says \in Refusals

\* What the wrapper may report of attempt n of d.  A killed wrapper reports
\* no success; success without the unchanged-inventory notice means that the
\* item arrived; a refusal means that it did not.
PossibleResult(r, d, n) ==
  /\ r.timedOut => ~r.ok
  /\ r.ok /\ r.says = "nothing" => n \in granted[d]
  /\ Refused(r) => <<d, n>> \in inflight
  /\ r.says = "offline" => Owner[d] \notin online

CommandEnds(w) ==
  /\ worker[w].pc = "commanding"
  /\ \E r \in Result :
       LET d == worker[w].d
           n == worker[w].n
       IN /\ PossibleResult(r, d, n)
          /\ worker' = [worker EXCEPT ![w].pc = "finalizing",
                                      ![w].outcome = classifyDeliveryResult(r)]
          /\ inflight' = IF Refused(r) THEN inflight \ {<<d, n>>} ELSE inflight
  /\ UNCHANGED <<tables, online, granted, history, faults, flips>>

FinalizedRow(r, outcome) ==
  [r EXCEPT !.state = outcome, !.applied = (outcome = "DELIVERED"),
            !.lease = "none", !.due = (outcome # "WAITING_FOR_PLAYER")]
WrongReceiptStatus(outcome) == outcome
FinalReceiptStatus(outcome) == IF outcome = "DELIVERED" THEN "SUCCESS" ELSE outcome

\* The row is guarded by its state only; the receipt and the event are not
\* guarded at all.
finalizeDelivery(w) ==
  LET d == worker[w].d
      outcome == worker[w].outcome
  IN /\ worker[w].pc = "finalizing"
     /\ queue' = IF queue[d].state = "DELIVERING"
                 THEN [queue EXCEPT ![d] = FinalizedRow(@, outcome)]
                 ELSE queue
     /\ receipt' = [receipt EXCEPT ![d].status = FinalReceiptStatus(outcome)]
     /\ event' = [event EXCEPT ![d] = outcome]
     /\ refuted' = IF outcome = "WAITING_FOR_PLAYER"
                   THEN [refuted EXCEPT ![d] = @ \cup {worker[w].n}]
                   ELSE refuted
     /\ worker' = [worker EXCEPT ![w] = Idle]
     /\ UNCHANGED <<online, game, budget, faults, flips>>

\* A database call of dispatchDelivery or finalizeDelivery throws: the tick
\* is over and the row keeps its lease.
DispatchThrows(w) ==
  /\ worker[w].pc \in {"resolving", "finalizing"}
  /\ faults < MaxFaults
  /\ faults' = faults + 1
  /\ worker' = [worker EXCEPT ![w] = Idle]
  /\ UNCHANGED <<tables, online, game, history, flips>>

-----------------------------------------------------------------------------
(* Processes, time and players *)

\* A rejected pool.connect outside the try of tick, a failed heartbeat or a
\* kill.  A command already started may still reach the game server.
Crash(w) ==
  /\ worker[w].pc # "down"
  /\ faults < MaxFaults
  /\ faults' = faults + 1
  /\ worker' = [worker EXCEPT ![w] = Down]
  /\ UNCHANGED <<tables, online, game, history, flips>>

Restart(w) ==
  /\ worker[w].pc = "down"
  /\ worker' = [worker EXCEPT ![w] = Idle]
  /\ UNCHANGED <<tables, online, game, history, faults, flips>>

\* Five minutes pass since the claim.  A worker that is not stalled is done
\* by then: its command is killed after three.
LeaseLapses(d) ==
  /\ queue[d].lease = "fresh"
  /\ \/ Stalls
     \/ ~ \E w \in Workers : Busy(w) /\ worker[w].d = d
  /\ queue' = [queue EXCEPT ![d].lease = "expired"]
  /\ UNCHANGED <<receipt, event, worker, online, game, history, faults, flips>>

\* Five minutes pass since the delivery was put off.
BecomesDue(d) ==
  /\ ~queue[d].due
  /\ queue' = [queue EXCEPT ![d].due = TRUE]
  /\ UNCHANGED <<receipt, event, worker, online, game, history, faults, flips>>

LogIn(p) ==
  /\ p \notin online
  /\ flips < MaxFlips
  /\ flips' = flips + 1
  /\ online' = online \cup {p}
  /\ UNCHANGED <<tables, worker, game, history, faults>>

LogOut(p) ==
  /\ p \in online
  /\ flips < MaxFlips
  /\ flips' = flips + 1
  /\ online' = online \ {p}
  /\ UNCHANGED <<tables, worker, game, history, faults>>

-----------------------------------------------------------------------------
(* The administrator's console *)

Outstanding(d) == \E n \in 1..queue[d].attempts : <<d, n>> \in inflight

\* What a reconciling administrator may conclude from the game's state.
LooksUndelivered(d) == granted[d] = {} /\ ~Outstanding(d)
LooksDelivered(d) == granted[d] # {}

\* The pending list shows rows that are not applied and not resolved.
Listed(r) == ~r.applied /\ r.resolution = "none"
Resolvable(r) == r.state = "UNCERTAIN" /\ r.resolution = "none"

approveHistoricalDelivery(d) ==
  /\ queue[d].state = "WAITING_FOR_PLAYER" /\ queue[d].approval
  /\ Listed(queue[d])
  /\ budget[d] < MaxBudget
  /\ budget' = [budget EXCEPT ![d] = @ + 1]
  /\ queue' = [queue EXCEPT ![d].approval = FALSE]
  /\ event' = [event EXCEPT ![d] = "WAITING_FOR_PLAYER"]
  /\ UNCHANGED <<receipt, worker, online, game, refuted, faults, flips>>

resolveDelivered(d) ==
  /\ Resolvable(queue[d]) /\ Listed(queue[d])
  /\ CarefulAdmin => LooksDelivered(d)
  /\ queue' = [queue EXCEPT ![d] = [@ EXCEPT !.state = "DELIVERED", !.applied = TRUE,
                 !.resolution = "CONFIRMED_DELIVERED", !.lease = "none", !.due = TRUE]]
  /\ receipt' = [receipt EXCEPT ![d].status = IF @ = "NONE" THEN "NONE" ELSE "SUCCESS"]
  /\ event' = [event EXCEPT ![d] = "DELIVERED"]
  /\ UNCHANGED <<worker, online, game, history, faults, flips>>

resolveRetry(d) ==
  /\ Resolvable(queue[d]) /\ Listed(queue[d])
  /\ CarefulAdmin => LooksUndelivered(d)
  /\ budget[d] < MaxBudget
  /\ budget' = [budget EXCEPT ![d] = @ + 1]
  /\ queue' = [queue EXCEPT ![d] = [@ EXCEPT !.state = "WAITING_FOR_PLAYER",
                 !.approval = FALSE, !.lease = "none", !.due = TRUE]]
  /\ receipt' = [receipt EXCEPT ![d].status = IF @ = "NONE" THEN "NONE"
                                              ELSE "WAITING_FOR_PLAYER"]
  /\ event' = [event EXCEPT ![d] = "WAITING_FOR_PLAYER"]
  /\ UNCHANGED <<worker, online, game, refuted, faults, flips>>

resolveArchive(d) ==
  /\ Resolvable(queue[d]) /\ Listed(queue[d])
  /\ queue' = [queue EXCEPT ![d] = [@ EXCEPT !.resolution = "ARCHIVED",
                                            !.lease = "none", !.due = TRUE]]
  /\ event' = [event EXCEPT ![d] = "ARCHIVED"]
  /\ UNCHANGED <<receipt, worker, online, game, history, faults, flips>>

-----------------------------------------------------------------------------

Tick(w) == \/ TickSweep(w)
           \/ \E d \in Deliveries : TickPrepare(w, d) \/ TickBlocked(w, d)

resolveIdentity(w) == ResolveFails(w) \/ ResolveOffline(w) \/ StartCommand(w)

Daemon(w) == \/ Tick(w) \/ resolveIdentity(w) \/ CommandEnds(w) \/ finalizeDelivery(w)
             \/ DispatchThrows(w) \/ Crash(w) \/ Restart(w)

Admin(d) == \/ approveHistoricalDelivery(d) \/ resolveDelivered(d)
            \/ resolveRetry(d) \/ resolveArchive(d)

GameServer(d) == \E n \in 1..queue[d].attempts : Grant(d, n)

Clock(d) == LeaseLapses(d) \/ BecomesDue(d)

Next == \/ \E w \in Workers : Daemon(w)
        \/ \E d \in Deliveries : Enqueue(d) \/ Admin(d) \/ GameServer(d) \/ Clock(d)
        \/ \E p \in Players : LogIn(p) \/ LogOut(p)

Spec == Init /\ [][Next]_vars

\* The process is restarted, polls every 30 seconds, its awaits end, and
\* time passes.  Nobody has to log in, no command has to take effect and no
\* administrator has to act.
Fairness == /\ \A w \in Workers : /\ WF_vars(Restart(w)) /\ WF_vars(Tick(w))
                                  /\ WF_vars(resolveIdentity(w)) /\ WF_vars(CommandEnds(w))
                                  /\ WF_vars(finalizeDelivery(w))
            /\ \A d \in Deliveries : WF_vars(LeaseLapses(d)) /\ WF_vars(BecomesDue(d))

FairSpec == Spec /\ Fairness

-----------------------------------------------------------------------------
(* Properties *)

\* Every variable holds what its table, process or set can hold.
TypeOK ==
  /\ queue \in [Deliveries -> Row]
  /\ receipt \in [Deliveries -> Receipt]
  /\ event \in [Deliveries -> States \cup {"NONE", "ARCHIVED"}]
  /\ worker \in [Workers -> Worker]
  /\ online \subseteq Players
  /\ inflight \subseteq Deliveries \X Nat
  /\ granted \in [Deliveries -> SUBSET Nat]
  /\ budget \in [Deliveries -> Nat]
  /\ refuted \in [Deliveries -> SUBSET Nat]
  /\ faults \in Nat /\ flips \in Nat

\* The accounts behind GrantsAuthorized.  An open row is one that a daemon
\* may claim without anybody's further permission.
Open(r) == r.state \in ClaimableStates /\ ~r.approval

\* No attempt is numbered beyond its row's counter, and none is at once
\* granted, refuted or still under way.
AttemptsDisjoint ==
  \A d \in Deliveries :
    /\ granted[d] \cup refuted[d] \subseteq 1..queue[d].attempts
    /\ granted[d] \cap refuted[d] = {}
    /\ \A c \in inflight : c[1] = d =>
         c[2] \in 1..queue[d].attempts /\ c[2] \notin granted[d] \cup refuted[d]

\* A worker's attempt is its own, it sends the command of that attempt once,
\* and it calls an attempt undelivered only if it is.
WorkersHonest ==
  \A w \in Workers : Busy(w) =>
    LET d == worker[w].d
        n == worker[w].n
    IN /\ d \in Deliveries /\ n \in 1..queue[d].attempts /\ n \notin refuted[d]
       /\ \A v \in Workers : Busy(v) /\ worker[v].d = d /\ worker[v].n = n => v = w
       /\ \/ worker[w].pc = "resolving"
          \/ worker[w].pc = "finalizing" /\ worker[w].outcome = "WAITING_FOR_PLAYER"
          => <<d, n>> \notin inflight /\ n \notin granted[d]

\* Every claim was paid for by a permission or by a refuted attempt, and an
\* open row still has one to spend.
ClaimsPaid ==
  \A d \in Deliveries :
    /\ queue[d].attempts + (IF Open(queue[d]) THEN 1 ELSE 0) <= budget[d] + Cardinality(refuted[d])
    /\ queue[d].state = "ABSENT" => queue[d].attempts = 0

\* The books balance across every interleaving of claims, late finalizes,
\* stray commands, crashes and administrators' decisions (index.js:62-118).
Accounts == AttemptsDisjoint /\ WorkersHonest /\ ClaimsPaid

\* Whatever the workers, crashes and administrators do, a player never gets
\* an item more often than the trigger and explicit approvals and retries
\* have permitted: the daemon itself never turns one permission into two
\* grants (claimDelivery, prepareDelivery, finalizeDelivery).
GrantsAuthorized == \A d \in Deliveries : Cardinality(granted[d]) <= budget[d]

\* With administrators who reconcile first and leases that outlive their
\* workers, a reward is delivered at most once, retries included.
NoDuplicate == \A d \in Deliveries : Cardinality(granted[d]) <= 1

\* A row that a daemon may claim, now or once it is due, has no command
\* under way and no item delivered: "Once a command may have reached the
\* game server, retrying it could duplicate an earned reward."
NoReplay ==
  \A d \in Deliveries :
    Dispatchable([queue[d] EXCEPT !.due = TRUE]) => granted[d] = {} /\ ~Outstanding(d)

\* A worker between its prepare and its finalize transaction works on the
\* claim it made: the row is still DELIVERING for that attempt and nobody
\* else is dispatching it, although it holds no lock on either table.
DispatchIsExclusive ==
  \A w \in Workers : Busy(w) =>
    /\ queue[worker[w].d].state = "DELIVERING"
    /\ queue[worker[w].d].attempts = worker[w].n
    /\ \A v \in Workers : Busy(v) /\ worker[v].d = worker[w].d => v = w

\* The receipt is written before the command boundary: every command that
\* is under way or has granted an item left one, even after a crash.
ReceiptBeforeCommand ==
  \A d \in Deliveries : granted[d] # {} \/ Outstanding(d) => receipt[d].status # "NONE"

\* Row, receipt and audit trail, written by different statements of
\* different transactions, agree about every delivery that was attempted.
Agreement ==
  \A d \in Deliveries : queue[d].attempts > 0 =>
    /\ event[d] = IF queue[d].resolution = "ARCHIVED" THEN "ARCHIVED" ELSE queue[d].state
    /\ CASE queue[d].state = "DELIVERING" -> receipt[d].status = "PENDING"
         [] queue[d].state = "DELIVERED" -> receipt[d].status = "SUCCESS"
         [] queue[d].state = "WAITING_FOR_PLAYER" -> receipt[d].status = "WAITING_FOR_PLAYER"
         [] queue[d].state = "FAILED" -> receipt[d].status = "FAILED"
         [] OTHER -> receipt[d].same => receipt[d].status = "UNCERTAIN"

\* A reward the daemon has written off as FAILED was not delivered and no
\* longer can be.
FailedIsUndelivered ==
  \A d \in Deliveries : queue[d].state = "FAILED" => granted[d] = {} /\ ~Outstanding(d)

\* A claimed row always carries the lease by which another tick will find
\* it if its worker is lost.
LeaseMarksClaim ==
  \A d \in Deliveries : queue[d].state = "DELIVERING" => queue[d].lease # "none"

\* Every uncertain delivery that nobody has resolved is in the list from
\* which an administrator resolves it.
UncertainIsReviewable ==
  \A d \in Deliveries : Resolvable(queue[d]) => Listed(queue[d])

\* An uncertain row leaves that state only by an administrator's decision;
\* a delivered, failed or archived row never changes its mind; and only the
\* claim raises the number of attempts, from a state that may be claimed.
LeavesByDecision ==
  \A d \in Deliveries :
    /\ queue[d].state = "UNCERTAIN" /\ queue'[d].state # "UNCERTAIN" =>
         budget'[d] > budget[d] \/ queue'[d].resolution = "CONFIRMED_DELIVERED"
    /\ queue[d].state \in {"DELIVERED", "FAILED"} => queue'[d].state = queue[d].state
    /\ queue[d].resolution # "none" => queue'[d] = queue[d]
    /\ queue'[d].attempts > queue[d].attempts => Dispatchable(queue[d])
NeverSilentlyReopened == [][LeavesByDecision]_vars

\* A claimed row is not stuck: it is finalized, or its lease lapses and a
\* later tick hands it to the administrator.
ClaimEnds ==
  \A d \in Deliveries : (queue[d].state = "DELIVERING") ~> (queue[d].state # "DELIVERING")

Settled(r) == r.state \in {"DELIVERED", "FAILED", "UNCERTAIN"}

\* A queued reward whose player stays online is taken up and settled.
OnlineIsServed ==
  \A d \in Deliveries :
    <>[](Owner[d] \in online) =>
      (Dispatchable([queue[d] EXCEPT !.due = TRUE]) ~> Settled(queue[d]))
=============================================================================
