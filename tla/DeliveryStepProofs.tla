------------------------- MODULE DeliveryStepProofs -------------------------
(* What a step may do to a row of the queue, for any constants: rows leave  *)
(* review only by a decision, and the queue implements RewardLifecycle.     *)
EXTENDS DeliveryProofs

-----------------------------------------------------------------------------
(* The ways in which a row changes *)

\* The statements of the code that write a row, with the rows they match.
ByTrigger(r, s) == r.state = "ABSENT" /\ s = NewRow
BySweep(r, s) == \/ LeaseExpired(r) /\ s = RecoveredRow(r)
                 \/ Dispatchable(r) /\ s = DeferredRow(r)
ByClaim(r, s) == Dispatchable(r) /\ (s = ClaimedRow(r) \/ \E rc \in Receipt : s = BlockedRow(r, rc))
ByFinalize(r, s) == r.state = "DELIVERING" /\ \E o \in Outcomes : s = FinalizedRow(r, o)
ByClock(r, s) == \/ r.lease = "fresh" /\ s = [r EXCEPT !.lease = "expired"]
                 \/ ~r.due /\ s = [r EXCEPT !.due = TRUE]
ByApproval(r, s) == /\ r.state = "WAITING_FOR_PLAYER" /\ r.approval /\ Listed(r)
                    /\ s = [r EXCEPT !.approval = FALSE]
ByRetry(r, s) == /\ Resolvable(r) /\ Listed(r)
                 /\ s = [r EXCEPT !.state = "WAITING_FOR_PLAYER", !.approval = FALSE,
                                  !.lease = "none", !.due = TRUE]
ByReview(r, s) == /\ Resolvable(r) /\ Listed(r)
                  /\ \/ s = [r EXCEPT !.state = "DELIVERED", !.applied = TRUE,
                               !.resolution = "CONFIRMED_DELIVERED", !.lease = "none", !.due = TRUE]
                     \/ s = [r EXCEPT !.resolution = "ARCHIVED", !.lease = "none", !.due = TRUE]

Permitted(d) ==
  /\ budget'[d] = budget[d] + 1
  /\ \/ ByTrigger(queue[d], queue'[d])
     \/ ByApproval(queue[d], queue'[d])
     \/ ByRetry(queue[d], queue'[d])
Unpermitted(d) ==
  /\ budget'[d] = budget[d]
  /\ \/ queue'[d] = queue[d]
     \/ BySweep(queue[d], queue'[d])
     \/ ByClaim(queue[d], queue'[d])
     \/ ByFinalize(queue[d], queue'[d])
     \/ ByClock(queue[d], queue'[d])
     \/ ByReview(queue[d], queue'[d])

\* The sweep of a tick moves a row only out of a lapsed lease or puts it off.
LEMMA SweepIsSweep ==
  ASSUME NEW d \in Deliveries
  PROVE  SweptRow(d) = queue[d] \/ BySweep(queue[d], SweptRow(d))
BY DEF SweptRow, Expired, Deferred, BySweep

\* Every step changes every row in one of these ways, and a row's budget
\* grows only with the first three.
LEMMA RowSteps ==
  ASSUME TypeOK, [Next]_vars
  PROVE  \A d \in Deliveries : Permitted(d) \/ Unpermitted(d)
<1> USE DEF tables, game, history
<1>1. ASSUME NEW d \in Deliveries, Enqueue(d)
      PROVE  \A x \in Deliveries : Permitted(x) \/ Unpermitted(x)
  BY <1>1 DEF Enqueue, TypeOK, Permitted, Unpermitted, ByTrigger
<1>2. ASSUME NEW w \in Workers, TickSweep(w)
      PROVE  \A x \in Deliveries : Permitted(x) \/ Unpermitted(x)
  BY <1>2, SweepIsSweep DEF TickSweep, Unpermitted
<1>3. ASSUME NEW w \in Workers, NEW d \in Deliveries, TickPrepare(w, d) \/ TickBlocked(w, d)
      PROVE  \A x \in Deliveries : Permitted(x) \/ Unpermitted(x)
  <2>1. \A x \in Deliveries \ {d} : queue'[x] = queue[x] \/ BySweep(queue[x], queue'[x])
    BY <1>3, SweepIsSweep DEF TickPrepare, TickBlocked, CommitTick
  <2>2. queue'[d] = ClaimedRow(queue[d]) \/ queue'[d] = BlockedRow(queue[d], receipt[d])
    BY <1>3 DEF TickPrepare, TickBlocked, CommitTick
  <2>3. Dispatchable(queue[d]) /\ receipt[d] \in Receipt /\ UNCHANGED budget
    BY <1>3 DEF TickPrepare, TickBlocked, Oldest, Claimable, TypeOK
  <2>4. ByClaim(queue[d], queue'[d])
    BY <2>2, <2>3 DEF ByClaim
  <2> QED BY <2>1, <2>3, <2>4 DEF Unpermitted
<1>4. ASSUME NEW w \in Workers, finalizeDelivery(w)
      PROVE  \A x \in Deliveries : Permitted(x) \/ Unpermitted(x)
  <2>1. worker[w].d \in Deliveries /\ worker[w].outcome \in Outcomes /\ UNCHANGED budget
    BY <1>4, BusyTypes DEF finalizeDelivery, Busy
  <2>2. \A x \in Deliveries : \/ queue'[x] = queue[x]
                              \/ /\ x = worker[w].d /\ queue[x].state = "DELIVERING"
                                 /\ queue'[x] = FinalizedRow(queue[x], worker[w].outcome)
    BY <1>4, <2>1 DEF finalizeDelivery, TypeOK
  <2> QED BY <2>1, <2>2 DEF Unpermitted, ByFinalize
<1>5. ASSUME NEW d \in Deliveries, Clock(d)
      PROVE  \A x \in Deliveries : Permitted(x) \/ Unpermitted(x)
  BY <1>5 DEF Clock, LeaseLapses, BecomesDue, TypeOK, Unpermitted, ByClock
<1>6. ASSUME NEW d \in Deliveries, Admin(d)
      PROVE  \A x \in Deliveries : Permitted(x) \/ Unpermitted(x)
  <2>1. CASE approveHistoricalDelivery(d)
    BY <2>1 DEF approveHistoricalDelivery, TypeOK, Permitted, Unpermitted, ByApproval
  <2>2. CASE resolveDelivered(d)
    BY <2>2 DEF resolveDelivered, TypeOK, Unpermitted, ByReview
  <2>3. CASE resolveRetry(d)
    BY <2>3 DEF resolveRetry, TypeOK, Permitted, Unpermitted, ByRetry
  <2>4. CASE resolveArchive(d)
    BY <2>4 DEF resolveArchive, TypeOK, Unpermitted, ByReview
  <2> QED BY <1>6, <2>1, <2>2, <2>3, <2>4 DEF Admin
<1>7. ASSUME UNCHANGED <<queue, budget>>
      PROVE  \A x \in Deliveries : Permitted(x) \/ Unpermitted(x)
  BY <1>7 DEF Unpermitted
<1>8. ASSUME NEW w \in Workers, \/ resolveIdentity(w) \/ CommandEnds(w) \/ DispatchThrows(w)
                                \/ Crash(w) \/ Restart(w)
      PROVE  UNCHANGED <<queue, budget>>
  BY <1>8 DEF resolveIdentity, ResolveFails, ResolveOffline, StartCommand, CommandEnds,
              DispatchThrows, Crash, Restart
<1>9. ASSUME NEW d \in Deliveries, NEW n \in Nat, Grant(d, n) PROVE UNCHANGED <<queue, budget>>
  BY <1>9 DEF Grant
<1>10. ASSUME NEW p \in Players, LogIn(p) \/ LogOut(p) PROVE UNCHANGED <<queue, budget>>
  BY <1>10 DEF LogIn, LogOut
<1>11. CASE UNCHANGED vars
  BY <1>7, <1>11 DEF vars
<1> QED
  BY <1>1, <1>2, <1>3, <1>4, <1>5, <1>6, <1>7, <1>8, <1>9, <1>10, <1>11
  DEF Next, Daemon, Tick, GameServer

\* What the written rows hold.
LEMMA WrittenRows ==
  ASSUME NEW r \in Row
  PROVE  /\ RecoveredRow(r).state = "UNCERTAIN" /\ RecoveredRow(r).lease = "none"
         /\ RecoveredRow(r).resolution = r.resolution
         /\ RecoveredRow(r).attempts = r.attempts
         /\ DeferredRow(r).state = "WAITING_FOR_PLAYER" /\ DeferredRow(r).lease = r.lease
         /\ DeferredRow(r).resolution = r.resolution
         /\ DeferredRow(r).approval = r.approval
         /\ DeferredRow(r).attempts = r.attempts
         /\ ClaimedRow(r).state = "DELIVERING" /\ ClaimedRow(r).lease = "fresh"
         /\ ClaimedRow(r).resolution = r.resolution
         /\ ClaimedRow(r).approval = r.approval /\ ClaimedRow(r).applied = r.applied
         /\ ClaimedRow(r).due = r.due
         /\ \A rc \in Receipt :
              /\ BlockedRow(r, rc).state \in {"DELIVERED", "UNCERTAIN"}
              /\ BlockedRow(r, rc).lease = "none"
              /\ BlockedRow(r, rc).resolution = r.resolution
              /\ BlockedRow(r, rc).approval = r.approval
              /\ BlockedRow(r, rc).applied = (BlockedRow(r, rc).state = "DELIVERED")
         /\ \A o \in Outcomes :
              /\ FinalizedRow(r, o).state = o /\ FinalizedRow(r, o).lease = "none"
              /\ FinalizedRow(r, o).attempts = r.attempts
              /\ FinalizedRow(r, o).resolution = r.resolution
              /\ FinalizedRow(r, o).approval = r.approval
              /\ FinalizedRow(r, o).applied = (o = "DELIVERED")
<1>1. /\ ClaimedRow(r).state = "DELIVERING" /\ ClaimedRow(r).lease = "fresh"
      /\ ClaimedRow(r).resolution = r.resolution
      /\ ClaimedRow(r).approval = r.approval /\ ClaimedRow(r).applied = r.applied
      /\ ClaimedRow(r).due = r.due
  BY DEF ClaimedRow, Row
<1>2. ASSUME NEW rc \in Receipt
      PROVE  /\ BlockedRow(r, rc).state \in {"DELIVERED", "UNCERTAIN"}
             /\ BlockedRow(r, rc).lease = "none"
             /\ BlockedRow(r, rc).resolution = r.resolution
             /\ BlockedRow(r, rc).approval = r.approval
             /\ BlockedRow(r, rc).applied = (BlockedRow(r, rc).state = "DELIVERED")
  <2>1. ClaimedRow(r) \in Row
    BY ClaimTypes
  <2>2. BlockedState(rc) \in {"DELIVERED", "UNCERTAIN"}
    BY DEF BlockedState
  <2> QED BY <1>1, <2>1, <2>2 DEF BlockedRow, Row
<1>3. ASSUME NEW o \in Outcomes
      PROVE  /\ FinalizedRow(r, o).state = o /\ FinalizedRow(r, o).lease = "none"
             /\ FinalizedRow(r, o).attempts = r.attempts
             /\ FinalizedRow(r, o).resolution = r.resolution
             /\ FinalizedRow(r, o).approval = r.approval
             /\ FinalizedRow(r, o).applied = (o = "DELIVERED")
  BY DEF FinalizedRow, Row
<1>4. /\ RecoveredRow(r).state = "UNCERTAIN" /\ RecoveredRow(r).lease = "none"
      /\ RecoveredRow(r).resolution = r.resolution
      /\ RecoveredRow(r).attempts = r.attempts
  BY DEF RecoveredRow, Row
<1>5. /\ DeferredRow(r).state = "WAITING_FOR_PLAYER" /\ DeferredRow(r).lease = r.lease
      /\ DeferredRow(r).resolution = r.resolution
      /\ DeferredRow(r).approval = r.approval
      /\ DeferredRow(r).attempts = r.attempts
  BY DEF DeferredRow, Row
<1> QED BY <1>1, <1>2, <1>3, <1>4, <1>5

-----------------------------------------------------------------------------
(* Nothing is reopened silently *)

\* A resolved row is at rest: it is out of the queue and no timer is set.
ResolvedAtRest ==
  \A d \in Deliveries : queue[d].resolution # "none" =>
    /\ queue[d].state \in {"UNCERTAIN", "DELIVERED"}
    /\ queue[d].lease = "none" /\ queue[d].due

\* Both facts about single rows, which every statement keeps.
RowInvariant == LeaseMarksClaim /\ ResolvedAtRest

\* No row is claimed or resolved before the daemons start.
LEMMA RowInvariantInit == Init => RowInvariant
<1> SUFFICES ASSUME Init, NEW d \in Deliveries
             PROVE  queue[d].state # "DELIVERING" /\ queue[d].resolution = "none"
  BY DEF RowInvariant, LeaseMarksClaim, ResolvedAtRest
<1>1. PICK old \in [Historical -> Migrated] :
        queue = [x \in Deliveries |-> IF x \in Historical THEN old[x].row ELSE Absent]
  BY DEF Init
<1>2. ASSUME NEW m \in Migrated PROVE m.row.state # "DELIVERING" /\ m.row.resolution = "none"
  <2>1. PICK a \in BOOLEAN, s \in {"NONE", "SUCCESS", "PENDING", "UNCERTAIN"} :
          m.row = MigratedRow(a, s)
    BY DEF Migrated
  <2>2. MigratedRow(a, s).state # "DELIVERING" /\ MigratedRow(a, s).resolution = "none"
    BY DEF MigratedRow, Absent, NewRow
  <2> QED BY <2>1, <2>2
<1> QED BY <1>1, <1>2 DEF Absent, NewRow

\* Every statement that writes a row keeps the lease of a claim and leaves a
\* resolved row at rest.
LEMMA RowInvariantNext == TypeOK /\ RowInvariant /\ [Next]_vars => RowInvariant'
<1> SUFFICES ASSUME TypeOK, RowInvariant, [Next]_vars, NEW d \in Deliveries
             PROVE  /\ queue'[d].state = "DELIVERING" => queue'[d].lease # "none"
                    /\ queue'[d].resolution # "none" =>
                         /\ queue'[d].state \in {"UNCERTAIN", "DELIVERED"}
                         /\ queue'[d].lease = "none" /\ queue'[d].due
  BY DEF RowInvariant, LeaseMarksClaim, ResolvedAtRest
<1> DEFINE r == queue[d]
           s == queue'[d]
<1>1. r \in Row
  BY DEF TypeOK
<1>2. /\ r.state = "DELIVERING" => r.lease # "none"
      /\ r.resolution # "none" =>
           r.state \in {"UNCERTAIN", "DELIVERED"} /\ r.lease = "none" /\ r.due
  BY DEF RowInvariant, LeaseMarksClaim, ResolvedAtRest
<1>3. Permitted(d) \/ Unpermitted(d)
  BY RowSteps
<1>4. Permitted(d) => \/ ByTrigger(r, s) \/ ByApproval(r, s) \/ ByRetry(r, s)
  BY DEF Permitted
<1>5. Unpermitted(d) => \/ s = r \/ BySweep(r, s) \/ ByClaim(r, s) \/ ByFinalize(r, s)
                        \/ ByClock(r, s) \/ ByReview(r, s)
  BY DEF Unpermitted
<1> HIDE DEF r, s
<1> DEFINE Good == /\ s.state = "DELIVERING" => s.lease # "none"
                   /\ s.resolution # "none" =>
                        s.state \in {"UNCERTAIN", "DELIVERED"} /\ s.lease = "none" /\ s.due
<1>6. ByTrigger(r, s) => Good
  BY DEF ByTrigger, NewRow
<1>7. BySweep(r, s) => Good
  <2>1. CASE LeaseExpired(r) /\ s = RecoveredRow(r)
    BY <1>1, <1>2, <2>1, WrittenRows DEF LeaseExpired
  <2>2. CASE Dispatchable(r) /\ s = DeferredRow(r)
    BY <1>1, <2>2, WrittenRows DEF Dispatchable
  <2> QED BY <2>1, <2>2 DEF BySweep
<1>8. ByClaim(r, s) => Good
  <2>1. CASE Dispatchable(r) /\ s = ClaimedRow(r)
    BY <1>1, <2>1, WrittenRows DEF Dispatchable
  <2>2. ASSUME Dispatchable(r), NEW rc \in Receipt, s = BlockedRow(r, rc) PROVE Good
    BY <1>1, <2>2, WrittenRows DEF Dispatchable
  <2> QED BY <2>1, <2>2 DEF ByClaim
<1>9. ByFinalize(r, s) => Good
  <2>1. ASSUME r.state = "DELIVERING", NEW o \in Outcomes, s = FinalizedRow(r, o) PROVE Good
    <3>1. s.state = o /\ s.resolution = r.resolution
      BY <1>1, <2>1, WrittenRows
    <3>2. r.resolution = "none"
      BY <1>2, <2>1
    <3> QED BY <3>1, <3>2 DEF Outcomes
  <2> QED BY <2>1 DEF ByFinalize
<1>10. ByClock(r, s) => Good
  BY <1>1, <1>2 DEF ByClock, Row
<1>11. ByApproval(r, s) => Good
  BY <1>1, <1>2 DEF ByApproval, Row
<1>12. ByRetry(r, s) => Good
  BY <1>1, <1>2 DEF ByRetry, Resolvable, Row
<1>13. ByReview(r, s) => Good
  BY <1>1, <1>2 DEF ByReview, Resolvable, Row
<1> QED BY <1>2, <1>3, <1>4, <1>5, <1>6, <1>7, <1>8, <1>9, <1>10, <1>11, <1>12, <1>13 DEF r, s

\* A worker that is lost always leaves a lease by which the next tick finds
\* its row (claimDelivery, recoverExpiredLeases).
THEOREM NoStrandedClaim == Spec => []LeaseMarksClaim
<1>1. Init => TypeOK /\ RowInvariant
  BY InitTypes, RowInvariantInit
<1>2. TypeOK /\ RowInvariant /\ [Next]_vars => TypeOK' /\ RowInvariant'
  BY NextTypes, RowInvariantNext
<1> QED BY <1>1, <1>2, PTL DEF Spec, RowInvariant

\* No single step of a daemon, the clock or the console reopens a row that
\* only an administrator may reopen.
LEMMA StepsDecide == TypeOK /\ RowInvariant /\ [Next]_vars => LeavesByDecision
<1> SUFFICES ASSUME TypeOK, RowInvariant, [Next]_vars, NEW d \in Deliveries
             PROVE  /\ queue[d].state = "UNCERTAIN" /\ queue'[d].state # "UNCERTAIN" =>
                         budget'[d] > budget[d] \/ queue'[d].resolution = "CONFIRMED_DELIVERED"
                    /\ queue[d].state \in {"DELIVERED", "FAILED"} => queue'[d].state = queue[d].state
                    /\ queue[d].resolution # "none" => queue'[d] = queue[d]
                    /\ queue'[d].attempts > queue[d].attempts => Dispatchable(queue[d])
  BY DEF LeavesByDecision
<1> DEFINE r == queue[d]
           s == queue'[d]
           more == budget'[d] > budget[d]
<1>1. r \in Row /\ budget[d] \in Nat
  BY DEF TypeOK
<1>2. r.resolution # "none" =>
        r.state \in {"UNCERTAIN", "DELIVERED"} /\ r.lease = "none" /\ r.due
  BY DEF RowInvariant, ResolvedAtRest
<1>3. Permitted(d) \/ Unpermitted(d)
  BY RowSteps
<1>4. Permitted(d) => more /\ (ByTrigger(r, s) \/ ByApproval(r, s) \/ ByRetry(r, s))
  BY <1>1 DEF Permitted
<1>5. Unpermitted(d) => \/ s = r \/ BySweep(r, s) \/ ByClaim(r, s) \/ ByFinalize(r, s)
                        \/ ByClock(r, s) \/ ByReview(r, s)
  BY DEF Unpermitted
<1> HIDE DEF r, s, more
<1> DEFINE Good == /\ r.state = "UNCERTAIN" /\ s.state # "UNCERTAIN" =>
                        more \/ s.resolution = "CONFIRMED_DELIVERED"
                   /\ r.state \in {"DELIVERED", "FAILED"} => s.state = r.state
                   /\ r.resolution # "none" => s = r
                   /\ s.attempts > r.attempts => Dispatchable(r)
<1>attempts. r.attempts \in Nat /\ ~(r.attempts > r.attempts)
  BY <1>1 DEF Row
<1>6. ByTrigger(r, s) /\ more => Good
  <2>1. ByTrigger(r, s) => s.attempts = 0 /\ ~(s.attempts > r.attempts)
    BY <1>attempts DEF ByTrigger, NewRow
  <2> QED BY <1>2, <2>1 DEF ByTrigger
<1>7. BySweep(r, s) => Good
  <2>1. BySweep(r, s) => s.attempts = r.attempts
    <3>1. RecoveredRow(r).attempts = r.attempts /\ DeferredRow(r).attempts = r.attempts
      BY <1>1, WrittenRows
    <3> QED BY <3>1 DEF BySweep
  <2> QED BY <1>2, <1>attempts, <2>1 DEF BySweep, LeaseExpired, Dispatchable, ClaimableStates
<1>8. ByClaim(r, s) => Good
  BY DEF ByClaim, Dispatchable, ClaimableStates
<1>9. ByFinalize(r, s) => Good
  <2>1. ASSUME r.state = "DELIVERING", NEW o \in Outcomes, s = FinalizedRow(r, o) PROVE Good
    <3>1. s.attempts = r.attempts
      BY <1>1, <2>1, WrittenRows
    <3> QED BY <1>2, <1>attempts, <2>1, <3>1
  <2> QED BY <2>1 DEF ByFinalize
<1>10. ByClock(r, s) => Good
  <2>1. ByClock(r, s) => s.attempts = r.attempts /\ s.state = r.state
    BY <1>1 DEF ByClock, Row
  <2> QED BY <1>2, <1>attempts, <2>1 DEF ByClock
<1>11. ByApproval(r, s) /\ more => Good
  <2>1. ByApproval(r, s) => s.attempts = r.attempts /\ s.state = r.state
    BY <1>1 DEF ByApproval, Row
  <2> QED BY <1>attempts, <2>1 DEF ByApproval, Listed
<1>12. ByRetry(r, s) /\ more => Good
  <2>1. ByRetry(r, s) => s.attempts = r.attempts
    BY <1>1 DEF ByRetry, Row
  <2> QED BY <1>attempts, <2>1 DEF ByRetry, Resolvable
<1>13. ByReview(r, s) => Good
  <2>1. ByReview(r, s) =>
          s.attempts = r.attempts /\ (s.state = r.state \/ s.resolution = "CONFIRMED_DELIVERED")
    BY <1>1 DEF ByReview, Row
  <2> QED BY <1>attempts, <2>1 DEF ByReview, Resolvable
<1> QED BY <1>3, <1>4, <1>5, <1>6, <1>7, <1>8, <1>9, <1>10, <1>11, <1>12, <1>13, <1>attempts
        DEF r, s, more

\* An uncertain delivery is never retried by the daemon, and what is settled
\* stays settled, even when a stalled worker finalizes late.
THEOREM UncertainNeedsDecision == Spec => NeverSilentlyReopened
<1>1. Init => TypeOK /\ RowInvariant
  BY InitTypes, RowInvariantInit
<1>2. TypeOK /\ RowInvariant /\ [Next]_vars => TypeOK' /\ RowInvariant'
  BY NextTypes, RowInvariantNext
<1>3. TypeOK /\ RowInvariant /\ [Next]_vars => [LeavesByDecision]_vars
  BY StepsDecide
<1> QED BY <1>1, <1>2, <1>3, PTL DEF Spec, NeverSilentlyReopened

-----------------------------------------------------------------------------
(* The receipt precedes the command *)

\* Workers, commands and grants stand for deliveries that have a receipt.
ReceiptsHeld ==
  /\ \A w \in Workers : Busy(w) => receipt[worker[w].d].status # "NONE"
  /\ \A c \in inflight : receipt[c[1]].status # "NONE"
  /\ \A d \in Deliveries : granted[d] # {} => receipt[d].status # "NONE"

\* No statement deletes a receipt.
LEMMA ReceiptsStay ==
  ASSUME TypeOK, [Next]_vars, NEW x \in Deliveries, receipt[x].status # "NONE"
  PROVE  receipt'[x].status # "NONE"
<1> USE DEF tables, game, history
<1>0. receipt[x] \in Receipt
  BY DEF TypeOK
<1>1. SweptReceipt(x).status # "NONE" /\ PreparedReceipt(receipt[x]).status # "NONE"
  BY <1>0 DEF SweptReceipt, PreparedReceipt, Receipt
<1>2. ASSUME NEW w \in Workers, Tick(w) PROVE receipt'[x].status # "NONE"
  BY <1>1, <1>2 DEF Tick, TickSweep, TickPrepare, TickBlocked, CommitTick
<1>3. ASSUME NEW w \in Workers, finalizeDelivery(w) PROVE receipt'[x].status # "NONE"
  <2>1. worker[w].outcome \in Outcomes /\ worker[w].d \in Deliveries
    BY <1>3, BusyTypes DEF finalizeDelivery, Busy
  <2>2. FinalReceiptStatus(worker[w].outcome) # "NONE"
    BY <2>1 DEF FinalReceiptStatus, Outcomes
  <2> QED BY <1>0, <1>3, <2>1, <2>2 DEF finalizeDelivery, TypeOK, Receipt
<1>4. ASSUME NEW d \in Deliveries, Admin(d) PROVE receipt'[x].status # "NONE"
  <2>1. CASE resolveDelivered(d)
    BY <1>0, <2>1 DEF resolveDelivered, TypeOK, Receipt
  <2>2. CASE resolveRetry(d)
    BY <1>0, <2>2 DEF resolveRetry, TypeOK, Receipt
  <2>3. CASE approveHistoricalDelivery(d) \/ resolveArchive(d)
    BY <2>3 DEF approveHistoricalDelivery, resolveArchive
  <2> QED BY <1>4, <2>1, <2>2, <2>3 DEF Admin
<1>5. ASSUME NEW w \in Workers, \/ resolveIdentity(w) \/ CommandEnds(w) \/ DispatchThrows(w)
                                \/ Crash(w) \/ Restart(w)
      PROVE  UNCHANGED receipt
  BY <1>5 DEF resolveIdentity, ResolveFails, ResolveOffline, StartCommand, CommandEnds,
              DispatchThrows, Crash, Restart
<1>6. ASSUME NEW d \in Deliveries, NEW n \in Nat, Enqueue(d) \/ Grant(d, n) \/ Clock(d)
      PROVE  UNCHANGED receipt
  BY <1>6 DEF Enqueue, Grant, Clock, LeaseLapses, BecomesDue
<1>7. ASSUME NEW p \in Players, LogIn(p) \/ LogOut(p) PROVE UNCHANGED receipt
  BY <1>7 DEF LogIn, LogOut
<1>8. CASE UNCHANGED vars
  BY <1>8 DEF vars
<1> QED BY <1>2, <1>3, <1>4, <1>5, <1>6, <1>7, <1>8, 0 \in Nat DEF Next, Daemon, GameServer

\* A worker becomes busy only through prepareDelivery, a command is sent only
\* by a busy worker, and only a sent command grants.
LEMMA HeldNext == TypeOK /\ ReceiptsHeld /\ [Next]_vars => ReceiptsHeld'
<1> SUFFICES ASSUME TypeOK, ReceiptsHeld, [Next]_vars PROVE ReceiptsHeld'
  OBVIOUS
<1> USE DEF tables, game, history
<1> DEFINE BusyKept == \A w \in Workers : Busy(w)' => Busy(w) /\ worker'[w].d = worker[w].d
           CommandsKept == inflight' \subseteq inflight
           GrantsKept == UNCHANGED granted
<1>0. \A x \in Deliveries : receipt[x].status # "NONE" => receipt'[x].status # "NONE"
  BY ReceiptsStay
<1>1. \A w \in Workers : Busy(w) => worker[w].d \in Deliveries
  BY BusyTypes
<1>2. \A c \in inflight : c[1] \in Deliveries
  BY DEF TypeOK
<1>3. ASSUME BusyKept, CommandsKept, GrantsKept PROVE ReceiptsHeld'
  BY <1>0, <1>1, <1>2, <1>3 DEF ReceiptsHeld
<1>4. ASSUME NEW w \in Workers, NEW d \in Deliveries, TickPrepare(w, d) PROVE ReceiptsHeld'
  <2>1. receipt'[d].status # "NONE"
    <3>1. receipt'[d] = PreparedReceipt(receipt[d]) /\ receipt[d] \in Receipt
      BY <1>4 DEF TickPrepare, CommitTick, TypeOK
    <3> QED BY <3>1 DEF PreparedReceipt, Receipt
  <2>2. worker'[w].d = d /\ \A v \in Workers \ {w} : worker'[v] = worker[v]
    BY <1>4 DEF TickPrepare, TypeOK
  <2>3. UNCHANGED <<inflight, granted>>
    BY <1>4 DEF TickPrepare
  <2> QED BY <1>0, <1>1, <1>2, <2>1, <2>2, <2>3 DEF ReceiptsHeld, Busy
<1>5. ASSUME NEW w \in Workers, StartCommand(w) PROVE ReceiptsHeld'
  <2>1. Busy(w) /\ inflight' = inflight \cup {<<worker[w].d, worker[w].n>>}
    BY <1>5 DEF StartCommand, Busy
  <2>2. BusyKept /\ GrantsKept
    BY <1>5, BusyTypes DEF StartCommand, Busy, TypeOK
  <2> QED BY <1>0, <1>1, <1>2, <2>1, <2>2 DEF ReceiptsHeld
<1>6. ASSUME NEW d \in Deliveries, NEW n \in Nat, Grant(d, n) PROVE ReceiptsHeld'
  <2>1. /\ <<d, n>> \in inflight /\ inflight' \subseteq inflight
        /\ \A x \in Deliveries \ {d} : granted'[x] = granted[x]
        /\ UNCHANGED <<receipt, worker>>
    BY <1>6 DEF Grant, TypeOK
  <2> QED BY <2>1 DEF ReceiptsHeld, Busy
<1>7. ASSUME NEW w \in Workers, \/ ResolveFails(w) \/ ResolveOffline(w) \/ CommandEnds(w)
                                \/ finalizeDelivery(w) \/ DispatchThrows(w) \/ Crash(w) \/ Restart(w)
      PROVE  ReceiptsHeld'
  <2>1. CommandsKept /\ GrantsKept
    BY <1>7 DEF ResolveFails, ResolveOffline, CommandEnds, finalizeDelivery, DispatchThrows, Crash, Restart
  <2>2. CASE ResolveFails(w) \/ ResolveOffline(w)
    <3>1. worker[w].pc = "resolving" /\ worker'[w].d = worker[w].d
          /\ \A v \in Workers \ {w} : worker'[v] = worker[v]
      BY <2>2, BusyTypes DEF ResolveFails, ResolveOffline, TypeOK, Busy
    <3> QED BY <1>3, <2>1, <3>1 DEF Busy
  <2>3. CASE CommandEnds(w)
    <3>1. PICK o : worker' = [worker EXCEPT ![w].pc = "finalizing", ![w].outcome = o]
      BY <2>3 DEF CommandEnds
    <3>2. worker[w].pc = "commanding" /\ worker'[w].d = worker[w].d
          /\ \A v \in Workers \ {w} : worker'[v] = worker[v]
      BY <2>3, <3>1, BusyTypes DEF CommandEnds, TypeOK, Busy
    <3> QED BY <1>3, <2>1, <3>2 DEF Busy
  <2>4. CASE finalizeDelivery(w) \/ DispatchThrows(w) \/ Crash(w) \/ Restart(w)
    <3>1. worker'[w] \in {Idle, Down} /\ \A v \in Workers \ {w} : worker'[v] = worker[v]
      BY <2>4 DEF finalizeDelivery, DispatchThrows, Crash, Restart, TypeOK
    <3>2. Idle.pc = "idle" /\ Down.pc = "down"
      BY DEF Idle, Down
    <3>3. BusyKept
      BY <3>1, <3>2 DEF Busy
    <3> QED BY <1>3, <2>1, <3>3
  <2> QED BY <1>7, <2>2, <2>3, <2>4
<1>8. ASSUME UNCHANGED <<worker, inflight, granted>> PROVE ReceiptsHeld'
  <2>1. BusyKept /\ CommandsKept /\ GrantsKept
    BY <1>8 DEF Busy
  <2> QED BY <1>3, <2>1
<1>9. ASSUME NEW d \in Deliveries, Enqueue(d) \/ Admin(d) \/ Clock(d) PROVE ReceiptsHeld'
  BY <1>8, <1>9 DEF Enqueue, Admin, approveHistoricalDelivery, resolveDelivered, resolveRetry,
                    resolveArchive, Clock, LeaseLapses, BecomesDue
<1>10. ASSUME NEW w \in Workers, NEW d \in Deliveries, TickSweep(w) \/ TickBlocked(w, d)
       PROVE  ReceiptsHeld'
  BY <1>8, <1>10 DEF TickSweep, TickBlocked
<1>11. ASSUME NEW w \in Workers, TickSweep(w) PROVE ReceiptsHeld'
  BY <1>8, <1>11 DEF TickSweep
<1>12. ASSUME NEW p \in Players, LogIn(p) \/ LogOut(p) PROVE ReceiptsHeld'
  BY <1>8, <1>12 DEF LogIn, LogOut
<1>13. CASE UNCHANGED vars
  BY <1>8, <1>13 DEF vars
<1> QED BY <1>4, <1>5, <1>6, <1>7, <1>9, <1>10, <1>11, <1>12, <1>13
        DEF Next, Daemon, Tick, resolveIdentity, GameServer

\* However many processes crash wherever they like, no command is sent before
\* its receipt is in the database (prepareDelivery, daemon/README.md).
THEOREM ReceiptPrecedesCommand == Spec => []ReceiptBeforeCommand
<1>1. Init => TypeOK /\ ReceiptsHeld
  BY InitTypes DEF Init, ReceiptsHeld, Busy, Idle
<1>2. TypeOK /\ ReceiptsHeld /\ [Next]_vars => TypeOK' /\ ReceiptsHeld'
  BY NextTypes, HeldNext
<1>3. ReceiptsHeld => ReceiptBeforeCommand
  BY DEF ReceiptsHeld, ReceiptBeforeCommand, Outstanding
<1> QED BY <1>1, <1>2, <1>3, PTL DEF Spec
=============================================================================
