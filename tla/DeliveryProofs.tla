--------------------------- MODULE DeliveryProofs ---------------------------
(* Theorems about the delivery queue, for any number of rows, workers and   *)
(* players, with or without stalls and careful administrators.              *)
EXTENDS DeliveryRefinement, FiniteSetTheorems, TLAPS

-----------------------------------------------------------------------------
(* Type correctness *)

\* The records that the code writes into the tables are rows, receipts and
\* workers.
LEMMA RecordTypes ==
  /\ NewRow \in Row /\ Absent \in Row
  /\ NoReceipt \in Receipt
  /\ Idle \in Worker /\ Down \in Worker
BY DEF NewRow, Absent, Row, States, ClaimableStates, NoReceipt, Receipt, Idle, Down, Worker

\* The row and the receipt that the lifecycle migration leaves are well
\* formed (setup_playtime_airdrops.sql:2490-2530).
LEMMA MigratedTypes ==
  ASSUME NEW m \in Migrated
  PROVE  m.row \in Row /\ m.receipt \in Receipt
<1>1. PICK a \in BOOLEAN, s \in {"NONE", "SUCCESS", "PENDING", "UNCERTAIN"}, x \in BOOLEAN :
        m = [row |-> MigratedRow(a, s), receipt |-> MigratedReceipt(s, x)]
  BY DEF Migrated
<1>2. MigratedRow(a, s) \in Row
  BY DEF MigratedRow, Absent, NewRow, Row, States, ClaimableStates
<1>3. MigratedReceipt(s, x) \in Receipt
  BY DEF MigratedReceipt, NoReceipt, Receipt
<1> QED BY <1>1, <1>2, <1>3

\* A worker that is dispatching has a delivery, and one that is finalizing
\* has an outcome.
LEMMA BusyTypes ==
  ASSUME TypeOK, NEW w \in Workers, Busy(w)
  PROVE  /\ worker[w].d \in Deliveries /\ worker[w].n \in Nat
         /\ worker[w].pc = "finalizing" => worker[w].outcome \in Outcomes
         /\ worker[w] \in [pc : {"resolving", "commanding", "finalizing"}, d : Deliveries,
                           n : Nat, outcome : Outcomes \cup {"none"}]
BY DEF TypeOK, Worker, Busy, Idle, Down

\* Moving a dispatching worker on keeps it well formed.
LEMMA AdvanceTypes ==
  ASSUME TypeOK, NEW w \in Workers, Busy(w)
  PROVE  /\ worker[w].pc = "resolving" =>
              [worker EXCEPT ![w].pc = "commanding"] \in [Workers -> Worker]
         /\ \A o \in Outcomes :
              [worker EXCEPT ![w].pc = "finalizing", ![w].outcome = o] \in [Workers -> Worker]
<1>1. worker[w].pc = "resolving" => [worker[w] EXCEPT !.pc = "commanding"] \in Worker
  BY DEF TypeOK, Worker, Busy, Idle, Down
<1>2. ASSUME NEW v \in [pc : {"resolving", "commanding", "finalizing"}, d : Deliveries,
                       n : Nat, outcome : Outcomes \cup {"none"}], NEW o \in Outcomes
      PROVE  [v EXCEPT !.pc = "finalizing", !.outcome = o]
               \in [pc : {"finalizing"}, d : Deliveries, n : Nat, outcome : Outcomes]
  OBVIOUS
<1>3. \A o \in Outcomes : [worker[w] EXCEPT !.pc = "finalizing", !.outcome = o] \in Worker
  BY <1>2, BusyTypes DEF Worker
<1> QED BY <1>1, <1>3 DEF TypeOK

\* A migrated or empty queue is well formed, and so are idle daemons.
LEMMA InitTypes == Init => TypeOK
<1> SUFFICES ASSUME Init PROVE TypeOK
  OBVIOUS
<1>1. PICK old \in [Historical -> Migrated] :
        /\ queue = [d \in Deliveries |-> IF d \in Historical THEN old[d].row ELSE Absent]
        /\ receipt = [d \in Deliveries |-> IF d \in Historical THEN old[d].receipt ELSE NoReceipt]
  BY DEF Init
<1>2. \A d \in Historical : old[d].row \in Row /\ old[d].receipt \in Receipt
  BY MigratedTypes
<1>3. queue \in [Deliveries -> Row] /\ receipt \in [Deliveries -> Receipt]
  BY <1>1, <1>2, RecordTypes
<1>4. worker \in [Workers -> Worker]
  BY RecordTypes DEF Init
<1>5. event \in [Deliveries -> States \cup {"NONE", "ARCHIVED"}]
  BY DEF Init
<1> QED BY <1>3, <1>4, <1>5 DEF Init, TypeOK

\* A tick turns well-formed rows, receipts and events into well-formed ones.
LEMMA SweptTypes ==
  ASSUME TypeOK, NEW d \in Deliveries
  PROVE  /\ SweptRow(d) \in Row
         /\ SweptReceipt(d) \in Receipt
         /\ SweptEvent(d) \in States \cup {"NONE", "ARCHIVED"}
<1>1. queue[d] \in Row /\ receipt[d] \in Receipt /\ event[d] \in States \cup {"NONE", "ARCHIVED"}
  BY DEF TypeOK
<1>2. RecoveredRow(queue[d]) \in Row /\ DeferredRow(queue[d]) \in Row
  BY <1>1 DEF RecoveredRow, DeferredRow, Row, States, ClaimableStates
<1>3. [receipt[d] EXCEPT !.status = "UNCERTAIN"] \in Receipt
  BY <1>1 DEF Receipt
<1> QED BY <1>1, <1>2, <1>3 DEF SweptRow, SweptReceipt, SweptEvent, States, ClaimableStates

\* The COMMIT of a tick that claimed row d leaves well-formed tables if what
\* prepareDelivery wrote for d is well formed.
LEMMA CommitTickTypes ==
  ASSUME TypeOK, NEW d \in Deliveries,
         NEW row \in Row, NEW rcpt \in Receipt, NEW ev \in States, CommitTick(d, row, rcpt, ev)
  PROVE  /\ queue' \in [Deliveries -> Row]
         /\ receipt' \in [Deliveries -> Receipt]
         /\ event' \in [Deliveries -> States \cup {"NONE", "ARCHIVED"}]
BY SweptTypes DEF CommitTick

\* What the prepare step writes for the row it claims.
LEMMA ClaimTypes ==
  ASSUME NEW r \in Row, NEW rc \in Receipt
  PROVE  /\ ClaimedRow(r) \in Row /\ PreparedReceipt(rc) \in Receipt
         /\ BlockedState(rc) \in States /\ BlockedRow(r, rc) \in Row
<1>1. ClaimedRow(r) \in Row
  <2>1. r.attempts + 1 \in Nat
    BY DEF Row
  <2>2. \A k \in Nat : [r EXCEPT !.state = "DELIVERING", !.lease = "fresh", !.attempts = k] \in Row
    BY DEF Row, States
  <2> QED BY <2>1, <2>2 DEF ClaimedRow
<1>2. PreparedReceipt(rc) \in Receipt
  BY DEF PreparedReceipt, Receipt
<1>3. BlockedState(rc) \in States
  BY DEF BlockedState, States
<1>4. BlockedRow(r, rc) \in Row
  BY <1>1, <1>3 DEF BlockedRow, Row
<1> QED BY <1>1, <1>2, <1>3, <1>4

\* The classifier answers every result of the command with an outcome.
LEMMA ClassifyTypes == \A r \in Result : classifyDeliveryResult(r) \in Outcomes
BY DEF classifyDeliveryResult, Outcomes, Result

\* What finalizeDelivery writes for an outcome is a row and a receipt status.
LEMMA FinalizeTypes ==
  ASSUME NEW r \in Row, NEW o \in Outcomes
  PROVE  FinalizedRow(r, o) \in Row
BY DEF FinalizedRow, Outcomes, Row, States, ClaimableStates

\* Each step of the daemons, the console, the game and the clock keeps every
\* table well formed.
LEMMA NextTypes == TypeOK /\ [Next]_vars => TypeOK'
<1> SUFFICES ASSUME TypeOK, [Next]_vars PROVE TypeOK'
  OBVIOUS
<1> USE DEF tables, game, history
<1>rows. \A d \in Deliveries : queue[d] \in Row /\ receipt[d] \in Receipt
  BY DEF TypeOK
<1>1. ASSUME NEW d \in Deliveries, Enqueue(d) PROVE TypeOK'
  BY <1>1, RecordTypes DEF Enqueue, TypeOK
<1>2. ASSUME NEW w \in Workers, TickSweep(w) PROVE TypeOK'
  BY <1>2, SweptTypes DEF TickSweep, TypeOK
<1>3. ASSUME NEW w \in Workers, NEW d \in Deliveries, TickPrepare(w, d) PROVE TypeOK'
  <2>1. /\ queue' \in [Deliveries -> Row]
        /\ receipt' \in [Deliveries -> Receipt]
        /\ event' \in [Deliveries -> States \cup {"NONE", "ARCHIVED"}]
    BY <1>3, <1>rows, ClaimTypes, CommitTickTypes DEF TickPrepare, States
  <2>2. queue[d].attempts + 1 \in Nat
    BY <1>rows DEF Row
  <2>3. worker' \in [Workers -> Worker]
    BY <1>3, <2>2 DEF TickPrepare, TypeOK, Worker
  <2> QED BY <1>3, <2>1, <2>3 DEF TickPrepare, TypeOK
<1>4. ASSUME NEW w \in Workers, NEW d \in Deliveries, TickBlocked(w, d) PROVE TypeOK'
  <2>1. /\ queue' \in [Deliveries -> Row]
        /\ receipt' \in [Deliveries -> Receipt]
        /\ event' \in [Deliveries -> States \cup {"NONE", "ARCHIVED"}]
    BY <1>4, <1>rows, ClaimTypes, CommitTickTypes DEF TickBlocked
  <2> QED BY <1>4, <2>1 DEF TickBlocked, TypeOK
<1>5. ASSUME NEW w \in Workers, resolveIdentity(w) PROVE TypeOK'
  <2>1. Busy(w) /\ worker[w].pc = "resolving"
    BY <1>5 DEF resolveIdentity, ResolveFails, ResolveOffline, StartCommand, Busy
  <2>2. CASE ResolveFails(w)
    BY <2>1, <2>2, AdvanceTypes DEF ResolveFails, TypeOK, Outcomes
  <2>3. CASE ResolveOffline(w)
    BY <2>1, <2>3, AdvanceTypes DEF ResolveOffline, TypeOK, Outcomes
  <2>4. CASE StartCommand(w)
    <3>1. worker' \in [Workers -> Worker]
      BY <2>1, <2>4, AdvanceTypes DEF StartCommand
    <3>2. inflight' \subseteq Deliveries \X Nat
      BY <2>1, <2>4, BusyTypes DEF StartCommand, TypeOK
    <3> QED BY <2>4, <3>1, <3>2 DEF StartCommand, TypeOK
  <2> QED BY <1>5, <2>2, <2>3, <2>4 DEF resolveIdentity
<1>6. ASSUME NEW w \in Workers, CommandEnds(w) PROVE TypeOK'
  <2>1. PICK r \in Result :
          /\ worker' = [worker EXCEPT ![w].pc = "finalizing", ![w].outcome = classifyDeliveryResult(r)]
          /\ inflight' \subseteq inflight
    BY <1>6 DEF CommandEnds
  <2>2. worker' \in [Workers -> Worker]
    BY <1>6, <2>1, ClassifyTypes, AdvanceTypes DEF CommandEnds, Busy
  <2> QED BY <1>6, <2>1, <2>2 DEF CommandEnds, TypeOK
<1>7. ASSUME NEW w \in Workers, finalizeDelivery(w) PROVE TypeOK'
  <2> DEFINE d == worker[w].d
             o == worker[w].outcome
  <2>1. d \in Deliveries /\ worker[w].n \in Nat /\ o \in Outcomes
    BY <1>7, BusyTypes DEF finalizeDelivery, Busy
  <2>2. queue' \in [Deliveries -> Row]
    BY <1>7, <1>rows, <2>1, FinalizeTypes DEF finalizeDelivery, TypeOK
  <2>3. [receipt[d] EXCEPT !.status = FinalReceiptStatus(o)] \in Receipt
    <3>1. FinalReceiptStatus(o) \in {"SUCCESS", "WAITING_FOR_PLAYER", "FAILED", "UNCERTAIN"}
      BY <2>1 DEF FinalReceiptStatus, Outcomes
    <3> HIDE DEF o
    <3> QED BY <1>rows, <2>1, <3>1 DEF Receipt
  <2>4. receipt' \in [Deliveries -> Receipt]
    BY <1>7, <2>3 DEF finalizeDelivery, TypeOK
  <2>5. event' \in [Deliveries -> States \cup {"NONE", "ARCHIVED"}]
    BY <1>7, <2>1 DEF finalizeDelivery, TypeOK, Outcomes, States, ClaimableStates
  <2>6. refuted' \in [Deliveries -> SUBSET Nat]
    BY <1>7, <2>1 DEF finalizeDelivery, TypeOK
  <2>7. worker' \in [Workers -> Worker]
    BY <1>7, RecordTypes DEF finalizeDelivery, TypeOK
  <2> QED BY <1>7, <2>2, <2>4, <2>5, <2>6, <2>7 DEF finalizeDelivery, TypeOK
<1>8. ASSUME NEW w \in Workers, DispatchThrows(w) \/ Crash(w) \/ Restart(w) PROVE TypeOK'
  BY <1>8, RecordTypes DEF DispatchThrows, Crash, Restart, TypeOK
<1>9. ASSUME NEW d \in Deliveries, NEW n \in Nat, Grant(d, n) PROVE TypeOK'
  BY <1>9 DEF Grant, TypeOK
<1>10. ASSUME NEW d \in Deliveries, Clock(d) PROVE TypeOK'
  <2>1. [queue[d] EXCEPT !.lease = "expired"] \in Row /\ [queue[d] EXCEPT !.due = TRUE] \in Row
    BY <1>rows DEF Row
  <2> QED BY <1>10, <2>1 DEF Clock, LeaseLapses, BecomesDue, TypeOK
<1>11. ASSUME NEW p \in Players, LogIn(p) \/ LogOut(p) PROVE TypeOK'
  BY <1>11 DEF LogIn, LogOut, TypeOK
<1>12. ASSUME NEW d \in Deliveries, Admin(d) PROVE TypeOK'
  <2>2. budget[d] + 1 \in Nat
    BY DEF TypeOK
  <2>3. CASE approveHistoricalDelivery(d)
    <3>1. [queue[d] EXCEPT !.approval = FALSE] \in Row
      BY <1>rows DEF Row
    <3> QED BY <2>2, <2>3, <3>1 DEF approveHistoricalDelivery, TypeOK, States, ClaimableStates
  <2>4. CASE resolveDelivered(d)
    <3>1. [queue[d] EXCEPT !.state = "DELIVERED", !.applied = TRUE,
             !.resolution = "CONFIRMED_DELIVERED", !.lease = "none", !.due = TRUE] \in Row
      BY <1>rows DEF Row, States
    <3>2. [receipt[d] EXCEPT !.status = IF @ = "NONE" THEN "NONE" ELSE "SUCCESS"] \in Receipt
      BY <1>rows DEF Receipt
    <3> QED BY <2>4, <3>1, <3>2 DEF resolveDelivered, TypeOK, States
  <2>5. CASE resolveRetry(d)
    <3>1. [queue[d] EXCEPT !.state = "WAITING_FOR_PLAYER", !.approval = FALSE,
             !.lease = "none", !.due = TRUE] \in Row
      BY <1>rows DEF Row, States, ClaimableStates
    <3>2. [receipt[d] EXCEPT !.status = IF @ = "NONE" THEN "NONE" ELSE "WAITING_FOR_PLAYER"] \in Receipt
      BY <1>rows DEF Receipt
    <3> QED BY <2>2, <2>5, <3>1, <3>2 DEF resolveRetry, TypeOK, States, ClaimableStates
  <2>6. CASE resolveArchive(d)
    <3>1. [queue[d] EXCEPT !.resolution = "ARCHIVED", !.lease = "none", !.due = TRUE] \in Row
      BY <1>rows DEF Row
    <3> QED BY <2>6, <3>1 DEF resolveArchive, TypeOK
  <2> QED BY <1>12, <2>3, <2>4, <2>5, <2>6 DEF Admin
<1>13. CASE UNCHANGED vars
  BY <1>13 DEF vars, TypeOK
<1> QED
  BY <1>1, <1>2, <1>3, <1>4, <1>5, <1>6, <1>7, <1>8, <1>9, <1>10, <1>11, <1>12, <1>13
  DEF Next, Daemon, Tick, GameServer

\* The tables, the daemon processes and the game hold what they can hold in
\* every reachable state, whatever the number of rows and workers.
THEOREM TypeCorrect == Spec => []TypeOK
<1>1. Init => TypeOK
  BY InitTypes
<1>2. TypeOK /\ [Next]_vars => TypeOK'
  BY NextTypes
<1> QED BY <1>1, <1>2, PTL DEF Spec

-----------------------------------------------------------------------------
(* The accounts: what every grant was paid with *)

\* Nothing has been claimed, granted or permitted before the daemons start.
LEMMA AccountsInit == Init => Accounts
<1> SUFFICES ASSUME Init PROVE Accounts
  OBVIOUS
<1>1. PICK old \in [Historical -> Migrated] :
        queue = [d \in Deliveries |-> IF d \in Historical THEN old[d].row ELSE Absent]
  BY DEF Init
<1>2. ASSUME NEW m \in Migrated PROVE m.row.attempts = 0 /\ ~Open(m.row)
  <2>1. PICK a \in BOOLEAN, s \in {"NONE", "SUCCESS", "PENDING", "UNCERTAIN"} :
          m.row = MigratedRow(a, s)
    BY DEF Migrated
  <2>2. MigratedRow(a, s).attempts = 0 /\ ~Open(MigratedRow(a, s))
    BY DEF MigratedRow, Absent, NewRow, Open, ClaimableStates
  <2> QED BY <2>1, <2>2
<1>3. \A d \in Deliveries : queue[d].attempts = 0 /\ ~Open(queue[d])
  BY <1>1, <1>2 DEF Absent, NewRow, Open, ClaimableStates
<1>4. AttemptsDisjoint
  BY DEF Init, AttemptsDisjoint
<1>5. WorkersHonest
  BY DEF Init, WorkersHonest, Busy, Idle
<1>6. ClaimsPaid
  BY <1>3, FS_EmptySet DEF Init, ClaimsPaid
<1> QED BY <1>4, <1>5, <1>6 DEF Accounts

\* Refuted attempts are finitely many, so that they can be counted.
LEMMA RefutedFinite ==
  ASSUME TypeOK, Accounts, NEW d \in Deliveries
  PROVE  IsFiniteSet(refuted[d]) /\ Cardinality(refuted[d]) \in Nat
<1>1. queue[d].attempts \in Nat
  BY DEF TypeOK, Row
<1>2. IsFiniteSet(1..queue[d].attempts)
  BY <1>1, FS_Interval
<1>3. refuted[d] \subseteq 1..queue[d].attempts
  BY DEF Accounts, AttemptsDisjoint
<1> QED BY <1>2, <1>3, FS_Subset, FS_CardinalityType

\* A step that touches neither workers nor the game nor the attempts of any
\* row, and opens a row only with a permission, keeps the accounts.
LEMMA RowsOnly ==
  ASSUME TypeOK, Accounts, UNCHANGED <<worker, inflight, granted, refuted>>,
         NEW permitted \in [Deliveries -> BOOLEAN],
         \A d \in Deliveries :
           /\ queue'[d].attempts = queue[d].attempts
           /\ queue'[d].state = "ABSENT" => queue[d].state = "ABSENT"
           /\ permitted[d] => budget'[d] = budget[d] + 1
           /\ ~permitted[d] => budget'[d] = budget[d] /\ (Open(queue'[d]) => Open(queue[d]))
  PROVE  Accounts'
<1>1. AttemptsDisjoint'
  BY DEF Accounts, AttemptsDisjoint
<1>2. WorkersHonest'
  BY BusyTypes DEF Accounts, WorkersHonest, Busy
<1>3. ClaimsPaid'
  <2> SUFFICES ASSUME NEW d \in Deliveries
               PROVE  /\ queue'[d].attempts + (IF Open(queue'[d]) THEN 1 ELSE 0)
                            <= budget'[d] + Cardinality(refuted'[d])
                      /\ queue'[d].state = "ABSENT" => queue'[d].attempts = 0
    BY DEF ClaimsPaid
  <2>1. /\ queue[d].attempts + (IF Open(queue[d]) THEN 1 ELSE 0)
             <= budget[d] + Cardinality(refuted[d])
        /\ queue[d].state = "ABSENT" => queue[d].attempts = 0
    BY DEF Accounts, ClaimsPaid
  <2>2. queue[d].attempts \in Nat /\ budget[d] \in Nat /\ Cardinality(refuted[d]) \in Nat
    BY RefutedFinite DEF TypeOK, Row
  <2> QED BY <2>1, <2>2
<1> QED BY <1>1, <1>2, <1>3 DEF Accounts

\* A step that touches only workers, and withdraws commands at most, keeps
\* the accounts if the workers it moves stay honest.
LEMMA WorkersOnly ==
  ASSUME TypeOK, Accounts, UNCHANGED <<queue, granted, budget, refuted>>,
         inflight' \subseteq inflight, NEW w \in Workers,
         \A v \in Workers \ {w} : worker'[v] = worker[v],
         \/ worker'[w] \in {Idle, Down}
         \/ /\ Busy(w) /\ worker'[w].pc = "finalizing"
            /\ worker'[w].d = worker[w].d /\ worker'[w].n = worker[w].n
            /\ worker'[w].outcome = "WAITING_FOR_PLAYER" =>
                 /\ <<worker[w].d, worker[w].n>> \notin inflight'
                 /\ worker[w].n \notin granted[worker[w].d]
  PROVE  Accounts'
<1>1. AttemptsDisjoint'
  BY DEF Accounts, AttemptsDisjoint
<1>2. ClaimsPaid'
  BY DEF Accounts, ClaimsPaid, Open
<1>3. WorkersHonest'
  <2>1. Idle.pc = "idle" /\ Down.pc = "down"
    BY DEF Idle, Down
  <2>2. \A v \in Workers : Busy(v)' =>
          Busy(v) /\ worker'[v].d = worker[v].d /\ worker'[v].n = worker[v].n
    BY <2>1 DEF Busy
  <2>3. \A v \in Workers : v # w /\ Busy(v)' => worker'[v] = worker[v]
    OBVIOUS
  <2> QED BY <2>1, <2>2, <2>3 DEF Accounts, WorkersHonest, Busy
<1> QED BY <1>1, <1>2, <1>3 DEF Accounts

\* The sweep of a tick opens no row and counts no attempt.
LEMMA SweptAccounts ==
  ASSUME TypeOK, NEW d \in Deliveries
  PROVE  /\ SweptRow(d).attempts = queue[d].attempts
         /\ SweptRow(d).state = "ABSENT" => queue[d].state = "ABSENT"
         /\ Open(SweptRow(d)) => Open(queue[d])
<1>1. queue[d] \in Row
  BY DEF TypeOK
<1>2. CASE d \in Expired
  BY <1>1, <1>2 DEF SweptRow, RecoveredRow, Row, Open, ClaimableStates
<1>3. CASE d \notin Expired /\ d \in Deferred
  <2>1. Open(queue[d])
    BY <1>3 DEF Deferred, Dispatchable, Open
  <2> QED BY <1>1, <1>3, <2>1 DEF SweptRow, DeferredRow, Row
<1>4. CASE d \notin Expired /\ d \notin Deferred
  BY <1>4 DEF SweptRow
<1> QED BY <1>2, <1>3, <1>4

\* A claim spends what the row still had: prepareDelivery may then run one
\* command under a number nobody has used.
LEMMA PrepareAccounts ==
  ASSUME TypeOK, Accounts, NEW w \in Workers, NEW d \in Deliveries, TickPrepare(w, d)
  PROVE  Accounts'
<1> DEFINE n == queue[d].attempts + 1
<1>rows. \A x \in Deliveries : queue[x] \in Row /\ queue[x].attempts \in Nat
  BY DEF TypeOK, Row
<1>n. n \in Nat
  BY <1>rows
<1>1. UNCHANGED <<inflight, granted, refuted, budget>>
  BY DEF TickPrepare, game, history
<1>2. \A x \in Deliveries \ {d} :
        /\ queue'[x].attempts = queue[x].attempts
        /\ queue'[x].state = "ABSENT" => queue[x].state = "ABSENT"
        /\ Open(queue'[x]) => Open(queue[x])
  BY SweptAccounts DEF TickPrepare, CommitTick
<1>3. Open(queue[d])
  BY DEF TickPrepare, Oldest, Claimable, Dispatchable, Open
<1>4. queue'[d].attempts = n /\ queue'[d].state = "DELIVERING" /\ ~Open(queue'[d])
  <2>1. queue'[d] = ClaimedRow(queue[d])
    BY DEF TickPrepare, CommitTick
  <2>2. /\ ClaimedRow(queue[d]).attempts = n
        /\ ClaimedRow(queue[d]).state = "DELIVERING"
    BY <1>rows DEF ClaimedRow, Row
  <2> QED BY <2>1, <2>2 DEF Open, ClaimableStates
<1>5. worker'[w] = [pc |-> "resolving", d |-> d, n |-> n, outcome |-> "none"]
  BY DEF TickPrepare, TypeOK
<1>6. \A v \in Workers \ {w} : worker'[v] = worker[v]
  BY DEF TickPrepare, TypeOK
<1>7. \A x \in Deliveries : 1..queue[x].attempts \subseteq 1..queue'[x].attempts
  BY <1>rows, <1>2, <1>4
<1>8. AttemptsDisjoint'
  BY <1>1, <1>7 DEF Accounts, AttemptsDisjoint, TypeOK
<1>9. n \notin granted[d] /\ n \notin refuted[d] /\ <<d, n>> \notin inflight
  <2>1. n \notin 1..queue[d].attempts
    BY <1>rows
  <2> QED BY <2>1 DEF Accounts, AttemptsDisjoint
<1>10. WorkersHonest'
  <2>1. n \in 1..queue'[d].attempts /\ n \notin 1..queue[d].attempts
    BY <1>rows, <1>4
  <2>2. \A v \in Workers \ {w} : Busy(v)' => Busy(v) /\ (worker[v].d # d \/ worker[v].n # n)
    BY <1>6, <2>1 DEF Busy, Accounts, WorkersHonest
  <2> SUFFICES ASSUME NEW v \in Workers, Busy(v)'
               PROVE  LET e == worker'[v].d
                          m == worker'[v].n
                      IN /\ e \in Deliveries /\ m \in 1..queue'[e].attempts /\ m \notin refuted'[e]
                         /\ \A u \in Workers : Busy(u)' /\ worker'[u].d = e /\ worker'[u].n = m => u = v
                         /\ \/ worker'[v].pc = "resolving"
                            \/ worker'[v].pc = "finalizing" /\ worker'[v].outcome = "WAITING_FOR_PLAYER"
                            => <<e, m>> \notin inflight' /\ m \notin granted'[e]
    BY DEF WorkersHonest
  <2>3. CASE v = w
    BY <1>1, <1>5, <1>6, <1>9, <2>1, <2>2, <2>3
  <2>4. CASE v # w
    <3>1. Busy(v) /\ worker'[v] = worker[v]
      BY <1>6, <2>2, <2>4
    <3>2. /\ worker[v].d \in Deliveries
          /\ worker[v].n \in 1..queue'[worker[v].d].attempts
          /\ worker[v].n \notin refuted[worker[v].d]
      BY <1>7, <3>1 DEF Accounts, WorkersHonest
    <3>3. ASSUME NEW u \in Workers, Busy(u)', worker'[u].d = worker[v].d, worker'[u].n = worker[v].n
          PROVE  u = v
      <4>1. u # w
        BY <1>5, <2>2, <2>4, <3>1, <3>3
      <4>2. Busy(u) /\ worker[u].d = worker[v].d /\ worker[u].n = worker[v].n
        BY <1>6, <2>2, <3>3, <4>1
      <4> QED BY <3>1, <4>2 DEF Accounts, WorkersHonest
    <3>4. \/ worker[v].pc = "resolving"
          \/ worker[v].pc = "finalizing" /\ worker[v].outcome = "WAITING_FOR_PLAYER"
          => <<worker[v].d, worker[v].n>> \notin inflight /\ worker[v].n \notin granted[worker[v].d]
      BY <3>1 DEF Accounts, WorkersHonest
    <3> QED BY <1>1, <3>1, <3>2, <3>3, <3>4
  <2> QED BY <2>3, <2>4
<1>11. ClaimsPaid'
  <2>1. \A x \in Deliveries : budget[x] \in Nat /\ Cardinality(refuted[x]) \in Nat
    BY RefutedFinite DEF TypeOK
  <2> QED BY <1>rows, <1>1, <1>2, <1>3, <1>4, <2>1 DEF Accounts, ClaimsPaid
<1> QED BY <1>8, <1>10, <1>11 DEF Accounts

\* Finalizing reopens a row at most with a refuted attempt to pay for it,
\* even if the lease was lost and another worker has claimed the row since.
LEMMA FinalizeAccounts ==
  ASSUME TypeOK, Accounts, NEW w \in Workers, finalizeDelivery(w)
  PROVE  Accounts'
<1> DEFINE d == worker[w].d
           n == worker[w].n
           o == worker[w].outcome
<1>1. /\ Busy(w) /\ worker[w].pc = "finalizing"
      /\ d \in Deliveries /\ n \in Nat /\ o \in Outcomes
  BY BusyTypes DEF finalizeDelivery, Busy
<1>2. UNCHANGED <<inflight, granted, budget>>
  BY DEF finalizeDelivery, game
<1>3. \A x \in Deliveries \ {d} : queue'[x] = queue[x] /\ refuted'[x] = refuted[x]
  BY <1>1 DEF finalizeDelivery, TypeOK
<1>4. refuted'[d] = IF o = "WAITING_FOR_PLAYER" THEN refuted[d] \cup {n} ELSE refuted[d]
  BY <1>1 DEF finalizeDelivery, TypeOK
<1>5. /\ queue'[d].attempts = queue[d].attempts
      /\ queue'[d].state = "ABSENT" => queue[d].state = "ABSENT"
      /\ Open(queue'[d]) => Open(queue[d]) \/ o = "WAITING_FOR_PLAYER"
  <2>1. CASE queue[d].state = "DELIVERING"
    <3>1. queue'[d] = FinalizedRow(queue[d], o)
      BY <1>1, <2>1 DEF finalizeDelivery, TypeOK
    <3>2. queue[d] \in Row
      BY <1>1 DEF TypeOK
    <3>3. FinalizedRow(queue[d], o).attempts = queue[d].attempts /\ FinalizedRow(queue[d], o).state = o
      BY <3>2 DEF FinalizedRow, Row
    <3> QED BY <1>1, <3>1, <3>3 DEF Outcomes, Open, ClaimableStates
  <2>2. CASE queue[d].state # "DELIVERING"
    BY <2>2 DEF finalizeDelivery
  <2> QED BY <2>1, <2>2
<1>6. worker' = [worker EXCEPT ![w] = Idle]
  BY DEF finalizeDelivery
<1>7. \A v \in Workers : Busy(v)' => v # w /\ Busy(v) /\ worker'[v] = worker[v]
  BY <1>6 DEF Busy, Idle, TypeOK
<1>8. n \in 1..queue[d].attempts /\ n \notin refuted[d]
  BY <1>1 DEF Accounts, WorkersHonest
<1>9. o = "WAITING_FOR_PLAYER" => <<d, n>> \notin inflight /\ n \notin granted[d]
  BY <1>1 DEF Accounts, WorkersHonest
<1>10. AttemptsDisjoint'
  <2> SUFFICES ASSUME NEW x \in Deliveries
               PROVE  /\ granted[x] \cup refuted'[x] \subseteq 1..queue[x].attempts
                      /\ granted[x] \cap refuted'[x] = {}
                      /\ \A c \in inflight : c[1] = x =>
                           c[2] \in 1..queue[x].attempts /\ c[2] \notin granted[x] \cup refuted'[x]
    BY <1>2, <1>3, <1>5 DEF AttemptsDisjoint
  <2>1. /\ granted[x] \cup refuted[x] \subseteq 1..queue[x].attempts
        /\ granted[x] \cap refuted[x] = {}
        /\ \A c \in inflight : c[1] = x =>
             c[2] \in 1..queue[x].attempts /\ c[2] \notin granted[x] \cup refuted[x]
    BY DEF Accounts, AttemptsDisjoint
  <2>2. CASE x # d
    BY <1>3, <2>1, <2>2
  <2>3. CASE x = d
    <3>1. \A c \in inflight : c = <<c[1], c[2]>>
      BY DEF TypeOK
    <3> QED BY <1>4, <1>8, <1>9, <2>1, <2>3, <3>1
  <2> QED BY <2>2, <2>3
<1>11. WorkersHonest'
  <2> SUFFICES ASSUME NEW v \in Workers, Busy(v)'
               PROVE  LET e == worker'[v].d
                          m == worker'[v].n
                      IN /\ e \in Deliveries /\ m \in 1..queue'[e].attempts /\ m \notin refuted'[e]
                         /\ \A u \in Workers : Busy(u)' /\ worker'[u].d = e /\ worker'[u].n = m => u = v
                         /\ \/ worker'[v].pc = "resolving"
                            \/ worker'[v].pc = "finalizing" /\ worker'[v].outcome = "WAITING_FOR_PLAYER"
                            => <<e, m>> \notin inflight' /\ m \notin granted'[e]
    BY DEF WorkersHonest
  <2>1. Busy(v) /\ v # w /\ worker'[v] = worker[v]
    BY <1>7
  <2>2. worker[v].d # d \/ worker[v].n # n
    BY <1>1, <2>1 DEF Accounts, WorkersHonest
  <2>3. worker[v].d \in Deliveries /\ worker[v].n \in 1..queue[worker[v].d].attempts
        /\ worker[v].n \notin refuted[worker[v].d]
    BY <2>1 DEF Accounts, WorkersHonest
  <2>4. worker[v].n \in 1..queue'[worker[v].d].attempts /\ worker[v].n \notin refuted'[worker[v].d]
    BY <1>3, <1>4, <1>5, <2>2, <2>3
  <2>5. \A u \in Workers : Busy(u)' /\ worker'[u].d = worker[v].d /\ worker'[u].n = worker[v].n => u = v
    BY <1>7, <2>1 DEF Accounts, WorkersHonest
  <2>6. \/ worker[v].pc = "resolving"
        \/ worker[v].pc = "finalizing" /\ worker[v].outcome = "WAITING_FOR_PLAYER"
        => <<worker[v].d, worker[v].n>> \notin inflight /\ worker[v].n \notin granted[worker[v].d]
    BY <2>1 DEF Accounts, WorkersHonest
  <2> QED BY <1>2, <2>1, <2>3, <2>4, <2>5, <2>6
<1>12. ClaimsPaid'
  <2>1. \A x \in Deliveries : /\ budget[x] \in Nat /\ queue[x].attempts \in Nat
                               /\ IsFiniteSet(refuted[x]) /\ Cardinality(refuted[x]) \in Nat
    BY RefutedFinite DEF TypeOK, Row
  <2>2. o = "WAITING_FOR_PLAYER" => Cardinality(refuted'[d]) = Cardinality(refuted[d]) + 1
    BY <1>1, <1>4, <1>8, <2>1, FS_AddElement
  <2>3. o # "WAITING_FOR_PLAYER" => refuted'[d] = refuted[d]
    BY <1>4
  <2> QED BY <1>1, <1>2, <1>3, <1>5, <2>1, <2>2, <2>3 DEF Accounts, ClaimsPaid
<1> QED BY <1>10, <1>11, <1>12 DEF Accounts

\* The game server carries a command out once.
LEMMA GrantAccounts ==
  ASSUME TypeOK, Accounts, NEW d \in Deliveries, NEW n \in Nat, Grant(d, n)
  PROVE  Accounts'
<1>1. /\ <<d, n>> \in inflight /\ inflight' = inflight \ {<<d, n>>}
      /\ granted' = [granted EXCEPT ![d] = @ \cup {n}]
      /\ UNCHANGED <<queue, worker, budget, refuted>>
  BY DEF Grant, tables, history
<1>2. n \in 1..queue[d].attempts /\ n \notin refuted[d]
  BY <1>1 DEF Accounts, AttemptsDisjoint
<1>3. \A c \in inflight : c = <<c[1], c[2]>>
  BY DEF TypeOK
<1>4. AttemptsDisjoint'
  BY <1>1, <1>2, <1>3 DEF Accounts, AttemptsDisjoint, TypeOK
<1>5. WorkersHonest'
  BY <1>1 DEF Accounts, WorkersHonest, Busy, TypeOK
<1>6. ClaimsPaid'
  BY <1>1 DEF Accounts, ClaimsPaid, Open
<1> QED BY <1>4, <1>5, <1>6 DEF Accounts

\* A worker sends the command of its attempt for the first time.
LEMMA StartAccounts ==
  ASSUME TypeOK, Accounts, NEW w \in Workers, StartCommand(w)
  PROVE  Accounts'
<1> DEFINE d == worker[w].d
           n == worker[w].n
<1>1. /\ Busy(w) /\ worker[w].pc = "resolving"
      /\ worker' = [worker EXCEPT ![w].pc = "commanding"]
      /\ inflight' = inflight \cup {<<d, n>>}
      /\ UNCHANGED <<queue, granted, budget, refuted>>
  BY DEF StartCommand, Busy, tables, history
<1>2. /\ d \in Deliveries /\ n \in 1..queue[d].attempts /\ n \notin refuted[d]
      /\ <<d, n>> \notin inflight /\ n \notin granted[d]
  BY <1>1 DEF Accounts, WorkersHonest
<1>3. AttemptsDisjoint'
  BY <1>1, <1>2 DEF Accounts, AttemptsDisjoint
<1>4. WorkersHonest'
  <2>1. worker'[w].pc = "commanding" /\ worker'[w].d = d /\ worker'[w].n = n
    BY <1>1, BusyTypes DEF TypeOK
  <2>2. \A v \in Workers \ {w} : worker'[v] = worker[v]
    BY <1>1 DEF TypeOK
  <2>3. \A v \in Workers : Busy(v)' => Busy(v) /\ worker'[v].d = worker[v].d /\ worker'[v].n = worker[v].n
    BY <1>1, <2>1, <2>2 DEF Busy
  <2>4. \A v \in Workers : Busy(v) /\ worker[v].d = d /\ worker[v].n = n => v = w
    BY <1>1 DEF Accounts, WorkersHonest
  <2> QED BY <1>1, <2>1, <2>2, <2>3, <2>4 DEF Accounts, WorkersHonest
<1>5. ClaimsPaid'
  BY <1>1 DEF Accounts, ClaimsPaid, Open
<1> QED BY <1>3, <1>4, <1>5 DEF Accounts

\* A claim that the receipt forbids spends the row's permission for nothing.
LEMMA BlockedAccounts ==
  ASSUME TypeOK, Accounts, NEW w \in Workers, NEW d \in Deliveries, TickBlocked(w, d)
  PROVE  Accounts'
<1>rows. \A x \in Deliveries : queue[x] \in Row /\ queue[x].attempts \in Nat
  BY DEF TypeOK, Row
<1>1. UNCHANGED <<worker, inflight, granted, refuted, budget>>
  BY DEF TickBlocked, game, history
<1>2. \A x \in Deliveries \ {d} :
        /\ queue'[x].attempts = queue[x].attempts
        /\ queue'[x].state = "ABSENT" => queue[x].state = "ABSENT"
        /\ Open(queue'[x]) => Open(queue[x])
  BY SweptAccounts DEF TickBlocked, CommitTick
<1>3. Open(queue[d])
  BY DEF TickBlocked, Oldest, Claimable, Dispatchable, Open
<1>4. /\ queue'[d].attempts = queue[d].attempts + 1
      /\ queue'[d].state # "ABSENT" /\ ~Open(queue'[d])
  <2>1. queue'[d] = BlockedRow(queue[d], receipt[d])
    BY DEF TickBlocked, CommitTick
  <2>2. ClaimedRow(queue[d]).attempts = queue[d].attempts + 1
    BY <1>rows DEF ClaimedRow, Row
  <2>4. ClaimedRow(queue[d]) \in Row
    BY <1>rows, ClaimTypes DEF TypeOK
  <2>3. /\ BlockedRow(queue[d], receipt[d]).attempts = ClaimedRow(queue[d]).attempts
        /\ BlockedRow(queue[d], receipt[d]).state = BlockedState(receipt[d])
    BY <2>4 DEF BlockedRow, Row
  <2> QED BY <2>1, <2>2, <2>3 DEF BlockedState, Open, ClaimableStates
<1>5. \A x \in Deliveries : 1..queue[x].attempts \subseteq 1..queue'[x].attempts
  BY <1>rows, <1>2, <1>4
<1>6. AttemptsDisjoint'
  BY <1>1, <1>5 DEF Accounts, AttemptsDisjoint, TypeOK
<1>7. WorkersHonest'
  BY <1>1, <1>5 DEF Accounts, WorkersHonest, Busy
<1>8. ClaimsPaid'
  <2>1. \A x \in Deliveries : budget[x] \in Nat /\ Cardinality(refuted[x]) \in Nat
    BY RefutedFinite DEF TypeOK
  <2> QED BY <1>rows, <1>1, <1>2, <1>3, <1>4, <2>1 DEF Accounts, ClaimsPaid
<1> QED BY <1>6, <1>7, <1>8 DEF Accounts

\* An administrator reopens a row only with a new permission.
LEMMA AdminAccounts ==
  ASSUME TypeOK, Accounts, NEW d \in Deliveries, Admin(d)
  PROVE  Accounts'
<1> USE DEF tables, game, history
<1> DEFINE nobody == [x \in Deliveries |-> FALSE]
           only == [x \in Deliveries |-> x = d]
<1>1. nobody \in [Deliveries -> BOOLEAN] /\ only \in [Deliveries -> BOOLEAN]
  OBVIOUS
<1>2. queue[d] \in Row
  BY DEF TypeOK
<1>3. CASE approveHistoricalDelivery(d) \/ resolveRetry(d)
  <2>1. \A x \in Deliveries :
          /\ queue'[x].attempts = queue[x].attempts
          /\ queue'[x].state = "ABSENT" => queue[x].state = "ABSENT"
          /\ x = d => budget'[x] = budget[x] + 1
          /\ x # d => budget'[x] = budget[x] /\ (Open(queue'[x]) => Open(queue[x]))
    <3>1. \A x \in Deliveries \ {d} : queue'[x] = queue[x] /\ budget'[x] = budget[x]
      BY <1>3 DEF approveHistoricalDelivery, resolveRetry, TypeOK
    <3>2. budget'[d] = budget[d] + 1
      BY <1>3 DEF approveHistoricalDelivery, resolveRetry, TypeOK
    <3>3. CASE approveHistoricalDelivery(d)
      <4>1. queue'[d] = [queue[d] EXCEPT !.approval = FALSE]
        BY <3>3 DEF approveHistoricalDelivery, TypeOK
      <4> QED BY <1>2, <3>1, <3>2, <4>1 DEF Row
    <3>4. CASE resolveRetry(d)
      <4>1. queue'[d] = [queue[d] EXCEPT !.state = "WAITING_FOR_PLAYER", !.approval = FALSE,
                                        !.lease = "none", !.due = TRUE]
        BY <3>4 DEF resolveRetry, TypeOK
      <4> QED BY <1>2, <3>1, <3>2, <4>1 DEF Row
    <3> QED BY <1>3, <3>3, <3>4
  <2> QED BY <1>1, <1>3, <2>1, RowsOnly DEF approveHistoricalDelivery, resolveRetry
<1>4. CASE resolveDelivered(d) \/ resolveArchive(d)
  <2>1. \A x \in Deliveries :
          /\ queue'[x].attempts = queue[x].attempts
          /\ queue'[x].state = "ABSENT" => queue[x].state = "ABSENT"
          /\ budget'[x] = budget[x] /\ (Open(queue'[x]) => Open(queue[x]))
    <3>1. \A x \in Deliveries \ {d} : queue'[x] = queue[x]
      BY <1>4 DEF resolveDelivered, resolveArchive, TypeOK
    <3>2. UNCHANGED budget /\ queue[d].state = "UNCERTAIN"
      BY <1>4 DEF resolveDelivered, resolveArchive, Resolvable
    <3>3. CASE resolveDelivered(d)
      <4>1. queue'[d] = [queue[d] EXCEPT !.state = "DELIVERED", !.applied = TRUE,
                !.resolution = "CONFIRMED_DELIVERED", !.lease = "none", !.due = TRUE]
        BY <3>3 DEF resolveDelivered, TypeOK
      <4>2. queue'[d].attempts = queue[d].attempts /\ queue'[d].state = "DELIVERED"
        BY <1>2, <4>1 DEF Row
      <4> QED BY <3>1, <3>2, <4>2 DEF Open, ClaimableStates
    <3>4. CASE resolveArchive(d)
      <4>1. queue'[d] = [queue[d] EXCEPT !.resolution = "ARCHIVED", !.lease = "none", !.due = TRUE]
        BY <3>4 DEF resolveArchive, TypeOK
      <4>2. queue'[d].attempts = queue[d].attempts /\ queue'[d].state = "UNCERTAIN"
        BY <1>2, <3>2, <4>1 DEF Row
      <4> QED BY <3>1, <3>2, <4>2 DEF Open, ClaimableStates
    <3> QED BY <1>4, <3>3, <3>4
  <2> QED BY <1>1, <1>4, <2>1, RowsOnly DEF resolveDelivered, resolveArchive
<1> QED BY <1>3, <1>4 DEF Admin

\* Every step keeps the accounts.
LEMMA AccountsNext == TypeOK /\ Accounts /\ [Next]_vars => Accounts'
<1> SUFFICES ASSUME TypeOK, Accounts, [Next]_vars PROVE Accounts'
  OBVIOUS
<1> USE DEF tables, game, history
<1> DEFINE nobody == [x \in Deliveries |-> FALSE]
           only(d) == [x \in Deliveries |-> x = d]
<1>rows. \A d \in Deliveries : queue[d] \in Row
  BY DEF TypeOK
<1>1. ASSUME NEW d \in Deliveries, Enqueue(d) PROVE Accounts'
  <2>1. queue[d].attempts = 0
    BY <1>1 DEF Enqueue, Accounts, ClaimsPaid
  <2>2. \A x \in Deliveries :
          /\ queue'[x].attempts = queue[x].attempts
          /\ queue'[x].state = "ABSENT" => queue[x].state = "ABSENT"
          /\ x = d => budget'[x] = budget[x] + 1
          /\ x # d => budget'[x] = budget[x] /\ (Open(queue'[x]) => Open(queue[x]))
    BY <1>1, <2>1 DEF Enqueue, NewRow, TypeOK
  <2> QED BY <1>1, <2>2, RowsOnly, only(d) \in [Deliveries -> BOOLEAN] DEF Enqueue
<1>2. ASSUME NEW w \in Workers, TickSweep(w) PROVE Accounts'
  <2>1. \A x \in Deliveries :
          /\ queue'[x].attempts = queue[x].attempts
          /\ queue'[x].state = "ABSENT" => queue[x].state = "ABSENT"
          /\ budget'[x] = budget[x] /\ (Open(queue'[x]) => Open(queue[x]))
    BY <1>2, SweptAccounts DEF TickSweep
  <2> QED BY <1>2, <2>1, RowsOnly, nobody \in [Deliveries -> BOOLEAN] DEF TickSweep
<1>3. ASSUME NEW w \in Workers, NEW d \in Deliveries, TickPrepare(w, d) PROVE Accounts'
  BY <1>3, PrepareAccounts
<1>4. ASSUME NEW w \in Workers, NEW d \in Deliveries, TickBlocked(w, d) PROVE Accounts'
  BY <1>4, BlockedAccounts
<1>5. ASSUME NEW w \in Workers, resolveIdentity(w) PROVE Accounts'
  <2>1. CASE ResolveFails(w)
    <3>1. /\ worker'[w].pc = "finalizing" /\ worker'[w].outcome = "FAILED"
          /\ worker'[w].d = worker[w].d /\ worker'[w].n = worker[w].n /\ Busy(w)
          /\ \A v \in Workers \ {w} : worker'[v] = worker[v]
      BY <2>1, BusyTypes DEF ResolveFails, TypeOK, Busy
    <3> QED BY <2>1, <3>1, WorkersOnly DEF ResolveFails
  <2>2. CASE ResolveOffline(w)
    <3>1. /\ worker'[w].pc = "finalizing"
          /\ worker'[w].d = worker[w].d /\ worker'[w].n = worker[w].n /\ Busy(w)
          /\ \A v \in Workers \ {w} : worker'[v] = worker[v]
      BY <2>2, BusyTypes DEF ResolveOffline, TypeOK, Busy
    <3>2. <<worker[w].d, worker[w].n>> \notin inflight /\ worker[w].n \notin granted[worker[w].d]
      BY <2>2, <3>1 DEF ResolveOffline, Accounts, WorkersHonest
    <3> QED BY <2>2, <3>1, <3>2, WorkersOnly DEF ResolveOffline
  <2>3. CASE StartCommand(w)
    BY <2>3, StartAccounts
  <2> QED BY <1>5, <2>1, <2>2, <2>3 DEF resolveIdentity
<1>6. ASSUME NEW w \in Workers, CommandEnds(w) PROVE Accounts'
  <2> DEFINE d == worker[w].d
             n == worker[w].n
  <2>1. PICK r \in Result :
          /\ PossibleResult(r, d, n)
          /\ worker' = [worker EXCEPT ![w].pc = "finalizing", ![w].outcome = classifyDeliveryResult(r)]
          /\ inflight' = IF Refused(r) THEN inflight \ {<<d, n>>} ELSE inflight
    BY <1>6 DEF CommandEnds
  <2>2. /\ worker'[w].pc = "finalizing" /\ worker'[w].outcome = classifyDeliveryResult(r)
        /\ worker'[w].d = d /\ worker'[w].n = n /\ Busy(w)
        /\ \A v \in Workers \ {w} : worker'[v] = worker[v]
    BY <1>6, <2>1, BusyTypes DEF CommandEnds, TypeOK, Busy
  <2>3. classifyDeliveryResult(r) = "WAITING_FOR_PLAYER" => Refused(r)
    BY <2>1 DEF classifyDeliveryResult, Refused, Refusals, Result
  <2>4. Refused(r) => <<d, n>> \in inflight
    BY <2>1 DEF PossibleResult
  <2>5. Refused(r) => <<d, n>> \notin inflight' /\ n \notin granted[d]
    BY <2>1, <2>2, <2>4, BusyTypes DEF Accounts, AttemptsDisjoint
  <2> QED BY <1>6, <2>1, <2>2, <2>3, <2>5, WorkersOnly DEF CommandEnds
<1>7. ASSUME NEW w \in Workers, finalizeDelivery(w) PROVE Accounts'
  BY <1>7, FinalizeAccounts
<1>8. ASSUME NEW w \in Workers, DispatchThrows(w) \/ Crash(w) \/ Restart(w) PROVE Accounts'
  <2>1. worker'[w] \in {Idle, Down} /\ \A v \in Workers \ {w} : worker'[v] = worker[v]
    BY <1>8 DEF DispatchThrows, Crash, Restart, TypeOK
  <2> QED BY <1>8, <2>1, WorkersOnly DEF DispatchThrows, Crash, Restart
<1>9. ASSUME NEW d \in Deliveries, NEW n \in Nat, Grant(d, n) PROVE Accounts'
  BY <1>9, GrantAccounts
<1>10. ASSUME NEW d \in Deliveries, Clock(d) PROVE Accounts'
  <2>1. \A x \in Deliveries :
          /\ queue'[x].attempts = queue[x].attempts
          /\ queue'[x].state = "ABSENT" => queue[x].state = "ABSENT"
          /\ budget'[x] = budget[x] /\ (Open(queue'[x]) => Open(queue[x]))
    <3>1. \A x \in Deliveries \ {d} : queue'[x] = queue[x]
      BY <1>10 DEF Clock, LeaseLapses, BecomesDue, TypeOK
    <3>2. \/ queue'[d] = [queue[d] EXCEPT !.lease = "expired"]
          \/ queue'[d] = [queue[d] EXCEPT !.due = TRUE]
      BY <1>10 DEF Clock, LeaseLapses, BecomesDue, TypeOK
    <3>3. /\ queue'[d].attempts = queue[d].attempts /\ queue'[d].state = queue[d].state
          /\ queue'[d].approval = queue[d].approval
      BY <1>rows, <3>2 DEF Row
    <3>4. UNCHANGED budget
      BY <1>10 DEF Clock, LeaseLapses, BecomesDue
    <3> QED BY <3>1, <3>3, <3>4 DEF Open
  <2> QED BY <1>10, <2>1, RowsOnly, nobody \in [Deliveries -> BOOLEAN]
          DEF Clock, LeaseLapses, BecomesDue
<1>11. ASSUME NEW p \in Players, LogIn(p) \/ LogOut(p) PROVE Accounts'
  BY <1>11, RowsOnly, nobody \in [Deliveries -> BOOLEAN] DEF LogIn, LogOut
<1>12. ASSUME NEW d \in Deliveries, Admin(d) PROVE Accounts'
  BY <1>12, AdminAccounts
<1>13. CASE UNCHANGED vars
  BY <1>13, RowsOnly, nobody \in [Deliveries -> BOOLEAN] DEF vars
<1> QED
  BY <1>1, <1>2, <1>3, <1>4, <1>5, <1>6, <1>7, <1>8, <1>9, <1>10, <1>11, <1>12, <1>13
  DEF Next, Daemon, Tick, GameServer

\* With disjoint grants and refutations, what is left of the attempts after
\* the refuted ones bounds the grants.
LEMMA AccountsBound == TypeOK /\ Accounts => GrantsAuthorized
<1> SUFFICES ASSUME TypeOK, Accounts, NEW d \in Deliveries
             PROVE  Cardinality(granted[d]) <= budget[d]
  BY DEF GrantsAuthorized
<1> DEFINE k == queue[d].attempts
<1>1. k \in Nat /\ budget[d] \in Nat
  BY DEF TypeOK, Row
<1>2. /\ granted[d] \cup refuted[d] \subseteq 1..k
      /\ granted[d] \cap refuted[d] = {}
  BY DEF Accounts, AttemptsDisjoint
<1>3. IsFiniteSet(1..k) /\ Cardinality(1..k) = k
  <2> HIDE DEF k
  <2>1. Cardinality(1..k) = IF 1 > k THEN 0 ELSE k - 1 + 1
    BY <1>1, FS_Interval
  <2> QED BY <1>1, <2>1, FS_Interval
<1>4. IsFiniteSet(granted[d]) /\ IsFiniteSet(refuted[d])
  BY <1>2, <1>3, FS_Subset
<1>5. Cardinality(granted[d] \cup refuted[d]) = Cardinality(granted[d]) + Cardinality(refuted[d])
  <2>1. Cardinality(granted[d] \cap refuted[d]) = 0
    BY <1>2, FS_EmptySet
  <2>2. Cardinality(granted[d]) \in Nat /\ Cardinality(refuted[d]) \in Nat
    BY <1>4, FS_CardinalityType
  <2>3. Cardinality(granted[d] \cup refuted[d])
          = Cardinality(granted[d]) + Cardinality(refuted[d]) - Cardinality(granted[d] \cap refuted[d])
    BY <1>4, FS_Union
  <2> QED BY <2>1, <2>2, <2>3
<1>6. Cardinality(granted[d] \cup refuted[d]) <= k
  BY <1>2, <1>3, FS_Subset
<1>7. k <= budget[d] + Cardinality(refuted[d])
  <2>1. k + (IF Open(queue[d]) THEN 1 ELSE 0) <= budget[d] + Cardinality(refuted[d])
    BY DEF Accounts, ClaimsPaid
  <2> QED BY <1>1, <1>4, <2>1, FS_CardinalityType
<1> QED BY <1>1, <1>4, <1>5, <1>6, <1>7, FS_CardinalityType

\* The books on attempts balance: each is granted, refuted, under way or none of
\* these, belongs to one worker, and was permitted.
THEOREM BooksBalance == Spec => []Accounts
<1>1. Init => TypeOK /\ Accounts
  BY InitTypes, AccountsInit
<1>2. TypeOK /\ Accounts /\ [Next]_vars => TypeOK' /\ Accounts'
  BY NextTypes, AccountsNext
<1> QED BY <1>1, <1>2, PTL DEF Spec

\* However many workers, rows and players there are, and whatever crashes,
\* stalls, stray commands and careless decisions happen, no item is granted
\* more often than it was permitted.
THEOREM NoUnauthorizedGrant == Spec => []GrantsAuthorized
<1>1. TypeOK /\ Accounts => GrantsAuthorized
  BY AccountsBound
<1> QED BY <1>1, TypeCorrect, BooksBalance, PTL
=============================================================================
