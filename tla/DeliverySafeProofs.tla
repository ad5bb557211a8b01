------------------------- MODULE DeliverySafeProofs -------------------------
(***************************************************************************)
(* What holds of the delivery queue while leases outlive their workers     *)
(* (~Stalls), and, further, while administrators compare with the game     *)
(* before they confirm or retry (CarefulAdmin); for any other constants.   *)
(***************************************************************************)
EXTENDS DeliveryStepProofs

-----------------------------------------------------------------------------
(* A claim belongs to one worker until it is finalized *)

\* While w is at work, its row shows the claim that w has made, and the lease
\* has not lapsed.
ClaimHeld ==
  \A w \in Workers : Busy(w) =>
    /\ queue[worker[w].d].state = "DELIVERING"
    /\ queue[worker[w].d].attempts = worker[w].n
    /\ queue[worker[w].d].lease = "fresh"
    /\ \A v \in Workers : Busy(v) /\ worker[v].d = worker[w].d => v = w

\* Whoever remains at work finds the row as it was.
LEMMA ClaimsKept ==
  ASSUME ClaimHeld,
         \A w \in Workers : Busy(w)' =>
           /\ Busy(w) /\ worker'[w].d = worker[w].d /\ worker'[w].n = worker[w].n
           /\ queue'[worker[w].d].state = queue[worker[w].d].state
           /\ queue'[worker[w].d].attempts = queue[worker[w].d].attempts
           /\ queue'[worker[w].d].lease = queue[worker[w].d].lease
  PROVE  ClaimHeld'
BY DEF ClaimHeld

\* No sweep touches a claim whose lease is fresh.
LEMMA FreshNotSwept ==
  ASSUME NEW d \in Deliveries, queue[d].state = "DELIVERING", queue[d].lease = "fresh"
  PROVE  SweptRow(d) = queue[d] /\ d \notin Claimable
BY DEF SweptRow, Expired, LeaseExpired, Deferred, Claimable, Dispatchable, ClaimableStates

\* No step takes a claim from a worker that is still at work.
LEMMA ClaimHeldNext ==
  ASSUME ~Stalls, TypeOK, ClaimHeld, [Next]_vars
  PROVE  ClaimHeld'
<1> USE DEF tables, game, history
<1>0. \A w \in Workers : Busy(w) =>
        /\ worker[w].d \in Deliveries /\ queue[worker[w].d] \in Row
        /\ queue[worker[w].d].state = "DELIVERING" /\ queue[worker[w].d].lease = "fresh"
  BY BusyTypes DEF ClaimHeld, TypeOK
<1>1. ASSUME UNCHANGED worker,
             \A w \in Workers : Busy(w) => queue'[worker[w].d] = queue[worker[w].d]
      PROVE  ClaimHeld'
  BY <1>1, ClaimsKept DEF Busy
<1>2. ASSUME UNCHANGED queue,
             \A w \in Workers : Busy(w)' =>
               Busy(w) /\ worker'[w].d = worker[w].d /\ worker'[w].n = worker[w].n
      PROVE  ClaimHeld'
  BY <1>2, ClaimsKept
<1>3. ASSUME NEW d \in Deliveries, Enqueue(d) PROVE ClaimHeld'
  <2>1. \A w \in Workers : Busy(w) => worker[w].d # d
    BY <1>0, <1>3 DEF Enqueue
  <2> QED BY <1>0, <1>1, <1>3, <2>1 DEF Enqueue, TypeOK
<1>4. ASSUME NEW w \in Workers, TickSweep(w) PROVE ClaimHeld'
  BY <1>0, <1>1, <1>4, FreshNotSwept DEF TickSweep
<1>5. ASSUME NEW w \in Workers, NEW d \in Deliveries, TickBlocked(w, d) PROVE ClaimHeld'
  <2>1. \A v \in Workers : Busy(v) => worker[v].d # d
    BY <1>0, <1>5, FreshNotSwept DEF TickBlocked, Oldest
  <2> QED BY <1>0, <1>1, <1>5, <2>1, FreshNotSwept DEF TickBlocked, CommitTick
<1>6. ASSUME NEW w \in Workers, NEW d \in Deliveries, TickPrepare(w, d) PROVE ClaimHeld'
  <2>1. \A v \in Workers : Busy(v) => worker[v].d # d
    BY <1>0, <1>6, FreshNotSwept DEF TickPrepare, Oldest
  <2>2. /\ worker'[w] = [pc |-> "resolving", d |-> d, n |-> queue[d].attempts + 1, outcome |-> "none"]
        /\ \A v \in Workers \ {w} : worker'[v] = worker[v]
        /\ queue[d] \in Row /\ queue'[d] = ClaimedRow(queue[d])
    BY <1>6 DEF TickPrepare, CommitTick, TypeOK
  <2>3. queue'[d].state = "DELIVERING" /\ queue'[d].lease = "fresh"
        /\ queue'[d].attempts = queue[d].attempts + 1
    BY <2>2 DEF ClaimedRow, Row
  <2>4. \A v \in Workers : Busy(v) => queue'[worker[v].d] = queue[worker[v].d]
    BY <1>0, <1>6, <2>1, FreshNotSwept DEF TickPrepare, CommitTick
  <2>5. \A v \in Workers : Busy(v)' => v = w \/ (Busy(v) /\ worker'[v] = worker[v] /\ v # w)
    BY <2>2 DEF Busy
  <2> QED BY <2>1, <2>2, <2>3, <2>4, <2>5 DEF ClaimHeld
<1>7. ASSUME NEW w \in Workers, ResolveFails(w) \/ ResolveOffline(w) \/ StartCommand(w)
      PROVE  ClaimHeld'
  <2>1. /\ worker[w].pc = "resolving" /\ UNCHANGED queue
        /\ worker'[w].d = worker[w].d /\ worker'[w].n = worker[w].n
        /\ \A v \in Workers \ {w} : worker'[v] = worker[v]
    BY <1>7, BusyTypes DEF ResolveFails, ResolveOffline, StartCommand, TypeOK, Busy
  <2> QED BY <1>2, <2>1 DEF Busy
<1>8. ASSUME NEW w \in Workers, CommandEnds(w) PROVE ClaimHeld'
  <2>1. PICK o : worker' = [worker EXCEPT ![w].pc = "finalizing", ![w].outcome = o]
    BY <1>8 DEF CommandEnds
  <2>2. /\ worker[w].pc = "commanding" /\ UNCHANGED queue
        /\ worker'[w].d = worker[w].d /\ worker'[w].n = worker[w].n
        /\ \A v \in Workers \ {w} : worker'[v] = worker[v]
    BY <1>8, <2>1, BusyTypes DEF CommandEnds, TypeOK, Busy
  <2> QED BY <1>2, <2>2 DEF Busy
<1>9. ASSUME NEW w \in Workers, finalizeDelivery(w) PROVE ClaimHeld'
  <2>1. Busy(w) /\ worker' = [worker EXCEPT ![w] = Idle]
    BY <1>9 DEF finalizeDelivery, Busy
  <2>2. \A v \in Workers : Busy(v)' => v # w /\ Busy(v) /\ worker'[v] = worker[v]
    BY <2>1 DEF Busy, Idle, TypeOK
  <2>3. \A v \in Workers : Busy(v) /\ v # w => worker[v].d # worker[w].d
    BY <2>1 DEF ClaimHeld
  <2>4. \A x \in Deliveries \ {worker[w].d} : queue'[x] = queue[x]
    BY <1>9 DEF finalizeDelivery, TypeOK
  <2> QED BY <1>0, <2>2, <2>3, <2>4, ClaimsKept
<1>10. ASSUME NEW w \in Workers, DispatchThrows(w) \/ Crash(w) \/ Restart(w) PROVE ClaimHeld'
  <2>1. worker'[w] \in {Idle, Down} /\ UNCHANGED queue
        /\ \A v \in Workers \ {w} : worker'[v] = worker[v]
    BY <1>10 DEF DispatchThrows, Crash, Restart, TypeOK
  <2>2. Idle.pc = "idle" /\ Down.pc = "down"
    BY DEF Idle, Down
  <2> QED BY <1>2, <2>1, <2>2 DEF Busy
<1>11. ASSUME NEW d \in Deliveries, LeaseLapses(d) PROVE ClaimHeld'
  <2>1. \A w \in Workers : Busy(w) => worker[w].d # d
    BY <1>11 DEF LeaseLapses
  <2> QED BY <1>0, <1>1, <1>11, <2>1 DEF LeaseLapses, TypeOK
<1>12. ASSUME NEW d \in Deliveries, BecomesDue(d) PROVE ClaimHeld'
  <2>1. /\ UNCHANGED worker
        /\ \A x \in Deliveries : /\ queue'[x].state = queue[x].state
                                 /\ queue'[x].attempts = queue[x].attempts
                                 /\ queue'[x].lease = queue[x].lease
    BY <1>12 DEF BecomesDue, TypeOK, Row
  <2> QED BY <1>0, <2>1, ClaimsKept DEF Busy
<1>13. ASSUME NEW d \in Deliveries, Admin(d) PROVE ClaimHeld'
  <2>1. /\ UNCHANGED worker
        /\ queue[d].state \in {"WAITING_FOR_PLAYER", "UNCERTAIN"}
        /\ \A x \in Deliveries \ {d} : queue'[x] = queue[x]
    BY <1>13 DEF Admin, approveHistoricalDelivery, resolveDelivered, resolveRetry, resolveArchive,
                 Resolvable, TypeOK
  <2> QED BY <1>0, <1>1, <2>1
<1>14. ASSUME UNCHANGED <<queue, worker>> PROVE ClaimHeld'
  BY <1>1, <1>14
<1>15. ASSUME NEW d \in Deliveries, NEW n \in Nat, Grant(d, n) PROVE ClaimHeld'
  BY <1>14, <1>15 DEF Grant
<1>16. ASSUME NEW p \in Players, LogIn(p) \/ LogOut(p) PROVE ClaimHeld'
  BY <1>14, <1>16 DEF LogIn, LogOut
<1>17. CASE UNCHANGED vars
  BY <1>14, <1>17 DEF vars
<1> QED BY <1>3, <1>4, <1>5, <1>6, <1>7, <1>8, <1>9, <1>10, <1>11, <1>12, <1>13, <1>15, <1>16, <1>17
        DEF Next, Daemon, Tick, resolveIdentity, GameServer, Clock

\* Nobody is at work at the beginning.
LEMMA ClaimHeldInit == Init => ClaimHeld
BY DEF Init, ClaimHeld, Busy, Idle

\* While leases outlive their workers, a worker between prepare and finalize
\* works on its own claim and is alone with it, although it holds no lock.
THEOREM ClaimsAreExclusive == ~Stalls /\ Spec => []DispatchIsExclusive
<1> DEFINE Inv == ~Stalls /\ TypeOK /\ ClaimHeld
<1>1. ~Stalls /\ Init => Inv
  BY InitTypes, ClaimHeldInit
<1>2. Inv /\ [Next]_vars => Inv'
  BY NextTypes, ClaimHeldNext
<1>3. Inv => DispatchIsExclusive
  BY DEF ClaimHeld, DispatchIsExclusive
<1> HIDE DEF Inv
<1> QED BY <1>1, <1>2, <1>3, PTL DEF Spec

-----------------------------------------------------------------------------
(* At most one delivery *)

\* No command of d is under way and no item has arrived.
Clean(d) == granted[d] = {} /\ \A c \in inflight : c[1] # d

\* All that is under way or has arrived of d is one attempt.
OneAttempt(d) ==
  \A m, n \in Nat :
    (m \in granted[d] \/ <<d, m>> \in inflight) /\ (n \in granted[d] \/ <<d, n>> \in inflight)
    => m = n

\* The states from which a row may be claimed some day, or is written off.
UndeliveredStates == ClaimableStates \cup {"ABSENT", "FAILED"}

\* A worker that has not sent its command, or knows that it was refused.
NotSent(w) == \/ worker[w].pc = "resolving"
              \/ worker[w].pc = "finalizing" /\ worker[w].outcome \in {"WAITING_FOR_PLAYER", "FAILED"}

RowsClean == \A d \in Deliveries : queue[d].state \in UndeliveredStates => Clean(d)
WorkersClean == \A w \in Workers : NotSent(w) => Clean(worker[w].d)
OnceOnly == RowsClean /\ WorkersClean /\ \A d \in Deliveries : OneAttempt(d)

\* No command is under way and no item has arrived at the beginning.
LEMMA OnceOnlyInit == Init => OnceOnly
BY DEF Init, OnceOnly, RowsClean, WorkersClean, NotSent, OneAttempt, Clean, Idle

\* A step that sends no command and delivers nothing.
LEMMA GameKept ==
  ASSUME OnceOnly, UNCHANGED game
  PROVE  /\ \A d \in Deliveries : OneAttempt(d)'
         /\ \A d : Clean(d) => Clean(d)'
         /\ (\A d \in Deliveries : queue'[d].state \in UndeliveredStates =>
               queue[d].state \in UndeliveredStates \/ Clean(d)) => RowsClean'
         /\ (\A w \in Workers : NotSent(w)' =>
               \/ NotSent(w) /\ worker'[w].d = worker[w].d
               \/ Clean(worker'[w].d)) => WorkersClean'
<1>1. UNCHANGED <<inflight, granted>>
  BY DEF game
<1>2. \A d : Clean(d)' <=> Clean(d)
  BY <1>1 DEF Clean
<1>3. \A d \in Deliveries : OneAttempt(d)'
  BY <1>1 DEF OnceOnly, OneAttempt
<1> QED BY <1>1, <1>2, <1>3 DEF OnceOnly, RowsClean, WorkersClean

\* WorkersClean after a step, without a prime around the worker's row.
LEMMA WorkersCleanAfter ==
  ASSUME \A w \in Workers : NotSent(w)' =>
           granted'[worker'[w].d] = {} /\ \A c \in inflight' : c[1] # worker'[w].d
  PROVE  WorkersClean'
BY DEF WorkersClean, Clean

\* What a sweep leaves in such a state was in one.
LEMMA SweptStates ==
  ASSUME TypeOK, NEW d \in Deliveries, SweptRow(d).state \in UndeliveredStates
  PROVE  queue[d].state \in UndeliveredStates
<1>1. queue[d] \in Row
  BY DEF TypeOK
<1>2. CASE d \in Expired
  <2>1. SweptRow(d).state = "UNCERTAIN"
    BY <1>1, <1>2, WrittenRows DEF SweptRow
  <2> QED BY <2>1 DEF UndeliveredStates, ClaimableStates
<1>3. CASE d \in Deferred /\ d \notin Expired
  BY <1>3 DEF Deferred, Dispatchable, UndeliveredStates
<1>4. CASE d \notin Deferred /\ d \notin Expired
  BY <1>4 DEF SweptRow
<1> QED BY <1>2, <1>3, <1>4

\* A refused command was the only attempt, and it has not arrived.
LEMMA RefusedIsClean ==
  ASSUME TypeOK, Accounts, NEW d \in Deliveries, NEW n \in Nat, OneAttempt(d), <<d, n>> \in inflight
  PROVE  granted[d] = {} /\ \A c \in inflight \ {<<d, n>>} : c[1] # d
<1>1. n \notin granted[d]
  BY DEF Accounts, AttemptsDisjoint
<1>2. granted[d] \subseteq Nat /\ \A c \in inflight : c = <<c[1], c[2]>> /\ c[2] \in Nat
  BY DEF TypeOK
<1>3. granted[d] = {}
  BY <1>1, <1>2 DEF OneAttempt
<1>4. ASSUME NEW c \in inflight, c[1] = d PROVE c = <<d, n>>
  BY <1>2, <1>4 DEF OneAttempt
<1> QED BY <1>3, <1>4

\* The end of a command sends nothing, and a refusal leaves its row clean.
LEMMA CommandOnceOnly ==
  ASSUME TypeOK, Accounts, OnceOnly, NEW w \in Workers, CommandEnds(w)
  PROVE  OnceOnly'
<1> DEFINE d == worker[w].d
           n == worker[w].n
           After(x) == granted'[x] = {} /\ \A c \in inflight' : c[1] # x
<1>1. worker[w].pc = "commanding" /\ d \in Deliveries /\ n \in Nat
      /\ UNCHANGED <<queue, granted>>
  BY BusyTypes DEF CommandEnds, Busy, tables
<1>2. PICK r \in Result :
        /\ PossibleResult(r, d, n)
        /\ worker' = [worker EXCEPT ![w].pc = "finalizing", ![w].outcome = classifyDeliveryResult(r)]
        /\ inflight' = IF Refused(r) THEN inflight \ {<<d, n>>} ELSE inflight
  BY DEF CommandEnds
<1>3. /\ worker'[w].pc = "finalizing" /\ worker'[w].outcome = classifyDeliveryResult(r)
      /\ worker'[w].d = d /\ \A v \in Workers \ {w} : worker'[v] = worker[v]
  BY <1>1, <1>2, BusyTypes DEF TypeOK, Busy
<1>4. classifyDeliveryResult(r) \in {"WAITING_FOR_PLAYER", "FAILED"} => Refused(r)
  BY DEF classifyDeliveryResult, Refused, Refusals, Result
<1>5. inflight' \subseteq inflight
  BY <1>2
<1>6. \A x : Clean(x) => After(x)
  BY <1>1, <1>5 DEF Clean
<1>7. Refused(r) => After(d)
  <2>1. SUFFICES ASSUME Refused(r) PROVE After(d)
    OBVIOUS
  <2>2. <<d, n>> \in inflight /\ inflight' = inflight \ {<<d, n>>} /\ OneAttempt(d)
    BY <1>1, <1>2, <2>1 DEF PossibleResult, OnceOnly
  <2>3. granted[d] = {} /\ \A c \in inflight \ {<<d, n>>} : c[1] # d
    BY <1>1, <2>2, RefusedIsClean
  <2> QED BY <1>1, <2>2, <2>3
<1>8. RowsClean'
  BY <1>1, <1>6 DEF OnceOnly, RowsClean, Clean
<1>9. WorkersClean'
  <2>1. ASSUME NEW v \in Workers, v # w, NotSent(v)' PROVE After(worker'[v].d)
    BY <1>3, <1>6, <2>1 DEF NotSent, OnceOnly, WorkersClean
  <2>2. NotSent(w)' => After(worker'[w].d)
    BY <1>3, <1>4, <1>7 DEF NotSent
  <2> QED BY <2>1, <2>2, WorkersCleanAfter
<1>10. \A x \in Deliveries : OneAttempt(x)'
  BY <1>1, <1>5 DEF OnceOnly, OneAttempt
<1> QED BY <1>8, <1>9, <1>10 DEF OnceOnly

\* A command is sent only for a row that is clean, so it is the only attempt.
LEMMA StartOnceOnly ==
  ASSUME TypeOK, ClaimHeld, OnceOnly, NEW w \in Workers, StartCommand(w)
  PROVE  OnceOnly'
<1> DEFINE d == worker[w].d
           n == worker[w].n
           After(x) == granted'[x] = {} /\ \A c \in inflight' : c[1] # x
<1>1. /\ worker[w].pc = "resolving" /\ Busy(w) /\ d \in Deliveries /\ n \in Nat
      /\ UNCHANGED <<queue, granted>> /\ inflight' = inflight \cup {<<d, n>>}
      /\ worker'[w].pc = "commanding"
      /\ \A v \in Workers \ {w} : worker'[v] = worker[v]
  BY BusyTypes DEF StartCommand, Busy, tables, TypeOK
<1>2. Clean(d)
  BY <1>1 DEF OnceOnly, WorkersClean, NotSent
<1>3. \A x : x # d /\ Clean(x) => After(x)
  BY <1>1 DEF Clean
<1>4. RowsClean'
  <2>1. queue[d].state \notin UndeliveredStates
    BY <1>1 DEF ClaimHeld, UndeliveredStates, ClaimableStates
  <2> QED BY <1>1, <1>3, <2>1 DEF OnceOnly, RowsClean, Clean
<1>5. WorkersClean'
  <2>1. ASSUME NEW v \in Workers, NotSent(v)' PROVE After(worker'[v].d)
    <3>1. v # w /\ worker'[v] = worker[v] /\ NotSent(v) /\ Busy(v)
      BY <1>1, <2>1 DEF NotSent, Busy
    <3>2. worker[v].d # d /\ Clean(worker[v].d)
      BY <1>1, <3>1 DEF ClaimHeld, OnceOnly, WorkersClean
    <3> QED BY <1>3, <3>1, <3>2
  <2> QED BY <2>1, WorkersCleanAfter
<1>6. ASSUME NEW x \in Deliveries PROVE OneAttempt(x)'
  <2>1. CASE x # d
    BY <1>1, <2>1 DEF OnceOnly, OneAttempt
  <2>2. CASE x = d
    BY <1>1, <1>2, <2>2 DEF Clean, OneAttempt
  <2> QED BY <2>1, <2>2
<1> QED BY <1>4, <1>5, <1>6 DEF OnceOnly

\* An item that arrives was under way as the only attempt of its row.
LEMMA GrantOnceOnly ==
  ASSUME TypeOK, OnceOnly, NEW d \in Deliveries, NEW n \in Nat, Grant(d, n)
  PROVE  OnceOnly'
<1>1. /\ <<d, n>> \in inflight /\ inflight' = inflight \ {<<d, n>>}
      /\ granted'[d] = granted[d] \cup {n}
      /\ \A x \in Deliveries \ {d} : granted'[x] = granted[x]
      /\ UNCHANGED <<queue, worker>>
  BY DEF Grant, tables, TypeOK
<1>2. ~Clean(d)
  BY <1>1 DEF Clean
<1>3. \A x \in Deliveries : Clean(x) => Clean(x)'
  BY <1>1, <1>2 DEF Clean
<1>4. \A w \in Workers : NotSent(w) => worker[w].d \in Deliveries
  BY BusyTypes DEF NotSent, Busy
<1>5. RowsClean' /\ WorkersClean'
  BY <1>1, <1>3, <1>4 DEF OnceOnly, RowsClean, WorkersClean, NotSent
<1>6. \A x \in Deliveries : OneAttempt(x)'
  BY <1>1 DEF OnceOnly, OneAttempt
<1> QED BY <1>5, <1>6 DEF OnceOnly

\* An administrator who looks first retries only what has not been delivered.
LEMMA RetryIsClean ==
  ASSUME CarefulAdmin, TypeOK, Accounts, NEW d \in Deliveries, resolveRetry(d)
  PROVE  Clean(d)
<1>1. granted[d] = {} /\ \A n \in 1..queue[d].attempts : <<d, n>> \notin inflight
  BY DEF resolveRetry, LooksUndelivered, Outstanding
<1>2. \A c \in inflight : c = <<c[1], c[2]>> /\ (c[1] = d => c[2] \in 1..queue[d].attempts)
  BY DEF TypeOK, Accounts, AttemptsDisjoint
<1> QED BY <1>1, <1>2 DEF Clean

\* No step offers a row again, or sends a second command, while the first may
\* arrive or has arrived.
LEMMA OnceOnlyNext ==
  ASSUME CarefulAdmin, TypeOK, Accounts, ClaimHeld, OnceOnly, [Next]_vars
  PROVE  OnceOnly'
<1> DEFINE RowsFrom == \A x \in Deliveries : queue'[x].state \in UndeliveredStates =>
                         queue[x].state \in UndeliveredStates \/ Clean(x)
           WorkersFrom == \A w \in Workers : NotSent(w)' =>
                            \/ NotSent(w) /\ worker'[w].d = worker[w].d
                            \/ Clean(worker'[w].d)
<1>1. ASSUME UNCHANGED game, RowsFrom, WorkersFrom PROVE OnceOnly'
  BY <1>1, GameKept DEF OnceOnly
<1>2. UNCHANGED worker => WorkersFrom
  BY DEF NotSent
<1>3. UNCHANGED queue => RowsFrom
  OBVIOUS
<1>4. \A x \in Deliveries : queue[x] \in Row /\ (queue[x].state \in UndeliveredStates => Clean(x))
  BY DEF TypeOK, OnceOnly, RowsClean
<1> HIDE DEF RowsFrom, WorkersFrom
<1>5. ASSUME NEW d \in Deliveries, Enqueue(d) PROVE OnceOnly'
  <2>1. RowsFrom
    BY <1>5 DEF Enqueue, RowsFrom, UndeliveredStates, TypeOK
  <2> QED BY <1>1, <1>2, <1>5, <2>1 DEF Enqueue
<1>6. ASSUME NEW w \in Workers, TickSweep(w) PROVE OnceOnly'
  <2>1. RowsFrom
    BY <1>6, SweptStates DEF TickSweep, RowsFrom
  <2> QED BY <1>1, <1>2, <1>6, <2>1 DEF TickSweep
<1>7. ASSUME NEW w \in Workers, NEW d \in Deliveries, TickPrepare(w, d) \/ TickBlocked(w, d)
      PROVE  OnceOnly'
  <2>1. queue[d].state \in UndeliveredStates /\ receipt[d] \in Receipt
    BY <1>7 DEF TickPrepare, TickBlocked, Oldest, Claimable, Dispatchable, UndeliveredStates, TypeOK
  <2>2. RowsFrom
    BY <1>7, <2>1, SweptStates DEF TickPrepare, TickBlocked, CommitTick, RowsFrom
  <2>3. Clean(d) /\ UNCHANGED game
    BY <1>4, <1>7, <2>1 DEF TickPrepare, TickBlocked
  <2>4. WorkersFrom
    <3>1. CASE TickBlocked(w, d)
      BY <1>2, <3>1 DEF TickBlocked
    <3>2. CASE TickPrepare(w, d)
      <4>1. worker'[w].d = d /\ \A v \in Workers \ {w} : worker'[v] = worker[v]
        BY <3>2 DEF TickPrepare, TypeOK
      <4> QED BY <2>3, <4>1 DEF WorkersFrom, NotSent
    <3> QED BY <1>7, <3>1, <3>2
  <2> QED BY <1>1, <2>2, <2>3, <2>4
<1>8. ASSUME NEW w \in Workers, ResolveFails(w) \/ ResolveOffline(w) PROVE OnceOnly'
  <2>1. /\ worker[w].pc = "resolving" /\ UNCHANGED <<queue, inflight, granted>>
        /\ worker'[w].d = worker[w].d /\ \A v \in Workers \ {w} : worker'[v] = worker[v]
    BY <1>8, BusyTypes DEF ResolveFails, ResolveOffline, TypeOK, Busy, tables, game
  <2>2. WorkersFrom
    BY <2>1 DEF WorkersFrom, NotSent
  <2> QED BY <1>1, <1>3, <2>1, <2>2 DEF game
<1>9. ASSUME NEW w \in Workers, finalizeDelivery(w) PROVE OnceOnly'
  <2> DEFINE d == worker[w].d
  <2>1. Busy(w) /\ d \in Deliveries /\ worker[w].outcome \in Outcomes /\ UNCHANGED game
        /\ worker[w].pc = "finalizing"
    BY <1>9, BusyTypes DEF finalizeDelivery, Busy
  <2>2. /\ queue'[d] = FinalizedRow(queue[d], worker[w].outcome)
        /\ \A x \in Deliveries \ {d} : queue'[x] = queue[x]
    BY <1>9, <2>1 DEF finalizeDelivery, ClaimHeld, TypeOK
  <2>3. queue'[d].state = worker[w].outcome
    BY <1>4, <2>1, <2>2, WrittenRows
  <2>4. queue'[d].state \in UndeliveredStates => Clean(d)
    BY <2>1, <2>3 DEF OnceOnly, WorkersClean, NotSent, UndeliveredStates, ClaimableStates, Outcomes
  <2>5. RowsFrom
    BY <2>2, <2>4 DEF RowsFrom
  <2>6. WorkersFrom
    BY <1>9 DEF finalizeDelivery, WorkersFrom, NotSent, Idle, TypeOK
  <2> QED BY <1>1, <2>1, <2>5, <2>6
<1>10. ASSUME NEW w \in Workers, DispatchThrows(w) \/ Crash(w) \/ Restart(w) PROVE OnceOnly'
  <2>1. worker'[w] \in {Idle, Down} /\ UNCHANGED <<queue, inflight, granted>>
        /\ \A v \in Workers \ {w} : worker'[v] = worker[v]
    BY <1>10 DEF DispatchThrows, Crash, Restart, TypeOK, tables, game
  <2>2. Idle.pc = "idle" /\ Down.pc = "down"
    BY DEF Idle, Down
  <2>3. WorkersFrom
    BY <2>1, <2>2 DEF WorkersFrom, NotSent
  <2> QED BY <1>1, <1>3, <2>1, <2>3 DEF game
<1>11. ASSUME NEW d \in Deliveries, Clock(d) PROVE OnceOnly'
  <2>1. UNCHANGED <<worker, game>> /\ \A x \in Deliveries : queue'[x].state = queue[x].state
    <3>1. CASE LeaseLapses(d)
      BY <1>4, <3>1 DEF LeaseLapses, TypeOK, Row
    <3>2. CASE BecomesDue(d)
      BY <1>4, <3>2 DEF BecomesDue, TypeOK, Row
    <3> QED BY <1>11, <3>1, <3>2 DEF Clock
  <2>2. RowsFrom
    BY <2>1 DEF RowsFrom
  <2> QED BY <1>1, <1>2, <2>1, <2>2
<1>12. ASSUME NEW d \in Deliveries, Admin(d) PROVE OnceOnly'
  <2>1. UNCHANGED <<worker, game>> /\ \A x \in Deliveries \ {d} : queue'[x] = queue[x]
    BY <1>12 DEF Admin, approveHistoricalDelivery, resolveDelivered, resolveRetry, resolveArchive, TypeOK
  <2>2. queue'[d].state \in UndeliveredStates => queue[d].state \in UndeliveredStates \/ Clean(d)
    <3>1. CASE approveHistoricalDelivery(d)
      BY <3>1 DEF approveHistoricalDelivery, UndeliveredStates, ClaimableStates
    <3>2. CASE resolveDelivered(d)
      <4>1. queue'[d].state = "DELIVERED"
        BY <1>4, <3>2 DEF resolveDelivered, TypeOK, Row
      <4> QED BY <4>1 DEF UndeliveredStates, ClaimableStates
    <3>3. CASE resolveRetry(d)
      BY <3>3, RetryIsClean
    <3>4. CASE resolveArchive(d)
      <4>1. queue'[d].state = queue[d].state
        BY <1>4, <3>4 DEF resolveArchive, TypeOK, Row
      <4> QED BY <4>1
    <3> QED BY <1>12, <3>1, <3>2, <3>3, <3>4 DEF Admin
  <2>3. RowsFrom
    BY <2>1, <2>2 DEF RowsFrom
  <2> QED BY <1>1, <1>2, <2>1, <2>3
<1>13. ASSUME NEW p \in Players, LogIn(p) \/ LogOut(p) PROVE OnceOnly'
  BY <1>1, <1>2, <1>3, <1>13 DEF LogIn, LogOut, tables
<1>14. CASE UNCHANGED vars
  BY <1>1, <1>2, <1>3, <1>14 DEF vars, game
<1> QED BY <1>5, <1>6, <1>7, <1>8, <1>9, <1>10, <1>11, <1>12, <1>13, <1>14,
           CommandOnceOnly, StartOnceOnly, GrantOnceOnly
        DEF Next, Daemon, Tick, resolveIdentity, GameServer

\* The invariant behind the next three theorems.
LEMMA AlwaysOnceOnly == ~Stalls /\ CarefulAdmin /\ Spec => [](TypeOK /\ OnceOnly)
<1> DEFINE Inv == /\ ~Stalls /\ CarefulAdmin
                  /\ TypeOK /\ Accounts /\ ClaimHeld /\ OnceOnly
<1>1. ~Stalls /\ CarefulAdmin /\ Init => Inv
  BY InitTypes, AccountsInit, ClaimHeldInit, OnceOnlyInit
<1>2. Inv /\ [Next]_vars => Inv'
  BY NextTypes, AccountsNext, ClaimHeldNext, OnceOnlyNext
<1>3. Inv => TypeOK /\ OnceOnly
  OBVIOUS
<1> HIDE DEF Inv
<1> QED BY <1>1, <1>2, <1>3, PTL DEF Spec

\* A reward is delivered at most once, retries included.
THEOREM DeliveredOnce == ~Stalls /\ CarefulAdmin /\ Spec => []NoDuplicate
<1>1. TypeOK /\ OnceOnly => NoDuplicate
  <2> SUFFICES ASSUME TypeOK, OnceOnly, NEW d \in Deliveries
               PROVE  Cardinality(granted[d]) <= 1
    BY DEF NoDuplicate
  <2>1. \A m, n \in granted[d] : m = n
    BY DEF TypeOK, OnceOnly, OneAttempt
  <2>2. CASE granted[d] = {}
    BY <2>2, FS_EmptySet
  <2>3. CASE granted[d] # {}
    <3>1. PICK n \in granted[d] : granted[d] = {n}
      BY <2>1, <2>3
    <3> QED BY <3>1, FS_Singleton
  <2> QED BY <2>2, <2>3
<1> QED BY <1>1, AlwaysOnceOnly, PTL

\* A row that a daemon may claim has no command under way and no item
\* delivered: nothing that may have reached the game is offered again.
THEOREM NothingIsReplayed == ~Stalls /\ CarefulAdmin /\ Spec => []NoReplay
<1>1. TypeOK /\ OnceOnly => NoReplay
  <2> SUFFICES ASSUME TypeOK, OnceOnly, NEW d \in Deliveries,
                      Dispatchable([queue[d] EXCEPT !.due = TRUE])
               PROVE  granted[d] = {} /\ ~Outstanding(d)
    BY DEF NoReplay
  <2>1. queue[d].state \in ClaimableStates
    BY DEF Dispatchable, TypeOK, Row
  <2> QED BY <2>1 DEF OnceOnly, RowsClean, UndeliveredStates, Clean, Outstanding
<1> QED BY <1>1, AlwaysOnceOnly, PTL

\* What the daemon has written off was not delivered and cannot be any more.
THEOREM WrittenOffIsUndelivered == ~Stalls /\ CarefulAdmin /\ Spec => []FailedIsUndelivered
<1>1. TypeOK /\ OnceOnly => FailedIsUndelivered
  BY DEF FailedIsUndelivered, OnceOnly, RowsClean, UndeliveredStates, Clean, Outstanding
<1> QED BY <1>1, AlwaysOnceOnly, PTL

-----------------------------------------------------------------------------
(* Row, receipt and audit trail agree *)

\* What Agreement says of one delivery, and what it needs to stay so: an
\* attempted row never goes back to READY, a claimable one has no receipt of a
\* command whose outcome is open, and only a receipt can differ from its row.
Agrees(r, rc, ev) ==
  /\ rc.status = "NONE" => rc.same
  /\ r.state \in ClaimableStates \cup {"ABSENT"} => rc.status \in {"NONE", "WAITING_FOR_PLAYER"}
  /\ r.attempts > 0 =>
       /\ r.state \in {"DELIVERING", "DELIVERED", "WAITING_FOR_PLAYER", "FAILED", "UNCERTAIN"}
       /\ ev = IF r.resolution = "ARCHIVED" THEN "ARCHIVED" ELSE r.state
       /\ r.state = "DELIVERING" => rc.status = "PENDING"
       /\ r.state = "DELIVERED" => rc.status = "SUCCESS"
       /\ r.state = "WAITING_FOR_PLAYER" => rc.status = "WAITING_FOR_PLAYER"
       /\ r.state = "FAILED" => rc.status = "FAILED"
       /\ r.state = "UNCERTAIN" => (rc.same => rc.status = "UNCERTAIN")

AllAgree == \A d \in Deliveries : Agrees(queue[d], receipt[d], event[d])

\* Agreement is what AllAgree says of row, receipt and audit trail.
LEMMA AgreementFollows == AllAgree => Agreement
BY DEF AllAgree, Agrees, Agreement

\* Rows that the migration leaves, and their receipts, agree.
LEMMA AgreeInit == Init => AllAgree
<1> SUFFICES ASSUME Init, NEW d \in Deliveries
             PROVE  Agrees(queue[d], receipt[d], event[d])
  BY DEF AllAgree
<1>1. PICK old \in [Historical -> Migrated] :
        /\ queue = [x \in Deliveries |-> IF x \in Historical THEN old[x].row ELSE Absent]
        /\ receipt = [x \in Deliveries |-> IF x \in Historical THEN old[x].receipt ELSE NoReceipt]
  BY DEF Init
<1>2. CASE d \notin Historical
  <2>1. queue[d] = Absent /\ receipt[d] = NoReceipt
    BY <1>1, <1>2
  <2>2. Absent.state = "ABSENT" /\ Absent.attempts = 0
    BY DEF Absent, NewRow
  <2> QED BY <2>1, <2>2 DEF NoReceipt, Agrees
<1>3. CASE d \in Historical
  <2>1. old[d] \in Migrated /\ queue[d] = old[d].row /\ receipt[d] = old[d].receipt
    BY <1>1, <1>3
  <2>2. PICK a \in BOOLEAN, s \in {"NONE", "SUCCESS", "PENDING", "UNCERTAIN"}, x \in BOOLEAN :
          old[d] = [row |-> MigratedRow(a, s), receipt |-> MigratedReceipt(s, x)]
    BY <2>1 DEF Migrated
  <2>3. queue[d] = MigratedRow(a, s) /\ receipt[d] = MigratedReceipt(s, x)
    BY <2>1, <2>2
  <2>4. /\ MigratedRow(a, s).attempts = 0
        /\ MigratedRow(a, s).state \in ClaimableStates \cup {"ABSENT"} => s = "NONE"
    BY DEF MigratedRow, Absent, NewRow, ClaimableStates
  <2>5. /\ s = "NONE" => MigratedReceipt(s, x) = NoReceipt
        /\ s # "NONE" => MigratedReceipt(s, x).status # "NONE"
    BY DEF MigratedReceipt
  <2> QED BY <2>3, <2>4, <2>5 DEF NoReceipt, Agrees
<1> QED BY <1>2, <1>3

\* A sweep keeps the three in step.
LEMMA SweptAgree ==
  ASSUME TypeOK, AllAgree, RowInvariant, NEW d \in Deliveries
  PROVE  Agrees(SweptRow(d), SweptReceipt(d), SweptEvent(d))
<1>1. queue[d] \in Row /\ receipt[d] \in Receipt /\ Agrees(queue[d], receipt[d], event[d])
  BY DEF TypeOK, AllAgree
<1>2. CASE d \in Expired
  <2>1. /\ SweptRow(d) = RecoveredRow(queue[d]) /\ SweptEvent(d) = "UNCERTAIN"
        /\ queue[d].state = "DELIVERING" /\ queue[d].resolution = "none"
    BY <1>2 DEF SweptRow, SweptEvent, Expired, LeaseExpired, RowInvariant, ResolvedAtRest
  <2>2. /\ SweptReceipt(d).same = receipt[d].same
        /\ receipt[d].status = "PENDING" => SweptReceipt(d).status = "UNCERTAIN"
        /\ receipt[d].status # "PENDING" => SweptReceipt(d).status = receipt[d].status
    BY <1>1, <1>2 DEF SweptReceipt, Receipt
  <2>3. /\ SweptRow(d).state = "UNCERTAIN" /\ SweptRow(d).attempts = queue[d].attempts
        /\ SweptRow(d).resolution = "none"
    BY <1>1, <2>1, WrittenRows
  <2> QED BY <1>1, <2>1, <2>2, <2>3 DEF Agrees, ClaimableStates
<1>3. CASE d \in Deferred /\ d \notin Expired
  <2>1. /\ SweptRow(d) = DeferredRow(queue[d]) /\ SweptEvent(d) = "WAITING_FOR_PLAYER"
        /\ SweptReceipt(d) = receipt[d]
        /\ queue[d].state \in ClaimableStates /\ queue[d].resolution = "none"
    BY <1>3 DEF SweptRow, SweptEvent, SweptReceipt, Deferred, Dispatchable
  <2>2. /\ SweptRow(d).state = "WAITING_FOR_PLAYER" /\ SweptRow(d).attempts = queue[d].attempts
        /\ SweptRow(d).resolution = "none"
    BY <1>1, <2>1, WrittenRows
  <2> QED BY <1>1, <2>1, <2>2 DEF Agrees, ClaimableStates
<1>4. CASE d \notin Deferred /\ d \notin Expired
  BY <1>1, <1>4 DEF SweptRow, SweptReceipt, SweptEvent
<1> QED BY <1>2, <1>3, <1>4

\* So does a claim, whether its receipt allows a command or blocks the row.
LEMMA PreparedAgree ==
  ASSUME NEW r \in Row, NEW rc \in Receipt, NEW ev, Agrees(r, rc, ev), Dispatchable(r)
  PROVE  /\ Agrees(ClaimedRow(r), PreparedReceipt(rc), "DELIVERING")
         /\ ~MayDispatch(rc) => Agrees(BlockedRow(r, rc), rc, BlockedState(rc))
<1>1. /\ ClaimedRow(r).state = "DELIVERING" /\ ClaimedRow(r).attempts = r.attempts + 1
      /\ ClaimedRow(r).resolution = "none"
  BY DEF ClaimedRow, Row, Dispatchable
<1>2. PreparedReceipt(rc).status = "PENDING" /\ PreparedReceipt(rc).same = rc.same
  BY DEF PreparedReceipt, Receipt
<1>3. rc.status \in {"NONE", "WAITING_FOR_PLAYER"} /\ (rc.status = "NONE" => rc.same)
  BY DEF Agrees, Dispatchable
<1>4. ASSUME ~MayDispatch(rc) PROVE Agrees(BlockedRow(r, rc), rc, BlockedState(rc))
  <2>1. rc.status = "WAITING_FOR_PLAYER" /\ ~rc.same
    BY <1>3, <1>4 DEF MayDispatch
  <2>2. BlockedState(rc) = "UNCERTAIN"
    BY <2>1 DEF BlockedState
  <2>3. ClaimedRow(r) \in Row
    BY ClaimTypes
  <2>4. BlockedRow(r, rc).state = "UNCERTAIN" /\ BlockedRow(r, rc).resolution = "none"
    BY <1>1, <2>2, <2>3 DEF BlockedRow, Row
  <2> QED BY <2>1, <2>2, <2>4 DEF Agrees, ClaimableStates
<1>5. Agrees(ClaimedRow(r), PreparedReceipt(rc), "DELIVERING")
  BY <1>1, <1>2 DEF Agrees, ClaimableStates
<1> QED BY <1>4, <1>5

\* A worker that still holds its claim finalizes the three together.
LEMMA FinalizedAgree ==
  ASSUME TypeOK, AllAgree, RowInvariant, ClaimHeld, NEW w \in Workers, finalizeDelivery(w)
  PROVE  AllAgree'
<1> DEFINE d == worker[w].d
           o == worker[w].outcome
<1>1. Busy(w) /\ worker[w].pc = "finalizing"
  BY DEF finalizeDelivery, Busy
<1>2. d \in Deliveries /\ o \in Outcomes /\ queue[d].state = "DELIVERING"
  BY <1>1, BusyTypes DEF ClaimHeld
<1>3. queue[d] \in Row /\ receipt[d] \in Receipt /\ queue[d].resolution = "none"
  BY <1>2 DEF TypeOK, RowInvariant, ResolvedAtRest
<1>4. /\ queue'[d] = FinalizedRow(queue[d], o)
      /\ receipt'[d] = [receipt[d] EXCEPT !.status = FinalReceiptStatus(o)]
      /\ event'[d] = o
      /\ \A x \in Deliveries \ {d} :
           queue'[x] = queue[x] /\ receipt'[x] = receipt[x] /\ event'[x] = event[x]
  BY <1>2 DEF finalizeDelivery, TypeOK
<1>5. /\ queue'[d].state = o /\ queue'[d].resolution = "none"
      /\ queue'[d].attempts = queue[d].attempts
  BY <1>2, <1>3, <1>4, WrittenRows
<1>6. receipt'[d].status = FinalReceiptStatus(o) /\ receipt'[d].same = receipt[d].same
  BY <1>3, <1>4 DEF Receipt
<1>7. Agrees(queue'[d], receipt'[d], event'[d])
  BY <1>2, <1>4, <1>5, <1>6 DEF Agrees, FinalReceiptStatus, Outcomes, ClaimableStates
<1> QED BY <1>4, <1>7 DEF AllAgree

\* The console's decisions change all three.
LEMMA DecidedAgree ==
  ASSUME TypeOK, AllAgree, NEW d \in Deliveries, Admin(d)
  PROVE  AllAgree'
<1>1. queue[d] \in Row /\ receipt[d] \in Receipt /\ Agrees(queue[d], receipt[d], event[d])
  BY DEF TypeOK, AllAgree
<1>2. \A x \in Deliveries \ {d} :
        queue'[x] = queue[x] /\ receipt'[x] = receipt[x] /\ event'[x] = event[x]
  BY DEF Admin, approveHistoricalDelivery, resolveDelivered, resolveRetry, resolveArchive, TypeOK
<1>3. CASE approveHistoricalDelivery(d)
  <2>1. /\ queue'[d].state = "WAITING_FOR_PLAYER" /\ queue'[d].resolution = "none"
        /\ queue'[d].attempts = queue[d].attempts
        /\ receipt'[d] = receipt[d] /\ event'[d] = "WAITING_FOR_PLAYER"
        /\ queue[d].state = "WAITING_FOR_PLAYER"
    BY <1>1, <1>3 DEF approveHistoricalDelivery, Listed, TypeOK, Row
  <2>2. Agrees(queue'[d], receipt'[d], event'[d])
    BY <1>1, <2>1 DEF Agrees
  <2> QED BY <1>2, <2>2 DEF AllAgree
<1>4. CASE resolveDelivered(d)
  <2>1. /\ queue'[d].state = "DELIVERED" /\ queue'[d].resolution = "CONFIRMED_DELIVERED"
        /\ queue'[d].attempts = queue[d].attempts
        /\ receipt'[d].same = receipt[d].same /\ event'[d] = "DELIVERED"
        /\ queue[d].state = "UNCERTAIN"
    BY <1>1, <1>4 DEF resolveDelivered, Resolvable, TypeOK, Row, Receipt
  <2>2. receipt'[d].status = IF receipt[d].status = "NONE" THEN "NONE" ELSE "SUCCESS"
    BY <1>1, <1>4 DEF resolveDelivered, TypeOK, Receipt
  <2>3. Agrees(queue'[d], receipt'[d], event'[d])
    BY <1>1, <2>1, <2>2 DEF Agrees, ClaimableStates
  <2> QED BY <1>2, <2>3 DEF AllAgree
<1>5. CASE resolveRetry(d)
  <2>1. /\ queue'[d].state = "WAITING_FOR_PLAYER" /\ queue'[d].resolution = "none"
        /\ queue'[d].attempts = queue[d].attempts
        /\ receipt'[d].same = receipt[d].same /\ event'[d] = "WAITING_FOR_PLAYER"
        /\ queue[d].state = "UNCERTAIN"
    BY <1>1, <1>5 DEF resolveRetry, Resolvable, TypeOK, Row, Receipt
  <2>2. receipt'[d].status = IF receipt[d].status = "NONE" THEN "NONE" ELSE "WAITING_FOR_PLAYER"
    BY <1>1, <1>5 DEF resolveRetry, TypeOK, Receipt
  <2>3. Agrees(queue'[d], receipt'[d], event'[d])
    BY <1>1, <2>1, <2>2 DEF Agrees, ClaimableStates
  <2> QED BY <1>2, <2>3 DEF AllAgree
<1>6. CASE resolveArchive(d)
  <2>1. /\ queue'[d].state = "UNCERTAIN" /\ queue'[d].resolution = "ARCHIVED"
        /\ queue'[d].attempts = queue[d].attempts
        /\ receipt'[d] = receipt[d] /\ event'[d] = "ARCHIVED"
        /\ queue[d].state = "UNCERTAIN"
    BY <1>1, <1>6 DEF resolveArchive, Resolvable, TypeOK, Row
  <2>2. Agrees(queue'[d], receipt'[d], event'[d])
    BY <1>1, <2>1 DEF Agrees
  <2> QED BY <1>2, <2>2 DEF AllAgree
<1> QED BY <1>3, <1>4, <1>5, <1>6 DEF Admin

\* No step changes one of row, receipt and audit trail against the others.
LEMMA AgreeNext ==
  ASSUME TypeOK, RowInvariant, ClaimHeld, AllAgree, [Next]_vars
  PROVE  AllAgree'
<1>1. ASSUME UNCHANGED tables PROVE AllAgree'
  BY <1>1 DEF AllAgree, tables
<1>2. ASSUME NEW d \in Deliveries, Enqueue(d) PROVE AllAgree'
  <2>1. /\ queue'[d] = NewRow /\ UNCHANGED <<receipt, event>> /\ queue[d].state = "ABSENT"
        /\ \A x \in Deliveries \ {d} : queue'[x] = queue[x]
    BY <1>2 DEF Enqueue, TypeOK
  <2>2. NewRow.state = "READY" /\ NewRow.attempts = 0
    BY DEF NewRow
  <2>3. Agrees(queue'[d], receipt'[d], event'[d])
    BY <2>1, <2>2 DEF AllAgree, Agrees
  <2> QED BY <2>1, <2>3 DEF AllAgree
<1>3. ASSUME NEW w \in Workers, TickSweep(w) PROVE AllAgree'
  BY <1>3, SweptAgree DEF TickSweep, AllAgree
<1>4. ASSUME NEW w \in Workers, NEW d \in Deliveries, TickPrepare(w, d) \/ TickBlocked(w, d)
      PROVE  AllAgree'
  <2>1. /\ queue[d] \in Row /\ receipt[d] \in Receipt /\ Dispatchable(queue[d])
        /\ Agrees(queue[d], receipt[d], event[d])
    BY <1>4 DEF TickPrepare, TickBlocked, Oldest, Claimable, TypeOK, AllAgree
  <2>2. \A x \in Deliveries \ {d} : Agrees(queue'[x], receipt'[x], event'[x])
    BY <1>4, SweptAgree DEF TickPrepare, TickBlocked, CommitTick
  <2>3. Agrees(queue'[d], receipt'[d], event'[d])
    <3>1. CASE TickPrepare(w, d)
      <4>1. /\ queue'[d] = ClaimedRow(queue[d]) /\ receipt'[d] = PreparedReceipt(receipt[d])
            /\ event'[d] = "DELIVERING"
        BY <3>1 DEF TickPrepare, CommitTick
      <4> QED BY <2>1, <4>1, PreparedAgree
    <3>2. CASE TickBlocked(w, d)
      <4>1. /\ queue'[d] = BlockedRow(queue[d], receipt[d]) /\ receipt'[d] = receipt[d]
            /\ event'[d] = BlockedState(receipt[d]) /\ ~MayDispatch(receipt[d])
        BY <3>2 DEF TickBlocked, CommitTick
      <4> QED BY <2>1, <4>1, PreparedAgree
    <3> QED BY <1>4, <3>1, <3>2
  <2> QED BY <2>2, <2>3 DEF AllAgree
<1>5. ASSUME NEW d \in Deliveries, Clock(d) PROVE AllAgree'
  <2>0. queue[d] \in Row
    BY DEF TypeOK
  <2>1. /\ UNCHANGED <<receipt, event>>
        /\ queue'[d].state = queue[d].state /\ queue'[d].attempts = queue[d].attempts
        /\ queue'[d].resolution = queue[d].resolution
        /\ \A x \in Deliveries \ {d} : queue'[x] = queue[x]
    <3>1. CASE LeaseLapses(d)
      BY <2>0, <3>1 DEF LeaseLapses, TypeOK, Row
    <3>2. CASE BecomesDue(d)
      BY <2>0, <3>2 DEF BecomesDue, TypeOK, Row
    <3> QED BY <1>5, <3>1, <3>2 DEF Clock
  <2>2. Agrees(queue'[d], receipt'[d], event'[d])
    BY <2>1 DEF AllAgree, Agrees
  <2> QED BY <2>1, <2>2 DEF AllAgree
<1>6. ASSUME NEW w \in Workers, \/ resolveIdentity(w) \/ CommandEnds(w) \/ DispatchThrows(w)
                                \/ Crash(w) \/ Restart(w)
      PROVE  UNCHANGED tables
  BY <1>6 DEF resolveIdentity, ResolveFails, ResolveOffline, StartCommand, CommandEnds,
              DispatchThrows, Crash, Restart
<1>7. ASSUME NEW d \in Deliveries, NEW n \in Nat, Grant(d, n) PROVE UNCHANGED tables
  BY <1>7 DEF Grant
<1>8. ASSUME NEW p \in Players, LogIn(p) \/ LogOut(p) PROVE UNCHANGED tables
  BY <1>8 DEF LogIn, LogOut
<1>9. CASE UNCHANGED vars
  BY <1>1, <1>9 DEF vars, tables
<1> QED BY <1>1, <1>2, <1>3, <1>4, <1>5, <1>6, <1>7, <1>8, <1>9, FinalizedAgree, DecidedAgree
        DEF Next, Daemon, Tick, GameServer

\* Row, receipt and audit trail, written by different statements of different
\* transactions, agree about every delivery that was attempted.
THEOREM RecordsAgree == ~Stalls /\ Spec => []Agreement
<1> DEFINE Inv == ~Stalls /\ TypeOK /\ RowInvariant /\ ClaimHeld /\ AllAgree
<1>1. ~Stalls /\ Init => Inv
  BY InitTypes, RowInvariantInit, ClaimHeldInit, AgreeInit
<1>2. Inv /\ [Next]_vars => Inv'
  BY NextTypes, RowInvariantNext, ClaimHeldNext, AgreeNext
<1>3. Inv => Agreement
  BY AgreementFollows
<1> HIDE DEF Inv
<1> QED BY <1>1, <1>2, <1>3, PTL DEF Spec
=============================================================================
