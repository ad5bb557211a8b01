---------------------- MODULE DeliveryRefinementProofs ----------------------
(* The delivery queue implements RewardLifecycle, for any constants. *)
EXTENDS DeliveryStepProofs

-----------------------------------------------------------------------------
(* How a row's phase moves *)

\* A claimed row needs nobody's approval any more.
ClaimedIsApproved == \A d \in Deliveries : queue[d].state = "DELIVERING" => ~queue[d].approval

\* A row is claimed only if it needs no approval, and no statement asks for
\* one again.
LEMMA ClaimedIsApprovedNext ==
  TypeOK /\ ClaimedIsApproved /\ [Next]_vars => ClaimedIsApproved'
<1> SUFFICES ASSUME TypeOK, ClaimedIsApproved, [Next]_vars, NEW d \in Deliveries
             PROVE  queue'[d].state = "DELIVERING" => ~queue'[d].approval
  BY DEF ClaimedIsApproved
<1> DEFINE r == queue[d]
           s == queue'[d]
           Good == s.state = "DELIVERING" => ~s.approval
<1>1. r \in Row /\ (r.state = "DELIVERING" => ~r.approval)
  BY DEF TypeOK, ClaimedIsApproved
<1>2. \/ ByTrigger(r, s) \/ ByApproval(r, s) \/ ByRetry(r, s)
      \/ s = r \/ BySweep(r, s) \/ ByClaim(r, s) \/ ByFinalize(r, s)
      \/ ByClock(r, s) \/ ByReview(r, s)
  BY RowSteps DEF Permitted, Unpermitted
<1> HIDE DEF r, s
<1>3. ByTrigger(r, s) => Good
  BY DEF ByTrigger, NewRow
<1>4. ByApproval(r, s) \/ ByRetry(r, s) \/ ByReview(r, s) \/ ByClock(r, s) => Good
  BY <1>1 DEF ByApproval, ByRetry, ByReview, ByClock, Resolvable, Row
<1>5. BySweep(r, s) => Good
  BY <1>1, WrittenRows DEF BySweep
<1>6. ByClaim(r, s) => Good
  BY <1>1, WrittenRows DEF ByClaim, Dispatchable
<1>7. ByFinalize(r, s) => Good
  BY <1>1, WrittenRows DEF ByFinalize
<1> QED BY <1>1, <1>2, <1>3, <1>4, <1>5, <1>6, <1>7 DEF r, s

\* What each kind of row is to its reward.
LEMMA Phases ==
  ASSUME NEW r \in Row
  PROVE  /\ r.state = "ABSENT" => PhaseOf(r) = "none"
         /\ r.state \in ClaimableStates /\ r.approval => PhaseOf(r) = "held"
         /\ r.state \in ClaimableStates /\ ~r.approval => PhaseOf(r) = "open"
         /\ r.state = "DELIVERING" => PhaseOf(r) = "busy"
         /\ Resolvable(r) /\ Listed(r) => PhaseOf(r) = "review"
         /\ r.state \notin {"ABSENT", "DELIVERING"} \cup ClaimableStates =>
              PhaseOf(r) \in {"review", "closed"}
         /\ r.state \notin {"ABSENT", "DELIVERING"} \cup ClaimableStates /\ ~Resolvable(r) =>
              PhaseOf(r) = "closed"
BY DEF PhaseOf, ClaimableStates, Resolvable, Listed, Row

\* The statements that carry a permission, and all the others.
Opens(r, s) == ByTrigger(r, s) \/ ByApproval(r, s) \/ ByRetry(r, s)
MovesOn(r, s) == \/ s = r \/ BySweep(r, s) \/ ByClaim(r, s) \/ ByFinalize(r, s)
                 \/ ByClock(r, s) \/ ByReview(r, s)

\* The statements that carry a permission open the reward; the others move it
\* along RewardLifecycle or leave its phase alone.
LEMMA PhaseSteps ==
  ASSUME NEW r \in Row, NEW s \in Row, r.state = "DELIVERING" => ~r.approval
  PROVE  /\ Opens(r, s) => <<PhaseOf(r), PhaseOf(s)>> \in Lifecycle!Permitting
         /\ MovesOn(r, s) => \/ PhaseOf(s) = PhaseOf(r)
                             \/ <<PhaseOf(r), PhaseOf(s)>> \in Lifecycle!Moves
<1> DEFINE Moved == \/ PhaseOf(s) = PhaseOf(r)
                    \/ <<PhaseOf(r), PhaseOf(s)>> \in Lifecycle!Moves
<1>1. ByTrigger(r, s) => PhaseOf(r) = "none" /\ PhaseOf(s) = "open"
  BY Phases DEF ByTrigger, NewRow, ClaimableStates
<1>2. ByApproval(r, s) => PhaseOf(r) = "held" /\ PhaseOf(s) = "open"
  <2>1. ByApproval(r, s) => /\ r.state = "WAITING_FOR_PLAYER" /\ r.approval
                            /\ s.state = "WAITING_FOR_PLAYER" /\ ~s.approval
    BY DEF ByApproval, Row
  <2> QED BY <2>1, Phases DEF ClaimableStates
<1>3. ByRetry(r, s) => PhaseOf(r) = "review" /\ PhaseOf(s) = "open"
  <2>1. ByRetry(r, s) => /\ Resolvable(r) /\ Listed(r)
                         /\ s.state = "WAITING_FOR_PLAYER" /\ ~s.approval
    BY DEF ByRetry, Row
  <2> QED BY <2>1, Phases DEF ClaimableStates
<1>4. BySweep(r, s) => Moved
  <2>1. ASSUME LeaseExpired(r), s = RecoveredRow(r) PROVE Moved
    <3>1. r.state = "DELIVERING" /\ s.state = "UNCERTAIN"
      BY <2>1, WrittenRows DEF LeaseExpired
    <3>2. PhaseOf(r) = "busy" /\ PhaseOf(s) \in {"review", "closed"}
      BY <3>1, Phases DEF ClaimableStates
    <3> QED BY <3>2 DEF Lifecycle!Moves
  <2>2. ASSUME Dispatchable(r), s = DeferredRow(r) PROVE Moved
    <3>1. r.state \in ClaimableStates /\ ~r.approval /\ s.state = "WAITING_FOR_PLAYER" /\ ~s.approval
      BY <2>2, WrittenRows DEF Dispatchable
    <3>2. PhaseOf(r) = "open" /\ PhaseOf(s) = "open"
      BY <3>1, Phases DEF ClaimableStates
    <3> QED BY <3>2
  <2> QED BY <2>1, <2>2 DEF BySweep
<1>5. ByClaim(r, s) => Moved
  <2>1. Dispatchable(r) => PhaseOf(r) = "open"
    BY Phases DEF Dispatchable
  <2>2. s = ClaimedRow(r) => PhaseOf(s) = "busy"
    BY WrittenRows, Phases
  <2>3. ASSUME NEW rc \in Receipt, s = BlockedRow(r, rc) PROVE PhaseOf(s) \in {"review", "closed"}
    <3>1. s.state \in {"DELIVERED", "UNCERTAIN"}
      BY <2>3, WrittenRows
    <3> QED BY <3>1, Phases DEF ClaimableStates
  <2> QED BY <2>1, <2>2, <2>3 DEF ByClaim, Lifecycle!Moves
<1>6. ByFinalize(r, s) => Moved
  <2>1. ASSUME r.state = "DELIVERING", NEW o \in Outcomes, s = FinalizedRow(r, o) PROVE Moved
    <3>1. PhaseOf(r) = "busy"
      BY <2>1, Phases
    <3>2. s.state \in Outcomes /\ ~s.approval
      BY <2>1, WrittenRows
    <3>3. PhaseOf(s) \in {"open", "review", "closed"}
      BY <3>2, Phases DEF ClaimableStates, Outcomes
    <3> QED BY <3>1, <3>3 DEF Lifecycle!Moves
  <2> QED BY <2>1 DEF ByFinalize
<1>7. ByClock(r, s) => Moved
  <2>1. ByClock(r, s) => /\ s.state = r.state /\ s.approval = r.approval
                         /\ s.resolution = r.resolution /\ s.applied = r.applied
    BY DEF ByClock, Row
  <2> QED BY <2>1 DEF PhaseOf, Resolvable, Listed
<1>8. ByReview(r, s) => PhaseOf(r) = "review" /\ PhaseOf(s) = "closed"
  <2>1. ByReview(r, s) => /\ Resolvable(r) /\ Listed(r)
                          /\ s.state \in {"DELIVERED", "UNCERTAIN"} /\ s.resolution # "none"
    BY DEF ByReview, Resolvable, Row
  <2> QED BY <2>1, Phases DEF ClaimableStates, Resolvable
<1> QED BY <1>1, <1>2, <1>3, <1>4, <1>5, <1>6, <1>7, <1>8
        DEF Opens, MovesOn, Lifecycle!Permitting, Lifecycle!Moves

-----------------------------------------------------------------------------
(* How grants are counted *)

\* Items of a reward are finite in number.
LEMMA GrantedFinite ==
  ASSUME TypeOK, Accounts, NEW d \in Deliveries
  PROVE  IsFiniteSet(granted[d])
<1>1. queue[d].attempts \in Nat
  BY DEF TypeOK, Row
<1>2. granted[d] \subseteq 1..queue[d].attempts
  BY DEF Accounts, AttemptsDisjoint
<1>3. IsFiniteSet(1..queue[d].attempts)
  BY <1>1, FS_Interval
<1> QED BY <1>2, <1>3, FS_Subset

\* A grant adds one item to one row, of an attempt that had granted none, and
\* touches nothing else of the queue; no other step grants.
LEMMA GrantSteps ==
  ASSUME TypeOK, Accounts, [Next]_vars, NEW d \in Deliveries
  PROVE  \/ granted'[d] = granted[d]
         \/ /\ \E n \in Nat : n \notin granted[d] /\ granted'[d] = granted[d] \cup {n}
            /\ UNCHANGED <<queue, budget>>
<1> USE DEF tables, game, history
<1>1. ASSUME NEW x \in Deliveries, NEW n \in Nat, Grant(x, n)
      PROVE  \/ granted'[d] = granted[d]
             \/ /\ \E m \in Nat : m \notin granted[d] /\ granted'[d] = granted[d] \cup {m}
                /\ UNCHANGED <<queue, budget>>
  <2>1. <<x, n>> \in inflight /\ granted' = [granted EXCEPT ![x] = @ \cup {n}]
        /\ UNCHANGED <<queue, budget>>
    BY <1>1 DEF Grant
  <2>2. n \notin granted[x]
    BY <2>1 DEF Accounts, AttemptsDisjoint
  <2> QED BY <2>1, <2>2 DEF TypeOK
<1>2. ASSUME NEW w \in Workers, Daemon(w) PROVE UNCHANGED granted
  BY <1>2 DEF Daemon, Tick, TickSweep, TickPrepare, TickBlocked, resolveIdentity, ResolveFails,
              ResolveOffline, StartCommand, CommandEnds, finalizeDelivery, DispatchThrows,
              Crash, Restart
<1>3. ASSUME NEW x \in Deliveries, Enqueue(x) \/ Admin(x) \/ Clock(x) PROVE UNCHANGED granted
  BY <1>3 DEF Enqueue, Admin, approveHistoricalDelivery, resolveDelivered, resolveRetry,
              resolveArchive, Clock, LeaseLapses, BecomesDue
<1>4. ASSUME NEW p \in Players, LogIn(p) \/ LogOut(p) PROVE UNCHANGED granted
  BY <1>4 DEF LogIn, LogOut
<1>5. CASE UNCHANGED vars
  BY <1>5 DEF vars
<1> QED BY <1>1, <1>2, <1>3, <1>4, <1>5 DEF Next, GameServer

-----------------------------------------------------------------------------
(* The refinement *)

RefinementInvariant == TypeOK /\ Accounts /\ ClaimedIsApproved

\* The rows a daemon finds when it starts for the first time are at rest, and
\* nothing has been permitted.
LEMMA RefinementInit == Init => ClaimedIsApproved /\ Lifecycle!Init
<1> SUFFICES ASSUME Init PROVE ClaimedIsApproved /\ Lifecycle!Init
  OBVIOUS
<1>1. PICK old \in [Historical -> Migrated] :
        queue = [x \in Deliveries |-> IF x \in Historical THEN old[x].row ELSE Absent]
  BY DEF Init
<1>2. PhaseOf(Absent) = "none" /\ Absent.state = "ABSENT"
  BY RecordTypes, Phases DEF Absent, NewRow
<1>3. ASSUME NEW m \in Migrated
      PROVE  m.row.state # "DELIVERING" /\ PhaseOf(m.row) \in {"held", "review", "closed"}
  <2>1. PICK a \in BOOLEAN, st \in {"NONE", "SUCCESS", "PENDING", "UNCERTAIN"} :
          m.row = MigratedRow(a, st)
    BY DEF Migrated
  <2>2. /\ MigratedRow(a, st).state \in {"DELIVERED", "UNCERTAIN", "LEGACY_REVIEW", "WAITING_FOR_PLAYER"}
        /\ MigratedRow(a, st).state = "WAITING_FOR_PLAYER" => MigratedRow(a, st).approval
    BY DEF MigratedRow, Absent, NewRow
  <2> QED BY <2>1, <2>2, MigratedTypes, Phases DEF ClaimableStates
<1>4. \A d \in Deliveries : /\ queue[d].state # "DELIVERING"
                            /\ PhaseOf(queue[d]) \in {"none", "held", "review", "closed"}
  BY <1>1, <1>2, <1>3
<1>5. [d \in Deliveries |-> Cardinality(granted[d])] = [d \in Deliveries |-> 0]
  BY FS_EmptySet DEF Init
<1> QED BY <1>4, <1>5 DEF Init, Lifecycle!Init, ClaimedIsApproved

\* Every step of the queue is a step of the life of each of its rewards.
LEMMA RefinementNext ==
  RefinementInvariant /\ TypeOK' /\ GrantsAuthorized' /\ [Next]_vars => Lifecycle!Next
<1> SUFFICES ASSUME RefinementInvariant, TypeOK', GrantsAuthorized', [Next]_vars, NEW d \in Deliveries
             PROVE  \/ Lifecycle!Permit(d) \/ Lifecycle!Move(d)
                    \/ Lifecycle!Give(d) \/ Lifecycle!Rest(d)
  BY DEF Lifecycle!Next
<1> DEFINE before == PhaseOf(queue[d])
           after == PhaseOf(queue'[d])
<1>1. TypeOK /\ Accounts /\ queue[d] \in Row /\ (queue[d].state = "DELIVERING" => ~queue[d].approval)
  BY DEF RefinementInvariant, TypeOK, ClaimedIsApproved
<1>next. queue'[d] \in Row
  BY DEF TypeOK
<1>2. \/ budget'[d] = budget[d] + 1 /\ <<before, after>> \in Lifecycle!Permitting
      \/ budget'[d] = budget[d] /\ (after = before \/ <<before, after>> \in Lifecycle!Moves)
  <2>1. Permitted(d) \/ Unpermitted(d)
    BY <1>1, RowSteps
  <2>2. \/ budget'[d] = budget[d] + 1 /\ Opens(queue[d], queue'[d])
        \/ budget'[d] = budget[d] /\ MovesOn(queue[d], queue'[d])
    BY <2>1 DEF Permitted, Unpermitted, Opens, MovesOn
  <2> QED BY <1>1, <1>next, <2>2, PhaseSteps
<1>3. CASE granted'[d] = granted[d]
  <2>1. Cardinality(granted'[d]) = Cardinality(granted[d])
    BY <1>3
  <2> QED BY <1>2, <2>1 DEF Lifecycle!Permit, Lifecycle!Move, Lifecycle!Rest
<1>4. CASE /\ \E n \in Nat : n \notin granted[d] /\ granted'[d] = granted[d] \cup {n}
           /\ UNCHANGED <<queue, budget>>
  <2>1. Cardinality(granted'[d]) = Cardinality(granted[d]) + 1 /\ Cardinality(granted[d]) \in Nat
    BY <1>1, <1>4, GrantedFinite, FS_AddElement, FS_CardinalityType
  <2>2. Cardinality(granted'[d]) <= budget[d] /\ budget[d] \in Nat
    BY <1>1, <1>4 DEF GrantsAuthorized, TypeOK
  <2>3. Cardinality(granted[d]) < budget[d]
    BY <2>1, <2>2
  <2> QED BY <1>4, <2>1, <2>3 DEF Lifecycle!Give
<1> QED BY <1>1, <1>3, <1>4, GrantSteps

\* Whatever the number of rows, workers and players, and however they crash
\* and stall, the queue shows only what RewardLifecycle allows.
THEOREM QueueImplementsLifecycle == Spec => ImplementsLifecycle
<1>1. Init => RefinementInvariant /\ Lifecycle!Init
  BY InitTypes, AccountsInit, RefinementInit DEF RefinementInvariant
<1>2. RefinementInvariant /\ [Next]_vars => RefinementInvariant'
  BY NextTypes, AccountsNext, ClaimedIsApprovedNext DEF RefinementInvariant
<1>3. RefinementInvariant => TypeOK /\ GrantsAuthorized
  BY AccountsBound DEF RefinementInvariant
<1>4. RefinementInvariant /\ TypeOK' /\ GrantsAuthorized' /\ [Next]_vars => Lifecycle!Next
  BY RefinementNext
<1> QED BY <1>1, <1>2, <1>3, <1>4, PTL DEF Spec, ImplementsLifecycle, Lifecycle!Spec
=============================================================================
