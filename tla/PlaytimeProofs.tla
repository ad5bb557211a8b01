--------------------------- MODULE PlaytimeProofs ---------------------------
(* Theorems about the playtime trigger, for any day, gap limit, interval,   *)
(* streak and number of crashes.  That every day or week of attendance is   *)
(* paid is shown for settings and calendars in which it can be; those       *)
(* theorems name their hypotheses.                                          *)
EXTENDS Playtime, TLAPS, FiniteSetTheorems

-----------------------------------------------------------------------------
(* Type correctness *)

\* The calendar maps days to weeks, days of the week and week IDs.
LEMMA CalendarTypes ==
  ASSUME NEW d \in Days
  PROVE  /\ Week(d) \in Weeks /\ DayOfWeek(d) \in 0..6
         /\ WeekId(d) \in Int
<1>1. d \in Nat /\ d <= Horizon - 1 /\ Horizon \in Nat
  BY UnitsAssumption DEF Days
<1>2. d \div 7 \in Nat /\ d \div 7 <= (Horizon - 1) \div 7
  BY <1>1
<1>3. Week(d) \in Weeks
  BY <1>1, <1>2 DEF Week, Weeks
<1>4. DayOfWeek(d) \in 0..6
  BY <1>1 DEF DayOfWeek
<1>5. FirstWeek \in Int /\ Week(d) \in Int /\ LastWeek \in Int
  BY <1>2, UnitsAssumption DEF FirstWeek, Week
<1>6. IsoWeekOf(d) \in Int
  BY <1>5 DEF IsoWeekOf
<1>7. YearOf(d) \in Int
  BY DEF YearOf
<1> QED BY <1>3, <1>4, <1>6, <1>7 DEF WeekId

\* The row that the trigger finds is well formed, and so is what the daily
\* block makes of it.
LEMMA FoundTypes == TypeOK => Found(row) \in Row
<1> SUFFICES ASSUME TypeOK PROVE Found(row) \in Row OBVIOUS
<1>1. WeekId(Today) \in Int /\ Today \in Int
  BY CalendarTypes DEF TypeOK, Days
<1>2. NewRow \in Row
  BY <1>1 DEF NewRow, Row, TypeOK
<1> QED BY <1>2 DEF Found, TypeOK

\* The daily block keeps a row well formed.
LEMMA CheckedInTypes ==
  ASSUME TypeOK, NEW r \in Row
  PROVE  /\ CheckedIn(r) \in Row
         /\ CheckedIn(r).active_seconds = r.active_seconds
         /\ CheckedIn(r).last_active_at = r.last_active_at
<1>1. WeekId(Today) \in Int /\ DayOfWeek(Today) \in 0..6 /\ Today \in Nat
  BY CalendarTypes DEF TypeOK, Days
<1>2. Mask(r) \in SUBSET (0..6)
  BY <1>1 DEF Mask, Row
<1>3. Streak(r) \in Nat
  BY UnitsAssumption DEF Streak, Least, Row
<1>4. ASSUME NEW c \in Nat \cup {Null}
      PROVE  [r EXCEPT !.last_login_date = Today, !.consecutive_days = Streak(r),
                       !.weekly_login_mask = Mask(r), !.current_week_id = WeekId(Today),
                       !.last_weekly_claimed_at = c] \in Row
  <2>1. ASSUME NEW t \in Int \cup {Null}, NEW n \in Nat
        PROVE  [r EXCEPT !.last_login_date = t, !.consecutive_days = n] \in Row
    BY DEF Row
  <2>2. ASSUME NEW q \in Row
        PROVE  [q EXCEPT !.weekly_login_mask = Mask(r), !.current_week_id = WeekId(Today)] \in Row
    BY <1>1, <1>2 DEF Row
  <2>3. ASSUME NEW q \in Row PROVE [q EXCEPT !.last_weekly_claimed_at = c] \in Row
    BY DEF Row
  <2>4. Today \in Int \cup {Null}
    BY <1>1
  <2> QED BY <1>3, <2>1, <2>2, <2>3, <2>4
<1>5. (IF WeeklyDue(r) THEN Today ELSE r.last_weekly_claimed_at) \in Nat \cup {Null}
  BY <1>1 DEF Row
<1>6. CheckedIn(r) \in Row
  BY <1>4, <1>5 DEF CheckedIn
<1>7. /\ CheckedIn(r).active_seconds = r.active_seconds
      /\ CheckedIn(r).last_active_at = r.last_active_at
  BY DEF CheckedIn, Row
<1> QED BY <1>6, <1>7

\* The changes that a logout and the test buttons make keep a row well formed.
LEMMA ChangedTypes ==
  ASSUME NEW r \in Row
  PROVE  /\ [r EXCEPT !.last_active_at = Null] \in Row
         /\ [r EXCEPT !.last_login_date = Null, !.consecutive_days = 0] \in Row
         /\ [r EXCEPT !.weekly_login_mask = 0..4, !.last_weekly_claimed_at = Null] \in Row
<1>1. 0..4 \in SUBSET (0..6) OBVIOUS
<1> QED BY <1>1 DEF Row

\* Accumulated time is a number of clock units.
LEMMA AccumulatedTypes ==
  ASSUME TypeOK, NEW r \in Row
  PROVE  Accumulated(r) \in Nat
BY NullAssumption DEF TypeOK, Row, Accumulated, Counted, Elapsed

\* Counting playtime keeps a row well formed.
LEMMA TrackedTypes ==
  ASSUME TypeOK, NEW r \in Row
  PROVE  Tracked(r) \in Row
BY AccumulatedTypes DEF Tracked, Row, TypeOK

\* The rewards after an evaluated save that finds the row r.
Queued(r) == [playtime |-> PlaytimeQueued(r), daily |-> DailyQueued(r), weekly |-> WeeklyQueued(r)]

\* Queueing rolls keeps the counts well formed.
LEMMA QueuedTypes ==
  ASSUME TypeOK, NEW r \in Row
  PROVE  Queued(r) \in [playtime : Nat, daily : [Days -> Nat], weekly : [Weeks -> Nat]]
<1>1. Today \in Days /\ Week(Today) \in Weeks
  BY CalendarTypes DEF TypeOK
<1>2. \A b : Count(b) \in Nat
  BY DEF Count
<1>3. rewards.playtime + Count(PlaytimeDue(r)) \in Nat
  BY <1>2 DEF TypeOK
<1>4. [rewards.daily EXCEPT ![Today] = @ + Count(settings.daily /\ DailyDue(r))] \in [Days -> Nat]
  BY <1>1, <1>2 DEF TypeOK
<1>5. [rewards.weekly EXCEPT ![Week(Today)] = @ + Count(DailyDue(r) /\ WeeklyDue(r))]
        \in [Weeks -> Nat]
  BY <1>1, <1>2 DEF TypeOK
<1> QED BY <1>3, <1>4, <1>5 DEF Queued, PlaytimeQueued, DailyQueued, WeeklyQueued

\* The character is first seen within the horizon, with nothing recorded.
LEMMA InitTypes == Init => TypeOK
<1> SUFFICES ASSUME Init PROVE TypeOK OBVIOUS
<1>1. now \in Nat /\ Today \in Days
  BY StartAssumption DEF Init, Today, Days
<1>2. row \in Row
  BY DEF Init, NoRow, Row
<1>3. rewards \in [playtime : Nat, daily : [Days -> Nat], weekly : [Weeks -> Nat]]
  BY DEF Init
<1>4. pressed \in [reset : [Days -> Nat], set : [Weeks -> Nat]]
  BY DEF Init
<1> QED BY <1>1, <1>2, <1>3, <1>4 DEF Init, TypeOK

\* Every step keeps every variable well typed.
LEMMA NextTypes == TypeOK /\ [Next]_vars => TypeOK'
<1> SUFFICES ASSUME TypeOK, [Next]_vars PROVE TypeOK' OBVIOUS
<1> USE DEF TypeOK, Today, counters
<1>1. CASE SaveOnline
  <2>1. CASE Throttled(row)
    BY <1>1, <2>1 DEF SaveOnline, trackOnline
  <2>2. CASE ~Throttled(row)
    <3>1. row' \in Row
      BY <1>1, <2>2, FoundTypes, CheckedInTypes, TrackedTypes DEF SaveOnline, trackOnline
    <3>2. rewards' \in [playtime : Nat, daily : [Days -> Nat], weekly : [Weeks -> Nat]]
      BY <1>1, <2>2, FoundTypes, QueuedTypes DEF SaveOnline, trackOnline, Queued
    <3>3. away' \in BOOLEAN /\ attended' \subseteq Days
      BY <1>1, <2>2 DEF SaveOnline, trackOnline
    <3> QED BY <1>1, <3>1, <3>2, <3>3 DEF SaveOnline
  <2> QED BY <2>1, <2>2
<1>2. CASE SaveOffline
  BY <1>2, ChangedTypes DEF SaveOffline, trackOffline
<1>3. CASE Crash
  <2>1. crashes' \in Nat
    BY <1>3 DEF Crash
  <2>2. /\ playing' = FALSE
        /\ UNCHANGED <<now, away, row, settings, rewards, played, attended, pressed, saves, consoles>>
    BY <1>3 DEF Crash
  <2> QED BY <2>1, <2>2
<1>4. CASE Move
  BY <1>4 DEF Move
<1>5. CASE Advance
  <2>1. played' \in Nat
    BY <1>5 DEF Advance, Count
  <2>2. now' \in Nat /\ now' \div Day \in Days
    BY <1>5 DEF Advance
  <2>3. /\ UNCHANGED <<playing, away, row, settings, rewards>>
        /\ UNCHANGED <<attended, pressed, counters>>
    BY <1>5 DEF Advance
  <2> QED BY <2>1, <2>2, <2>3
<1>6. CASE handleSaveAllSettings
  BY <1>6 DEF handleSaveAllSettings
<1>7. CASE testResetDaily
  <2>1. row' \in Row
    BY <1>7, ChangedTypes DEF testResetDaily, Press
  <2>2. pressed' \in [reset : [Days -> Nat], set : [Weeks -> Nat]]
    BY <1>7 DEF testResetDaily
  <2> QED BY <1>7, <2>1, <2>2 DEF testResetDaily, Press
<1>8. CASE testSetWeekly
  <2>1. Week(Today) \in Weeks
    BY CalendarTypes
  <2>2. row' \in Row
    BY <1>8, ChangedTypes DEF testSetWeekly, Press
  <2>3. pressed' \in [reset : [Days -> Nat], set : [Weeks -> Nat]]
    BY <1>8, <2>1 DEF testSetWeekly
  <2> QED BY <1>8, <2>2, <2>3 DEF testSetWeekly, Press
<1>9. CASE UNCHANGED vars
  BY <1>9 DEF vars
<1> QED BY <1>1, <1>2, <1>3, <1>4, <1>5, <1>6, <1>7, <1>8, <1>9 DEF Next

\* Type correctness of the playtime trigger for all settings and bounds.
THEOREM TypeCorrect == Spec => []TypeOK
<1> QED BY InitTypes, NextTypes, PTL DEF Spec

-----------------------------------------------------------------------------
(* Playtime is backed by time in the game *)

Credit == Interval * rewards.playtime + row.active_seconds

Budget == played + crashes * (Cap - 1)

\* What the next save could count.
Pending == IF row.last_active_at = Null THEN 0
           ELSE IF now - row.last_active_at < Cap THEN now - row.last_active_at ELSE 0

\* PlaytimeBacked is not inductive: a save may turn pending time into credit.
\* While the character is in the game, pending time is covered like credit;
\* after a crash it may still grow up to Cap - 1, which the crash allows for.
Backed ==
  /\ Missing(row) => row.last_active_at = Null
  /\ row.last_active_at # Null => row.last_active_at <= now
  /\ IF ~playing /\ row.last_active_at # Null
     THEN Credit + (Cap - 1) <= Budget
     ELSE Credit + Pending <= Budget

\* The quantities are numbers, and pending time is less than Cap.
LEMMA BackedTypes ==
  ASSUME TypeOK, Backed
  PROVE  /\ Credit \in Nat /\ Budget \in Nat
         /\ Pending \in Nat /\ Pending <= Cap - 1
         /\ Credit + Pending <= Budget
         /\ Credit <= Budget
<1>1. /\ rewards.playtime \in Nat /\ row.active_seconds \in Nat /\ played \in Nat
      /\ crashes \in Nat /\ now \in Nat /\ Interval \in Nat
      /\ Cap \in Nat /\ Cap - 1 \in Nat
  BY UnitsAssumption DEF TypeOK, Row
<1>2. Interval * rewards.playtime \in Nat /\ crashes * (Cap - 1) \in Nat
  BY <1>1
<1>3. Credit \in Nat /\ Budget \in Nat
  BY <1>1, <1>2 DEF Credit, Budget
<1>4. Pending \in Nat /\ Pending <= Cap - 1
  BY <1>1, NullAssumption DEF Pending, Backed, TypeOK, Row
<1>5. Credit + Pending <= Budget
  BY <1>1, <1>3, <1>4 DEF Backed
<1> QED BY <1>3, <1>4, <1>5

\* An evaluated save turns at most the pending time into credit, and leaves
\* nothing pending.
LEMMA SaveCredit ==
  ASSUME TypeOK, Backed, ~Throttled(row),
         row' = Tracked(CheckedIn(Found(row))), rewards' = Queued(Found(row)), now' = now
  PROVE  /\ Credit' <= Credit + Pending /\ Credit' \in Nat
         /\ Pending' = 0
         /\ row'.last_active_at = now
<1> DEFINE r == Found(row)
<1>1. r \in Row /\ CheckedIn(r) \in Row /\ Tracked(CheckedIn(r)) \in Row
  BY FoundTypes, CheckedInTypes, TrackedTypes
<1>2. row'.last_active_at = now
  BY <1>1 DEF Tracked, Row
<1>3. Accumulated(r) \in Nat /\ Accumulated(CheckedIn(r)) = Accumulated(r)
      /\ (PlaytimeDue(CheckedIn(r)) <=> PlaytimeDue(r))
  BY <1>1, AccumulatedTypes, CheckedInTypes DEF Accumulated, Counted, Elapsed, PlaytimeDue
<1>4. row'.active_seconds = IF PlaytimeDue(r) THEN 0 ELSE Accumulated(r)
  BY <1>1, <1>3 DEF Tracked, Row
<1>5. rewards'.playtime = IF PlaytimeDue(r) THEN rewards.playtime + 1 ELSE rewards.playtime
  BY DEF Queued, PlaytimeQueued, DailyQueued, WeeklyQueued, Count, TypeOK
<1>6. Accumulated(r) <= row.active_seconds + Pending
  <2>1. CASE Missing(row)
    BY <2>1, BackedTypes DEF Found, NewRow, Accumulated, Counted, Elapsed, TypeOK, Row
  <2>2. CASE ~Missing(row)
    BY <2>2, BackedTypes, NullAssumption
       DEF Found, Accumulated, Counted, Elapsed, Pending, TypeOK, Row
  <2> QED BY <2>1, <2>2
<1>7. PlaytimeDue(r) => Interval <= Accumulated(r)
  BY <1>3, UnitsAssumption DEF PlaytimeDue
<1>8. Interval * (rewards.playtime + 1) = Interval * rewards.playtime + Interval
  BY UnitsAssumption DEF TypeOK
<1>9. Interval * rewards.playtime \in Nat /\ Interval \in Nat /\ row.active_seconds \in Nat
  BY UnitsAssumption DEF TypeOK, Row
<1>10. Credit' <= Credit + Pending /\ Credit' \in Nat
  BY <1>3, <1>4, <1>5, <1>6, <1>7, <1>8, <1>9, BackedTypes DEF Credit
<1>11. Pending' = 0
  BY <1>2, NullAssumption, UnitsAssumption DEF Pending, TypeOK
<1> QED BY <1>2, <1>10, <1>11

\* What is covered by a budget stays covered as it becomes credit, and one
\* unit more is covered by a budget that grows by one.
LEMMA WithinBudget ==
  ASSUME NEW c \in Nat, NEW p \in Nat, NEW b \in Nat, NEW n \in Nat, c + p <= b
  PROVE  /\ n <= c + p => n + 0 <= b
         /\ n <= p + 1 => c + n <= b + 1
OBVIOUS

\* At first there is neither credit nor a row.
LEMMA InitBacked == Init => Backed
BY UnitsAssumption DEF Init, NoRow, Backed, Missing, Credit, Budget, Pending

\* Credit and budget depend only on what they are made of.
LEMMA NextBacked == TypeOK /\ Backed /\ [Next]_vars => Backed'
<1> SUFFICES ASSUME TypeOK, Backed, [Next]_vars PROVE Backed' OBVIOUS
<1> USE DEF counters
<1>t. TypeOK'
  BY NextTypes
<1>c. Cap \in Nat \ {0} /\ now \in Nat /\ played \in Nat /\ crashes \in Nat
  BY UnitsAssumption DEF TypeOK
<1>b. /\ Credit \in Nat /\ Budget \in Nat /\ Pending \in Nat /\ Pending <= Cap - 1
      /\ Credit + Pending <= Budget /\ Credit <= Budget
  BY BackedTypes
<1>1. CASE SaveOnline
  <2>1. CASE Throttled(row)
    <3>1. /\ UNCHANGED <<now, row, rewards, played, crashes>>
          /\ playing' = TRUE
      BY <1>1, <2>1 DEF SaveOnline, trackOnline
    <3>2. Credit' = Credit /\ Budget' = Budget /\ Pending' = Pending
      BY <3>1 DEF Credit, Budget, Pending
    <3> QED BY <1>b, <3>1, <3>2 DEF Backed, Missing
  <2>2. CASE ~Throttled(row)
    <3>1. /\ row' = Tracked(CheckedIn(Found(row))) /\ rewards' = Queued(Found(row))
          /\ playing' = TRUE /\ UNCHANGED <<now, played, crashes>>
      BY <1>1, <2>2 DEF SaveOnline, trackOnline, Queued
    <3>2. Credit' <= Credit + Pending /\ Credit' \in Nat /\ Pending' = 0
          /\ row'.last_active_at = now
      BY <2>2, <3>1, SaveCredit
    <3>3. Budget' = Budget
      BY <3>1 DEF Budget
    <3>4. row'.current_week_id # Null
      <4>1. CheckedIn(Found(row)) \in Row /\ Found(row) \in Row /\ WeekId(Today) \in Int
        BY FoundTypes, CheckedInTypes, CalendarTypes DEF TypeOK
      <4>2. Found(row).current_week_id # Null
        BY <4>1, NullAssumption DEF Found, Missing, NewRow
      <4>3. CheckedIn(Found(row)).current_week_id # Null
        BY <4>1, <4>2, NullAssumption DEF CheckedIn, Row
      <4> QED BY <3>1, <4>1, <4>3 DEF Tracked, Row
    <3>5. Credit' + Pending' <= Budget'
      BY <1>b, <3>2, <3>3, WithinBudget
    <3> QED BY <1>c, <3>1, <3>2, <3>4, <3>5 DEF Backed, Missing
  <2> QED BY <2>1, <2>2
<1>2. CASE SaveOffline
  <2>1. UNCHANGED <<now, rewards, played, crashes>> /\ row' \in Row
    BY <1>2, <1>t DEF SaveOffline, trackOffline, TypeOK
  <2>2. row'.last_active_at = Null /\ row'.active_seconds = row.active_seconds
    BY <1>2 DEF SaveOffline, trackOffline, Backed, TypeOK, Row
  <2>3. Credit' = Credit /\ Budget' = Budget /\ Pending' = 0
    BY <2>1, <2>2 DEF Credit, Budget, Pending
  <2> QED BY <1>b, <2>2, <2>3 DEF Backed
<1>3. CASE Crash
  <2>1. UNCHANGED <<now, row, rewards, played>> /\ playing' = FALSE /\ crashes' = crashes + 1
    BY <1>3 DEF Crash
  <2>2. Credit' = Credit /\ Pending' = Pending
    BY <2>1 DEF Credit, Pending
  <2>3. (crashes + 1) * (Cap - 1) = crashes * (Cap - 1) + (Cap - 1)
    BY <1>c
  <2>4. crashes * (Cap - 1) \in Int
    BY <1>c
  <2>5. Budget' = Budget + (Cap - 1)
    BY <1>c, <2>1, <2>3, <2>4 DEF Budget
  <2>6. Credit' + (Cap - 1) <= Budget' /\ Credit' + Pending' <= Budget'
    BY <1>b, <1>c, <2>2, <2>5
  <2> QED BY <2>1, <2>6 DEF Backed, Missing
<1>4. CASE Move \/ handleSaveAllSettings \/ UNCHANGED vars
  <2>1. UNCHANGED <<now, playing, row, rewards, played, crashes>>
    BY <1>4 DEF Move, handleSaveAllSettings, vars
  <2> QED BY <2>1 DEF Backed, Missing, Credit, Budget, Pending
<1>5. CASE Advance
  <2>1. /\ UNCHANGED <<playing, row, rewards, crashes>> /\ now' = now + 1
        /\ played' = IF playing THEN played + 1 ELSE played
    BY <1>5, <1>c DEF Advance, Count
  <2>2. Credit' = Credit
    BY <2>1 DEF Credit
  <2>3. crashes * (Cap - 1) \in Int
    BY <1>c
  <2>4. Budget' = IF playing THEN Budget + 1 ELSE Budget
    BY <1>c, <2>1, <2>3 DEF Budget
  <2>5. CASE row.last_active_at = Null
    <3>1. Pending' = 0
      BY <2>1, <2>5 DEF Pending
    <3> QED BY <1>b, <2>1, <2>2, <2>4, <2>5, <3>1 DEF Backed, Missing
  <2>6. CASE row.last_active_at # Null
    <3>1. row.last_active_at \in Nat /\ row.last_active_at <= now /\ ~Missing(row)
      BY <2>6 DEF Backed, TypeOK, Row
    <3>2. Pending' <= Pending + 1 /\ Pending' \in Nat
      BY <1>c, <2>1, <2>6, <3>1 DEF Pending
    <3>3. playing => Credit' + Pending' <= Budget'
      BY <1>b, <2>2, <2>4, <3>2, WithinBudget
    <3>4. ~playing => Credit' + (Cap - 1) <= Budget'
      BY <2>2, <2>4, <2>6 DEF Backed
    <3> QED BY <1>c, <2>1, <2>6, <3>1, <3>3, <3>4 DEF Backed, Missing
  <2> QED BY <2>5, <2>6
<1>6. CASE testResetDaily \/ testSetWeekly
  <2>1. UNCHANGED <<now, playing, rewards, played, crashes>>
    BY <1>6 DEF testResetDaily, testSetWeekly, Press
  <2>2. /\ row'.last_active_at = row.last_active_at
        /\ row'.active_seconds = row.active_seconds
        /\ row'.current_week_id = row.current_week_id
    BY <1>6 DEF testResetDaily, testSetWeekly, Press, TypeOK, Row
  <2> QED BY <2>1, <2>2 DEF Backed, Missing, Credit, Budget, Pending
<1> QED BY <1>1, <1>2, <1>3, <1>4, <1>5, <1>6 DEF Next

\* However the character logs in and out, idles and crashes, and whatever the
\* units and settings are, no more playtime is rewarded than was played, but
\* for less than Cap for each crash (setup_playtime_airdrops.sql:497-611).
THEOREM NoUnplayedReward == Spec => []PlaytimeBacked
<1>1. TypeOK /\ Backed => PlaytimeBacked
  BY BackedTypes DEF PlaytimeBacked, Credit, Budget
<1> QED BY InitTypes, NextTypes, InitBacked, NextBacked, <1>1, PTL DEF Spec

-----------------------------------------------------------------------------
(* Daily rewards are paid once *)

\* The day never goes back.
LEMMA DaysGrow ==
  ASSUME NEW n \in Nat, NEW k \in Nat \ {0}
  PROVE  n \div k <= (n + 1) \div k
OBVIOUS

\* DailyOnce is not inductive: why is today's reward not queued again?  Because
\* the row says so once it has been queued more often than it was reset, and
\* days to come have none.
PaidOnce ==
  /\ Missing(row) => row.last_login_date = Null
  /\ \A d \in Days : d > Today => rewards.daily[d] = 0
  /\ \A d \in Days : rewards.daily[d] <= 1 + pressed.reset[d]
  /\ rewards.daily[Today] > pressed.reset[Today] =>
       row.last_login_date # Null /\ row.last_login_date >= Today

\* At first nothing has been paid.
LEMMA InitPaid == TypeOK /\ Init => PaidOnce
BY DEF Init, NoRow, PaidOnce, Missing, TypeOK

\* If the daily block is due, today has not been paid more often than reset.
LEMMA DuePaid ==
  ASSUME TypeOK, PaidOnce, DailyDue(Found(row))
  PROVE  rewards.daily[Today] <= pressed.reset[Today]
<1>1. rewards.daily[Today] \in Nat /\ pressed.reset[Today] \in Nat /\ Today \in Nat
  <2>1. rewards.daily[Today] \in Nat /\ pressed.reset[Today] \in Nat
    BY DEF TypeOK
  <2>2. Today \in Nat
    BY DEF TypeOK, Days
  <2> QED BY <2>1, <2>2
<1>2. CASE Missing(row)
  BY <1>1, <1>2 DEF PaidOnce
<1>3. CASE ~Missing(row)
  <2>1. row.last_login_date = Null \/ row.last_login_date < Today
    BY <1>3 DEF Found, DailyDue
  <2> QED BY <1>1, <2>1 DEF PaidOnce, TypeOK, Row
<1> QED BY <1>2, <1>3

\* No step pays a day that was paid and not reset since.
LEMMA NextPaid == TypeOK /\ PaidOnce /\ [Next]_vars => PaidOnce'
<1> SUFFICES ASSUME TypeOK, PaidOnce, [Next]_vars PROVE PaidOnce' OBVIOUS
<1>t. TypeOK'
  BY NextTypes
<1>d. Today \in Days /\ Today \in Nat /\ Days \subseteq Nat
  BY DEF TypeOK, Days
<1>n. /\ \A d \in Days : rewards.daily[d] \in Nat /\ pressed.reset[d] \in Nat
      /\ \A d \in Days : rewards'.daily[d] \in Nat /\ pressed'.reset[d] \in Nat
  BY <1>t DEF TypeOK
<1>1. CASE SaveOnline /\ ~Throttled(row)
  <2> DEFINE r == Found(row)
  <2>1. /\ row' = Tracked(CheckedIn(r)) /\ rewards' = Queued(r)
        /\ UNCHANGED <<now, pressed>> /\ Today' = Today
    BY <1>1 DEF SaveOnline, trackOnline, Queued, Today
  <2>2. r \in Row /\ CheckedIn(r) \in Row /\ WeekId(Today) \in Int
    BY FoundTypes, CheckedInTypes, CalendarTypes DEF TypeOK
  <2>3. r.current_week_id # Null
    BY <2>2, NullAssumption DEF Found, Missing, NewRow
  <2>4. row'.current_week_id # Null
    BY <2>1, <2>2, <2>3, NullAssumption DEF CheckedIn, Tracked, Row
  <2>5. row'.last_login_date = IF DailyDue(r) THEN Today ELSE r.last_login_date
    BY <2>1, <2>2 DEF CheckedIn, Tracked, Row
  <2>6. \A d \in Days : rewards'.daily[d] =
          IF d = Today /\ settings.daily /\ DailyDue(r) THEN rewards.daily[d] + 1
          ELSE rewards.daily[d]
    BY <1>d, <1>n, <2>1 DEF Queued, PlaytimeQueued, DailyQueued, WeeklyQueued, Count, TypeOK
  <2>7. CASE DailyDue(r)
    <3>1. rewards.daily[Today] <= pressed.reset[Today]
      BY <2>7, DuePaid
    <3>2. \A d \in Days : d > Today' => rewards'.daily[d] = 0
      BY <1>d, <2>1, <2>6 DEF PaidOnce
    <3>3. \A d \in Days : rewards'.daily[d] <= 1 + pressed'.reset[d]
      BY <1>d, <1>n, <2>1, <2>6, <3>1 DEF PaidOnce
    <3>4. row'.last_login_date # Null /\ row'.last_login_date >= Today'
      BY <1>d, <2>1, <2>5, <2>7, NullAssumption
    <3> QED BY <2>4, <3>2, <3>3, <3>4 DEF PaidOnce, Missing
  <2>8. CASE ~DailyDue(r)
    <3>1. \A d \in Days : rewards'.daily[d] = rewards.daily[d]
      BY <2>6, <2>8
    <3>2. ~Missing(row)
      BY <1>d, <2>8 DEF Found, NewRow, DailyDue
    <3>3. row'.last_login_date = row.last_login_date
      BY <2>5, <2>8, <3>2 DEF Found
    <3> QED BY <1>d, <2>1, <2>4, <3>1, <3>3 DEF PaidOnce, Missing
  <2> QED BY <2>7, <2>8
<1>2. CASE Advance
  <2>1. UNCHANGED <<row, rewards, pressed>> /\ now' = now + 1 /\ Today' \in Days
    BY <1>2, <1>t DEF Advance, TypeOK
  <2>2. Today <= Today'
    BY <2>1, DaysGrow, UnitsAssumption DEF Today, TypeOK
  <2>3. \A d \in Days : d > Today' => rewards'.daily[d] = 0
    BY <1>d, <2>1, <2>2 DEF PaidOnce
  <2>4. CASE Today' = Today
    BY <2>1, <2>4 DEF PaidOnce, Missing
  <2>5. CASE Today' # Today
    <3>1. rewards'.daily[Today'] = 0
      BY <1>d, <2>1, <2>2, <2>5 DEF PaidOnce
    <3>2. ~(rewards'.daily[Today'] > pressed'.reset[Today'])
      BY <1>n, <2>1, <3>1
    <3> QED BY <2>1, <2>3, <3>2 DEF PaidOnce, Missing
  <2> QED BY <2>4, <2>5
<1>3. CASE testResetDaily
  <2>1. /\ UNCHANGED <<now, rewards>> /\ Today' = Today
        /\ pressed' = [pressed EXCEPT !.reset[Today] = @ + 1]
        /\ row'.last_login_date = Null
    BY <1>3 DEF testResetDaily, Press, Today, TypeOK, Row
  <2>2. \A d \in Days : pressed'.reset[d] =
          IF d = Today THEN pressed.reset[d] + 1 ELSE pressed.reset[d]
    BY <1>d, <2>1 DEF TypeOK
  <2>3. \A d \in Days : rewards'.daily[d] <= 1 + pressed'.reset[d]
    BY <1>n, <2>1, <2>2 DEF PaidOnce
  <2>4. ~(rewards'.daily[Today'] > pressed'.reset[Today'])
    BY <1>d, <1>n, <2>1, <2>2 DEF PaidOnce
  <2> QED BY <2>1, <2>3, <2>4 DEF PaidOnce
<1>4. CASE SaveOffline \/ testSetWeekly
  <2>1. /\ UNCHANGED <<now, rewards>> /\ Today' = Today
        /\ pressed'.reset = pressed.reset
    BY <1>4 DEF SaveOffline, trackOffline, testSetWeekly, Press, Today, TypeOK
  <2>2. /\ row'.last_login_date = row.last_login_date
        /\ row'.current_week_id = row.current_week_id
    BY <1>4 DEF SaveOffline, trackOffline, testSetWeekly, Press, TypeOK, Row
  <2> QED BY <2>1, <2>2 DEF PaidOnce, Missing
<1>5. CASE \/ Crash \/ Move \/ handleSaveAllSettings \/ UNCHANGED vars
           \/ SaveOnline /\ Throttled(row)
  <2>1. UNCHANGED <<now, row, rewards, pressed>>
    BY <1>5 DEF Crash, Move, handleSaveAllSettings, vars, SaveOnline, trackOnline
  <2> QED BY <2>1 DEF PaidOnce, Missing, Today
<1> QED BY <1>1, <1>2, <1>3, <1>4, <1>5 DEF Next

\* However often a character is saved on a day, the daily reward is queued once
\* and again only after a reset by hand (setup_playtime_airdrops.sql:409-440).
THEOREM DailyPaidOnce == Spec => []DailyOnce
<1>1. PaidOnce => DailyOnce
  BY DEF PaidOnce, DailyOnce
<1>2. Init => PaidOnce
  BY InitTypes, InitPaid
<1> QED BY InitTypes, NextTypes, <1>2, NextPaid, <1>1, PTL DEF Spec

-----------------------------------------------------------------------------
(* What the steps do to the days and weeks on record *)

\* What an evaluated save does.  r is the row it finds.
CheckIn(r) ==
  /\ UNCHANGED <<now, settings, pressed, Today>>
  /\ attended' = attended \cup {Today}
  /\ ~Missing(row)' /\ ~Missing(r)
  /\ row'.last_login_date = IF DailyDue(r) THEN Today ELSE r.last_login_date
  /\ row'.consecutive_days = IF DailyDue(r) THEN Streak(r) ELSE r.consecutive_days
  /\ row'.weekly_login_mask = IF DailyDue(r) THEN Mask(r) ELSE r.weekly_login_mask
  /\ row'.current_week_id = IF DailyDue(r) THEN WeekId(Today) ELSE r.current_week_id
  /\ row'.last_weekly_claimed_at =
       IF DailyDue(r) /\ WeeklyDue(r) THEN Today ELSE r.last_weekly_claimed_at
  /\ \A d \in Days : rewards'.daily[d] =
       IF d = Today /\ settings.daily /\ DailyDue(r) THEN rewards.daily[d] + 1 ELSE rewards.daily[d]
  /\ \A w \in Weeks : rewards'.weekly[w] =
       IF w = Week(Today) /\ DailyDue(r) /\ WeeklyDue(r) THEN rewards.weekly[w] + 1
       ELSE rewards.weekly[w]

\* The days and weeks on record, and what has been paid for them.
OnRecord == <<row.last_login_date, row.consecutive_days, row.weekly_login_mask, row.current_week_id,
              row.last_weekly_claimed_at, rewards.daily, rewards.weekly, attended, pressed>>

\* The five ways in which a step concerns them.
LEMMA StepKinds ==
  ASSUME TypeOK, [Next]_vars
  PROVE  \/ CheckIn(Found(row))
         \/ UNCHANGED <<OnRecord, Today>>
         \/ UNCHANGED OnRecord /\ Today' \in Days /\ Today <= Today'
         \/ testResetDaily
         \/ testSetWeekly
<1>1. CASE SaveOnline /\ ~Throttled(row)
  <2> DEFINE r == Found(row)
  <2>1. /\ row' = Tracked(CheckedIn(r)) /\ rewards' = Queued(r)
        /\ UNCHANGED <<now, settings, pressed>> /\ Today' = Today
        /\ attended' = attended \cup {Today}
    BY <1>1 DEF SaveOnline, trackOnline, Queued, Today
  <2>2. r \in Row /\ CheckedIn(r) \in Row /\ WeekId(Today) \in Int /\ Week(Today) \in Weeks
    BY FoundTypes, CheckedInTypes, CalendarTypes DEF TypeOK
  <2>3. /\ row'.last_login_date = CheckedIn(r).last_login_date
        /\ row'.consecutive_days = CheckedIn(r).consecutive_days
        /\ row'.weekly_login_mask = CheckedIn(r).weekly_login_mask
        /\ row'.current_week_id = CheckedIn(r).current_week_id
        /\ row'.last_weekly_claimed_at = CheckedIn(r).last_weekly_claimed_at
    BY <2>1, <2>2 DEF Tracked, Row
  <2>4. /\ row'.last_login_date = IF DailyDue(r) THEN Today ELSE r.last_login_date
        /\ row'.consecutive_days = IF DailyDue(r) THEN Streak(r) ELSE r.consecutive_days
        /\ row'.weekly_login_mask = IF DailyDue(r) THEN Mask(r) ELSE r.weekly_login_mask
        /\ row'.current_week_id = IF DailyDue(r) THEN WeekId(Today) ELSE r.current_week_id
        /\ row'.last_weekly_claimed_at =
             IF DailyDue(r) /\ WeeklyDue(r) THEN Today ELSE r.last_weekly_claimed_at
    BY <2>2, <2>3 DEF CheckedIn, Row
  <2>5. ~Missing(r)
    BY <2>2, NullAssumption DEF Found, Missing, NewRow
  <2>6. ~Missing(row)'
    BY <2>2, <2>4, <2>5, NullAssumption DEF Missing
  <2>7. \A d \in Days : rewards'.daily[d] =
          IF d = Today /\ settings.daily /\ DailyDue(r) THEN rewards.daily[d] + 1
          ELSE rewards.daily[d]
    BY <2>1 DEF Queued, PlaytimeQueued, DailyQueued, WeeklyQueued, Count, TypeOK
  <2>8. \A w \in Weeks : rewards'.weekly[w] =
          IF w = Week(Today) /\ DailyDue(r) /\ WeeklyDue(r) THEN rewards.weekly[w] + 1
          ELSE rewards.weekly[w]
    BY <2>1 DEF Queued, PlaytimeQueued, DailyQueued, WeeklyQueued, Count, TypeOK
  <2> QED BY <2>1, <2>4, <2>5, <2>6, <2>7, <2>8 DEF CheckIn
<1>2. CASE Advance
  <2>1. UNCHANGED <<row, rewards, attended, pressed>> /\ now' = now + 1 /\ Today' \in Days
    BY <1>2, NextTypes DEF Advance, TypeOK
  <2>2. Today <= Today'
    BY <2>1, DaysGrow, UnitsAssumption DEF Today, TypeOK
  <2> QED BY <2>1, <2>2 DEF OnRecord
<1>3. CASE SaveOffline
  <2>1. UNCHANGED <<now, rewards, attended, pressed>>
    BY <1>3 DEF SaveOffline, trackOffline
  <2>2. /\ row'.last_login_date = row.last_login_date
        /\ row'.consecutive_days = row.consecutive_days
        /\ row'.weekly_login_mask = row.weekly_login_mask
        /\ row'.current_week_id = row.current_week_id
        /\ row'.last_weekly_claimed_at = row.last_weekly_claimed_at
    BY <1>3 DEF SaveOffline, trackOffline, TypeOK, Row
  <2> QED BY <2>1, <2>2 DEF OnRecord, Today
<1>4. CASE \/ Crash \/ Move \/ handleSaveAllSettings \/ UNCHANGED vars
           \/ SaveOnline /\ Throttled(row)
  <2>1. UNCHANGED <<now, row, rewards, attended, pressed>>
    BY <1>4 DEF Crash, Move, handleSaveAllSettings, vars, SaveOnline, trackOnline
  <2> QED BY <2>1 DEF OnRecord, Today
<1> QED BY <1>1, <1>2, <1>3, <1>4 DEF Next

\* What the test buttons do.
LEMMA ResetDaily ==
  ASSUME TypeOK, testResetDaily
  PROVE  /\ UNCHANGED <<Today, rewards, attended>> /\ pressed'.set = pressed.set
         /\ ~Missing(row) /\ ~Missing(row)' /\ pressed'.reset[Today] > 0
         /\ row'.last_login_date = Null
         /\ UNCHANGED <<row.weekly_login_mask, row.current_week_id, row.last_weekly_claimed_at>>
<1>1. pressed'.reset[Today] = pressed.reset[Today] + 1 /\ pressed.reset[Today] \in Nat
  BY DEF testResetDaily, TypeOK
<1>2. /\ UNCHANGED <<now, rewards, attended>> /\ pressed'.set = pressed.set /\ ~Missing(row)
      /\ row' = [row EXCEPT !.last_login_date = Null, !.consecutive_days = 0]
  BY DEF testResetDaily, Press, TypeOK
<1>3. /\ row'.last_login_date = Null
      /\ UNCHANGED <<row.weekly_login_mask, row.current_week_id, row.last_weekly_claimed_at>>
  BY <1>2 DEF TypeOK, Row
<1> QED BY <1>1, <1>2, <1>3 DEF Today, Missing

\* The second one sets five days of attendance and forgets the last claim.
LEMMA SetWeekly ==
  ASSUME TypeOK, testSetWeekly
  PROVE  /\ UNCHANGED <<Today, rewards, attended, pressed.reset>>
         /\ \A w \in Weeks : pressed'.set[w] =
              IF w = Week(Today) THEN pressed.set[w] + 1 ELSE pressed.set[w]
         /\ ~Missing(row) /\ ~Missing(row)' /\ consoles < MaxConsole
         /\ row'.weekly_login_mask = 0..4 /\ row'.last_weekly_claimed_at = Null
         /\ UNCHANGED <<row.last_login_date, row.consecutive_days, row.current_week_id>>
<1>1. \A w \in Weeks : pressed'.set[w] =
         IF w = Week(Today) THEN pressed.set[w] + 1 ELSE pressed.set[w]
  BY DEF testSetWeekly, TypeOK
<1>2. /\ UNCHANGED <<now, rewards, attended>> /\ pressed'.reset = pressed.reset
      /\ ~Missing(row) /\ consoles < MaxConsole
      /\ row' = [row EXCEPT !.weekly_login_mask = 0..4, !.last_weekly_claimed_at = Null]
  BY DEF testSetWeekly, Press, TypeOK
<1>3. /\ row'.weekly_login_mask = 0..4 /\ row'.last_weekly_claimed_at = Null
      /\ UNCHANGED <<row.last_login_date, row.consecutive_days, row.current_week_id>>
  BY <1>2 DEF TypeOK, Row
<1> QED BY <1>1, <1>2, <1>3 DEF Today, Missing

-----------------------------------------------------------------------------
(* Every day of attendance is on record *)

\* Nobody has attended before there is a row, nor on a day to come, and the
\* row's date is that of a day of attendance.
Recorded ==
  /\ Missing(row) => row.last_login_date = Null /\ attended = {}
  /\ \A d \in attended : d <= Today
  /\ row.last_login_date # Null => row.last_login_date \in attended

\* A row that is new has the date of the day before.
LEMMA NewIsDue ==
  ASSUME TypeOK, Missing(row)
  PROVE  /\ DailyDue(Found(row)) /\ Found(row).last_login_date = Today - 1
         /\ Found(row).consecutive_days = 0 /\ Found(row).last_weekly_claimed_at = Null
BY DEF Found, NewRow, DailyDue, TypeOK, Days

\* What is not due has been attended, on this very day.
LEMMA NotDue ==
  ASSUME TypeOK, Recorded, ~DailyDue(Found(row))
  PROVE  ~Missing(row) /\ Found(row) = row /\ row.last_login_date = Today /\ Today \in attended
<1>1. ~Missing(row) /\ Found(row) = row
  BY NewIsDue DEF Found
<1>2. row.last_login_date # Null /\ ~(row.last_login_date < Today)
  BY <1>1 DEF DailyDue
<1>3. /\ row.last_login_date \in attended /\ row.last_login_date <= Today
      /\ row.last_login_date \in Int /\ Today \in Int
  <2>1. attended \subseteq Int /\ Today \in Int
    BY DEF TypeOK, Days
  <2> QED BY <1>2, <2>1 DEF Recorded
<1>4. row.last_login_date = Today
  BY <1>2, <1>3
<1> QED BY <1>1, <1>3, <1>4

\* A new installation has no row.
LEMMA InitRecorded == Init => Recorded
BY DEF Init, NoRow, Recorded, Missing

\* Every step keeps the record.
LEMMA NextRecorded == TypeOK /\ Recorded /\ [Next]_vars => Recorded'
<1> SUFFICES ASSUME TypeOK, Recorded, [Next]_vars PROVE Recorded' OBVIOUS
<1>d. Today \in Int /\ attended \subseteq Int
  BY DEF TypeOK, Days
<1>1. CASE CheckIn(Found(row))
  BY <1>d, <1>1, NotDue DEF CheckIn, Recorded
<1>2. CASE UNCHANGED OnRecord /\ Today' \in Days /\ Today <= Today'
  BY <1>d, <1>2 DEF OnRecord, Recorded, Missing, Days
<1>3. CASE UNCHANGED <<OnRecord, Today>>
  BY <1>3 DEF OnRecord, Recorded, Missing
<1>4. CASE testResetDaily
  BY <1>4, ResetDaily DEF Recorded
<1>5. CASE testSetWeekly
  BY <1>5, SetWeekly DEF Recorded
<1> QED BY <1>1, <1>2, <1>3, <1>4, <1>5, StepKinds

\* Types and records, always.
LEMMA AlwaysRecorded == Spec => [](TypeOK /\ Recorded)
BY InitTypes, NextTypes, InitRecorded, NextRecorded, PTL DEF Spec

-----------------------------------------------------------------------------
(* Daily rewards are paid for every day of attendance *)

\* A day of attendance is paid if daily rewards are enabled when it begins, the
\* days before a crash, after a reset or in a new week included, and nothing else
\* is (setup_playtime_airdrops.sql:409-440).
THEOREM EveryDayPaid == Spec => DailyPaid
<1> DEFINE Right ==
             \A d \in Days :
               LET paid == rewards'.daily[d] > rewards.daily[d] IN
                 /\ d \in attended' \ attended /\ settings.daily => paid
                 /\ paid => d \in attended' /\ settings.daily
<1>1. ASSUME TypeOK, Recorded, [Next]_vars PROVE Right
  <2>n. \A d \in Days : rewards.daily[d] \in Nat
    BY <1>1 DEF TypeOK
  <2>1. CASE CheckIn(Found(row))
    <3>1. ~DailyDue(Found(row)) => Today \in attended
      BY <1>1, NotDue
    <3> QED BY <2>n, <2>1, <3>1 DEF CheckIn
  <2>2. CASE UNCHANGED <<rewards.daily, attended>>
    BY <2>n, <2>2
  <2>3. CASE UNCHANGED OnRecord
    BY <2>2, <2>3 DEF OnRecord
  <2>4. CASE testResetDaily \/ testSetWeekly
    BY <1>1, <2>2, <2>4, ResetDaily, SetWeekly
  <2> QED BY <1>1, <2>1, <2>3, <2>4, StepKinds
<1>2. ASSUME TypeOK, Recorded, [Next]_vars PROVE [Right]_vars
  BY <1>1, <1>2
<1> QED BY <1>2, AlwaysRecorded, PTL DEF Spec, DailyPaid

-----------------------------------------------------------------------------
(* The streak *)

\* Nobody has reset the streak.
NoReset == \A d \in Days : pressed.reset[d] = 0

\* Until somebody resets it, the row's date is the last day of attendance.
LastLogin ==
  NoReset => /\ ~Missing(row) => row.last_login_date # Null
             /\ row.last_login_date # Null => \A d \in attended : d <= row.last_login_date

\* A streak of n days until the day before makes one of n + 1 days, as far as
\* it counts.
LEMMA StreakGrows ==
  ASSUME NEW n \in Nat, NEW t \in Int, MaxStreak \in Nat \ {0}, n > 0, n <= MaxStreak,
         attended' = attended \cup {t}, InARow(n, t - 1),
         n < MaxStreak => ~InARow(n + 1, t - 1)
  PROVE  LET m == Least(MaxStreak, n + 1) IN
           /\ m > 0 /\ m <= MaxStreak /\ InARow(m, t)'
           /\ m < MaxStreak => ~InARow(m + 1, t)'
<1> DEFINE m == Least(MaxStreak, n + 1)
<1>1. m \in Nat /\ m > 0 /\ m <= MaxStreak /\ m <= n + 1 /\ (m < MaxStreak => m = n + 1 /\ n < MaxStreak)
  BY DEF Least
<1>2. ASSUME NEW i \in 0 .. m - 1 PROVE t - i \in attended'
  <2>1. CASE i = 0
    BY <2>1
  <2>2. CASE i # 0
    <3>1. i - 1 \in 0 .. n - 1 /\ (t - 1) - (i - 1) = t - i
      BY <1>1, <2>2
    <3> QED BY <3>1 DEF InARow
  <2> QED BY <2>1, <2>2
<1>3. ASSUME m < MaxStreak, \A i \in 0 .. m : t - i \in attended' PROVE FALSE
  <2>1. m = n + 1
    BY <1>1, <1>3
  <2>2. ASSUME NEW i \in 0 .. n PROVE (t - 1) - i \in attended
    <3>1. i + 1 \in 0 .. m /\ t - (i + 1) = (t - 1) - i /\ (t - 1) - i # t
      BY <2>1
    <3> QED BY <1>3, <3>1
  <2>3. InARow(n + 1, t - 1)
    BY <2>2 DEF InARow
  <2> QED BY <1>1, <1>3, <2>3
<1>4. (m + 1) - 1 = m
  BY <1>1
<1> QED BY <1>1, <1>2, <1>3, <1>4 DEF InARow

\* A streak begins with its first day.
LEMMA StreakBegins ==
  ASSUME NEW t \in Int, MaxStreak \in Nat \ {0}, attended' = attended \cup {t}, t - 1 \notin attended
  PROVE  /\ 1 <= MaxStreak /\ InARow(1, t)'
         /\ 1 < MaxStreak => ~InARow(2, t)'
<1>1. InARow(1, t)'
  BY DEF InARow
<1>2. ~InARow(2, t)'
  <2>1. 1 \in 0 .. 2 - 1 /\ t - 1 # t
    OBVIOUS
  <2> QED BY <2>1 DEF InARow
<1> QED BY <1>1, <1>2

\* Whatever the settings, gaps and crashes, the number in the row is the length
\* of the streak until somebody resets it (setup_playtime_airdrops.sql:409-424).
THEOREM StreakIsLength == Spec => []StreakMatches
<1> DEFINE Inv == TypeOK /\ Recorded /\ LastLogin /\ StreakMatches
<1>1. Init => Inv
  BY InitTypes, InitRecorded DEF Init, NoRow, LastLogin, StreakMatches, Missing
<1>2. Inv /\ [Next]_vars => Inv'
  <2> SUFFICES ASSUME Inv, [Next]_vars PROVE LastLogin' /\ StreakMatches'
    BY NextTypes, NextRecorded
  <2>d. Today \in Int /\ attended \subseteq Int /\ MaxStreak \in Nat \ {0}
    BY UnitsAssumption DEF TypeOK, Days
  <2>1. CASE CheckIn(Found(row)) /\ DailyDue(Found(row)) /\ NoReset
    <3> DEFINE r == Found(row)
    <3>1. /\ attended' = attended \cup {Today} /\ ~Missing(row)' /\ UNCHANGED pressed
          /\ row'.last_login_date = Today /\ row'.consecutive_days = Streak(r)
      BY <2>1 DEF CheckIn
    <3>2. LastLogin'
      BY <2>d, <3>1, NullAssumption DEF LastLogin, Recorded
    <3>3. CASE ~Missing(row) /\ row.last_login_date = Today - 1
      <4>1. r = row /\ Streak(r) = Least(MaxStreak, row.consecutive_days + 1)
        BY <3>3 DEF Found, Streak
      <4>2. /\ row.consecutive_days \in Nat /\ row.consecutive_days > 0
            /\ row.consecutive_days <= MaxStreak
            /\ InARow(row.consecutive_days, Today - 1)
            /\ row.consecutive_days < MaxStreak => ~InARow(row.consecutive_days + 1, Today - 1)
        BY <2>d, <2>1, <3>3, NullAssumption DEF StreakMatches, NoReset, TypeOK, Row
      <4> QED BY <2>d, <3>1, <3>2, <4>1, <4>2, StreakGrows DEF StreakMatches
    <3>4. CASE Missing(row) \/ row.last_login_date # Today - 1
      <4>1. Streak(r) = 1
        BY <2>d, <3>4, NewIsDue DEF Found, Streak, Least
      <4>2. Today - 1 \notin attended
        <5>1. CASE Missing(row)
          BY <5>1 DEF Recorded
        <5>2. CASE ~Missing(row)
          <6>1. row.last_login_date # Null /\ row.last_login_date < Today
            BY <2>1, <5>2 DEF LastLogin, Found, DailyDue
          <6>2. row.last_login_date \in Int
            BY <2>d, <6>1 DEF Recorded
          <6> QED BY <2>d, <2>1, <3>4, <5>2, <6>1, <6>2 DEF LastLogin
        <5> QED BY <5>1, <5>2
      <4> QED BY <2>d, <3>1, <3>2, <4>1, <4>2, StreakBegins DEF StreakMatches
    <3> QED BY <3>3, <3>4
  <2>2. CASE CheckIn(Found(row)) /\ ~DailyDue(Found(row))
    <3>1. /\ attended' = attended /\ ~Missing(row)' /\ ~Missing(row) /\ UNCHANGED pressed
          /\ UNCHANGED <<row.last_login_date, row.consecutive_days>>
      BY <2>2, NotDue DEF CheckIn
    <3> QED BY <3>1 DEF LastLogin, NoReset, StreakMatches, InARow
  <2>3. CASE UNCHANGED OnRecord
    BY <2>3 DEF OnRecord, LastLogin, NoReset, StreakMatches, InARow, Missing
  <2>4. CASE testResetDaily
    <3>1. pressed'.reset[Today] > 0 /\ Today \in Days
      BY <2>4, ResetDaily DEF TypeOK
    <3> QED BY <3>1 DEF LastLogin, NoReset, StreakMatches
  <2>5. CASE testSetWeekly
    BY <2>5, SetWeekly DEF LastLogin, NoReset, StreakMatches, InARow
  <2>6. CASE CheckIn(Found(row)) /\ ~NoReset
    BY <2>6 DEF CheckIn, LastLogin, NoReset, StreakMatches
  <2> QED BY <2>1, <2>2, <2>3, <2>4, <2>5, <2>6, StepKinds
<1>3. Inv => StreakMatches
  OBVIOUS
<1> HIDE DEF Inv
<1> QED BY <1>1, <1>2, <1>3, PTL DEF Spec

-----------------------------------------------------------------------------
(* The weeks *)

\* Two days of a week have the same ID, and so no week has two.
WholeWeeks == \A a, b \in Days : Week(a) = Week(b) => WeekId(a) = WeekId(b)

\* Besides, no two weeks have the same one.
FaithfulWeeks == \A a, b \in Days : Week(a) = Week(b) <=> WeekId(a) = WeekId(b)

\* The weeks have IDs of their own if 1 January is a Monday, so that the shifted
\* year begins with a week, or after the horizon; otherwise the week of the turn
\* has two, as the run newyear shows.
LEMMA WeeksAreFaithful ==
  ASSUME LastWeek <= 53, NewYear % 7 = 6 \/ NewYear >= Horizon + 2
  PROVE  FaithfulWeeks
<1> SUFFICES ASSUME NEW a \in Days, NEW b \in Days
             PROVE  Week(a) = Week(b) <=> WeekId(a) = WeekId(b)
  BY DEF FaithfulWeeks
<1>1. /\ a \in Nat /\ b \in Nat /\ a <= Horizon - 1 /\ b <= Horizon - 1
      /\ Horizon \in Nat /\ NewYear \in Nat /\ LastWeek \in Nat
  BY UnitsAssumption DEF Days
<1>2. /\ Week(a) \in Nat /\ 7 * Week(a) <= a /\ a <= 7 * Week(a) + 6
      /\ Week(b) \in Nat /\ 7 * Week(b) <= b /\ b <= 7 * Week(b) + 6
  BY <1>1 DEF Week
<1>3. /\ FirstWeek \in Nat /\ 7 * FirstWeek <= NewYear + 4 /\ NewYear + 4 <= 7 * FirstWeek + 6
      /\ (NewYear % 7 = 6 => NewYear = 7 * FirstWeek - 1)
  BY <1>1 DEF FirstWeek
<1>4. \A d \in {a, b} : YearOf(d) = IF Week(d) < FirstWeek THEN 2026 ELSE 2027
  BY <1>1, <1>2, <1>3 DEF YearOf
<1>5. \A d \in {a, b} : WeekId(d) = IF Week(d) < FirstWeek
                                    THEN 202600 + LastWeek - (FirstWeek - 1 - Week(d))
                                    ELSE 202700 + Week(d) - FirstWeek + 1
  BY <1>1, <1>2, <1>3, <1>4 DEF WeekId, IsoWeekOf
<1> QED BY <1>1, <1>2, <1>3, <1>5

\* A row remembers the day on which it was last paid for attendance.
ClaimKnown ==
  /\ Missing(row) => row.last_weekly_claimed_at = Null
  /\ row.last_weekly_claimed_at # Null => row.last_weekly_claimed_at \in Days

\* Why is this week's reward not queued again?  Because the row says so once it
\* has been queued more often than the attendance was set, and weeks to come
\* have none.
ClaimedOnce ==
  /\ \A w \in Weeks : w > Week(Today) => rewards.weekly[w] = 0
  /\ \A w \in Weeks : rewards.weekly[w] <= 1 + pressed.set[w]
  /\ rewards.weekly[Week(Today)] > pressed.set[Week(Today)] =>
       /\ row.last_weekly_claimed_at # Null
       /\ Week(row.last_weekly_claimed_at) = Week(Today)

\* A row that is found has the claim of the row that there is.
LEMMA FoundClaim ==
  ASSUME TypeOK, ClaimKnown
  PROVE  Found(row).last_weekly_claimed_at = row.last_weekly_claimed_at
BY NewIsDue DEF Found, ClaimKnown

\* Every step keeps the claim.
LEMMA NextClaimKnown == TypeOK /\ ClaimKnown /\ [Next]_vars => ClaimKnown'
<1> SUFFICES ASSUME TypeOK, ClaimKnown, [Next]_vars PROVE ClaimKnown' OBVIOUS
<1>1. CASE CheckIn(Found(row))
  BY <1>1, FoundClaim DEF CheckIn, ClaimKnown, TypeOK
<1>2. CASE UNCHANGED OnRecord
  BY <1>2 DEF OnRecord, ClaimKnown, Missing
<1>3. CASE testResetDaily
  BY <1>3, ResetDaily DEF ClaimKnown
<1>4. CASE testSetWeekly
  BY <1>4, SetWeekly DEF ClaimKnown
<1> QED BY <1>1, <1>2, <1>3, <1>4, StepKinds

\* A later day is not of an earlier week.
LEMMA WeeksGrow ==
  ASSUME NEW a \in Days, NEW b \in Days, a <= b
  PROVE  Week(a) <= Week(b) /\ Week(a) \in Weeks /\ Week(b) \in Weeks
<1>1. a \in Nat /\ b \in Nat
  BY DEF Days
<1>2. Week(a) <= Week(b)
  BY <1>1 DEF Week
<1> QED BY <1>2, CalendarTypes

\* When a week has ended, no day so far is of the next one.
LEMMA EarlierWeek ==
  ASSUME NEW d \in Days, NEW a \in Days, NEW b \in Days, d <= a, a <= b, Week(a) # Week(b)
  PROVE  Week(d) # Week(b)
<1>1. Week(d) <= Week(a) /\ Week(a) <= Week(b)
  BY WeeksGrow
<1>2. Week(d) \in Int /\ Week(a) \in Int /\ Week(b) \in Int
  BY CalendarTypes DEF Weeks
<1> QED BY <1>1, <1>2

\* If every week has one ID, a week is paid once and again only after the
\* attendance was set by hand, whatever is required and however often the daily
\* reward is reset (setup_playtime_airdrops.sql:446-467).
THEOREM WeekPaidOnce == WholeWeeks /\ Spec => []WeeklyOnce
<1> DEFINE Inv == TypeOK /\ ClaimKnown /\ ClaimedOnce
<1>1. Init => Inv
  <2> SUFFICES ASSUME Init PROVE ClaimKnown /\ ClaimedOnce
    BY InitTypes
  <2>1. Week(Today) \in Weeks
    BY InitTypes, CalendarTypes DEF TypeOK
  <2>2. ClaimKnown
    BY DEF Init, NoRow, ClaimKnown
  <2>3. \A w \in Weeks : rewards.weekly[w] = 0 /\ pressed.set[w] = 0
    BY DEF Init
  <2> QED BY <2>1, <2>2, <2>3 DEF ClaimedOnce
<1>2. ASSUME WholeWeeks PROVE Inv /\ [Next]_vars => Inv'
  <2> SUFFICES ASSUME Inv, [Next]_vars PROVE ClaimedOnce'
    BY NextTypes, NextClaimKnown
  <2>d. Today \in Days /\ Week(Today) \in Weeks /\ Weeks \subseteq Int
    BY CalendarTypes DEF TypeOK, Weeks
  <2>n. \A w \in Weeks : /\ rewards.weekly[w] \in Nat /\ pressed.set[w] \in Nat
                         /\ rewards'.weekly[w] \in Nat /\ pressed'.set[w] \in Nat
    BY NextTypes DEF TypeOK
  <2>1. CASE CheckIn(Found(row)) /\ DailyDue(Found(row)) /\ WeeklyDue(Found(row))
    <3>1. /\ UNCHANGED <<Today, pressed>> /\ row'.last_weekly_claimed_at = Today
          /\ \A w \in Weeks : rewards'.weekly[w] =
               IF w = Week(Today) THEN rewards.weekly[w] + 1 ELSE rewards.weekly[w]
      BY <2>1 DEF CheckIn
    <3>2. rewards.weekly[Week(Today)] <= pressed.set[Week(Today)]
      <4>1. row.last_weekly_claimed_at = Null \/ WeekId(row.last_weekly_claimed_at) # WeekId(Today)
        BY <2>1, FoundClaim DEF WeeklyDue
      <4>2. row.last_weekly_claimed_at = Null \/ Week(row.last_weekly_claimed_at) # Week(Today)
        BY <1>2, <2>d, <4>1 DEF WholeWeeks, ClaimKnown
      <4>3. ~(rewards.weekly[Week(Today)] > pressed.set[Week(Today)])
        BY <4>2 DEF ClaimedOnce
      <4>4. rewards.weekly[Week(Today)] \in Nat /\ pressed.set[Week(Today)] \in Nat
        BY <2>d, <2>n
      <4> QED BY <4>3, <4>4
    <3>3. Today # Null
      BY <2>d, NullAssumption DEF Days
    <3> QED BY <2>d, <2>n, <3>1, <3>2, <3>3 DEF ClaimedOnce
  <2>2. CASE CheckIn(Found(row)) /\ ~(DailyDue(Found(row)) /\ WeeklyDue(Found(row)))
    <3>1. /\ UNCHANGED <<Today, pressed, row.last_weekly_claimed_at>>
          /\ \A w \in Weeks : rewards'.weekly[w] = rewards.weekly[w]
      BY <2>2, FoundClaim DEF CheckIn
    <3> QED BY <2>d, <3>1 DEF ClaimedOnce
  <2>3. CASE UNCHANGED OnRecord /\ Today' \in Days /\ Today <= Today'
    <3>1. Week(Today) <= Week(Today)' /\ Week(Today)' \in Weeks
      BY <2>d, <2>3, WeeksGrow
    <3>2. CASE Week(Today)' = Week(Today)
      BY <2>3, <3>2 DEF OnRecord, ClaimedOnce
    <3>3. CASE Week(Today)' # Week(Today)
      <4>1. Week(Today)' > Week(Today) /\ \A w \in Weeks : w > Week(Today)' => w > Week(Today)
        <5>1. \A v, w \in Weeks : v \in Int /\ w \in Int
          BY <2>d
        <5>2. Week(Today) \in Int /\ Week(Today)' \in Int
          BY <2>d, <3>1, <5>1
        <5>3. Week(Today)' > Week(Today)
          BY <3>1, <3>3, <5>2
        <5>4. ASSUME NEW w \in Weeks, w > Week(Today)' PROVE w > Week(Today)
          BY <5>1, <5>2, <5>3, <5>4
        <5> QED BY <5>3, <5>4
      <4>2. rewards'.weekly[Week(Today)'] = 0
        BY <2>3, <3>1, <4>1 DEF OnRecord, ClaimedOnce
      <4>3. ~(rewards'.weekly[Week(Today)'] > pressed'.set[Week(Today)'])
        <5>1. pressed'.set[Week(Today)'] \in Nat
          BY <2>n, <3>1
        <5> QED BY <4>2, <5>1
      <4> QED BY <2>3, <4>1, <4>3 DEF OnRecord, ClaimedOnce
    <3> QED BY <3>2, <3>3
  <2>4. CASE UNCHANGED <<OnRecord, Today>>
    BY <2>4 DEF OnRecord, ClaimedOnce
  <2>5. CASE testResetDaily
    BY <2>5, ResetDaily DEF ClaimedOnce
  <2>6. CASE testSetWeekly
    <3>1. /\ UNCHANGED <<Today, rewards>>
          /\ \A w \in Weeks : pressed'.set[w] =
               IF w = Week(Today) THEN pressed.set[w] + 1 ELSE pressed.set[w]
      BY <2>6, SetWeekly
    <3>2. \A w \in Weeks : rewards'.weekly[w] <= 1 + pressed'.set[w]
      BY <2>n, <3>1 DEF ClaimedOnce
    <3>3. ~(rewards'.weekly[Week(Today)] > pressed'.set[Week(Today)])
      <4>1. /\ rewards'.weekly[Week(Today)] <= 1 + pressed.set[Week(Today)]
            /\ pressed'.set[Week(Today)] = pressed.set[Week(Today)] + 1
        BY <2>d, <3>1 DEF ClaimedOnce
      <4>2. rewards'.weekly[Week(Today)] \in Nat /\ pressed.set[Week(Today)] \in Nat
        BY <2>d, <2>n
      <4> QED BY <4>1, <4>2
    <3> QED BY <3>1, <3>2, <3>3 DEF ClaimedOnce
  <2> QED BY <2>1, <2>2, <2>3, <2>4, <2>5, <2>6, StepKinds
<1>3. Inv => WeeklyOnce
  BY DEF ClaimedOnce, WeeklyOnce
<1> HIDE DEF Inv
<1>4. ASSUME WholeWeeks PROVE Spec => []WeeklyOnce
  BY <1>1, <1>2, <1>3, <1>4, PTL DEF Spec
<1> QED BY <1>4

\* No more days are required than the five that the test button sets, unless
\* nobody uses it: the button forgets the other two.
Attainable == Required <= 5 \/ MaxConsole = 0

\* Enough days were set by hand.
SetByHand == 0..4 \subseteq row.weekly_login_mask /\ Required <= 5

\* The row has the ID of this week and the days of it that were attended, unless
\* the button has set enough of them.
Masked ==
  \A d \in attended : Week(d) = Week(Today) =>
    /\ row.current_week_id = WeekId(Today)
    /\ DayOfWeek(d) \in row.weekly_login_mask \/ SetByHand

\* What was claimed was paid.
ClaimPaid ==
  row.last_weekly_claimed_at # Null => rewards.weekly[Week(row.last_weekly_claimed_at)] > 0

\* The row's week is one of attendance, and unless the button was pressed this
\* week, its mask has no other days of this week than those attended.
MaskEarned ==
  /\ ~Missing(row) => \E d \in attended : row.current_week_id = WeekId(d)
  /\ row.current_week_id = WeekId(Today) /\ pressed.set[Week(Today)] = 0 =>
       \A b \in row.weekly_login_mask :
         \E d \in attended : Week(d) = Week(Today) /\ DayOfWeek(d) = b

\* The mask is finite.
LEMMA MaskFinite ==
  ASSUME NEW M \in SUBSET (0..6)
  PROVE  IsFiniteSet(M) /\ Cardinality(M) \in Nat
<1>1. 0 \in Int /\ 6 \in Int
  OBVIOUS
<1>2. IsFiniteSet(0..6)
  BY ONLY <1>1, FS_Interval
<1> QED BY <1>2, FS_Subset, FS_CardinalityType

\* A week has seven days, one for each bit of the mask.
LEMMA DaysInWeek ==
  ASSUME NEW A \in SUBSET Days, NEW w, NEW M \in SUBSET (0..6),
         \A d \in A : Week(d) = w => DayOfWeek(d) \in M
  PROVE  Cardinality({d \in A : Week(d) = w}) <= Cardinality(M)
<1> DEFINE S == {d \in A : Week(d) = w}
           f == [d \in S |-> DayOfWeek(d)]
<1>1. f \in [S -> M]
  OBVIOUS
<1>2. ASSUME NEW c \in S, NEW d \in S, f[c] = f[d] PROVE c = d
  <2>1. c \in Nat /\ d \in Nat /\ c \div 7 = d \div 7 /\ c % 7 = d % 7
    BY <1>2 DEF Days, Week, DayOfWeek
  <2>2. c = 7 * (c \div 7) + (c % 7) /\ d = 7 * (d \div 7) + (d % 7)
    BY <2>1
  <2> QED BY <2>1, <2>2
<1>3. f \in Injection(S, M)
  BY <1>1, <1>2 DEF Injection, IsInjective
<1>4. IsFiniteSet(M)
  BY MaskFinite
<1> HIDE DEF f
<1> QED BY <1>3, <1>4, FS_Injection

\* The days attended are no fewer than the bits that they have set.
LEMMA DaysMarked ==
  ASSUME NEW A \in SUBSET Days, NEW w, NEW M \in SUBSET (0..6),
         \A b \in M : \E d \in A : Week(d) = w /\ DayOfWeek(d) = b
  PROVE  /\ Cardinality({d \in A : Week(d) = w}) \in Nat
         /\ Cardinality(M) <= Cardinality({d \in A : Week(d) = w})
<1> DEFINE S == {d \in A : Week(d) = w}
           f == [b \in M |-> CHOOSE d \in S : DayOfWeek(d) = b]
<1>1. \A b \in M : f[b] \in S /\ DayOfWeek(f[b]) = b
  OBVIOUS
<1>2. f \in Injection(M, S)
  <2>1. f \in [M -> S]
    BY <1>1
  <2>2. \A a, b \in M : f[a] = f[b] => a = b
    BY <1>1
  <2> QED BY <2>1, <2>2 DEF Injection, IsInjective
<1>3. IsFiniteSet(S)
  <2>1. S \in SUBSET (0 .. Horizon - 1)
    BY DEF Days
  <2>2. 0 \in Int /\ Horizon - 1 \in Int
    BY UnitsAssumption
  <2> QED BY <2>1, <2>2, FS_Interval, FS_Subset
<1> HIDE DEF f
<1> QED BY <1>2, <1>3, FS_Injection, FS_CardinalityType

\* Five days set by hand are five days.
LEMMA DaysByHand ==
  ASSUME NEW M \in SUBSET (0..6), 0..4 \subseteq M
  PROVE  5 <= Cardinality(M)
<1>1. IsFiniteSet(M)
  BY MaskFinite
<1>2. Cardinality(0..4) = 5
  <2>1. 0 \in Int /\ 4 \in Int /\ ~(0 > 4) /\ 4 - 0 + 1 = 5
    OBVIOUS
  <2>2. Cardinality(0..4) = IF 0 > 4 THEN 0 ELSE 4 - 0 + 1
    BY ONLY <2>1, FS_Interval
  <2> QED BY <2>1, <2>2
<1>3. Cardinality(0..4) <= Cardinality(M)
  BY <1>1, FS_Subset
<1> QED BY <1>2, <1>3

\* What an evaluated save leaves: the bits of this week are days attended.
LEMMA MaskEarnedHere ==
  ASSUME TypeOK, MaskEarned, CheckIn(Found(row)), pressed.set[Week(Today)] = 0
  PROVE  \A b \in Mask(Found(row)) :
           \E d \in attended' : Week(d) = Week(Today) /\ DayOfWeek(d) = b
<1> DEFINE r == Found(row)
<1>1. attended' = attended \cup {Today}
  BY DEF CheckIn
<1>2. CASE Missing(row)
  <2>1. r.weekly_login_mask = {}
    BY <1>2 DEF Found, NewRow
  <2> QED BY <1>1, <2>1 DEF Mask
<1>3. CASE ~Missing(row)
  <2>1. r = row
    BY <1>3 DEF Found
  <2> QED BY <1>1, <2>1 DEF Mask, MaskEarned
<1> QED BY <1>2, <1>3

\* Every step keeps it, if every week has one ID of its own.
LEMMA NextMaskEarned ==
  ASSUME FaithfulWeeks, TypeOK, Recorded, MaskEarned, [Next]_vars
  PROVE  MaskEarned'
<1>d. /\ Today \in Days /\ attended \subseteq Days /\ Week(Today) \in Weeks
      /\ \A d \in Days : WeekId(d) \in Int /\ Week(d) \in Weeks
  BY CalendarTypes DEF TypeOK
<1>1. CASE CheckIn(Found(row)) /\ DailyDue(Found(row))
  <2>1. /\ UNCHANGED <<Today, pressed>> /\ Today \in attended'
        /\ row'.weekly_login_mask = Mask(Found(row)) /\ row'.current_week_id = WeekId(Today)
    BY <1>1 DEF CheckIn
  <2> QED BY <1>1, <2>1, MaskEarnedHere DEF MaskEarned
<1>2. CASE CheckIn(Found(row)) /\ ~DailyDue(Found(row))
  <2>1. Found(row) = row /\ ~Missing(row)
    BY <1>2, NotDue
  <2>2. /\ UNCHANGED <<Today, pressed, row.weekly_login_mask, row.current_week_id>>
        /\ attended \subseteq attended'
    BY <1>2, <2>1 DEF CheckIn
  <2> QED BY <2>1, <2>2 DEF MaskEarned
<1>3. CASE UNCHANGED OnRecord /\ Today' \in Days /\ Today <= Today'
  <2>1. CASE Week(Today)' = Week(Today)
    <3>1. WeekId(Today)' = WeekId(Today)
      BY <1>d, <1>3, <2>1 DEF FaithfulWeeks
    <3> QED BY <1>3, <2>1, <3>1 DEF OnRecord, MaskEarned, Missing
  <2>2. CASE Week(Today)' # Week(Today)
    <3>1. row.current_week_id # WeekId(Today)'
      <4>1. CASE Missing(row)
        <5>1. WeekId(Today)' \in Int
          BY <1>d, <1>3
        <5> QED BY <4>1, <5>1, NullAssumption DEF Missing
      <4>2. CASE ~Missing(row)
        <5>1. PICK d \in attended : row.current_week_id = WeekId(d)
          BY <4>2 DEF MaskEarned
        <5>2. d \in Days /\ d <= Today
          BY <1>d, <5>1 DEF Recorded
        <5>3. Week(d) # Week(Today)'
          BY <1>d, <1>3, <2>2, <5>2, EarlierWeek
        <5> QED BY <1>3, <5>1, <5>2, <5>3 DEF FaithfulWeeks
      <4> QED BY <4>1, <4>2
    <3> QED BY <1>3, <3>1 DEF OnRecord, MaskEarned, Missing
  <2> QED BY <2>1, <2>2
<1>4. CASE UNCHANGED <<OnRecord, Today>>
  BY <1>4 DEF OnRecord, MaskEarned, Missing
<1>5. CASE testResetDaily
  BY <1>5, ResetDaily DEF MaskEarned
<1>6. CASE testSetWeekly
  <2>1. ~(pressed'.set[Week(Today)] = 0)
    <3>1. pressed.set[Week(Today)] \in Nat
      BY <1>d DEF TypeOK
    <3> QED BY <1>d, <1>6, <3>1, SetWeekly
  <2> QED BY <1>6, <2>1, SetWeekly DEF MaskEarned
<1> QED BY <1>1, <1>2, <1>3, <1>4, <1>5, <1>6, StepKinds

\* The row that an evaluated save leaves has the bits of all days attended this
\* week, or enough of them set by hand.
LEMMA MaskedHere ==
  ASSUME TypeOK, Recorded, Masked, CheckIn(Found(row)), NEW d \in attended', Week(d) = Week(Today)
  PROVE  LET M == Mask(Found(row)) IN DayOfWeek(d) \in M \/ (0..4 \subseteq M /\ Required <= 5)
<1>1. CASE d = Today
  BY <1>1 DEF Mask
<1>2. CASE d # Today
  <2>1. d \in attended
    BY <1>2 DEF CheckIn
  <2>2. Found(row) = row
    BY <2>1 DEF Recorded, Found
  <2> QED BY <2>1, <2>2 DEF Masked, SetByHand, Mask
<1> QED BY <1>1, <1>2

\* What counts towards a week is enough for it.
LEMMA MaskSuffices ==
  ASSUME TypeOK, Recorded, Masked, CheckIn(Found(row)),
         Cardinality(AttendedIn(Week(Today))') >= Required
  PROVE  Cardinality(Mask(Found(row))) >= Required
<1> DEFINE M == Mask(Found(row))
           A == AttendedIn(Week(Today))'
<1>1. M \in SUBSET (0..6) /\ Cardinality(M) \in Nat /\ Required \in Nat
  BY FoundTypes, CalendarTypes, MaskFinite, UnitsAssumption DEF Mask, Row, TypeOK
<1>2. attended' \in SUBSET Days /\ Today' = Today
  BY DEF CheckIn, TypeOK
<1>3. A = {d \in attended' : Week(d) = Week(Today)}
  BY <1>2 DEF AttendedIn
<1>4. CASE 0..4 \subseteq M /\ Required <= 5
  BY <1>1, <1>4, DaysByHand
<1>5. CASE ~(0..4 \subseteq M /\ Required <= 5)
  <2>1. \A d \in attended' : Week(d) = Week(Today) => DayOfWeek(d) \in M
    BY <1>5, MaskedHere
  <2>2. Cardinality(A) <= Cardinality(M)
    BY <1>1, <1>2, <1>3, <2>1, DaysInWeek
  <2>3. Cardinality(A) \in Nat
    <3>1. A \in SUBSET (0 .. Horizon - 1)
      BY <1>2, <1>3 DEF Days
    <3>2. 0 \in Int /\ Horizon - 1 \in Int
      BY UnitsAssumption
    <3> QED BY <3>1, <3>2, FS_Interval, FS_Subset, FS_CardinalityType
  <2> QED BY <1>1, <2>2, <2>3
<1> QED BY <1>4, <1>5

\* Whoever attends on the required days of a week is paid, and nobody else but by
\* the test button, whatever the settings were before, if every week has one ID of
\* its own (setup_playtime_airdrops.sql:426-467, index.template.html:207).
THEOREM AttendancePaid == FaithfulWeeks /\ Attainable /\ Spec => WeeklyEarned
<1> DEFINE Inv == TypeOK /\ Recorded /\ ClaimKnown /\ Masked /\ ClaimPaid /\ MaskEarned
           Served == \A d \in attended' \ attended :
                       settings.weekly /\ Cardinality(AttendedIn(Week(d))') >= Required
                         => rewards'.weekly[Week(d)] > 0
           Earned == \A w \in Weeks : rewards'.weekly[w] > rewards.weekly[w] =>
                       /\ settings.weekly
                       /\ Cardinality(AttendedIn(w)') >= Required \/ pressed.set[w] > 0
<1>1. Init => Inv
  <2> SUFFICES ASSUME Init PROVE ClaimKnown /\ Masked /\ ClaimPaid /\ MaskEarned
    BY InitTypes, InitRecorded
  <2> QED BY DEF Init, NoRow, ClaimKnown, Masked, ClaimPaid, MaskEarned, Missing
<1>2. ASSUME FaithfulWeeks, Attainable PROVE Inv /\ [Next]_vars => Inv' /\ Served /\ Earned
  <2> SUFFICES ASSUME Inv, [Next]_vars PROVE Masked' /\ ClaimPaid' /\ Served /\ Earned
    BY <1>2, NextTypes, NextRecorded, NextClaimKnown, NextMaskEarned
  <2>d. /\ Today \in Days /\ Days \subseteq Int /\ attended \subseteq Days /\ Null \notin Days
        /\ \A d \in Days : Week(d) \in Weeks
    BY CalendarTypes, NullAssumption DEF TypeOK, Days
  <2>n. \A w \in Weeks : rewards.weekly[w] \in Nat /\ rewards'.weekly[w] \in Nat /\ pressed.set[w] \in Nat
    BY NextTypes DEF TypeOK
  <2>u. UNCHANGED <<rewards.weekly, attended>> => Served /\ Earned
    BY <2>n
  <2>1. CASE CheckIn(Found(row)) /\ DailyDue(Found(row))
    <3> DEFINE r == Found(row)
    <3>1. /\ UNCHANGED Today /\ attended' = attended \cup {Today}
          /\ row'.weekly_login_mask = Mask(r) /\ row'.current_week_id = WeekId(Today)
          /\ row'.last_weekly_claimed_at = IF WeeklyDue(r) THEN Today ELSE row.last_weekly_claimed_at
          /\ \A w \in Weeks : rewards'.weekly[w] =
               IF w = Week(Today) /\ WeeklyDue(r) THEN rewards.weekly[w] + 1 ELSE rewards.weekly[w]
      BY <2>1, FoundClaim DEF CheckIn
    <3>2. Mask(r) \in SUBSET (0..6)
      BY <2>d, FoundTypes, CalendarTypes DEF Mask, Row
    <3>3. Masked'
      BY <2>1, <3>1, MaskedHere DEF Masked, SetByHand
    <3>4. \A w \in Weeks : rewards.weekly[w] > 0 => rewards'.weekly[w] > 0
      BY <2>n, <3>1
    <3>5. WeeklyDue(r) => rewards'.weekly[Week(Today)] > 0
      <4>1. rewards.weekly[Week(Today)] \in Nat
        BY <2>d, <2>n
      <4> QED BY <2>d, <3>1, <4>1
    <3>6. ClaimPaid'
      BY <2>d, <3>1, <3>4, <3>5 DEF ClaimPaid, ClaimKnown
    <3>7. Served
      <4> SUFFICES ASSUME settings.weekly, Cardinality(AttendedIn(Week(Today))') >= Required
                   PROVE  rewards'.weekly[Week(Today)] > 0
        BY <3>1
      <4>1. Cardinality(Mask(r)) >= Required
        BY <2>1, MaskSuffices
      <4>2. CASE ~WeeklyDue(r)
        <5>1. row.last_weekly_claimed_at # Null
              /\ WeekId(row.last_weekly_claimed_at) = WeekId(Today)
          BY <4>1, <4>2, FoundClaim DEF WeeklyDue
        <5>2. Week(row.last_weekly_claimed_at) = Week(Today)
          BY <1>2, <2>d, <5>1 DEF FaithfulWeeks, ClaimKnown
        <5> QED BY <2>d, <3>4, <5>1, <5>2 DEF ClaimPaid
      <4> QED BY <3>5, <4>2
    <3>8. Earned
      <4>1. ASSUME NEW w \in Weeks, rewards'.weekly[w] > rewards.weekly[w]
            PROVE  w = Week(Today) /\ WeeklyDue(r)
        BY <2>n, <3>1, <4>1
      <4>2. ASSUME WeeklyDue(r), pressed.set[Week(Today)] = 0
            PROVE  Cardinality(AttendedIn(Week(Today))') >= Required
        <5>1. \A b \in Mask(r) : \E d \in attended' : Week(d) = Week(Today) /\ DayOfWeek(d) = b
          BY <2>1, <4>2, MaskEarnedHere
        <5>2. attended' \in SUBSET Days
              /\ AttendedIn(Week(Today))' = {d \in attended' : Week(d) = Week(Today)}
          BY <2>d, <3>1 DEF AttendedIn
        <5>3. /\ Cardinality(AttendedIn(Week(Today))') \in Nat
              /\ Cardinality(Mask(r)) <= Cardinality(AttendedIn(Week(Today))')
          BY <3>2, <5>1, <5>2, DaysMarked
        <5>4. Cardinality(Mask(r)) >= Required /\ Cardinality(Mask(r)) \in Nat /\ Required \in Nat
          BY <3>2, <4>2, MaskFinite, UnitsAssumption DEF WeeklyDue
        <5> QED BY <5>3, <5>4
      <4>3. pressed.set[Week(Today)] \in Nat
        BY <2>d, <2>n
      <4>4. Cardinality(AttendedIn(Week(Today))') >= Required \/ pressed.set[Week(Today)] > 0
            \/ ~WeeklyDue(r)
        BY <4>2, <4>3
      <4>5. ASSUME NEW w \in Weeks, w = Week(Today)
            PROVE  AttendedIn(w)' = AttendedIn(Week(Today))'
        BY <3>1, <4>5 DEF AttendedIn
      <4> QED BY <4>1, <4>4, <4>5 DEF WeeklyDue
    <3> QED BY <3>3, <3>6, <3>7, <3>8
  <2>2. CASE CheckIn(Found(row)) /\ ~DailyDue(Found(row))
    <3>1. /\ Found(row) = row /\ Today \in attended
      BY <2>2, NotDue
    <3>2. /\ UNCHANGED <<Today, attended, row.weekly_login_mask, row.current_week_id>>
          /\ row'.last_weekly_claimed_at = row.last_weekly_claimed_at
          /\ \A w \in Weeks : rewards'.weekly[w] = rewards.weekly[w]
      BY <2>2, <3>1 DEF CheckIn
    <3>3. Served /\ Earned
      BY <2>n, <3>2
    <3> QED BY <2>d, <3>2, <3>3 DEF Masked, SetByHand, ClaimPaid, ClaimKnown
  <2>3. CASE UNCHANGED OnRecord /\ Today' \in Days /\ Today <= Today'
    <3>1. ClaimPaid' /\ Served /\ Earned
      BY <2>u, <2>3 DEF OnRecord, ClaimPaid
    <3>2. CASE Week(Today)' = Week(Today)
      <4>1. WeekId(Today)' = WeekId(Today)
        BY <1>2, <2>d, <2>3, <3>2 DEF FaithfulWeeks
      <4> QED BY <2>3, <3>1, <3>2, <4>1 DEF OnRecord, Masked, SetByHand
    <3>3. CASE Week(Today)' # Week(Today)
      <4>1. \A d \in attended : Week(d) # Week(Today)'
        BY <2>d, <2>3, <3>3, EarlierWeek DEF Recorded
      <4> QED BY <2>3, <3>1, <4>1 DEF OnRecord, Masked
    <3> QED BY <3>2, <3>3
  <2>4. CASE UNCHANGED <<OnRecord, Today>>
    BY <2>u, <2>4 DEF OnRecord, Masked, SetByHand, ClaimPaid
  <2>5. CASE testResetDaily
    BY <2>u, <2>5, ResetDaily DEF Masked, SetByHand, ClaimPaid
  <2>6. CASE testSetWeekly
    <3>1. Required <= 5
      BY <1>2, <2>6, SetWeekly DEF Attainable, TypeOK
    <3> QED BY <2>u, <2>6, <3>1, SetWeekly DEF Masked, SetByHand, ClaimPaid
  <2> QED BY <2>1, <2>2, <2>3, <2>4, <2>5, <2>6, StepKinds
<1> HIDE DEF Inv
<1>3. ASSUME FaithfulWeeks, Attainable PROVE Inv /\ [Next]_vars => Inv' /\ [Served /\ Earned]_vars
  BY <1>2, <1>3
<1>4. ASSUME FaithfulWeeks, Attainable PROVE Spec => WeeklyEarned
  BY <1>1, <1>3, <1>4, PTL DEF Spec, WeeklyEarned
<1> QED BY <1>4
=============================================================================
