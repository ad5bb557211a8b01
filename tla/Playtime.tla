------------------------------ MODULE Playtime ------------------------------
(***************************************************************************)
(* How one character earns rewards: the trigger on the game's player rows  *)
(* counts active playtime, and on the first counted save of a day it pays  *)
(* the daily and, once per week, the attendance reward.  Characters share  *)
(* nothing but the settings, and the trigger runs inside the statement     *)
(* that saves the player, so one character is enough and each save is one  *)
(* step.  An error in the trigger rolls all its effects back: a stutter.   *)
(***************************************************************************)
EXTENDS Integers, FiniteSets

CONSTANTS
  Null,        \* SQL NULL
  Day,         \* clock units in a day
  Throttle,    \* units within which a save is not evaluated again
  Cap,         \* units from which on a gap is not playtime
  Interval,    \* setting: active units for a playtime reward
  MaxStreak,   \* setting: longest streak that counts
  Required,    \* setting: days of attendance for the weekly reward
  Settings,    \* which rewards are enabled: the choices of the administrator
  NewYear,     \* the day that is 1 January; day 0 is a Tuesday
  LastWeek,    \* number of the last ISO week of the old year
  Start,       \* bound: when the character is first seen
  Horizon,     \* bound: days
  MaxCrashes,  \* bound: server crashes
  MaxSaves,    \* bound: saves of the settings
  MaxConsole   \* bound: uses of the console's test buttons

ASSUME NullAssumption == Null \notin Int
ASSUME UnitsAssumption ==
  /\ {Day, Throttle, Cap, Interval, MaxStreak, Horizon} \subseteq Nat \ {0}
  /\ {Required, NewYear, LastWeek, MaxCrashes, MaxSaves, MaxConsole} \subseteq Nat
ASSUME StartAssumption == Start \in Nat /\ Start \div Day \in 0 .. Horizon - 1
ASSUME SettingsAssumption ==
  Settings # {} /\ Settings \subseteq [playtime : BOOLEAN, daily : BOOLEAN, weekly : BOOLEAN]

VARIABLES
  now,       \* the clock
  playing,   \* whether the character is in the game
  away,      \* whether place or XP differ enough from what the row recorded
  row,       \* the character's row of active_playtime
  settings,  \* the enabled rewards
  rewards,   \* reward rolls queued: playtime, daily per day, weekly per week
  played,    \* history: units the character was in the game
  attended,  \* history: days with an evaluated save in the game
  pressed,   \* history: test buttons: daily resets per day, weekly sets per week
  crashes,   \* crashes so far
  saves,     \* saves of the settings so far
  consoles   \* uses of the test buttons so far

vars == <<now, playing, away, row, settings, rewards, played, attended, pressed,
          crashes, saves, consoles>>

counters == <<crashes, saves, consoles>>

-----------------------------------------------------------------------------
(* Calendar *)

Days == 0 .. Horizon - 1
Weeks == 0 .. (Horizon - 1) \div 7

Today == now \div Day

\* A bug: the days of the week are counted from one.
WrongDayOfWeek(d) == (d % 7) + 1

\* The Coriolis week begins on Tuesday; 0 = Tuesday.
Week(d) == d \div 7
DayOfWeek(d) == d % 7

\* EXTRACT(YEAR FROM d - 1 day) and EXTRACT(WEEK FROM d - 1 day).  The day
\* before the Tuesday d is the Monday of the ISO week, and an ISO week belongs
\* to the year of its Thursday.
YearOf(d) == IF d - 1 < NewYear THEN 2026 ELSE 2027
FirstWeek == (NewYear + 4) \div 7
IsoWeekOf(d) == IF Week(d) >= FirstWeek THEN Week(d) - FirstWeek + 1
                ELSE LastWeek - (FirstWeek - 1 - Week(d))
WeekId(d) == YearOf(d) * 100 + IsoWeekOf(d)

-----------------------------------------------------------------------------
(* The row *)

NoRow == [active_seconds |-> 0, last_active_at |-> Null, last_login_date |-> Null,
          consecutive_days |-> 0, weekly_login_mask |-> {}, current_week_id |-> Null,
          last_weekly_claimed_at |-> Null]

\* What fn_check_daily_weekly_rewards_v2 inserts, with the column defaults.
NewRow == [active_seconds |-> 0, last_active_at |-> now, last_login_date |-> Today - 1,
           consecutive_days |-> 0, weekly_login_mask |-> {}, current_week_id |-> WeekId(Today),
           last_weekly_claimed_at |-> Null]

\* A row has a week, and the trigger always finds one.
Missing(r) == r.current_week_id = Null

Found(r) == IF Missing(r) THEN NewRow ELSE r

Init ==
  /\ now = Start
  /\ playing = FALSE
  /\ away \in BOOLEAN
  /\ row = NoRow
  /\ settings \in Settings
  /\ rewards = [playtime |-> 0, daily |-> [d \in Days |-> 0], weekly |-> [w \in Weeks |-> 0]]
  /\ played = 0
  /\ attended = {}
  /\ pressed = [reset |-> [d \in Days |-> 0], set |-> [w \in Weeks |-> 0]]
  /\ crashes = 0
  /\ saves = 0
  /\ consoles = 0

-----------------------------------------------------------------------------
(* Daily and weekly rewards: fn_check_daily_weekly_rewards_v2 *)

\* A bug: the date of the last reward is not excluded.
LaxDailyDue(r) == r.last_login_date = Null \/ r.last_login_date <= Today

\* A bug: yesterday's reward still counts.
StrictDailyDue(r) == r.last_login_date = Null \/ r.last_login_date < Today - 1

DailyDue(r) == r.last_login_date = Null \/ r.last_login_date < Today

Least(m, n) == IF m < n THEN m ELSE n

\* A bug: a gap does not end the streak.
WrongStreak(r) == Least(MaxStreak, r.consecutive_days + 1)

Streak(r) ==
  IF r.last_login_date = Today - 1 THEN Least(MaxStreak, r.consecutive_days + 1) ELSE 1

\* A bug: the days of an earlier week still count.
WrongMask(r) == {DayOfWeek(Today)} \cup r.weekly_login_mask

Mask(r) ==
  {DayOfWeek(Today)} \cup (IF r.current_week_id = WeekId(Today) THEN r.weekly_login_mask ELSE {})

\* A bug: the last claim is not looked at.
LaxWeeklyDue(r) == settings.weekly /\ Cardinality(Mask(r)) >= Required

WeeklyDue(r) ==
  /\ settings.weekly
  /\ Cardinality(Mask(r)) >= Required
  /\ r.last_weekly_claimed_at = Null \/ WeekId(r.last_weekly_claimed_at) # WeekId(Today)

\* The row after the daily block.
CheckedIn(r) ==
  IF DailyDue(r)
  THEN [r EXCEPT !.last_login_date = Today, !.consecutive_days = Streak(r),
                 !.weekly_login_mask = Mask(r), !.current_week_id = WeekId(Today),
                 !.last_weekly_claimed_at = IF WeeklyDue(r) THEN Today ELSE @]
  ELSE r

-----------------------------------------------------------------------------
(* Playtime: trg_track_playtime_v2 *)

Throttled(r) == r.last_active_at # Null /\ now - r.last_active_at < Throttle

Elapsed(r) == now - r.last_active_at

\* The seconds since the last save count if the gap is short and the
\* character was not idle.
Counted(r) == /\ r.last_active_at # Null
              /\ Elapsed(r) > 0 /\ Elapsed(r) < Cap
              /\ away

Accumulated(r) == IF Counted(r) THEN r.active_seconds + Elapsed(r) ELSE r.active_seconds

PlaytimeDue(r) == settings.playtime /\ Counted(r) /\ Accumulated(r) >= Interval

Tracked(r) == [r EXCEPT !.active_seconds = IF PlaytimeDue(r) THEN 0 ELSE Accumulated(r),
                        !.last_active_at = now]

Count(b) == IF b THEN 1 ELSE 0

\* The rolls that one evaluated save queues.
DailyQueued(r) ==
  [rewards.daily EXCEPT ![Today] = @ + Count(settings.daily /\ DailyDue(r))]
WeeklyQueued(r) ==
  [rewards.weekly EXCEPT ![Week(Today)] = @ + Count(DailyDue(r) /\ WeeklyDue(r))]
PlaytimeQueued(r) == rewards.playtime + Count(PlaytimeDue(r))

\* The trigger on a save with the status online.
trackOnline ==
  LET r == Found(row) IN
  IF Throttled(row)
  THEN UNCHANGED <<away, row, rewards, attended>>
  ELSE /\ row' = Tracked(CheckedIn(r))
       /\ rewards' = [playtime |-> PlaytimeQueued(r), daily |-> DailyQueued(r),
                      weekly |-> WeeklyQueued(r)]
       /\ away' = (away /\ ~Counted(r))
       /\ attended' = attended \cup {Today}

\* A bug: the last activity survives a logout.
WrongTrackOffline == UNCHANGED <<away, row, rewards, attended>>

\* The trigger on a save with any other status.
trackOffline ==
  /\ row' = IF Missing(row) THEN row ELSE [row EXCEPT !.last_active_at = Null]
  /\ UNCHANGED <<away, rewards, attended>>

-----------------------------------------------------------------------------
(* The game *)

\* The character enters the game, or is saved there.
SaveOnline ==
  /\ playing' = TRUE
  /\ trackOnline
  /\ UNCHANGED <<now, settings, played, pressed, counters>>

\* The character leaves the game, or its absence is noticed later.
SaveOffline ==
  /\ playing' = FALSE
  /\ trackOffline
  /\ UNCHANGED <<now, settings, played, pressed, counters>>

\* The server goes down without saving the character's status.
Crash ==
  /\ playing
  /\ crashes < MaxCrashes
  /\ crashes' = crashes + 1
  /\ playing' = FALSE
  /\ UNCHANGED <<now, away, row, settings, rewards, played, attended, pressed, saves, consoles>>

\* The character moves or gains XP, or comes back to where it was.
Move ==
  /\ playing
  /\ away' = ~away
  /\ UNCHANGED <<now, playing, row, settings, rewards, played, attended, pressed,
                 counters>>

Advance ==
  /\ (now + 1) \div Day \in Days
  /\ now' = now + 1
  /\ played' = played + Count(playing)
  /\ UNCHANGED <<playing, away, row, settings, rewards, attended, pressed, counters>>

-----------------------------------------------------------------------------
(* The console *)

handleSaveAllSettings ==
  /\ saves < MaxSaves
  /\ saves' = saves + 1
  /\ settings' \in Settings
  /\ UNCHANGED <<now, playing, away, row, rewards, played, attended, pressed,
                 crashes, consoles>>

Press(change) ==
  /\ ~Missing(row)
  /\ consoles < MaxConsole
  /\ consoles' = consoles + 1
  /\ row' = change
  /\ UNCHANGED <<now, playing, away, settings, rewards, played, attended, crashes, saves>>

testResetDaily ==
  /\ Press([row EXCEPT !.last_login_date = Null, !.consecutive_days = 0])
  /\ pressed' = [pressed EXCEPT !.reset[Today] = @ + 1]

\* 31 is five days from Tuesday on.
testSetWeekly ==
  /\ Press([row EXCEPT !.weekly_login_mask = 0..4, !.last_weekly_claimed_at = Null])
  /\ pressed' = [pressed EXCEPT !.set[Week(Today)] = @ + 1]

-----------------------------------------------------------------------------

Next == \/ SaveOnline \/ SaveOffline \/ Crash \/ Move \/ Advance
        \/ handleSaveAllSettings \/ testResetDaily \/ testSetWeekly

Spec == Init /\ [][Next]_vars

-----------------------------------------------------------------------------
(* Properties *)

Row == [active_seconds : Nat, last_active_at : Nat \cup {Null},
        last_login_date : Int \cup {Null}, consecutive_days : Nat,
        weekly_login_mask : SUBSET (0..6), current_week_id : Int \cup {Null},
        last_weekly_claimed_at : Nat \cup {Null}]

\* Every variable holds what its column or its environment can hold.
TypeOK ==
  /\ now \in Nat /\ Today \in Days
  /\ {playing, away} \subseteq BOOLEAN
  /\ row \in Row
  /\ settings \in Settings
  /\ rewards \in [playtime : Nat, daily : [Days -> Nat], weekly : [Weeks -> Nat]]
  /\ attended \subseteq Days
  /\ pressed \in [reset : [Days -> Nat], set : [Weeks -> Nat]]
  /\ {played, crashes, saves, consoles} \subseteq Nat

\* Playtime that was rewarded or is still being counted was spent in the game:
\* logging out and back in, idling and long gaps add nothing, and a crash of
\* the server adds less than Cap.
PlaytimeBacked ==
  Interval * rewards.playtime + row.active_seconds <= played + crashes * (Cap - 1)

\* The daily reward is queued once on each day of attendance, and again only
\* after the streak has been reset on that day.
DailyOnce ==
  \A d \in Days : rewards.daily[d] <= 1 + pressed.reset[d]

\* No day of attendance goes unpaid whose daily reward is enabled when it
\* begins, whatever was missed, reset or disabled before, and nothing is paid
\* without attendance or while it is disabled.
DailyPaid ==
  [][\A d \in Days :
       LET paid == rewards'.daily[d] > rewards.daily[d] IN
         /\ d \in attended' \ attended /\ settings.daily => paid
         /\ paid => d \in attended' /\ settings.daily]_vars

\* The weekly reward is queued once in a Coriolis week, and again only after
\* the attendance was set by hand: "we haven't already claimed weekly
\* attendance this week" (setup_playtime_airdrops.sql:452).
WeeklyOnce ==
  \A w \in Weeks : rewards.weekly[w] <= 1 + pressed.set[w]

\* The days of attendance in week w.
AttendedIn(w) == {d \in attended : Week(d) = w}

\* Whoever attends on the required days of a Coriolis week is rewarded, on the
\* next of these days if the reward was disabled before, and nobody else is but
\* by the test button: "Required Days (Out of 7)" (index.template.html:207).
WeeklyEarned ==
  [][/\ \A d \in attended' \ attended :
          settings.weekly /\ Cardinality(AttendedIn(Week(d))') >= Required
            => rewards'.weekly[Week(d)] > 0
     /\ \A w \in Weeks : rewards'.weekly[w] > rewards.weekly[w] =>
          /\ settings.weekly
          /\ Cardinality(AttendedIn(w)') >= Required \/ pressed.set[w] > 0]_vars

\* The days d - n + 1 .. d are days of attendance.
InARow(n, d) == \A i \in 0 .. n - 1 : d - i \in attended

\* While nobody resets it, the streak is the number of consecutive days of
\* attendance up to the last one, as far as MaxStreak counts them.
StreakMatches ==
  (row.last_login_date # Null /\ \A d \in Days : pressed.reset[d] = 0) =>
    LET n == row.consecutive_days IN
      /\ n > 0 /\ n <= MaxStreak
      /\ InARow(n, row.last_login_date)
      /\ n < MaxStreak => ~InARow(n + 1, row.last_login_date)
=============================================================================
