\* Four days, two of each of two weeks: sessions, idling, settings, a crash, a test button.
SPECIFICATION Spec
CONSTANTS
  Null = Null
  Day = 3
  Throttle = 2
  Cap = 4
  Interval = 5
  MaxStreak = 2
  Required = 2
  Settings <- Switched
  NewYear = 100
  LastWeek = 53
  Horizon = 9
  Start = 17
  MaxCrashes = 1
  MaxSaves = 1
  MaxConsole = 1
INVARIANTS
  TypeOK
  PlaytimeBacked
  DailyOnce
  WeeklyOnce
  StreakMatches
PROPERTIES
  DailyPaid
  WeeklyEarned
