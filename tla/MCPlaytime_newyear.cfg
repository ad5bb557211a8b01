\* The turn of the year falls within a week.
SPECIFICATION Spec
CONSTANTS
  Null = Null
  Day = 1
  Throttle = 1
  Cap = 1
  Interval = 1
  MaxStreak = 3
  Required = 5
  Settings <- AllEnabled
  NewYear = 3
  LastWeek = 53
  Start = 0
  Horizon = 7
  MaxCrashes = 0
  MaxSaves = 0
  MaxConsole = 0
PROPERTIES
  WeeklyEarned
