\* A day of 48 half hours: night, day from 10 to 46, night again.
SPECIFICATION AlgorithmsSpec
CONSTANTS
  DayLength = 48
  DayStart = 10
  DayEnd = 46
  FreeDay = 4
  FreeNight = 3
  DayBlock = 4
  NightBlock = 3
  DayFee = 1
  NightFee = 2
  DailyFee = 34
  Deduction = 1
  Offset = 0
  Entries = {0, 3, 8, 9, 10, 11, 20, 33, 42, 45, 46, 47}
  MaxStay = 110
INVARIANTS
  FeeFollowsSchedule
  BetterViewIsKept
CHECK_DEADLOCK FALSE
