CONSTANTS
  LastNight = 3
  HoursPerDay = 2
  MinutesPerHour = 720
  Hour = 1
  LeastMinutes = 2000
SPECIFICATION Spec
INVARIANTS DarkIsTold MarkersTellTheNight  VerdictTakesTwoNights
CHECK_DEADLOCK FALSE
