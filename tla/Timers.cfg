SPECIFICATION TimersFairSpec
CONSTANTS
  Timeouts = {t1, t2}
  Intervals = {h1}
  Sleeps = {s1}
  Script = script
  Idle = idle
  MaxId = 4
  MaxDelay = 1
INVARIANTS ArmedIffListed IntervalKeepsGoing
PROPERTIES OldestDueFirst ExpiredTimersFire
CHECK_DEADLOCK FALSE
