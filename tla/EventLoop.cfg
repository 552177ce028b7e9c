CONSTANTS
  Promises = {p1}
  TimerSet = {t1, t2}
  Fds = {0}
  Ports = {w1}
  Signals = {sigint, s2}
  Sigint = sigint
  Activations = {a1, a2}
  MaxJobs = 1
  MaxSources = 3
  Programs = {{p1, t1, t2, 0, w1}, {p1, t1, s2}, {sigint, s2}}
  Interactive = FALSE
SPECIFICATION FairSpec
INVARIANTS TypeOK JobsFirst TrackedAreUnhandled ReportedIffUnhandled EndsWhenIdle SignalsKept
PROPERTIES EventsServed
CHECK_DEADLOCK FALSE
