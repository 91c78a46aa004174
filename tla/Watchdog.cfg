SPECIFICATION WatchdogFairSpec
CONSTANTS
  ltc = ltc
  wd = wd
  dep = dep
  Child <- MCChild
  Enabled <- MCChild
  Worker <- MCWorker
  ChildOf <- MCChildOf
  Early <- MCEarly
  Resilient = {wd}
  Threaded = {wd}
  Unwatched = {dep}
  STALE = 2
  REPEAT = 2
  BOOT = 1
  MaxSessions = 2
  Proc <- MCProc
INVARIANTS
  WatchdogTypeOK
  SilenceShows
  OrphansEnd
PROPERTIES
  NoKillWithoutRaces
  SilentChildIsReported
CHECK_DEADLOCK FALSE
