\* Two threads are enough for the sleep lock to sleep for ever.
SPECIFICATION FairSpec
CONSTANTS
  Threads = {t1, t2}
PROPERTY
  SleepLockServesAll
CHECK_DEADLOCK FALSE
