\* Every module, three cores, three increments.
SPECIFICATION FairSpec
CONSTANTS
  Programs = {"multiple", "single", "race", "atomic_race"}
  Cores = 3
  iters = 3
INVARIANTS
  TypeOK
  NothingLeft
  Totals
PROPERTIES
  SafeWhileLive
  KeepsMonitoring
  ExitReturns
\* A module without a timer may wait in kthread_stop for ever.
CHECK_DEADLOCK FALSE
