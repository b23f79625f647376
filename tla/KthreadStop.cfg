\* The counter of studio10, two cores.
SPECIFICATION FairSpec
CONSTANTS
  Programs = {"race"}
  Cores = 2
  iters = 1
PROPERTY
  StopReturns
CHECK_DEADLOCK FALSE
