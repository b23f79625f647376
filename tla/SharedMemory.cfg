\* Two leaders and two followers, started and killed at any time.
SPECIFICATION FairSpec
CONSTANTS
  Memories = {"ordered", "weak"}
  Leaders = {l1, l2}
  Followers = {f1, f2}
  Regions = {1, 2}
  shared_mem_size = 2
INVARIANT
  WholeArray
PROPERTY
  HandOver
\* Processes end, and some wait for ever for one that was killed.
CHECK_DEADLOCK FALSE
