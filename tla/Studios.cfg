\* Each of the studios' programs, in a small instance of its own.
SPECIFICATION FairSpec
CONSTANTS
  \* A holder, one that releases, one that stores, one that sleeps.
  Team = {"t1", "t2", "t3", "t4"}
  Numbers = 3
  MaxPipe = 2
  PipePrograms = {"pipe", "pipes"}
  Lines = 3
  Clients = {"c1", "c2"}
  MaxConnections = 2
  backlog = 0
  size = 4
  MaxSignals = 3
  Writers = {"w1", "w2"}
  family <- SmallFamily
  \* Blocks of up to 8 pages, and sizes around every power of two up to there.
  MemoryPrograms = {"kernel_memory", "vfs"}
  MemorySizes = {0, 1, 2, 3, 4, 5, 8, 9, 13, 16, 17, 23}
  nr_structs_per_page = 2
  MAX_ORDER = 4
  \* 1 is a half: a number with a fraction.
  SortSizes = {0, 1, 2, 3}
  Values = {0, 1, 2, 4}
  \* An unsigned of 4 bits: 4 is the size whose square it cannot hold.
  Threads = {"t1", "t2"}
  MatrixSizes = {0, 1, 2, 4, 5}
  sqrt_of_UINT32_MAX = 4
  Repeats = {0, 1, 2}
INVARIANT
  Excludes
  SleepersAreKnown
  InOrder
  ReportIsRight
  Ancestry
  BlockSuffices
  Sorted
  SameNumbers
  ProductRight
PROPERTY
  ImplementsMutex
  SpinLockServesAll
  GoesOn
\* Programs end, oops, or wait for each other after a kill.
CHECK_DEADLOCK FALSE
