\* A benchmark that is told to multiply up to twice, compiled with VERIFY_PARALLEL.
SPECIFICATION Spec
CONSTANTS
  Threads = {"t1", "t2"}
  Sizes = {1, 2}
  sqrt_of_UINT32_MAX = 4
  Repeats = {1, 2}
INVARIANT
  IdenticalToSerial
\* The program ends.
CHECK_DEADLOCK FALSE
