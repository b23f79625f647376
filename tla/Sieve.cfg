\* Every program, small parameters, every interleaving.
SPECIFICATION FairSpec
CONSTANTS
  Programs = {"spinlock", "atomic", "sundrama_lock", "sundrama_atomic"}
  Parameters <- InsmodParameters
INVARIANTS
  TypeOK
  BarrierHolds
  FreeIsSafe
  ClaimsDistinct
  PrimesSurvive
  MissedOnlyIfDropped
  ExactWhenSequential
  NoCrossOutLost
PROPERTIES
  MeetsTwice
  Terminates
