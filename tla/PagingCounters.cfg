\* One mapping of two pages, split and closed.
SPECIFICATION Spec
CONSTANTS
  Threads = {t1}
  Pages = {p1, p2}
  Null = Null
  Stale = Stale
  MaxMappings = 1
  MaxPages = 2
INVARIANT
  CountersAgreeAtExit
