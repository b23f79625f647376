\* Two mappings of up to two pages, two threads, three pages of memory.
SPECIFICATION Spec
CONSTANTS
  Threads = {t1, t2}
  Pages = {p1, p2, p3}
  Null = Null
  Stale = Stale
  MaxMappings = 2
  MaxPages = 2
INVARIANTS
  ReferencesCounted
  TracerOutlivesUse
  MappedPagesHeld
  ArrayMirrorsTable
  CountersBound
  NothingLost
SYMMETRY Symmetry
