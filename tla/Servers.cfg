\* Three clients of the servers, with room for two.
SPECIFICATION FairSpec
CONSTANTS
  Apis = {"poll", "select", "epoll"}
  Clients = {c1, c2, c3}
  None = None
  backlog = 2
  MaxPending = 1
INVARIANTS
  WatchesWhatIsOpen
  ReadyAreCounted
  StuckOnlyAfterReset
PROPERTY
  LeaverIsDropped
\* The server ends, and when every client has left nobody need come.
CHECK_DEADLOCK FALSE
