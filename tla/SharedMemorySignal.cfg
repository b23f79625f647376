\* One leader, one follower, started as the studio says.
SPECIFICATION FairSpec
CONSTANTS
  Memories = {"ordered"}
  Leaders = {l1}
  Followers = {f1}
  Regions = {1}
  shared_mem_size = 1
PROPERTY
  NotificationArrives
CHECK_DEADLOCK FALSE
