SPECIFICATION HostSpec
CONSTANTS
  MaxGeneration = 3
  MaxReferences = 3
  MaxCreates = 3
  Threads = {t1}
  QueueCapacity = 1
  NoHandle = none
  MaxPosts = 2
  MaxTemps = 2
INVARIANTS NothingLeaks
CHECK_DEADLOCK FALSE
