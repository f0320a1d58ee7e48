SPECIFICATION HostSpec
CONSTANTS
  MaxGeneration = 2
  MaxReferences = 3
  MaxCreates = 3
  Threads = {t1}
  QueueCapacity = 1
  NoHandle = none
  MaxPosts = 2
  MaxTemps = 2
INVARIANTS
  HostTypeOK HeldIsReferenced NestingRestored PumpIsSafe
  TableIsSound
CHECK_DEADLOCK FALSE
