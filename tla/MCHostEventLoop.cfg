SPECIFICATION FairSpec
CONSTANTS
  Capacity = 2
  Continuous = {move, wake}
  Timers = {tick, once}
  Periodic = {tick}
  Plain = plain
  MaxPosts = 5
  NoValue = none
INVARIANTS TypeOK QueueIsSound SleeperIsSignalled
PROPERTIES SilentAfterCancel ImplementsChannel WaitsEnd
CHECK_DEADLOCK FALSE
