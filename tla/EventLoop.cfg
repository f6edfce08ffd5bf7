CONSTANTS
  t1 = t1
  t2 = t2
  f1 = f1
  wfd = wfd
  tfd = tfd
  Threads <- MCThreads
  Fds <- MCFds
  WakeFd <- wfd
  TimerFd <- tfd
  MaxPosts = 2
  MaxHandlers = 2
SPECIFICATION FairSpec
INVARIANTS
  TypeOK
  MirrorExact
  InterestFresh
  NoHandlerLeftBehind
  TasksDistinct
  OnlyDrainSwallowsWakeup
PROPERTIES FifoSpec PostedTaskRuns StopEndsLoop
CHECK_DEADLOCK FALSE
