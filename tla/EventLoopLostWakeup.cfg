CONSTANTS
  t1 = t1
  t2 = t2
  f1 = f1
  wfd = wfd
  tfd = tfd
  Threads <- MCOneThread
  Fds <- MCFds
  WakeFd <- wfd
  TimerFd <- tfd
  MaxPosts = 2
  MaxHandlers = 3
SPECIFICATION Spec
INVARIANT NoLostWakeup
CHECK_DEADLOCK FALSE
