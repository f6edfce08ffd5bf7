CONSTANTS
  l1 = l1
  u1 = u1
  u2 = u2
  once = once
  often = often
  Loops <- OneLoop
  Users <- TwoUsers
  TimerEvents <- TwoEvents
  Repeated <- Repeating
  Interval <- Intervals
  OverdueDelay = 1
  LastCall = 1
  MaxTime = 5
  Hurry = 2
SPECIFICATION FairSpec
INVARIANTS TypeOK NeverForgotten NotEarly OneShotOnce CancelledRunsAtMostOnceMore
PROPERTY EventuallyFires
CHECK_DEADLOCK FALSE
