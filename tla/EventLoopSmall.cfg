CONSTANTS
  Timers = 3
  Interval <- MCInterval
  TimerCost <- MCTimerCost
  Fd <- MCFd
  FdCost <- MCFdCost
  None = None
SPECIFICATION Spec
CHECK_DEADLOCK FALSE
INVARIANTS TypeOK CalledInTime
PROPERTIES NoBurst DescriptorsServed ImplementsDispatcher
