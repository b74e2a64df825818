CONSTANTS
  Programs = {"philo2"}
  numPhilosophers = 5
  Permits = 4
  Free = Free
SPECIFICATION Spec
INVARIANT NoCircularWait
CHECK_DEADLOCK FALSE
