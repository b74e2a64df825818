CONSTANTS
  Programs = {"philo1", "philo2", "philo3", "philo4", "philo5"}
  numPhilosophers = 4
  Permits = 3
  Free = Free
SPECIFICATION FairSpec
INVARIANTS
  TypeOK
  DeadlockNeedsSameOrder
PROPERTIES
  NeighboursTakeTurns
  NoStarvation
CHECK_DEADLOCK FALSE
