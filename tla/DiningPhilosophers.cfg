CONSTANTS
  NUM_PHILOSOPHERS = 5
  MEALS_PER_PHILOSOPHER = 2
  Free = Free
SPECIFICATION FairSpec
INVARIANTS
  TypeOK
  NoCircularWait
PROPERTIES
  NeighboursTakeTurns
  AllPhilosophersEat
