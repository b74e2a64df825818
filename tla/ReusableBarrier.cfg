CONSTANTS
  Workers = {w1, w2, w3, w4}
  NUM_PHASES = 3
  NoThread = NoThread
SPECIFICATION FairSpec
INVARIANTS
  TypeOK
  PhaseSeparation
PROPERTIES
  OpensWhenComplete
  ImplementsBarrier
  EveryoneReleased
  Termination
