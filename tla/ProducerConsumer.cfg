CONSTANTS
  Producers = {p1, p2}
  Consumers = {c1, c2, c3}
  BUFFER_SIZE = 2
  ITEMS_PER_PRODUCER = 2
  NoThread = NoThread
SPECIFICATION FairSpec
INVARIANTS
  TypeOK
  Backlog
  ExactlyOnce
  NoLostWakeup
  AllAccounted
PROPERTIES
  ImplementsFifo
  Termination
