CONSTANTS
  Systems = {"chat"}
  Programs = {"fork", "thread", "restart", "eintr"}
  Costs <- MCCosts
  MaxInputs = 3
  MaxBeats = 2
  Workers = {w1, w2}
  NumTasks = 2
  TasksPerWorker = 2
  MaxRuns = 3
  Channels = {"exercise4", "lecture13"}
  NumItems = 3
  Games = {"sigusr3", "tag", "fight"}
  Limit = 3
  HitPoints = 3
  MaxDamage = 2
  NumConns = 3
  Names = {n1}
  MAX_CLIENTS = 2
  MaxLines = 2
SPECIFICATION Spec
INVARIANT WatchedAreOpen
