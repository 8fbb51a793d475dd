CONSTANTS
  k1 = k1 k2 = k2
  Main = Main NoTask = NoTask
  Workers = {w1, w2}
  Tasks = {k1, k2}
  Needs <- MCNeeds
  baseWorkers = 1
  kMaxWorkers = 3
  kSpinRounds = 2
SPECIFICATION FairSpec
INVARIANTS
  NoUnderflow
  NeverStarved
  AllJoined
  DrainedAtShutdown
PROPERTIES
  TasksRun
  ShutdownReturns
CHECK_DEADLOCK FALSE
