CONSTANTS
  k1 = k1 k2 = k2
  Main = Main NoTask = NoTask
  Workers = {w1, w2, w3}
  Tasks = {k1, k2}
  Needs <- MCNeeds
  baseWorkers = 1
  kMaxWorkers = 3
  kSpinRounds = 1
SPECIFICATION FairSpec
PROPERTY TasksRunAlways
CHECK_DEADLOCK FALSE
