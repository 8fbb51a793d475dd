CONSTANTS
  main = main w1 = w1 NoThread = NoThread
  Main = main
  Workers = {w1}
  Depths = {1}
  MaxStops = 1
  MaxRequests = 1
  Waits = {w1}
SPECIFICATION ClientSpec
PROPERTIES
  RequestAnswered
CHECK_DEADLOCK FALSE
