CONSTANTS
  main = main w1 = w1 NoThread = NoThread
  Main = main
  Workers = {w1}
  Depths = {1}
  MaxStops = 2
  MaxRequests = 1
  Waits = {}
SPECIFICATION FairSpec
INVARIANTS
  FrameIdsLive
  ReadsOwnFrames
  CallbacksEnd
PROPERTIES
  EventOrder
  ShutdownReleases
  RequestAnswered
CHECK_DEADLOCK FALSE
