CONSTANTS
  t1 = t1 t2 = t2
  f1 = f1 f2 = f2 f3 = f3
  k1 = k1 k2 = k2 k3 = k3
  NoFuture = NoFuture NoCont = NoCont
  Threads = {t1, t2}
  Workers = {t2}
  Futures = {f1, f2}
  Roots = {f1, f2}
  Conts = {k1, k2}
  Kind <- UserKind
  Source <- UserSource
  Derived <- UserDerived
  Forward <- UserForward
  Watched = {f1}
  Awaits <- UserAwaits
  MaxAttempts <- MCAttempts
SPECIFICATION Spec
INVARIANT ContinuationsNeverBlock
CHECK_DEADLOCK FALSE
