CONSTANTS
  t1 = t1 t2 = t2
  f1 = f1 f2 = f2 f3 = f3
  k1 = k1 k2 = k2 k3 = k3
  NoFuture = NoFuture NoCont = NoCont
  Threads = {t1, t2}
  Workers = {t2}
  Futures = {f1, f2, f3}
  Roots = {f1}
  Conts = {k1, k2, k3}
  Kind <- MCKind
  Source <- MCSource
  Derived <- MCDerived
  Forward <- MCForward
  Watched = {f3}
  Awaits <- MCAwaits
  MaxAttempts <- MCAttempts
SPECIFICATION FairSpec
INVARIANTS
  NoLostWake
  DerivedOutcomes
PROPERTIES
  ImplementsPromise
  AwaitReturns
  ContinuationsRun
CHECK_DEADLOCK FALSE
