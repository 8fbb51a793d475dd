CONSTANTS
  t1 = t1 t2 = t2 t3 = t3 v1 = v1 v2 = v2
  NoValue = NoValue
  Threads = {t1, t2, t3}
  Values = {v1, v2}
  MaxPushes = 3
  FirstChunk = 2
SPECIFICATION Spec
SYMMETRY Perms
INVARIANTS
  NodesOwnedOnce
  ChunksPresent
PROPERTY
  ImplementsLifo
