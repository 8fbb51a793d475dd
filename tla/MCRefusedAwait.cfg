CONSTANTS
  a1 = a1 a2 = a2 w1 = w1 w2 = w2 c1 = c1 m1 = m1 m2 = m2 m3 = m3 f1 = f1 f2 = f2
  NoActor = NoActor NoMsg = NoMsg NoFuture = NoFuture
  Actors = {a1}
  Workers = {w1}
  Clients = {c1}
  Msgs = {m1, m2, m3}
  Futures = {f2}
  ReplyTo <- MCReplyTo
  SendBands = {0, 2}
  MaxWaits = 1
  kBatchSize = 2
SPECIFICATION Spec
INVARIANT RefusedIsNotParked
