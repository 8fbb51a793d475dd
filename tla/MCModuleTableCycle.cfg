CONSTANTS
  t1 = t1 t2 = t2 A = A B = B C = C D = D
  NoThread = NoThread
  Threads = {t1, t2}
  Modules = {A, B}
  Imports <- MCCycle
  MaxImports = 1
SPECIFICATION FairSpec
PROPERTY ImportsEnd
CHECK_DEADLOCK FALSE
