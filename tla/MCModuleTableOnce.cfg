CONSTANTS
  t1 = t1 t2 = t2 A = A B = B C = C D = D
  NoThread = NoThread
  Threads = {t1, t2}
  Modules = {A, B, C, D}
  Imports <- MCImports
  MaxImports = 1
SPECIFICATION Spec
INVARIANT LoadedOnce
CHECK_DEADLOCK FALSE
