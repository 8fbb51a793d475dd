CONSTANTS
  Receivers <- MCReceivers
  Arity <- FnArity
  MaxCalls = 2
  CallNative <- MCCallNative
  GoOn <- MCGoOn
  Same <- MCSame
  Made <- MCMade
SPECIFICATION Spec
INVARIANTS
  LoopsAsDefined
  SameAsList
  KeyedAsDefined
CHECK_DEADLOCK FALSE
