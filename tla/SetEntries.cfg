CONSTANTS
  Receivers <- MCReceivers
  Arity <- FnArity
  MaxCalls = 2
  CallNative <- MCCallNative
  GoOn <- MCGoOn
  Same <- MCSame
  Made <- MCMade
SPECIFICATION Spec
INVARIANT
  SetsHoldElements
CHECK_DEADLOCK FALSE
