CONSTANTS
  Units <- MCUnits
  Load <- Loaded
  Collect <- MCCollect
  CollectOn <- MCCollectOn
  Meaning <- SourceMeaning
SPECIFICATION Spec
INVARIANTS RunsAsWritten StackAsCompiled
PROPERTY Terminates
CHECK_DEADLOCK FALSE
