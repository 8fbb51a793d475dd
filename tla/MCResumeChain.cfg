CONSTANTS
  Units <- ChainUnits
  Load <- Loaded
  Collect <- MCCollect
  CollectOn <- MCCollectOn
  Meaning <- SourceMeaning
SPECIFICATION Spec
INVARIANT RunsAsWritten
CHECK_DEADLOCK FALSE
