SPECIFICATION FSpec
CONSTANTS
  Units <- MCUnits
  Source <- Written
  Parse <- ParseText
INVARIANTS ReadsBack WellNested
CHECK_DEADLOCK FALSE
