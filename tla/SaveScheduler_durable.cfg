\* The last save of a shutdown and the scheduler's.
SPECIFICATION FairSpec
CONSTANTS
  Writer = {main}
  Main = main
  MaxDeltaWrites = 1
  MaxVersion = 4
  Fronts = {"shell"}
  AsJson = FALSE
  EarlyStart = FALSE
  Nobody = Nobody
CHECK_DEADLOCK FALSE
INVARIANTS ShutdownDurable
