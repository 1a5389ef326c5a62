\* The scheduler's thread reads isAlive before it is initialized.
SPECIFICATION FairSpec
CONSTANTS
  Writer = {main, c1, c2}
  Main = main
  MaxDeltaWrites = 1
  MaxVersion = 4
  Fronts = {"server"}
  AsJson = FALSE
  EarlyStart = TRUE
  Nobody = Nobody
CHECK_DEADLOCK FALSE
PROPERTIES SaveAtLimit
