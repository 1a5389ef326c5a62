\* A shell that ends, or a server with two clients which signals may end.
SPECIFICATION FairSpec
CONSTANTS
  Writer = {main, c1, c2}
  Main = main
  MaxDeltaWrites = 1
  MaxVersion = 2
  Fronts = {"shell", "server"}
  AsJson = TRUE
  EarlyStart = FALSE
  Nobody = Nobody
CHECK_DEADLOCK FALSE
INVARIANTS TypeOK NoWriteForgotten ZeroMeansSaved LossBounded JoinWakes
PROPERTIES SaveAtLimit SaveWhenDue ShutdownEnds SignalEnds
