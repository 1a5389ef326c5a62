\* Saves, ends and starts of a server with --as-json and --log-commands.
SPECIFICATION MCSpec
CONSTANTS
  Field = {"name"}
  Val = {"ann", "annNUL"}
  NoVal = NoVal
  NoKey = NoKey
  NoObj = NoObj
  NoFile = NoFile
  MaxList = 1
  AsJson = TRUE
  Cuts = {0, 6}
  Stored = {}
  Spelled <- Spellings
  Files <- AnyFile
  Client <- StorageClient
CHECK_DEADLOCK FALSE
INVARIANTS LineExact JsonTells
PROPERTIES RestartExact ForeignKept
