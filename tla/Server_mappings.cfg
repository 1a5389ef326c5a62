\* A mapping is created while a client sets what it matches.
SPECIFICATION SerialSpec
CONSTANTS
  Field = {"name"}
  Val = {"ann"}
  NoVal = NoVal
  NoKey = NoKey
  NoObj = NoObj
  Nobody = Nobody
  Idle = Idle
  MaxList = 0
  MaxThreads = 2
  Client <- Commands
  Mute = {}
  Stored <- NewDb
  Sends <- Pair
CHECK_DEADLOCK FALSE
INVARIANTS MapperThere
