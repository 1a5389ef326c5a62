\* Three clients of one server at the same time, one of which may not read.
SPECIFICATION MCSpec
CONSTANTS
  Field = {"name"}
  Val = {"ann"}
  NoVal = NoVal
  NoKey = NoKey
  NoObj = NoObj
  Nobody = Nobody
  Idle = Idle
  MaxList = 0
  MaxThreads = 4
  Client <- Commands
  Mute = {"looker"}
  Stored <- NewDb
  Sends <- Threes
CHECK_DEADLOCK FALSE
INVARIANTS IndexedTogether PointersHold LogTells
PROPERTIES UnderLock OneByOne Answered
