\* A mapping after a restart.
SPECIFICATION SceneSpec
CONSTANTS
  Field = {"name"}
  Val = {"ann", "bob"}
  NoVal = NoVal
  NoKey = NoKey
  NoObj = NoObj
  MaxList = 0
  Stored <- NewDb
  Client <- AnyClient
INVARIANTS MappingsHaveNode
