\* A list of rows, a mapping over the rows of a dict, and both at three levels.
SPECIFICATION SceneSpec
CONSTANTS
  Field = {"name"}
  Val = {"ann", "bob"}
  NoVal = NoVal
  NoKey = NoKey
  NoObj = NoObj
  MaxList = 2
  Stored <- AnyDb
  Client <- AnyClient
INVARIANTS WellFormed IndexExact LookupExact ListingExact
PROPERTIES WritesTold
