\* Clients that stay inside users: the database implements IndexedTable.
SPECIFICATION TableSpec
CONSTANTS
  Field = {"name"}
  Val = {"ann", "bob"}
  NoVal = NoVal
  NoKey = NoKey
  NoObj = NoObj
  RowKey = {"k", "l"}
  Written = {"name"}
  MaxList = 2
  Stored <- UsersDb
  Client <- TableClient
PROPERTIES ImplementsTable
