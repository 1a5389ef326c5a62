\* Row and field commands against a server: two fields, one written in place.
SPECIFICATION Spec
CONSTANTS
  Field = {name, age}
  Val = {ann}
  Key = {k1, k2}
  Written = {age}
  NoVal = NoVal
  NoKey = NoKey
  NoReply = NoReply
  Interactive = FALSE
SYMMETRY Symmetry
INVARIANTS TypeOK LiveIndexExact DiskIndexExact ReplyExact
