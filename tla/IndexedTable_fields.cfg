\* Commands that write inside a row: the index of the container goes stale.
SPECIFICATION Spec
CONSTANTS
  Field = {name}
  Val = {ann, bob}
  Key = {k1, k2}
  Written = {name}
  NoVal = NoVal
  NoKey = NoKey
  NoReply = NoReply
  Interactive = FALSE
SYMMETRY Symmetry
INVARIANTS EveryIndexExact
