--------------------------- MODULE MCIndexedTable ---------------------------
(* Small instances of IndexedTable: rows and values are interchangeable.   *)
EXTENDS IndexedTable, TLC

Symmetry == Permutations(Key) \cup Permutations(Val)
=============================================================================
