------------------------------ MODULE KeyMapper ------------------------------
(***************************************************************************)
(* One KeyMapper (KeyMapper.hpp): for each field the container is indexed  *)
(* by, a map from the string a row holds in that field to the key of the   *)
(* row.  A mapper is a value here; every operator returns the mapper that  *)
(* the C++ member function leaves behind.                                  *)
(*                                                                         *)
(* A row is what a mapper can see of an object: the string it holds in     *)
(* each field, NoVal where the field is absent or is not a string.  An     *)
(* object that is not a dict has no fields, so it is NoFields.             *)
(***************************************************************************)
CONSTANTS Field,   \* names of fields an index may be built on
          Val,     \* strings a row may hold in a field
          NoVal,   \* "no string here"
          NoKey    \* the empty string returned for a failed lookup

ASSUME KeyMapperAssumption == NoVal \notin Val

Row == [Field -> Val \cup {NoVal}]
NoFields == [f \in Field |-> NoVal]

(* keyIndices: the fields that have an index, and for each field and value *)
(* the key emplaced there (NoKey where the C++ map has no such entry).     *)
Mapper(Key) == [indices : SUBSET Field,
                key     : [Field -> [Val -> Key \cup {NoKey}]]]

EmptyMapper == [indices |-> {}, key |-> [f \in Field |-> [v \in Val |-> NoKey]]]

HasIndex(m, f) == f \in m.indices

Get(m, f, v) == m.key[f][v]

(* The indexed fields in which the row holds a string. *)
Hooked(m, row) == {f \in m.indices : row[f] # NoVal}

(* Fields whose emplace finds the value taken by another key: registerVal  *)
(* throws "Index is not one to one!" at the first one it visits.           *)
Clashes(m, row, k) == {f \in Hooked(m, row) : m.key[f][row[f]] \notin {NoKey, k}}

(* The mapper after the entries of the fields F have been emplaced. *)
WithEntries(m, row, k, F) ==
  [m EXCEPT !.key = [f \in Field |-> [v \in Val |->
      IF f \in F /\ row[f] = v THEN k ELSE m.key[f][v]]]]

(* registerVal without a clash emplaces every hooked field. *)
Register(m, row, k) == WithEntries(m, row, k, Hooked(m, row))

(* registerVal that throws has emplaced the fields it visited before the   *)
(* clash: keyIndices is an unordered_map, so any of the clash-free ones.   *)
RegisterThrows(m, row, k) ==
  {WithEntries(m, row, k, F) : F \in SUBSET (Hooked(m, row) \ Clashes(m, row, k))}

(* Mutated form of Unregister: the old value is never unregistered. *)
KeepEntries(m, row) == m

(* unregisterVal erases by value and never looks at the key it was given. *)
Unregister(m, row) ==
  [m EXCEPT !.key = [f \in Field |-> [v \in Val |->
      IF f \in Hooked(m, row) /\ row[f] = v THEN NoKey ELSE m.key[f][v]]]]

(* The keys of a container's rows that hold v in field f. *)
Holders(rows, f, v) == {k \in DOMAIN rows : rows[k][f] = v}

OneToOne(rows, f) ==
  \A k, l \in DOMAIN rows :
     rows[k][f] = rows[l][f] /\ rows[k][f] # NoVal => k = l

(* createIndex scans the rows; emplace keeps the first key it meets.  It   *)
(* throws at the second holder of a value, leaving the index half built:   *)
(* that value has its first holder, any other is missing or has a holder.  *)
WithIndex(m, f, index) ==
  [indices |-> m.indices \cup {f},
   key     |-> [m.key EXCEPT ![f] = index]]

CreateIndex(m, f, rows) ==
  WithIndex(m, f, [v \in Val |-> IF Holders(rows, f, v) = {} THEN NoKey
                                 ELSE CHOOSE k \in Holders(rows, f, v) : TRUE])

CreateIndexThrows(m, f, rows) ==
  {WithIndex(m, f, index) :
     index \in {i \in [Val -> {NoKey} \cup DOMAIN rows] :
                  /\ \A v \in Val : i[v] # NoKey => i[v] \in Holders(rows, f, v)
                  /\ \E v \in Val : i[v] # NoKey /\ Holders(rows, f, v) # {i[v]}}}
==============================================================================
