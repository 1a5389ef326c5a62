------------------------- MODULE IndexedTableProofs -------------------------
(***************************************************************************)
(* For every set of keys, fields and values: a server keeps the index on a *)
(* field exact, in memory and in the file, as long as clients write that   *)
(* field only together with its row.                                       *)
(***************************************************************************)
EXTENDS IndexedTable, TLAPS

(* Shorthand for the values that Tables ranges over. *)
LEMMA TableType ==
  \A t : t \in Tables <=> /\ DOMAIN t \subseteq Key
                          /\ t \in [DOMAIN t -> Row]
BY DEF Tables

LEMMA EmptyMapperType == EmptyMapper \in Mapper(Key)
BY DEF EmptyMapper, Mapper

(* Putting and removing rows stays within the tables. *)
LEMMA PutType ==
  ASSUME NEW t \in Tables, NEW k \in Key, NEW r \in Row
  PROVE  Put(t, k, r) \in Tables
<1>1. DOMAIN Put(t, k, r) = DOMAIN t \cup {k}
  BY DEF Put
<1>2. Put(t, k, r) \in [DOMAIN t \cup {k} -> Row]
  BY TableType DEF Put
<1> QED BY <1>1, <1>2, TableType

LEMMA WithoutType ==
  ASSUME NEW t \in Tables, NEW k
  PROVE  Without(t, k) \in Tables
<1>1. DOMAIN Without(t, k) = DOMAIN t \ {k}
  BY DEF Without
<1>2. Without(t, k) \in [DOMAIN t \ {k} -> Row]
  BY TableType DEF Without
<1> QED BY <1>1, <1>2, TableType

LEMMA NoFieldsType == NoFields \in Row
BY DEF NoFields, Row

(* The operators of KeyMapper return mappers. *)
LEMMA WithEntriesType ==
  ASSUME NEW m \in Mapper(Key), NEW k \in Key, NEW r, NEW F
  PROVE  /\ WithEntries(m, r, k, F) \in Mapper(Key)
         /\ WithEntries(m, r, k, F).indices = m.indices
         /\ \A f \in Field, v \in Val :
              Get(WithEntries(m, r, k, F), f, v) =
                IF f \in F /\ r[f] = v THEN k ELSE Get(m, f, v)
BY DEF WithEntries, Mapper, Get

LEMMA UnregisterType ==
  ASSUME NEW m \in Mapper(Key), NEW r
  PROVE  /\ Unregister(m, r) \in Mapper(Key)
         /\ Unregister(m, r).indices = m.indices
         /\ \A f \in Field, v \in Val :
              Get(Unregister(m, r), f, v) =
                IF f \in Hooked(m, r) /\ r[f] = v THEN NoKey ELSE Get(m, f, v)
BY DEF Unregister, Mapper, Get

LEMMA WithIndexType ==
  ASSUME NEW m \in Mapper(Key), NEW f \in Field, NEW index \in [Val -> Key \cup {NoKey}]
  PROVE  /\ WithIndex(m, f, index) \in Mapper(Key)
         /\ WithIndex(m, f, index).indices = m.indices \cup {f}
         /\ \A g \in Field, v \in Val :
              Get(WithIndex(m, f, index), g, v) = IF g = f THEN index[v] ELSE Get(m, g, v)
BY DEF WithIndex, Mapper, Get

-----------------------------------------------------------------------------
(* Which rows hold a value after a row is put or removed. *)
LEMMA HoldersPut ==
  ASSUME NEW t \in Tables, NEW k \in Key, NEW r \in Row, NEW f, NEW v
  PROVE  Holders(Put(t, k, r), f, v) =
           (Holders(t, f, v) \ {k}) \cup (IF r[f] = v THEN {k} ELSE {})
BY DEF Holders, Put

LEMMA HoldersWithout ==
  ASSUME NEW t \in Tables, NEW k, NEW f, NEW v
  PROVE  Holders(Without(t, k), f, v) = Holders(t, f, v) \ {k}
BY DEF Holders, Without

(* Erasing by value is erasing by key when the index is exact: after       *)
(* unregisterVal of the row under k, the index describes the other rows.   *)
LEMMA UnregisterExact ==
  ASSUME NEW t \in Tables, NEW m \in Mapper(Key), NEW k \in Key, NEW old \in Row,
         old = (IF k \in DOMAIN t THEN t[k] ELSE NoFields),
         NEW f \in m.indices, Exact(t, m, f), NEW v \in Val
  PROVE  Holders(t, f, v) \ {k} = {Get(Unregister(m, old), f, v)} \ {NoKey}
<1>1. f \in Field /\ Holders(t, f, v) = {Get(m, f, v)} \ {NoKey}
  BY DEF Exact, Mapper
<1>2. CASE old[f] = v
  <2>1. k \in Holders(t, f, v)
    BY <1>1, <1>2, KeyMapperAssumption DEF Holders, NoFields
  <2>2. f \in Hooked(m, old)
    BY <1>2, KeyMapperAssumption DEF Hooked
  <2>3. Get(Unregister(m, old), f, v) = NoKey
    BY <1>1, <1>2, <2>2, UnregisterType
  <2> QED BY <1>1, <2>1, <2>3
<1>3. CASE old[f] # v
  <2>1. k \notin Holders(t, f, v)
    BY <1>3 DEF Holders
  <2>2. Get(Unregister(m, old), f, v) = Get(m, f, v)
    BY <1>1, <1>3, UnregisterType
  <2> QED BY <1>1, <2>1, <2>2
<1> QED BY <1>2, <1>3

(* Registering a row whose values clash with nothing keeps the index exact. *)
LEMMA AssignExact ==
  ASSUME NEW t \in Tables, NEW m \in Mapper(Key), NEW k \in Key, NEW r \in Row,
         NEW old \in Row, old = (IF k \in DOMAIN t THEN t[k] ELSE NoFields),
         NEW f, Exact(t, m, f),
         Clashes(Unregister(m, old), r, k) = {}
  PROVE  Exact(Put(t, k, r), Register(Unregister(m, old), r, k), f)
<1> DEFINE e == Unregister(m, old)
           n == Register(e, r, k)
<1>1. e \in Mapper(Key) /\ e.indices = m.indices
  BY UnregisterType
<1>2. n = WithEntries(e, r, k, Hooked(e, r))
  BY DEF Register
<1>3. n.indices = m.indices
  BY <1>1, <1>2, WithEntriesType
<1>4. SUFFICES ASSUME f \in m.indices, NEW v \in Val
               PROVE  Holders(Put(t, k, r), f, v) = {Get(n, f, v)} \ {NoKey}
  BY <1>3 DEF Exact
<1>5. f \in Field
  BY <1>4 DEF Mapper
<1>6. Holders(t, f, v) \ {k} = {Get(e, f, v)} \ {NoKey}
  BY <1>4, UnregisterExact
<1>7. CASE r[f] = v
  <2>1. f \in Hooked(e, r)
    BY <1>1, <1>4, <1>7, KeyMapperAssumption DEF Hooked
  <2>2. Get(n, f, v) = k
    BY <1>1, <1>2, <1>5, <1>7, <2>1, WithEntriesType
  <2>3. Get(e, f, v) \in {NoKey, k}
    BY <1>7, <2>1 DEF Clashes, Get
  <2> QED BY <1>6, <1>7, <2>2, <2>3, HoldersPut, TableAssumption
<1>8. CASE r[f] # v
  <2>1. Get(n, f, v) = Get(e, f, v)
    BY <1>1, <1>2, <1>5, <1>8, WithEntriesType
  <2> QED BY <1>6, <1>8, <2>1, HoldersPut
<1> QED BY <1>7, <1>8

(* Deleting a row keeps the index exact. *)
LEMMA EraseExact ==
  ASSUME NEW t \in Tables, NEW m \in Mapper(Key), NEW k \in DOMAIN t,
         NEW f, Exact(t, m, f)
  PROVE  Exact(Without(t, k), Unregister(m, t[k]), f)
<1>1. k \in Key /\ t[k] \in Row
  BY TableType
<1>2. Unregister(m, t[k]).indices = m.indices
  BY UnregisterType
<1>3. SUFFICES ASSUME f \in m.indices, NEW v \in Val
               PROVE  Holders(Without(t, k), f, v) = {Get(Unregister(m, t[k]), f, v)} \ {NoKey}
  BY <1>2 DEF Exact
<1>4. Holders(t, f, v) \ {k} = {Get(Unregister(m, t[k]), f, v)} \ {NoKey}
  BY <1>1, <1>3, UnregisterExact
<1> QED BY <1>4, HoldersWithout

(* An index built by a scan in which no value has two holders is exact,    *)
(* and building it leaves the others alone.                                *)
LEMMA CreateIndexExact ==
  ASSUME NEW t \in Tables, NEW m \in Mapper(Key), NEW g \in Field, OneToOne(t, g)
  PROVE  /\ CreateIndex(m, g, t) \in Mapper(Key)
         /\ \A f : f = g \/ Exact(t, m, f) => Exact(t, CreateIndex(m, g, t), f)
<1> DEFINE index == [v \in Val |-> IF Holders(t, g, v) = {} THEN NoKey
                                   ELSE CHOOSE k \in Holders(t, g, v) : TRUE]
           n == WithIndex(m, g, index)
<1>1. \A v \in Val : Holders(t, g, v) \subseteq Key
  BY TableType DEF Holders
<1>2. index \in [Val -> Key \cup {NoKey}]
  BY <1>1
<1>3. /\ n \in Mapper(Key)
      /\ n.indices = m.indices \cup {g}
      /\ \A f \in Field, v \in Val : Get(n, f, v) = IF f = g THEN index[v] ELSE Get(m, f, v)
  BY <1>2, WithIndexType
<1>4. \A v \in Val : Holders(t, g, v) = {index[v]} \ {NoKey}
  <2> TAKE v \in Val
  <2>1. CASE Holders(t, g, v) = {}
    BY <2>1
  <2>2. CASE Holders(t, g, v) # {}
    <3>1. index[v] \in Holders(t, g, v)
      BY <2>2
    <3>2. \A k, l \in Holders(t, g, v) : k = l
      BY KeyMapperAssumption DEF Holders, OneToOne
    <3> QED BY <1>1, <3>1, <3>2, TableAssumption
  <2> QED BY <2>1, <2>2
<1>5. ASSUME NEW f, f = g \/ Exact(t, m, f)
      PROVE  Exact(t, n, f)
  <2> SUFFICES ASSUME f \in n.indices, NEW v \in Val
               PROVE  Holders(t, f, v) = {Get(n, f, v)} \ {NoKey}
    BY DEF Exact
  <2>1. CASE f = g
    BY <1>3, <1>4, <2>1
  <2>2. CASE f # g
    <3>1. f \in m.indices /\ f \in Field
      BY <1>3, <2>2 DEF Mapper
    <3> QED BY <1>3, <1>5, <2>2, <3>1 DEF Exact
  <2> QED BY <2>1, <2>2
<1> QED BY <1>3, <1>5 DEF CreateIndex

-----------------------------------------------------------------------------
(* What an index build that throws leaves is still a mapper. *)
LEMMA CreateIndexThrowsType ==
  ASSUME NEW t \in Tables, NEW m \in Mapper(Key), NEW f \in Field
  PROVE  CreateIndexThrows(m, f, t) \subseteq Mapper(Key)
<1> SUFFICES ASSUME NEW n \in CreateIndexThrows(m, f, t)
             PROVE  n \in Mapper(Key)
  OBVIOUS
<1>1. PICK index \in [Val -> {NoKey} \cup DOMAIN t] : n = WithIndex(m, f, index)
  BY DEF CreateIndexThrows
<1>2. index \in [Val -> Key \cup {NoKey}]
  BY TableType
<1> QED BY <1>1, <1>2, WithIndexType

(* A command through a field starts from a mapper that has its index. *)
LEMMA IndexedType ==
  ASSUME TypeOK, NEW f \in Field, IndexReady(f)
  PROVE  /\ Indexed(f) \in Mapper(Key)
         /\ f \in Indexed(f).indices
         /\ \A v \in Val : Resolve(f, v) \in Key \cup {NoKey}
         /\ \A g : Exact(rows, mapper, g) => Exact(rows, Indexed(f), g)
<1>1. CASE HasIndex(mapper, f)
  BY <1>1 DEF TypeOK, Indexed, Resolve, HasIndex, Mapper, Get
<1>2. CASE ~HasIndex(mapper, f)
  <2>1. OneToOne(rows, f) /\ Indexed(f) = CreateIndex(mapper, f, rows)
    BY <1>2 DEF IndexReady, Indexed
  <2>2. f \in Indexed(f).indices
    BY <2>1 DEF CreateIndex, WithIndex
  <2>3. Indexed(f) \in Mapper(Key)
    BY <2>1, CreateIndexExact DEF TypeOK
  <2>4. \A v \in Val : Resolve(f, v) \in Key \cup {NoKey}
    BY <2>3 DEF Resolve, Get, Mapper
  <2> QED BY <2>1, <2>2, <2>3, <2>4, CreateIndexExact DEF TypeOK
<1> QED BY <1>1, <1>2

LEMMA RowAtType ==
  ASSUME TypeOK, NEW k
  PROVE  RowAt(k) \in Row
BY NoFieldsType, TableType DEF TypeOK, RowAt

(* The two ways RukoDb changes a row, on any mapper, keep the types. *)
LEMMA CrashType ==
  ASSUME TypeOK, Crash
  PROVE  TypeOK'
BY DEF TypeOK, Crash

LEMMA AssignType ==
  ASSUME TypeOK, NEW m \in Mapper(Key), NEW k \in Key, NEW r \in Row, Assign(m, k, r)
  PROVE  TypeOK'
<1>1. CASE Crash
  BY <1>1, CrashType
<1>2. CASE ~Crash
  <2> DEFINE erased == Unregister(m, RowAt(k))
  <2>1. /\ rows' = Put(rows, k, r)
        /\ mapper' \in {Register(erased, r, k)} \cup RegisterThrows(erased, r, k)
        /\ reply' = NoReply
        /\ UNCHANGED <<phantom, status, disk>>
    BY <1>2 DEF Assign, Throw
  <2>2. rows' \in Tables
    BY <2>1, PutType DEF TypeOK
  <2>3. erased \in Mapper(Key)
    BY UnregisterType
  <2>4. mapper' \in Mapper(Key)
    BY <2>1, <2>3, WithEntriesType DEF Register, RegisterThrows
  <2> QED BY <2>1, <2>2, <2>4 DEF TypeOK
<1> QED BY <1>1, <1>2

LEMMA EraseType ==
  ASSUME TypeOK, NEW m \in Mapper(Key), NEW k, Erase(m, k)
  PROVE  TypeOK'
BY WithoutType, UnregisterType DEF Erase, TypeOK

(* The variables of every reachable state, in server and shell alike, have *)
(* the types the code gives them.                                          *)
THEOREM TableTyping == Spec => []TypeOK
<1>1. Init => TypeOK
  <2>1. NoRows \in Tables
    BY TableType DEF NoRows
  <2>2. [rows |-> NoRows, mapper |-> EmptyMapper] \in [rows : Tables, mapper : Mapper(Key)]
    BY <2>1, EmptyMapperType
  <2> SUFFICES ASSUME Init
               PROVE  TypeOK
    OBVIOUS
  <2>3. rows \in Tables /\ mapper \in Mapper(Key) /\ disk \in [rows : Tables, mapper : Mapper(Key)]
    BY <2>1, <2>2, EmptyMapperType DEF Init
  <2>4. phantom \in BOOLEAN /\ status \in {"up", "down"} /\ reply = NoReply
    BY DEF Init
  <2> QED BY <2>3, <2>4, Zenon DEF TypeOK
<1>2. TypeOK /\ [Next]_vars => TypeOK'
  <2> SUFFICES ASSUME TypeOK, [Next]_vars
               PROVE  TypeOK'
    OBVIOUS
  <2> USE DEF TypeOK
  <2>1. CASE \E k \in Key, r \in Row : SetRow(k, r)
    BY <2>1, AssignType DEF SetRow
  <2>2. CASE \E k \in Key : DelRow(k)
    BY <2>2, EraseType DEF DelRow
  <2>3. ASSUME NEW f \in Field, NEW v \in Val, GetBy(f, v)
        PROVE  TypeOK'
    BY <2>3, IndexedType, RowAtType DEF GetBy
  <2>4. ASSUME NEW f \in Field, NEW v \in Val, DelBy(f, v)
        PROVE  TypeOK'
    BY <2>4, IndexedType, EraseType DEF DelBy
  <2>5. ASSUME NEW f \in Field, NEW v \in Val, NEW r \in Row, SetBy(f, v, r)
        PROVE  TypeOK'
    BY <2>5, IndexedType, AssignType DEF SetBy
  <2>6. ASSUME NEW f \in Field, IndexThrows(f)
        PROVE  TypeOK'
    BY <2>6, CreateIndexThrowsType, CrashType DEF IndexThrows, Throw
  <2>7. CASE \E t \in Tables : Replace(t)
    BY <2>7, EmptyMapperType, CrashType DEF Replace
  <2>8. ASSUME NEW k \in Key, NEW f \in Written, NEW v \in Val \cup {NoVal}, SetField(k, f, v)
        PROVE  TypeOK'
    <3>1. [RowAt(k) EXCEPT ![f] = v] \in Row
      BY RowAtType, TableAssumption DEF Row
    <3> QED BY <2>8, <3>1, PutType DEF SetField
  <2>9. ASSUME NEW k \in Key, NEW f \in Written, DelField(k, f)
        PROVE  TypeOK'
    <3>1. k \in DOMAIN rows => [rows[k] EXCEPT ![f] = NoVal] \in Row
      BY TableType, TableAssumption DEF Row
    <3> QED BY <2>9, <3>1, PutType, CrashType DEF DelField
  <2>10. CASE Other
    BY <2>10 DEF Other
  <2>11. CASE Save
    BY <2>11, CrashType DEF Save
  <2>12. CASE Kill
    BY <2>12, CrashType DEF Kill
  <2>13. CASE Restart
    BY <2>13 DEF Restart
  <2>14. CASE UNCHANGED vars
    BY <2>14 DEF vars
  <2> QED BY <2>1, <2>2, <2>3, <2>4, <2>5, <2>6, <2>7, <2>8, <2>9, <2>10, <2>11, <2>12, <2>13, <2>14 DEF Next
<1> QED BY <1>1, <1>2, PTL DEF Spec

-----------------------------------------------------------------------------
(* Writing another field of a row in place moves no holder of f. *)
LEMMA FieldWriteExact ==
  ASSUME TypeOK, NEW k \in Key, NEW g \in Field, NEW v \in Val \cup {NoVal},
         NEW f \in Field, f # g, Exact(rows, mapper, f)
  PROVE  Exact(Put(rows, k, [RowAt(k) EXCEPT ![g] = v]), mapper, f)
<1> DEFINE r == [RowAt(k) EXCEPT ![g] = v]
<1>1. r \in Row /\ r[f] = RowAt(k)[f]
  BY RowAtType DEF Row
<1>2. ASSUME NEW w \in Val
      PROVE  Holders(Put(rows, k, r), f, w) = Holders(rows, f, w)
  <2>1. r[f] = w <=> k \in Holders(rows, f, w)
    BY <1>1, KeyMapperAssumption DEF RowAt, NoFields, Holders
  <2>2. rows \in Tables
    BY DEF TypeOK
  <2> HIDE DEF r
  <2>3. Holders(Put(rows, k, r), f, w) =
          (Holders(rows, f, w) \ {k}) \cup (IF r[f] = w THEN {k} ELSE {})
    BY <1>1, <2>2, HoldersPut
  <2> QED BY <2>1, <2>3
<1> QED BY <1>2 DEF Exact

(* An exact index finds the one row that holds a value, or none. *)
LEMMA ResolveExact ==
  ASSUME TypeOK, NEW f \in Field, NEW v \in Val, IndexReady(f), Exact(rows, Indexed(f), f)
  PROVE  Holders(rows, f, v) = {Resolve(f, v)} \ {NoKey}
BY IndexedType DEF Exact, Resolve

(* A container with no index, or none but of other fields, is exact. *)
LEMMA EmptyExact ==
  ASSUME NEW t, NEW f
  PROVE  Exact(t, EmptyMapper, f)
BY DEF Exact, EmptyMapper

(* One row assigned or removed through a mapper that is exact on f. *)
LEMMA AssignStepExact ==
  ASSUME ~Interactive, TypeOK, NEW m \in Mapper(Key), NEW k \in Key, NEW r \in Row,
         Assign(m, k, r), status' = "up", NEW f, Exact(rows, m, f)
  PROVE  Exact(rows', mapper', f)
<1>1. ~Crash
  BY DEF Crash
<1>2. Clashes(Unregister(m, RowAt(k)), r, k) = {}
  BY <1>1 DEF Assign, Throw
<1>3. rows' = Put(rows, k, r) /\ mapper' = Register(Unregister(m, RowAt(k)), r, k)
  BY <1>2 DEF Assign
<1>4. RowAt(k) \in Row
  BY RowAtType
<1> QED BY <1>2, <1>3, <1>4, AssignExact DEF RowAt, TypeOK

LEMMA EraseStepExact ==
  ASSUME TypeOK, NEW m \in Mapper(Key), NEW k, Erase(m, k), NEW f, Exact(rows, m, f)
  PROVE  Exact(rows', mapper', f)
BY EraseExact DEF Erase, TypeOK

(* In a server no exception is survived, so the index a reachable running  *)
(* state holds is never one that a failed registration left behind.  Hence *)
(* the index of every field written only with its row is exact in memory,  *)
(* is exact in the file, and answers GET as a scan would.  The three are   *)
(* proved together: the file is a copy of memory, and memory comes back    *)
(* from the file.                                                          *)
IndexInv == LiveIndexExact /\ DiskIndexExact /\ ReplyExact

LEMMA IndexInvStep ==
  ASSUME ~Interactive, TypeOK, IndexInv, [Next]_vars
  PROVE  IndexInv'
<1> USE DEF IndexInv
<1>1. ASSUME status' = "up", NEW f \in Field \ Written
      PROVE  Exact(rows', mapper', f)
  <2>1. status = "up" => Exact(rows, mapper, f)
    BY DEF LiveIndexExact
  <2>2. CASE \E k \in Key, r \in Row : SetRow(k, r)
    BY <1>1, <2>1, <2>2, AssignStepExact DEF SetRow, TypeOK
  <2>3. CASE \E k \in Key : DelRow(k)
    BY <2>1, <2>3, EraseStepExact DEF DelRow, TypeOK
  <2>4. ASSUME NEW g \in Field, NEW v \in Val, GetBy(g, v)
        PROVE  Exact(rows', mapper', f)
    BY <2>1, <2>4, IndexedType DEF GetBy
  <2>5. ASSUME NEW g \in Field, NEW v \in Val, DelBy(g, v)
        PROVE  Exact(rows', mapper', f)
    BY <2>1, <2>5, IndexedType, EraseStepExact DEF DelBy
  <2>6. ASSUME NEW g \in Field, NEW v \in Val, NEW r \in Row, SetBy(g, v, r)
        PROVE  Exact(rows', mapper', f)
    BY <1>1, <2>1, <2>6, IndexedType, AssignStepExact DEF SetBy
  <2>7. ASSUME NEW g \in Field, IndexThrows(g)
        PROVE  Exact(rows', mapper', f)
    BY <1>1, <2>7 DEF IndexThrows, Throw, Crash
  <2>8. CASE \E t \in Tables : Replace(t)
    BY <1>1, <2>8, EmptyExact DEF Replace, Crash
  <2>9. ASSUME NEW k \in Key, NEW g \in Written, NEW v \in Val \cup {NoVal}, SetField(k, g, v)
        PROVE  Exact(rows', mapper', f)
    BY <2>1, <2>9, FieldWriteExact, TableAssumption DEF SetField
  <2>10. ASSUME NEW k \in Key, NEW g \in Written, DelField(k, g)
         PROVE  Exact(rows', mapper', f)
    <3>1. k \in DOMAIN rows /\ rows' = Put(rows, k, [RowAt(k) EXCEPT ![g] = NoVal])
      BY <1>1, <2>10 DEF DelField, Crash, RowAt
    <3>2. status = "up" /\ mapper' = mapper
      BY <1>1, <2>10 DEF DelField, Crash
    <3> QED BY <2>1, <3>1, <3>2, FieldWriteExact, TableAssumption
  <2>11. CASE Other
    BY <2>1, <2>11 DEF Other
  <2>12. CASE Save
    BY <1>1, <2>1, <2>12 DEF Save, Crash
  <2>13. CASE Kill
    BY <1>1, <2>13 DEF Kill, Crash
  <2>14. CASE Restart
    BY <2>14 DEF Restart, DiskIndexExact
  <2>15. CASE UNCHANGED vars
    BY <1>1, <2>1, <2>15 DEF vars
  <2> QED BY <2>2, <2>3, <2>4, <2>5, <2>6, <2>7, <2>8, <2>9, <2>10, <2>11, <2>12, <2>13, <2>14, <2>15 DEF Next
<1>2. DiskIndexExact'
  <2>1. CASE Save
    BY <2>1 DEF Save, Crash, DiskIndexExact, LiveIndexExact
  <2>2. CASE ~Save
    <3>1. disk' = disk
      BY <2>2 DEF Next, SetRow, DelRow, GetBy, DelBy, SetBy, IndexThrows, Replace,
                  SetField, DelField, Other, Kill, Restart, Assign, Throw, Crash, Erase, vars
    <3> QED BY <3>1 DEF DiskIndexExact
  <2> QED BY <2>1, <2>2
<1>3. ReplyExact'
  <2>1. ASSUME NEW f \in Field, NEW v \in Val, GetBy(f, v)
        PROVE  ReplyExact'
    <3>1. /\ status = "up" /\ rows' = rows /\ status' = status /\ IndexReady(f)
          /\ reply' = [field |-> f, val |-> v, row |-> RowAt(Resolve(f, v))]
      BY <2>1 DEF GetBy
    <3>2. SUFFICES ASSUME f \notin Written
                   PROVE  IF Holders(rows, f, v) = {} THEN RowAt(Resolve(f, v)) = NoFields
                          ELSE \A k \in Holders(rows, f, v) : RowAt(Resolve(f, v)) = rows[k]
      BY <3>1 DEF ReplyExact
    <3>3. Exact(rows, Indexed(f), f)
      BY <3>1, <3>2, IndexedType DEF LiveIndexExact
    <3>4. Holders(rows, f, v) = {Resolve(f, v)} \ {NoKey}
      BY <3>1, <3>3, ResolveExact
    <3>5. NoKey \notin DOMAIN rows
      BY TableType, TableAssumption DEF TypeOK
    <3> QED BY <3>4, <3>5 DEF RowAt, Holders
  <2>2. CASE reply' = NoReply
    BY <2>2 DEF ReplyExact
  <2>3. CASE rows' = rows /\ reply' = reply /\ (status' = status \/ status' = "down")
    BY <2>3 DEF ReplyExact
  <2> QED BY <2>1, <2>2, <2>3 DEF Next, SetRow, DelRow, DelBy, SetBy, IndexThrows, Replace,
                 SetField, DelField, Other, Save, Kill, Restart, Assign, Throw, Crash, Erase, vars
<1> QED BY <1>1, <1>2, <1>3 DEF LiveIndexExact

LEMMA IndexInvariant ==
  ASSUME ~Interactive
  PROVE  Spec => []IndexInv
<1>1. Init => IndexInv
  BY EmptyExact DEF Init, IndexInv, LiveIndexExact, DiskIndexExact, ReplyExact
<1>2. TypeOK /\ IndexInv /\ [Next]_vars => IndexInv'
  BY IndexInvStep
<1> QED BY <1>1, <1>2, TableTyping, PTL DEF Spec

(* In a server, the index on a field that is only written with its row     *)
(* (resolveIndexKey, handleDelete, handleCreate) is exact as long as the   *)
(* process runs.                                                           *)
THEOREM ServerIndexExact ==
  ASSUME ~Interactive
  PROVE  Spec => []LiveIndexExact
<1>1. IndexInv => LiveIndexExact
  BY DEF IndexInv
<1> QED BY <1>1, IndexInvariant, PTL

(* So is the one in the file that a save wrote, beside the rows there.     *)
THEOREM FileIndexExact ==
  ASSUME ~Interactive
  PROVE  Spec => []DiskIndexExact
<1>1. IndexInv => DiskIndexExact
  BY DEF IndexInv
<1> QED BY <1>1, IndexInvariant, PTL

(* And what a GET by such a field answered is what a scan would have found.*)
THEOREM RepliesExact ==
  ASSUME ~Interactive
  PROVE  Spec => []ReplyExact
<1>1. IndexInv => ReplyExact
  BY DEF IndexInv
<1> QED BY <1>1, IndexInvariant, PTL
=============================================================================
