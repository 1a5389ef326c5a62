------------------------- MODULE RukoDbTableProofs --------------------------
(***************************************************************************)
(* RukoDb implements IndexedTable, for any keys, fields and values and any *)
(* clients that stay inside users: an invariant of the database, and for   *)
(* each command the step of the table that it is. The theorems of          *)
(* IndexedTableProofs then hold of the database, and with them what its    *)
(* indices, lookups and listings say.                                      *)
(***************************************************************************)
EXTENDS UsersProofs

-----------------------------------------------------------------------------
(* Commands in a database that is held.                                    *)

(* The state of a database that is users alone, while the process runs.    *)
Held ==
  /\ IsTableDb(db) /\ IsIndex(mappers)
  /\ nodes = NodesOf(mappers) /\ mappings = <<>>

Creating == TRUE
Finding == FALSE

(* SET traverses creating and the others finding.                          *)
LEMMA Modes ==
  Creating \in BOOLEAN /\ Makes(Creating) /\ Finding \in BOOLEAN /\ ~Makes(Finding)
BY DEF Creating, Finding, Makes

(* SET traverses creating and GET finding, from the machine the variables  *)
(* make.                                                                   *)
LEMMA Traversals ==
  ASSUME Held, NEW keys
  PROVE  /\ ToCreate(keys) = TraverseTo(M(db, mappers), keys, Creating)
         /\ ToFind(keys) = TraverseTo(M(db, mappers), keys, Finding)
         /\ Creating \in BOOLEAN /\ Makes(Creating) /\ Finding \in BOOLEAN /\ ~Makes(Finding)
<1>1. Now = M(db, mappers)
  BY DEF Now, M, Held
<1> QED BY <1>1 DEF ToCreate, ToFind, Creating, Finding, Makes

(* The last frame at users is valid.                                       *)
LEMMA UsersFrame ==
  /\ Last(AtUsers).key = UsersKey /\ Last(AtUsers).obj = Users
  /\ Users # NoObj /\ ~Halt(UsersKey)
<1>1. Last(AtUsers).key = UsersKey /\ Last(AtUsers).obj = Users /\ Users \in Path
  BY PlacesOfUsers, PathsOfUsers DEF Leads
<1>2. Users # NoObj
  BY <1>1, Keys
<1>3. ~Halt(UsersKey)
  BY Keys DEF Halt
<1> QED BY <1>1, <1>2, <1>3

(* Commands on users that are refused.                                     *)
LEMMA DeclareUsers ==
  ASSUME NEW d, IsTableDb(d), NEW x
  PROVE  DeclareResult(Walked(d, x, AtUsers, Going), Dict) = Refused(M(d, x))
<1> DEFINE t == Walked(d, x, AtUsers, Going)
<1>1. t.m = M(d, x) /\ t.frames = AtUsers /\ t.m.db = d
  BY SoundMachine DEF Walked
<1>2. d[Users] = Dict
  BY TableDb
<1> HIDE DEF t
<1>3. DeclareResult(t, Dict) = Refused(t.m)
  BY <1>1, <1>2, UsersFrame DEF DeclareResult
<1> QED BY <1>1, <1>3 DEF t

(* LPUT to users, a dict, is refused.                                      *)
LEMMA LputUsers ==
  ASSUME NEW d, IsTableDb(d), NEW x, NEW value
  PROVE  LputResult(Walked(d, x, AtUsers, Going), value) = Refused(M(d, x))
<1> DEFINE t == Walked(d, x, AtUsers, Going)
<1>1. t.m = M(d, x) /\ t.frames = AtUsers /\ t.m.db = d
  BY SoundMachine DEF Walked
<1>2. d[Users] = Dict /\ Dict # Empty /\ Dict # List
  BY TableDb, Literals
<1> HIDE DEF t
<1>3. LputResult(t, value) = Refused(t.m)
  BY <1>1, <1>2, UsersFrame DEF LputResult
<1> QED BY <1>1, <1>3 DEF t

(* What the table remembers of a reply.                                    *)
LEMMA WriteForgotten ==
  ASSUME NEW ok
  PROVE  TableReply(Answer(ok)) = NoAnswer
BY DEF TableReply, Answer

(* Of a GET the table remembers only that of a row by a field.             *)
LEMMA GetRemembered ==
  ASSUME NEW keys, NEW by, NEW fields, NEW exclude, NEW doc
  PROVE  TableReply(Got(keys, by, fields, exclude, doc)) =
           IF Len(keys) = 2 /\ Len(keys[2]) = 2
           THEN [field |-> keys[2][1], val |-> keys[2][2], row |-> Attrs(doc, <<>>)]
           ELSE NoAnswer
BY DEF TableReply, Got

(* The addresses are told apart by the lengths of their keys.              *)
LEMMA AddressesTold ==
  /\ Len(<<Users>>) # 2
  /\ \A k : Len(AddressOfRow(k)[2]) # 2
  /\ \A f, v : /\ Len(AddressBy(f, v)) = 2 /\ Len(AddressBy(f, v)[2]) = 2
               /\ AddressBy(f, v)[2][1] = f /\ AddressBy(f, v)[2][2] = v
BY DEF AddressOfRow, AddressBy

-----------------------------------------------------------------------------
(* The table's operators, and rows assigned and erased.                    *)

(* The table's operators on mappers are those of RukoDb.                   *)
LEMMA SameMappers ==
  ASSUME NEW mp, NEW r, NEW k
  PROVE  /\ Table!Unregister(mp, r) = Unregister(mp, r)
         /\ Table!Register(mp, r, k) = Register(mp, r, k)
         /\ Table!Clashes(mp, r, k) = Clashes(mp, r, k)
<1>1. \A row : Table!Hooked(mp, row) = Hooked(mp, row)
  BY DEF Table!Hooked, Hooked
<1>2. Table!Unregister(mp, r) = Unregister(mp, r)
  BY <1>1 DEF Table!Unregister, Unregister
<1>3. Table!Clashes(mp, r, k) = Clashes(mp, r, k)
  BY <1>1 DEF Table!Clashes, Clashes
<1>4. Table!Register(mp, r, k) = Register(mp, r, k)
  BY <1>1 DEF Table!Register, Register, Table!WithEntries, WithEntries
<1> QED BY <1>2, <1>3, <1>4

(* And on indices.                                                         *)
LEMMA SameIndices ==
  ASSUME NEW mp, NEW f, NEW v, NEW rs
  PROVE  /\ Table!HasIndex(mp, f) = HasIndex(mp, f)
         /\ Table!OneToOne(rs, f) = OneToOne(rs, f)
         /\ Table!CreateIndex(mp, f, rs) = CreateIndex(mp, f, rs)
         /\ Table!Get(mp, f, v) = Get(mp, f, v)
<1>1. Table!HasIndex(mp, f) = HasIndex(mp, f)
  BY DEF Table!HasIndex, HasIndex
<1>2. Table!OneToOne(rs, f) = OneToOne(rs, f)
  BY DEF Table!OneToOne, OneToOne
<1>3. Table!CreateIndex(mp, f, rs) = CreateIndex(mp, f, rs)
  BY DEF Table!CreateIndex, CreateIndex, Table!WithIndex, WithIndex, Table!Holders, Holders
<1>4. Table!Get(mp, f, v) = Get(mp, f, v)
  BY DEF Table!Get, Get
<1> QED BY <1>1, <1>2, <1>3, <1>4

(* The process runs; a reply that the table does not remember.             *)
Up == status = "up"
Quiet == TableReply(reply') = NoAnswer

(* A command that fails is the end of the process for the table.           *)
LEMMA FailedIsKill ==
  ASSUME Up, Failed
  PROVE  Table!Kill
BY DEF Up, Failed, End, memory, Table!Kill, Table!Crash

(* A row of the table, no fields when there is none.                       *)
LEMMA TableRows ==
  ASSUME NEW k
  PROVE  Table!RowAt(k) = RowIn(db, k)
BY DEF Table!RowAt, RowIn, Table!NoFields, NoFields

(* What a command that went well changes of the table.                     *)
LEMMA TookUnchanged ==
  ASSUME NEW e, NEW y, Took(e, y)
  PROVE  /\ RowsIn(db') = RowsIn(e) /\ MapperIn(mappers') = MapperIn(y)
         /\ (RowOf(Blank) \in DOMAIN db') = Phantom(e)
         /\ status' = status /\ disk' = disk
BY DEF Took, Phantom

(* The table's phantom is the Empty object under the empty key.            *)
LEMMA PhantomIs ==
  ASSUME NEW d
  PROVE  (Append(Users, "") \in DOMAIN d) = Phantom(d)
BY DEF Phantom, RowOf, Child, Blank

(* A row that was given a value is one the table assigned.                 *)
LEMMA RowAssigned ==
  ASSUME NEW z, NEW k \in RowKey, NEW r, NEW e, NEW y,
         Took(e, y), Quiet, RowGiven(db, z, k, r, e, y)
  PROVE  Table!Assign(MapperIn(z), k, r)
<1> DEFINE erased == Unregister(MapperIn(z), RowIn(db, k))
           tErased == Table!Unregister(MapperIn(z), Table!RowAt(k))
<1>1. tErased = erased
  BY SameMappers, TableRows
<1>2. Table!Clashes(tErased, r, k) = {}
  BY <1>1, SameMappers DEF RowGiven
<1>3. MapperIn(mappers)' = Table!Register(tErased, r, k)
  BY <1>1, SameMappers, TookUnchanged DEF RowGiven
<1>4. RowsIn(db)' = Table!Put(RowsIn(db), k, r)
  BY TookUnchanged DEF RowGiven, Table!Put
<1>5. (Append(Users, "") \in DOMAIN db)' = (Append(Users, "") \in DOMAIN db)
  BY PhantomIs DEF RowGiven, Took
<1> HIDE DEF tErased, erased
<1>6. (IF status = "up" THEN "up" ELSE "down")' = (IF status = "up" THEN "up" ELSE "down")
      /\ disk' = disk
  BY TookUnchanged
<1>7. TableReply(reply)' = NoAnswer
  BY DEF Quiet
<1>8. [rows |-> RowsIn(disk.db), mapper |-> MapperIn(disk.mappers)]'
        = [rows |-> RowsIn(disk.db), mapper |-> MapperIn(disk.mappers)]
  BY <1>6
<1> QED BY <1>2, <1>3, <1>4, <1>5, <1>6, <1>7, <1>8 DEF Table!Assign, tErased

(* A row that is gone is one the table erased.                             *)
LEMMA RowErased ==
  ASSUME NEW z, NEW k \in RowKey, NEW e, NEW y,
         Took(e, y), Quiet, RowGone(db, z, k, e, y)
  PROVE  Table!Erase(MapperIn(z), k)
<1>1. CASE k \in DOMAIN RowsIn(db)
  <2>1. MapperIn(mappers)' = Table!Unregister(MapperIn(z), RowsIn(db)[k])
    BY <1>1, SameMappers, TookUnchanged DEF RowGone
  <2>2. RowsIn(db)' = Table!Without(RowsIn(db), k)
    BY TookUnchanged DEF RowGone, Table!Without
  <2>3. (Append(Users, "") \in DOMAIN db)' = (Append(Users, "") \in DOMAIN db)
    BY PhantomIs DEF RowGone, Took
  <2> QED BY <1>1, <2>1, <2>2, <2>3, TookUnchanged DEF Quiet, Table!Erase
<1>2. CASE k \notin DOMAIN RowsIn(db)
  <2>1. MapperIn(mappers)' = MapperIn(z)
    BY <1>2, TookUnchanged DEF RowGone
  <2>2. RowsIn(db)' = RowsIn(db)
    <3>1. RowsIn(e) = [j \in DOMAIN RowsIn(db) \ {k} |-> RowsIn(db)[j]] /\ DOMAIN RowsIn(db) \ {k} = DOMAIN RowsIn(db)
      BY <1>2 DEF RowGone
    <3>2. RowsIn(db) = [j \in DOMAIN RowsIn(db) |-> RowsIn(db)[j]]
      BY DEF RowsIn
    <3> QED BY <3>1, <3>2, TookUnchanged
  <2>3. (Append(Users, "") \in DOMAIN db)' = (Append(Users, "") \in DOMAIN db)
    BY PhantomIs DEF RowGone, Took
  <2> QED BY <1>2, <2>1, <2>2, <2>3, TookUnchanged DEF Quiet, Table!Erase
<1> QED BY <1>1, <1>2

-----------------------------------------------------------------------------
(* The table's actions, from what a command changed.                       *)

(* A command that changes nothing the table has.                           *)
LEMMA NothingChanged ==
  ASSUME Up, Took(db, mappers), Quiet
  PROVE  Table!Other
<1>1. RowsIn(db)' = RowsIn(db) /\ MapperIn(mappers)' = MapperIn(mappers)
  BY TookUnchanged
<1>2. (Append(Users, "") \in DOMAIN db)' = (Append(Users, "") \in DOMAIN db)
  BY DEF Took
<1> QED BY <1>1, <1>2, TookUnchanged DEF Up, Quiet, Table!Other

(* A field's lookup, in the index that is there or is made for it.         *)
LEMMA TableLookup ==
  ASSUME Held, NEW f \in Field, NEW v \in Val, Ready(db, mappers, f)
  PROVE  LET z == IndexedBy(db, mappers, f)
             k == LookKey(z, f, v)
         IN /\ IsIndex(z) /\ Table!IndexReady(f) /\ Table!Indexed(f) = MapperIn(z)
            /\ k \in RowKey \cup {Blank}
            /\ Table!Resolve(f, v) = IF k = Blank THEN NoKey ELSE k
<1> DEFINE z == IndexedBy(db, mappers, f)
           k == LookKey(z, f, v)
<1>1. IsTableDb(db) /\ IsIndex(mappers)
  BY DEF Held
<1>2. /\ IsIndex(z)
      /\ MapperIn(z) = IF HasIndex(MapperIn(mappers), f) THEN MapperIn(mappers)
                       ELSE CreateIndex(MapperIn(mappers), f, RowsIn(db))
      /\ HasIndex(MapperIn(mappers), f) \/ OneToOne(RowsIn(db), f)
  BY <1>1, IndexedByIsIndex
<1>3. Table!Indexed(f) = MapperIn(z) /\ Table!IndexReady(f)
  BY <1>2, SameIndices DEF Table!Indexed, Table!IndexReady
<1>4. k \in RowKey \cup {Blank} /\ Get(MapperIn(z), f, v) = IF k = Blank THEN NoKey ELSE k
  BY <1>2, LookKeys
<1>5. Table!Resolve(f, v) = Get(MapperIn(z), f, v)
  BY <1>3, SameIndices DEF Table!Resolve
<1> QED BY <1>2, <1>3, <1>4, <1>5

(* SET by a field that finds a row is the table's SetBy.                   *)
LEMMA SetByFound ==
  ASSUME Held, Up, NEW f \in Field, NEW v \in Val, Ready(db, mappers, f), NEW r, NEW k \in RowKey,
         k = LookKey(IndexedBy(db, mappers, f), f, v), NEW e, NEW y,
         Took(e, y), Quiet, RowGiven(db, IndexedBy(db, mappers, f), k, r, e, y)
  PROVE  Table!SetBy(f, v, r)
<1> DEFINE z == IndexedBy(db, mappers, f)
<1>1. k # Blank /\ k # NoKey
  BY Literals, Keys
<1>2. Table!IndexReady(f) /\ Table!Indexed(f) = MapperIn(z) /\ Table!Resolve(f, v) = k
  BY <1>1, TableLookup
<1>3. Table!Assign(MapperIn(z), k, r)
  BY RowAssigned
<1> QED BY <1>1, <1>2, <1>3 DEF Up, Table!SetBy

(* SET by a field that finds nothing is too.                               *)
LEMMA SetByNothing ==
  ASSUME Held, Up, NEW f \in Field, NEW v \in Val, Ready(db, mappers, f), NEW r,
         LookKey(IndexedBy(db, mappers, f), f, v) = Blank, NEW e,
         Took(e, IndexedBy(db, mappers, f)), Quiet, Phantom(e) = TRUE, RowsIn(e) = RowsIn(db)
  PROVE  Table!SetBy(f, v, r)
<1> DEFINE z == IndexedBy(db, mappers, f)
<1>1. Table!IndexReady(f) /\ Table!Indexed(f) = MapperIn(z) /\ Table!Resolve(f, v) = NoKey
  BY TableLookup
<1>2. RowsIn(db)' = RowsIn(db) /\ MapperIn(mappers)' = MapperIn(z)
  BY TookUnchanged
<1>3. (Append(Users, "") \in DOMAIN db)' = TRUE
  BY PhantomIs DEF Took
<1> QED BY <1>1, <1>2, <1>3, TookUnchanged DEF Up, Quiet, Table!SetBy

(* DELETE by a field that finds a row is the table's DelBy.                *)
LEMMA DelByFound ==
  ASSUME Held, Up, NEW f \in Field, NEW v \in Val, Ready(db, mappers, f), NEW k \in RowKey,
         k = LookKey(IndexedBy(db, mappers, f), f, v), NEW e, NEW y,
         Took(e, y), Quiet, RowGone(db, IndexedBy(db, mappers, f), k, e, y)
  PROVE  Table!DelBy(f, v)
<1> DEFINE z == IndexedBy(db, mappers, f)
<1>1. k # Blank /\ k # NoKey
  BY Literals, Keys
<1>2. Table!IndexReady(f) /\ Table!Indexed(f) = MapperIn(z) /\ Table!Resolve(f, v) = k
  BY <1>1, TableLookup
<1>3. Table!Erase(MapperIn(z), k)
  BY RowErased
<1> QED BY <1>2, <1>3 DEF Up, Table!DelBy

(* DELETE by a field that finds nothing is too.                            *)
LEMMA DelByNothing ==
  ASSUME Held, Up, NEW f \in Field, NEW v \in Val, Ready(db, mappers, f),
         LookKey(IndexedBy(db, mappers, f), f, v) = Blank,
         Took(db, IndexedBy(db, mappers, f)), Quiet
  PROVE  Table!DelBy(f, v)
<1> DEFINE z == IndexedBy(db, mappers, f)
<1>1. Table!IndexReady(f) /\ Table!Indexed(f) = MapperIn(z) /\ Table!Resolve(f, v) = NoKey
  BY TableLookup
<1>2. RowsIn(db)' = RowsIn(db) /\ MapperIn(mappers)' = MapperIn(z)
  BY TookUnchanged
<1>3. (Append(Users, "") \in DOMAIN db)' = (Append(Users, "") \in DOMAIN db)
  BY DEF Took
<1>4. NoKey \notin DOMAIN RowsIn(db)
  <2>1. DOMAIN RowsIn(db) \subseteq RowKey
    BY ObjectsAndRows DEF Held
  <2> QED BY <2>1, Keys
<1>5. Table!Erase(MapperIn(z), NoKey)
  BY <1>2, <1>3, <1>4, TookUnchanged DEF Quiet, Table!Erase
<1> QED BY <1>1, <1>5 DEF Up, Table!DelBy

(* GET by a field is the table's GetBy, with the same answer.              *)
LEMMA GotBy ==
  ASSUME Held, Up, NEW f \in Field, NEW v \in Val, Ready(db, mappers, f),
         Took(db, IndexedBy(db, mappers, f)),
         TableReply(reply') = [field |-> f, val |-> v,
                               row |-> RowIn(db, LookKey(IndexedBy(db, mappers, f), f, v))]
  PROVE  Table!GetBy(f, v)
<1> DEFINE z == IndexedBy(db, mappers, f)
           k == LookKey(z, f, v)
<1>1. /\ Table!IndexReady(f) /\ Table!Indexed(f) = MapperIn(z)
      /\ k \in RowKey \cup {Blank} /\ Table!Resolve(f, v) = IF k = Blank THEN NoKey ELSE k
  BY TableLookup
<1>2. RowsIn(db)' = RowsIn(db) /\ MapperIn(mappers)' = MapperIn(z)
  BY TookUnchanged
<1>3. (Append(Users, "") \in DOMAIN db)' = (Append(Users, "") \in DOMAIN db)
  BY DEF Took
<1>4. NoKey \notin DOMAIN RowsIn(db) /\ Blank \notin DOMAIN RowsIn(db)
  <2>1. DOMAIN RowsIn(db) \subseteq RowKey
    BY ObjectsAndRows DEF Held
  <2> QED BY <2>1, Keys, Literals
<1>5. Table!RowAt(Table!Resolve(f, v)) = RowIn(db, k)
  BY <1>1, <1>4, TableRows DEF RowIn
<1> HIDE DEF z, k
<1> QED BY <1>1, <1>2, <1>3, <1>5, TookUnchanged DEF Up, Table!GetBy, z, k

(* Fields of a row.                                                        *)
LEMMA FieldSet ==
  ASSUME Up, NEW k \in RowKey, NEW f \in Written, NEW v, NEW e,
         Took(e, mappers), Quiet, FieldGiven(db, k, f, v, e)
  PROVE  Table!SetField(k, f, v)
<1>1. RowsIn(db)' = Table!Put(RowsIn(db), k, [Table!RowAt(k) EXCEPT ![f] = v])
  BY TookUnchanged, TableRows DEF FieldGiven, Table!Put
<1>2. MapperIn(mappers)' = MapperIn(mappers)
  BY TookUnchanged
<1>3. (Append(Users, "") \in DOMAIN db)' = (Append(Users, "") \in DOMAIN db)
  BY PhantomIs DEF FieldGiven, Took
<1> QED BY <1>1, <1>2, <1>3, TookUnchanged DEF Up, Quiet, Table!SetField

(* SET of users.                                                           *)
LEMMA TableReplaced ==
  ASSUME Up, NEW e, Took(e, NoMappers), Quiet, Phantom(e) = FALSE
  PROVE  Table!Replace(RowsIn(e))
<1>1. MapperIn(NoMappers) = Table!EmptyMapper
  <2>1. IsIndex(NoMappers) /\ Users \notin DOMAIN NoMappers
    BY DEF IsIndex, NoMappers
  <2>2. MapperIn(NoMappers) = EmptyMapper
    BY <2>1, MapperInIsPlain, EmptyMapperPlain DEF MapperOf
  <2> QED BY <2>2 DEF EmptyMapper, Table!EmptyMapper
<1>2. RowsIn(db)' = RowsIn(e) /\ MapperIn(mappers)' = Table!EmptyMapper
  BY <1>1, TookUnchanged
<1>3. (Append(Users, "") \in DOMAIN db)' = FALSE
  BY PhantomIs DEF Took
<1> QED BY <1>2, <1>3, TookUnchanged DEF Up, Quiet, Table!Replace

-----------------------------------------------------------------------------
(* What a command makes of a database that is users alone: of the document *)
(* d and the indices x it makes e and y, and the table remembers rep of    *)
(* its reply.                                                              *)

(* A row was given a value, or is gone.                                    *)
RowComes(d, z, k, e, y) ==
  (\E r \in Row : RowGiven(d, z, k, r, e, y)) \/ RowGone(d, z, k, e, y)

(* It is the row that an index led to; where that led nowhere, nothing was *)
(* done, or an Empty object made.                                          *)
Looked(d, z, k, e, y) ==
  \/ k \in RowKey /\ RowComes(d, z, k, e, y)
  \/ k = Blank /\ y = z /\ (e = d \/ BlankGiven(d, e))

(* The row's fields were answered.                                         *)
Shown(d, z, k, f, v, e, y, rep) ==
  e = d /\ y = z /\ rep = [field |-> f, val |-> v, row |-> RowIn(d, k)]

ByField(d, x, f, v, e, y, rep) ==
  LET z == IndexedBy(d, x, f)
      k == LookKey(z, f, v)
  IN /\ Ready(d, x, f)
     /\ (rep = NoAnswer /\ Looked(d, z, k, e, y)) \/ Shown(d, z, k, f, v, e, y, rep)

Quietly(d, x, e, y) ==
  \/ e = d /\ y = x
  \/ \E k \in RowKey : RowComes(d, x, k, e, y)
  \/ y = x /\ \E k \in RowKey, f \in Written, v \in Val \cup {NoVal} : FieldGiven(d, k, f, v, e)
  \/ y = NoMappers /\ IsTableDb(e) /\ Phantom(e) = FALSE

Comes(d, x, e, y, rep) ==
  \/ rep = NoAnswer /\ Quietly(d, x, e, y)
  \/ \E f \in Field, v \in Val : ByField(d, x, f, v, e, y, rep)

(* A machine that a command left: the command threw, or came to that.      *)
Lands(d, x, m, rep) ==
  \/ Thrown(m)
  \/ /\ m.nodes = NodesOf(m.mappers) /\ m.mappings = <<>>
     /\ Comes(d, x, m.db, m.mappers, rep)

(* A machine that is faulted has thrown.                                   *)
Settled(m) == Thrown(m) \/ \E e, y : m = M(e, y)

LEMMA SettledFaults ==
  ASSUME NEW m, Settled(m)
  PROVE  Thrown(Faulted(m, "throw"))
<1>1. ASSUME Thrown(m) PROVE Thrown(Faulted(m, "throw"))
  BY <1>1 DEF Thrown, Faulted
<1> QED BY <1>1, FaultedIsThrown DEF Settled

LEMMA LandsAt ==
  ASSUME NEW d, NEW x, NEW e, NEW y, NEW rep, Comes(d, x, e, y, rep)
  PROVE  Lands(d, x, M(e, y), rep)
<1>1. M(e, y).db = e /\ M(e, y).nodes = NodesOf(y) /\ M(e, y).mappers = y /\ M(e, y).mappings = <<>>
  BY DEF M, Machine
<1> QED BY <1>1 DEF Lands

(* A database that is users alone stays so.                                *)
LEMMA ComesHeld ==
  ASSUME NEW d, IsTableDb(d), NEW x, IsIndex(x), NEW e, NEW y, NEW rep, Comes(d, x, e, y, rep)
  PROVE  IsTableDb(e) /\ IsIndex(y)
<1>1. ASSUME NEW z, IsIndex(z), NEW k, RowComes(d, z, k, e, y) PROVE IsTableDb(e) /\ IsIndex(y)
  BY <1>1 DEF RowComes, RowGiven, RowGone
<1>2. CASE rep = NoAnswer /\ Quietly(d, x, e, y)
  <2>1. IsIndex(NoMappers)
    BY DEF IsIndex, NoMappers
  <2>2. CASE y = x /\ \E k \in RowKey, f \in Written, v \in Val \cup {NoVal} : FieldGiven(d, k, f, v, e)
    BY <2>2 DEF FieldGiven
  <2> QED BY <1>1, <1>2, <2>1, <2>2 DEF Quietly
<1>3. ASSUME NEW f \in Field, NEW v \in Val, ByField(d, x, f, v, e, y, rep)
      PROVE  IsTableDb(e) /\ IsIndex(y)
  <2> DEFINE z == IndexedBy(d, x, f)
             k == LookKey(z, f, v)
  <2>1. Ready(d, x, f) /\ (Looked(d, z, k, e, y) \/ Shown(d, z, k, f, v, e, y, rep))
    BY <1>3 DEF ByField
  <2>2. IsIndex(z)
    BY <2>1, IndexedByIsIndex
  <2> HIDE DEF z, k
  <2> QED BY <1>1, <2>1, <2>2 DEF Looked, Shown, BlankGiven
<1> QED BY <1>2, <1>3 DEF Comes

(* Commands that set.                                                      *)

(* SET of a row by its key.                                                *)
LEMMA SetRowLands ==
  ASSUME NEW d, IsTableDb(d), NEW x, IsIndex(x), NEW k \in RowKey, NEW value, IsRow(value)
  PROVE  Lands(d, x, SetResult(TraverseTo(M(d, x), AddressOfRow(k), Creating), value).m, NoAnswer)
<1> DEFINE t == TraverseTo(M(d, x), AddressOfRow(k), Creating)
           m == SetResult(t, value).m
           r == Attrs(value, <<>>)
<1>1. t = Descend(Walked(d, x, AtUsers, Going), k, Creating)
  BY Modes, RowWalk
<1>2. Thrown(m) \/ \E e, y : m = M(e, y) /\ RowGiven(d, x, k, r, e, y)
  BY <1>1, Modes, SetBelowUsers
<1>3. r \in Row
  BY AttrsAreRow
<1> HIDE DEF m, r
<1>4. ASSUME NEW e, NEW y, m = M(e, y), RowGiven(d, x, k, r, e, y) PROVE Lands(d, x, m, NoAnswer)
  <2>1. Comes(d, x, e, y, NoAnswer)
    BY <1>3, <1>4 DEF Comes, Quietly, RowComes
  <2> QED BY <1>4, <2>1, LandsAt
<1> QED BY <1>2, <1>4 DEF Lands, m

(* SET of a row by a field.                                                *)
LEMMA SetByLands ==
  ASSUME NEW d, IsTableDb(d), NEW x, IsIndex(x), NEW f \in Field, NEW v \in Val, NEW value, IsRow(value)
  PROVE  Lands(d, x, SetResult(TraverseTo(M(d, x), AddressBy(f, v), Creating), value).m, NoAnswer)
<1> DEFINE t == TraverseTo(M(d, x), AddressBy(f, v), Creating)
           m == SetResult(t, value).m
           r == Attrs(value, <<>>)
           z == IndexedBy(d, x, f)
           k == LookKey(z, f, v)
<1>1. /\ Ready(d, x, f) => t = Descend(Walked(d, z, AtUsers, Going), k, Creating)
      /\ ~Ready(d, x, f) => Thrown(t.m)
  BY Modes, WalkByField DEF Thrown
<1>2. r \in Row
  BY AttrsAreRow
<1>3. CASE ~Ready(d, x, f)
  BY <1>1, <1>3, SetThrown DEF Lands
<1>4. CASE Ready(d, x, f)
  <2>1. IsIndex(z) /\ k \in RowKey \cup {Blank}
    BY <1>4, IndexedByIsIndex, LookKeys
  <2>2. ASSUME NEW e, NEW y, m = M(e, y), Looked(d, z, k, e, y) PROVE Lands(d, x, m, NoAnswer)
    <3>1. ByField(d, x, f, v, e, y, NoAnswer)
      BY <1>4, <2>2 DEF ByField
    <3>2. Comes(d, x, e, y, NoAnswer)
      BY <3>1 DEF Comes
    <3> HIDE DEF m
    <3> QED BY <2>2, <3>2, LandsAt
  <2>3. CASE k = Blank
    <3>1. \E e : m = M(e, z) /\ BlankGiven(d, e)
      <4>1. t = Descend(Walked(d, z, AtUsers, Going), Blank, Creating)
        BY <1>1, <1>4, <2>3
      <4> HIDE DEF t, z
      <4> QED BY <2>1, <4>1, Modes, SetBelowBlank
    <3> QED BY <2>2, <2>3, <3>1 DEF Looked
  <2>4. CASE k \in RowKey
    <3>1. Thrown(m) \/ \E e, y : m = M(e, y) /\ RowGiven(d, z, k, r, e, y)
      <4> HIDE DEF k, z, t
      <4> QED BY <1>1, <1>4, <2>1, <2>4, Modes, SetBelowUsers
    <3>2. (\E e, y : m = M(e, y) /\ RowGiven(d, z, k, r, e, y)) => Lands(d, x, m, NoAnswer)
      <4> HIDE DEF m, r, z, k
      <4> QED BY <1>2, <2>2, <2>4 DEF Looked, RowComes
    <3> QED BY <3>1, <3>2 DEF Lands
  <2> QED BY <2>1, <2>3, <2>4
<1> QED BY <1>3, <1>4

(* SET of a field of a row.                                                *)
LEMMA SetFieldLands ==
  ASSUME NEW d, IsTableDb(d), NEW x, IsIndex(x), NEW k \in RowKey, NEW f \in Written,
         NEW value, IsObject(value)
  PROVE  Lands(d, x, SetResult(TraverseTo(M(d, x), AddressOfField(k, f), Creating), value).m, NoAnswer)
<1> DEFINE m == SetResult(TraverseTo(M(d, x), AddressOfField(k, f), Creating), value).m
           v == Seen(value)
<1>1. PICK e : m = M(e, x) /\ FieldGiven(d, k, f, v, e)
  BY Modes, SetOfField
<1>2. v \in Val \cup {NoVal}
  BY DEF Seen
<1> HIDE DEF m, v
<1>3. Comes(d, x, e, x, NoAnswer)
  BY <1>1, <1>2 DEF Comes, Quietly
<1> QED BY <1>1, <1>3, LandsAt DEF m

(* SET of users.                                                           *)
LEMMA SetUsersLands ==
  ASSUME NEW d, IsTableDb(d), NEW x, IsIndex(x), NEW value, IsTable(value)
  PROVE  Lands(d, x, SetResult(TraverseTo(M(d, x), <<Users>>, Creating), value).m, NoAnswer)
<1> DEFINE t == TraverseTo(M(d, x), <<Users>>, Creating)
           m == SetResult(t, value).m
           e == Graft(d, Users, value)
<1>1. t = Walked(d, x, AtUsers, Going)
  BY Modes, WalkToUsers
<1>2. m.db = e /\ m.nodes = NodesOf(NoMappers) /\ m.mappers = NoMappers /\ m.mappings = <<>>
  BY <1>1, SetOfUsers
<1>3. IsTableDb(e) /\ Phantom(e) = FALSE
  BY UsersGiven
<1> HIDE DEF m, e
<1> QED BY <1>2, <1>3 DEF Lands, Comes, Quietly, m

(* Every SET of a client.                                                  *)
LEMMA SetLands ==
  ASSUME NEW d, IsTableDb(d), NEW x, IsIndex(x), NEW keys, NEW value, NEW c \in Client.set, c[1] = keys, c[2] = value
  PROVE  Lands(d, x, SetResult(TraverseTo(M(d, x), keys, Creating), value).m, NoAnswer)
<1>1. \/ keys \in RowAddresses /\ IsRow(value)
      \/ keys = <<Users>> /\ IsTable(value)
      \/ keys \in FieldAddresses /\ IsObject(value)
  BY TableClientAssumption
<1> DEFINE Goal == Lands(d, x, SetResult(TraverseTo(M(d, x), keys, Creating), value).m, NoAnswer)
<1>2. CASE keys \in RowAddresses /\ IsRow(value)
  <2>1. ASSUME NEW k \in RowKey, keys = AddressOfRow(k) PROVE Goal
    BY <1>2, <2>1, SetRowLands
  <2>2. ASSUME NEW f \in Field, NEW v \in Val, keys = AddressBy(f, v) PROVE Goal
    BY <1>2, <2>2, SetByLands
  <2> HIDE DEF Goal
  <2>3. Goal
    BY <1>2, <2>1, <2>2 DEF RowAddresses
  <2> QED BY <2>3 DEF Goal
<1>3. CASE keys = <<Users>> /\ IsTable(value)
  BY <1>3, SetUsersLands
<1>4. CASE keys \in FieldAddresses /\ IsObject(value)
  <2>1. ASSUME NEW k \in RowKey, NEW f \in Written, keys = AddressOfField(k, f) PROVE Goal
    BY <1>4, <2>1, SetFieldLands
  <2> HIDE DEF Goal
  <2>2. Goal
    BY <1>4, <2>1 DEF FieldAddresses
  <2> QED BY <2>2 DEF Goal
<1> QED BY <1>1, <1>2, <1>3, <1>4

(* Commands that delete.                                                   *)

(* DELETE of a row by its key.                                             *)
LEMMA DelRowLands ==
  ASSUME NEW d, IsTableDb(d), NEW x, IsIndex(x), NEW k \in RowKey
  PROVE  Lands(d, x, DelResult(TraverseTo(M(d, x), AddressOfRow(k), Finding)).m, NoAnswer)
<1> DEFINE t == TraverseTo(M(d, x), AddressOfRow(k), Finding)
           m == DelResult(t).m
<1>1. t = Descend(Walked(d, x, AtUsers, Going), k, Finding)
  BY Modes, RowWalk
<1>2. PICK e, y : m = M(e, y) /\ RowGone(d, x, k, e, y)
  BY <1>1, Modes, DelBelowUsers
<1> HIDE DEF m
<1>3. Comes(d, x, e, y, NoAnswer)
  BY <1>2 DEF Comes, Quietly, RowComes
<1> QED BY <1>2, <1>3, LandsAt DEF m

(* DELETE of a row by a field.                                             *)
LEMMA DelByLands ==
  ASSUME NEW d, IsTableDb(d), NEW x, IsIndex(x), NEW f \in Field, NEW v \in Val
  PROVE  Lands(d, x, DelResult(TraverseTo(M(d, x), AddressBy(f, v), Finding)).m, NoAnswer)
<1> DEFINE t == TraverseTo(M(d, x), AddressBy(f, v), Finding)
           m == DelResult(t).m
           z == IndexedBy(d, x, f)
           k == LookKey(z, f, v)
<1>1. /\ Ready(d, x, f) => t = Descend(Walked(d, z, AtUsers, Going), k, Finding)
      /\ ~Ready(d, x, f) => Thrown(t.m)
  BY Modes, WalkByField DEF Thrown
<1>2. CASE ~Ready(d, x, f)
  BY <1>1, <1>2, DelThrown DEF Lands
<1>3. CASE Ready(d, x, f)
  <2>1. IsIndex(z) /\ k \in RowKey \cup {Blank}
    BY <1>3, IndexedByIsIndex, LookKeys
  <2>2. \E e, y : m = M(e, y) /\ Looked(d, z, k, e, y)
    <3>1. CASE k = Blank
      <4>1. t = Descend(Walked(d, z, AtUsers, Going), Blank, Finding)
        BY <1>1, <1>3, <3>1
      <4>2. m = M(d, z)
        <5> HIDE DEF t, z
        <5> QED BY <2>1, <4>1, Modes, DelBelowBlank
      <4> QED BY <3>1, <4>2 DEF Looked
    <3>2. CASE k \in RowKey
      <4>1. \E e, y : m = M(e, y) /\ RowGone(d, z, k, e, y)
        <5> HIDE DEF k, z, t
        <5> QED BY <1>1, <1>3, <2>1, <3>2, Modes, DelBelowUsers
      <4> HIDE DEF m
      <4> QED BY <3>2, <4>1 DEF Looked, RowComes
    <3> QED BY <2>1, <3>1, <3>2
  <2>3. PICK e, y : m = M(e, y) /\ Looked(d, z, k, e, y)
    BY <2>2
  <2>4. ByField(d, x, f, v, e, y, NoAnswer)
    BY <1>3, <2>3 DEF ByField
  <2>5. Comes(d, x, e, y, NoAnswer)
    BY <2>4 DEF Comes
  <2> HIDE DEF m
  <2> QED BY <2>3, <2>5, LandsAt DEF m
<1> QED BY <1>2, <1>3

(* DELETE of a field of a row.                                             *)
LEMMA DelFieldLands ==
  ASSUME NEW d, IsTableDb(d), NEW x, IsIndex(x), NEW k \in RowKey, NEW f \in Written
  PROVE  Lands(d, x, DelResult(TraverseTo(M(d, x), AddressOfField(k, f), Finding)).m, NoAnswer)
<1> DEFINE m == DelResult(TraverseTo(M(d, x), AddressOfField(k, f), Finding)).m
<1>1. \/ Thrown(m)
      \/ m = M(d, x)
      \/ \E e : m = M(e, x) /\ FieldGiven(d, k, f, NoVal, e)
  BY Modes, DelOfField
<1> HIDE DEF m
<1>2. ASSUME NEW e, m = M(e, x), e = d \/ FieldGiven(d, k, f, NoVal, e) PROVE Lands(d, x, m, NoAnswer)
  <2>1. Comes(d, x, e, x, NoAnswer)
    BY <1>2 DEF Comes, Quietly
  <2> QED BY <1>2, <2>1, LandsAt
<1> QED BY <1>1, <1>2 DEF Lands, m

(* Every DELETE of a client.                                               *)
LEMMA DelLands ==
  ASSUME NEW d, IsTableDb(d), NEW x, IsIndex(x), NEW keys \in Client.del
  PROVE  Lands(d, x, DelResult(TraverseTo(M(d, x), keys, Finding)).m, NoAnswer)
<1>1. keys \in RowAddresses \cup FieldAddresses
  BY TableClientAssumption
<1> DEFINE Goal == Lands(d, x, DelResult(TraverseTo(M(d, x), keys, Finding)).m, NoAnswer)
<1>2. ASSUME NEW k \in RowKey, keys = AddressOfRow(k) PROVE Goal
  BY <1>2, DelRowLands
<1>3. ASSUME NEW f \in Field, NEW v \in Val, keys = AddressBy(f, v) PROVE Goal
  BY <1>3, DelByLands
<1>4. ASSUME NEW k \in RowKey, NEW f \in Written, keys = AddressOfField(k, f) PROVE Goal
  BY <1>4, DelFieldLands
<1> HIDE DEF Goal
<1> QED BY <1>1, <1>2, <1>3, <1>4 DEF RowAddresses, FieldAddresses, Goal

(* Commands that read, or are refused.                                     *)

(* GET of users, or of a row by its key.                                   *)
LEMMA GetPlainLands ==
  ASSUME NEW d, IsTableDb(d), NEW x, IsIndex(x), NEW keys, NEW fields, NEW exclude,
         keys = <<Users>> \/ \E k \in RowKey : keys = AddressOfRow(k)
  PROVE  LET t == TraverseTo(M(d, x), keys, Finding)
         IN Settled(t.m) /\ Lands(d, x, t.m, TableReply(Got(keys, "", fields, exclude, Found(t, fields, exclude))))
<1> DEFINE t == TraverseTo(M(d, x), keys, Finding)
           got == Got(keys, "", fields, exclude, Found(t, fields, exclude))
<1>1. t.m = M(d, x)
  <2>1. CASE keys = <<Users>>
    <3>1. TraverseTo(M(d, x), <<Users>>, Finding) = Walked(d, x, AtUsers, Going)
      BY Modes, WalkToUsers
    <3> QED BY <2>1, <3>1 DEF Walked
  <2>2. ASSUME NEW k \in RowKey, keys = AddressOfRow(k) PROVE t.m = M(d, x)
    <3>1. \E o : t = Walked(d, x, AtRow(k, o), Going)
      BY <2>2, Modes, WalkToRow
    <3> QED BY <3>1 DEF Walked
  <2> QED BY <2>1, <2>2
<1>2. TableReply(got) = NoAnswer
  <2> DEFINE by == ""
             doc == Found(t, fields, exclude)
  <2>1. got = Got(keys, by, fields, exclude, doc)
    OBVIOUS
  <2>2. ~(Len(keys) = 2 /\ Len(keys[2]) = 2)
    BY AddressesTold
  <2> HIDE DEF t, got, by, doc
  <2> QED BY <2>1, <2>2, GetRemembered
<1>3. Comes(d, x, d, x, NoAnswer)
  BY DEF Comes, Quietly
<1>4. Lands(d, x, M(d, x), NoAnswer)
  BY <1>3, LandsAt
<1> HIDE DEF t, got
<1>5. Settled(t.m) /\ Lands(d, x, t.m, TableReply(got))
  BY <1>1, <1>2, <1>4 DEF Settled
<1> QED BY <1>5 DEF t, got

(* GET of a row by a field.                                                *)
LEMMA GetByLands ==
  ASSUME NEW d, IsTableDb(d), NEW x, IsIndex(x), NEW f \in Field, NEW v \in Val,
         NEW fields, NEW exclude, NoNames(fields), NoNames(exclude)
  PROVE  LET t == TraverseTo(M(d, x), AddressBy(f, v), Finding)
         IN Settled(t.m) /\ Lands(d, x, t.m, TableReply(Got(AddressBy(f, v), "", fields, exclude, Found(t, fields, exclude))))
<1> DEFINE t == TraverseTo(M(d, x), AddressBy(f, v), Finding)
           found == Found(t, fields, exclude)
           got == Got(AddressBy(f, v), "", fields, exclude, found)
           z == IndexedBy(d, x, f)
           k == LookKey(z, f, v)
<1>1. /\ Ready(d, x, f) => t = Descend(Walked(d, z, AtUsers, Going), k, Finding)
      /\ ~Ready(d, x, f) => Thrown(t.m)
  BY Modes, WalkByField DEF Thrown
<1>2. TableReply(got) = [field |-> f, val |-> v, row |-> Attrs(found, <<>>)]
  <2> DEFINE by == ""
             keys == AddressBy(f, v)
  <2>1. got = Got(keys, by, fields, exclude, found)
    OBVIOUS
  <2>2. Len(keys) = 2 /\ Len(keys[2]) = 2 /\ keys[2][1] = f /\ keys[2][2] = v
    BY AddressesTold
  <2> HIDE DEF got, by, keys, found
  <2> QED BY <2>1, <2>2, GetRemembered
<1>3. CASE Ready(d, x, f)
  <2>1. IsIndex(z) /\ k \in RowKey \cup {Blank}
    BY <1>3, IndexedByIsIndex, LookKeys
  <2>2. t.m = M(d, z) /\ Attrs(found, <<>>) = RowIn(d, k)
    <3> HIDE DEF k, z, t
    <3> QED BY <1>1, <1>3, <2>1, Modes, GetBelowUsers
  <2>3. Shown(d, z, k, f, v, d, z, TableReply(got))
    BY <1>2, <2>2 DEF Shown
  <2>4. ByField(d, x, f, v, d, z, TableReply(got))
    BY <1>3, <2>3 DEF ByField
  <2>5. Comes(d, x, d, z, TableReply(got))
    BY <2>4 DEF Comes
  <2> HIDE DEF t, got, z
  <2>6. Settled(t.m) /\ Lands(d, x, t.m, TableReply(got))
    BY <2>2, <2>5, LandsAt DEF Settled
  <2> QED BY <2>6 DEF t, got
<1>4. CASE ~Ready(d, x, f)
  BY <1>1, <1>4 DEF Lands, Settled
<1> QED BY <1>3, <1>4

(* Every GET of a client.                                                  *)
LEMMA GetLands ==
  ASSUME NEW d, IsTableDb(d), NEW x, IsIndex(x), NEW keys, NEW fields, NEW exclude,
         NEW c \in Client.get, c[1] = keys, c[2] = fields, c[3] = exclude
  PROVE  LET t == TraverseTo(M(d, x), keys, Finding)
         IN Settled(t.m) /\ Lands(d, x, t.m, TableReply(Got(keys, "", fields, exclude, Found(t, fields, exclude))))
<1>1. \/ keys = <<Users>> \/ \E k \in RowKey : keys = AddressOfRow(k)
      \/ keys \in RowAddresses /\ NoNames(fields) /\ NoNames(exclude)
  BY TableClientAssumption DEF NoNames
<1>2. CASE keys = <<Users>> \/ \E k \in RowKey : keys = AddressOfRow(k)
  BY <1>2, GetPlainLands
<1> DEFINE t == TraverseTo(M(d, x), keys, Finding)
           Goal == Settled(t.m) /\ Lands(d, x, t.m, TableReply(Got(keys, "", fields, exclude, Found(t, fields, exclude))))
<1>3. ASSUME NEW f \in Field, NEW v \in Val, keys = AddressBy(f, v), NoNames(fields), NoNames(exclude)
      PROVE  Goal
  BY <1>3, GetByLands
<1>4. CASE keys \in RowAddresses /\ NoNames(fields) /\ NoNames(exclude)
  <2>1. (\E k \in RowKey : keys = AddressOfRow(k)) => Goal
    BY <1>2
  <2> HIDE DEF Goal
  <2>2. Goal
    BY <1>3, <1>4, <2>1 DEF RowAddresses
  <2> QED BY <2>2 DEF Goal
<1> QED BY <1>1, <1>2, <1>4

(* LPUT to users and DECLARE of it.                                        *)
LEMMA RefusedLands ==
  ASSUME NEW d, IsTableDb(d), NEW x, IsIndex(x)
  PROVE  LET t == TraverseTo(M(d, x), <<Users>>, Creating)
         IN /\ \A value : Lands(d, x, LputResult(t, value).m, NoAnswer)
            /\ Lands(d, x, DeclareResult(t, Dict).m, NoAnswer)
<1> DEFINE t == TraverseTo(M(d, x), <<Users>>, Creating)
<1>1. t = Walked(d, x, AtUsers, Going)
  BY Modes, WalkToUsers
<1>2. \A value : LputResult(t, value).m = M(d, x)
  BY <1>1, LputUsers DEF Refused
<1>3. DeclareResult(t, Dict).m = M(d, x)
  BY <1>1, DeclareUsers DEF Refused
<1>4. Comes(d, x, d, x, NoAnswer)
  BY DEF Comes, Quietly
<1>5. Lands(d, x, M(d, x), NoAnswer)
  BY <1>4, LandsAt
<1> HIDE DEF t
<1>6. (\A value : Lands(d, x, LputResult(t, value).m, NoAnswer)) /\ Lands(d, x, DeclareResult(t, Dict).m, NoAnswer)
  BY <1>2, <1>3, <1>5
<1> QED BY <1>6 DEF t

-----------------------------------------------------------------------------
(* The database's commands are steps of the table.                         *)

(* Actions of the table among its steps.                                   *)
LEMMA TableSteps ==
  /\ \A k \in RowKey, r \in Row : Table!SetRow(k, r) => Table!Next
  /\ \A k \in RowKey : Table!DelRow(k) => Table!Next
  /\ \A f \in Field, v \in Val : Table!GetBy(f, v) \/ Table!DelBy(f, v) => Table!Next
  /\ \A f \in Field, v \in Val, r \in Row : Table!SetBy(f, v, r) => Table!Next
  /\ \A t \in Table!Tables : Table!Replace(t) => Table!Next
  /\ \A k \in RowKey, f \in Written, v \in Val \cup {NoVal} : Table!SetField(k, f, v) => Table!Next
  /\ Table!Other \/ Table!Kill => Table!Next
<1>1. Table!Row = Row
  BY DEF Table!Row, Row
<1> QED BY <1>1, Zenon DEF Table!Next

(* Rows are a table.                                                       *)
LEMMA RowsAreTable ==
  ASSUME NEW e, IsTableDb(e)
  PROVE  RowsIn(e) \in Table!Tables
<1>1. DOMAIN RowsIn(e) \subseteq RowKey /\ \A k \in DOMAIN RowsIn(e) : RowsIn(e)[k] \in Row
  BY ObjectsAndRows
<1>2. RowsIn(e) = [k \in DOMAIN RowsIn(e) |-> RowsIn(e)[k]]
  BY DEF RowsIn
<1>3. RowsIn(e) \in [DOMAIN RowsIn(e) -> Row]
  BY <1>1, <1>2
<1>4. Table!Row = Row
  BY DEF Table!Row, Row
<1> QED BY <1>1, <1>3, <1>4 DEF Table!Tables

(* What a command came to is a step of the table.                          *)
LEMMA ComesIsStep ==
  ASSUME Held, Up, NEW e, NEW y, Took(e, y), Comes(db, mappers, e, y, TableReply(reply'))
  PROVE  Table!Next
<1>1. IsTableDb(db) /\ IsIndex(mappers)
  BY DEF Held
<1>2. CASE Quiet /\ Quietly(db, mappers, e, y)
  <2>1. CASE e = db /\ y = mappers
    BY <1>2, <2>1, NothingChanged, TableSteps
  <2>2. ASSUME NEW k \in RowKey, NEW r \in Row, RowGiven(db, mappers, k, r, e, y) PROVE Table!Next
    <3>1. Table!SetRow(k, r)
      BY <1>2, <2>2, RowAssigned DEF Up, Table!SetRow
    <3> QED BY <3>1, TableSteps
  <2>3. ASSUME NEW k \in RowKey, RowGone(db, mappers, k, e, y) PROVE Table!Next
    <3>1. Table!DelRow(k)
      BY <1>2, <2>3, RowErased DEF Up, Table!DelRow
    <3> QED BY <3>1, TableSteps
  <2>4. ASSUME y = mappers, NEW k \in RowKey, NEW f \in Written, NEW v \in Val \cup {NoVal},
               FieldGiven(db, k, f, v, e)
        PROVE  Table!Next
    BY <1>2, <2>4, FieldSet, TableSteps
  <2>5. CASE y = NoMappers /\ IsTableDb(e) /\ Phantom(e) = FALSE
    BY <1>2, <2>5, TableReplaced, RowsAreTable, TableSteps
  <2> QED BY <1>2, <2>1, <2>2, <2>3, <2>4, <2>5 DEF Quietly, RowComes
<1>3. ASSUME NEW f \in Field, NEW v \in Val, ByField(db, mappers, f, v, e, y, TableReply(reply'))
      PROVE  Table!Next
  <2> DEFINE z == IndexedBy(db, mappers, f)
             k == LookKey(z, f, v)
  <2>1. /\ Ready(db, mappers, f)
        /\ (Quiet /\ Looked(db, z, k, e, y)) \/ Shown(db, z, k, f, v, e, y, TableReply(reply'))
    BY <1>3 DEF ByField, Quiet
  <2>2. CASE Shown(db, z, k, f, v, e, y, TableReply(reply'))
    <3>1. Table!GetBy(f, v)
      BY <2>1, <2>2, GotBy DEF Shown
    <3> QED BY <3>1, TableSteps
  <2>3. CASE Quiet /\ k = Blank /\ y = z /\ e = db
    <3>1. Table!DelBy(f, v)
      BY <2>1, <2>3, DelByNothing
    <3> QED BY <3>1, TableSteps
  <2>4. CASE Quiet /\ k = Blank /\ y = z /\ BlankGiven(db, e)
    <3>1. NoFields \in Row
      BY DEF NoFields, Row
    <3>2. Table!SetBy(f, v, NoFields)
      BY <2>1, <2>4, SetByNothing DEF BlankGiven
    <3> QED BY <3>1, <3>2, TableSteps
  <2>5. ASSUME Quiet, k \in RowKey, NEW r \in Row, RowGiven(db, z, k, r, e, y) PROVE Table!Next
    <3>1. Table!SetBy(f, v, r)
      BY <2>1, <2>5, SetByFound
    <3> QED BY <3>1, TableSteps
  <2>6. CASE Quiet /\ k \in RowKey /\ RowGone(db, z, k, e, y)
    <3>1. Table!DelBy(f, v)
      BY <2>1, <2>6, DelByFound
    <3> QED BY <3>1, TableSteps
  <2> HIDE DEF z, k
  <2> QED BY <2>1, <2>2, <2>3, <2>4, <2>5, <2>6 DEF Looked, RowComes
<1> QED BY <1>2, <1>3 DEF Comes, Quiet

(* How a command leaves the database: ended, or again users alone.         *)
Kept == Failed \/ \E e, y : Took(e, y) /\ IsTableDb(e) /\ IsIndex(y)

(* A command that leaves such a machine.                                   *)
LEMMA LandedIsStep ==
  ASSUME Held, Up, NEW m, NEW replies, Become(m, replies),
         \A a \in replies : Lands(db, mappers, m, TableReply(a))
  PROVE  Table!Next /\ Kept
<1>1. CASE Failed
  BY <1>1, FailedIsKill, TableSteps DEF Kept
<1>2. CASE /\ m.fault # "throw" /\ reply' \in replies
           /\ db' = m.db /\ nodes' = m.nodes /\ mappers' = m.mappers /\ mappings' = m.mappings
           /\ UNCHANGED <<status, disk>>
  <2>1. Comes(db, mappers, m.db, m.mappers, TableReply(reply')) /\ Took(m.db, m.mappers)
    BY <1>2 DEF Lands, Thrown, Took
  <2>2. IsTableDb(m.db) /\ IsIndex(m.mappers)
    BY <2>1, ComesHeld DEF Held
  <2> QED BY <2>1, <2>2, ComesIsStep DEF Kept
<1> QED BY <1>1, <1>2 DEF Become, Failed

(* A command that writes.                                                  *)
LEMMA WroteIsStep ==
  ASSUME Held, Up, NEW res, Commit(res), Lands(db, mappers, res.m, NoAnswer)
  PROVE  Table!Next /\ Kept
<1> DEFINE replies == {Answer(res.wrote)}
           m == res.m
<1>1. Become(m, replies)
  BY DEF Commit
<1>2. \A a \in replies : TableReply(a) = NoAnswer
  BY WriteForgotten
<1>3. Lands(db, mappers, m, NoAnswer)
  OBVIOUS
<1> HIDE DEF replies, m
<1>4. \A a \in replies : Lands(db, mappers, m, TableReply(a))
  BY <1>2, <1>3
<1> QED BY <1>1, <1>4, LandedIsStep

(* A command that reads.                                                   *)
LEMMA SentIsStep ==
  ASSUME Held, Up, NEW m, NEW got, Send(m, got), Settled(m), Lands(db, mappers, m, TableReply(got))
  PROVE  Table!Next /\ Kept
<1>1. CASE Serializable(got.doc)
  <2> DEFINE replies == {got}
  <2>1. Become(m, replies)
    BY <1>1 DEF Send
  <2>2. \A a \in replies : Lands(db, mappers, m, TableReply(a))
    OBVIOUS
  <2> HIDE DEF replies
  <2> QED BY <2>1, <2>2, LandedIsStep
<1>2. CASE ~Serializable(got.doc)
  <2>1. Become(Faulted(m, "throw"), {got})
    BY <1>2 DEF Send
  <2>2. Failed
    BY <2>1, SettledFaults DEF Become, Thrown, Failed
  <2> QED BY <2>2, FailedIsKill, TableSteps DEF Kept
<1> QED BY <1>1, <1>2

(* A command that writes: it ends the process when it threw, and otherwise *)
(* leaves its machine and an answer the table does not remember.           *)
LEMMA Committed ==
  ASSUME NEW res, Commit(res)
  PROVE  /\ Thrown(res.m) => Failed
         /\ \A e, y : res.m = M(e, y) => Took(e, y) /\ Quiet
<1> DEFINE replies == {Answer(res.wrote)}
           m == res.m
<1>1. Become(m, replies)
  BY DEF Commit
<1>2. \A a : a \in replies => TableReply(a) = NoAnswer
  BY WriteForgotten
<1> HIDE DEF replies, m
<1>3. /\ Thrown(m) => Failed
      /\ \A e, y : m = M(e, y) => Took(e, y) /\ reply' \in replies
  BY <1>1, Becomes
<1> QED BY <1>2, <1>3 DEF Quiet, m

(* A listing of users is one of the clones of its rows.                    *)
LEMMA ListSent ==
  ASSUME Held, NEW f, NEW fields, NEW exclude, ListBy(<<Users>>, f, fields, exclude)
  PROVE  \E doc \in Clones(M(db, mappers), Users, f, fields, exclude) :
            Send(M(db, mappers), Got(<<Users>>, f, fields, exclude, doc))
<1> DEFINE t == ToFind(<<Users>>)
<1>1. Finding \in BOOLEAN /\ IsTableDb(db)
  BY Traversals DEF Held
<1>2. t = Walked(db, mappers, AtUsers, Going)
  BY <1>1, Traversals, WalkToUsers
<1>3. t.m = M(db, mappers) /\ t.frames = AtUsers
  BY <1>2 DEF Walked
<1>4. t.m.db = db /\ t.m.fault = "none" /\ DOMAIN t.m.mappings = {}
  BY <1>3, NothingUsed DEF M, Machine
<1>5. Indexable(db, Users)
  BY <1>1, TableDb DEF Indexable
<1> HIDE DEF t
<1>6. ~IsMapped(t.m, Location(AtUsers))
  BY <1>4 DEF IsMapped, MappingsAt
<1>7. \E doc \in Clones(t.m, Users, f, fields, exclude) : Send(t.m, Got(<<Users>>, f, fields, exclude, doc))
  BY <1>3, <1>4, <1>5, <1>6, UsersFrame DEF ListBy, t
<1> QED BY <1>3, <1>7

(* GET of the list of users by a field.                                    *)
LEMMA ListStep ==
  ASSUME Held, Up, NEW f, NEW fields, NEW exclude, ListBy(<<Users>>, f, fields, exclude)
  PROVE  Table!Next /\ Kept
<1>1. PICK doc \in Clones(M(db, mappers), Users, f, fields, exclude) :
            Send(M(db, mappers), Got(<<Users>>, f, fields, exclude, doc))
  BY ListSent
<1> DEFINE got == Got(<<Users>>, f, fields, exclude, doc)
           m == M(db, mappers)
<1>2. TableReply(got) = NoAnswer
  BY GetRemembered, AddressesTold
<1>3. Comes(db, mappers, db, mappers, NoAnswer)
  BY DEF Comes, Quietly
<1>4. Send(m, got) /\ Settled(m) /\ Lands(db, mappers, m, NoAnswer)
  BY <1>1, <1>3, LandsAt DEF Settled
<1> HIDE DEF got, m
<1> QED BY <1>2, <1>4, SentIsStep

-----------------------------------------------------------------------------
(* The invariant, and the implementation.                                  *)

(* The file's part of the invariant.                                       *)
DiskHeld ==
  /\ IsTableDb(disk.db) /\ IsIndex(disk.mappers) /\ ~Phantom(disk.db)
  /\ disk.nodes = NodesOf(disk.mappers) /\ disk.mappings = <<>>

TableInv == Held /\ DiskHeld

(* The client's commands.                                                  *)
LEMMA SetStep ==
  ASSUME Held, Up, NEW c \in Client.set, Set(c[1], c[2])
  PROVE  Table!Next /\ Kept
<1> DEFINE keys == c[1]
           value == c[2]
           res == SetResult(ToCreate(keys), value)
<1>1. c \in Client.set /\ c[1] = keys /\ c[2] = value
  OBVIOUS
<1>2. Lands(db, mappers, res.m, NoAnswer)
  <2> HIDE DEF keys, value
  <2> QED BY <1>1, Traversals, SetLands DEF Held
<1>3. Commit(res)
  BY DEF Set
<1> HIDE DEF res
<1> QED BY <1>2, <1>3, WroteIsStep

(* Every DELETE of a client is a step of the table.                        *)
LEMMA DelStep ==
  ASSUME Held, Up, NEW c \in Client.del, Del(c)
  PROVE  Table!Next /\ Kept
<1> DEFINE res == DelResult(ToFind(c))
<1>1. Lands(db, mappers, res.m, NoAnswer)
  BY Traversals, DelLands DEF Held
<1>2. Commit(res)
  BY DEF Del
<1> HIDE DEF res
<1> QED BY <1>1, <1>2, WroteIsStep

(* LPUT to users and DECLARE of it are refused.                            *)
LEMMA RefusedStep ==
  ASSUME Held, Up, (\E value : Lput(<<Users>>, value)) \/ Declare(<<Users>>, Dict)
  PROVE  Table!Next /\ Kept
<1> DEFINE t == ToCreate(<<Users>>)
<1>1. /\ \A value : Lands(db, mappers, LputResult(t, value).m, NoAnswer)
      /\ Lands(db, mappers, DeclareResult(t, Dict).m, NoAnswer)
  BY Traversals, RefusedLands DEF Held
<1>2. (\E value : Commit(LputResult(t, value))) \/ Commit(DeclareResult(t, Dict))
  BY DEF Lput, Declare
<1> HIDE DEF t
<1> QED BY <1>1, <1>2, WroteIsStep

(* Every GET of a client is a step of the table.                           *)
LEMMA GetStep ==
  ASSUME Held, Up, NEW c \in Client.get, GetAt(c[1], c[2], c[3])
  PROVE  Table!Next /\ Kept
<1> DEFINE keys == c[1]
           fields == c[2]
           exclude == c[3]
           t == ToFind(keys)
           got == Got(keys, "", fields, exclude, Found(t, fields, exclude))
           m == t.m
<1>1. c \in Client.get /\ c[1] = keys /\ c[2] = fields /\ c[3] = exclude
  OBVIOUS
<1>2. Settled(m) /\ Lands(db, mappers, m, TableReply(got))
  <2> HIDE DEF keys, fields, exclude
  <2> QED BY <1>1, Traversals, GetLands DEF Held
<1>3. Send(m, got)
  BY DEF GetAt
<1> HIDE DEF m, got
<1> QED BY <1>2, <1>3, SentIsStep

(* The save thread, the end of the process and its restart.                *)
LEMMA SaveStep ==
  ASSUME TableInv, Up, Save
  PROVE  Table!Next /\ TableInv'
<1>1. CASE Serializable(db) /\ disk' = [db |-> db, nodes |-> nodes, mappers |-> mappers, mappings |-> mappings]
           /\ UNCHANGED <<memory, status, reply>>
  <2>1. IsTableDb(db)
    BY DEF TableInv, Held
  <2>2. ~Phantom(db)
    <3>1. Blank \in Name /\ RowOf(Blank) # <<>>
      BY Literals, RowPaths
    <3>2. Phantom(db) => db[RowOf(Blank)] = Empty
      BY <2>1, <3>1, TableDb, Literals DEF Phantom
    <3> QED BY <1>1, <3>1, <3>2 DEF Serializable, Phantom
  <2>3. Table!Save
    BY <1>1, <2>2, PhantomIs DEF Up, memory, Table!Save
  <2>4. TableInv'
    BY <1>1, <2>2 DEF memory, TableInv, Held, DiskHeld
  <2> QED BY <2>3, <2>4 DEF Table!Next
<1>2. CASE Failed
  <2>1. TableInv'
    BY <1>2 DEF Failed, End, memory, TableInv, Held, DiskHeld
  <2> QED BY <1>2, <2>1, FailedIsKill, TableSteps
<1> QED BY <1>1, <1>2 DEF Save, Failed

(* The end of the process from outside.                                    *)
LEMMA KillStep ==
  ASSUME TableInv, Up, Kill
  PROVE  Table!Next /\ TableInv'
<1>1. Table!Kill
  BY DEF Up, Kill, End, memory, Table!Kill, Table!Crash
<1>2. TableInv'
  BY DEF Kill, End, memory, TableInv, Held, DiskHeld
<1> QED BY <1>1, <1>2, TableSteps

(* The restart, from a file with no Empty object.                          *)
LEMMA RestartStep ==
  ASSUME TableInv, Restart
  PROVE  Table!Next /\ TableInv'
<1>1. /\ db' = disk.db /\ nodes' = disk.nodes /\ mappers' = disk.mappers
      /\ disk' = disk /\ ~Up /\ status' = "up" /\ reply' = NoAnswer
  BY DEF Restart, Up
<1>2. mappings' = <<>>
  BY DEF Restart, TableInv, DiskHeld
<1>3. TableInv'
  BY <1>1, <1>2 DEF TableInv, Held, DiskHeld
<1>4. TableReply(NoAnswer) = NoAnswer
  BY WriteForgotten DEF NoAnswer
<1>5. RowsIn(db)' = RowsIn(disk.db) /\ MapperIn(mappers)' = MapperIn(disk.mappers)
  BY <1>1
<1>6. (Append(Users, "") \in DOMAIN db)' = FALSE
  <2> DEFINE blank == Append(Users, "")
             there == DOMAIN db'
  <2>1. blank \notin there
    BY <1>1 DEF TableInv, DiskHeld, Phantom, RowOf, Child, Blank
  <2> HIDE DEF blank, there
  <2>2. (blank \in there) = FALSE
    BY <2>1
  <2> QED BY <2>2 DEF blank, there
<1>7. Table!Restart
  BY <1>1, <1>4, <1>5, <1>6 DEF Up, Table!Restart
<1> QED BY <1>3, <1>7 DEF Table!Next

(* The invariant holds at first, and the table is empty.                   *)
LEMMA TableInvInit == Init => TableInv /\ Table!Init
<1> SUFFICES ASSUME Init PROVE TableInv /\ Table!Init
  OBVIOUS
<1>1. IsTableDb(db) /\ KeysOf(db, Users) = {}
  BY TableClientAssumption DEF Init
<1>2. DOMAIN db \subseteq Path
  BY <1>1, TableDb
<1>3. ~Phantom(db)
  BY <1>1, <1>2, RowsRead, Literals DEF Phantom
<1>4. RowsIn(db) = Table!NoRows
  BY <1>1 DEF RowsIn, Table!NoRows, Table!NoFields
<1>5. IsIndex(NoMappers) /\ NodesOf(NoMappers) = {<<>>} /\ Users \notin DOMAIN NoMappers
  BY DEF IsIndex, NoMappers, NodesOf
<1>6. MapperIn(NoMappers) = Table!EmptyMapper
  <2>1. MapperIn(NoMappers) = EmptyMapper
    BY <1>5, MapperInIsPlain, EmptyMapperPlain DEF MapperOf
  <2> QED BY <2>1 DEF EmptyMapper, Table!EmptyMapper
<1>7. /\ nodes = {<<>>} /\ mappers = NoMappers /\ mappings = <<>> /\ Up
      /\ disk = [db |-> db, nodes |-> nodes, mappers |-> mappers, mappings |-> mappings]
      /\ reply = NoAnswer
  BY DEF Init, Up
<1>8. TableInv
  BY <1>1, <1>3, <1>5, <1>7 DEF TableInv, Held, DiskHeld
<1>9. TableReply(NoAnswer) = NoAnswer
  BY WriteForgotten DEF NoAnswer
<1>10. (Append(Users, "") \in DOMAIN db) = FALSE
  <2> DEFINE blank == Append(Users, "")
             there == DOMAIN db
  <2>1. blank \notin there
    BY <1>3 DEF Phantom, RowOf, Child, Blank
  <2> HIDE DEF blank, there
  <2>2. (blank \in there) = FALSE
    BY <2>1
  <2> QED BY <2>2 DEF blank, there
<1>11. Table!Init
  BY <1>4, <1>6, <1>7, <1>9, <1>10 DEF Up, Table!Init
<1> QED BY <1>8, <1>11

(* A command that keeps the database keeps the invariant.                  *)
LEMMA KeptHolds ==
  ASSUME TableInv, Kept
  PROVE  TableInv'
<1>1. CASE Failed
  BY <1>1 DEF Failed, End, memory, TableInv, Held, DiskHeld
<1>2. ASSUME NEW e, NEW y, Took(e, y), IsTableDb(e), IsIndex(y) PROVE TableInv'
  BY <1>2 DEF Took, TableInv, Held, DiskHeld
<1> QED BY <1>1, <1>2 DEF Kept

(* Every step keeps the invariant and is a step of the table, or leaves    *)
(* the table alone.                                                        *)
LEMMA TableInvNext == TableInv /\ [Next]_vars => TableInv' /\ [Table!Next]_(Table!vars)
<1> SUFFICES ASSUME TableInv, [Next]_vars PROVE TableInv' /\ [Table!Next]_(Table!vars)
  OBVIOUS
<1>1. Held
  BY DEF TableInv
<1>2. ASSUME Table!Next, Kept PROVE TableInv' /\ [Table!Next]_(Table!vars)
  BY <1>2, KeptHolds
<1>3. ASSUME Up, NEW c \in Client.set, Set(c[1], c[2]) PROVE TableInv' /\ [Table!Next]_(Table!vars)
  BY <1>1, <1>2, <1>3, SetStep
<1>4. ASSUME Up, NEW c \in Client.lput, Lput(c[1], c[2]) PROVE TableInv' /\ [Table!Next]_(Table!vars)
  <2> DEFINE value == c[2]
  <2>1. Lput(<<Users>>, value)
    BY <1>4, TableClientAssumption
  <2> HIDE DEF value
  <2>2. Table!Next /\ Kept
    BY <1>1, <1>4, <2>1, RefusedStep
  <2> QED BY <1>2, <2>2
<1>5. ASSUME Up, NEW c \in Client.del, Del(c) PROVE TableInv' /\ [Table!Next]_(Table!vars)
  BY <1>1, <1>2, <1>5, DelStep
<1>6. ASSUME Up, NEW c \in Client.declare, Declare(c[1], c[2]) PROVE TableInv' /\ [Table!Next]_(Table!vars)
  <2>1. Declare(<<Users>>, Dict)
    BY <1>6, TableClientAssumption
  <2>2. Table!Next /\ Kept
    BY <1>1, <1>6, <2>1, RefusedStep
  <2> QED BY <1>2, <2>2
<1>7. ASSUME Up, NEW c \in Client.get, GetAt(c[1], c[2], c[3]) PROVE TableInv' /\ [Table!Next]_(Table!vars)
  BY <1>1, <1>2, <1>7, GetStep
<1>8. ASSUME Up, NEW c \in Client.list, ListBy(c[1], c[2], c[3], c[4])
      PROVE  TableInv' /\ [Table!Next]_(Table!vars)
  <2> DEFINE f == c[2]
             fields == c[3]
             exclude == c[4]
  <2>1. ListBy(<<Users>>, f, fields, exclude)
    BY <1>8, TableClientAssumption
  <2> HIDE DEF f, fields, exclude
  <2>2. Table!Next /\ Kept
    BY <1>1, <1>8, <2>1, ListStep
  <2> QED BY <1>2, <2>2
<1>9. Client.map = {} /\ Client.unmap = {}
  BY TableClientAssumption
<1>10. ASSUME Up, Save PROVE TableInv' /\ [Table!Next]_(Table!vars)
  BY <1>10, SaveStep
<1>11. ASSUME Up, Kill PROVE TableInv' /\ [Table!Next]_(Table!vars)
  BY <1>11, KillStep
<1>12. ASSUME Restart PROVE TableInv' /\ [Table!Next]_(Table!vars)
  BY <1>12, RestartStep
<1>13. ASSUME UNCHANGED vars PROVE TableInv' /\ [Table!Next]_(Table!vars)
  <2>1. TableInv'
    BY <1>13 DEF vars, memory, TableInv, Held, DiskHeld
  <2>2. UNCHANGED Table!vars
    BY <1>13 DEF vars, memory, Table!vars
  <2> QED BY <2>1, <2>2
<1> QED
  BY <1>3, <1>4, <1>5, <1>6, <1>7, <1>8, <1>9, <1>10, <1>11, <1>12, <1>13 DEF Next, Serve, Up

(* RukoDb implements IndexedTable: for clients that stay inside users,     *)
(* every behaviour of the traversal, the bookkeeping of handleDelete and   *)
(* handleCreate, the saves and the restarts is one of the table with one   *)
(* mapper.                                                                 *)
THEOREM DatabaseImplementsTable == Spec => ImplementsTable
<1>1. Init => TableInv /\ Table!Init
  BY TableInvInit
<1>2. TableInv /\ [Next]_vars => TableInv' /\ [Table!Next]_(Table!vars)
  BY TableInvNext
<1> QED BY <1>1, <1>2, PTL DEF Spec, ImplementsTable, Table!Spec

-----------------------------------------------------------------------------
(* What the database has from the table.                                   *)

(* What is proved of IndexedTable, for the table in the database.          *)
Facts == INSTANCE IndexedTableProofs WITH
  Key <- RowKey, Interactive <- FALSE, NoReply <- NoAnswer,
  rows <- RowsIn(db),
  phantom <- Append(Users, "") \in DOMAIN db,
  mapper <- MapperIn(mappers),
  status <- IF status = "up" THEN "up" ELSE "down",
  disk <- [rows |-> RowsIn(disk.db), mapper |-> MapperIn(disk.mappers)],
  reply <- TableReply(reply)

(* The steps of the table are those the theorems of IndexedTable speak of. *)
LEMMA SameNext == Table!Next => Facts!Next
BY Zenon DEF Table!Next, Facts!Next, 
  Table!SetRow, Facts!SetRow, Table!DelRow, Facts!DelRow, Table!GetBy, Facts!GetBy, Table!DelBy, Facts!DelBy, 
  Table!SetBy, Facts!SetBy, Table!IndexThrows, Facts!IndexThrows, Table!Replace, Facts!Replace, Table!SetField, Facts!SetField,
  Table!DelField, Facts!DelField, Table!Other, Facts!Other, Table!Save, Facts!Save, Table!Kill, Facts!Kill, Table!Restart, Facts!Restart,
  Table!Assign, Facts!Assign, Table!Erase, Facts!Erase, Table!Throw, Facts!Throw, Table!Crash, Facts!Crash, Table!Put, Facts!Put,
  Table!Without, Facts!Without, Table!RowAt, Facts!RowAt, Table!IndexReady, Facts!IndexReady, Table!Indexed, Facts!Indexed,
  Table!Resolve, Facts!Resolve, Table!NoFields, Facts!NoFields, Table!EmptyMapper, Facts!EmptyMapper, 
  Table!HasIndex, Facts!HasIndex, Table!Get, Facts!Get, Table!Hooked, Facts!Hooked, Table!Clashes, Facts!Clashes,
  Table!WithEntries, Facts!WithEntries, Table!Register, Facts!Register, Table!RegisterThrows, Facts!RegisterThrows,
  Table!Unregister, Facts!Unregister, Table!Holders, Facts!Holders, Table!OneToOne, Facts!OneToOne, Table!WithIndex, Facts!WithIndex,
  Table!CreateIndex, Facts!CreateIndex, Table!CreateIndexThrows, Facts!CreateIndexThrows, Table!Tables, Facts!Tables, Table!Row, Facts!Row

(* So are its initial states,                                              *)
LEMMA SameInit == Table!Init => Facts!Init
BY DEF Table!Init, Facts!Init, Table!NoRows, Facts!NoRows, Table!NoFields, Facts!NoFields,
       Table!EmptyMapper, Facts!EmptyMapper

(* its variables,                                                          *)
LEMMA SameVars == UNCHANGED Table!vars => UNCHANGED Facts!vars
BY DEF Table!vars, Facts!vars

(* and the exactness of its index.                                         *)
LEMMA SameExact == Facts!LiveIndexExact => Table!LiveIndexExact
BY DEF Table!LiveIndexExact, Facts!LiveIndexExact, Table!Exact, Facts!Exact,
       Table!Holders, Facts!Holders, Table!Get, Facts!Get

(* While the process runs, the index of users on every field that clients  *)
(* write only with whole rows is exact (IndexManager::resolveIndexKey,     *)
(* handleDelete, handleCreate; the load of RukoDb), for any keys, fields   *)
(* and values.                                                             *)
THEOREM UsersExact == Spec => []Table!LiveIndexExact
<1>1. Facts!TableAssumption
  BY RowKeyAssumption DEF Facts!TableAssumption
<1>2. Facts!KeyMapperAssumption
  BY KeyMapperAssumption DEF Facts!KeyMapperAssumption
<1>3. Facts!Spec => []Facts!LiveIndexExact
  BY <1>1, <1>2, Facts!ServerIndexExact, PTL
<1>4. Table!Init => Facts!Init
  BY SameInit
<1>5. [Table!Next]_(Table!vars) => [Facts!Next]_(Facts!vars)
  BY SameNext, SameVars
<1>6. Table!Spec => Facts!Spec
  BY <1>4, <1>5, PTL DEF Table!Spec, Facts!Spec
<1>7. Facts!LiveIndexExact => Table!LiveIndexExact
  BY SameExact
<1> QED BY <1>3, <1>6, <1>7, DatabaseImplementsTable, PTL DEF ImplementsTable

(* What IndexExact expects of users are the table's holders.               *)
LEMMA UsersExpected ==
  ASSUME Held, NEW f \in Field, NEW v \in Val
  PROVE  Expected(Users, f, v) = {<<k>> : k \in Holders(RowsIn(db), f, v)}
<1>1. IsTableDb(db) /\ DOMAIN mappings = {} /\ Users \in DOMAIN db
  BY TableDb DEF Held
<1>2. Expected(Users, f, v) = {<<k>> : k \in {k \in KeysOf(db, Users) : Attrs(db, Append(Users, k))[f] = v}}
  BY <1>1 DEF Expected
<1>3. {k \in KeysOf(db, Users) : Attrs(db, Append(Users, k))[f] = v} = Holders(Objects(db), f, v)
  BY DEF Holders, Objects, RowOf, Child
<1>4. Holders(Objects(db), f, v) = Holders(RowsIn(db), f, v)
  BY <1>1, ObjectsAndRows, KeyMapperAssumption DEF Holders
<1> QED BY <1>2, <1>3, <1>4

(* So the entries of an exact table are what IndexExact expects.           *)
LEMMA ExactEntries ==
  ASSUME Held, Up, Table!LiveIndexExact, NEW f \in Field \ Written, f \in MapperOf(mappers).indices, NEW v \in Val
  PROVE  {MapperOf(mappers).key[f][v]} \ {NoKey} = Expected(Users, f, v)
<1> DEFINE mp == MapperOf(mappers)
<1>1. mp \in Mapper(RowPath) /\ MapperIn(mappers) = Plain(mp)
  BY MapperInIsPlain DEF Held
<1> HIDE DEF mp
<1>2. f \in Plain(mp).indices /\ Plain(mp).key[f][v] = Entry(mp, f, v)
      /\ mp.key[f][v] \in RowPath \cup {NoKey}
  BY <1>1, MapperEntries DEF mp
<1>3. Holders(RowsIn(db), f, v) = {Entry(mp, f, v)} \ {NoKey}
  BY <1>1, <1>2 DEF Up, Table!LiveIndexExact, Table!Exact, Table!Holders, Holders, Table!Get
<1>4. CASE mp.key[f][v] = NoKey
  <2>1. Holders(RowsIn(db), f, v) = {}
    BY <1>3, <1>4 DEF Entry
  <2> QED BY <1>4, <2>1, UsersExpected DEF mp
<1>5. CASE mp.key[f][v] # NoKey
  <2>1. PICK k \in RowKey : mp.key[f][v] = <<k>>
    BY <1>2, <1>5 DEF RowPath
  <2>2. Entry(mp, f, v) = k /\ <<k>> # NoKey /\ k # NoKey
    BY <1>5, <2>1, RowPathsAreKeys DEF Entry
  <2>3. Holders(RowsIn(db), f, v) = {k}
    BY <1>3, <2>2
  <2> QED BY <2>1, <2>2, <2>3, UsersExpected DEF mp
<1> QED BY <1>4, <1>5

(* The invariant of the refinement holds throughout.                       *)
LEMMA AlwaysHeld == Spec => []Held
<1>1. Init => TableInv
  BY TableInvInit
<1>2. TableInv /\ [Next]_vars => TableInv'
  BY TableInvNext
<1>3. TableInv => Held
  BY DEF TableInv
<1> QED BY <1>1, <1>2, <1>3, PTL DEF Spec

(* So is every index, when the clients write whole rows only.              *)
LEMMA HeldExact ==
  ASSUME Written = {}, Held, Table!LiveIndexExact
  PROVE  IndexExact
<1> SUFFICES ASSUME Up, NEW loc \in DOMAIN mappers, NEW f \in mappers[loc].indices, NEW v \in Val
             PROVE  {mappers[loc].key[f][v]} \ {NoKey} = Expected(loc, f, v)
  BY DEF IndexExact, Up
<1>1. loc = Users /\ mappers[loc] = MapperOf(mappers) /\ MapperOf(mappers) \in Mapper(RowPath)
  BY OnlyUsers DEF Held
<1>2. f \in Field \ Written
  BY <1>1 DEF Mapper
<1> QED BY <1>1, <1>2, ExactEntries

(* IndexExact of RukoDb holds when those clients write whole rows only:    *)
(* every index the server has built agrees with the database, through      *)
(* every command, save and restart.                                        *)
THEOREM UsersIndexExact ==
  ASSUME Written = {}
  PROVE  Spec => []IndexExact
<1>1. Held /\ Table!LiveIndexExact => IndexExact
  BY HeldExact
<1> QED BY <1>1, AlwaysHeld, UsersExact, PTL

-----------------------------------------------------------------------------
(* What listings say.                                                     *)

(* A path with a key before it. *)
LEMMA Prefixed ==
  ASSUME NEW v, NEW r \in Path
  PROVE  /\ (<<v>> \o r) # <<>> /\ (<<v>> \o r)[1] = v /\ Tail(<<v>> \o r) = r
         /\ Below(<<v>>, <<v>> \o r) = r /\ <<v>> \o <<>> = <<v>>
         /\ \A w : IsPrefix(<<w>>, <<v>> \o r) <=> w = v
<1> DEFINE S == Name \cup {v}
           q == <<v>> \o r
<1>1. r \in Seq(S) /\ <<v>> \in Seq(S) /\ <<>> \in Seq(S)
  BY DEF Path
<1> HIDE DEF S
<1>2. q \in Seq(S) /\ Len(q) = Len(r) + 1 /\ q[1] = v /\ \A i \in 1 .. Len(r) : q[i + 1] = r[i]
  BY <1>1
<1>3. <<v>> \o <<>> = <<v>>
  BY <1>1
<1>4. Tail(q) = r
  BY <1>1, <1>2
<1>5. Below(<<v>>, q) = r
  BY <1>1, <1>2 DEF Below
<1>6. ASSUME NEW w PROVE IsPrefix(<<w>>, q) <=> w = v
  <2> DEFINE T == S \cup {w}
             one == <<w>>
  <2>1. one \in Seq(T) /\ q \in Seq(T) /\ Len(one) = 1 /\ one[1] = w /\ Len(q) >= 1
    BY <1>1, <1>2
  <2> HIDE DEF T, one
  <2>2. /\ SubSeq(one, 1, 1) \in Seq(T) /\ Len(SubSeq(one, 1, 1)) = 1 /\ SubSeq(one, 1, 1)[1] = w
        /\ SubSeq(q, 1, 1) \in Seq(T) /\ Len(SubSeq(q, 1, 1)) = 1 /\ SubSeq(q, 1, 1)[1] = v
    BY <1>2, <2>1
  <2>3. SubSeq(one, 1, 1) = SubSeq(q, 1, 1) <=> w = v
    BY <2>2
  <2> QED BY <2>1, <2>3 DEF IsPrefix, one
<1> QED BY <1>2, <1>3, <1>4, <1>5, <1>6

(* A listing has a key for each document in it, and that document there. *)
LEMMA ListingHolds ==
  ASSUME NEW docs, \A w \in DOMAIN docs : /\ DOMAIN docs[w] \subseteq Path /\ <<>> \in DOMAIN docs[w]
                                          /\ docs[w] = [r \in DOMAIN docs[w] |-> docs[w][r]],
         NEW v
  PROVE  /\ <<v>> \in DOMAIN DictOf(docs) <=> v \in DOMAIN docs
         /\ v \in DOMAIN docs => ValueAt(DictOf(docs), <<v>>) = docs[v]
<1> DEFINE behind == UNION {{<<w>> \o r : r \in DOMAIN docs[w]} : w \in DOMAIN docs}
           all == DictOf(docs)
           one == <<v>>
<1>1. all = [q \in {<<>>} \cup behind |-> IF q = <<>> THEN Dict ELSE docs[q[1]][Tail(q)]]
  BY DEF DictOf
<1>2. one # <<>>
  OBVIOUS
<1>3. ASSUME NEW q \in behind
      PROVE  \E w \in DOMAIN docs : \E r \in DOMAIN docs[w] :
                q = <<w>> \o r /\ q # <<>> /\ q[1] = w /\ Tail(q) = r
                /\ (IsPrefix(one, q) <=> w = v) /\ (w = v => Below(one, q) = r)
  <2>0. PICK w \in DOMAIN docs : \E r \in DOMAIN docs[w] : q = <<w>> \o r
    OBVIOUS
  <2>1. PICK r \in DOMAIN docs[w] : q = <<w>> \o r
    BY <2>0
  <2>2. r \in Path
    OBVIOUS
  <2>3. /\ <<w>> \o r # <<>> /\ (<<w>> \o r)[1] = w /\ Tail(<<w>> \o r) = r
        /\ Below(<<w>>, <<w>> \o r) = r /\ (IsPrefix(one, <<w>> \o r) <=> v = w)
    BY <2>2, Prefixed
  <2>4. w = v => Below(one, q) = r
    BY <2>1, <2>3
  <2> HIDE DEF one, behind
  <2> QED BY <2>1, <2>3, <2>4
<1>4. ASSUME v \in DOMAIN docs, NEW r \in DOMAIN docs[v]
      PROVE  /\ one \o r \in behind /\ IsPrefix(one, one \o r) /\ Below(one, one \o r) = r
             /\ one \o r # <<>> /\ (one \o r)[1] = v /\ Tail(one \o r) = r /\ one \o <<>> = one
  <2>1. r \in Path
    BY <1>4
  <2> QED BY <1>4, <2>1, Prefixed
<1>5. one \in DOMAIN all <=> v \in DOMAIN docs
  <2>1. ASSUME one \in behind PROVE v \in DOMAIN docs
    <3>1. PICK w \in DOMAIN docs : one[1] = w
      BY <1>3, <2>1
    <3> QED BY <3>1
  <2>2. ASSUME v \in DOMAIN docs PROVE one \in behind
    <3>1. one \o <<>> \in behind /\ one \o <<>> = one
      BY <1>4, <2>2
    <3> QED BY <3>1
  <2> HIDE DEF behind, one
  <2> QED BY <1>1, <1>2, <2>1, <2>2
<1> HIDE DEF behind, all, one
<1>6. ASSUME v \in DOMAIN docs PROVE ValueAt(all, one) = docs[v]
  <2>1. Under(all, one) = {q \in behind : IsPrefix(one, q)}
    <3>1. ~IsPrefix(one, <<>>)
      <4>1. Len(one) = 1
        BY DEF one
      <4>2. Len(<<>>) = 0
        OBVIOUS
      <4> QED BY <4>1, <4>2 DEF IsPrefix
    <3> QED BY <1>1, <3>1 DEF Under
  <2>2. {Below(one, q) : q \in Under(all, one)} = DOMAIN docs[v]
    <3>1. \A q \in Under(all, one) : Below(one, q) \in DOMAIN docs[v]
      BY <1>3, <2>1
    <3>2. \A r \in DOMAIN docs[v] : one \o r \in Under(all, one) /\ Below(one, one \o r) = r
      BY <1>4, <1>6, <2>1
    <3> QED BY <3>1, <3>2
  <2>3. \A r \in DOMAIN docs[v] : all[one \o r] = docs[v][r]
    BY <1>1, <1>4, <1>6
  <2> QED BY <1>6, <2>2, <2>3 DEF ValueAt
<1> QED BY <1>5, <1>6 DEF all, one

(* An object as a function on paths. *)
IsTree(d) == DOMAIN d \subseteq Path /\ <<>> \in DOMAIN d /\ d = [r \in DOMAIN d |-> d[r]]

(* The filter of fields leaves an object. *)
LEMMA FilteredTree ==
  ASSUME NEW d, IsTree(d), NEW fields, NEW exclude
  PROVE  IsTree(Filtered(d, fields, exclude))
<1> DEFINE Stays(k) == (exclude = {} /\ k \in fields) \/ (fields = {} /\ k \notin exclude)
           left == [q \in {q \in DOMAIN d : q # <<>> => Stays(q[1])} |-> d[q]]
<1>1. Filtered(d, fields, exclude) = d \/ Filtered(d, fields, exclude) = left
  BY DEF Filtered
<1>2. IsTree(left)
  BY DEF IsTree
<1> HIDE DEF left
<1> QED BY <1>1, <1>2

(* What stands at a path is an object. *)
LEMMA ValueTree ==
  ASSUME NEW d, DOMAIN d \subseteq Path, NEW p \in DOMAIN d
  PROVE  IsTree(ValueAt(d, p))
<1>1. ValueAt(d, p) = [r \in {Below(p, q) : q \in Under(d, p)} |-> d[p \o r]]
  BY DEF ValueAt
<1>2. p \in Path /\ \A q \in Under(d, p) : q \in Path /\ IsPrefix(p, q)
  BY DEF Under
<1>3. {Below(p, q) : q \in Under(d, p)} \subseteq Path
  BY <1>2, BelowPath
<1>4. p \o <<>> = p
  BY <1>2 DEF Path
<1>5. <<>> \in Path
  BY DEF Path
<1>6. <<>> \in DOMAIN ValueAt(d, p)
  BY <1>2, <1>4, <1>5, ValueBelow
<1> DEFINE there == {Below(p, q) : q \in Under(d, p)}
<1> HIDE DEF there
<1> QED BY <1>1, <1>3, <1>6 DEF IsTree, there

(* The keys of users whose objects hold a value in a field. *)
KeysWith(f, v) == {k \in KeysOf(db, Users) : Attrs(db, RowOf(k))[f] = v}

(* What a scan of users expects. *)
LEMMA UsersScan ==
  ASSUME Held, NEW f, NEW v
  PROVE  Expected(Users, f, v) = {<<k>> : k \in KeysWith(f, v)}
<1>1. IsTableDb(db) /\ DOMAIN mappings = {} /\ Users \in DOMAIN db
  BY TableDb DEF Held
<1> QED BY <1>1 DEF Expected, KeysWith, RowOf, Child

(* An object below users, where a scan found it. *)
LEMMA AtKey ==
  ASSUME NEW k \in Name
  PROVE  At(Users, <<k>>) = ValueAt(db, RowOf(k))
<1>1. Users \o <<k>> = RowOf(k) /\ Len(<<k>>) = 1
  BY PathsOfUsers, AppendedPath DEF RowOf, Child
<1> QED BY <1>1 DEF At

(* A listing of users has every value that a row holds, with such a row. *)
LEMMA ClonesListed ==
  ASSUME Held, NEW f, NEW fields, NEW exclude,
         NEW doc \in Clones(M(db, mappers), Users, f, fields, exclude), NEW v \in Val
  PROVE  IF KeysWith(f, v) = {} THEN <<v>> \notin DOMAIN doc
         ELSE /\ <<v>> \in DOMAIN doc
              /\ \E k \in KeysWith(f, v) :
                    ValueAt(doc, <<v>>) = Filtered(ValueAt(db, RowOf(k)), fields, exclude)
<1> DEFINE rows == [k \in KeysOf(db, Users) |-> Attrs(db, Append(Users, k))]
           held == {w \in Val : Holders(rows, f, w) # {}}
<1>1. M(db, mappers).db = db
  BY DEF M, Machine
<1>2. \A w : Holders(rows, f, w) = KeysWith(f, w)
  BY DEF Holders, KeysWith, RowOf, Child
<1>3. PICK pick \in {c \in [held -> DOMAIN rows] : \A w \in held : c[w] \in Holders(rows, f, w)} :
         doc = DictOf([w \in held |-> Filtered(ValueAt(db, Append(Users, pick[w])), fields, exclude)])
  BY <1>1 DEF Clones
<1> DEFINE docs == [w \in held |-> Filtered(ValueAt(db, RowOf(pick[w])), fields, exclude)]
<1>4. doc = DictOf(docs)
  BY <1>3 DEF RowOf, Child
<1>5. \A w \in held : pick[w] \in KeysWith(f, w)
  BY <1>2, <1>3
<1> HIDE DEF rows
<1>6. v \in held <=> KeysWith(f, v) # {}
  BY <1>2
<1> HIDE DEF held
<1>7. ASSUME NEW w \in held PROVE IsTree(docs[w])
  <2>1. DOMAIN db \subseteq Path
    BY TableDb DEF Held
  <2>2. pick[w] \in KeysOf(db, Users)
    BY <1>5 DEF KeysWith
  <2>3. RowOf(pick[w]) \in DOMAIN db
    BY <2>1, <2>2, KeysAreChildren, PathsOfUsers DEF RowOf, Child
  <2> QED BY <2>1, <2>3, ValueTree, FilteredTree
<1>8. DOMAIN docs = held
  OBVIOUS
<1>9. v \in held => docs[v] = Filtered(ValueAt(db, RowOf(pick[v])), fields, exclude)
  OBVIOUS
<1> HIDE DEF docs
<1>10. /\ <<v>> \in DOMAIN doc <=> v \in held
       /\ v \in held => ValueAt(doc, <<v>>) = docs[v]
  BY <1>4, <1>7, <1>8, ListingHolds DEF IsTree
<1> QED BY <1>5, <1>6, <1>9, <1>10

(* A machine that is kept is answered; one that failed ends the process. *)
LEMMA BecomesReply ==
  ASSUME NEW m, NEW replies, Become(m, replies)
  PROVE  status' = "failed" \/ reply' \in replies
BY DEF Become, End

LEMMA CommitReplies ==
  ASSUME NEW res, Commit(res)
  PROVE  status' = "failed" \/ reply'.did = "write"
<1> DEFINE replies == {Answer(res.wrote)}
<1>1. Become(res.m, replies)
  BY DEF Commit
<1>2. \A a \in replies : a.did = "write"
  BY DEF Answer
<1> HIDE DEF replies
<1>3. status' = "failed" \/ reply' \in replies
  BY <1>1, BecomesReply
<1> QED BY <1>2, <1>3

(* What can follow on a reply: a command that writes or a restart, whose   *)
(* answers are no documents, the end, a GET, or a save.                    *)
LEMMA Replied ==
  ASSUME [Next]_vars
  PROVE  \/ status' \in {"failed", "killed"}
         \/ reply'.did = "write"
         \/ Up /\ \E c \in Client.get : GetAt(c[1], c[2], c[3])
         \/ Up /\ \E c \in Client.list : ListBy(c[1], c[2], c[3], c[4])
         \/ UNCHANGED <<db, mappings, status, reply>>
<1>1. ASSUME Up, NEW c \in Client.set, Set(c[1], c[2]) PROVE status' = "failed" \/ reply'.did = "write"
  BY <1>1, CommitReplies DEF Set
<1>2. ASSUME Up, NEW c \in Client.lput, Lput(c[1], c[2]) PROVE status' = "failed" \/ reply'.did = "write"
  BY <1>2, CommitReplies DEF Lput
<1>3. ASSUME Up, NEW c \in Client.del, Del(c) PROVE status' = "failed" \/ reply'.did = "write"
  BY <1>3, CommitReplies DEF Del
<1>4. ASSUME Up, NEW c \in Client.declare, Declare(c[1], c[2]) PROVE status' = "failed" \/ reply'.did = "write"
  BY <1>4, CommitReplies DEF Declare
<1>5. Client.map = {} /\ Client.unmap = {}
  BY TableClientAssumption
<1>6. ASSUME Save PROVE status' = "failed" \/ UNCHANGED <<db, mappings, status, reply>>
  BY <1>6 DEF Save, End, memory
<1>7. ASSUME Kill PROVE status' = "killed"
  BY <1>7 DEF Kill, End
<1>8. ASSUME Restart PROVE reply'.did = "write"
  BY <1>8 DEF Restart, NoAnswer, Answer
<1>9. ASSUME UNCHANGED vars PROVE UNCHANGED <<db, mappings, status, reply>>
  BY <1>9 DEF vars, memory
<1> QED BY <1>1, <1>2, <1>3, <1>4, <1>5, <1>6, <1>7, <1>8, <1>9 DEF Next, Serve, Up

(* A listing ends the process or is one of the clones, and changes nothing. *)
LEMMA ListAnswer ==
  ASSUME Held, NEW f, NEW fields, NEW exclude, ListBy(<<Users>>, f, fields, exclude)
  PROVE  \/ Failed
         \/ /\ Took(db, mappers)
            /\ \E doc \in Clones(M(db, mappers), Users, f, fields, exclude) :
                  reply' = Got(<<Users>>, f, fields, exclude, doc)
<1>1. PICK doc \in Clones(M(db, mappers), Users, f, fields, exclude) :
            Send(M(db, mappers), Got(<<Users>>, f, fields, exclude, doc))
  BY ListSent
<1> DEFINE got == Got(<<Users>>, f, fields, exclude, doc)
           m == M(db, mappers)
<1>2. Send(m, got) /\ m = M(db, mappers)
  BY <1>1
<1> HIDE DEF got, m
<1>3. Failed \/ (Took(db, mappers) /\ reply' = got)
  BY <1>2, Sendings
<1> QED BY <1>3 DEF got

(* A listing says what a scan would. *)
LEMMA ListingAnswered ==
  ASSUME Held, NEW f, NEW fields, NEW exclude, ListBy(<<Users>>, f, fields, exclude)
  PROVE  ListingExact'
<1>1. CASE Failed
  BY <1>1 DEF Failed, End, ListingExact
<1>2. ASSUME Took(db, mappers), NEW doc \in Clones(M(db, mappers), Users, f, fields, exclude),
             reply' = Got(<<Users>>, f, fields, exclude, doc)
      PROVE  ListingExact'
  <2>1. /\ reply'.by = f /\ reply'.keys = <<Users>> /\ reply'.doc = doc
        /\ reply'.fields = fields /\ reply'.exclude = exclude
    BY <1>2 DEF Got
  <2>2. PlaceOf(<<Users>>) = Users
    BY DEF PlaceOf, Users
  <2>3. db' = db /\ mappings' = mappings
    BY <1>2 DEF Took, Held
  <2>4. ASSUME NEW v
        PROVE  Expected(Users, f, v)' = {<<k>> : k \in KeysWith(f, v)}
    <3>1. Expected(Users, f, v)' = Expected(Users, f, v)
      BY <2>3 DEF Expected
    <3> QED BY <3>1, UsersScan
  <2>5. ASSUME NEW k
        PROVE  At(Users, <<k>>)' = At(Users, <<k>>)
    BY <2>3 DEF At
  <2>6. ASSUME NEW v \in Val, KeysWith(f, v) # {}
        PROVE  /\ <<v>> \in DOMAIN doc
               /\ \E t \in {<<k>> : k \in KeysWith(f, v)} :
                     ValueAt(doc, <<v>>) = Filtered(At(Users, t)', fields, exclude)
    <3>1. PICK k \in KeysWith(f, v) :
             <<v>> \in DOMAIN doc /\ ValueAt(doc, <<v>>) = Filtered(ValueAt(db, RowOf(k)), fields, exclude)
      BY <1>2, <2>6, ClonesListed
    <3>2. k \in Name
      BY KeysAreChildren, PathsOfUsers, TableDb DEF KeysWith, Held
    <3>3. At(Users, <<k>>)' = ValueAt(db, RowOf(k))
      BY <2>5, <3>2, AtKey
    <3> QED BY <3>1, <3>3
  <2>7. ASSUME NEW v \in Val, KeysWith(f, v) = {} PROVE <<v>> \notin DOMAIN doc
    BY <1>2, <2>7, ClonesListed
  <2>8. ASSUME NEW v \in Val
        PROVE  IF Expected(Users, f, v)' = {} THEN <<v>> \notin DOMAIN doc
               ELSE /\ <<v>> \in DOMAIN doc
                    /\ ValueAt(doc, <<v>>) \in {Filtered(At(Users, t)', fields, exclude) : t \in Expected(Users, f, v)'}
    <3>1. CASE KeysWith(f, v) = {}
      BY <2>4, <2>7, <3>1
    <3>2. CASE KeysWith(f, v) # {}
      BY <2>4, <2>6, <3>2
    <3> QED BY <3>1, <3>2
  <2> QED BY <2>1, <2>2, <2>8 DEF ListingExact
<1> QED BY <1>1, <1>2, ListAnswer

(* Listings are exact in every reachable state. *)
THEOREM UsersListingExact == Spec => []ListingExact
<1>1. Init => ListingExact
  <2>1. Init => reply.did = "write"
    BY DEF Init, NoAnswer, Answer
  <2> QED BY <2>1 DEF ListingExact
<1>2. Held /\ ListingExact /\ [Next]_vars => ListingExact'
  <2> SUFFICES ASSUME Held, ListingExact, [Next]_vars PROVE ListingExact'
    OBVIOUS
  <2>1. CASE status' \in {"failed", "killed"} \/ reply'.did = "write"
    BY <2>1 DEF ListingExact
  <2>2. ASSUME NEW c \in Client.get, GetAt(c[1], c[2], c[3]) PROVE ListingExact'
    <3> DEFINE none == ""
               found == Found(ToFind(c[1]), c[2], c[3])
               replies == {Got(c[1], none, c[2], c[3], found)}
    <3>1. status' = "failed" \/ reply' \in replies
      BY <2>2, BecomesReply DEF GetAt, Send
    <3> HIDE DEF none, found
    <3>2. \A a \in replies : a.by = none
      BY DEF Got
    <3> HIDE DEF replies
    <3> QED BY <3>1, <3>2 DEF ListingExact, none
  <2>3. ASSUME NEW c \in Client.list, ListBy(c[1], c[2], c[3], c[4]) PROVE ListingExact'
    <3> DEFINE f == c[2]
               fields == c[3]
               exclude == c[4]
    <3>1. ListBy(<<Users>>, f, fields, exclude)
      BY <2>3, TableClientAssumption
    <3> HIDE DEF f, fields, exclude
    <3> QED BY <3>1, ListingAnswered
  <2>4. CASE UNCHANGED <<db, mappings, status, reply>>
    <3>1. \A loc, f, v : Expected(loc, f, v)' = Expected(loc, f, v)
      BY <2>4 DEF Expected
    <3>2. \A loc, t : At(loc, t)' = At(loc, t)
      BY <2>4 DEF At
    <3> QED BY <2>4, <3>1, <3>2 DEF ListingExact
  <2> QED BY <2>1, <2>2, <2>3, <2>4, Replied
<1> QED BY <1>1, <1>2, AlwaysHeld, PTL DEF Spec

-----------------------------------------------------------------------------
(* What lookups by a field say.                                            *)

(* What a GET below users finds: the object, or an Empty one. *)
LEMMA FoundAt ==
  ASSUME NEW d, IsTableDb(d), NEW x, NEW fields, NEW exclude, NEW k \in Name, NEW stop
  PROVE  Found(Walked(d, x, AtRow(k, Spot(d, k)), stop), fields, exclude)
           = IF RowOf(k) \in DOMAIN d THEN Filtered(ValueAt(d, RowOf(k)), fields, exclude) ELSE Leaf(Empty)
<1> DEFINE o == Spot(d, k)
           frames == AtRow(k, o)
           t == Walked(d, x, frames, stop)
<1>0. o \in Path \cup {NoObj} /\ o = IF RowOf(k) \in DOMAIN d THEN RowOf(k) ELSE NoObj
  BY RowPaths DEF Spot
<1> HIDE DEF o
<1>1. Last(frames).obj = o
  BY <1>0, FramesOfRow
<1>2. NoObj \notin Path /\ RowOf(k) \in Path
  BY Keys, RowPaths
<1> HIDE DEF frames
<1>3. t.frames = frames /\ t.m.db = d
  BY DEF Walked, M, Machine
<1> HIDE DEF t
<1>4. Found(t, fields, exclude) = IF o = NoObj THEN Leaf(Empty) ELSE Filtered(ValueAt(d, o), fields, exclude)
  BY <1>1, <1>3 DEF Found
<1>5. o = NoObj <=> RowOf(k) \notin DOMAIN d
  BY <1>0, <1>2
<1> QED BY <1>0, <1>4, <1>5 DEF t, frames, o

(* The Empty object under the empty key stands alone. *)
LEMMA BlankAlone ==
  ASSUME NEW d, IsTableDb(d), RowOf(Blank) \in DOMAIN d
  PROVE  ValueAt(d, RowOf(Blank)) = Leaf(Empty)
<1> DEFINE p == RowOf(Blank)
<1>1. p \in Path /\ DOMAIN d \subseteq Path /\ Len(p) = 2 /\ p[2] = Blank
  BY RowPaths, TableDb, Literals, PathsOfUsers DEF RowOf, Child
<1>2. ASSUME NEW q \in Under(d, p) PROVE q = p
  <2>1. q \in Path /\ q \in DOMAIN d /\ IsPrefix(p, q)
    BY <1>1, <1>2 DEF Under
  <2>2. Len(q) >= 2 /\ q[2] = Blank
    <3>1. Len(p) <= Len(q) /\ \A i \in 1 .. Len(p) : p[i] = q[i]
      BY <1>1, <2>1, PrefixPointwise
    <3>2. Len(q) \in Nat
      BY <2>1 DEF Path
    <3> HIDE DEF p
    <3> QED BY <1>1, <3>1, <3>2
  <2>3. q \in DOMAIN d \ {<<>>} /\ Len(q) > 1
    BY <2>1, <2>2 DEF Path
  <2>4. q[2] \in RowKey \/ q = Append(Users, "")
    BY <2>3 DEF IsTableDb
  <2> QED BY <2>2, <2>4, Literals DEF RowOf, Child, Blank
<1>3. p \in Under(d, p)
  BY <1>1, PrefixPointwise DEF Under
<1>4. Under(d, p) = {p}
  BY <1>2, <1>3
<1>5. d[p] = Empty
  BY TableDb, Literals
<1>6. Below(p, p) = <<>> /\ p \o <<>> = p
  BY <1>1 DEF Below, Path
<1>7. {Below(p, q) : q \in Under(d, p)} = {<<>>}
  BY <1>4, <1>6
<1> HIDE DEF p
<1> QED BY <1>5, <1>6, <1>7 DEF ValueAt, Leaf, p

(* A GET by a field answers what it finds under the key of its lookup.     *)
LEMMA FoundByField ==
  ASSUME Held, NEW f \in Field, NEW v \in Val, NEW fields, NEW exclude,
         GetAt(AddressBy(f, v), fields, exclude)
  PROVE  LET z == IndexedBy(db, mappers, f)
             k == LookKey(z, f, v)
         IN \/ Failed
            \/ /\ Ready(db, mappers, f) /\ Took(db, z)
               /\ reply' = Got(AddressBy(f, v), "", fields, exclude,
                               Found(Walked(db, z, AtRow(k, Spot(db, k)), Halt(k)), fields, exclude))
<1> DEFINE none == ""
           t == ToFind(AddressBy(f, v))
           got == Got(AddressBy(f, v), none, fields, exclude, Found(t, fields, exclude))
           z == IndexedBy(db, mappers, f)
           k == LookKey(z, f, v)
           there == Walked(db, z, AtRow(k, Spot(db, k)), Halt(k))
<1>1. Finding \in BOOLEAN /\ ~Makes(Finding) /\ IsTableDb(db) /\ IsIndex(mappers)
  BY Traversals DEF Held
<1>2. /\ Ready(db, mappers, f) => t = Descend(Walked(db, z, AtUsers, Going), k, Finding)
      /\ ~Ready(db, mappers, f) => Thrown(t.m)
  BY <1>1, Traversals, WalkByField DEF Thrown
<1>3. Ready(db, mappers, f) => t = there
  <2> SUFFICES ASSUME Ready(db, mappers, f) PROVE t = there
    OBVIOUS
  <2>1. IsIndex(z) /\ k \in RowKey \cup {Blank}
    BY TableLookup
  <2>2. k \in Name
    BY <2>1, Keys, Literals
  <2> HIDE DEF z, k, t
  <2>3. t = Descend(Walked(db, z, AtUsers, Going), k, Finding)
    BY <1>2
  <2>4. t = Walked(db, z, AtRow(k, Spot(db, k)), Halt(k))
    BY <1>1, <2>1, <2>2, <2>3, DescendToRow DEF Spot
  <2> QED BY <2>4 DEF k, z
<1> DEFINE m == t.m
<1>4. Send(m, got)
  BY DEF GetAt
<1>5. there.m = M(db, z)
  BY DEF Walked
<1>6. Ready(db, mappers, f) => m = M(db, z)
  BY <1>3, <1>5
<1>7. ~Ready(db, mappers, f) => Thrown(m)
  BY <1>2
<1> HIDE DEF m, got, there, t
<1>8. /\ Thrown(m) => Failed
      /\ \A e, y : m = M(e, y) => Failed \/ (Took(e, y) /\ reply' = got)
  BY <1>4, Sendings
<1>9. Failed \/ (Ready(db, mappers, f) /\ Took(db, z) /\ reply' = got)
  BY <1>6, <1>7, <1>8
<1>10. Ready(db, mappers, f) => got = Got(AddressBy(f, v), none, fields, exclude, Found(there, fields, exclude))
  BY <1>3 DEF got
<1> QED BY <1>9, <1>10 DEF there, none

(* The index a lookup used is there. *)
LEMMA LookupIndexed ==
  ASSUME NEW d, IsTableDb(d), NEW x, IsIndex(x), NEW f \in Field, Ready(d, x, f)
  PROVE  LET z == IndexedBy(d, x, f) IN Users \in DOMAIN z /\ f \in z[Users].indices
<1>1. CASE HasIndex(MapperOf(x), f)
  <2>1. Users \in DOMAIN x
    BY <1>1 DEF MapperOf, HasIndex, EmptyMapper
  <2> QED BY <1>1, <2>1 DEF IndexedBy, MapperOf, HasIndex
<1>2. CASE ~HasIndex(MapperOf(x), f)
  <2> DEFINE new == CreateIndex(MapperOf(x), f, ByPath(Objects(d)))
  <2>1. IndexedBy(d, x, f) = [n \in {Users} |-> new]
    BY <1>2 DEF IndexedBy
  <2>2. f \in new.indices
    BY DEF CreateIndex, WithIndex
  <2> HIDE DEF new
  <2> QED BY <2>1, <2>2
<1> QED BY <1>1, <1>2

(* So a GET by a field says what a scan would, where the index it used is  *)
(* exact.                                                                  *)
LEMMA LookupAnswered ==
  ASSUME Held, Up, IndexExact', NEW f \in Field, NEW v \in Val, NEW fields, NEW exclude,
         GetAt(AddressBy(f, v), fields, exclude)
  PROVE  LookupExact'
<1> DEFINE none == ""
           z == IndexedBy(db, mappers, f)
           k == LookKey(z, f, v)
           doc == Found(Walked(db, z, AtRow(k, Spot(db, k)), Halt(k)), fields, exclude)
<1>1. CASE Failed
  BY <1>1 DEF Failed, End, LookupExact
<1>2. ASSUME Ready(db, mappers, f), Took(db, z), reply' = Got(AddressBy(f, v), none, fields, exclude, doc)
      PROVE  LookupExact'
  <2>1. /\ reply'.keys = AddressBy(f, v) /\ reply'.doc = doc
        /\ reply'.fields = fields /\ reply'.exclude = exclude
    BY <1>2 DEF Got
  <2>2. PlaceOf(Front(AddressBy(f, v))) = Users /\ Last(AddressBy(f, v))[1] = f /\ Last(AddressBy(f, v))[2] = v
    BY DEF PlaceOf, AddressBy, Users, Front, Last
  <2>3. db' = db /\ mappings' = mappings /\ mappers' = z /\ status' = "up"
    BY <1>2 DEF Took, Held, Up
  <2>4. IsTableDb(db) /\ IsIndex(mappers)
    BY DEF Held
  <2>5. IsIndex(z) /\ k \in RowKey \cup {Blank}
    BY <1>2, TableLookup
  <2>6. Expected(Users, f, v)' = Expected(Users, f, v)
    BY <2>3 DEF Expected
  <2>7. Users \in DOMAIN z /\ f \in z[Users].indices
    BY <1>2, <2>4, LookupIndexed
  <2>8. {z[Users].key[f][v]} \ {NoKey} = Expected(Users, f, v)
    BY <2>3, <2>6, <2>7 DEF IndexExact
  <2>9. Expected(Users, f, v) = IF k = Blank THEN {} ELSE {<<k>>}
    <3>1. MapperOf(z) = z[Users] /\ MapperOf(z) \in Mapper(RowPath)
      BY <2>5, <2>7, OnlyUsers
    <3>2. z[Users].key[f][v] \in RowPath \cup {NoKey}
      BY <3>1, MapperEntries
    <3>3. k = IF z[Users].key[f][v] = NoKey THEN Blank
              ELSE IF z[Users].key[f][v][1] = NoKey THEN Blank ELSE z[Users].key[f][v][1]
      BY <3>1 DEF LookKey, Entry
    <3> HIDE DEF z, k
    <3>4. CASE z[Users].key[f][v] = NoKey
      BY <2>8, <3>3, <3>4
    <3>5. CASE z[Users].key[f][v] \in RowPath
      <4> DEFINE p == z[Users].key[f][v]
      <4>1. p # NoKey /\ p[1] \in RowKey /\ p = <<p[1]>> /\ p[1] # NoKey /\ p[1] # Blank
        BY <3>5, RowPathsAreKeys, Literals
      <4>2. k = p[1]
        BY <3>3, <4>1
      <4> HIDE DEF p
      <4> QED BY <2>8, <4>1, <4>2 DEF p
    <3> QED BY <3>2, <3>4, <3>5
  <2>10. k \in Name
    BY <2>5, Keys, Literals
  <2>11. doc = IF RowOf(k) \in DOMAIN db THEN Filtered(ValueAt(db, RowOf(k)), fields, exclude) ELSE Leaf(Empty)
    BY <2>4, <2>10, FoundAt
  <2>12. \A q : At(Users, q)' = At(Users, q)
    BY <2>3 DEF At
  <2> DEFINE found == Expected(Users, f, v)'
  <2>13. IF found = {} THEN doc = Leaf(Empty)
         ELSE doc \in {Filtered(At(Users, q)', fields, exclude) : q \in found}
    <3>1. CASE k = Blank
      <4>1. doc = Leaf(Empty)
        <5>1. CASE RowOf(k) \in DOMAIN db
          <6>1. ValueAt(db, RowOf(k)) = Leaf(Empty)
            BY <2>4, <3>1, <5>1, BlankAlone
          <6>2. Filtered(Leaf(Empty), fields, exclude) = Leaf(Empty)
            BY Literals DEF Filtered, Leaf
          <6> HIDE DEF doc, k
          <6> QED BY <2>11, <5>1, <6>1, <6>2
        <5>2. CASE RowOf(k) \notin DOMAIN db
          BY <2>11, <5>2
        <5> QED BY <5>1, <5>2
      <4> HIDE DEF doc, k
      <4> QED BY <2>6, <2>9, <3>1, <4>1
    <3>2. CASE k # Blank
      <4>1. found = {<<k>>}
        BY <2>6, <2>9, <3>2
      <4>2. k \in KeysWith(f, v)
        <5>1. <<k>> \in Expected(Users, f, v)
          BY <2>6, <4>1
        <5>2. PICK l \in KeysWith(f, v) : <<k>> = <<l>>
          BY <5>1, UsersScan
        <5>3. l \in Name
          BY <2>4, <5>2, KeysAreChildren, PathsOfUsers, TableDb DEF KeysWith
        <5>4. <<k>>[1] = k /\ <<l>>[1] = l
          OBVIOUS
        <5> HIDE DEF k
        <5> QED BY <5>2, <5>4
      <4>3. RowOf(k) \in DOMAIN db
        BY <2>4, <4>2, KeysAreChildren, PathsOfUsers, TableDb DEF KeysWith, RowOf, Child
      <4>4. At(Users, <<k>>) = ValueAt(db, RowOf(k))
        BY <2>10, AtKey
      <4>5. doc = Filtered(At(Users, <<k>>), fields, exclude)
        BY <2>11, <4>3, <4>4
      <4> HIDE DEF doc, k, found
      <4> QED BY <2>12, <4>1, <4>5
    <3> QED BY <3>1, <3>2
  <2> HIDE DEF doc, k, z
  <2> QED BY <2>1, <2>2, <2>13 DEF LookupExact
<1> QED BY <1>1, <1>2, FoundByField
(* Addresses that end in a key, not in a field. *)
LEMMA PlainAddresses ==
  Len(Last(<<Users>>)) # 2 /\ \A k : Len(Last(AddressOfRow(k))) # 2
<1>1. Last(<<Users>>) = Users
  BY DEF Last
<1>2. \A k : Last(AddressOfRow(k)) = <<k>> /\ Len(<<k>>) = 1
  BY DEF AddressOfRow, Last
<1> QED BY <1>1, <1>2, PathsOfUsers

(* Lookups by a field are exact in every reachable state, for the same     *)
(* clients as above.                                                       *)
THEOREM UsersLookupExact ==
  ASSUME Written = {}
  PROVE  Spec => []LookupExact
<1>1. Init => LookupExact
  <2>1. Init => reply.did = "write"
    BY DEF Init, NoAnswer, Answer
  <2> QED BY <2>1 DEF LookupExact
<1>2. Held /\ LookupExact /\ IndexExact' /\ [Next]_vars => LookupExact'
  <2> SUFFICES ASSUME Held, LookupExact, IndexExact', [Next]_vars PROVE LookupExact'
    OBVIOUS
  <2>1. CASE status' \in {"failed", "killed"} \/ reply'.did = "write"
    BY <2>1 DEF LookupExact
  <2>2. ASSUME Up, NEW c \in Client.get, GetAt(c[1], c[2], c[3]) PROVE LookupExact'
    <3> DEFINE fields == c[2]
               exclude == c[3]
    <3>1. ASSUME NEW f \in Field, NEW v \in Val, c[1] = AddressBy(f, v) PROVE LookupExact'
      <4>1. GetAt(AddressBy(f, v), fields, exclude)
        BY <2>2, <3>1
      <4> HIDE DEF fields, exclude
      <4> QED BY <2>2, <4>1, LookupAnswered
    <3>2. CASE c[1] = <<Users>> \/ \E k \in RowKey : c[1] = AddressOfRow(k)
      <4> DEFINE none == ""
                 found == Found(ToFind(c[1]), c[2], c[3])
                 replies == {Got(c[1], none, c[2], c[3], found)}
      <4>1. status' = "failed" \/ reply' \in replies
        BY <2>2, BecomesReply DEF GetAt, Send
      <4> HIDE DEF none, found
      <4>2. \A a \in replies : a.keys = c[1]
        BY DEF Got
      <4> HIDE DEF replies
      <4>3. Len(Last(c[1])) # 2
        BY <3>2, PlainAddresses
      <4>4. status' = "failed" \/ Len(Last(reply'.keys)) # 2
        BY <4>1, <4>2, <4>3
      <4> QED BY <4>4 DEF LookupExact
    <3>3. \/ c[1] = <<Users>> \/ \E k \in RowKey : c[1] = AddressOfRow(k)
          \/ \E f \in Field, v \in Val : c[1] = AddressBy(f, v)
      BY <2>2, TableClientAssumption DEF RowAddresses
    <3> QED BY <3>1, <3>2, <3>3
  <2>3. ASSUME NEW c \in Client.list, ListBy(c[1], c[2], c[3], c[4]) PROVE LookupExact'
    <3> DEFINE f == c[2]
               fields == c[3]
               exclude == c[4]
    <3>1. ListBy(<<Users>>, f, fields, exclude)
      BY <2>3, TableClientAssumption
    <3> HIDE DEF f, fields, exclude
    <3>2. CASE Failed
      BY <3>2 DEF Failed, End, LookupExact
    <3>3. CASE \E doc \in Clones(M(db, mappers), Users, f, fields, exclude) :
                 reply' = Got(<<Users>>, f, fields, exclude, doc)
      <4>1. reply'.keys = <<Users>>
        BY <3>3 DEF Got
      <4>2. Len(Last(reply'.keys)) # 2
        BY <4>1, PlainAddresses
      <4> QED BY <4>2 DEF LookupExact
    <3> QED BY <3>1, <3>2, <3>3, ListAnswer
  <2>4. CASE UNCHANGED <<db, mappings, status, reply>>
    <3>1. \A loc, f, v : Expected(loc, f, v)' = Expected(loc, f, v)
      BY <2>4 DEF Expected
    <3>2. \A loc, t : At(loc, t)' = At(loc, t)
      BY <2>4 DEF At
    <3> QED BY <2>4, <3>1, <3>2 DEF LookupExact
  <2> QED BY <2>1, <2>2, <2>3, <2>4, Replied
<1> QED BY <1>1, <1>2, AlwaysHeld, UsersIndexExact, PTL DEF Spec

-----------------------------------------------------------------------------
(* What says that it wrote.                                                *)

(* A command that changed nothing but Empty objects, said that it wrote,   *)
(* or ended the process.                                                   *)
Honest == Failed \/ Told \/ Solid(db') = Solid(db)

(* A command that is done says so, and one that is refused leaves the      *)
(* database of its machine.                                                *)
LEMMA CommitTells ==
  ASSUME NEW res, Commit(res)
  PROVE  /\ res.wrote = TRUE => Failed \/ Told
         /\ Failed \/ db' = res.m.db
<1> DEFINE ok == res.wrote
           m == res.m
           replies == {Answer(ok)}
<1>1. Become(m, replies)
  BY DEF Commit
<1>2. \A a \in replies : a.did = "write" /\ a.ok = ok
  BY DEF Answer
<1> HIDE DEF ok, m, replies
<1>3. Failed \/ (reply' \in replies /\ db' = m.db)
  BY <1>1 DEF Become, Failed
<1>4. ok = TRUE => Failed \/ Told
  BY <1>2, <1>3 DEF Told
<1> QED BY <1>3, <1>4 DEF ok, m

(* SET where a walk has ended is done.                                     *)
LEMMA SetTells ==
  ASSUME NEW h, NEW x, NEW frames, NEW value, ~Halt(Last(frames).key), Last(frames).obj # NoObj
  PROVE  SetResult(Walked(h, x, frames, Going), value).wrote = TRUE
<1> DEFINE t == Walked(h, x, frames, Going)
<1>1. t.m.fault = "none" /\ t.frames = frames
  BY DEF Walked, M, Machine
<1>2. ~Invalid(t, TRUE)
  BY <1>1 DEF Invalid, Halt
<1> HIDE DEF t
<1> QED BY <1>1, <1>2 DEF SetResult, Done, t

(* SET below users by a row's key is done.                                 *)
LEMMA SetRowTells ==
  ASSUME NEW d, IsTableDb(d), NEW x, IsIndex(x), NEW k \in RowKey, NEW create \in BOOLEAN, Makes(create), NEW value
  PROVE  SetResult(Descend(Walked(d, x, AtUsers, Going), k, create), value).wrote = TRUE
<1> DEFINE row == RowOf(k)
           h == IF row \in DOMAIN d THEN d ELSE Graft(d, row, Leaf(Empty))
           frames == AtRow(k, row)
<1>1. k \in Name /\ Halt(k) = Going /\ ~Halt(k) /\ row \in Path /\ NoObj \notin Path
  BY Keys, RowPaths DEF Halt, Going
<1>2. Descend(Walked(d, x, AtUsers, Going), k, create) = Walked(h, x, frames, Going)
  BY <1>1, DescendToRow
<1>3. ~Halt(Last(frames).key) /\ Last(frames).obj # NoObj
  BY <1>1, FramesOfRow
<1> HIDE DEF h, frames
<1> QED BY <1>2, <1>3, SetTells

(* Every SET of a client that is not refused says that it wrote, and one   *)
(* that is refused leaves an Empty object at most.                         *)
LEMMA SetHonest ==
  ASSUME Held, NEW c \in Client.set, Set(c[1], c[2])
  PROVE  Honest
<1> DEFINE keys == c[1]
           value == c[2]
           t == ToCreate(keys)
           res == SetResult(t, value)
<1>1. Creating \in BOOLEAN /\ Makes(Creating) /\ IsTableDb(db) /\ IsIndex(mappers)
  BY Traversals DEF Held
<1>2. /\ res.wrote = TRUE => Honest
      /\ Thrown(res.m) => Honest
      /\ \A e, y : res.m = M(e, y) /\ Solid(e) = Solid(db) => Honest
  <2>1. Commit(res)
    BY DEF Set
  <2> HIDE DEF res
  <2> QED BY <2>1, CommitTells, Committed DEF Honest, Took
<1>3. \/ keys \in RowAddresses
      \/ keys = <<Users>>
      \/ keys \in FieldAddresses
  BY TableClientAssumption
<1> HIDE DEF keys, value
<1>4. ASSUME NEW k \in RowKey, keys = AddressOfRow(k) PROVE Honest
  <2>1. t = Descend(Walked(db, mappers, AtUsers, Going), k, Creating)
    BY <1>1, <1>4, Traversals, RowWalk
  <2>2. res.wrote = TRUE
    BY <1>1, <2>1, SetRowTells
  <2> QED BY <1>2, <2>2
<1>5. ASSUME NEW f \in Field, NEW v \in Val, keys = AddressBy(f, v) PROVE Honest
  <2> DEFINE z == IndexedBy(db, mappers, f)
             k == LookKey(z, f, v)
  <2>1. /\ Ready(db, mappers, f) => t = Descend(Walked(db, z, AtUsers, Going), k, Creating)
        /\ ~Ready(db, mappers, f) => Thrown(t.m)
    BY <1>1, <1>5, Traversals, WalkByField DEF Thrown
  <2>2. CASE ~Ready(db, mappers, f)
    BY <1>2, <2>1, <2>2, SetThrown
  <2>3. CASE Ready(db, mappers, f)
    <3>1. IsIndex(z) /\ k \in RowKey \cup {Blank}
      BY <2>3, TableLookup
    <3>2. CASE k = Blank
      <4>1. t = Descend(Walked(db, z, AtUsers, Going), Blank, Creating)
        BY <2>1, <2>3, <3>2
      <4> HIDE DEF t, z
      <4>2. PICK e : res.m = M(e, z) /\ BlankGiven(db, e)
        BY <1>1, <3>1, <4>1, SetBelowBlank
      <4> HIDE DEF res
      <4> QED BY <1>2, <4>2 DEF BlankGiven
    <3>3. CASE k \in RowKey
      <4>1. t = Descend(Walked(db, z, AtUsers, Going), k, Creating)
        BY <2>1, <2>3
      <4> HIDE DEF t, z, k
      <4>2. res.wrote = TRUE
        BY <1>1, <3>1, <3>3, <4>1, SetRowTells
      <4> HIDE DEF res
      <4> QED BY <1>2, <4>2
    <3> QED BY <3>1, <3>2, <3>3
  <2> QED BY <2>2, <2>3
<1>6. CASE keys = <<Users>>
  <2>1. t = Walked(db, mappers, AtUsers, Going)
    BY <1>1, <1>6, Traversals, WalkToUsers
  <2>2. ~Halt(Last(AtUsers).key) /\ Last(AtUsers).obj # NoObj
    BY UsersFrame
  <2>3. res.wrote = TRUE
    BY <2>1, <2>2, SetTells
  <2> QED BY <1>2, <2>3
<1>7. ASSUME NEW k \in RowKey, NEW f \in Written, keys = AddressOfField(k, f) PROVE Honest
  <2> DEFINE frames == AtField(k, f, RowOf(k), FieldOf(k, f))
  <2>1. PICK h : t = Walked(h, mappers, frames, Going)
    BY <1>1, <1>7, Traversals, WalkToFieldMade
  <2>2. k \in Name /\ f \in Name /\ ~Halt(f) /\ RowOf(k) \in Path /\ FieldOf(k, f) \in Path /\ NoObj \notin Path
    <3>1. k \in Name /\ f \in Name /\ ~Halt(f) /\ NoObj \notin Path
      BY Keys DEF Halt
    <3> QED BY <3>1, RowPaths, FieldPaths
  <2>3. ~Halt(Last(frames).key) /\ Last(frames).obj # NoObj
    BY <2>2, FramesOfField
  <2> HIDE DEF frames, t
  <2>4. res.wrote = TRUE
    BY <2>1, <2>3, SetTells
  <2> QED BY <1>2, <2>4
<1> QED BY <1>3, <1>4, <1>5, <1>6, <1>7 DEF RowAddresses, FieldAddresses

(* A DELETE that does not say that it wrote leaves the document.           *)
LEMMA DelTells ==
  ASSUME NEW t
  PROVE  DelResult(t).wrote = TRUE \/ DelResult(t).m.db = t.m.db
<1>1. Faulted(t.m, "throw").db = t.m.db
  BY DEF Faulted
<1>2. \A m : Done(m).wrote = TRUE
  BY DEF Done
<1>3. \A m : Refused(m).m = m
  BY DEF Refused
<1>4. \A parent, key : LET res == DeleteElement(t, parent, key) IN res.wrote = TRUE \/ res.m.db = t.m.db
  BY <1>1, <1>2, <1>3, Zenon DEF DeleteElement
<1> QED BY <1>1, <1>2, <1>3, <1>4, Zenon DEF DelResult

(* What a client's keys lead to without creating: the database as it is,   *)
(* or an exception.                                                        *)
LEMMA FindKeeps ==
  ASSUME Held, NEW keys, keys = <<Users>> \/ keys \in RowAddresses \cup FieldAddresses
  PROVE  Thrown(ToFind(keys).m) \/ \E y : ToFind(keys).m = M(db, y)
<1> DEFINE t == ToFind(keys)
<1>1. Finding \in BOOLEAN /\ ~Makes(Finding) /\ IsTableDb(db) /\ IsIndex(mappers)
  BY Traversals DEF Held
<1>2. CASE keys = <<Users>>
  <2>1. t = Walked(db, mappers, AtUsers, Going)
    BY <1>1, <1>2, Traversals, WalkToUsers
  <2> QED BY <2>1 DEF Walked
<1>3. ASSUME NEW k \in RowKey, keys = AddressOfRow(k) PROVE t.m = M(db, mappers)
  <2>1. \E o : t = Walked(db, mappers, AtRow(k, o), Going)
    BY <1>1, <1>3, Traversals, WalkToRow
  <2> QED BY <2>1 DEF Walked
<1>4. ASSUME NEW k \in RowKey, NEW f \in Written, keys = AddressOfField(k, f) PROVE t.m = M(db, mappers)
  <2>1. \E frames : t = Walked(db, mappers, frames, Going)
    BY <1>1, <1>4, Traversals, WalkToFieldFound
  <2> QED BY <2>1 DEF Walked
<1>5. ASSUME NEW f \in Field, NEW v \in Val, keys = AddressBy(f, v)
      PROVE  Thrown(t.m) \/ \E y : t.m = M(db, y)
  <2> DEFINE z == IndexedBy(db, mappers, f)
             k == LookKey(z, f, v)
  <2>1. /\ Ready(db, mappers, f) => t = Descend(Walked(db, z, AtUsers, Going), k, Finding)
        /\ ~Ready(db, mappers, f) => Thrown(t.m)
    BY <1>1, <1>5, Traversals, WalkByField DEF Thrown
  <2>2. ASSUME Ready(db, mappers, f) PROVE t.m = M(db, z)
    <3>1. IsIndex(z) /\ k \in Name
      BY <2>2, TableLookup, Keys, Literals
    <3>2. t = Descend(Walked(db, z, AtUsers, Going), k, Finding)
      BY <2>1, <2>2
    <3> HIDE DEF k, z, t
    <3>3. \E frames, stop : t = Walked(db, z, frames, stop)
      BY <1>1, <3>1, <3>2, DescendToRow
    <3> QED BY <3>3 DEF Walked
  <2> HIDE DEF t, z
  <2> QED BY <2>1, <2>2
<1> QED BY <1>2, <1>3, <1>4, <1>5 DEF RowAddresses, FieldAddresses

(* Every DELETE of a client is honest,                                     *)
LEMMA DelHonest ==
  ASSUME Held, NEW c \in Client.del, Del(c)
  PROVE  Honest
<1> DEFINE t == ToFind(c)
           res == DelResult(t)
<1>1. Commit(res)
  BY DEF Del
<1>2. c \in RowAddresses \cup FieldAddresses
  BY TableClientAssumption
<1>3. Thrown(t.m) \/ \E y : t.m = M(db, y)
  BY <1>2, FindKeeps
<1>4. (res.wrote = TRUE \/ res.m.db = t.m.db) /\ (Thrown(t.m) => Thrown(res.m))
  BY DelTells, DelThrown
<1> HIDE DEF t, res
<1>5. Thrown(res.m) => Failed
  BY <1>1, Committed
<1>6. (res.wrote = TRUE => Failed \/ Told) /\ (Failed \/ db' = res.m.db)
  BY <1>1, CommitTells
<1>7. ASSUME NEW y, t.m = M(db, y) PROVE t.m.db = db
  BY <1>7, SoundMachine
<1> QED BY <1>3, <1>4, <1>5, <1>6, <1>7 DEF Honest

(* and what clients read changes nothing.                                  *)
LEMMA GetHonest ==
  ASSUME Held, NEW c \in Client.get, GetAt(c[1], c[2], c[3])
  PROVE  Honest
<1> DEFINE t == ToFind(c[1])
           m == t.m
           blank == ""
           got == Got(c[1], blank, c[2], c[3], Found(t, c[2], c[3]))
<1>1. Send(m, got)
  BY DEF GetAt
<1>2. c[1] = <<Users>> \/ c[1] \in RowAddresses
  BY TableClientAssumption DEF RowAddresses
<1>3. Thrown(m) \/ \E y : m = M(db, y)
  BY <1>2, FindKeeps
<1> HIDE DEF m, got
<1> QED BY <1>1, <1>3, Sendings DEF Honest, Took

(* No command of users' clients changes the database without saying that   *)
(* it wrote, so that RukoServer::runCommand counts it for the next save:   *)
(* what is refused leaves Empty objects at most, and no lookup, listing or *)
(* save changes more than the indices.                                     *)
THEOREM UsersWritesTold == Spec => WritesTold
<1> DEFINE Tells == Up /\ status' = "up" /\ ~Told =>
                      /\ Solid(db') = Solid(db)
                      /\ mappings' # mappings => mappings'[Len(mappings')].loc \in DOMAIN mappers
<1>1. ASSUME Held, Held', [Next]_vars PROVE Tells
  <2>1. mappings' = mappings
    BY <1>1 DEF Held
  <2>2. Honest => Tells
    BY <2>1 DEF Honest, Failed, End
  <2>3. db' = db => Tells
    BY <2>1
  <2> HIDE DEF Tells
  <2>4. ASSUME NEW c \in Client.set, Set(c[1], c[2]) PROVE Tells
    BY <1>1, <2>2, <2>4, SetHonest
  <2>5. ASSUME NEW c \in Client.del, Del(c) PROVE Tells
    BY <1>1, <2>2, <2>5, DelHonest
  <2>6. ASSUME NEW c \in Client.get, GetAt(c[1], c[2], c[3]) PROVE Tells
    BY <1>1, <2>2, <2>6, GetHonest
  <2>7. ASSUME NEW c \in Client.lput, Lput(c[1], c[2]) PROVE Tells
    <3> DEFINE value == c[2]
               t == ToCreate(<<Users>>)
               res == LputResult(t, value)
    <3>1. Lput(<<Users>>, value)
      BY <2>7, TableClientAssumption
    <3>2. Commit(res)
      BY <3>1 DEF Lput
    <3>3. IsTableDb(db) /\ t = Walked(db, mappers, AtUsers, Going)
      BY <1>1, Traversals, WalkToUsers DEF Held
    <3> HIDE DEF value
    <3>4. res.m = M(db, mappers)
      BY <3>3, LputUsers DEF Refused
    <3> HIDE DEF res
    <3> QED BY <2>3, <3>2, <3>4, Committed DEF Took
  <2>8. ASSUME NEW c \in Client.declare, Declare(c[1], c[2]) PROVE Tells
    <3> DEFINE t == ToCreate(<<Users>>)
               res == DeclareResult(t, Dict)
    <3>1. Declare(<<Users>>, Dict)
      BY <2>8, TableClientAssumption
    <3>2. Commit(res)
      BY <3>1 DEF Declare
    <3>3. IsTableDb(db) /\ t = Walked(db, mappers, AtUsers, Going)
      BY <1>1, Traversals, WalkToUsers DEF Held
    <3>4. res.m = M(db, mappers)
      BY <3>3, DeclareUsers DEF Refused
    <3> HIDE DEF res
    <3> QED BY <2>3, <3>2, <3>4, Committed DEF Took
  <2>9. ASSUME NEW c \in Client.list, ListBy(c[1], c[2], c[3], c[4]) PROVE Tells
    <3> DEFINE f == c[2]
               fields == c[3]
               exclude == c[4]
    <3>1. ListBy(<<Users>>, f, fields, exclude)
      BY <2>9, TableClientAssumption
    <3> HIDE DEF f, fields, exclude
    <3> QED BY <1>1, <2>2, <2>3, <3>1, ListAnswer DEF Took, Honest
  <2>10. Client.map = {} /\ Client.unmap = {}
    BY TableClientAssumption
  <2>11. CASE Save
    BY <2>2, <2>3, <2>11 DEF Save, memory, Honest, Failed
  <2>12. CASE Kill
    BY <2>12 DEF Kill, End, Tells
  <2>13. CASE Restart
    BY <2>13 DEF Restart, Tells, Up
  <2>14. CASE UNCHANGED vars
    BY <2>3, <2>14 DEF vars, memory
  <2> QED
    BY <1>1, <2>4, <2>5, <2>6, <2>7, <2>8, <2>9, <2>10, <2>11, <2>12, <2>13, <2>14 DEF Next, Serve, Up
<1>2. Held /\ Held' /\ [Next]_vars
        => [status = "up" /\ status' = "up" /\ ~Told =>
              /\ Solid(db') = Solid(db)
              /\ mappings' # mappings => mappings'[Len(mappings')].loc \in DOMAIN mappers]_vars
  BY <1>1 DEF Up
<1> QED BY <1>2, AlwaysHeld, PTL DEF Spec, WritesTold
=============================================================================
