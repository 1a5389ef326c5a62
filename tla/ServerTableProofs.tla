-------------------------- MODULE ServerTableProofs --------------------------
(***************************************************************************)
(* A server with any number of threads implements IndexedTable, for any    *)
(* keys, fields and values and any clients that stay inside users: the     *)
(* threads' steps come to whole commands (ServerProofs), and what each     *)
(* command makes of users is a step of the table (RukoDbTableProofs).      *)
(***************************************************************************)
EXTENDS ServerTable, ServerProofs, RukoDbTableProofs

-----------------------------------------------------------------------------
(* What a command alone comes to.                                          *)

(* RukoDb's commands read the machine and the frames of a traversal alone. *)
LEMMA StopUnread ==
  ASSUME NEW t, NEW s, s.m = t.m, s.frames = t.frames
  PROVE  /\ \A value : SetResult(s, value) = SetResult(t, value)
         /\ DelResult(s) = DelResult(t)
         /\ \A fields, exclude : Found(s, fields, exclude) = Found(t, fields, exclude)
<1>1. \A create : Invalid(s, create) <=> Invalid(t, create)
  BY DEF Invalid
<1>2. \A value : SetResult(s, value) = SetResult(t, value)
  <2>1. \A value : Assigned(s, value) = Assigned(t, value)
    BY DEF Assigned
  <2> QED BY <1>1, <2>1 DEF SetResult, Refused, Done
<1>3. \A parent, key : DeleteElement(s, parent, key) = DeleteElement(t, parent, key)
  BY DEF DeleteElement
<1>4. DelResult(s) = DelResult(t)
  BY <1>1, <1>3 DEF DelResult, Refused, Done
<1>5. \A fields, exclude : Found(s, fields, exclude) = Found(t, fields, exclude)
  BY DEF Found
<1> QED BY <1>2, <1>4, <1>5

(* What a traversal for a command starts from: its machine and its frames. *)
LEMMA LedIs ==
  ASSUME NEW m, IsSound(m), NEW command, IsAddress(command.keys)
  PROVE  LET s == Led(m, command)
             t == TraverseTo(m, command.keys, command.name = "SET")
         IN s.m = t.m /\ s.frames = t.frames
<1> DEFINE create == command.name = "SET"
           t == TraverseTo(m, command.keys, create)
<1>1. IsTraversal(t)
  <2> HIDE DEF create
  <2> QED BY TraversalSound
<1>2. Led(m, command) = [t EXCEPT !.stop = FALSE]
  BY DEF Led
<1> HIDE DEF t
<1>3. Led(m, command) = [m |-> t.m, frames |-> t.frames, stop |-> FALSE]
  BY <1>1, <1>2 DEF IsTraversal
<1>4. Led(m, command).m = t.m /\ Led(m, command).frames = t.frames
  BY <1>3
<1> QED BY <1>4 DEF t

(* Every command on data, alone in a database that is users alone.         *)
LEMMA AloneLands ==
  ASSUME NEW d, IsTableDb(d), NEW x, IsIndex(x), IsSound(M(d, x)),
         NEW command, IsCommand(command), command.name \in OnData
  PROVE  LET alone == Alone(M(d, x), command)
         IN Lands(d, x, alone.m, TableReply(alone.answer))
<1> DEFINE s == Led(M(d, x), command)
           alone == Alone(M(d, x), command)
           keys == command.keys
<1>1. IsAddress(keys)
  BY CommandIs
<1>2. CASE command.name = "SET"
  <2> DEFINE t == TraverseTo(M(d, x), keys, Creating)
             value == command.value
             c == <<keys, value>>
  <2>1. s.m = t.m /\ s.frames = t.frames
    BY <1>1, <1>2, LedIs DEF Creating
  <2>2. c \in Client.set /\ c[1] = keys /\ c[2] = value
    BY <1>2 DEF IsCommand
  <2>3. Lands(d, x, SetResult(t, value).m, NoAnswer)
    <3> HIDE DEF t, c, keys, value
    <3> QED BY <2>2, SetLands DEF t
  <2>4. SetResult(s, value) = SetResult(t, value)
    <3> HIDE DEF s, t, value
    <3> QED BY <2>1, StopUnread
  <2>5. alone = Replying(SetResult(s, value))
    BY <1>2 DEF Alone, Performed
  <2> DEFINE res == SetResult(t, value)
  <2>6. alone.m = res.m /\ TableReply(alone.answer) = NoAnswer
    <3>1. alone = Replying(res)
      BY <2>4, <2>5
    <3> HIDE DEF alone, res
    <3> QED BY <3>1, WriteForgotten DEF Replying
  <2> QED BY <2>3, <2>6
<1>3. CASE command.name = "DELETE"
  <2> DEFINE t == TraverseTo(M(d, x), keys, Finding)
             res == DelResult(t)
  <2>1. s.m = t.m /\ s.frames = t.frames
    <3>1. (command.name = "SET") = Finding
      BY <1>3 DEF Finding
    <3> QED BY <1>1, <3>1, LedIs
  <2>2. keys \in Client.del
    BY <1>3 DEF IsCommand
  <2>3. Lands(d, x, res.m, NoAnswer)
    <3> HIDE DEF keys
    <3> QED BY <2>2, DelLands
  <2>4. DelResult(s) = res
    <3> HIDE DEF s, t
    <3> QED BY <2>1, StopUnread
  <2>5. alone = Replying(DelResult(s))
    BY <1>3 DEF Alone, Performed
  <2>6. alone.m = res.m /\ TableReply(alone.answer) = NoAnswer
    <3>1. alone = Replying(res)
      BY <2>4, <2>5
    <3> HIDE DEF alone, res
    <3> QED BY <3>1, WriteForgotten DEF Replying
  <2> QED BY <2>3, <2>6
<1>4. CASE command.name = "GET"
  <2> DEFINE t == TraverseTo(M(d, x), keys, Finding)
             doc == Found(t, {}, {})
             got == Got(keys, "", {}, {}, doc)
             m == t.m
             c == <<keys, {}, {}>>
  <2>1. s.m = t.m /\ s.frames = t.frames
    <3>1. (command.name = "SET") = Finding
      BY <1>4 DEF Finding
    <3> QED BY <1>1, <3>1, LedIs
  <2>2. c \in Client.get /\ c[1] = keys /\ c[2] = {} /\ c[3] = {}
    BY <1>4 DEF IsCommand
  <2>3. Settled(m) /\ Lands(d, x, m, TableReply(got))
    <3> HIDE DEF c, keys
    <3> QED BY <2>2, GetLands
  <2>4. Found(s, {}, {}) = doc
    <3> HIDE DEF s, t
    <3> QED BY <2>1, StopUnread
  <2>5. alone = Copied(s, keys)
    BY <1>4 DEF Alone, Performed
  <2> HIDE DEF s, doc
  <2>6. alone = [m |-> IF Serializable(doc) THEN m ELSE Faulted(m, "throw"), answer |-> got]
    BY <2>1, <2>4, <2>5 DEF Copied
  <2> HIDE DEF m, got, alone
  <2>7. /\ alone.m = IF Serializable(doc) THEN m ELSE Faulted(m, "throw")
        /\ alone.answer = got
    BY <2>6
  <2> QED BY <2>3, <2>7, SettledFaults DEF Lands, alone
<1> QED BY <1>2, <1>3, <1>4 DEF OnData

-----------------------------------------------------------------------------
(* Clients that make and delete no mappings.                               *)

(* No thread is at a command on mappings,                                  *)
LEMMA NoMappingCommand ==
  ASSUME AskedInv, NEW c \in Clients, at[c] \in Asked
  PROVE  IsCommand(doing[c]) /\ doing[c].name \notin OnMappings
<1>1. IsCommand(doing[c])
  BY DEF AskedInv
<1>2. Client.map = {} /\ Client.unmap = {}
  BY TableClientAssumption
<1>3. doing[c].name # "CREATE_MAPPING" /\ doing[c].name # "DELETE_MAPPING"
  BY <1>1, <1>2 DEF IsCommand
<1> QED BY <1>1, <1>3 DEF OnMappings

(* nor in the middle of one,                                               *)
LEMMA NotMapping ==
  ASSUME AskedInv, TogetherInv, ~raced, status = "up", NEW c \in Clients
  PROVE  at[c] \notin Mapping
<1> SUFFICES ASSUME at[c] \in Mapping PROVE FALSE
  OBVIOUS
<1>1. Reached(c, before)
  BY DEF TogetherInv, Together, Inside
<1>2. at[c] \in Asked
  BY DEF Mapping, Asked, Places
<1>3. doing[c].name = "CREATE_MAPPING" \/ doing[c].name = "DELETE_MAPPING"
  BY <1>1 DEF Mapping, Reached, ReachedFrom, Maps, Unmaps
<1> QED BY <1>2, <1>3, NoMappingCommand DEF OnMappings

(* so that no two threads ever race.                                       *)
LEMMA NoRace ==
  ASSUME AskedInv, TogetherInv, ~raced, [ServerNext]_allvars
  PROVE  ~raced'
<1>1. CASE Undefined \/ UNCHANGED allvars
  BY <1>1 DEF Undefined, allvars
<1>2. ASSUME NEW c \in Clients, status = "up", raced' = (raced \/ \E d \in Clients \ {c} : at[d] \in Mapping)
      PROVE  ~raced'
  BY <1>2, NotMapping
<1>3. ASSUME NEW c \in Clients, Traverse(c) \/ Apply(c) \/ ListMappings(c) PROVE ~raced'
  BY <1>2, <1>3 DEF Traverse, Apply, ListMappings, In, Races
<1>4. ASSUME NEW c \in Clients, MapNodes(c) \/ UnmapErase(c) PROVE FALSE
  <2>1. at[c] \in Asked /\ doing[c].name \in OnMappings
    BY <1>4 DEF MapNodes, UnmapErase, In, Is, Asked, Places, OnMappings
  <2> QED BY <2>1, NoMappingCommand
<1>5. ASSUME NEW c \in Clients, MapAppend(c) \/ MapFill(c) \/ UnmapForget(c) PROVE FALSE
  <2>1. status = "up" /\ at[c] \in Mapping
    BY <1>5 DEF MapAppend, MapFill, UnmapForget, In, Mapping
  <2> QED BY <2>1, NotMapping
<1>6. ASSUME NEW c \in Clients, Accept(c) \/ Leave(c) \/ Ask(c) \/ LogBegin(c) \/ LogEnd(c) \/ Reply(c)
      PROVE  ~raced'
  BY <1>6 DEF Accept, Leave, Ask, LogBegin, LogEnd, Reply
<1> QED BY <1>1, <1>3, <1>4, <1>5, <1>6 DEF ServerNext, Run

(* No thread touches the file.                                             *)
LEMMA DiskStays ==
  ASSUME [ServerNext]_allvars
  PROVE  disk' = disk
<1>1. CASE Undefined \/ UNCHANGED allvars
  BY <1>1 DEF Undefined, allvars, vars
<1>2. ASSUME NEW c \in Clients, Traverse(c) \/ Apply(c) \/ ListMappings(c) PROVE disk' = disk
  BY <1>2 DEF Traverse, Apply, ListMappings, vars
<1>3. ASSUME NEW c \in Clients, MapNodes(c) \/ MapAppend(c) \/ MapFill(c) \/ UnmapErase(c) \/ UnmapForget(c)
      PROVE  disk' = disk
  BY <1>3 DEF MapNodes, MapAppend, MapFill, UnmapErase, UnmapForget
<1>4. ASSUME NEW c \in Clients, Accept(c) \/ Leave(c) \/ Ask(c) \/ LogBegin(c) \/ LogEnd(c) \/ Reply(c)
      PROVE  disk' = disk
  BY <1>4 DEF Accept, Leave, Ask, LogBegin, LogEnd, Reply, vars
<1> QED BY <1>1, <1>2, <1>3, <1>4 DEF ServerNext, Run

-----------------------------------------------------------------------------
(* The table that is served: as in RukoDbTableProofs, of the database as   *)
(* the last command left it.                                               *)
BeganHeld ==
  /\ IsTableDb(Doc) /\ IsIndex(Indices)
  /\ Began = M(Doc, Indices)

(* What a command that went well did to it.                                *)
Turned(e, y) == Doc' = e /\ Indices' = y /\ UNCHANGED <<status, disk>>

(* The table's operators on mappers are those of RukoDb.                   *)
LEMMA ServedSameMappers ==
  ASSUME NEW mp, NEW r, NEW k
  PROVE  /\ Served!Unregister(mp, r) = Unregister(mp, r)
         /\ Served!Register(mp, r, k) = Register(mp, r, k)
         /\ Served!Clashes(mp, r, k) = Clashes(mp, r, k)
<1>1. \A row : Served!Hooked(mp, row) = Hooked(mp, row)
  BY DEF Served!Hooked, Hooked
<1>2. Served!Unregister(mp, r) = Unregister(mp, r)
  BY <1>1 DEF Served!Unregister, Unregister
<1>3. Served!Clashes(mp, r, k) = Clashes(mp, r, k)
  BY <1>1 DEF Served!Clashes, Clashes
<1>4. Served!Register(mp, r, k) = Register(mp, r, k)
  BY <1>1 DEF Served!Register, Register, Served!WithEntries, WithEntries
<1> QED BY <1>2, <1>3, <1>4

(* And on indices.                                                         *)
LEMMA ServedSameIndices ==
  ASSUME NEW mp, NEW f, NEW v, NEW rs
  PROVE  /\ Served!HasIndex(mp, f) = HasIndex(mp, f)
         /\ Served!OneToOne(rs, f) = OneToOne(rs, f)
         /\ Served!CreateIndex(mp, f, rs) = CreateIndex(mp, f, rs)
         /\ Served!Get(mp, f, v) = Get(mp, f, v)
<1>1. Served!HasIndex(mp, f) = HasIndex(mp, f)
  BY DEF Served!HasIndex, HasIndex
<1>2. Served!OneToOne(rs, f) = OneToOne(rs, f)
  BY DEF Served!OneToOne, OneToOne
<1>3. Served!CreateIndex(mp, f, rs) = CreateIndex(mp, f, rs)
  BY DEF Served!CreateIndex, CreateIndex, Served!WithIndex, WithIndex, Served!Holders, Holders
<1>4. Served!Get(mp, f, v) = Get(mp, f, v)
  BY DEF Served!Get, Get
<1> QED BY <1>1, <1>2, <1>3, <1>4

(* A row of the table, no fields when there is none.                       *)
LEMMA ServedTableRows ==
  ASSUME NEW k
  PROVE  Served!RowAt(k) = RowIn(Doc, k)
BY DEF Served!RowAt, RowIn, Served!NoFields, NoFields

(* What a command that went well changes of the table.                     *)
LEMMA ServedTookUnchanged ==
  ASSUME NEW e, NEW y, Turned(e, y)
  PROVE  /\ RowsIn(Doc') = RowsIn(e) /\ MapperIn(Indices') = MapperIn(y)
         /\ (RowOf(Blank) \in DOMAIN Doc') = Phantom(e)
         /\ status' = status /\ disk' = disk
BY DEF Turned, Phantom

(* A row that was given a value is one the table assigned.                 *)
LEMMA ServedRowAssigned ==
  ASSUME NEW z, NEW k \in RowKey, NEW r, NEW e, NEW y,
         Turned(e, y), Quiet, RowGiven(Doc, z, k, r, e, y)
  PROVE  Served!Assign(MapperIn(z), k, r)
<1> DEFINE erased == Unregister(MapperIn(z), RowIn(Doc, k))
           tErased == Served!Unregister(MapperIn(z), Served!RowAt(k))
<1>1. tErased = erased
  BY ServedSameMappers, ServedTableRows
<1>2. Served!Clashes(tErased, r, k) = {}
  BY <1>1, ServedSameMappers DEF RowGiven
<1>3. MapperIn(Indices)' = Served!Register(tErased, r, k)
  BY <1>1, ServedSameMappers, ServedTookUnchanged DEF RowGiven
<1>4. RowsIn(Doc)' = Served!Put(RowsIn(Doc), k, r)
  BY ServedTookUnchanged DEF RowGiven, Served!Put
<1>5. (Append(Users, "") \in DOMAIN Doc)' = (Append(Users, "") \in DOMAIN Doc)
  BY PhantomIs DEF RowGiven, Turned
<1> HIDE DEF tErased, erased
<1>6. (IF status = "up" THEN "up" ELSE "down")' = (IF status = "up" THEN "up" ELSE "down")
      /\ disk' = disk
  BY ServedTookUnchanged
<1>7. TableReply(reply)' = NoAnswer
  BY DEF Quiet
<1>8. [rows |-> RowsIn(disk.db), mapper |-> MapperIn(disk.mappers)]'
        = [rows |-> RowsIn(disk.db), mapper |-> MapperIn(disk.mappers)]
  BY <1>6
<1> QED BY <1>2, <1>3, <1>4, <1>5, <1>6, <1>7, <1>8 DEF Served!Assign, tErased

(* A row that is gone is one the table erased.                             *)
LEMMA ServedRowErased ==
  ASSUME NEW z, NEW k \in RowKey, NEW e, NEW y,
         Turned(e, y), Quiet, RowGone(Doc, z, k, e, y)
  PROVE  Served!Erase(MapperIn(z), k)
<1>1. CASE k \in DOMAIN RowsIn(Doc)
  <2>1. MapperIn(Indices)' = Served!Unregister(MapperIn(z), RowsIn(Doc)[k])
    BY <1>1, ServedSameMappers, ServedTookUnchanged DEF RowGone
  <2>2. RowsIn(Doc)' = Served!Without(RowsIn(Doc), k)
    BY ServedTookUnchanged DEF RowGone, Served!Without
  <2>3. (Append(Users, "") \in DOMAIN Doc)' = (Append(Users, "") \in DOMAIN Doc)
    BY PhantomIs DEF RowGone, Turned
  <2> QED BY <1>1, <2>1, <2>2, <2>3, ServedTookUnchanged DEF Quiet, Served!Erase
<1>2. CASE k \notin DOMAIN RowsIn(Doc)
  <2>1. MapperIn(Indices)' = MapperIn(z)
    BY <1>2, ServedTookUnchanged DEF RowGone
  <2>2. RowsIn(Doc)' = RowsIn(Doc)
    <3>1. RowsIn(e) = [j \in DOMAIN RowsIn(Doc) \ {k} |-> RowsIn(Doc)[j]] /\ DOMAIN RowsIn(Doc) \ {k} = DOMAIN RowsIn(Doc)
      BY <1>2 DEF RowGone
    <3>2. RowsIn(Doc) = [j \in DOMAIN RowsIn(Doc) |-> RowsIn(Doc)[j]]
      BY DEF RowsIn
    <3> QED BY <3>1, <3>2, ServedTookUnchanged
  <2>3. (Append(Users, "") \in DOMAIN Doc)' = (Append(Users, "") \in DOMAIN Doc)
    BY PhantomIs DEF RowGone, Turned
  <2> QED BY <1>2, <2>1, <2>2, <2>3, ServedTookUnchanged DEF Quiet, Served!Erase
<1> QED BY <1>1, <1>2

-----------------------------------------------------------------------------
(* The table's actions, from what a command changed.                       *)

(* A command that changes nothing the table has.                           *)
LEMMA ServedNothingChanged ==
  ASSUME Up, Turned(Doc, Indices), Quiet
  PROVE  Served!Other
<1>1. RowsIn(Doc)' = RowsIn(Doc) /\ MapperIn(Indices)' = MapperIn(Indices)
  BY ServedTookUnchanged
<1>2. (Append(Users, "") \in DOMAIN Doc)' = (Append(Users, "") \in DOMAIN Doc)
  BY DEF Turned
<1> QED BY <1>1, <1>2, ServedTookUnchanged DEF Up, Quiet, Served!Other

(* A field's lookup, in the index that is there or is made for it.         *)
LEMMA ServedTableLookup ==
  ASSUME BeganHeld, NEW f \in Field, NEW v \in Val, Ready(Doc, Indices, f)
  PROVE  LET z == IndexedBy(Doc, Indices, f)
             k == LookKey(z, f, v)
         IN /\ IsIndex(z) /\ Served!IndexReady(f) /\ Served!Indexed(f) = MapperIn(z)
            /\ k \in RowKey \cup {Blank}
            /\ Served!Resolve(f, v) = IF k = Blank THEN NoKey ELSE k
<1> DEFINE z == IndexedBy(Doc, Indices, f)
           k == LookKey(z, f, v)
<1>1. IsTableDb(Doc) /\ IsIndex(Indices)
  BY DEF BeganHeld
<1>2. /\ IsIndex(z)
      /\ MapperIn(z) = IF HasIndex(MapperIn(Indices), f) THEN MapperIn(Indices)
                       ELSE CreateIndex(MapperIn(Indices), f, RowsIn(Doc))
      /\ HasIndex(MapperIn(Indices), f) \/ OneToOne(RowsIn(Doc), f)
  BY <1>1, IndexedByIsIndex
<1>3. Served!Indexed(f) = MapperIn(z) /\ Served!IndexReady(f)
  BY <1>2, ServedSameIndices DEF Served!Indexed, Served!IndexReady
<1>4. k \in RowKey \cup {Blank} /\ Get(MapperIn(z), f, v) = IF k = Blank THEN NoKey ELSE k
  BY <1>2, LookKeys
<1>5. Served!Resolve(f, v) = Get(MapperIn(z), f, v)
  BY <1>3, ServedSameIndices DEF Served!Resolve
<1> QED BY <1>2, <1>3, <1>4, <1>5

(* SET by a field that finds a row is the table's SetBy.                   *)
LEMMA ServedSetByFound ==
  ASSUME BeganHeld, Up, NEW f \in Field, NEW v \in Val, Ready(Doc, Indices, f), NEW r, NEW k \in RowKey,
         k = LookKey(IndexedBy(Doc, Indices, f), f, v), NEW e, NEW y,
         Turned(e, y), Quiet, RowGiven(Doc, IndexedBy(Doc, Indices, f), k, r, e, y)
  PROVE  Served!SetBy(f, v, r)
<1> DEFINE z == IndexedBy(Doc, Indices, f)
<1>1. k # Blank /\ k # NoKey
  BY Literals, Keys
<1>2. Served!IndexReady(f) /\ Served!Indexed(f) = MapperIn(z) /\ Served!Resolve(f, v) = k
  BY <1>1, ServedTableLookup
<1>3. Served!Assign(MapperIn(z), k, r)
  BY ServedRowAssigned
<1> QED BY <1>1, <1>2, <1>3 DEF Up, Served!SetBy

(* SET by a field that finds nothing is too.                               *)
LEMMA ServedSetByNothing ==
  ASSUME BeganHeld, Up, NEW f \in Field, NEW v \in Val, Ready(Doc, Indices, f), NEW r,
         LookKey(IndexedBy(Doc, Indices, f), f, v) = Blank, NEW e,
         Turned(e, IndexedBy(Doc, Indices, f)), Quiet, Phantom(e) = TRUE, RowsIn(e) = RowsIn(Doc)
  PROVE  Served!SetBy(f, v, r)
<1> DEFINE z == IndexedBy(Doc, Indices, f)
<1>1. Served!IndexReady(f) /\ Served!Indexed(f) = MapperIn(z) /\ Served!Resolve(f, v) = NoKey
  BY ServedTableLookup
<1>2. RowsIn(Doc)' = RowsIn(Doc) /\ MapperIn(Indices)' = MapperIn(z)
  BY ServedTookUnchanged
<1>3. (Append(Users, "") \in DOMAIN Doc)' = TRUE
  BY PhantomIs DEF Turned
<1> QED BY <1>1, <1>2, <1>3, ServedTookUnchanged DEF Up, Quiet, Served!SetBy

(* DELETE by a field that finds a row is the table's DelBy.                *)
LEMMA ServedDelByFound ==
  ASSUME BeganHeld, Up, NEW f \in Field, NEW v \in Val, Ready(Doc, Indices, f), NEW k \in RowKey,
         k = LookKey(IndexedBy(Doc, Indices, f), f, v), NEW e, NEW y,
         Turned(e, y), Quiet, RowGone(Doc, IndexedBy(Doc, Indices, f), k, e, y)
  PROVE  Served!DelBy(f, v)
<1> DEFINE z == IndexedBy(Doc, Indices, f)
<1>1. k # Blank /\ k # NoKey
  BY Literals, Keys
<1>2. Served!IndexReady(f) /\ Served!Indexed(f) = MapperIn(z) /\ Served!Resolve(f, v) = k
  BY <1>1, ServedTableLookup
<1>3. Served!Erase(MapperIn(z), k)
  BY ServedRowErased
<1> QED BY <1>2, <1>3 DEF Up, Served!DelBy

(* DELETE by a field that finds nothing is too.                            *)
LEMMA ServedDelByNothing ==
  ASSUME BeganHeld, Up, NEW f \in Field, NEW v \in Val, Ready(Doc, Indices, f),
         LookKey(IndexedBy(Doc, Indices, f), f, v) = Blank,
         Turned(Doc, IndexedBy(Doc, Indices, f)), Quiet
  PROVE  Served!DelBy(f, v)
<1> DEFINE z == IndexedBy(Doc, Indices, f)
<1>1. Served!IndexReady(f) /\ Served!Indexed(f) = MapperIn(z) /\ Served!Resolve(f, v) = NoKey
  BY ServedTableLookup
<1>2. RowsIn(Doc)' = RowsIn(Doc) /\ MapperIn(Indices)' = MapperIn(z)
  BY ServedTookUnchanged
<1>3. (Append(Users, "") \in DOMAIN Doc)' = (Append(Users, "") \in DOMAIN Doc)
  BY DEF Turned
<1>4. NoKey \notin DOMAIN RowsIn(Doc)
  <2>1. DOMAIN RowsIn(Doc) \subseteq RowKey
    BY ObjectsAndRows DEF BeganHeld
  <2> QED BY <2>1, Keys
<1>5. Served!Erase(MapperIn(z), NoKey)
  BY <1>2, <1>3, <1>4, ServedTookUnchanged DEF Quiet, Served!Erase
<1> QED BY <1>1, <1>5 DEF Up, Served!DelBy

(* GET by a field is the table's GetBy, with the same answer.              *)
LEMMA ServedGotBy ==
  ASSUME BeganHeld, Up, NEW f \in Field, NEW v \in Val, Ready(Doc, Indices, f),
         Turned(Doc, IndexedBy(Doc, Indices, f)),
         TableReply(reply') = [field |-> f, val |-> v,
                               row |-> RowIn(Doc, LookKey(IndexedBy(Doc, Indices, f), f, v))]
  PROVE  Served!GetBy(f, v)
<1> DEFINE z == IndexedBy(Doc, Indices, f)
           k == LookKey(z, f, v)
<1>1. /\ Served!IndexReady(f) /\ Served!Indexed(f) = MapperIn(z)
      /\ k \in RowKey \cup {Blank} /\ Served!Resolve(f, v) = IF k = Blank THEN NoKey ELSE k
  BY ServedTableLookup
<1>2. RowsIn(Doc)' = RowsIn(Doc) /\ MapperIn(Indices)' = MapperIn(z)
  BY ServedTookUnchanged
<1>3. (Append(Users, "") \in DOMAIN Doc)' = (Append(Users, "") \in DOMAIN Doc)
  BY DEF Turned
<1>4. NoKey \notin DOMAIN RowsIn(Doc) /\ Blank \notin DOMAIN RowsIn(Doc)
  <2>1. DOMAIN RowsIn(Doc) \subseteq RowKey
    BY ObjectsAndRows DEF BeganHeld
  <2> QED BY <2>1, Keys, Literals
<1>5. Served!RowAt(Served!Resolve(f, v)) = RowIn(Doc, k)
  BY <1>1, <1>4, ServedTableRows DEF RowIn
<1> HIDE DEF z, k
<1> QED BY <1>1, <1>2, <1>3, <1>5, ServedTookUnchanged DEF Up, Served!GetBy, z, k

(* Fields of a row.                                                        *)
LEMMA ServedFieldSet ==
  ASSUME Up, NEW k \in RowKey, NEW f \in Written, NEW v, NEW e,
         Turned(e, Indices), Quiet, FieldGiven(Doc, k, f, v, e)
  PROVE  Served!SetField(k, f, v)
<1>1. RowsIn(Doc)' = Served!Put(RowsIn(Doc), k, [Served!RowAt(k) EXCEPT ![f] = v])
  BY ServedTookUnchanged, ServedTableRows DEF FieldGiven, Served!Put
<1>2. MapperIn(Indices)' = MapperIn(Indices)
  BY ServedTookUnchanged
<1>3. (Append(Users, "") \in DOMAIN Doc)' = (Append(Users, "") \in DOMAIN Doc)
  BY PhantomIs DEF FieldGiven, Turned
<1> QED BY <1>1, <1>2, <1>3, ServedTookUnchanged DEF Up, Quiet, Served!SetField

(* SET of users.                                                           *)
LEMMA ServedTableReplaced ==
  ASSUME Up, NEW e, Turned(e, NoMappers), Quiet, Phantom(e) = FALSE
  PROVE  Served!Replace(RowsIn(e))
<1>1. MapperIn(NoMappers) = Served!EmptyMapper
  <2>1. IsIndex(NoMappers) /\ Users \notin DOMAIN NoMappers
    BY DEF IsIndex, NoMappers
  <2>2. MapperIn(NoMappers) = EmptyMapper
    BY <2>1, MapperInIsPlain, EmptyMapperPlain DEF MapperOf
  <2> QED BY <2>2 DEF EmptyMapper, Served!EmptyMapper
<1>2. RowsIn(Doc)' = RowsIn(e) /\ MapperIn(Indices)' = Served!EmptyMapper
  BY <1>1, ServedTookUnchanged
<1>3. (Append(Users, "") \in DOMAIN Doc)' = FALSE
  BY PhantomIs DEF Turned
<1> QED BY <1>2, <1>3, ServedTookUnchanged DEF Up, Quiet, Served!Replace

(* Actions of the table among its steps.                                   *)
LEMMA ServedTableSteps ==
  /\ \A k \in RowKey, r \in Row : Served!SetRow(k, r) => Served!Next
  /\ \A k \in RowKey : Served!DelRow(k) => Served!Next
  /\ \A f \in Field, v \in Val : Served!GetBy(f, v) \/ Served!DelBy(f, v) => Served!Next
  /\ \A f \in Field, v \in Val, r \in Row : Served!SetBy(f, v, r) => Served!Next
  /\ \A t \in Served!Tables : Served!Replace(t) => Served!Next
  /\ \A k \in RowKey, f \in Written, v \in Val \cup {NoVal} : Served!SetField(k, f, v) => Served!Next
  /\ Served!Other \/ Served!Kill => Served!Next
<1>1. Served!Row = Row
  BY DEF Served!Row, Row
<1> QED BY <1>1, Zenon DEF Served!Next

(* Rows are a table.                                                       *)
LEMMA ServedRowsAreTable ==
  ASSUME NEW e, IsTableDb(e)
  PROVE  RowsIn(e) \in Served!Tables
<1>1. DOMAIN RowsIn(e) \subseteq RowKey /\ \A k \in DOMAIN RowsIn(e) : RowsIn(e)[k] \in Row
  BY ObjectsAndRows
<1>2. RowsIn(e) = [k \in DOMAIN RowsIn(e) |-> RowsIn(e)[k]]
  BY DEF RowsIn
<1>3. RowsIn(e) \in [DOMAIN RowsIn(e) -> Row]
  BY <1>1, <1>2
<1>4. Served!Row = Row
  BY DEF Served!Row, Row
<1> QED BY <1>1, <1>3, <1>4 DEF Served!Tables

(* What a command came to is a step of the table.                          *)
LEMMA ServedComesIsStep ==
  ASSUME BeganHeld, Up, NEW e, NEW y, Turned(e, y), Comes(Doc, Indices, e, y, TableReply(reply'))
  PROVE  Served!Next
<1>1. IsTableDb(Doc) /\ IsIndex(Indices)
  BY DEF BeganHeld
<1>2. CASE Quiet /\ Quietly(Doc, Indices, e, y)
  <2>1. CASE e = Doc /\ y = Indices
    BY <1>2, <2>1, ServedNothingChanged, ServedTableSteps
  <2>2. ASSUME NEW k \in RowKey, NEW r \in Row, RowGiven(Doc, Indices, k, r, e, y) PROVE Served!Next
    <3>1. Served!SetRow(k, r)
      BY <1>2, <2>2, ServedRowAssigned DEF Up, Served!SetRow
    <3> QED BY <3>1, ServedTableSteps
  <2>3. ASSUME NEW k \in RowKey, RowGone(Doc, Indices, k, e, y) PROVE Served!Next
    <3>1. Served!DelRow(k)
      BY <1>2, <2>3, ServedRowErased DEF Up, Served!DelRow
    <3> QED BY <3>1, ServedTableSteps
  <2>4. ASSUME y = Indices, NEW k \in RowKey, NEW f \in Written, NEW v \in Val \cup {NoVal},
               FieldGiven(Doc, k, f, v, e)
        PROVE  Served!Next
    BY <1>2, <2>4, ServedFieldSet, ServedTableSteps
  <2>5. CASE y = NoMappers /\ IsTableDb(e) /\ Phantom(e) = FALSE
    BY <1>2, <2>5, ServedTableReplaced, ServedRowsAreTable, ServedTableSteps
  <2> QED BY <1>2, <2>1, <2>2, <2>3, <2>4, <2>5 DEF Quietly, RowComes
<1>3. ASSUME NEW f \in Field, NEW v \in Val, ByField(Doc, Indices, f, v, e, y, TableReply(reply'))
      PROVE  Served!Next
  <2> DEFINE z == IndexedBy(Doc, Indices, f)
             k == LookKey(z, f, v)
  <2>1. /\ Ready(Doc, Indices, f)
        /\ (Quiet /\ Looked(Doc, z, k, e, y)) \/ Shown(Doc, z, k, f, v, e, y, TableReply(reply'))
    BY <1>3 DEF ByField, Quiet
  <2>2. CASE Shown(Doc, z, k, f, v, e, y, TableReply(reply'))
    <3>1. Served!GetBy(f, v)
      BY <2>1, <2>2, ServedGotBy DEF Shown
    <3> QED BY <3>1, ServedTableSteps
  <2>3. CASE Quiet /\ k = Blank /\ y = z /\ e = Doc
    <3>1. Served!DelBy(f, v)
      BY <2>1, <2>3, ServedDelByNothing
    <3> QED BY <3>1, ServedTableSteps
  <2>4. CASE Quiet /\ k = Blank /\ y = z /\ BlankGiven(Doc, e)
    <3>1. NoFields \in Row
      BY DEF NoFields, Row
    <3>2. Served!SetBy(f, v, NoFields)
      BY <2>1, <2>4, ServedSetByNothing DEF BlankGiven
    <3> QED BY <3>1, <3>2, ServedTableSteps
  <2>5. ASSUME Quiet, k \in RowKey, NEW r \in Row, RowGiven(Doc, z, k, r, e, y) PROVE Served!Next
    <3>1. Served!SetBy(f, v, r)
      BY <2>1, <2>5, ServedSetByFound
    <3> QED BY <3>1, ServedTableSteps
  <2>6. CASE Quiet /\ k \in RowKey /\ RowGone(Doc, z, k, e, y)
    <3>1. Served!DelBy(f, v)
      BY <2>1, <2>6, ServedDelByFound
    <3> QED BY <3>1, ServedTableSteps
  <2> HIDE DEF z, k
  <2> QED BY <2>1, <2>2, <2>3, <2>4, <2>5, <2>6 DEF Looked, RowComes
<1> QED BY <1>2, <1>3 DEF Comes, Quiet

-----------------------------------------------------------------------------
(* The invariant, and the implementation.                                  *)
ServedInv == SerialInv /\ ~raced /\ BeganHeld

(* A step in which no command ends.                                        *)
LEMMA StillOrKilled ==
  ASSUME Up, UNCHANGED <<Began, reply, disk>>
  PROVE  [Served!Next]_(Served!vars)
<1>1. /\ RowsIn(Doc)' = RowsIn(Doc) /\ MapperIn(Indices)' = MapperIn(Indices)
      /\ (Append(Users, "") \in DOMAIN Doc)' = (Append(Users, "") \in DOMAIN Doc)
      /\ disk' = disk /\ TableReply(reply)' = TableReply(reply)
  BY DEF Doc, Indices
<1>2. CASE status' = "up"
  <2>1. UNCHANGED Served!vars
    BY <1>1, <1>2 DEF Up, Served!vars, Doc, Indices
  <2> QED BY <2>1
<1>3. CASE status' # "up"
  <2>1. Served!Kill
    BY <1>1, <1>3 DEF Up, Served!Kill, Served!Crash, Doc, Indices
  <2> QED BY <2>1, ServedTableSteps
<1> QED BY <1>2, <1>3

(* A command that ends.                                                    *)
LEMMA EndIsStep ==
  ASSUME ServedInv, OneCommand, Together, Up, disk' = disk, NEW c \in Clients, Ends(c)
  PROVE  BeganHeld' /\ Served!Next
<1> DEFINE alone == Alone(Began, doing[c])
           m == alone.m
<1>1. at[c] # "reply" /\ at'[c] = "reply" /\ at[c] \in Asked /\ status' = status
  BY DEF Ends, GoTo, ServedInv, SerialInv, AskedInv, Asked, Places, Inside, Mapping
<1>2. m.fault # "throw" /\ Began' = [m EXCEPT !.fault = "none"] /\ reply' = alone.answer
  BY <1>1 DEF OneCommand, Finishes
<1>3. IsSound(Began) /\ Began = M(Doc, Indices) /\ IsTableDb(Doc) /\ IsIndex(Indices)
  BY BeganSound DEF ServedInv, BeganHeld
<1>4. IsCommand(doing[c]) /\ doing[c].name \in OnData
  BY <1>1, NoMappingCommand DEF Ends, OnDatabase, ServedInv, SerialInv
<1>5. IsSound(m)
  BY <1>3, <1>4, AloneSound
<1>6. Lands(Doc, Indices, m, TableReply(alone.answer))
  <2>1. IsSound(M(Doc, Indices))
    BY <1>3
  <2> QED BY <1>3, <1>4, <2>1, AloneLands
<1> DEFINE e == m.db
           y == m.mappers
<1> HIDE DEF m, alone
<1>7. /\ m.nodes = NodesOf(y) /\ m.mappings = <<>>
      /\ Comes(Doc, Indices, e, y, TableReply(reply'))
  BY <1>2, <1>6 DEF Lands, Thrown
<1>8. Began' = M(e, y) /\ Doc' = e /\ Indices' = y
  <2> DEFINE g == [m EXCEPT !.fault = "none"]
  <2>1. /\ IsMachine(g) /\ g.db = e /\ g.nodes = m.nodes /\ g.mappers = y
        /\ g.mappings = m.mappings /\ g.fault = "none"
    BY <1>5, MachineWith DEF IsSound
  <2>2. Began' = g
    BY <1>2
  <2> HIDE DEF g
  <2>3. g = M(e, y)
    BY <1>7, <2>1 DEF IsMachine, M, Machine
  <2> QED BY <2>1, <2>2, <2>3 DEF Doc, Indices
<1>9. IsTableDb(e) /\ IsIndex(y)
  BY <1>3, <1>7, ComesHeld
<1>10. BeganHeld'
  BY <1>8, <1>9 DEF BeganHeld
<1>11. Turned(e, y)
  BY <1>1, <1>8 DEF Turned
<1> QED BY <1>7, <1>10, <1>11, ServedComesIsStep DEF ServedInv

(* A step that is none of the database's, and no command ends.             *)
LEMMA ApartIsStep ==
  ASSUME ServedInv, Together, OneCommand, Remember, Up, disk' = disk, NEW c \in Clients, Apart(c)
  PROVE  UNCHANGED <<Began, reply, disk>>
<1>1. /\ Now' = Now /\ reply' = reply
      /\ \A d \in Clients : at[d] \in Inside <=> at'[d] \in Inside
  BY DEF Apart, GoTo, Now, memory, ServedInv, SerialInv, AskedInv, Inside, Mapping
<1>2. AtRest' = AtRest
  BY <1>1 DEF AtRest
<1> QED BY <1>1, <1>2 DEF Began, Remember

(* Every step keeps the invariant and is one of the table, or leaves it.   *)
LEMMA ServedStep ==
  ServedInv /\ [SerialNext]_serialvars => ServedInv' /\ [Served!Next]_(Served!vars)
<1> SUFFICES ASSUME ServedInv, [SerialNext]_serialvars
             PROVE  ServedInv' /\ [Served!Next]_(Served!vars)
  OBVIOUS
<1>1. SerialInv' /\ [~raced' => OneCommand]_serialvars
  BY SerialGoes DEF ServedInv
<1>2. [ServerNext]_allvars
  BY DEF SerialNext, serialvars
<1>3. ~raced' /\ disk' = disk
  BY <1>2, NoRace, DiskStays DEF ServedInv, SerialInv
<1>4. CASE UNCHANGED serialvars
  <2>1. /\ UNCHANGED <<status, reply, before, at>> /\ Now' = Now
    BY <1>4 DEF serialvars, allvars, vars, memory, Now
  <2>2. Began' = Began
    BY <2>1 DEF Began, AtRest
  <2>3. BeganHeld'
    BY <2>2 DEF ServedInv, BeganHeld, Doc, Indices
  <2>4. UNCHANGED Served!vars
    BY <1>3, <2>1, <2>2 DEF Served!vars, Doc, Indices
  <2> QED BY <1>1, <1>3, <2>3, <2>4 DEF ServedInv
<1>5. CASE SerialNext /\ OneCommand
  <2>1. Remember /\ ServerNext /\ ~Undefined
    BY <1>5 DEF SerialNext, Undefined, ServedInv
  <2>2. PICK c \in Clients : Accept(c) \/ Leave(c) \/ Ask(c) \/ Run(c) \/ Reply(c)
    BY <2>1 DEF ServerNext
  <2>3. /\ Together /\ Up
        /\ Fails(c) \/ Begins(c) \/ Goes(c) \/ Ends(c) \/ Apart(c)
    BY <1>3, <2>2, StepKinds DEF ServedInv, SerialInv, Up
  <2>4. ASSUME UNCHANGED <<Began, reply, disk>> PROVE ServedInv' /\ [Served!Next]_(Served!vars)
    <3>1. BeganHeld'
      BY <2>4 DEF ServedInv, BeganHeld, Doc, Indices
    <3> QED BY <1>1, <1>3, <2>3, <2>4, <3>1, StillOrKilled DEF ServedInv
  <2>5. CASE \A d \in Clients : ~Finishes(d)
    BY <1>3, <1>5, <2>4, <2>5 DEF OneCommand
  <2>6. CASE Fails(c) \/ Begins(c) \/ Goes(c)
    <3>1. \A d \in Clients : ~Finishes(d)
      BY <2>6 DEF Fails, Begins, Goes, GoTo, Finishes, Inside, Mapping, ServedInv, SerialInv, AskedInv
    <3> QED BY <2>5, <3>1
  <2>7. CASE Ends(c)
    BY <1>1, <1>3, <1>5, <2>3, <2>7, EndIsStep DEF ServedInv
  <2>8. CASE Apart(c)
    BY <1>3, <1>5, <2>1, <2>3, <2>4, <2>8, ApartIsStep
  <2> QED BY <2>3, <2>6, <2>7, <2>8
<1>6. SerialNext => OneCommand \/ UNCHANGED serialvars
  BY <1>1, <1>3
<1> QED BY <1>4, <1>5, <1>6

(* The server starts as the table does.                                    *)
LEMMA ServedStarts == SerialInit => ServedInv /\ Served!Init
<1> SUFFICES ASSUME SerialInit PROVE ServedInv /\ Served!Init
  OBVIOUS
<1>1. Init /\ ~raced /\ \A c \in Clients : at[c] \notin Inside
  BY DEF SerialInit, ServerInit, Inside, Mapping
<1>2. TableInv /\ Table!Init
  BY <1>1, TableInvInit
<1>3. Began = Now /\ Now = M(db, mappers)
  BY <1>1, <1>2 DEF Began, AtRest, Now, M, TableInv, Held
<1>4. Doc = db /\ Indices = mappers
  BY <1>3, SoundMachine DEF Doc, Indices
<1>5. BeganHeld
  BY <1>2, <1>3, <1>4 DEF BeganHeld, TableInv, Held
<1>6. Served!Init
  BY <1>2, <1>4 DEF Table!Init, Served!Init, Table!NoRows, Served!NoRows, Table!NoFields, Served!NoFields,
     Table!EmptyMapper, Served!EmptyMapper
<1> QED BY <1>1, <1>5, <1>6, SerialStarts DEF ServedInv

(* A server with any number of threads implements IndexedTable: what the   *)
(* interleaved steps of its clients do to users, and what they answer, is  *)
(* what a table does that serves one command after the other.              *)
THEOREM ServerImplementsTable == SerialSpec => ServesTable
<1>1. SerialInit => ServedInv /\ Served!Init
  BY ServedStarts
<1>2. ServedInv /\ [SerialNext]_serialvars => ServedInv' /\ [Served!Next]_(Served!vars)
  BY ServedStep
<1> QED BY <1>1, <1>2, PTL DEF SerialSpec, ServesTable, Served!Spec

-----------------------------------------------------------------------------
(* What the server has from the table.                                     *)

(* What is proved of IndexedTable, for the table that is served.           *)
Proved == INSTANCE IndexedTableProofs WITH
  Key <- RowKey, Interactive <- FALSE, NoReply <- NoAnswer,
  rows <- RowsIn(Doc),
  phantom <- Append(Users, "") \in DOMAIN Doc,
  mapper <- MapperIn(Indices),
  status <- IF status = "up" THEN "up" ELSE "down",
  disk <- [rows |-> RowsIn(disk.db), mapper |-> MapperIn(disk.mappers)],
  reply <- TableReply(reply)

(* The steps of the table are those the theorems of IndexedTable speak of. *)
LEMMA ServedSameNext == Served!Next => Proved!Next
BY Zenon DEF Served!Next, Proved!Next, 
  Served!SetRow, Proved!SetRow, Served!DelRow, Proved!DelRow, Served!GetBy, Proved!GetBy, Served!DelBy, Proved!DelBy, 
  Served!SetBy, Proved!SetBy, Served!IndexThrows, Proved!IndexThrows, Served!Replace, Proved!Replace, Served!SetField, Proved!SetField,
  Served!DelField, Proved!DelField, Served!Other, Proved!Other, Served!Save, Proved!Save, Served!Kill, Proved!Kill, Served!Restart, Proved!Restart,
  Served!Assign, Proved!Assign, Served!Erase, Proved!Erase, Served!Throw, Proved!Throw, Served!Crash, Proved!Crash, Served!Put, Proved!Put,
  Served!Without, Proved!Without, Served!RowAt, Proved!RowAt, Served!IndexReady, Proved!IndexReady, Served!Indexed, Proved!Indexed,
  Served!Resolve, Proved!Resolve, Served!NoFields, Proved!NoFields, Served!EmptyMapper, Proved!EmptyMapper, 
  Served!HasIndex, Proved!HasIndex, Served!Get, Proved!Get, Served!Hooked, Proved!Hooked, Served!Clashes, Proved!Clashes,
  Served!WithEntries, Proved!WithEntries, Served!Register, Proved!Register, Served!RegisterThrows, Proved!RegisterThrows,
  Served!Unregister, Proved!Unregister, Served!Holders, Proved!Holders, Served!OneToOne, Proved!OneToOne, Served!WithIndex, Proved!WithIndex,
  Served!CreateIndex, Proved!CreateIndex, Served!CreateIndexThrows, Proved!CreateIndexThrows, Served!Tables, Proved!Tables, Served!Row, Proved!Row

(* So are its initial states,                                              *)
LEMMA ServedSameInit == Served!Init => Proved!Init
BY DEF Served!Init, Proved!Init, Served!NoRows, Proved!NoRows, Served!NoFields, Proved!NoFields,
       Served!EmptyMapper, Proved!EmptyMapper

(* its variables,                                                          *)
LEMMA ServedSameVars == UNCHANGED Served!vars => UNCHANGED Proved!vars
BY DEF Served!vars, Proved!vars

(* and what it promises.                                                   *)
LEMMA ServedSameExact ==
  (Proved!LiveIndexExact => Served!LiveIndexExact) /\ (Proved!ReplyExact => Served!ReplyExact)
BY DEF Served!LiveIndexExact, Proved!LiveIndexExact, Served!Exact, Proved!Exact,
       Served!Holders, Proved!Holders, Served!Get, Proved!Get,
       Served!ReplyExact, Proved!ReplyExact, Served!NoFields, Proved!NoFields

(* With any number of threads the index of users on every field that       *)
(* clients write only with whole rows is exact after every command, and    *)
(* what a GET by such a field answers is what a scan finds in the database *)
(* that the command left: the lock of RukoDb.hpp:31 is enough for          *)
(* IndexManager::resolveIndexKey, handleDelete and handleCreate.           *)
THEOREM ServedExact == SerialSpec => [](Served!LiveIndexExact /\ Served!ReplyExact)
<1>1. Proved!TableAssumption
  BY RowKeyAssumption DEF Proved!TableAssumption
<1>2. Proved!KeyMapperAssumption
  BY KeyMapperAssumption DEF Proved!KeyMapperAssumption
<1>3. Proved!Spec => []Proved!LiveIndexExact
  BY <1>1, <1>2, Proved!ServerIndexExact, PTL
<1>4. Proved!Spec => []Proved!ReplyExact
  BY <1>1, <1>2, Proved!RepliesExact, PTL
<1>5. Served!Init => Proved!Init
  BY ServedSameInit
<1>6. [Served!Next]_(Served!vars) => [Proved!Next]_(Proved!vars)
  BY ServedSameNext, ServedSameVars
<1>7. Served!Spec => Proved!Spec
  BY <1>5, <1>6, PTL DEF Served!Spec, Proved!Spec
<1>8. (Proved!LiveIndexExact => Served!LiveIndexExact) /\ (Proved!ReplyExact => Served!ReplyExact)
  BY ServedSameExact
<1> QED BY <1>3, <1>4, <1>7, <1>8, ServerImplementsTable, PTL DEF ServesTable

(* The invariant holds throughout.                                         *)
LEMMA AlwaysServed == SerialSpec => []ServedInv
<1>1. SerialInit => ServedInv
  BY ServedStarts
<1>2. ServedInv /\ [SerialNext]_serialvars => ServedInv'
  BY ServedStep
<1> QED BY <1>1, <1>2, PTL DEF SerialSpec

(* Threads race in the indices only where a client makes or deletes        *)
(* mappings, whose commands do not take the lock (RukoDb.hpp:31).          *)
THEOREM NeverRaced == SerialSpec => []~raced
<1>1. ServedInv => ~raced
  BY DEF ServedInv
<1> QED BY <1>1, AlwaysServed, PTL

(* Between the steps of all threads, whenever none of them is inside       *)
(* RukoDb, every index in memory agrees with the database, for clients     *)
(* that write whole rows of users only.                                    *)
THEOREM ThreadsIndexExact ==
  ASSUME Written = {}
  PROVE  SerialSpec => []IndexedTogether
<1>1. ServedInv /\ Served!LiveIndexExact => IndexedTogether
  <2> SUFFICES ASSUME ServedInv, Served!LiveIndexExact, AtRest PROVE IndexExact
    BY DEF IndexedTogether
  <2>1. Began = Now /\ Now = M(Doc, Indices)
    BY DEF Began, ServedInv, BeganHeld
  <2>2. db = Doc /\ nodes = NodesOf(Indices) /\ mappers = Indices /\ mappings = <<>>
    BY <2>1 DEF Now, M, Machine
  <2>3. Held
    BY <2>2 DEF Held, ServedInv, BeganHeld
  <2>4. Table!LiveIndexExact
    BY <2>2 DEF Served!LiveIndexExact, Table!LiveIndexExact, Served!Exact, Table!Exact,
       Served!Holders, Table!Holders, Served!Get, Table!Get
  <2> QED BY <2>3, <2>4, HeldExact
<1> QED BY <1>1, AlwaysServed, ServedExact, PTL
=============================================================================
