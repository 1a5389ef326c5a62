---------------------------- MODULE IndexedTable ----------------------------
(***************************************************************************)
(* One container of the database (a dict such as `users`, whose children   *)
(* are rows) and the KeyMapper of its index node, under the commands that  *)
(* reach them through RukoDb: SET, DELETE and GET of a row by its key or   *)
(* by a field ("users.name:ann"), SET and DELETE of one field of a row,    *)
(* SET of the container, the background save, the end of the process and   *)
(* its restart from the file.  Every command runs under RukoDb::mut, so it *)
(* is one step.  Paths, nesting, lists and mappings are in IndexManager.   *)
(***************************************************************************)
EXTENDS KeyMapper

CONSTANTS Key,          \* keys a client gives to rows (never the empty string)
          Written,      \* fields that clients also write one by one, inside a row
          Interactive,  \* TRUE: runInteractive catches exceptions; FALSE: handleClient does not
          NoReply

ASSUME TableAssumption ==
  /\ NoKey \notin Key
  /\ Written \subseteq Field
  /\ Interactive \in BOOLEAN

VARIABLES rows,     \* the container's children
          phantom,  \* the container also holds an Empty object under the key ""
          mapper,   \* the KeyMapper of its index node
          status,   \* "up" or "down": whether the process runs
          disk,     \* what the last completed save wrote
          reply     \* the last GET by a field: what it asked and the row it returned

vars == <<rows, phantom, mapper, status, disk, reply>>

NoRows == [k \in {} |-> NoFields]

Init ==
  /\ rows = NoRows /\ phantom = FALSE /\ mapper = EmptyMapper
  /\ status = "up"
  /\ disk = [rows |-> NoRows, mapper |-> EmptyMapper]
  /\ reply = NoReply

Put(t, k, r) == [j \in DOMAIN t \cup {k} |-> IF j = k THEN r ELSE t[j]]
Without(t, k) == [j \in DOMAIN t \ {k} |-> t[j]]
RowAt(k) == IF k \in DOMAIN rows THEN rows[k] ELSE NoFields

(* The process ends: what memory held no longer matters. *)
Crash ==
  /\ status' = "down"
  /\ UNCHANGED <<rows, phantom, mapper, disk, reply>>

(* Mutated form of Throw: the client's thread catches the exception. *)
ThrowCaught(done) == done

(* An uncaught exception ends the server; the interactive shell reports it *)
(* and goes on from what the command had done so far.                      *)
Throw(done) == IF Interactive THEN done ELSE Crash

-----------------------------------------------------------------------------
(* RukoDb::set on a row whose key is known: unregister the old value with  *)
(* mapper m, assign, register the new one.  The assignment stands when     *)
(* registerVal throws.                                                     *)
Assign(m, k, r) ==
  LET erased == Unregister(m, RowAt(k))
      AssignWith(mappers) ==
        /\ rows' = Put(rows, k, r)
        /\ mapper' \in mappers
        /\ reply' = NoReply
        /\ UNCHANGED <<phantom, status, disk>>
  IN \/ /\ Clashes(erased, r, k) = {}
        /\ AssignWith({Register(erased, r, k)})
     \/ /\ Clashes(erased, r, k) # {}
        /\ Throw(AssignWith(RegisterThrows(erased, r, k)))

(* RukoDb::del on a row. *)
Erase(m, k) ==
  /\ \/ /\ k \in DOMAIN rows
        /\ mapper' = Unregister(m, rows[k])
        /\ rows' = Without(rows, k)
     \/ /\ k \notin DOMAIN rows
        /\ mapper' = m
        /\ UNCHANGED rows
  /\ reply' = NoReply
  /\ UNCHANGED <<phantom, status, disk>>

SetRow(k, r) == status = "up" /\ Assign(mapper, k, r)
DelRow(k)    == status = "up" /\ Erase(mapper, k)

(* resolveIndexKey: the first key "f:v" builds the index on f. *)
IndexReady(f) == HasIndex(mapper, f) \/ OneToOne(rows, f)

(* Mutated form of Indexed: the new index is not filled from the rows. *)
IndexedUnfilled(f) ==
  IF HasIndex(mapper, f) THEN mapper
  ELSE WithIndex(mapper, f, [v \in Val |-> NoKey])

Indexed(f) == IF HasIndex(mapper, f) THEN mapper ELSE CreateIndex(mapper, f, rows)

Resolve(f, v) == Get(Indexed(f), f, v)

GetBy(f, v) ==
  /\ status = "up" /\ IndexReady(f)
  /\ mapper' = Indexed(f)
  /\ reply' = [field |-> f, val |-> v, row |-> RowAt(Resolve(f, v))]
  /\ UNCHANGED <<rows, phantom, status, disk>>

(* Mutated form of SetBy: the empty key is not refused. *)
SetByEmptyKey(f, v, r) ==
  /\ status = "up" /\ IndexReady(f)
  /\ Assign(Indexed(f), Resolve(f, v), r)

(* SET through a field that finds nothing is refused, but traverseTo has   *)
(* already added an Empty object under the key "".                         *)
SetBy(f, v, r) ==
  /\ status = "up" /\ IndexReady(f)
  /\ \/ Resolve(f, v) # NoKey /\ Assign(Indexed(f), Resolve(f, v), r)
     \/ /\ Resolve(f, v) = NoKey
        /\ phantom' = TRUE
        /\ mapper' = Indexed(f)
        /\ reply' = NoReply
        /\ UNCHANGED <<rows, status, disk>>

DelBy(f, v) ==
  /\ status = "up" /\ IndexReady(f)
  /\ Erase(Indexed(f), Resolve(f, v))

(* Any command through a field two rows share: createIndex throws. *)
IndexThrows(f) ==
  /\ status = "up" /\ ~IndexReady(f)
  /\ Throw(/\ mapper' \in CreateIndexThrows(mapper, f, rows)
           /\ reply' = NoReply
           /\ UNCHANGED <<rows, phantom, status, disk>>)

(* SET of the whole container.  handleDelete destroys its index node, and  *)
(* handleCreate then reads that node if the new container has any child:   *)
(* the freed pointer reads as null, or the process crashes.                *)
Replace(t) ==
  /\ status = "up"
  /\ \/ /\ rows' = t /\ phantom' = FALSE /\ mapper' = EmptyMapper
        /\ reply' = NoReply
        /\ UNCHANGED <<status, disk>>
     \/ mapper.indices # {} /\ DOMAIN t # {} /\ Crash

(* SET of one field (or a non-string there, NoVal): only the row's own     *)
(* index node would be told, and it has none.                              *)
SetField(k, f, v) ==
  /\ status = "up"
  /\ rows' = Put(rows, k, [RowAt(k) EXCEPT ![f] = v])
  /\ reply' = NoReply
  /\ UNCHANGED <<phantom, mapper, status, disk>>

(* DELETE of one field.  del takes a reference to the missing parent of a  *)
(* field of no row: the process crashes.                                   *)
DelField(k, f) ==
  /\ status = "up"
  /\ \/ /\ k \in DOMAIN rows
        /\ rows' = Put(rows, k, [rows[k] EXCEPT ![f] = NoVal])
        /\ reply' = NoReply
        /\ UNCHANGED <<phantom, mapper, status, disk>>
     \/ k \notin DOMAIN rows /\ Crash

(* Any other command: a row read by its key, a listing, what RukoDb refuses *)
(* before it changes anything.                                             *)
Other ==
  /\ status = "up"
  /\ reply' = NoReply
  /\ UNCHANGED <<rows, phantom, mapper, status, disk>>

-----------------------------------------------------------------------------
(* The save thread.  Serializing an Empty object throws, and no save       *)
(* thread catches it.                                                      *)
Save ==
  /\ status = "up"
  /\ \/ /\ ~phantom
        /\ disk' = [rows |-> rows, mapper |-> mapper]
        /\ UNCHANGED <<rows, phantom, mapper, status, reply>>
     \/ phantom /\ Crash

Kill == status = "up" /\ Crash

Restart ==
  /\ status = "down"
  /\ status' = "up"
  /\ rows' = disk.rows /\ mapper' = disk.mapper /\ phantom' = FALSE
  /\ reply' = NoReply
  /\ UNCHANGED disk

-----------------------------------------------------------------------------
Tables == UNION {[K -> Row] : K \in SUBSET Key}

Next ==
  \/ \E k \in Key, r \in Row : SetRow(k, r)
  \/ \E k \in Key : DelRow(k)
  \/ \E f \in Field, v \in Val : GetBy(f, v) \/ DelBy(f, v)
  \/ \E f \in Field, v \in Val, r \in Row : SetBy(f, v, r)
  \/ \E f \in Field : IndexThrows(f)
  \/ \E t \in Tables : Replace(t)
  \/ \E k \in Key, f \in Written, v \in Val \cup {NoVal} : SetField(k, f, v)
  \/ \E k \in Key, f \in Written : DelField(k, f)
  \/ Other \/ Save \/ Kill \/ Restart

Spec == Init /\ [][Next]_vars

-----------------------------------------------------------------------------
(* The state stays within the values the code gives these variables. *)
TypeOK ==
  /\ rows \in Tables /\ mapper \in Mapper(Key)
  /\ disk \in [rows : Tables, mapper : Mapper(Key)]
  /\ phantom \in BOOLEAN /\ status \in {"up", "down"}
  /\ reply \in {NoReply} \cup [field : Field, val : Val, row : Row]

(* The index on f is exact when it sends every value to its one holder,    *)
(* and to the empty key when no row holds it.                              *)
Exact(t, m, f) ==
  f \in m.indices => \A v \in Val : Holders(t, f, v) = {Get(m, f, v)} \ {NoKey}

(* While the process runs, the index on every field that is only written   *)
(* with its whole row (built lazily by resolveIndexKey, maintained by      *)
(* handleDelete and handleCreate, restored by load) agrees with a scan of  *)
(* the rows.                                                               *)
LiveIndexExact ==
  status = "up" => \A f \in Field \ Written : Exact(rows, mapper, f)

(* So does the pair written to the file: a restart never brings back an    *)
(* index that disagrees with the rows saved beside it.                     *)
DiskIndexExact ==
  \A f \in Field \ Written : Exact(disk.rows, disk.mapper, f)

(* GET by such a field returns the row a scan of the container would find, *)
(* and nothing when no row holds the value.                                *)
ReplyExact ==
  status = "up" /\ reply # NoReply /\ reply.field \notin Written =>
    LET holders == Holders(rows, reply.field, reply.val)
    IN IF holders = {} THEN reply.row = NoFields
       ELSE \A k \in holders : reply.row = rows[k]

(* "Update indices when adding a new value" (IndexManager.hpp:36): every   *)
(* index agrees with the rows, whichever command added the value.          *)
EveryIndexExact ==
  status = "up" => \A f \in Field : Exact(rows, mapper, f)
=============================================================================
