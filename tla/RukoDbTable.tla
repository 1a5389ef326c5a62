----------------------------- MODULE RukoDbTable -----------------------------
(***************************************************************************)
(* RukoDb implements IndexedTable: what the table says of one container    *)
(* and its mapper is what the traversal, the recursive bookkeeping and the *)
(* index tree of RukoDb come to at the container `users`, for clients that *)
(* stay inside it and a file that has it.                                  *)
(***************************************************************************)
EXTENDS RukoDb

CONSTANTS RowKey,   \* the keys clients give to users
          Written   \* the fields they write in place

Users == <<"users">>

(* The clients' addresses: users, a row by its key or by a field, a field  *)
(* of a row.                                                               *)
AddressOfRow(k)      == <<Users, <<k>>>>
AddressBy(f, v)      == <<Users, <<f, v>>>>
AddressOfField(k, f) == <<Users, <<k>>, <<f>>>>

RowAddresses   == {AddressOfRow(k) : k \in RowKey} \cup {AddressBy(f, v) : f \in Field, v \in Val}
FieldAddresses == {AddressOfField(k, f) : k \in RowKey, f \in Written}

(* What clients write: anything in a field, any object but a list as a     *)
(* row (no Empty object is ever sent), and dicts of such rows.             *)
IsObject(doc) == DOMAIN doc \subseteq Path /\ <<>> \in DOMAIN doc
IsRow(doc)    == IsObject(doc) /\ doc[<<>>] \notin {List, Empty}
IsTable(doc) ==
  /\ IsObject(doc) /\ doc[<<>>] = Dict
  /\ \A p \in DOMAIN doc \ {<<>>} :
        p[1] \in RowKey /\ <<p[1]>> \in DOMAIN doc /\ doc[<<p[1]>>] \notin {List, Empty}

(* A database that is users and nothing else, in which a refused SET may   *)
(* have left an Empty object under the key "".                             *)
IsTableDb(doc) ==
  /\ IsObject(doc) /\ Users \in DOMAIN doc
  /\ doc[<<>>] = Dict /\ doc[Users] = Dict
  /\ \A p \in DOMAIN doc \ {<<>>} :
       /\ IsPrefix(Users, p)
       /\ Len(p) > 1 =>
            LET row == Append(Users, p[2])
            IN \/ p[2] \in RowKey /\ row \in DOMAIN doc /\ doc[row] \notin {List, Empty}
               \/ p = Append(Users, "") /\ doc[p] = Empty

ASSUME RowKeyAssumption ==
  /\ {"users", ""} \subseteq Name
  /\ NoObj \notin Path /\ NoKey \notin Path \cup RowKey
  /\ RowKey \subseteq Name \ {"", "---"}
  /\ Field \subseteq Name /\ Written \subseteq Field \ {"", "---"}

(* Clients that stay inside users, of a database that has it.              *)
ASSUME TableClientAssumption ==
  /\ \A c \in Client.set :
        \/ c[1] \in RowAddresses /\ IsRow(c[2])
        \/ c[1] = <<Users>> /\ IsTable(c[2])
        \/ c[1] \in FieldAddresses /\ IsObject(c[2])
  /\ \A c \in Client.lput : c[1] = <<Users>>
  /\ Client.del \subseteq RowAddresses \cup FieldAddresses
  /\ \A c \in Client.declare : c = <<<<Users>>, Dict>>
  /\ \A c \in Client.get :
        \/ c[1] \in {<<Users>>} \cup {AddressOfRow(k) : k \in RowKey}
        \/ c[1] \in RowAddresses /\ c[2] = {} /\ c[3] = {}
  /\ \A c \in Client.list : c[1] = <<Users>>
  /\ Client.map = {} /\ Client.unmap = {}
  /\ \A doc \in Stored : IsTableDb(doc) /\ KeysOf(doc, Users) = {}

RowsIn(doc) == [k \in KeysOf(doc, Users) \cap RowKey |-> Attrs(doc, Append(Users, k))]

(* The mapper of the index node of users, its entries without the paths.   *)
MapperIn(all) ==
  LET mapper == IF Users \in DOMAIN all THEN all[Users] ELSE EmptyMapper
  IN [mapper EXCEPT !.key = [f \in Field |-> [v \in Val |->
        IF mapper.key[f][v] = NoKey THEN NoKey ELSE mapper.key[f][v][1]]]]

(* The table remembers a GET of a row by a field. *)
TableReply(answer) ==
  IF answer.did = "get" /\ Len(answer.keys) = 2 /\ Len(answer.keys[2]) = 2
  THEN [field |-> answer.keys[2][1], val |-> answer.keys[2][2], row |-> Attrs(answer.doc, <<>>)]
  ELSE NoAnswer

Table == INSTANCE IndexedTable WITH
  Key <- RowKey, Interactive <- FALSE, NoReply <- NoAnswer,
  rows <- RowsIn(db),
  phantom <- Append(Users, "") \in DOMAIN db,
  mapper <- MapperIn(mappers),
  status <- IF status = "up" THEN "up" ELSE "down",
  disk <- [rows |-> RowsIn(disk.db), mapper |-> MapperIn(disk.mappers)],
  reply <- TableReply(reply)

(* Every step of RukoDb on such a database is a step of IndexedTable. *)
ImplementsTable == Table!Spec
=============================================================================
