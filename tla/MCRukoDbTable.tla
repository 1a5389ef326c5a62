---------------------------- MODULE MCRukoDbTable ----------------------------
(* Row and field commands on users, a dict that the file already has.      *)
EXTENDS RukoDbTable

Holding(v) == IF v = NoVal THEN Leaf(Dict) ELSE (<<>> :> Dict) @@ (<<"name">> :> v)
Rows == {Holding(v) : v \in Val \cup {NoVal}}
TablesOver(K) == {DictOf(t) : t \in UNION {[J -> Rows] : J \in SUBSET K}}

UsersDb == {DictOf("users" :> Leaf(Dict))}

InPlace == {AddressOfField("k", f) : f \in Written}

TableClient ==
  [set     |-> (RowAddresses \X Rows)
               \cup ({<<Users>>} \X TablesOver(RowKey))
               \cup (InPlace \X {Leaf(v) : v \in Val \cup {"other"}}),
   lput    |-> {<<<<Users>>, Leaf("ann")>>},
   del     |-> RowAddresses \cup InPlace,
   declare |-> {<<<<Users>>, Dict>>},
   get     |-> {<<AddressBy("name", v), {}, {}>> : v \in Val},
   list    |-> {<<<<Users>>, "name", {}, {}>>},
   map     |-> {},
   unmap   |-> {}]

(* Bound on the files: a save follows a lookup of "bob" that finds the one *)
(* row, l.                                                                 *)
SaveAfterLookup ==
  disk' # disk => reply.did = "get" /\ reply.doc = Holding("bob") /\ KeysOf(db, Users) = {"l"}
TableSpec == Init /\ [][Next /\ SaveAfterLookup]_vars
=============================================================================
