------------------------------ MODULE MCRukoDb ------------------------------
(* What clients send, in three scenes over three databases. *)
EXTENDS RukoDb

VARIABLE scene

K(k)     == <<k>>
By(f, v) == <<f, v>>

Holding(v) == (<<>> :> Dict) @@ (<<"name">> :> v)
Rows == {Holding(v) : v \in Val} \cup {Leaf(Dict)}

NewDb  == {Leaf(Dict)}
ListDb == {DictOf("users" :> Leaf(List))}

Idle == [set |-> {}, lput |-> {}, del |-> {}, declare |-> {}, get |-> {}, list |-> {},
         map |-> {}, unmap |-> {}]

U == K("users")
NameOf(loc) == {loc \o <<By("name", v)>> : v \in Val}

-----------------------------------------------------------------------------
(* users is a list: elements are appended, replaced, and deleted by        *)
(* position ("1x" is position 1 to stoi), by name, and below a string.     *)
ListClient ==
  [Idle EXCEPT
     !.set  = ({<<U, K("0")>>, <<U, K("1")>>} \cup NameOf(<<U>>)) \X Rows,
     !.lput = {<<U>>} \X Rows,
     !.del  = {<<U, K("0")>>, <<U, K("1x")>>, <<U, K("none")>>, <<U, K("0"), K("name"), K("first")>>}
              \cup NameOf(<<U>>),
     !.declare = {<<<<U>>, List>>, <<<<U>>, Dict>>},
     !.get  = {<<a, {}, {}>> : a \in NameOf(<<U>>)},
     !.list = {<<<<U>>, "name", {}, {}>>, <<<<U>>, "name", {"age"}, {}>>, <<<<U>>, "name", {}, {"age"}>>}]

-----------------------------------------------------------------------------
(* byname maps users.*: rows are written and deleted in users, and through *)
(* the mapping.                                                            *)
M == K("byname")
MappingClient ==
  [Idle EXCEPT
     !.set  = ({<<U, K("k")>>, <<U, K("l")>>} \X Rows)
              \cup ({<<U>>} \X {DictOf(t) : t \in [{"k"} -> Rows]})
              \cup (NameOf(<<M>>) \X Rows),
     !.del  = {<<U>>, <<U, K("k")>>} \cup NameOf(<<M>>),
     !.declare = {<<<<U>>, Dict>>},
     !.get  = {<<a, {}, {}>> : a \in NameOf(<<M>>)} \cup {<<<<U, By("name", "ann")>>, {}, {}>>},
     !.list = {<<<<M>>, "name", {}, {}>>},
     !.map  = {<<<<M>>, <<"users", "*">>>>},
     !.unmap = {<<M>>, <<U>>}]

-----------------------------------------------------------------------------
(* users.*.devices.* under an index at each level and a mapping over all   *)
(* devices; users come and go with the list of devices they have.          *)
D == K("devices")
Device(v) == Holding(v)
User(v, devices) == DictOf([name |-> Leaf(v), devices |-> devices])
ListOf(doc) == [DictOf("0" :> doc) EXCEPT ![<<>>] = List]
Owned == <<U, K("k"), D>>
All == K("all")

NestedClient ==
  [Idle EXCEPT
     !.set  = {<<<<U, K("k")>>, User("ann", Leaf(List))>>,
               <<<<U, K("k")>>, User("bob", ListOf(Device("bob")))>>,
               <<<<U, K("l")>>, User("ann", ListOf(Device("ann")))>>,
               <<Owned, Leaf(Dict)>>},
     !.lput = {<<Owned, Device("ann")>>, <<Owned, Device("bob")>>},
     !.del  = {<<U>>, Append(Owned, K("0")), Append(Owned, By("name", "bob"))},
     !.get  = {<<a, {}, {}>> : a \in {<<U, By("name", "ann")>>, Append(Owned, By("name", "ann")),
                                      <<All, By("name", "bob")>>}},
     !.map  = {<<<<All>>, <<"users", "*", "devices", "*">>>>}]

-----------------------------------------------------------------------------
Clients == [list |-> ListClient, mapping |-> MappingClient, nested |-> NestedClient]
Databases == [list |-> ListDb, mapping |-> NewDb, nested |-> NewDb]
AnyClient == [c \in DOMAIN Idle |-> UNION {Clients[s][c] : s \in DOMAIN Clients}]
AnyDb == ListDb \cup NewDb

(* They write through byname only while it is mapped, so no object comes   *)
(* to stand where the mapping is.  Bounds on the files: in that scene a    *)
(* save follows a listing, and in the nested one nothing is saved.         *)
Bounds ==
  /\ scene = "mapping" => /\ <<"byname">> \notin DOMAIN db'
                          /\ disk' # disk => reply.did = "get" /\ reply.by # ""
  /\ scene = "nested" => disk' = disk

SceneInit == Init /\ scene \in DOMAIN Clients /\ db \in Databases[scene]
SceneNext == Serve(Clients[scene]) /\ Bounds /\ UNCHANGED scene
SceneSpec == SceneInit /\ [][SceneNext]_<<vars, scene>>
=============================================================================
