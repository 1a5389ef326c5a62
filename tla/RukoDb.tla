------------------------------- MODULE RukoDb -------------------------------
(***************************************************************************)
(* RukoDb: the commands of the server over the document and its indices.   *)
(* Every command but the three on mappings runs under RukoDb::mut, and the *)
(* handlers share nothing else, so a command is one step here.             *)
(*                                                                         *)
(* The process ends as "killed" (from outside) or as "failed": an          *)
(* exception that neither handleClient nor the save thread catches, a null *)
(* pointer, or the use of freed memory when that goes wrong.               *)
(***************************************************************************)
EXTENDS IndexManager

CONSTANTS
  Client,    \* what clients send: the fields set, lput, del, declare, get,
             \* list, map, unmap, each a set of argument tuples
  Stored,    \* documents the process may find in its file when first started
  MaxList    \* bound: clients do not make lists longer than this

(* An address is a sequence of keys, each a name or a field with a value.  *)
IsAddress(keys) ==
  /\ keys \in Seq(ToSet(keys))
  /\ \A i \in DOMAIN keys : \/ keys[i] \in Path /\ Len(keys[i]) = 1
                            \/ \E f \in Field, v \in Val : keys[i] = <<f, v>>

(* Clients send addresses and documents (the server reads whatever comes   *)
(* as such), and no mapping of the root.                                   *)
ASSUME ClientAssumption ==
  /\ \A c \in Client.set \cup Client.lput : IsAddress(c[1]) /\ IsDocument(c[2])
  /\ \A keys \in Client.del \cup Client.unmap : IsAddress(keys)
  /\ \A c \in Client.declare : IsAddress(c[1]) /\ c[2] \in {Dict, List}
  /\ \A c \in Client.get : IsAddress(c[1])
  /\ \A c \in Client.list : IsAddress(c[1]) /\ c[2] \in Field
  /\ \A c \in Client.map : IsAddress(c[1]) /\ c[2] \in Place
  /\ \A doc \in Stored : IsDocument(doc)

ASSUME NameAssumption ==
  /\ {"", "[root]"} \subseteq Name /\ NoObj \notin Path
  /\ MaxList \in Nat /\ \A i \in 0 .. MaxList : ToString(i) \in Name

VARIABLES db, nodes, mappers, mappings, status,
          disk,    \* what the last completed save wrote
          reply    \* the reply to the last command

memory == <<db, nodes, mappers, mappings>>
vars == <<db, nodes, mappers, mappings, status, disk, reply>>

NoMappers == [loc \in {} |-> EmptyMapper]
Answer(ok) == [did |-> "write", ok |-> ok]
NoAnswer == Answer(FALSE)

Init ==
  /\ db \in Stored
  /\ nodes = {<<>>} /\ mappers = NoMappers /\ mappings = <<>>
  /\ status = "up"
  /\ disk = [db |-> db, nodes |-> nodes, mappers |-> mappers, mappings |-> mappings]
  /\ reply = NoAnswer

Now == Machine(db, nodes, mappers, mappings)

End(how) == status' = how /\ UNCHANGED <<memory, disk, reply>>

(* The machine a command leaves behind; a fault ends the process, or may.  *)
Become(m, replies) ==
  \/ /\ m.fault # "throw"
     /\ db' = m.db /\ nodes' = m.nodes /\ mappers' = m.mappers /\ mappings' = m.mappings
     /\ reply' \in replies
     /\ UNCHANGED <<status, disk>>
  \/ m.fault # "none" /\ End("failed")

(* Where a command's keys lead in the database, made on the way or not. *)
ToCreate(keys) == TraverseTo(Now, keys, TRUE)
ToFind(keys)   == TraverseTo(Now, keys, FALSE)

Commit(res) == Become(res.m, {Answer(res.wrote)})
Refused(m) == [m |-> m, wrote |-> FALSE]

(* Mutated form of Done: perform does not say that it wrote. *)
DoneUntold(m) == [m |-> m, wrote |-> FALSE]

Done(m) == [m |-> m, wrote |-> TRUE]

-----------------------------------------------------------------------------
(* Mutated form of Assigned: handleDelete called after the assignment. *)
AssignedFirst(t, value) ==
  LET m1 == [t.m EXCEPT !.db = Graft(@, Last(t.frames).obj, value)]
  IN HandleCreate(HandleDelete(m1, t.frames), t.frames)

(* handleDelete, assign, handleCreate.  The last frame still points to the *)
(* index node that handleDelete destroyed, and handleCreate reads it when  *)
(* the new value has children.                                             *)
Assigned(t, value) ==
  LET p == Last(t.frames).obj
      freed == /\ Len(t.frames) > 1 /\ HasNode(t.m, t.frames)
               /\ t.m.db[p] # Empty /\ DOMAIN value # {<<>>}
      m1 == [HandleDelete(t.m, t.frames) EXCEPT !.db = Graft(@, p, value)]
  IN HandleCreate(IF freed THEN Faulted(m1, "undefined") ELSE m1, t.frames)

SetResult(t, value) ==
  IF t.m.fault # "none" \/ Invalid(t, TRUE) THEN Refused(t.m) ELSE Done(Assigned(t, value))

Set(keys, value) == Commit(SetResult(ToCreate(keys), value))

(* LPUT appends to a list, which an Empty object becomes. *)
LputResult(t, value) ==
  LET p   == Last(t.frames).obj
      db1 == IF t.m.db[p] = Empty THEN Graft(t.m.db, p, Leaf(List)) ELSE t.m.db
      key == ToString(SizeOf(db1, p))
      m1  == [t.m EXCEPT !.db = Graft(db1, Append(p, key), value)]
  IN IF t.m.fault # "none" \/ Invalid(t, TRUE) THEN Refused(t.m)
     ELSE IF db1[p] # List THEN Refused(t.m)
     ELSE Done(HandleCreate(m1, Append(t.frames, [key |-> key, obj |-> Append(p, key)])))

(* Bounded by MaxList. *)
Bounded(doc) == \A p \in DOMAIN doc : doc[p] = List => SizeOf(doc, p) <= MaxList
Lput(keys, value) == Commit(LputResult(ToCreate(keys), value)) /\ Bounded(db')

(* Mutated form of DeleteElement: the elements behind it keep their entries. *)
DeleteElementAlone(t, parent, key) ==
  IF StoiPositions(SizeOf(t.m.db, parent), key) = {} THEN Refused(t.m)
  ELSE LET i == CHOOSE i \in StoiPositions(SizeOf(t.m.db, parent), key) : TRUE
           frame == [key |-> ToString(i), obj |-> Append(parent, ToString(i))]
       IN Done([HandleDelete(t.m, Append(Front(t.frames), frame)) EXCEPT
                  !.db = EraseElement(@, parent, i)])

(* del from a list: every element from the deleted one on leaves the       *)
(* indices, and all but the deleted one come back under their new keys.    *)
DeleteElement(t, parent, key) ==
  LET n == SizeOf(t.m.db, parent)
      Frames(j) == Append(Front(t.frames),
                          [key |-> ToString(j), obj |-> Append(parent, ToString(j))])
      i == CHOOSE i \in StoiPositions(n, key) : TRUE
      m1 == Repeated(LAMBDA a, x : HandleDelete(a, Frames(i + x - 1)), t.m, n - i)
      m2 == [m1 EXCEPT !.db = EraseElement(@, parent, i)]
  IN IF StoiNumbers(key) = {} THEN Refused(Faulted(t.m, "throw"))
     ELSE IF StoiPositions(n, key) = {} THEN Refused(t.m)
     ELSE Done(Repeated(LAMBDA a, x : HandleCreate(a, Frames(i + x - 1)), m2, n - 1 - i))

(* Deleting below an object that is missing dereferences null, and below   *)
(* one that has no children fails an assertion.                            *)
DelResult(t) ==
  LET parent == t.frames[Len(t.frames) - 1].obj
      key    == Last(t.frames).key
  IN IF t.m.fault # "none" \/ Invalid(t, FALSE) THEN Refused(t.m)
     ELSE IF Len(t.frames) = 1
     THEN Done([HandleDelete(t.m, t.frames) EXCEPT !.db = Leaf(Dict)])
     ELSE IF parent = NoObj \/ ~Indexable(t.m.db, parent)
     THEN Refused(Faulted(t.m, "throw"))
     ELSE IF t.m.db[parent] = List THEN DeleteElement(t, parent, key)
     ELSE IF key \in KeysOf(t.m.db, parent)
     THEN Done([HandleDelete(t.m, t.frames) EXCEPT !.db = Cut(@, Append(parent, key))])
     ELSE Refused(t.m)

Del(keys) == Commit(DelResult(ToFind(keys)))

(* DECLARE makes the object a new dict or list unless it is one already.   *)
(* The indices it is sent with are not used.                               *)
DeclareResult(t, kind) ==
  LET p  == Last(t.frames).obj
      m1 == IF t.m.db[p] # Empty THEN HandleDelete(t.m, t.frames) ELSE t.m
  IN IF t.m.fault # "none" \/ Invalid(t, TRUE) THEN Refused(t.m)
     ELSE IF t.m.db[p] = kind THEN Refused(t.m)
     ELSE Done(HandleCreate([m1 EXCEPT !.db = Graft(@, p, Leaf(kind))], t.frames))

Declare(keys, kind) == Commit(DeclareResult(ToCreate(keys), kind))

-----------------------------------------------------------------------------
(* filterFields, when the command names fields to return or to leave out.  *)
Filtered(doc, fields, exclude) ==
  IF doc[<<>>] # Dict \/ fields \cup exclude = {} THEN doc
  ELSE LET Kept(k) == (exclude = {} /\ k \in fields) \/ (fields = {} /\ k \notin exclude)
       IN [q \in {q \in DOMAIN doc : q # <<>> => Kept(q[1])} |-> doc[q]]

Got(keys, by, fields, exclude, doc) ==
  [did |-> "get", keys |-> keys, by |-> by, fields |-> fields, exclude |-> exclude, doc |-> doc]

Found(t, fields, exclude) ==
  LET p == Last(t.frames).obj
  IN IF p = NoObj THEN Leaf(Empty) ELSE Filtered(ValueAt(t.m.db, p), fields, exclude)

(* Serializing an object throws at an Empty object below it. *)
Serializable(doc) == \A p \in DOMAIN doc \ {<<>>} : doc[p] # Empty

(* GetCommand::perform: the object that was found goes out as bytes. *)
Send(m, got) == Become(IF Serializable(got.doc) THEN m ELSE Faulted(m, "throw"), {got})

GetAt(keys, fields, exclude) ==
  \E t \in {ToFind(keys)} :
     Send(t.m, Got(keys, "", fields, exclude, Found(t, fields, exclude)))

(* A dict with a document under each key. *)
DictOf(docs) ==
  [q \in {<<>>} \cup UNION {{<<v>> \o r : r \in DOMAIN docs[v]} : v \in DOMAIN docs} |->
     IF q = <<>> THEN Dict ELSE docs[q[1]][Tail(q)]]

(* Mutated form of Clones: the filter is forgotten. *)
ClonesUnfiltered(m, p, f, fields, exclude) ==
  LET rows == [k \in KeysOf(m.db, p) |-> Attrs(m.db, Append(p, k))]
      held == {v \in Val : Holders(rows, f, v) # {}}
  IN {DictOf([v \in held |-> ValueAt(m.db, Append(p, CHOOSE k \in Holders(rows, f, v) : TRUE))])}

(* cloneIndexableBy: the children that hold a string in field f, by that   *)
(* string.  Of several with one string, the first one iter() meets.        *)
Clones(m, p, f, fields, exclude) ==
  LET rows == [k \in KeysOf(m.db, p) |-> Attrs(m.db, Append(p, k))]
      held == {v \in Val : Holders(rows, f, v) # {}}
  IN {DictOf([v \in held |-> Filtered(ValueAt(m.db, Append(p, pick[v])), fields, exclude)]) :
        pick \in {c \in [held -> DOMAIN rows] : \A v \in held : c[v] \in Holders(rows, f, v)}}

(* getMappingRepresentation at a place with mappings.  The first of them   *)
(* adds an index that is missing, and fills it from its own pattern only.  *)
MappingIndexed(t, f) ==
  LET loc == Location(t.frames)
      at  == MappingsAt(t.m, loc)
      m   == PointerFault(t.m, at)
  IN IF m.fault # "none" \/ HasIndex(MapperAt(m, loc), f) THEN m
     ELSE UpdateStarThing(AddIndex(m, loc, f), loc, t.m.mappings[Min(at)].pattern)

(* The object an index entry leads to from the frame: a relative key, or   *)
(* an absolute address.                                                    *)
Target(t, m, p) ==
  IF Len(p) > 1 THEN Last(DescendAbsolute([t EXCEPT !.m = m], p, FALSE).frames).obj
  ELSE Last(Descend([t EXCEPT !.m = m], p[1], FALSE).frames).obj

TargetsIn(t, m, index) ==
  [v \in {v \in Val : index[v] # NoKey} |-> Target(t, m, index[v])]

MappingList(m, found) ==
  IF m.fault = "throw" \/ \E v \in DOMAIN found : found[v] = NoObj
  THEN [m |-> Faulted(m, "throw"), doc |-> Leaf(Empty)]
  ELSE [m |-> m, doc |-> DictOf([v \in DOMAIN found |-> ValueAt(m.db, found[v])])]

(* GET of an address that ends in "f:". *)
ListBy(keys, f, fields, exclude) ==
  \E t \in {ToFind(keys)} :
    LET p == Last(t.frames).obj
        Reply(doc) == Got(keys, f, fields, exclude, doc)
        listable == p # NoObj /\ Indexable(t.m.db, p)
    IN IF t.m.fault # "none" THEN Become(t.m, {NoAnswer})
       ELSE IF ~HasNode(t.m, t.frames) /\ ~listable THEN Send(t.m, Reply(Leaf(Empty)))
       ELSE IF IsMapped(t.m, Location(t.frames))
       THEN \E m \in {MappingIndexed(t, f)} :
            \E res \in {MappingList(m, TargetsIn(t, m, MapperAt(m, Location(t.frames)).key[f]))} :
               Send(res.m, Reply(res.doc))
       ELSE IF ~listable THEN Become(Faulted(t.m, "throw"), {NoAnswer})
       ELSE \E doc \in Clones(t.m, p, f, fields, exclude) : Send(t.m, Reply(doc))

-----------------------------------------------------------------------------
Map(keys, pattern) == Commit(CreateMapping(ToFind(keys), pattern))
Unmap(keys) == Commit(DeleteMapping(ToFind(keys)))

Save ==
  \/ /\ Serializable(db)
     /\ disk' = [db |-> db, nodes |-> nodes, mappers |-> mappers, mappings |-> mappings]
     /\ UNCHANGED <<memory, status, reply>>
  \/ ~Serializable(db) /\ End("failed")

Kill == End("killed")

(* load gives a mapping its location and its pattern, and no node. *)
Restart ==
  /\ status # "up" /\ status' = "up"
  /\ db' = disk.db /\ nodes' = disk.nodes /\ mappers' = disk.mappers
  /\ mappings' = [i \in DOMAIN disk.mappings |-> [disk.mappings[i] EXCEPT !.node = "null"]]
  /\ reply' = NoAnswer
  /\ UNCHANGED disk

Serve(client) ==
  \/ /\ status = "up"
     /\ \/ \E c \in client.set : Set(c[1], c[2])
        \/ \E c \in client.lput : Lput(c[1], c[2])
        \/ \E c \in client.del : Del(c)
        \/ \E c \in client.declare : Declare(c[1], c[2])
        \/ \E c \in client.get : GetAt(c[1], c[2], c[3])
        \/ \E c \in client.list : ListBy(c[1], c[2], c[3], c[4])
        \/ \E c \in client.map : Map(c[1], c[2])
        \/ \E c \in client.unmap : Unmap(c)
        \/ Save
        \/ Kill
  \/ Restart

Next == Serve(Client)

Spec == Init /\ [][Next]_vars

-----------------------------------------------------------------------------
(* In memory and in the file, documents and index trees are such as the    *)
(* C++ objects can form.                                                   *)
WellFormed == status \in {"up", "killed", "failed"} /\ Formed(Now) /\ Formed(disk)

(* What an index at loc should hold for v: the children of the object      *)
(* there, by their keys, and what the mappings there match, by its address.*)
Expected(loc, f, v) ==
  {<<k>> : k \in {k \in (IF loc \in DOMAIN db THEN KeysOf(db, loc) ELSE {}) :
                    Attrs(db, Append(loc, k))[f] = v}}
  \cup {p \in UNION {Matching(db, mappings[i].pattern) :
                        i \in {i \in DOMAIN mappings : mappings[i].loc = loc}} :
          Attrs(db, p)[f] = v}

(* Every index the server has built agrees with the database: "precalculated *)
(* indices for any dictionary/list whose values have been queried by an    *)
(* attribute lookup operation" (README.md:53), and for a mapping "anything *)
(* in the databse that matches" (IndexManager.hpp:123).                    *)
IndexExact ==
  status = "up" => \A loc \in DOMAIN mappers : \A f \in mappers[loc].indices, v \in Val :
     {mappers[loc].key[f][v]} \ {NoKey} = Expected(loc, f, v)

(* The place a lookup is made at. *)
PlaceOf(keys) == [i \in DOMAIN keys |-> keys[i][1]]
At(loc, t) == ValueAt(db, IF Len(t) = 1 THEN loc \o t ELSE t)

(* A GET of "f:v" answers with the child or the match that holds v in      *)
(* field f, with the fields asked for, and with nothing when there is none *)
(* (IndexManager.hpp:123: a mapping's "values contain anything in the      *)
(* databse that matches"), through whatever commands the index has come.   *)
LookupExact ==
  status = "up" /\ reply.did = "get" /\ reply.by = "" /\ Len(Last(reply.keys)) = 2 =>
    LET loc   == PlaceOf(Front(reply.keys))
        found == Expected(loc, Last(reply.keys)[1], Last(reply.keys)[2])
    IN IF found = {} THEN reply.doc = Leaf(Empty)
       ELSE reply.doc \in {Filtered(At(loc, t), reply.fields, reply.exclude) : t \in found}

(* A GET of "f:" lists the place by field f: under every string that a     *)
(* child or a match holds, such a child or match with the fields asked     *)
(* for, and nothing else.                                                  *)
ListingExact ==
  status = "up" /\ reply.did = "get" /\ reply.by # "" =>
    LET loc == PlaceOf(reply.keys)
        Listed(t) == Filtered(At(loc, t), reply.fields, reply.exclude)
    IN \A v \in Val :
         IF Expected(loc, reply.by, v) = {} THEN <<v>> \notin DOMAIN reply.doc
         ELSE /\ <<v>> \in DOMAIN reply.doc
              /\ ValueAt(reply.doc, <<v>>) \in {Listed(t) : t \in Expected(loc, reply.by, v)}

(* What a command changes without saying that it wrote, so that no save is *)
(* due for it (RukoServer::runCommand): only the indices, Empty objects on *)
(* the way to what was refused, and a mapping made where a mapper stands.  *)
Solid(doc) == [p \in {p \in DOMAIN doc : doc[p] # Empty} |-> doc[p]]
Told == reply'.did = "write" /\ reply'.ok
WritesTold ==
  [][status = "up" /\ status' = "up" /\ ~Told =>
       /\ Solid(db') = Solid(db)
       /\ mappings' # mappings => mappings'[Len(mappings')].loc \in DOMAIN mappers]_vars

(* IndexManager.cpp:144 "eassert(mappings[*it].node->mapper);": a mapping  *)
(* has a node, after a restart (testRuko.cpp:275, "complex") as before.    *)
MappingsHaveNode == status = "up" => \A i \in DOMAIN mappings : mappings[i].node # "null"
=============================================================================
