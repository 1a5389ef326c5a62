---------------------------- MODULE Serialization ----------------------------
(***************************************************************************)
(* The bytes of a database file (serialization.cpp and the toBytes and     *)
(* deserializing constructors of what is in it), as a sequence of tokens:  *)
(* the id of an object, a count, a flag, a string.  The database comes     *)
(* first, then the tree of index nodes, then the mappings.                 *)
(***************************************************************************)
EXTENDS JsonText, IndexManager

Token(kind, is) == [kind |-> kind, is |-> is]
Id(id)    == <<Token("id", id)>>
Count(n)  == <<Token("count", n)>>
Flag(b)   == <<Token("flag", b)>>

Str(s) == <<Token("str", CStr(s))>>
Strs(ss) == Count(Len(ss)) \o Flat([i \in DOMAIN ss |-> Str(ss[i])])

(* toDotted makes one string of an address: it ends at the first NUL.      *)
Dots(p) ==
  LET cut == {i \in DOMAIN p : CStr(p[i]) # p[i]}
      n   == IF cut = {} THEN Len(p) ELSE CHOOSE i \in cut : \A j \in cut : i <= j
  IN <<Token("path", [i \in 1 .. n |-> CStr(p[i])])>>

-----------------------------------------------------------------------------
RECURSIVE WriteObject(_, _)
WriteObject(doc, back) ==
  LET Child(k) == WriteObject(ValueAt(doc, <<k>>), back)
      keys == Ordered(KeysOf(doc, <<>>), back)
      n == SizeOf(doc, <<>>)
  IN CASE doc[<<>>] = Dict ->
            Id(Dict) \o Count(n) \o Flat([i \in DOMAIN keys |-> Str(keys[i]) \o Child(keys[i])])
       [] doc[<<>>] = List ->
            Id(List) \o Count(n) \o Flat([i \in 1 .. n |-> Child(Positions(n)[i])])
       [] doc[<<>>] \in Bare \cup {Empty} -> Id(doc[<<>>])
       [] OTHER -> Id("string") \o Str(doc[<<>>])

(* KeyMapper::toBytes: the map of maps. *)
WriteMapper(mapper, back) ==
  LET Held(f) == Ordered({v \in Val : mapper.key[f][v] # NoKey}, back)
      Index(f) == Flat([i \in DOMAIN Held(f) |-> Str(Held(f)[i]) \o Dots(mapper.key[f][Held(f)[i]])])
      fields == Ordered(mapper.indices, back)
  IN Count(Len(fields))
     \o Flat([i \in DOMAIN fields |-> Str(fields[i]) \o Count(Len(Held(fields[i]))) \o Index(fields[i])])

(* Mutated form of WriteNode: the flag says that no node has a mapper. *)
RECURSIVE WriteNodeLeaf(_, _, _)
WriteNodeLeaf(m, loc, back) ==
  LET keys == Ordered({Last(n) : n \in {n \in m.nodes : n # <<>> /\ Front(n) = loc}}, back)
  IN Count(Len(keys))
     \o Flat([i \in DOMAIN keys |-> Str(keys[i]) \o WriteNodeLeaf(m, Append(loc, keys[i]), back)])
     \o Flag(FALSE)

(* IndexNode::toBytes: the children, then a flag and the mapper. *)
RECURSIVE WriteNode(_, _, _)
WriteNode(m, loc, back) ==
  LET keys == Ordered({Last(n) : n \in {n \in m.nodes : n # <<>> /\ Front(n) = loc}}, back)
  IN Count(Len(keys))
     \o Flat([i \in DOMAIN keys |-> Str(keys[i]) \o WriteNode(m, Append(loc, keys[i]), back)])
     \o IF loc \in DOMAIN m.mappers THEN Flag(TRUE) \o WriteMapper(m.mappers[loc], back)
        ELSE Flag(FALSE)

WriteMappings(mappings) ==
  Count(Len(mappings))
  \o Flat([i \in DOMAIN mappings |-> Strs(mappings[i].loc) \o Strs(mappings[i].pattern)])

Bytes(m, back) == WriteObject(m.db, back) \o WriteNode(m, <<>>, back) \o WriteMappings(m.mappings)

-----------------------------------------------------------------------------
(* A reader takes the file and a place in it, and gives what it read and   *)
(* the place behind it.  Nothing checks the size of the file: behind its   *)
(* end, memory is taken to hold zeros (which read as the id of an Empty    *)
(* object, no elements, FALSE, an empty string), and Load says what else   *)
(* may come of that.                                                       *)
Read(val, at) == [val |-> val, at |-> at]
TokenAt(file, at, zero) == IF at <= Len(file) THEN file[at].is ELSE zero

ReadStr(file, at) == Read(TokenAt(file, at, ""), at + 1)

RECURSIVE ReadStrs(_, _, _)
ReadStrs(file, at, n) ==
  IF n = 0 THEN Read(<<>>, at)
  ELSE LET rest == ReadStrs(file, at + 1, n - 1)
       IN Read(<<ReadStr(file, at).val>> \o rest.val, rest.at)
ReadPath(file, at) == ReadStrs(file, at + 1, TokenAt(file, at, 0))

(* An id that no object has: the constructor throws. *)
Foreign == "foreign"
Thrown == Read(Leaf(Empty), 0)

(* deserializeMap assigns: of two equal keys the last stays. *)
Put(doc, k, value) == Graft(doc, <<k>>, value)

RECURSIVE ReadObject(_, _), ReadEntries(_, _, _, _), ReadElements(_, _, _, _)
ReadObject(file, at) ==
  LET id == TokenAt(file, at, Empty)
      n  == TokenAt(file, at + 1, 0)
  IN CASE id = Dict -> ReadEntries(file, at + 2, n, Leaf(Dict))
       [] id = List -> ReadElements(file, at + 2, n, Leaf(List))
       [] id = "string" -> Read(Leaf(ReadStr(file, at + 1).val), at + 2)
       [] id = Foreign -> Thrown
       [] OTHER -> Read(Leaf(id), at + 1)

ReadEntries(file, at, n, doc) ==
  IF n = 0 THEN Read(doc, at)
  ELSE LET child == ReadObject(file, at + 1)
       IN IF child.at = 0 THEN Thrown
          ELSE ReadEntries(file, child.at, n - 1, Put(doc, ReadStr(file, at).val, child.val))

ReadElements(file, at, n, doc) ==
  IF n = 0 THEN Read(doc, at)
  ELSE LET child == ReadObject(file, at)
       IN IF child.at = 0 THEN Thrown
          ELSE ReadElements(file, child.at, n - 1, Put(doc, ToString(SizeOf(doc, <<>>)), child.val))

-----------------------------------------------------------------------------
(* KeyMapper's constructor: an index is assigned as a whole, each of its   *)
(* entries over an equal one.  Behind the end of the file only entries and *)
(* indices without a name are read, which no command asks for.             *)
RECURSIVE ReadIndex(_, _, _, _), ReadIndices(_, _, _, _)
ReadIndex(file, at, n, index) ==
  IF n = 0 THEN Read(index, at)
  ELSE ReadIndex(file, at + 2, n - 1,
                 (ReadStr(file, at).val :> TokenAt(file, at + 1, NoKey)) @@ index)

ReadIndices(file, at, n, mapper) ==
  IF n = 0 THEN Read(mapper, at)
  ELSE LET index == ReadIndex(file, at + 2, TokenAt(file, at + 1, 0), [v \in Val |-> NoKey])
       IN ReadIndices(file, index.at, n - 1,
                      IF ReadStr(file, at).val \notin Field THEN mapper
                      ELSE WithIndex(mapper, ReadStr(file, at).val, [v \in Val |-> index.val[v]]))

ReadMapper(file, at) == ReadIndices(file, at + 1, TokenAt(file, at, 0), EmptyMapper)

(* A tree of index nodes: the places that have one, and their mappers. *)
Tree(nodes, mappers) == [nodes |-> nodes, mappers |-> mappers]

PutTree(tree, loc, child) ==
  LET left == {n \in tree.nodes : ~IsPrefix(loc, n)}
  IN Tree(left \cup child.nodes,
          child.mappers @@ [n \in DOMAIN tree.mappers \cap left |-> tree.mappers[n]])

RECURSIVE ReadNode(_, _, _), ReadChildren(_, _, _, _, _)
ReadNode(file, at, loc) ==
  LET below  == ReadChildren(file, at + 1, TokenAt(file, at, 0), loc, Tree({loc}, [p \in {} |-> EmptyMapper]))
      mapper == ReadMapper(file, below.at + 1)
  IN IF TokenAt(file, below.at, FALSE)
     THEN Read([below.val EXCEPT !.mappers = (loc :> mapper.val) @@ @], mapper.at)
     ELSE Read(below.val, below.at + 1)

ReadChildren(file, at, n, loc, tree) ==
  IF n = 0 THEN Read(tree, at)
  ELSE LET place == Append(loc, ReadStr(file, at).val)
           child == ReadNode(file, at + 1, place)
       IN ReadChildren(file, child.at, n - 1, loc, PutTree(tree, place, child.val))

RECURSIVE ReadMappings(_, _, _)
ReadMappings(file, at, n) ==
  IF n = 0 THEN Read(<<>>, at)
  ELSE LET loc == ReadPath(file, at)
           pattern == ReadPath(file, loc.at)
           rest == ReadMappings(file, pattern.at, n - 1)
       IN Read(<<[loc |-> loc.val, pattern |-> pattern.val, node |-> "null"]>> \o rest.val, rest.at)

-----------------------------------------------------------------------------
(* RukoDb::load: what it leaves in memory, and whether it threw.  From an  *)
(* empty file the first byte is read through a null pointer.  A read past  *)
(* the end may also end the process, or find an invalid id or an           *)
(* impossible count, and throw: in the database or, when that has been     *)
(* assigned, in the indices.                                               *)
Loaded(m, threw) == [m |-> m, threw |-> threw]
FreshIndices(db) == Machine(db, {<<>>}, [p \in {} |-> EmptyMapper], <<>>)

Load(file) ==
  LET obj  == ReadObject(file, 1)
      tree == ReadNode(file, obj.at, <<>>)
      maps == ReadMappings(file, tree.at + 1, TokenAt(file, tree.at, 0))
      Ended == [Loaded(FreshIndices(Leaf(Empty)), FALSE) EXCEPT !.m.fault = "throw"]
  IN IF file = <<>> THEN {Ended}
     ELSE IF obj.at = 0 THEN {Loaded(FreshIndices(Leaf(Dict)), TRUE)}
     ELSE {Loaded(Machine(obj.val, tree.val.nodes, tree.val.mappers, maps.val), FALSE)}
          \cup IF maps.at <= Len(file) + 1 THEN {}
               ELSE {Ended, Loaded(FreshIndices(Leaf(Dict)), TRUE), Loaded(FreshIndices(obj.val), TRUE)}
=============================================================================
