---------------------------- MODULE IndexManager ----------------------------
(***************************************************************************)
(* IndexManager: the tree of index nodes beside the database, traversal of *)
(* a client's keys through both, the bookkeeping around a deletion and a   *)
(* creation, and mappings.                                                 *)
(*                                                                         *)
(* Every operator takes and returns a machine, the state the C++ functions *)
(* share:                                                                  *)
(*   db        the document                                                *)
(*   nodes     the paths at which an IndexNode exists (its tree is         *)
(*             prefix-closed, and always has its root)                     *)
(*   mappers   the KeyMapper of each node that has one                     *)
(*   mappings  the StarIndex vector: location, pattern, and whether its    *)
(*             node pointer is live, null (after load) or dangling         *)
(*   fault     "none", "throw" (an exception nothing catches or a null     *)
(*             pointer: the server's process ends), or "undefined" (freed  *)
(*             memory was read: it may end)                                *)
(* A mapper's entries are paths: toDotted of a path of one key is that key *)
(* and of a longer one is an absolute address.                             *)
(***************************************************************************)
EXTENDS KeyMapper, Documents

CONSTANT NoObj   \* the null Object pointer of a frame

Place == Path \ {<<>>}
StarIndex == [loc : Path, pattern : Place, node : {"live", "null", "dangling"}]

(* The document is a tree the C++ objects can form, the index nodes are a  *)
(* tree, mappers sit on nodes and lead to places, and a mapping's live     *)
(* pointer is to a node that exists and has a mapper (findValidPatterns'   *)
(* users assert it).                                                       *)
Formed(m) ==
  /\ IsDocument(m.db)
  /\ m.nodes \subseteq Path /\ <<>> \in m.nodes
  /\ \A n \in m.nodes \ {<<>>} : Front(n) \in m.nodes
  /\ DOMAIN m.mappers \subseteq m.nodes
  /\ m.mappers \in [DOMAIN m.mappers -> Mapper(Place)]
  /\ m.mappings \in Seq(StarIndex)
  /\ \A i \in DOMAIN m.mappings :
        m.mappings[i].node = "live" => m.mappings[i].loc \in DOMAIN m.mappers

Machine(db, nodes, mappers, mappings) ==
  [db |-> db, nodes |-> nodes, mappers |-> mappers, mappings |-> mappings,
   fault |-> "none"]

Faulted(m, fault) == IF m.fault = "throw" THEN m ELSE [m EXCEPT !.fault = fault]

(* What a KeyMapper sees of the object at p. *)
Attrs(db, p) ==
  [f \in Field |-> IF db[p] = Dict /\ Append(p, f) \in DOMAIN db
                      /\ db[Append(p, f)] \in Val
                   THEN db[Append(p, f)] ELSE NoVal]

MapperAt(m, loc) == IF loc \in DOMAIN m.mappers THEN m.mappers[loc] ELSE EmptyMapper
SetMapper(m, loc, mapper) ==
  [m EXCEPT !.mappers = [n \in DOMAIN @ \cup {loc} |-> IF n = loc THEN mapper ELSE @[n]]]

-----------------------------------------------------------------------------
(* Several registrations in one mapper, as pairs of a row and its target.  *)
(* They throw when a value would get two targets, in whatever order.       *)
Targets(mapper, regs, f, v) ==
  ({mapper.key[f][v]} \ {NoKey}) \cup {r[2] : r \in {r \in regs : r[1][f] = v}}

RegisterClash(mapper, regs) ==
  \E f \in mapper.indices, v \in Val : Cardinality(Targets(mapper, regs, f, v)) > 1

RegisterAll(mapper, regs) ==
  [mapper EXCEPT !.key = [f \in Field |-> [v \in Val |->
     LET targets == Targets(mapper, regs, f, v)
     IN IF f \in mapper.indices /\ targets # {} THEN CHOOSE t \in targets : TRUE
        ELSE mapper.key[f][v]]]]

UnregisterAll(mapper, olds) ==
  [mapper EXCEPT !.key = [f \in Field |-> [v \in Val |->
     IF f \in mapper.indices /\ \E r \in olds : r[f] = v THEN NoKey
     ELSE mapper.key[f][v]]]]

(* Registers in the mapper at loc, or throws. *)
RegisterAt(m, loc, regs) ==
  IF RegisterClash(MapperAt(m, loc), regs) THEN Faulted(m, "throw")
  ELSE SetMapper(m, loc, RegisterAll(MapperAt(m, loc), regs))

-----------------------------------------------------------------------------
(* Frames: the keys a traversal has passed with the object each reached.   *)
(* A frame's index pointer is not null exactly when its location is a node *)
(* of the tree, since both are looked up child by child from the root.     *)
RootFrames == <<[key |-> "[root]", obj |-> <<>>]>>
Location(frames) == [i \in 1 .. Len(frames) - 1 |-> frames[i + 1].key]
HasNode(m, frames) == Location(frames) \in m.nodes

Start(m) == [m |-> m, frames |-> RootFrames, stop |-> FALSE]

(* Where add adds a key: a list refuses all that it does not have. *)
Adds(db, p) == db[p] = Dict

(* Frame::traverse and the check that follows it in traverseTo.  With      *)
(* create, a scalar on the way becomes a dict, and a missing key of a dict *)
(* gets an Empty object unless the index tree has a node there (a list     *)
(* refuses to add).                                                        *)
Descend(t, key, create) ==
  LET top  == Last(t.frames).obj
      db1  == IF top # NoObj /\ create /\ ~Indexable(t.m.db, top)
              THEN Graft(t.m.db, top, Leaf(Dict)) ELSE t.m.db
      found == IF top = NoObj THEN {} ELSE ChildKeys(db1, top, key)
      adds == /\ create /\ top # NoObj /\ found = {}
              /\ Append(Location(t.frames), key) \notin t.m.nodes
              /\ Adds(db1, top)
      db2  == IF adds THEN Graft(db1, Append(top, key), Leaf(Empty)) ELSE db1
      obj  == CASE found # {} -> Append(top, CHOOSE k \in found : TRUE)
                [] adds -> Append(top, key)
                [] OTHER -> NoObj
  IN [m |-> [t.m EXCEPT !.db = db2],
      frames |-> Append(t.frames, [key |-> key, obj |-> obj]),
      stop |-> key = ""]

(* traverseTo(fromDotted(target)): the frames restart from the root. *)
DescendAbsolute(t, target, create) ==
  LET Walk(s, i) == IF s.stop THEN s ELSE Descend(s, target[i], create)
  IN [Repeated(Walk, Start(t.m), Len(target)) EXCEPT !.stop = FALSE]

-----------------------------------------------------------------------------
PatternMatches(pattern, p) ==
  Len(p) = Len(pattern) /\ \A i \in 1 .. Len(p) : pattern[i] \in {"*", p[i]}

(* updateStarThing: register everything in the database that matches. *)
Matching(db, pattern) == {p \in DOMAIN db : PatternMatches(pattern, p)}
UpdateStarThing(m, loc, pattern) ==
  RegisterAt(m, loc, {<<Attrs(m.db, p), p>> : p \in Matching(m.db, pattern)})

MappingsAt(m, loc) == {i \in DOMAIN m.mappings : m.mappings[i].loc = loc}
IsMapped(m, loc) == MappingsAt(m, loc) # {}

AddIndex(m, loc, f) ==
  SetMapper(m, loc, [MapperAt(m, loc) EXCEPT !.indices = @ \cup {f}])

(* resolveIndexKey builds the index on first use: from the rows of the     *)
(* container, or from every mapping at this place when there is no object. *)
BuildIndex(m, loc, obj, f) ==
  IF obj # NoObj
  THEN LET rows == [k \in (IF Indexable(m.db, obj) THEN KeysOf(m.db, obj) ELSE {})
                      |-> Attrs(m.db, Append(obj, k))]
       IN IF OneToOne(rows, f)
          THEN SetMapper(m, loc, CreateIndex(MapperAt(m, loc), f,
                 [p \in {<<k>> : k \in DOMAIN rows} |-> rows[p[1]]]))
          ELSE Faulted(m, "throw")
  ELSE LET Updated(a, i) ==
             IF i \in MappingsAt(m, loc)
             THEN UpdateStarThing(AddIndex(a, loc, f), loc, m.mappings[i].pattern) ELSE a
       IN Repeated(Updated, SetMapper(m, loc, MapperAt(m, loc)), Len(m.mappings))

Resolve(t, f) ==
  LET loc == Location(t.frames)
      m1  == [t.m EXCEPT !.nodes = @ \cup Prefixes(loc)]
  IN IF HasIndex(MapperAt(m1, loc), f) THEN m1
     ELSE BuildIndex(m1, loc, Last(t.frames).obj, f)

(* From a frame that has the index on f, to the target it gives for v.     *)
Follow(t, f, v, create) ==
  LET target == Get(MapperAt(t.m, Location(t.frames)), f, v)
  IN IF t.m.fault # "none" THEN t
     ELSE IF target # NoKey /\ Len(target) > 1 THEN DescendAbsolute(t, target, create)
     ELSE Descend(t, IF target = NoKey THEN "" ELSE target[1], create)

(* A key "f:v": where the index on f leads, "" when nowhere. *)
StepBy(t, f, v, create) ==
  IF Last(t.frames).obj = NoObj /\ ~HasNode(t.m, t.frames)
  THEN Descend(t, "", create)
  ELSE Follow([t EXCEPT !.m = Resolve(t, f)], f, v, create)

(* One key of an address: <<"---">> for the parent, <<k>> for a plain key, *)
(* <<f, v>> for the client's "f:v".                                        *)
Step(t, key, create) ==
  IF t.stop \/ t.m.fault # "none" THEN t
  ELSE IF key = <<"---">> THEN IF Len(t.frames) > 1 THEN [t EXCEPT !.frames = Front(@)] ELSE t
  ELSE IF Len(key) = 1 THEN Descend(t, key[1], create)
  ELSE StepBy(t, key[1], key[2], create)

TraverseTo(m, keys, create) ==
  Repeated(LAMBDA t, i : Step(t, keys[i], create), Start(m), Len(keys))

(* Frame::invalid of the last frame. *)
Invalid(t, requireObj) ==
  \/ Last(t.frames).key = ""
  \/ requireObj /\ Last(t.frames).obj = NoObj

-----------------------------------------------------------------------------
(* Mutated form of Region: the bookkeeping does not go below the object.   *)
RegionTop(m, frames) ==
  [L \in {Location(frames)} |-> Last(frames).obj]

(* The objects from the last frame down: their locations, as the frames    *)
(* and iter() spell them, with their paths in the document.                *)
Region(m, frames) ==
  LET loc == Location(frames)
      obj == Last(frames).obj
  IN [L \in {loc \o Below(obj, p) : p \in Under(m.db, obj)} |-> obj \o Below(loc, L)]

TellsAt(g, n) == g.node = "live" /\ g.loc = n
Hits(g, region) == {L \in DOMAIN region : PatternMatches(g.pattern, L)}

(* Reaching a mapper through the pointer of a mapping that is not live. *)
PointerFault(m, used) ==
  IF \E i \in used : m.mappings[i].node = "null" THEN Faulted(m, "throw")
  ELSE IF \E i \in used : m.mappings[i].node = "dangling" THEN Faulted(m, "undefined")
  ELSE m

(* handleDelete, before the object of the last frame goes: it is taken out *)
(* of its parent's mapper, everything below it out of the mappings that    *)
(* match, and the index nodes of the objects on the way are destroyed,     *)
(* with the nodes below them (under the root, those its children have).    *)
(* A mapping's node can go before the traversal comes to an object the     *)
(* mapping matches.  At the root the depth of -1 is compared unsigned with *)
(* the pattern's size, so no mapping is told.                              *)
HandleDelete(m, frames) ==
  LET loc    == Location(frames)
      full   == m.db[Last(frames).obj] # Empty
      region == Region(m, frames)
      used   == {i \in DOMAIN m.mappings :
                   full /\ loc # <<>> /\ Hits(m.mappings[i], region) # {}}
      gone   == {n \in m.nodes : /\ full
                                 /\ IsPrefix(loc, n)
                                 /\ loc = <<>> => n # <<>> /\ n[1] \in KeysOf(m.db, <<>>)}
      early  == {i \in used : \E L \in Hits(m.mappings[i], region), P \in DOMAIN region :
                    /\ IsStrictPrefix(loc, P) /\ IsPrefix(P, m.mappings[i].loc)
                    /\ ~IsPrefix(P, L) /\ ~IsPrefix(L, P)}
      Olds(n) ==
        {Attrs(m.db, region[L]) :
           L \in {L \in DOMAIN region : \/ L # <<>> /\ Front(L) = n
                                       \/ \E i \in used : TellsAt(m.mappings[i], n)
                                                        /\ L \in Hits(m.mappings[i], region)}}
      m1 == PointerFault(m, used)
  IN [(IF early # {} THEN Faulted(m1, "undefined") ELSE m1) EXCEPT
        !.nodes = @ \ gone,
        !.mappers = [n \in DOMAIN m.mappers \ gone |-> UnregisterAll(m.mappers[n], Olds(n))],
        !.mappings = [i \in DOMAIN @ |->
           IF @[i].node = "live" /\ @[i].loc \in gone THEN [@[i] EXCEPT !.node = "dangling"]
           ELSE @[i]]]

(* handleCreate, after the object of the last frame was assigned.  The     *)
(* root has no parent, and nothing is registered for it or below it.       *)
HandleCreate(m, frames) ==
  LET region == Region(m, frames)
      used   == {i \in DOMAIN m.mappings : Hits(m.mappings[i], region) # {}}
      Regs(n) ==
        {<<Attrs(m.db, region[L]), <<Last(L)>>>> : L \in {L \in DOMAIN region : Front(L) = n}}
        \cup {<<Attrs(m.db, region[L]), L>> :
                L \in UNION {Hits(m.mappings[i], region) :
                               i \in {i \in used : TellsAt(m.mappings[i], n)}}}
      m1 == PointerFault(m, used)
  IN IF Len(frames) = 1 THEN m
     ELSE IF \E n \in DOMAIN m.mappers : RegisterClash(m.mappers[n], Regs(n))
          THEN Faulted(m1, "throw")
          ELSE [m1 EXCEPT !.mappers = [n \in DOMAIN @ |-> RegisterAll(@[n], Regs(n))]]

-----------------------------------------------------------------------------
(* convertKeys: where a client's keys lead, also through an index. *)
IsValid(loc) == loc # <<>> /\ Last(loc) # ""

(* createMapping answers TRUE only when it also created the mapper. *)
CreateMapping(t, pattern) ==
  LET loc == Location(t.frames)
      m1  == [t.m EXCEPT !.nodes = @ \cup Prefixes(loc),
                         !.mappings = Append(@, [loc |-> loc, pattern |-> pattern, node |-> "live"])]
      known == \E g \in ToSet(t.m.mappings) : g.loc = loc /\ g.pattern = pattern
  IN IF t.m.fault # "none" \/ known \/ ~IsValid(loc) THEN [m |-> t.m, wrote |-> FALSE]
     ELSE IF loc \in DOMAIN m1.mappers
          THEN [m |-> UpdateStarThing(m1, loc, pattern), wrote |-> FALSE]
          ELSE [m |-> SetMapper(m1, loc, EmptyMapper), wrote |-> TRUE]

(* The mappings but those at loc, in their order. *)
MappingsBut(mappings, loc) ==
  LET Kept(list, i) == IF mappings[i].loc = loc THEN list ELSE Append(list, mappings[i])
  IN Repeated(Kept, <<>>, Len(mappings))

(* deleteMapping destroys the index node before it looks for a mapping,    *)
(* and throws when there was none.                                         *)
DeleteMapping(t) ==
  LET loc == Location(t.frames)
      gone == {n \in t.m.nodes : IsPrefix(loc, n)}
      left == MappingsBut(t.m.mappings, loc)
      m1  == [t.m EXCEPT
                !.nodes = @ \ gone,
                !.mappers = [n \in DOMAIN @ \ gone |-> @[n]],
                !.mappings = [i \in DOMAIN left |->
                   IF left[i].node = "live" /\ left[i].loc \in gone
                   THEN [left[i] EXCEPT !.node = "dangling"] ELSE left[i]]]
  IN IF t.m.fault # "none" \/ ~IsValid(loc) \/ loc \notin t.m.nodes
     THEN [m |-> t.m, wrote |-> FALSE]
     ELSE IF ~IsMapped(t.m, loc) THEN [m |-> Faulted(m1, "throw"), wrote |-> FALSE]
     ELSE [m |-> m1, wrote |-> TRUE]
=============================================================================
