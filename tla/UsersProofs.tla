----------------------------- MODULE UsersProofs -----------------------------
(***************************************************************************)
(* A database that is users and nothing else (RukoDbTable): where clients' *)
(* keys lead in it, key by key, the frames of the traversal, the rows it   *)
(* finds or makes, and the index a lookup builds and follows; then what    *)
(* SET and DELETE of users, of a row and of a field, and GET do from       *)
(* there. Lemmas for RukoDbTableProofs.                                    *)
(*                                                                         *)
(* Truth values and conditions that a lemma's hypotheses name have names   *)
(* of their own (Going, Makes, Halt): the provers put a value in the place *)
(* of anything that is said to equal it, and the lemmas then no longer     *)
(* match.                                                                  *)
(***************************************************************************)
EXTENDS RukoDbTable, RukoDbProofs

-----------------------------------------------------------------------------
(* Traversals as walks.                                                    *)

(* A traversal of one key is one step from the root.                       *)
LEMMA OneKey ==
  ASSUME NEW m, NEW a, NEW create
  PROVE  TraverseTo(m, <<a>>, create) = Step(Start(m), a, create)
<1> DEFINE keys == <<a>>
<1>1. Len(keys) = 1 /\ Len(keys) \in Nat /\ keys[1] = a
  OBVIOUS
<1> HIDE DEF keys
<1>2. PICK at : IsWalk(at, m, keys, create) /\ TraverseTo(m, keys, create) = at[Len(keys)]
  BY <1>1, TraversalWalks
<1>3. at[0] = Start(m) /\ at[1] = Step(at[0], a, create)
  BY <1>1, <1>2 DEF IsWalk
<1> QED BY <1>1, <1>2, <1>3 DEF keys

(* The second key goes one step on from where the first led.               *)
LEMMA TwoKeys ==
  ASSUME NEW m, NEW a, NEW b, NEW create
  PROVE  TraverseTo(m, <<a, b>>, create) = Step(TraverseTo(m, <<a>>, create), b, create)
<1> DEFINE keys == <<a, b>>
<1>1. Len(keys) = 2 /\ Len(keys) \in Nat /\ keys[1] = a /\ keys[2] = b
  OBVIOUS
<1> HIDE DEF keys
<1>2. PICK at : IsWalk(at, m, keys, create) /\ TraverseTo(m, keys, create) = at[Len(keys)]
  BY <1>1, TraversalWalks
<1>3. at[0] = Start(m) /\ at[1] = Step(at[0], a, create) /\ at[2] = Step(at[1], b, create)
  BY <1>1, <1>2 DEF IsWalk
<1> QED BY <1>1, <1>2, <1>3, OneKey DEF keys

(* The third key goes one step on from where the first two led.            *)
LEMMA ThreeKeys ==
  ASSUME NEW m, NEW a, NEW b, NEW c, NEW create
  PROVE  TraverseTo(m, <<a, b, c>>, create) = Step(TraverseTo(m, <<a, b>>, create), c, create)
<1> DEFINE keys == <<a, b, c>>
<1>1. Len(keys) = 3 /\ Len(keys) \in Nat /\ keys[1] = a /\ keys[2] = b /\ keys[3] = c
  OBVIOUS
<1> HIDE DEF keys
<1>2. PICK at : IsWalk(at, m, keys, create) /\ TraverseTo(m, keys, create) = at[Len(keys)]
  BY <1>1, TraversalWalks
<1>3. /\ at[0] = Start(m) /\ at[1] = Step(at[0], a, create)
      /\ at[2] = Step(at[1], b, create) /\ at[3] = Step(at[2], c, create)
  BY <1>1, <1>2 DEF IsWalk
<1>4. TraverseTo(m, <<a>>, create) = at[1]
  BY <1>3, OneKey
<1>5. TraverseTo(m, <<a, b>>, create) = at[2]
  BY <1>3, <1>4, TwoKeys
<1> QED BY <1>1, <1>2, <1>3, <1>5 DEF keys

-----------------------------------------------------------------------------
(* The machines of such a database, and the bookkeeping of handleDelete    *)
(* and handleCreate in them.                                               *)

(* The machines of such a database: M(d, x) has the document d and the     *)
(* mappers x, at most that of users, and no mappings.                      *)
RowPath == {<<k>> : k \in RowKey}
IsIndex(x) ==
  /\ x = [n \in DOMAIN x |-> x[n]] /\ DOMAIN x \subseteq {Users}
  /\ \A n \in DOMAIN x : x[n] \in Mapper(RowPath)
NodesOf(x) == {<<>>} \cup DOMAIN x
Sound(d, nodesThere, all) == Machine(d, nodesThere, all, <<>>)
Thrown(m) == m.fault = "throw"
M(d, x) == Machine(d, NodesOf(x), x, <<>>)

(* The key of a lookup that found nothing. *)
Blank == ""

(* The empty key is a name and no client's key; kinds of objects differ.   *)
LEMMA Literals ==
  /\ Blank \in Name /\ Blank \notin RowKey
  /\ Dict # List /\ Dict # Empty /\ List # Empty
BY RowKeyAssumption DEF Blank, Dict, List, Empty

(* Users and the paths of its children are paths, of one and of two keys.  *)
LEMMA PathsOfUsers ==
  /\ Users \in Path /\ Len(Users) = 1 /\ <<>> \in Path
  /\ \A k \in Name : /\ Append(Users, k) \in Path /\ Append(Users, k)[2] = k
                     /\ Len(Append(Users, k)) = 2 /\ Last(Append(Users, k)) = k
                     /\ Front(Append(Users, k)) = Users
                     /\ <<k>> \in Path /\ Last(<<k>>) = k /\ Len(<<k>>) = 1
<1>1. Users \in Path /\ Len(Users) = 1 /\ <<>> \in Path
  <2>1. "users" \in Name
    BY RowKeyAssumption
  <2>2. Users = <<"users">>
    BY DEF Users
  <2>3. <<>> \in Path /\ \A k \in Name : <<k>> \in Path /\ Len(<<k>>) = 1 /\ <<k>>[1] = k
    BY DEF Path
  <2> QED BY <2>1, <2>2, <2>3
<1>2. ASSUME NEW k \in Name
      PROVE  /\ Append(Users, k) \in Path
             /\ Len(Append(Users, k)) = 2 /\ Last(Append(Users, k)) = k
             /\ Front(Append(Users, k)) = Users
             /\ Append(Users, k)[2] = k
             /\ <<k>> \in Path /\ Last(<<k>>) = k /\ Len(<<k>>) = 1
  <2>1. /\ Append(Users, k) \in Path /\ Len(Append(Users, k)) = Len(Users) + 1
        /\ Last(Append(Users, k)) = k /\ Front(Append(Users, k)) = Users
        /\ \A i \in 1 .. Len(Users) : Append(Users, k)[i] = Users[i]
        /\ Append(Users, k)[Len(Users) + 1] = k
    BY <1>1, AppendedPath
  <2>2. <<k>> \in Path /\ Last(<<k>>) = k /\ Len(<<k>>) = 1
    BY DEF Path, Last
  <2>3. Append(Users, k)[2] = k /\ Len(Append(Users, k)) = 2
    BY <1>1, <2>1
  <2> QED BY <2>1, <2>2, <2>3
<1> QED BY <1>1, <1>2

(* The region of an object whose location is its path.                     *)
LEMMA RegionIsUnder ==
  ASSUME NEW m, NEW frames, DOMAIN m.db \subseteq Path, NEW p \in Path,
         Location(frames) = p, Last(frames).obj = p
  PROVE  /\ DOMAIN Region(m, frames) = Under(m.db, p)
         /\ \A q \in Under(m.db, p) : Region(m, frames)[q] = q
<1>1. \A q \in Under(m.db, p) : p \o Below(p, q) = q
  BY BelowPath DEF Under
<1>2. {p \o Below(p, q) : q \in Under(m.db, p)} = Under(m.db, p)
  BY <1>1
<1>3. Region(m, frames) = [L \in {p \o Below(p, q) : q \in Under(m.db, p)} |-> p \o Below(p, L)]
  BY DEF Region
<1>4. Region(m, frames) = [L \in Under(m.db, p) |-> p \o Below(p, L)]
  BY <1>2, <1>3
<1> QED BY <1>1, <1>4

(* No mapping is told of anything when there is none.                      *)
LEMMA NothingUsed ==
  ASSUME NEW d, NEW x
  PROVE  DOMAIN M(d, x).mappings = {} /\ PointerFault(M(d, x), {}) = M(d, x)
BY DEF M, Machine, PointerFault

(* What handleDelete of p takes out of the tree and out of the mappers,    *)
(* and what handleCreate of p puts into them.                              *)
Gone(d, x, p) == {n \in NodesOf(x) : d[p] # Empty /\ IsPrefix(p, n)}
Olds(d, p, n) == {Attrs(d, L) : L \in {L \in Under(d, p) : L # <<>> /\ Front(L) = n}}
Remaining(d, x, p) == [n \in DOMAIN x \ Gone(d, x, p) |-> UnregisterAll(x[n], Olds(d, p, n))]
News(d, p, n) == {<<Attrs(d, L), <<Last(L)>>>> : L \in {L \in Under(d, p) : Front(L) = n}}
Clashing(d, x, p) == \E n \in DOMAIN x : RegisterClash(x[n], News(d, p, n))
Joined(d, x, p) == [n \in DOMAIN x |-> RegisterAll(x[n], News(d, p, n))]

(* handleDelete of an object whose location is its path.                   *)
LEMMA Deleted ==
  ASSUME NEW d, DOMAIN d \subseteq Path, NEW x, NEW frames, NEW p \in Path, p # <<>>,
         Location(frames) = p, Last(frames).obj = p
  PROVE  HandleDelete(M(d, x), frames) =
           Sound(d, NodesOf(x) \ Gone(d, x, p), Remaining(d, x, p))
<1> DEFINE m == M(d, x)
           region == Region(m, frames)
<1>1. /\ m.db = d /\ m.nodes = NodesOf(x) /\ m.mappers = x /\ m.mappings = <<>>
      /\ m.fault = "none"
  BY DEF M, Machine
<1>2. DOMAIN region = Under(d, p) /\ \A q \in Under(d, p) : region[q] = q
  BY <1>1, RegionIsUnder
<1> DEFINE gone == {n \in NodesOf(x) : d[p] # Empty /\ IsPrefix(p, n)}
           was(n) == {Attrs(d, L) : L \in {L \in Under(d, p) : L # <<>> /\ Front(L) = n}}
           olds(n) == {Attrs(m.db, region[L]) : L \in {L \in DOMAIN region : L # <<>> /\ Front(L) = n}}
<1>3. ASSUME NEW n PROVE was(n) = olds(n)
  BY <1>1, <1>2
<1>4. DOMAIN m.mappings = {} /\ PointerFault(m, {}) = m
  BY NothingUsed
<1> DEFINE loc == Location(frames)
           full == m.db[Last(frames).obj] # Empty
           used == {i \in DOMAIN m.mappings : full /\ loc # <<>> /\ Hits(m.mappings[i], region) # {}}
           lost ==
             {n \in m.nodes : /\ full
                              /\ IsPrefix(loc, n)
                              /\ loc = <<>> => n # <<>> /\ n[1] \in KeysOf(m.db, <<>>)}
           early == {i \in used : \E L \in Hits(m.mappings[i], region), P \in DOMAIN region :
                       /\ IsStrictPrefix(loc, P) /\ IsPrefix(P, m.mappings[i].loc)
                       /\ ~IsPrefix(P, L) /\ ~IsPrefix(L, P)}
           told(n) ==
             {Attrs(m.db, region[L]) :
                L \in {L \in DOMAIN region :
                         \/ L # <<>> /\ Front(L) = n
                         \/ \E i \in used : TellsAt(m.mappings[i], n) /\ L \in Hits(m.mappings[i], region)}}
           m1 == PointerFault(m, used)
           m2 == IF early # {} THEN Faulted(m1, "undefined") ELSE m1
<1>5. used = {}
  BY <1>4
<1>6. early = {} /\ lost = gone
  <2>1. early = {}
    BY <1>5
  <2>2. loc = p /\ full <=> (loc = p /\ d[p] # Empty)
    BY <1>1
  <2>3. m.nodes = NodesOf(x) /\ loc = p /\ p # <<>>
    BY <1>1
  <2> HIDE DEF loc, full, m
  <2> QED BY <2>1, <2>2, <2>3
<1>7. ASSUME NEW n PROVE told(n) = olds(n)
  BY <1>5
<1>8. HandleDelete(m, frames) =
        [m2 EXCEPT
        !.nodes = @ \ lost,
        !.mappers = [n \in DOMAIN m.mappers \ lost |-> UnregisterAll(m.mappers[n], told(n))],
        !.mappings = [i \in DOMAIN @ |->
           IF @[i].node = "live" /\ @[i].loc \in lost THEN [@[i] EXCEPT !.node = "dangling"]
           ELSE @[i]]]
  BY DEF HandleDelete
<1> HIDE DEF used, early, lost, told, olds, m1, m2
<1>9. HandleDelete(m, frames) =
        [m EXCEPT !.nodes = @ \ gone,
                  !.mappers = [n \in DOMAIN x \ gone |-> UnregisterAll(x[n], olds(n))],
                  !.mappings = <<>>]
  <2> HIDE DEF m, gone, region
  <2>1. m2 = m
    BY <1>4, <1>5, <1>6 DEF m1, m2
  <2>2. [n \in DOMAIN m.mappers \ lost |-> UnregisterAll(m.mappers[n], told(n))]
          = [n \in DOMAIN x \ gone |-> UnregisterAll(x[n], olds(n))]
    BY <1>1, <1>6, <1>7
  <2>3. [i \in DOMAIN m.mappings |->
           IF m.mappings[i].node = "live" /\ m.mappings[i].loc \in lost
           THEN [m.mappings[i] EXCEPT !.node = "dangling"] ELSE m.mappings[i]] = <<>>
    BY <1>4
  <2>4. HandleDelete(m, frames) =
          [m EXCEPT !.nodes = m.nodes \ lost,
             !.mappers = [n \in DOMAIN m.mappers \ lost |-> UnregisterAll(m.mappers[n], told(n))],
             !.mappings = [i \in DOMAIN m.mappings |->
               IF m.mappings[i].node = "live" /\ m.mappings[i].loc \in lost
               THEN [m.mappings[i] EXCEPT !.node = "dangling"] ELSE m.mappings[i]]]
    BY <1>8, <2>1
  <2> QED BY <1>6, <2>2, <2>3, <2>4
<1>10. gone = Gone(d, x, p)
  BY DEF Gone
<1>11. [n \in DOMAIN x \ gone |-> UnregisterAll(x[n], olds(n))] = Remaining(d, x, p)
  <2>1. \A n : olds(n) = Olds(d, p, n)
    <3>1. \A n : olds(n) = was(n)
      BY <1>3
    <3> QED BY <3>1 DEF Olds
  <2> HIDE DEF gone
  <2> QED BY <1>10, <2>1 DEF Remaining
<1> HIDE DEF gone
<1>12. HandleDelete(m, frames) =
         [m EXCEPT !.nodes = NodesOf(x) \ Gone(d, x, p), !.mappers = Remaining(d, x, p), !.mappings = <<>>]
  BY <1>1, <1>9, <1>10, <1>11
<1> DEFINE left == Remaining(d, x, p)
           kept == NodesOf(x) \ Gone(d, x, p)
<1>13. HandleDelete(m, frames) = [m EXCEPT !.nodes = kept, !.mappers = left, !.mappings = <<>>]
  BY <1>12
<1> HIDE DEF left, kept
<1>14. m = Sound(d, NodesOf(x), x) /\ [Sound(d, NodesOf(x), x) EXCEPT !.nodes = kept] = Sound(d, kept, x)
  BY DEF M, Sound, Machine
<1>15. [Sound(d, kept, x) EXCEPT !.mappers = left] = Sound(d, kept, left)
  BY DEF Sound, Machine
<1>16. [Sound(d, kept, left) EXCEPT !.mappings = <<>>] = Sound(d, kept, left)
  BY DEF Sound, Machine
<1>17. [m EXCEPT !.nodes = kept, !.mappers = left, !.mappings = <<>>]
         = [[[m EXCEPT !.nodes = kept] EXCEPT !.mappers = left] EXCEPT !.mappings = <<>>]
  BY DEF M, Machine
<1> HIDE DEF m
<1>18. [m EXCEPT !.nodes = kept, !.mappers = left, !.mappings = <<>>] = Sound(d, kept, left)
  BY <1>14, <1>15, <1>16, <1>17
<1> QED BY <1>13, <1>18 DEF left, kept, m

(* handleCreate of an object whose location is its path.                   *)
LEMMA Created ==
  ASSUME NEW d, DOMAIN d \subseteq Path, NEW x, NEW frames, NEW p \in Path, Len(frames) # 1,
         Location(frames) = p, Last(frames).obj = p
  PROVE  /\ ~Clashing(d, x, p) => HandleCreate(M(d, x), frames) = Sound(d, NodesOf(x), Joined(d, x, p))
         /\ Clashing(d, x, p) => Thrown(HandleCreate(M(d, x), frames))
<1> DEFINE m == M(d, x)
           region == Region(m, frames)
           Regs(n) == {<<Attrs(d, L), <<Last(L)>>>> : L \in {L \in Under(d, p) : Front(L) = n}}
           used == {i \in DOMAIN m.mappings : Hits(m.mappings[i], region) # {}}
           told(n) ==
             {<<Attrs(m.db, region[L]), <<Last(L)>>>> : L \in {L \in DOMAIN region : Front(L) = n}}
             \cup {<<Attrs(m.db, region[L]), L>> :
                     L \in UNION {Hits(m.mappings[i], region) :
                                    i \in {i \in used : TellsAt(m.mappings[i], n)}}}
           m1 == PointerFault(m, used)
<1>1. m.db = d /\ m.mappers = x
  BY DEF M, Machine
<1>2. DOMAIN region = Under(d, p) /\ \A q \in Under(d, p) : region[q] = q
  BY <1>1, RegionIsUnder
<1>3. DOMAIN m.mappings = {} /\ PointerFault(m, {}) = m
  BY NothingUsed
<1>4. used = {} /\ m1 = m
  BY <1>3
<1>5. HandleCreate(m, frames) =
        IF Len(frames) = 1 THEN m
        ELSE IF \E n \in DOMAIN m.mappers : RegisterClash(m.mappers[n], told(n))
             THEN Faulted(m1, "throw")
             ELSE [m1 EXCEPT !.mappers = [n \in DOMAIN @ |-> RegisterAll(@[n], told(n))]]
  BY DEF HandleCreate
<1>6. ASSUME NEW n PROVE told(n) = Regs(n)
  <2>1. {i \in used : TellsAt(m.mappings[i], n)} = {}
    BY <1>4
  <2>2. told(n) = {<<Attrs(m.db, region[L]), <<Last(L)>>>> : L \in {L \in DOMAIN region : Front(L) = n}}
    BY <2>1
  <2> QED BY <1>1, <1>2, <2>2
<1> HIDE DEF m, m1, used, told, region, Regs
<1>7. HandleCreate(m, frames) =
        IF \E n \in DOMAIN x : RegisterClash(x[n], Regs(n)) THEN Faulted(m, "throw")
        ELSE [m EXCEPT !.mappers = [n \in DOMAIN x |-> RegisterAll(x[n], Regs(n))]]
  <2>1. (\E n \in DOMAIN m.mappers : RegisterClash(m.mappers[n], told(n)))
          <=> \E n \in DOMAIN x : RegisterClash(x[n], Regs(n))
    BY <1>1, <1>6
  <2>2. [n \in DOMAIN m1.mappers |-> RegisterAll(m1.mappers[n], told(n))]
          = [n \in DOMAIN x |-> RegisterAll(x[n], Regs(n))]
    BY <1>1, <1>4, <1>6
  <2>3. [m1 EXCEPT !.mappers = [n \in DOMAIN m1.mappers |-> RegisterAll(m1.mappers[n], told(n))]]
          = [m EXCEPT !.mappers = [n \in DOMAIN x |-> RegisterAll(x[n], Regs(n))]]
    BY <1>4, <2>2
  <2> QED BY <1>4, <1>5, <2>1, <2>3
<1>8. \A n : Regs(n) = News(d, p, n)
  BY DEF Regs, News
<1>9. Clashing(d, x, p) => HandleCreate(m, frames) = Faulted(m, "throw")
  BY <1>7, <1>8 DEF Clashing
<1>10. Thrown(Faulted(m, "throw"))
  BY DEF Thrown, Faulted, m, M, Machine
<1> DEFINE joined == Joined(d, x, p)
<1>11. ~Clashing(d, x, p) => HandleCreate(m, frames) = [m EXCEPT !.mappers = joined]
  BY <1>7, <1>8 DEF Clashing, Joined
<1> HIDE DEF joined
<1>12. [m EXCEPT !.mappers = joined] = Sound(d, NodesOf(x), joined)
  BY DEF m, M, Sound, Machine
<1> QED BY <1>9, <1>10, <1>11, <1>12 DEF m, joined

-----------------------------------------------------------------------------
(* The same for the three kinds of objects that clients write.             *)
LEMMA NothingUnregistered ==
  ASSUME NEW mapper \in Mapper(RowPath)
  PROVE  UnregisterAll(mapper, {}) = mapper /\ RegisterAll(mapper, {}) = mapper
         /\ ~RegisterClash(mapper, {})
<1>1. mapper.key = [f \in Field |-> [v \in Val |-> mapper.key[f][v]]] /\ mapper = [indices |-> mapper.indices, key |-> mapper.key]
  BY DEF Mapper
<1>2. \A f, v : Targets(mapper, {}, f, v) = {mapper.key[f][v]} \ {NoKey}
  BY DEF Targets
<1>3. ASSUME NEW a PROVE ~(Cardinality({a} \ {NoKey}) > 1)
  <2>1. {a} \ {NoKey} = {} \/ {a} \ {NoKey} = {a}
    OBVIOUS
  <2>2. Cardinality({a} \ {NoKey}) = 0 \/ Cardinality({a} \ {NoKey}) = 1
    BY <2>1, FS_EmptySet, FS_Singleton
  <2> QED BY <2>2
<1>4. ~RegisterClash(mapper, {})
  BY <1>2, <1>3 DEF RegisterClash
<1>5. UnregisterAll(mapper, {}) = mapper
  BY <1>1 DEF UnregisterAll
<1>6. RegisterAll(mapper, {}) = mapper
  <2>1. \A f, v : Targets(mapper, {}, f, v) # {} => (CHOOSE t \in Targets(mapper, {}, f, v) : TRUE) = mapper.key[f][v]
    BY <1>2
  <2>2. RegisterAll(mapper, {}) = [mapper EXCEPT !.key = [f \in Field |-> [v \in Val |-> mapper.key[f][v]]]]
    <3> DEFINE Entry(f, v) ==
          LET targets == Targets(mapper, {}, f, v)
          IN IF f \in mapper.indices /\ targets # {} THEN CHOOSE t \in targets : TRUE
             ELSE mapper.key[f][v]
    <3>1. \A f, v : Entry(f, v) = mapper.key[f][v]
      BY <2>1
    <3>2. RegisterAll(mapper, {}) = [mapper EXCEPT !.key = [f \in Field |-> [v \in Val |-> Entry(f, v)]]]
      BY DEF RegisterAll
    <3> HIDE DEF Entry
    <3> QED BY <3>1, <3>2
  <2> QED BY <1>1, <2>2
<1> QED BY <1>4, <1>5, <1>6

(* Of the objects under a row, the row alone is a child of users.          *)
LEMMA RowBelow ==
  ASSUME NEW d, DOMAIN d \subseteq Path, NEW k \in Name, Append(Users, k) \in DOMAIN d
  PROVE  {L \in Under(d, Append(Users, k)) : Front(L) = Users} = {Append(Users, k)}
<1> DEFINE p == Append(Users, k)
<1>1. p \in Path /\ Len(p) = 2 /\ Front(p) = Users /\ Len(Users) = 1
  BY PathsOfUsers
<1>2. ASSUME NEW L \in Path, IsPrefix(p, L), Front(L) = Users PROVE L = p
  <2>1. Len(L) >= 2 /\ \A i \in 1 .. 2 : p[i] = L[i]
    BY <1>1, <1>2, PrefixPointwise
  <2>2. Len(Front(L)) = Len(L) - 1
    BY <2>1 DEF Front, Path
  <2>3. Len(L) = 2
    BY <1>1, <1>2, <2>1, <2>2 DEF Path
  <2> QED BY <1>1, <2>1, <2>3 DEF Path
<1>3. IsPrefix(p, p)
  BY <1>1, PrefixPointwise
<1> QED BY <1>1, <1>2, <1>3 DEF Under

-----------------------------------------------------------------------------
(* Frames, and one key of a traversal.                                     *)

(* Frames of a traversal that goes by keys: an object's location is then   *)
(* its path.                                                               *)
Frame == {RootFrames[1]} \cup [key : Name, obj : Path \cup {NoObj}]
Root == RootFrames[1]

To(frames, k, o) == Append(frames, [key |-> k, obj |-> o])
Child(p, k) == Append(p, k)
Deep(frames) == Len(frames) # 1 /\ Len(frames) > 1
Above(frames) == frames[Len(frames) - 1].obj
Halt(k) == k = ""
Going == FALSE

(* Frames with one more key are frames, and lead to a location one key     *)
(* longer.                                                                 *)
LEMMA LocationGrows ==
  ASSUME NEW frames \in Seq(Frame), Len(frames) > 0, NEW k \in Name, NEW o \in Path \cup {NoObj},
         Location(frames) \in Path
  PROVE  /\ To(frames, k, o) \in Seq(Frame) /\ Len(To(frames, k, o)) = Len(frames) + 1
         /\ Location(To(frames, k, o)) = Append(Location(frames), k)
         /\ Location(To(frames, k, o)) \in Path
         /\ Last(To(frames, k, o)).key = k /\ Last(To(frames, k, o)).obj = o
         /\ Front(To(frames, k, o)) = frames
         /\ Len(To(frames, k, o)) # 1 /\ Len(To(frames, k, o)) > 1
         /\ To(frames, k, o)[Len(To(frames, k, o)) - 1] = Last(frames)
<1> DEFINE fr == [key |-> k, obj |-> o]
           more == Append(frames, fr)
<1>1. fr \in Frame /\ fr.key = k /\ fr.obj = o
  BY DEF Frame
<1> HIDE DEF fr
<1>2. more \in Seq(Frame) /\ Len(more) = Len(frames) + 1 /\ more[Len(frames) + 1] = fr
  BY <1>1
<1>3. Last(more) = fr
  BY <1>2 DEF Last
<1>4. Front(more) = frames
  BY <1>1 DEF Front
<1>5. \A i \in 1 .. Len(frames) : more[i] = frames[i]
  BY <1>1
<1>6. Location(more) = Append(Location(frames), k)
  <2> DEFINE n == Len(frames) - 1
  <2>1. n \in Nat /\ Len(more) - 1 = n + 1
    BY <1>2
  <2>2. Location(frames) = [i \in 1 .. n |-> frames[i + 1].key]
    BY DEF Location
  <2>3. Len(Location(frames)) = n
    BY <2>1, <2>2 DEF Path
  <2>4. Location(more) = [i \in 1 .. n + 1 |-> more[i + 1].key]
    BY <2>1 DEF Location
  <2>5. \A i \in 1 .. n : Location(more)[i] = Location(frames)[i]
    BY <1>5, <2>1, <2>2, <2>4
  <2>6. Location(more)[n + 1] = k
    BY <1>1, <1>2, <2>1, <2>4
  <2>7. /\ Append(Location(frames), k) \in Path /\ Len(Append(Location(frames), k)) = n + 1
        /\ \A i \in 1 .. n : Append(Location(frames), k)[i] = Location(frames)[i]
        /\ Append(Location(frames), k)[n + 1] = k
    BY <2>3, AppendedPath
  <2>8. \A i \in 1 .. n + 1 : Location(more)[i] = Append(Location(frames), k)[i]
    BY <2>1, <2>5, <2>6, <2>7
  <2>9. Append(Location(frames), k) = [i \in 1 .. n + 1 |-> Append(Location(frames), k)[i]]
    <3>1. ASSUME NEW s \in Path PROVE s = [i \in 1 .. Len(s) |-> s[i]]
      BY DEF Path
    <3> QED BY <2>7, <3>1
  <2> QED BY <2>4, <2>8, <2>9
<1>7. Append(Location(frames), k) \in Path
  BY AppendedPath
<1>8. To(frames, k, o) = more
  BY DEF To, fr
<1>9. Len(more) # 1 /\ Len(more) > 1 /\ more[Len(more) - 1] = Last(frames)
  BY <1>2, <1>5 DEF Last
<1> HIDE DEF more
<1> QED BY <1>1, <1>2, <1>3, <1>4, <1>6, <1>7, <1>8, <1>9

(* Frames that lead to loc, with the object o there. *)
Leads(frames, loc, o) ==
  /\ frames \in Seq(Frame) /\ Len(frames) > 0
  /\ Location(frames) = loc /\ loc \in Path /\ Last(frames).obj = o

(* One more key leads to the child of the location, from the frame there   *)
(* was.                                                                    *)
LEMMA LeadsOn ==
  ASSUME NEW frames, NEW loc, NEW p, Leads(frames, loc, p),
         NEW k \in Name, NEW o \in Path \cup {NoObj}
  PROVE  /\ Leads(To(frames, k, o), Child(loc, k), o)
         /\ Last(To(frames, k, o)).key = k /\ Front(To(frames, k, o)) = frames
         /\ Deep(To(frames, k, o)) /\ Above(To(frames, k, o)) = p
<1>1. /\ frames \in Seq(Frame) /\ Len(frames) > 0
      /\ Location(frames) = loc /\ Location(frames) \in Path /\ Last(frames).obj = p
  BY DEF Leads
<1> DEFINE more == To(frames, k, o)
<1>2. /\ more \in Seq(Frame) /\ Len(more) > 1 /\ Len(more) # 1
      /\ Location(more) = Append(Location(frames), k)
      /\ Location(more) \in Path
      /\ Last(more).key = k /\ Last(more).obj = o
      /\ Front(more) = frames /\ more[Len(more) - 1] = Last(frames)
  BY <1>1, LocationGrows
<1> HIDE DEF more
<1>3. Len(more) > 0
  BY <1>2
<1>4. Leads(more, Child(loc, k), o)
  BY <1>1, <1>2, <1>3 DEF Leads, Child
<1>5. Deep(more) /\ Above(more) = p
  BY <1>1, <1>2 DEF Deep, Above
<1> QED BY <1>1, <1>2, <1>4, <1>5 DEF more

(* The frames of a new traversal lead to the root.                         *)
LEMMA AtRoot ==
  /\ RootFrames \in Seq(Frame) /\ Len(RootFrames) = 1 /\ Location(RootFrames) = <<>>
  /\ Last(RootFrames).obj = <<>> /\ Leads(RootFrames, <<>>, <<>>)
<1>1. RootFrames = <<Root>> /\ Root.obj = <<>>
  BY DEF RootFrames, Root
<1>2. Root \in Frame
  BY DEF Frame, Root
<1>3. RootFrames \in Seq(Frame) /\ Len(RootFrames) = 1 /\ RootFrames[1] = Root
  BY <1>1, <1>2
<1>4. Location(RootFrames) = <<>>
  BY <1>3 DEF Location
<1>5. Last(RootFrames).obj = <<>>
  BY <1>1, <1>3 DEF Last
<1> QED BY <1>3, <1>4, <1>5, PathsOfUsers DEF Leads

-----------------------------------------------------------------------------
(* One key further, from a dict, a scalar or nothing.                      *)
Walked(d, x, frames, stop) == [m |-> M(d, x), frames |-> frames, stop |-> stop]

Makes(create) == create

(* From a dict, a key leads to the child it has; to one it does not have   *)
(* only when commands create, which add an Empty object there, or else to  *)
(* nothing.                                                                *)
LEMMA FromDict ==
  ASSUME NEW d, DOMAIN d \subseteq Path, NEW x, NEW frames, NEW stop, NEW create \in BOOLEAN, NEW k \in Name,
         NEW p \in DOMAIN d, Last(frames).obj = p, d[p] = Dict
  PROVE  /\ Child(p, k) \in DOMAIN d =>
              Descend(Walked(d, x, frames, stop), k, create) = Walked(d, x, To(frames, k, Child(p, k)), Halt(k))
         /\ Child(p, k) \notin DOMAIN d /\ Makes(create) /\ Child(Location(frames), k) \notin NodesOf(x) =>
              Descend(Walked(d, x, frames, stop), k, create) =
                Walked(Graft(d, Child(p, k), Leaf(Empty)), x, To(frames, k, Child(p, k)), Halt(k))
         /\ Child(p, k) \notin DOMAIN d /\ ~Makes(create) =>
              Descend(Walked(d, x, frames, stop), k, create) = Walked(d, x, To(frames, k, NoObj), Halt(k))
<1> USE DEF Child, Makes
<1> DEFINE t == Walked(d, x, frames, stop)
           top == Last(t.frames).obj
           db1 == IF top # NoObj /\ create /\ ~Indexable(t.m.db, top)
                  THEN Graft(t.m.db, top, Leaf(Dict)) ELSE t.m.db
           found == IF top = NoObj THEN {} ELSE ChildKeys(db1, top, k)
           adds == /\ create /\ top # NoObj /\ found = {}
                   /\ Append(Location(t.frames), k) \notin t.m.nodes
                   /\ Adds(db1, top)
           db2  == IF adds THEN Graft(db1, Append(top, k), Leaf(Empty)) ELSE db1
           obj  == CASE found # {} -> Append(top, CHOOSE c \in found : TRUE)
                     [] adds -> Append(top, k)
                     [] OTHER -> NoObj
<1>1. t.m = M(d, x) /\ t.m.db = d /\ t.m.nodes = NodesOf(x) /\ t.frames = frames
  BY DEF Walked, M, Machine
<1>2. top = p /\ p # NoObj /\ p \in Path
  BY <1>1, RowKeyAssumption
<1>3. db1 = d /\ Adds(db1, top)
  BY <1>1, <1>2 DEF Indexable, Adds
<1>4. found = {k} \cap {c \in Name : Append(p, c) \in DOMAIN d}
  BY <1>2, <1>3, KeysAreChildren, Literals DEF ChildKeys
<1>5. Descend(t, k, create) =
        [m |-> [t.m EXCEPT !.db = db2],
         frames |-> Append(t.frames, [key |-> k, obj |-> obj]), stop |-> k = ""]
  BY DEF Descend
<1> HIDE DEF found, adds, db1
<1>6. ASSUME Append(p, k) \in DOMAIN d PROVE obj = Append(p, k) /\ db2 = d
  BY <1>2, <1>3, <1>4, <1>6 DEF adds
<1>7. ASSUME Append(p, k) \notin DOMAIN d, create, Append(Location(frames), k) \notin NodesOf(x)
      PROVE  obj = Append(p, k) /\ db2 = Graft(d, Append(p, k), Leaf(Empty))
  BY <1>1, <1>2, <1>3, <1>4, <1>7 DEF adds
<1>8. ASSUME Append(p, k) \notin DOMAIN d, ~create PROVE obj = NoObj /\ db2 = d
  BY <1>2, <1>3, <1>4, <1>8 DEF adds
<1>9. [t.m EXCEPT !.db = db2] = M(db2, x)
  BY <1>1 DEF M, Machine
<1> HIDE DEF obj, db2
<1> QED BY <1>1, <1>5, <1>6, <1>7, <1>8, <1>9 DEF Walked, To, Halt

(* From no object a key leads to no object, and the database stays.        *)
LEMMA FromNothing ==
  ASSUME NEW d, NEW x, NEW frames, NEW stop, NEW create \in BOOLEAN, NEW k \in Name,
         Last(frames).obj = NoObj
  PROVE  Descend(Walked(d, x, frames, stop), k, create) = Walked(d, x, To(frames, k, NoObj), Halt(k))
<1>1. LET t == Walked(d, x, frames, stop) IN t.m = M(d, x) /\ t.m.db = d /\ t.frames = frames
  BY DEF Walked, M, Machine
<1>2. [M(d, x) EXCEPT !.db = d] = M(d, x)
  BY DEF M, Machine
<1> QED BY <1>1, <1>2 DEF Descend, Walked, To, Halt

(* From a scalar a key leads to nothing, unless commands create: then the  *)
(* scalar becomes a dict with an Empty object under the key.               *)
LEMMA FromScalar ==
  ASSUME NEW d, DOMAIN d \subseteq Path, NEW x, NEW frames, NEW stop, NEW create \in BOOLEAN, NEW k \in Name,
         NEW p \in DOMAIN d, Last(frames).obj = p, d[p] \notin {Dict, List},
         Child(Location(frames), k) \notin NodesOf(x)
  PROVE  /\ Makes(create) => Descend(Walked(d, x, frames, stop), k, create) =
              Walked(Graft(Graft(d, p, Leaf(Dict)), Child(p, k), Leaf(Empty)), x,
                 To(frames, k, Child(p, k)), Halt(k))
         /\ ~Makes(create) =>
              Descend(Walked(d, x, frames, stop), k, create) = Walked(d, x, To(frames, k, NoObj), Halt(k))
<1> USE DEF Child, Makes
<1> DEFINE t == Walked(d, x, frames, stop)
           top == Last(t.frames).obj
           db1 == IF top # NoObj /\ create /\ ~Indexable(t.m.db, top)
                  THEN Graft(t.m.db, top, Leaf(Dict)) ELSE t.m.db
           found == IF top = NoObj THEN {} ELSE ChildKeys(db1, top, k)
           adds == /\ create /\ top # NoObj /\ found = {}
                   /\ Append(Location(t.frames), k) \notin t.m.nodes
                   /\ Adds(db1, top)
           db2  == IF adds THEN Graft(db1, Append(top, k), Leaf(Empty)) ELSE db1
           obj  == CASE found # {} -> Append(top, CHOOSE c \in found : TRUE)
                     [] adds -> Append(top, k)
                     [] OTHER -> NoObj
<1>1. t.m = M(d, x) /\ t.m.db = d /\ t.m.nodes = NodesOf(x) /\ t.frames = frames
  BY DEF Walked, M, Machine
<1>2. top = p /\ p # NoObj /\ p \in Path
  BY <1>1, RowKeyAssumption
<1>5. Descend(t, k, create) =
        [m |-> [t.m EXCEPT !.db = db2],
         frames |-> Append(t.frames, [key |-> k, obj |-> obj]), stop |-> k = ""]
  BY DEF Descend
<1>6. ASSUME create
      PROVE  obj = Append(p, k) /\ db2 = Graft(Graft(d, p, Leaf(Dict)), Append(p, k), Leaf(Empty))
  <2> DEFINE g == Graft(d, p, Leaf(Dict))
  <2>1. DOMAIN Leaf(Dict) = {<<>>} /\ Leaf(Dict)[<<>>] = Dict /\ <<>> \in Path
    BY PathsOfUsers DEF Leaf
  <2>2. Below(p, p) = <<>> /\ IsPrefix(p, p)
    BY <1>2, PrefixPointwise DEF Below, Path
  <2>3. IsPrefix(p, Append(p, k)) /\ Below(p, Append(p, k)) = <<k>> /\ <<k>> # <<>> /\ Append(p, k) \in Path
    BY <1>2, AppendedPath, PathsOfUsers
  <2>4. DOMAIN g \subseteq Path /\ Append(p, k) \notin DOMAIN g /\ g[p] = Dict
    <3>1. DOMAIN Leaf(Dict) \subseteq Path
      BY <2>1
    <3>2. /\ DOMAIN g \subseteq Path
          /\ \A q \in Path : IsPrefix(p, q) =>
               /\ q \in DOMAIN g <=> Below(p, q) \in DOMAIN Leaf(Dict)
               /\ Below(p, q) \in DOMAIN Leaf(Dict) => g[q] = Leaf(Dict)[Below(p, q)]
      BY <1>2, <3>1, Grafted
    <3> HIDE DEF g
    <3>3. g[p] = Dict
      BY <1>2, <2>1, <2>2, <3>2
    <3>4. Append(p, k) \notin DOMAIN g
      BY <2>1, <2>3, <3>2
    <3> QED BY <3>2, <3>3, <3>4
  <2>5. db1 = g
    BY <1>1, <1>2, <1>6 DEF Indexable
  <2>6. found = {}
    <3>1. ChildKeys(g, p, k) = {k} \cap KeysOf(g, p)
      BY <2>4, Literals DEF ChildKeys
    <3>2. k \notin KeysOf(g, p)
      BY <1>2, <2>4, KeysAreChildren
    <3> QED BY <1>2, <2>5, <3>1, <3>2
  <2>7. adds
    BY <1>1, <1>2, <1>6, <2>4, <2>5, <2>6 DEF Adds
  <2> HIDE DEF found, adds, db1
  <2> QED BY <1>2, <2>5, <2>6, <2>7
<1>7. ASSUME ~create PROVE obj = NoObj /\ db2 = d
  <2>1. db1 = d /\ ~adds
    BY <1>1, <1>7
  <2>2. found = {}
    BY <1>2, <2>1 DEF ChildKeys
  <2> HIDE DEF found, adds, db1
  <2> QED BY <2>1, <2>2
<1>8. [t.m EXCEPT !.db = db2] = M(db2, x)
  BY <1>1 DEF M, Machine
<1> HIDE DEF obj, db2
<1> QED BY <1>1, <1>5, <1>6, <1>7, <1>8 DEF Walked, To, Halt

-----------------------------------------------------------------------------
(* One key of an address. *)
LEMMA PlainStep ==
  ASSUME NEW t, t.stop = FALSE, t.m.fault = "none", NEW k, k # "---", NEW create
  PROVE  Step(t, <<k>>, create) = Descend(t, k, create)
<1>1. <<k>> # <<"---">> /\ Len(<<k>>) = 1 /\ <<k>>[1] = k
  OBVIOUS
<1> QED BY <1>1 DEF Step

(* A key "f:v" of a walk that goes on is a step through the index.         *)
LEMMA FieldStep ==
  ASSUME NEW t, t.stop = FALSE, t.m.fault = "none", NEW f, NEW v, NEW create
  PROVE  Step(t, <<f, v>>, create) = StepBy(t, f, v, create)
<1>1. <<f, v>> # <<"---">> /\ Len(<<f, v>>) = 2 /\ <<f, v>>[1] = f /\ <<f, v>>[2] = v
  OBVIOUS
<1> QED BY <1>1 DEF Step

RowOf(k) == Child(Users, k)
FieldOf(k, f) == Child(RowOf(k), f)

(* A database as IsTableDb describes it: its paths one by one.             *)
LEMMA TableDb ==
  ASSUME NEW d, IsTableDb(d)
  PROVE  /\ DOMAIN d \subseteq Path /\ <<>> \in DOMAIN d /\ Users \in DOMAIN d
         /\ d[<<>>] = Dict /\ d[Users] = Dict
         /\ \A k \in Name : RowOf(k) \in DOMAIN d =>
              \/ k \in RowKey /\ d[RowOf(k)] \notin {List, Empty}
              \/ k = Blank /\ d[RowOf(k)] = Empty
<1> USE DEF RowOf, Child
<1>1. \A k \in Name : /\ Append(Users, k) \in Path /\ Len(Append(Users, k)) = 2
                       /\ Append(Users, k)[2] = k
  BY PathsOfUsers
<1>2. \A k \in Name : Append(Users, k) # <<>> /\ Len(Append(Users, k)) > 1
  <2>1. \A q \in Path : Len(q) = 2 => q # <<>> /\ Len(q) > 1
    BY DEF Path
  <2> QED BY <1>1, <2>1
<1>3. ASSUME NEW k \in Name, Append(Users, k) \in DOMAIN d
      PROVE  \/ k \in RowKey /\ d[Append(Users, k)] \notin {List, Empty}
             \/ k = Blank /\ d[Append(Users, k)] = Empty
  <2> DEFINE p == Append(Users, k)
  <2>1. p \in DOMAIN d \ {<<>>} /\ Len(p) > 1 /\ p[2] = k
    BY <1>1, <1>2, <1>3
  <2>2. \/ p[2] \in RowKey /\ Append(Users, p[2]) \in DOMAIN d /\ d[Append(Users, p[2])] \notin {List, Empty}
        \/ p = Append(Users, "") /\ d[p] = Empty
    BY <2>1 DEF IsTableDb
  <2>3. CASE p = Append(Users, "") /\ d[p] = Empty
    <3>1. Append(Users, "")[2] = Blank
      BY Literals, PathsOfUsers DEF Blank
    <3> QED BY <2>1, <2>3, <3>1
  <2> QED BY <2>1, <2>2, <2>3
<1> QED BY <1>3 DEF IsTableDb, IsObject

-----------------------------------------------------------------------------
(* The clients' addresses, in a database d with the mappers x.             *)
UsersKey == "users"
AtUsers == To(RootFrames, UsersKey, Users)
AtRow(k, o) == To(AtUsers, k, o)
AtField(k, f, o, q) == To(AtRow(k, o), f, q)

(* The frames at users lead to users.                                      *)
LEMMA PlacesOfUsers ==
  /\ Leads(AtUsers, Users, Users) /\ Last(AtUsers).key = UsersKey /\ Deep(AtUsers)
  /\ Child(<<>>, UsersKey) = Users /\ UsersKey \in Name
<1>1. UsersKey \in Name
  BY RowKeyAssumption DEF UsersKey
<1>2. Child(<<>>, UsersKey) = Users
  <2>1. <<>> \o <<UsersKey>> = Append(<<>>, UsersKey)
    BY <1>1, AppendedPath, PathsOfUsers
  <2>2. <<UsersKey>> \in Path
    BY <1>1, PathsOfUsers
  <2>3. \A s \in Path : <<>> \o s = s
    BY DEF Path
  <2>4. <<UsersKey>> = Users
    BY DEF Users, UsersKey
  <2> QED BY <2>1, <2>2, <2>3, <2>4 DEF Child
<1> HIDE DEF UsersKey
<1>3. Leads(AtUsers, Child(<<>>, UsersKey), Users) /\ Last(AtUsers).key = UsersKey /\ Deep(AtUsers)
  <2>1. Users \in Path \cup {NoObj}
    BY PathsOfUsers
  <2>2. Leads(RootFrames, <<>>, <<>>)
    BY AtRoot
  <2> QED BY <1>1, <2>1, <2>2, LeadsOn DEF AtUsers
<1> QED BY <1>1, <1>2, <1>3

(* Where an object of users can be, as a path. *)
LEMMA RowPaths ==
  ASSUME NEW k \in Name
  PROVE  /\ RowOf(k) \in Path /\ IsPrefix(Users, RowOf(k)) /\ Last(RowOf(k)) = k
         /\ Front(RowOf(k)) = Users /\ RowOf(k) # <<>> /\ RowOf(k) # Users
         /\ \A l \in Name : RowOf(l) = RowOf(k) => l = k
<1>1. Users \in Path /\ Len(Users) = 1 /\ Append(Users, k) \in Path /\ Len(Append(Users, k)) = 2
  BY PathsOfUsers
<1>2. Len(RowOf(k)) = 2
  BY <1>1 DEF RowOf, Child
<1>3. RowOf(k) # <<>> /\ RowOf(k) # Users
  <2>1. Len(<<>>) = 0
    OBVIOUS
  <2> HIDE DEF RowOf
  <2> QED BY <1>1, <1>2, <2>1
<1>4. /\ IsPrefix(Users, RowOf(k)) /\ Last(RowOf(k)) = k /\ Front(RowOf(k)) = Users
      /\ RowOf(k) \in Path
  BY <1>1, AppendedPath DEF RowOf, Child
<1>5. \A l \in Name : Last(RowOf(l)) = l
  BY PathsOfUsers DEF RowOf, Child
<1> QED BY <1>3, <1>4, <1>5

(* The path of a field is below that of its row, and of no other field.    *)
LEMMA FieldPaths ==
  ASSUME NEW k \in Name, NEW f \in Name
  PROVE  /\ FieldOf(k, f) \in Path /\ IsPrefix(RowOf(k), FieldOf(k, f)) /\ Last(FieldOf(k, f)) = f
         /\ Front(FieldOf(k, f)) = RowOf(k) /\ FieldOf(k, f) # <<>> /\ FieldOf(k, f) # Users
         /\ \A g \in Name : FieldOf(k, g) = FieldOf(k, f) => g = f
<1>1. RowOf(k) \in Path /\ RowOf(k) # Users /\ RowOf(k) # <<>>
  BY RowPaths
<1>2. /\ FieldOf(k, f) \in Path /\ IsPrefix(RowOf(k), FieldOf(k, f)) /\ Last(FieldOf(k, f)) = f
      /\ Front(FieldOf(k, f)) = RowOf(k)
  BY <1>1, AppendedPath DEF FieldOf, Child
<1>3. \A g \in Name : Last(FieldOf(k, g)) = g
  BY <1>1, AppendedPath DEF FieldOf, Child
<1>4. Len(FieldOf(k, f)) = Len(RowOf(k)) + 1
  BY <1>1, AppendedPath DEF FieldOf, Child
<1>5. Len(RowOf(k)) = 2 /\ Len(Users) = 1 /\ Users \in Path
  BY PathsOfUsers DEF RowOf, Child
<1>6. FieldOf(k, f) # Users /\ FieldOf(k, f) # <<>>
  <2>1. Len(FieldOf(k, f)) = 3
    BY <1>4, <1>5
  <2> QED BY <1>5, <2>1
<1> QED BY <1>2, <1>3, <1>6

-----------------------------------------------------------------------------
(* Traversals to users and to a row.                                       *)

(* No index node is below users. *)
LEMMA NoNodeBelow ==
  ASSUME NEW x, IsIndex(x), NEW k \in Name
  PROVE  RowOf(k) \notin NodesOf(x) /\ \A f \in Name : FieldOf(k, f) \notin NodesOf(x)
<1>1. \A n \in NodesOf(x) : n = <<>> \/ n = Users
  BY DEF NodesOf, IsIndex
<1> QED BY <1>1, RowPaths, FieldPaths

(* What the assumptions say of the keys, fields and markers.               *)
LEMMA Keys ==
  /\ UsersKey # "" /\ UsersKey # "---" /\ Users = <<UsersKey>>
  /\ \A k \in RowKey : k \in Name /\ k # "" /\ k # "---"
  /\ \A f \in Written : f \in Name /\ f \in Field /\ f # "" /\ f # "---"
  /\ NoKey \notin Path /\ NoObj \notin Path /\ NoKey \notin RowKey
BY RowKeyAssumption DEF UsersKey, Users

(* A walk that goes on has neither stopped nor failed.                     *)
LEMMA AtIsReady ==
  ASSUME NEW d, NEW x, NEW frames
  PROVE  /\ Walked(d, x, frames, Going).stop = FALSE /\ Walked(d, x, frames, Going).m = M(d, x)
         /\ Walked(d, x, frames, Going).m.fault = "none" /\ Walked(d, x, frames, Going).frames = frames
BY DEF Walked, M, Machine, Going

(* Whether it creates or not, a traversal to users finds it as it is.      *)
LEMMA WalkToUsers ==
  ASSUME NEW d, IsTableDb(d), NEW x, NEW create \in BOOLEAN
  PROVE  TraverseTo(M(d, x), <<Users>>, create) = Walked(d, x, AtUsers, Going)
<1>1. TraverseTo(M(d, x), <<Users>>, create) = Step(Start(M(d, x)), <<UsersKey>>, create)
  BY OneKey, Keys
<1>2. Start(M(d, x)) = Walked(d, x, RootFrames, Going)
  BY DEF Start, Walked, Going
<1> DEFINE t == Walked(d, x, RootFrames, Going)
<1>3. Step(t, <<UsersKey>>, create) = Descend(t, UsersKey, create)
  <2>1. t.stop = FALSE /\ t.m.fault = "none"
    BY DEF Walked, M, Machine, Going
  <2> HIDE DEF t
  <2> QED BY <2>1, PlainStep, Keys
<1>4. DOMAIN d \subseteq Path /\ <<>> \in DOMAIN d /\ Users \in DOMAIN d /\ d[<<>>] = Dict
  BY TableDb
<1>5. Last(RootFrames).obj = <<>> /\ UsersKey \in Name /\ Child(<<>>, UsersKey) = Users
  BY AtRoot, PlacesOfUsers
<1>6. Descend(t, UsersKey, create)
        = Walked(d, x, To(RootFrames, UsersKey, Child(<<>>, UsersKey)), Halt(UsersKey))
  <2> DEFINE frames == RootFrames
             p == <<>>
             key == UsersKey
  <2>1. /\ DOMAIN d \subseteq Path /\ p \in DOMAIN d /\ Last(frames).obj = p /\ d[p] = Dict
        /\ key \in Name /\ Child(p, key) \in DOMAIN d
    BY <1>4, <1>5
  <2> HIDE DEF frames, p, key
  <2>2. Descend(Walked(d, x, frames, Going), key, create) = Walked(d, x, To(frames, key, Child(p, key)), Halt(key))
    BY <2>1, FromDict
  <2> QED BY <2>2 DEF frames, p, key
<1>7. Halt(UsersKey) = Going
  BY Keys DEF Halt, Going
<1> QED BY <1>1, <1>2, <1>3, <1>5, <1>6, <1>7 DEF AtUsers

(* One key below users. *)
LEMMA DescendToRow ==
  ASSUME NEW d, IsTableDb(d), NEW x, IsIndex(x), NEW k \in Name, NEW create \in BOOLEAN
  PROVE  /\ RowOf(k) \in DOMAIN d =>
              Descend(Walked(d, x, AtUsers, Going), k, create) = Walked(d, x, AtRow(k, RowOf(k)), Halt(k))
         /\ RowOf(k) \notin DOMAIN d /\ Makes(create) =>
              Descend(Walked(d, x, AtUsers, Going), k, create)
                = Walked(Graft(d, RowOf(k), Leaf(Empty)), x, AtRow(k, RowOf(k)), Halt(k))
         /\ RowOf(k) \notin DOMAIN d /\ ~Makes(create) =>
              Descend(Walked(d, x, AtUsers, Going), k, create) = Walked(d, x, AtRow(k, NoObj), Halt(k))
<1>1. DOMAIN d \subseteq Path /\ Users \in DOMAIN d /\ d[Users] = Dict
  BY TableDb
<1>2. Last(AtUsers).obj = Users /\ Location(AtUsers) = Users
  BY PlacesOfUsers DEF Leads
<1>3. Child(Location(AtUsers), k) \notin NodesOf(x)
  BY <1>2, NoNodeBelow DEF RowOf
<1> HIDE DEF AtUsers
<1> QED BY <1>1, <1>2, <1>3, FromDict DEF AtRow, RowOf

(* A traversal to a row descends from users by the row's key.              *)
LEMMA RowWalk ==
  ASSUME NEW d, IsTableDb(d), NEW x, IsIndex(x), NEW k \in RowKey, NEW create \in BOOLEAN
  PROVE  /\ TraverseTo(M(d, x), AddressOfRow(k), create) = Descend(Walked(d, x, AtUsers, Going), k, create)
         /\ k \in Name /\ Halt(k) = Going
<1>1. TraverseTo(M(d, x), AddressOfRow(k), create)
        = Step(TraverseTo(M(d, x), <<Users>>, create), <<k>>, create)
  BY TwoKeys DEF AddressOfRow
<1>2. k \in Name /\ Halt(k) = Going /\ k # "---"
  BY Keys DEF Halt, Going
<1> DEFINE t == Walked(d, x, AtUsers, Going)
<1>3. Step(t, <<k>>, create) = Descend(t, k, create)
  <2>1. t.stop = FALSE /\ t.m.fault = "none"
    BY DEF Walked, M, Machine, Going
  <2> HIDE DEF t
  <2> QED BY <1>2, <2>1, PlainStep
<1> QED BY <1>1, <1>2, <1>3, WalkToUsers

(* A traversal to a row finds it where there is one; where there is none   *)
(* it adds an Empty object or finds nothing.                               *)
LEMMA WalkToRow ==
  ASSUME NEW d, IsTableDb(d), NEW x, IsIndex(x), NEW k \in RowKey, NEW create \in BOOLEAN
  PROVE  /\ RowOf(k) \in DOMAIN d =>
              TraverseTo(M(d, x), AddressOfRow(k), create) = Walked(d, x, AtRow(k, RowOf(k)), Going)
         /\ RowOf(k) \notin DOMAIN d /\ Makes(create) =>
              TraverseTo(M(d, x), AddressOfRow(k), create)
                = Walked(Graft(d, RowOf(k), Leaf(Empty)), x, AtRow(k, RowOf(k)), Going)
         /\ RowOf(k) \notin DOMAIN d /\ ~Makes(create) =>
              TraverseTo(M(d, x), AddressOfRow(k), create) = Walked(d, x, AtRow(k, NoObj), Going)
BY RowWalk, DescendToRow

-----------------------------------------------------------------------------
(* The shape of such a database, row by row.                               *)

(* Everything below users is at or below one of its keys.                  *)
LEMMA RowAbove ==
  ASSUME NEW p \in Path, IsPrefix(Users, p), p # Users
  PROVE  p[2] \in Name /\ IsPrefix(RowOf(p[2]), p) /\ Len(p) > 1
<1>1. Users \in Path /\ Len(Users) = 1
  BY PathsOfUsers
<1>2. Len(p) >= 1 /\ \A i \in 1 .. 1 : Users[i] = p[i]
  BY <1>1, PrefixPointwise
<1>3. ASSUME Len(p) = 1 PROVE p = Users
  BY <1>1, <1>2, <1>3 DEF Path
<1>4. Len(p) >= 2
  <2> DEFINE n == Len(p)
  <2>1. n # 1
    BY <1>3
  <2>2. n \in Nat /\ n >= 1
    BY <1>2 DEF Path
  <2> HIDE DEF n
  <2>3. n >= 2
    BY <2>1, <2>2
  <2> QED BY <2>3 DEF n
<1>5. p[2] \in Name
  BY <1>4 DEF Path
<1> DEFINE k == p[2]
           r == RowOf(k)
<1>6. /\ r \in Path /\ Len(r) = 2 /\ r[2] = k /\ r[1] = Users[1]
  <2>1. \A i \in 1 .. Len(Users) : Append(Users, k)[i] = Users[i]
    BY <1>1, <1>5, AppendedPath
  <2>2. Append(Users, k)[1] = Users[1]
    BY <1>1, <2>1
  <2>3. Append(Users, k) \in Path /\ Len(Append(Users, k)) = 2 /\ Append(Users, k)[2] = k
    BY <1>5, PathsOfUsers
  <2> QED BY <2>2, <2>3 DEF RowOf, Child
<1>7. \A i \in 1 .. 2 : r[i] = p[i]
  <2> HIDE DEF r
  <2> QED BY <1>2, <1>6
<1> HIDE DEF r
<1>8. IsPrefix(r, p)
  BY <1>4, <1>6, <1>7, PrefixPointwise
<1> QED BY <1>4, <1>5, <1>8 DEF r

(* A path at or below a row is below users, with the row's key.            *)
LEMMA RowPrefix ==
  ASSUME NEW k \in Name, NEW p \in Path, IsPrefix(RowOf(k), p)
  PROVE  IsPrefix(Users, p) /\ p # Users /\ p # <<>> /\ p[2] = k /\ Len(p) > 1
<1>1. Users \in Path /\ Len(Users) = 1
  BY PathsOfUsers
<1> DEFINE r == RowOf(k)
<1>2. r \in Path /\ Len(r) = 2 /\ r[2] = k /\ r[1] = Users[1]
  <2>1. \A i \in 1 .. Len(Users) : Append(Users, k)[i] = Users[i]
    BY <1>1, AppendedPath
  <2>2. Append(Users, k)[1] = Users[1]
    BY <1>1, <2>1
  <2>3. Append(Users, k) \in Path /\ Len(Append(Users, k)) = 2 /\ Append(Users, k)[2] = k
    BY PathsOfUsers
  <2> QED BY <2>2, <2>3 DEF RowOf, Child
<1> HIDE DEF r
<1>3. Len(p) >= 2 /\ p[1] = r[1] /\ p[2] = r[2]
  BY <1>2, PrefixPointwise DEF r
<1>4. IsPrefix(Users, p)
  BY <1>1, <1>2, <1>3, PrefixPointwise
<1>5. Len(<<>>) = 0
  OBVIOUS
<1> QED BY <1>1, <1>2, <1>3, <1>4, <1>5 DEF Path

(* No path is at or below two rows.                                        *)
LEMMA RowsApart ==
  ASSUME NEW k \in Name, NEW l \in Name, NEW p \in Path, IsPrefix(RowOf(k), p), IsPrefix(RowOf(l), p)
  PROVE  k = l
<1>1. p[2] = k
  BY RowPrefix
<1>2. p[2] = l
  BY RowPrefix
<1> QED BY <1>1, <1>2

(* A path is at itself, with nothing below.                                *)
LEMMA OwnPrefix ==
  ASSUME NEW p \in Path
  PROVE  IsPrefix(p, p) /\ Below(p, p) = <<>> /\ p \o <<>> = p
<1>1. IsPrefix(p, p)
  BY PrefixPointwise DEF Path
<1>2. Below(p, p) = <<>>
  BY DEF Below, Path
<1>3. p \o <<>> = p
  BY DEF Path
<1> QED BY <1>1, <1>2, <1>3

(* A database of users, row by row. *)
SoundRow(d, k) ==
  \/ k \in RowKey /\ RowOf(k) \in DOMAIN d /\ d[RowOf(k)] \notin {List, Empty}
  \/ k = Blank /\ \A p \in DOMAIN d : IsPrefix(RowOf(k), p) => p = RowOf(k) /\ d[p] = Empty

(* A database is users alone when each of its other paths is at or below a *)
(* sound row.                                                              *)
LEMMA RowByRow ==
  ASSUME NEW d, DOMAIN d \subseteq Path
  PROVE  IsTableDb(d) <=>
           /\ <<>> \in DOMAIN d /\ Users \in DOMAIN d /\ d[<<>>] = Dict /\ d[Users] = Dict
           /\ \A p \in DOMAIN d \ {<<>>, Users} : \E k \in Name : IsPrefix(RowOf(k), p) /\ SoundRow(d, k)
<1>1. ASSUME IsTableDb(d), NEW p \in DOMAIN d \ {<<>>, Users}
      PROVE  \E k \in Name : IsPrefix(RowOf(k), p) /\ SoundRow(d, k)
  <2>1. \A q \in DOMAIN d \ {<<>>} :
          /\ IsPrefix(Users, q)
          /\ Len(q) > 1 => \/ q[2] \in RowKey /\ RowOf(q[2]) \in DOMAIN d /\ d[RowOf(q[2])] \notin {List, Empty}
                           \/ q = RowOf(Blank) /\ d[q] = Empty
    BY <1>1 DEF IsTableDb, RowOf, Child, Blank
  <2>2. IsPrefix(Users, p) /\ p \in Path
    BY <2>1
  <2>3. p[2] \in Name /\ IsPrefix(RowOf(p[2]), p) /\ Len(p) > 1
    BY <2>2, RowAbove
  <2>4. CASE p[2] \in RowKey /\ RowOf(p[2]) \in DOMAIN d /\ d[RowOf(p[2])] \notin {List, Empty}
    <3>1. SoundRow(d, p[2])
      BY <2>4 DEF SoundRow
    <3> QED BY <2>3, <3>1
  <2>5. CASE p = RowOf(Blank) /\ d[p] = Empty
    <3>1. Blank \in Name /\ Blank \notin RowKey
      BY Literals
    <3>2. IsPrefix(RowOf(Blank), p)
      BY <2>2, <2>5, OwnPrefix
    <3>3. ASSUME NEW q \in DOMAIN d, IsPrefix(RowOf(Blank), q) PROVE q = RowOf(Blank) /\ d[q] = Empty
      <4>1. q[2] = Blank /\ q # <<>> /\ Len(q) > 1
        BY <3>1, <3>3, RowPrefix
      <4>2. q[2] \notin RowKey
        BY <3>1, <4>1
      <4> QED BY <2>1, <3>3, <4>1, <4>2
    <3>4. SoundRow(d, Blank)
      BY <3>3 DEF SoundRow
    <3> QED BY <3>1, <3>2, <3>4
  <2> QED BY <2>1, <2>3, <2>4, <2>5
<1>2. ASSUME /\ <<>> \in DOMAIN d /\ Users \in DOMAIN d /\ d[<<>>] = Dict /\ d[Users] = Dict
             /\ \A p \in DOMAIN d \ {<<>>, Users} : \E k \in Name : IsPrefix(RowOf(k), p) /\ SoundRow(d, k)
      PROVE  IsTableDb(d)
  <2>1. ASSUME NEW p \in DOMAIN d \ {<<>>}
        PROVE  /\ IsPrefix(Users, p)
               /\ Len(p) > 1 => \/ p[2] \in RowKey /\ RowOf(p[2]) \in DOMAIN d /\ d[RowOf(p[2])] \notin {List, Empty}
                                \/ p = RowOf(Blank) /\ d[p] = Empty
    <3>1. CASE p = Users
      <4>1. IsPrefix(Users, Users) /\ Len(Users) = 1
        BY OwnPrefix, PathsOfUsers
      <4> QED BY <3>1, <4>1
    <3>2. CASE p # Users
      <4>1. PICK k \in Name : IsPrefix(RowOf(k), p) /\ SoundRow(d, k)
        BY <1>2, <3>2
      <4>2. IsPrefix(Users, p) /\ p[2] = k
        BY <4>1, RowPrefix
      <4> QED BY <4>1, <4>2 DEF SoundRow
    <3> QED BY <3>1, <3>2
  <2> QED BY <1>2, <2>1 DEF IsTableDb, IsObject, RowOf, Child, Blank
<1>3. ASSUME IsTableDb(d) PROVE <<>> \in DOMAIN d /\ Users \in DOMAIN d /\ d[<<>>] = Dict /\ d[Users] = Dict
  BY <1>3, TableDb
<1> QED BY <1>1, <1>2, <1>3

-----------------------------------------------------------------------------
(* Its rows as a table, and changes at one row.                            *)

Phantom(d) == RowOf(Blank) \in DOMAIN d

(* The rows, by the paths of their objects.                                *)
LEMMA RowsRead ==
  ASSUME NEW d, DOMAIN d \subseteq Path
  PROVE  /\ KeysOf(d, Users) = {k \in Name : RowOf(k) \in DOMAIN d}
         /\ RowsIn(d) = [k \in {k \in RowKey : RowOf(k) \in DOMAIN d} |-> Attrs(d, RowOf(k))]
<1>1. KeysOf(d, Users) = {k \in Name : RowOf(k) \in DOMAIN d}
  BY KeysAreChildren, PathsOfUsers DEF RowOf, Child
<1>2. KeysOf(d, Users) \cap RowKey = {k \in RowKey : RowOf(k) \in DOMAIN d}
  BY <1>1, Keys
<1>3. RowsIn(d) = [k \in KeysOf(d, Users) \cap RowKey |-> Attrs(d, RowOf(k))]
  BY DEF RowsIn, RowOf, Child
<1> QED BY <1>1, <1>2, <1>3

(* What a mapper sees of any object is a row.                              *)
LEMMA AttrsAreRow ==
  ASSUME NEW d, NEW p
  PROVE  Attrs(d, p) \in Row
BY DEF Attrs, Row

(* What a mapper sees depends on nothing but the object.                   *)
SameAt(d, e, q) == (q \in DOMAIN d <=> q \in DOMAIN e) /\ (q \in DOMAIN d => e[q] = d[q])

(* Two documents that agree at and below a path show a mapper the same     *)
(* there.                                                                  *)
LEMMA AttrsSame ==
  ASSUME NEW d, NEW e, NEW p \in Path, p \in DOMAIN d,
         \A q \in Path : IsPrefix(p, q) => SameAt(d, e, q)
  PROVE  Attrs(e, p) = Attrs(d, p)
<1>1. e[p] = d[p]
  BY OwnPrefix DEF SameAt
<1>2. ASSUME NEW f \in Field
      PROVE  SameAt(d, e, Append(p, f))
  <2>1. f \in Name
    BY RowKeyAssumption
  <2>2. Append(p, f) \in Path /\ IsPrefix(p, Append(p, f))
    BY <2>1, AppendedPath
  <2> QED BY <2>2
<1> QED BY <1>1, <1>2 DEF Attrs, SameAt

(* An object assigned at p, as a mapper sees it.                           *)
LEMMA AttrsOfGraft ==
  ASSUME NEW d, DOMAIN d \subseteq Path, NEW p \in Path, NEW value, IsObject(value)
  PROVE  Attrs(Graft(d, p, value), p) = Attrs(value, <<>>)
<1> DEFINE g == Graft(d, p, value)
<1>1. DOMAIN value \subseteq Path /\ <<>> \in DOMAIN value
  BY DEF IsObject
<1>2. \A q \in Path : IsPrefix(p, q) =>
        /\ q \in DOMAIN g <=> Below(p, q) \in DOMAIN value
        /\ Below(p, q) \in DOMAIN value => g[q] = value[Below(p, q)]
  BY <1>1, Grafted
<1> HIDE DEF g
<1>3. g[p] = value[<<>>]
  BY <1>1, <1>2, OwnPrefix
<1>4. ASSUME NEW f \in Field
      PROVE  /\ Append(p, f) \in DOMAIN g <=> Append(<<>>, f) \in DOMAIN value
             /\ Append(<<>>, f) \in DOMAIN value => g[Append(p, f)] = value[Append(<<>>, f)]
  <2>1. f \in Name
    BY RowKeyAssumption
  <2>2. Append(p, f) \in Path /\ IsPrefix(p, Append(p, f)) /\ Below(p, Append(p, f)) = <<f>>
    BY <2>1, AppendedPath
  <2>3. Append(<<>>, f) = <<f>>
    <3>1. <<>> \o <<f>> = Append(<<>>, f)
      BY <2>1, AppendedPath, PathsOfUsers
    <3>2. <<f>> \in Path /\ \A s \in Path : <<>> \o s = s
      BY <2>1 DEF Path
    <3> QED BY <3>1, <3>2
  <2> QED BY <1>2, <2>2, <2>3
<1> QED BY <1>3, <1>4 DEF Attrs, g

(* The object taken out of a document shows a mapper what it did inside.   *)
LEMMA AttrsOfValue ==
  ASSUME NEW d, DOMAIN d \subseteq Path, NEW p \in DOMAIN d
  PROVE  Attrs(ValueAt(d, p), <<>>) = Attrs(d, p)
<1> DEFINE v == ValueAt(d, p)
<1>0. p \in Path
  OBVIOUS
<1>1. \A r \in Path : /\ r \in DOMAIN v <=> p \o r \in DOMAIN d
                      /\ p \o r \in DOMAIN d => v[r] = d[p \o r]
  <2> HIDE DEF v
  <2> QED BY <1>0, ValueBelow DEF v
<1> HIDE DEF v
<1>2. v[<<>>] = d[p]
  <2>1. p \o <<>> = p /\ <<>> \in Path
    BY <1>0, OwnPrefix, PathsOfUsers
  <2> DEFINE r == <<>>
  <2>2. p \o r = p /\ r \in Path
    BY <2>1
  <2> HIDE DEF r
  <2>3. v[r] = d[p]
    BY <1>1, <2>2
  <2> QED BY <2>3 DEF r
<1>3. ASSUME NEW f \in Field
      PROVE  /\ Append(<<>>, f) \in DOMAIN v <=> Append(p, f) \in DOMAIN d
             /\ Append(p, f) \in DOMAIN d => v[Append(<<>>, f)] = d[Append(p, f)]
  <2>1. f \in Name
    BY RowKeyAssumption
  <2>2. p \o <<f>> = Append(p, f) /\ Append(<<>>, f) = <<>> \o <<f>>
    BY <1>0, <2>1, AppendedPath, PathsOfUsers
  <2>3. <<f>> \in Path /\ \A s \in Path : <<>> \o s = s
    BY <2>1 DEF Path
  <2> DEFINE r == <<f>>
             s == Append(p, f)
  <2>4. r \in Path /\ Append(<<>>, f) = r /\ p \o r = s
    BY <2>2, <2>3
  <2> HIDE DEF r, s
  <2>5. (r \in DOMAIN v <=> s \in DOMAIN d) /\ (s \in DOMAIN d => v[r] = d[s])
    BY <1>1, <2>4
  <2> QED BY <2>4, <2>5 DEF s
<1> QED BY <1>2, <1>3 DEF Attrs, v

-----------------------------------------------------------------------------
(* Two databases that differ in the row k at most.                         *)
AwayFrom(d, e, k) == \A q \in Path : ~IsPrefix(RowOf(k), q) => SameAt(d, e, q)

(* A change at one row leaves the other rows as they are.                  *)
LEMMA OthersSame ==
  ASSUME NEW d, NEW e, NEW k \in Name, AwayFrom(d, e, k), DOMAIN d \subseteq Path, DOMAIN e \subseteq Path
  PROVE  /\ SameAt(d, e, <<>>) /\ SameAt(d, e, Users)
         /\ \A j \in Name \ {k} : /\ SameAt(d, e, RowOf(j))
                                  /\ RowOf(j) \in DOMAIN d => Attrs(e, RowOf(j)) = Attrs(d, RowOf(j))
                                  /\ SoundRow(d, j) => SoundRow(e, j)
<1>1. ~IsPrefix(RowOf(k), <<>>) /\ ~IsPrefix(RowOf(k), Users)
  BY RowPrefix, PathsOfUsers
<1>2. ASSUME NEW j \in Name \ {k}, NEW q \in Path, IsPrefix(RowOf(j), q) PROVE SameAt(d, e, q)
  BY <1>2, RowsApart DEF AwayFrom
<1>3. ASSUME NEW j \in Name \ {k}
      PROVE  /\ SameAt(d, e, RowOf(j))
             /\ RowOf(j) \in DOMAIN d => Attrs(e, RowOf(j)) = Attrs(d, RowOf(j))
             /\ SoundRow(d, j) => SoundRow(e, j)
  <2>1. RowOf(j) \in Path /\ IsPrefix(RowOf(j), RowOf(j))
    BY RowPaths, OwnPrefix
  <2>2. SameAt(d, e, RowOf(j))
    BY <1>2, <2>1
  <2>3. RowOf(j) \in DOMAIN d => Attrs(e, RowOf(j)) = Attrs(d, RowOf(j))
    BY <1>2, <2>1, AttrsSame
  <2>4. SoundRow(d, j) => SoundRow(e, j)
    BY <1>2, <2>2 DEF SoundRow, SameAt
  <2> QED BY <2>2, <2>3, <2>4
<1> QED BY <1>1, <1>3, PathsOfUsers DEF AwayFrom

(* A change at one row that leaves it sound, or removes it, keeps users    *)
(* sound.                                                                  *)
LEMMA StillTableDb ==
  ASSUME NEW d, IsTableDb(d), NEW e, DOMAIN e \subseteq Path, NEW k \in Name, AwayFrom(d, e, k),
         SoundRow(e, k) \/ \A q \in DOMAIN e : ~IsPrefix(RowOf(k), q)
  PROVE  IsTableDb(e)
<1>1. DOMAIN d \subseteq Path
  BY TableDb
<1>2. /\ <<>> \in DOMAIN d /\ Users \in DOMAIN d /\ d[<<>>] = Dict /\ d[Users] = Dict
      /\ \A p \in DOMAIN d \ {<<>>, Users} : \E j \in Name : IsPrefix(RowOf(j), p) /\ SoundRow(d, j)
  BY <1>1, RowByRow
<1>3. <<>> \in DOMAIN e /\ Users \in DOMAIN e /\ e[<<>>] = Dict /\ e[Users] = Dict
  BY <1>1, <1>2, OthersSame DEF SameAt
<1>4. ASSUME NEW p \in DOMAIN e \ {<<>>, Users} PROVE \E j \in Name : IsPrefix(RowOf(j), p) /\ SoundRow(e, j)
  <2>1. CASE IsPrefix(RowOf(k), p)
    BY <2>1
  <2>2. CASE ~IsPrefix(RowOf(k), p)
    <3>1. p \in DOMAIN d
      BY <2>2 DEF AwayFrom, SameAt
    <3>2. PICK j \in Name : IsPrefix(RowOf(j), p) /\ SoundRow(d, j)
      BY <1>2, <3>1
    <3>3. SoundRow(e, j)
      BY <1>1, <2>2, <3>2, OthersSame
    <3> QED BY <3>2, <3>3
  <2> QED BY <2>1, <2>2
<1> QED BY <1>3, <1>4, RowByRow

(* The effect on the rows of writing one, of removing one, and of the      *)
(* Empty object under the key "".                                          *)
LEMMA RowWritten ==
  ASSUME NEW d, IsTableDb(d), NEW e, DOMAIN e \subseteq Path, NEW k \in RowKey, AwayFrom(d, e, k),
         RowOf(k) \in DOMAIN e, e[RowOf(k)] \notin {List, Empty}
  PROVE  /\ IsTableDb(e) /\ Phantom(e) = Phantom(d)
         /\ RowsIn(e) = [j \in DOMAIN RowsIn(d) \cup {k} |->
                           IF j = k THEN Attrs(e, RowOf(k)) ELSE RowsIn(d)[j]]
<1>1. DOMAIN d \subseteq Path /\ k \in Name /\ Blank \in Name \ {k}
  BY TableDb, Keys, Literals
<1>2. IsTableDb(e)
  <2>1. SoundRow(e, k)
    BY DEF SoundRow
  <2> QED BY <1>1, <2>1, StillTableDb
<1>3. \A j \in Name \ {k} : /\ SameAt(d, e, RowOf(j))
                            /\ RowOf(j) \in DOMAIN d => Attrs(e, RowOf(j)) = Attrs(d, RowOf(j))
  BY <1>1, OthersSame
<1>4. Phantom(e) = Phantom(d)
  BY <1>1, <1>3 DEF Phantom, SameAt
<1>5. \A j \in RowKey \ {k} : j \in Name \ {k}
  BY Keys
<1> DEFINE rowsD == [j \in {j \in RowKey : RowOf(j) \in DOMAIN d} |-> Attrs(d, RowOf(j))]
           rowsE == [j \in {j \in RowKey : RowOf(j) \in DOMAIN e} |-> Attrs(e, RowOf(j))]
<1>6. RowsIn(d) = rowsD /\ RowsIn(e) = rowsE
  BY <1>1, RowsRead
<1>7. rowsE = [j \in DOMAIN rowsD \cup {k} |-> IF j = k THEN Attrs(e, RowOf(k)) ELSE rowsD[j]]
  BY <1>3, <1>5 DEF SameAt
<1> QED BY <1>2, <1>4, <1>6, <1>7

(* Removing one row removes it from the table and nothing else.            *)
LEMMA RowRemoved ==
  ASSUME NEW d, IsTableDb(d), NEW e, DOMAIN e \subseteq Path, NEW k \in RowKey, AwayFrom(d, e, k),
         \A q \in DOMAIN e : ~IsPrefix(RowOf(k), q)
  PROVE  /\ IsTableDb(e) /\ Phantom(e) = Phantom(d)
         /\ RowsIn(e) = [j \in DOMAIN RowsIn(d) \ {k} |-> RowsIn(d)[j]]
<1>1. DOMAIN d \subseteq Path /\ k \in Name /\ Blank \in Name \ {k}
  BY TableDb, Keys, Literals
<1>2. IsTableDb(e)
  BY <1>1, StillTableDb
<1>3. \A j \in Name \ {k} : /\ SameAt(d, e, RowOf(j))
                            /\ RowOf(j) \in DOMAIN d => Attrs(e, RowOf(j)) = Attrs(d, RowOf(j))
  BY <1>1, OthersSame
<1>4. Phantom(e) = Phantom(d)
  BY <1>1, <1>3 DEF Phantom, SameAt
<1>5. \A j \in RowKey \ {k} : j \in Name \ {k}
  BY Keys
<1>6. RowOf(k) \notin DOMAIN e
  BY <1>1, RowPaths, OwnPrefix
<1> DEFINE rowsD == [j \in {j \in RowKey : RowOf(j) \in DOMAIN d} |-> Attrs(d, RowOf(j))]
           rowsE == [j \in {j \in RowKey : RowOf(j) \in DOMAIN e} |-> Attrs(e, RowOf(j))]
<1>7. RowsIn(d) = rowsD /\ RowsIn(e) = rowsE
  BY <1>1, RowsRead
<1>8. rowsE = [j \in DOMAIN rowsD \ {k} |-> rowsD[j]]
  BY <1>3, <1>5, <1>6 DEF SameAt
<1> QED BY <1>2, <1>4, <1>7, <1>8

(* An Empty object under the empty key is no row: it only marks the table. *)
LEMMA BlankMade ==
  ASSUME NEW d, IsTableDb(d), NEW e, DOMAIN e \subseteq Path, AwayFrom(d, e, Blank),
         RowOf(Blank) \in DOMAIN e, SoundRow(e, Blank)
  PROVE  IsTableDb(e) /\ Phantom(e) = TRUE /\ RowsIn(e) = RowsIn(d)
<1>1. DOMAIN d \subseteq Path /\ Blank \in Name
  BY TableDb, Literals
<1>2. IsTableDb(e)
  BY <1>1, StillTableDb
<1>3. \A j \in Name \ {Blank} : /\ SameAt(d, e, RowOf(j))
                                /\ RowOf(j) \in DOMAIN d => Attrs(e, RowOf(j)) = Attrs(d, RowOf(j))
  BY <1>1, OthersSame
<1>5. \A j \in RowKey : j \in Name \ {Blank}
  BY Keys, Literals
<1> DEFINE rowsD == [j \in {j \in RowKey : RowOf(j) \in DOMAIN d} |-> Attrs(d, RowOf(j))]
           rowsE == [j \in {j \in RowKey : RowOf(j) \in DOMAIN e} |-> Attrs(e, RowOf(j))]
<1>6. RowsIn(d) = rowsD /\ RowsIn(e) = rowsE
  BY <1>1, RowsRead
<1>7. rowsE = rowsD
  <2>1. \A j \in RowKey : RowOf(j) \in DOMAIN e <=> RowOf(j) \in DOMAIN d
    BY <1>3, <1>5 DEF SameAt
  <2>2. {j \in RowKey : RowOf(j) \in DOMAIN e} = {j \in RowKey : RowOf(j) \in DOMAIN d}
    BY <2>1
  <2> QED BY <1>3, <1>5, <2>2
<1> QED BY <1>2, <1>6, <1>7 DEF Phantom

-----------------------------------------------------------------------------
(* The mapper of users as the table's.                                     *)

(* The mapper of users, and the mapper of the table that it comes to.      *)
MapperOf(x) == IF Users \in DOMAIN x THEN x[Users] ELSE EmptyMapper
Entry(mp, f, v) == IF mp.key[f][v] = NoKey THEN NoKey ELSE mp.key[f][v][1]
Plain(mp) == [indices |-> mp.indices, key |-> [f \in Field |-> [v \in Val |-> Entry(mp, f, v)]]]

(* A mapper's entries for rows are paths of one key, the row's.            *)
LEMMA RowPathsAreKeys ==
  /\ \A k \in RowKey : <<k>> \in RowPath /\ <<k>> # NoKey /\ <<k>>[1] = k /\ k # NoKey
  /\ \A p \in RowPath : p # NoKey /\ p[1] \in RowKey /\ p = <<p[1]>> /\ Len(p) = 1
<1>1. ASSUME NEW k \in RowKey PROVE <<k>> \in RowPath /\ <<k>> # NoKey /\ <<k>>[1] = k /\ k # NoKey /\ Len(<<k>>) = 1
  <2>1. k \in Name /\ NoKey \notin Path /\ NoKey \notin RowKey
    BY Keys
  <2>2. <<k>> \in Path
    BY <2>1, PathsOfUsers
  <2>3. <<k>> # NoKey
    BY <2>1, <2>2
  <2> QED BY <2>1, <2>3 DEF RowPath
<1>2. ASSUME NEW p \in RowPath PROVE p # NoKey /\ p[1] \in RowKey /\ p = <<p[1]>> /\ Len(p) = 1
  <2>1. PICK k \in RowKey : p = <<k>>
    BY DEF RowPath
  <2> QED BY <1>1, <2>1
<1> QED BY <1>1, <1>2

(* The empty mapper is the empty mapper of the table.                      *)
LEMMA EmptyMapperPlain ==
  EmptyMapper \in Mapper(RowPath) /\ Plain(EmptyMapper) = EmptyMapper
BY DEF EmptyMapper, Mapper, Plain, Entry

(* The table's mapper is that of users with keys for paths.                *)
LEMMA MapperInIsPlain ==
  ASSUME NEW x, IsIndex(x)
  PROVE  MapperOf(x) \in Mapper(RowPath) /\ MapperIn(x) = Plain(MapperOf(x))
<1>1. MapperOf(x) \in Mapper(RowPath)
  BY EmptyMapperPlain DEF MapperOf, IsIndex
<1> DEFINE mp == MapperOf(x)
<1>2. MapperIn(x) = [mp EXCEPT !.key = [f \in Field |-> [v \in Val |-> Entry(mp, f, v)]]]
  BY DEF MapperIn, MapperOf, Entry
<1> HIDE DEF mp
<1>3. [mp EXCEPT !.key = [f \in Field |-> [v \in Val |-> Entry(mp, f, v)]]] = Plain(mp)
  BY <1>1 DEF Plain, Mapper, mp
<1> QED BY <1>1, <1>2, <1>3 DEF mp

(* A mapper is what its indices and its entries are.                       *)
LEMMA MapperEntries ==
  ASSUME NEW mp \in Mapper(RowPath), NEW f \in Field, NEW v \in Val
  PROVE  /\ mp.key[f][v] \in RowPath \cup {NoKey} /\ mp.indices \subseteq Field
         /\ Plain(mp).indices = mp.indices /\ Plain(mp).key[f][v] = Entry(mp, f, v)
BY DEF Mapper, Plain

(* A record of indices and of entries for each is a mapper.                *)
LEMMA MapperMade ==
  ASSUME NEW I \in SUBSET Field, NEW key \in [Field -> [Val -> RowPath \cup {NoKey}]]
  PROVE  /\ [indices |-> I, key |-> key] \in Mapper(RowPath)
         /\ [indices |-> I, key |-> key].indices = I /\ [indices |-> I, key |-> key].key = key
BY DEF Mapper

(* A mapper with other entries is the record of its indices and these.     *)
LEMMA MapperExcept ==
  ASSUME NEW mp \in Mapper(RowPath), NEW key
  PROVE  [mp EXCEPT !.key = key] = [indices |-> mp.indices, key |-> key]
BY DEF Mapper

(* So is the table's mapper with other entries.                            *)
LEMMA PlainExcept ==
  ASSUME NEW mp, NEW key
  PROVE  [Plain(mp) EXCEPT !.key = key] = [indices |-> mp.indices, key |-> key]
<1> DEFINE old == [f \in Field |-> [v \in Val |-> Entry(mp, f, v)]]
<1>1. Plain(mp) = [indices |-> mp.indices, key |-> old]
  BY DEF Plain
<1> HIDE DEF old
<1> QED BY <1>1

(* Unregistering a set of one row is unregisterVal of that row.            *)
LEMMA PlainUnregister ==
  ASSUME NEW mp \in Mapper(RowPath), NEW r \in Row
  PROVE  /\ UnregisterAll(mp, {r}) \in Mapper(RowPath)
         /\ Plain(UnregisterAll(mp, {r})) = Unregister(Plain(mp), r)
<1> DEFINE Left(f, v) == IF f \in mp.indices /\ \E o \in {r} : o[f] = v THEN NoKey ELSE mp.key[f][v]
           un == UnregisterAll(mp, {r})
<1> DEFINE key == [f \in Field |-> [v \in Val |-> Left(f, v)]]
<1>1. un = [indices |-> mp.indices, key |-> key]
  <2>1. un = [mp EXCEPT !.key = key]
    BY DEF UnregisterAll
  <2> HIDE DEF un, key
  <2> QED BY <2>1, MapperExcept
<1>2. \A f \in Field, v \in Val : Left(f, v) \in RowPath \cup {NoKey}
  BY MapperEntries
<1>a. mp.indices \in SUBSET Field
  BY DEF Mapper
<1> HIDE DEF Left
<1>b. key \in [Field -> [Val -> RowPath \cup {NoKey}]] /\ \A f \in Field, v \in Val : key[f][v] = Left(f, v)
  BY <1>2
<1> HIDE DEF un, key
<1>3. un \in Mapper(RowPath) /\ un.indices = mp.indices /\ un.key = key
  BY <1>1, <1>a, <1>b, MapperMade
<1>4. ASSUME NEW f \in Field, NEW v \in Val
      PROVE  Entry(un, f, v) = IF f \in Hooked(Plain(mp), r) /\ r[f] = v THEN NoKey ELSE Plain(mp).key[f][v]
  <2>1. un.key[f][v] = IF f \in mp.indices /\ r[f] = v THEN NoKey ELSE mp.key[f][v]
    BY <1>3, <1>b DEF Left
  <2>2. f \in Hooked(Plain(mp), r) /\ r[f] = v <=> f \in mp.indices /\ r[f] = v
    BY MapperEntries, KeyMapperAssumption DEF Hooked
  <2>3. Plain(mp).key[f][v] = Entry(mp, f, v)
    BY MapperEntries
  <2> QED BY <2>1, <2>2, <2>3 DEF Entry
<1>5. Plain(un) = [indices |-> mp.indices, key |-> [f \in Field |-> [v \in Val |-> Entry(un, f, v)]]]
  BY <1>3 DEF Plain
<1>6. Unregister(Plain(mp), r) = [indices |-> mp.indices, key |-> [f \in Field |-> [v \in Val |->
         IF f \in Hooked(Plain(mp), r) /\ r[f] = v THEN NoKey ELSE Plain(mp).key[f][v]]]]
  BY PlainExcept DEF Unregister
<1>7. [f \in Field |-> [v \in Val |-> Entry(un, f, v)]]
        = [f \in Field |-> [v \in Val |->
             IF f \in Hooked(Plain(mp), r) /\ r[f] = v THEN NoKey ELSE Plain(mp).key[f][v]]]
  BY <1>4
<1> QED BY <1>3, <1>5, <1>6, <1>7 DEF un

(* A finite set with two members has more than one.                        *)
LEMMA TwoTargets ==
  ASSUME NEW S, NEW a, NEW b, a \in S, b \in S, IsFiniteSet(S), a # b
  PROVE  Cardinality(S) > 1
<1>1. Cardinality({a}) = 1 /\ IsFiniteSet({a})
  BY FS_Singleton
<1>2. {a} \subseteq S /\ {a} # S
  OBVIOUS
<1>3. Cardinality({a}) < Cardinality(S)
  BY <1>2, FS_Subset, FS_CardinalityType, FS_Singleton
<1> QED BY <1>1, <1>3

(* One row registered: when no value gets two targets, nothing clashes and *)
(* the mapper is the table's.                                              *)
LEMMA PlainRegister ==
  ASSUME NEW mp \in Mapper(RowPath), NEW r \in Row, NEW k \in RowKey,
         ~RegisterClash(mp, {<<r, <<k>>>>})
  PROVE  /\ Clashes(Plain(mp), r, k) = {}
         /\ RegisterAll(mp, {<<r, <<k>>>>}) \in Mapper(RowPath)
         /\ Plain(RegisterAll(mp, {<<r, <<k>>>>})) = Register(Plain(mp), r, k)
<1> DEFINE regs == {<<r, <<k>>>>}
           T(f, v) == Targets(mp, regs, f, v)
           own(f, v) == {mp.key[f][v]} \ {NoKey}
<1>1. ASSUME NEW f, NEW v
      PROVE  T(f, v) = own(f, v) \cup (IF r[f] = v THEN {<<k>>} ELSE {})
  <2> DEFINE one == <<r, <<k>>>>
  <2>a. one[1] = r /\ one[2] = <<k>> /\ regs = {one}
    OBVIOUS
  <2> HIDE DEF one, regs
  <2>1. {q \in regs : q[1][f] = v} = IF r[f] = v THEN regs ELSE {}
    BY <2>a
  <2>2. {q[2] : q \in {q \in regs : q[1][f] = v}} = IF r[f] = v THEN {<<k>>} ELSE {}
    BY <2>a, <2>1
  <2> QED BY <2>2 DEF Targets
<1> HIDE DEF T
<1>2. ASSUME NEW f \in mp.indices, NEW v \in Val, r[f] = v PROVE mp.key[f][v] \in {NoKey, <<k>>}
  <2> SUFFICES ASSUME mp.key[f][v] \notin {NoKey, <<k>>} PROVE FALSE
    OBVIOUS
  <2>1. T(f, v) = {mp.key[f][v], <<k>>}
    BY <1>1, <1>2
  <2>2. IsFiniteSet({mp.key[f][v], <<k>>})
    <3>1. IsFiniteSet({mp.key[f][v]})
      BY FS_Singleton
    <3>2. IsFiniteSet({mp.key[f][v]} \cup {<<k>>})
      BY <3>1, FS_AddElement
    <3>3. {mp.key[f][v]} \cup {<<k>>} = {mp.key[f][v], <<k>>}
      OBVIOUS
    <3> QED BY <3>2, <3>3
  <2>3. Cardinality(T(f, v)) > 1
    BY <2>1, <2>2, TwoTargets
  <2> QED BY <2>3 DEF RegisterClash, T
<1>3. mp.indices \subseteq Field /\ Plain(mp).indices = mp.indices
  BY DEF Mapper, Plain
<1>4. ASSUME NEW f \in mp.indices, NEW v \in Val, r[f] = v PROVE Plain(mp).key[f][v] \in {NoKey, k}
  <2>1. Plain(mp).key[f][v] = Entry(mp, f, v) /\ mp.key[f][v] \in {NoKey, <<k>>}
    BY <1>2, <1>3, <1>4, MapperEntries
  <2> QED BY <2>1, RowPathsAreKeys DEF Entry
<1>5. Clashes(Plain(mp), r, k) = {}
  <2> SUFFICES ASSUME NEW f \in Clashes(Plain(mp), r, k) PROVE FALSE
    OBVIOUS
  <2>1. f \in mp.indices /\ r[f] # NoVal /\ Plain(mp).key[f][r[f]] \notin {NoKey, k}
    BY <1>3 DEF Clashes, Hooked
  <2>2. r[f] \in Val
    BY <1>3, <2>1 DEF Row
  <2> QED BY <1>4, <2>1, <2>2
<1> DEFINE New(f, v) == IF f \in mp.indices /\ T(f, v) # {} THEN CHOOSE t \in T(f, v) : TRUE ELSE mp.key[f][v]
           reg == RegisterAll(mp, regs)
<1> DEFINE key == [f \in Field |-> [v \in Val |-> New(f, v)]]
<1>6. reg = [indices |-> mp.indices, key |-> key]
  <2>1. reg = [mp EXCEPT !.key = key]
    BY DEF RegisterAll, T
  <2> HIDE DEF reg, key
  <2> QED BY <2>1, MapperExcept
<1>7. ASSUME NEW f \in Field, NEW v \in Val
      PROVE  New(f, v) = IF f \in mp.indices /\ r[f] = v THEN <<k>> ELSE mp.key[f][v]
  <2>1. CASE f \in mp.indices /\ r[f] = v
    <3>1. T(f, v) = {<<k>>}
      BY <1>1, <1>2, <2>1
    <3> QED BY <2>1, <3>1
  <2>2. CASE f \in mp.indices /\ r[f] # v
    <3>1. T(f, v) = own(f, v)
      BY <1>1, <2>2
    <3> QED BY <2>2, <3>1
  <2>3. CASE f \notin mp.indices
    BY <2>3
  <2> QED BY <2>1, <2>2, <2>3
<1> HIDE DEF New
<1>8. reg \in Mapper(RowPath) /\ reg.indices = mp.indices /\ reg.key = key
  <2>1. \A f \in Field, v \in Val : New(f, v) \in RowPath \cup {NoKey}
    BY <1>7, MapperEntries, RowPathsAreKeys
  <2>2. key \in [Field -> [Val -> RowPath \cup {NoKey}]]
    BY <2>1
  <2> HIDE DEF reg, key
  <2> QED BY <1>3, <1>6, <2>2, MapperMade
<1>9. ASSUME NEW f \in Field, NEW v \in Val
      PROVE  Entry(reg, f, v) = IF f \in Hooked(Plain(mp), r) /\ r[f] = v THEN k ELSE Plain(mp).key[f][v]
  <2>1. reg.key[f][v] = IF f \in mp.indices /\ r[f] = v THEN <<k>> ELSE mp.key[f][v]
    <3>1. key[f][v] = New(f, v)
      OBVIOUS
    <3> HIDE DEF reg, key
    <3> QED BY <1>7, <1>8, <3>1
  <2>2. f \in Hooked(Plain(mp), r) /\ r[f] = v <=> f \in mp.indices /\ r[f] = v
    BY <1>3, KeyMapperAssumption DEF Hooked
  <2>3. Plain(mp).key[f][v] = Entry(mp, f, v)
    BY MapperEntries
  <2>4. <<k>> # NoKey /\ <<k>>[1] = k
    BY RowPathsAreKeys
  <2> HIDE DEF reg
  <2> QED BY <2>1, <2>2, <2>3, <2>4 DEF Entry
<1>10. Plain(reg) = [indices |-> mp.indices, key |-> [f \in Field |-> [v \in Val |-> Entry(reg, f, v)]]]
  <2> HIDE DEF reg
  <2> QED BY <1>8 DEF Plain
<1>11. Register(Plain(mp), r, k) = [indices |-> mp.indices, key |-> [f \in Field |-> [v \in Val |->
         IF f \in Hooked(Plain(mp), r) /\ r[f] = v THEN k ELSE Plain(mp).key[f][v]]]]
  BY PlainExcept DEF Register, WithEntries
<1> HIDE DEF reg
<1>12. Plain(reg) = Register(Plain(mp), r, k)
  BY <1>9, <1>10, <1>11
<1> QED BY <1>5, <1>8, <1>12 DEF reg

-----------------------------------------------------------------------------
(* Its objects as rows.                                                    *)

(* The index resolveIndexKey builds on first use is the table's.           *)
Objects(d) == [k \in KeysOf(d, Users) |-> Attrs(d, RowOf(k))]
ByPath(objs) == [p \in {<<k>> : k \in DOMAIN objs} |-> objs[p[1]]]

(* The objects in users are the table's rows, and others in which a mapper *)
(* sees nothing.                                                           *)
LEMMA ObjectsAndRows ==
  ASSUME NEW d, IsTableDb(d)
  PROVE  /\ DOMAIN RowsIn(d) \subseteq DOMAIN Objects(d) /\ DOMAIN RowsIn(d) \subseteq RowKey
         /\ \A k \in DOMAIN RowsIn(d) : RowsIn(d)[k] = Objects(d)[k] /\ RowsIn(d)[k] \in Row
         /\ DOMAIN Objects(d) \subseteq Name
         /\ \A k \in DOMAIN Objects(d) \ DOMAIN RowsIn(d), f \in Field : Objects(d)[k][f] = NoVal
<1>1. DOMAIN d \subseteq Path
  BY TableDb
<1>2. /\ KeysOf(d, Users) = {k \in Name : RowOf(k) \in DOMAIN d}
      /\ RowsIn(d) = [k \in {k \in RowKey : RowOf(k) \in DOMAIN d} |-> Attrs(d, RowOf(k))]
  BY <1>1, RowsRead
<1>3. Objects(d) = [k \in {k \in Name : RowOf(k) \in DOMAIN d} |-> Attrs(d, RowOf(k))]
  BY <1>2 DEF Objects
<1>4. \A k \in RowKey : k \in Name
  BY Keys
<1>5. ASSUME NEW k \in DOMAIN Objects(d) \ DOMAIN RowsIn(d), NEW f \in Field PROVE Objects(d)[k][f] = NoVal
  <2>1. k \in Name /\ RowOf(k) \in DOMAIN d /\ k \notin RowKey
    BY <1>2, <1>3
  <2>2. d[RowOf(k)] = Empty
    BY <2>1, TableDb
  <2>3. Attrs(d, RowOf(k))[f] = NoVal
    BY <2>2, Literals DEF Attrs
  <2> QED BY <1>3, <2>3
<1>6. \A k \in DOMAIN RowsIn(d) : RowsIn(d)[k] = Objects(d)[k] /\ RowsIn(d)[k] \in Row
  BY <1>2, <1>3, <1>4, AttrsAreRow
<1> QED BY <1>2, <1>3, <1>4, <1>5, <1>6

(* An index made from the objects in users is the one made from the rows.  *)
LEMMA PlainIndexed ==
  ASSUME NEW d, IsTableDb(d), NEW mp \in Mapper(RowPath), NEW f \in Field, OneToOne(Objects(d), f)
  PROVE  /\ OneToOne(RowsIn(d), f)
         /\ CreateIndex(mp, f, ByPath(Objects(d))) \in Mapper(RowPath)
         /\ Plain(CreateIndex(mp, f, ByPath(Objects(d)))) = CreateIndex(Plain(mp), f, RowsIn(d))
<1> DEFINE objs == Objects(d)
           rows == RowsIn(d)
           paths == ByPath(objs)
<1>1. /\ DOMAIN rows \subseteq DOMAIN objs /\ DOMAIN rows \subseteq RowKey
      /\ \A k \in DOMAIN rows : rows[k] = objs[k] /\ rows[k] \in Row
      /\ DOMAIN objs \subseteq Name
      /\ \A k \in DOMAIN objs \ DOMAIN rows : objs[k][f] = NoVal
  BY ObjectsAndRows
<1>2. OneToOne(objs, f)
  OBVIOUS
<1> HIDE DEF objs, rows
<1>3. OneToOne(rows, f)
  BY <1>1, <1>2 DEF OneToOne
<1>4. ASSUME NEW v \in Val
      PROVE  Holders(paths, f, v) = {<<k>> : k \in Holders(rows, f, v)}
  <2>1. ASSUME NEW p \in Holders(paths, f, v) PROVE p \in {<<k>> : k \in Holders(rows, f, v)}
    <3>1. PICK k \in DOMAIN objs : p = <<k>>
      BY <2>1 DEF Holders, ByPath
    <3>2. paths[p] = objs[k]
      BY <3>1 DEF ByPath
    <3>3. objs[k][f] = v
      BY <2>1, <3>2 DEF Holders
    <3>4. k \in DOMAIN rows /\ rows[k][f] = v
      BY <1>1, <3>3, KeyMapperAssumption
    <3> QED BY <3>1, <3>4 DEF Holders
  <2>2. ASSUME NEW k \in Holders(rows, f, v) PROVE <<k>> \in Holders(paths, f, v)
    <3>1. k \in DOMAIN objs /\ objs[k][f] = v
      BY <1>1, <2>2 DEF Holders
    <3>2. <<k>> \in DOMAIN paths /\ paths[<<k>>] = objs[k]
      BY <3>1 DEF ByPath
    <3> QED BY <3>1, <3>2 DEF Holders
  <2> QED BY <2>1, <2>2
<1>5. ASSUME NEW v \in Val, NEW k \in Holders(rows, f, v) PROVE Holders(rows, f, v) = {k} /\ k \in RowKey
  BY <1>1, <1>3, <1>5, KeyMapperAssumption DEF Holders, OneToOne
<1> DEFINE index == [v \in Val |-> IF Holders(rows, f, v) = {} THEN NoKey
                                   ELSE CHOOSE k \in Holders(rows, f, v) : TRUE]
           pathed == [v \in Val |-> IF Holders(paths, f, v) = {} THEN NoKey
                                    ELSE CHOOSE p \in Holders(paths, f, v) : TRUE]
<1>6. ASSUME NEW v \in Val
      PROVE  /\ pathed[v] \in RowPath \cup {NoKey}
             /\ index[v] = IF pathed[v] = NoKey THEN NoKey ELSE pathed[v][1]
  <2>1. CASE Holders(rows, f, v) = {}
    <3>1. Holders(paths, f, v) = {}
      BY <1>4, <2>1
    <3> QED BY <2>1, <3>1
  <2>2. CASE Holders(rows, f, v) # {}
    <3>1. PICK k \in Holders(rows, f, v) : TRUE
      BY <2>2
    <3>2. Holders(rows, f, v) = {k} /\ k \in RowKey
      BY <1>5
    <3>3. Holders(paths, f, v) = {<<k>>}
      BY <1>4, <3>2
    <3>4. index[v] = k /\ pathed[v] = <<k>>
      BY <3>2, <3>3
    <3> HIDE DEF index, pathed
    <3> QED BY <3>2, <3>4, RowPathsAreKeys
  <2> QED BY <2>1, <2>2
<1>7. pathed = [v \in Val |-> pathed[v]] /\ index = [v \in Val |-> index[v]]
  OBVIOUS
<1> DEFINE new == CreateIndex(mp, f, paths)
           key == [mp.key EXCEPT ![f] = pathed]
<1>8. /\ new = [indices |-> mp.indices \cup {f}, key |-> key]
      /\ CreateIndex(Plain(mp), f, rows) =
           [indices |-> Plain(mp).indices \cup {f}, key |-> [Plain(mp).key EXCEPT ![f] = index]]
  BY DEF CreateIndex, WithIndex
<1> HIDE DEF index, pathed, new, paths
<1>9. mp.key \in [Field -> [Val -> RowPath \cup {NoKey}]] /\ mp.indices \subseteq Field
  BY DEF Mapper
<1>10. pathed \in [Val -> RowPath \cup {NoKey}]
  BY <1>6, <1>7
<1>11. /\ key \in [Field -> [Val -> RowPath \cup {NoKey}]]
       /\ \A g \in Field : key[g] = IF g = f THEN pathed ELSE mp.key[g]
  BY <1>9, <1>10
<1> HIDE DEF key
<1>12. new \in Mapper(RowPath) /\ new.indices = mp.indices \cup {f} /\ new.key = key
  <2> DEFINE I == mp.indices \cup {f}
  <2>1. I \in SUBSET Field /\ new = [indices |-> I, key |-> key]
    BY <1>8, <1>9
  <2> HIDE DEF I
  <2>2. new \in Mapper(RowPath) /\ new.indices = I /\ new.key = key
    BY <1>11, <2>1, MapperMade
  <2> QED BY <2>2 DEF I
<1>13. ASSUME NEW g \in Field, NEW v \in Val
       PROVE  Entry(new, g, v) = IF g = f THEN index[v] ELSE Entry(mp, g, v)
  BY <1>6, <1>11, <1>12 DEF Entry
<1>14. Plain(new) = [indices |-> mp.indices \cup {f},
                     key |-> [g \in Field |-> [v \in Val |-> Entry(new, g, v)]]]
  BY <1>12 DEF Plain
<1>15. [Plain(mp).key EXCEPT ![f] = index] = [g \in Field |-> [v \in Val |-> Entry(new, g, v)]]
  <2>1. Plain(mp).key = [g \in Field |-> [v \in Val |-> Entry(mp, g, v)]]
    BY DEF Plain
  <2> DEFINE old == [g \in Field |-> [v \in Val |-> Entry(mp, g, v)]]
             now == [g \in Field |-> [v \in Val |-> Entry(new, g, v)]]
  <2>2. \A g \in Field : now[g] = IF g = f THEN index ELSE old[g]
    <3> TAKE g \in Field
    <3>1. CASE g = f
      <4>1. [v \in Val |-> Entry(new, g, v)] = [v \in Val |-> index[v]]
        BY <1>13, <3>1
      <4> QED BY <1>7, <3>1, <4>1
    <3>2. CASE g # f
      <4>1. [v \in Val |-> Entry(new, g, v)] = [v \in Val |-> Entry(mp, g, v)]
        BY <1>13, <3>2
      <4> QED BY <3>2, <4>1
    <3> QED BY <3>1, <3>2
  <2>3. DOMAIN now = Field /\ DOMAIN old = Field /\ now = [g \in Field |-> now[g]] /\ old = [g \in Field |-> old[g]]
    OBVIOUS
  <2> HIDE DEF old, now
  <2>4. [old EXCEPT ![f] = index] = now
    BY <2>2, <2>3
  <2> QED BY <2>1, <2>4 DEF old, now
<1>16. Plain(mp).indices = mp.indices
  BY DEF Plain
<1> QED BY <1>3, <1>8, <1>12, <1>14, <1>15, <1>16 DEF new, rows, objs, paths

-----------------------------------------------------------------------------
(* The index a lookup builds,                                              *)

(* A key "f:v" below users: the index on f is there or is built, unless    *)
(* two rows share a value.                                                 *)
Ready(d, x, f) == HasIndex(MapperOf(x), f) \/ OneToOne(Objects(d), f)
IndexedBy(d, x, f) ==
  IF HasIndex(MapperOf(x), f) THEN x
  ELSE [n \in {Users} |-> CreateIndex(MapperOf(x), f, ByPath(Objects(d)))]

(* After resolveIndexKey, users has the index the table's Indexed gives.   *)
LEMMA IndexedByIsIndex ==
  ASSUME NEW d, IsTableDb(d), NEW x, IsIndex(x), NEW f \in Field, Ready(d, x, f)
  PROVE  /\ IsIndex(IndexedBy(d, x, f))
         /\ MapperIn(IndexedBy(d, x, f)) =
              IF HasIndex(MapperIn(x), f) THEN MapperIn(x) ELSE CreateIndex(MapperIn(x), f, RowsIn(d))
         /\ HasIndex(MapperIn(x), f) \/ OneToOne(RowsIn(d), f)
<1>1. MapperOf(x) \in Mapper(RowPath) /\ MapperIn(x) = Plain(MapperOf(x))
  BY MapperInIsPlain
<1>2. HasIndex(MapperIn(x), f) <=> HasIndex(MapperOf(x), f)
  BY <1>1 DEF HasIndex, Plain
<1>3. CASE HasIndex(MapperOf(x), f)
  BY <1>2, <1>3 DEF IndexedBy
<1>4. CASE ~HasIndex(MapperOf(x), f)
  <2> DEFINE new == CreateIndex(MapperOf(x), f, ByPath(Objects(d)))
             y == [n \in {Users} |-> new]
  <2>1. IndexedBy(d, x, f) = y /\ OneToOne(Objects(d), f)
    BY <1>4 DEF IndexedBy, Ready
  <2>2. new \in Mapper(RowPath) /\ Plain(new) = CreateIndex(Plain(MapperOf(x)), f, RowsIn(d))
        /\ OneToOne(RowsIn(d), f)
    BY <1>1, <2>1, PlainIndexed
  <2> HIDE DEF new
  <2>3. IsIndex(y) /\ MapperOf(y) = new
    BY <2>2 DEF IsIndex, MapperOf
  <2> HIDE DEF y
  <2>4. MapperIn(y) = Plain(new)
    BY <2>3, MapperInIsPlain
  <2> QED BY <1>1, <1>2, <1>4, <2>1, <2>2, <2>3, <2>4
<1> QED BY <1>3, <1>4

(* The nodes on the way to users are the root's and its own.               *)
LEMMA PrefixesOfUsers == Prefixes(Users) = {<<>>, Users}
<1>1. Users \in Path /\ Len(Users) = 1
  BY PathsOfUsers
<1>2. Prefixes(Users) = {SubSeq(Users, 1, l) : l \in 0 .. 1}
  BY <1>1 DEF Prefixes
<1>3. SubSeq(Users, 1, 0) = <<>> /\ SubSeq(Users, 1, 1) = Users
  BY <1>1 DEF Path
<1>4. {SubSeq(Users, 1, l) : l \in 0 .. 1} = {SubSeq(Users, 1, 0), SubSeq(Users, 1, 1)}
  BY \A l \in 0 .. 1 : l = 0 \/ l = 1
<1> QED BY <1>2, <1>3, <1>4

(* resolveIndexKey at users builds the index, or throws when two objects   *)
(* share a value.                                                          *)
LEMMA ResolveUsers ==
  ASSUME NEW d, IsTableDb(d), NEW x, IsIndex(x), NEW f \in Field
  PROVE  /\ Ready(d, x, f) => Resolve(Walked(d, x, AtUsers, Going), f) = M(d, IndexedBy(d, x, f))
         /\ ~Ready(d, x, f) => Resolve(Walked(d, x, AtUsers, Going), f).fault = "throw"
<1> DEFINE t == Walked(d, x, AtUsers, Going)
           both == NodesOf(x) \cup {<<>>, Users}
           m1 == [M(d, x) EXCEPT !.nodes = both]
<1>1. Location(AtUsers) = Users /\ Last(AtUsers).obj = Users /\ Users # NoObj
  BY PlacesOfUsers, Keys, PathsOfUsers DEF Leads
<1>2. t.m = M(d, x) /\ t.frames = AtUsers /\ M(d, x).nodes = NodesOf(x)
  <2>1. t.m = M(d, x) /\ t.frames = AtUsers
    BY DEF Walked
  <2>2. M(d, x).nodes = NodesOf(x)
    BY DEF M, Machine
  <2> QED BY <2>1, <2>2
<1>3. Resolve(t, f) = IF HasIndex(MapperAt(m1, Users), f) THEN m1 ELSE BuildIndex(m1, Users, Users, f)
  BY <1>1, <1>2, PrefixesOfUsers DEF Resolve
<1>4. m1 = [db |-> d, nodes |-> both, mappers |-> x, mappings |-> <<>>,
            fault |-> "none"]
  <2> HIDE DEF both
  <2> QED BY DEF M, Machine
<1> HIDE DEF t, m1, both
<1>5. m1.db = d /\ m1.mappers = x /\ m1.fault = "none"
  BY <1>4
<1>6. MapperAt(m1, Users) = MapperOf(x)
  BY <1>5 DEF MapperAt, MapperOf
<1>7. CASE HasIndex(MapperOf(x), f)
  <2>1. Users \in DOMAIN x
    BY <1>7 DEF HasIndex, MapperOf, EmptyMapper
  <2>2. both = NodesOf(x)
    BY <2>1 DEF NodesOf, both
  <2>3. m1 = M(d, x)
    BY <1>4, <2>2 DEF M, Machine
  <2> QED BY <1>3, <1>6, <1>7, <2>3 DEF Ready, IndexedBy, t
<1>8. CASE ~HasIndex(MapperOf(x), f)
  <2> DEFINE rows == [k \in (IF Indexable(m1.db, Users) THEN KeysOf(m1.db, Users) ELSE {})
                        |-> Attrs(m1.db, Append(Users, k))]
             new == CreateIndex(MapperAt(m1, Users), f, [p \in {<<k>> : k \in DOMAIN rows} |-> rows[p[1]]])
  <2>1. BuildIndex(m1, Users, Users, f) =
          IF OneToOne(rows, f) THEN SetMapper(m1, Users, new) ELSE Faulted(m1, "throw")
    BY <1>1 DEF BuildIndex
  <2>2. d[Users] = Dict
    BY TableDb
  <2>3. rows = Objects(d)
    BY <1>5, <2>2 DEF Objects, RowOf, Child, Indexable
  <2> HIDE DEF rows
  <2>4. new = CreateIndex(MapperOf(x), f, ByPath(Objects(d)))
    BY <1>6, <2>3 DEF ByPath
  <2> HIDE DEF new
  <2>5. SetMapper(m1, Users, new) = M(d, [n \in {Users} |-> new])
    <3>1. [n \in DOMAIN m1.mappers \cup {Users} |-> IF n = Users THEN new ELSE m1.mappers[n]]
            = [n \in {Users} |-> new]
      BY <1>5 DEF IsIndex
    <3>2. SetMapper(m1, Users, new) = [m1 EXCEPT !.mappers = [n \in {Users} |-> new]]
      BY <3>1 DEF SetMapper
    <3>3. both = NodesOf([n \in {Users} |-> new])
      BY DEF NodesOf, IsIndex, both
    <3> QED BY <1>4, <3>2, <3>3 DEF M, Machine
  <2>6. Faulted(m1, "throw").fault = "throw"
    BY <1>4 DEF Faulted
  <2> QED BY <1>3, <1>6, <1>8, <2>1, <2>3, <2>4, <2>5, <2>6 DEF Ready, IndexedBy, t
<1> QED BY <1>7, <1>8

-----------------------------------------------------------------------------
(* and where it leads.                                                     *)

(* The key that a lookup goes on with: Blank when the index has none.      *)
LookKey(y, f, v) == IF Entry(MapperOf(y), f, v) = NoKey THEN Blank ELSE Entry(MapperOf(y), f, v)

(* The key a lookup goes on with is the table's, or the empty key when it  *)
(* finds nothing.                                                          *)
LEMMA LookKeys ==
  ASSUME NEW y, IsIndex(y), NEW f \in Field, NEW v \in Val
  PROVE  /\ LookKey(y, f, v) \in RowKey \cup {Blank} /\ LookKey(y, f, v) \in Name
         /\ Get(MapperIn(y), f, v) = IF LookKey(y, f, v) = Blank THEN NoKey ELSE LookKey(y, f, v)
<1> DEFINE mp == MapperOf(y)
           e == Entry(mp, f, v)
<1>1. mp \in Mapper(RowPath) /\ MapperIn(y) = Plain(mp)
  BY MapperInIsPlain
<1> HIDE DEF mp
<1>2. mp.key[f][v] \in RowPath \cup {NoKey} /\ Plain(mp).key[f][v] = e
  BY <1>1, MapperEntries
<1>3. e \in RowKey \cup {NoKey}
  BY <1>2, RowPathsAreKeys DEF Entry
<1>4. Get(MapperIn(y), f, v) = e
  BY <1>1, <1>2 DEF Get
<1>5. Blank \in Name /\ Blank \notin RowKey /\ NoKey \notin RowKey /\ \A k \in RowKey : k \in Name
  BY Literals, Keys
<1>6. LookKey(y, f, v) = IF e = NoKey THEN Blank ELSE e
  BY DEF LookKey, mp
<1> HIDE DEF e
<1> QED BY <1>3, <1>4, <1>5, <1>6

(* From users an entry is followed by its key.                             *)
LEMMA FollowUsers ==
  ASSUME NEW d, NEW y, IsIndex(y), NEW f \in Field, NEW v \in Val, NEW create
  PROVE  Follow(Walked(d, y, AtUsers, Going), f, v, create)
           = Descend(Walked(d, y, AtUsers, Going), LookKey(y, f, v), create)
<1> DEFINE t == Walked(d, y, AtUsers, Going)
           mp == MapperOf(y)
           target == mp.key[f][v]
<1>1. Location(AtUsers) = Users
  BY PlacesOfUsers DEF Leads
<1>2. t.m = M(d, y) /\ t.frames = AtUsers
  BY DEF Walked
<1>3. t.m.fault = "none" /\ t.m.mappers = y
  BY <1>2 DEF M, Machine
<1> HIDE DEF t
<1>4. MapperAt(t.m, Location(t.frames)) = mp
  BY <1>1, <1>2, <1>3 DEF MapperAt, MapperOf
<1>5. mp \in Mapper(RowPath)
  BY MapperInIsPlain
<1> HIDE DEF mp
<1>6. target \in RowPath \cup {NoKey}
  BY <1>5, MapperEntries
<1>7. Follow(t, f, v, create) =
        IF target # NoKey /\ Len(target) > 1 THEN DescendAbsolute(t, target, create)
        ELSE Descend(t, IF target = NoKey THEN "" ELSE target[1], create)
  BY <1>3, <1>4 DEF Follow, Get
<1>8. LookKey(y, f, v) = IF target = NoKey THEN "" ELSE target[1]
  <2>1. target # NoKey => target[1] # NoKey
    BY <1>6, RowPathsAreKeys
  <2> QED BY <2>1 DEF LookKey, Entry, Blank, mp
<1> HIDE DEF target
<1>9. ~(target # NoKey /\ Len(target) > 1)
  <2>1. target # NoKey => Len(target) = 1
    BY <1>6, RowPathsAreKeys
  <2> DEFINE n == Len(target)
  <2>2. target # NoKey => n = 1
    BY <2>1
  <2> HIDE DEF n
  <2>3. ~(target # NoKey /\ n > 1)
    BY <2>2
  <2> QED BY <2>3 DEF n
<1> QED BY <1>7, <1>8, <1>9 DEF t

(* A traversal by a field descends from users by the key its index gives,  *)
(* or throws when the index cannot be built.                               *)
LEMMA WalkByField ==
  ASSUME NEW d, IsTableDb(d), NEW x, IsIndex(x), NEW f \in Field, NEW v \in Val, NEW create \in BOOLEAN
  PROVE  LET y == IndexedBy(d, x, f)
         IN /\ Ready(d, x, f) => TraverseTo(M(d, x), AddressBy(f, v), create)
                                   = Descend(Walked(d, y, AtUsers, Going), LookKey(y, f, v), create)
            /\ ~Ready(d, x, f) => TraverseTo(M(d, x), AddressBy(f, v), create).m.fault = "throw"
<1> DEFINE t == Walked(d, x, AtUsers, Going)
           y == IndexedBy(d, x, f)
<1>1. TraverseTo(M(d, x), AddressBy(f, v), create)
        = Step(TraverseTo(M(d, x), <<Users>>, create), <<f, v>>, create)
  BY TwoKeys DEF AddressBy
<1>2. TraverseTo(M(d, x), AddressBy(f, v), create) = Step(t, <<f, v>>, create)
  BY <1>1, WalkToUsers
<1>3. Step(t, <<f, v>>, create) = StepBy(t, f, v, create)
  <2>1. t.stop = FALSE /\ t.m.fault = "none"
    BY DEF Walked, M, Machine, Going
  <2> HIDE DEF t
  <2> QED BY <2>1, FieldStep
<1>4. Last(AtUsers).obj # NoObj
  BY PlacesOfUsers, Keys, PathsOfUsers DEF Leads
<1>5. StepBy(t, f, v, create) = Follow([t EXCEPT !.m = Resolve(t, f)], f, v, create)
  <2>1. t.frames = AtUsers
    BY DEF Walked
  <2> HIDE DEF t
  <2> QED BY <1>4, <2>1 DEF StepBy
<1>6. \A m : [t EXCEPT !.m = m] = [m |-> m, frames |-> AtUsers, stop |-> Going]
  BY DEF Walked
<1>7. ASSUME Ready(d, x, f)
      PROVE  TraverseTo(M(d, x), AddressBy(f, v), create)
               = Descend(Walked(d, y, AtUsers, Going), LookKey(y, f, v), create)
  <2>1. Resolve(t, f) = M(d, y) /\ IsIndex(y)
    BY <1>7, ResolveUsers, IndexedByIsIndex
  <2>2. [t EXCEPT !.m = M(d, y)] = Walked(d, y, AtUsers, Going)
    BY <1>6 DEF Walked
  <2> HIDE DEF t, y
  <2>3. Follow(Walked(d, y, AtUsers, Going), f, v, create)
          = Descend(Walked(d, y, AtUsers, Going), LookKey(y, f, v), create)
    BY <2>1, FollowUsers
  <2> QED BY <1>2, <1>3, <1>5, <2>1, <2>2, <2>3
<1>8. ASSUME ~Ready(d, x, f)
      PROVE  TraverseTo(M(d, x), AddressBy(f, v), create).m.fault = "throw"
  <2> DEFINE s == [t EXCEPT !.m = Resolve(t, f)]
  <2>1. s.m = Resolve(t, f)
    BY <1>6
  <2>2. s.m.fault = "throw"
    BY <1>8, <2>1, ResolveUsers
  <2> HIDE DEF s
  <2>3. Follow(s, f, v, create) = s
    BY <2>2 DEF Follow
  <2> QED BY <1>2, <1>3, <1>5, <2>2, <2>3 DEF s
<1> QED BY <1>7, <1>8

-----------------------------------------------------------------------------
(* Objects assigned at or below a row.                                     *)

(* A path below one below a third is below the third.                      *)
LEMMA PrefixTransitive ==
  ASSUME NEW p \in Path, NEW q \in Path, NEW r \in Path, IsPrefix(p, q), IsPrefix(q, r)
  PROVE  IsPrefix(p, r)
<1>1. Len(p) <= Len(q) /\ \A i \in 1 .. Len(p) : p[i] = q[i]
  BY PrefixPointwise
<1>2. Len(q) <= Len(r) /\ \A i \in 1 .. Len(q) : q[i] = r[i]
  BY PrefixPointwise
<1>3. Len(p) \in Nat /\ Len(q) \in Nat /\ Len(r) \in Nat
  BY DEF Path
<1>4. Len(p) <= Len(r) /\ \A i \in 1 .. Len(p) : p[i] = r[i]
  BY <1>1, <1>2, <1>3
<1> QED BY <1>4, PrefixPointwise

(* A path at or below another of its length is that path.                  *)
LEMMA PrefixAntisymmetric ==
  ASSUME NEW p \in Path, NEW q \in Path, IsPrefix(p, q), Len(p) = Len(q)
  PROVE  p = q
BY PrefixPointwise DEF Path

(* Fields and their row. *)
LEMMA FieldsApart ==
  ASSUME NEW k \in Name, NEW f \in Name
  PROVE  /\ ~IsPrefix(FieldOf(k, f), RowOf(k)) /\ ~IsPrefix(FieldOf(k, f), Users)
         /\ \A g \in Name \ {f} : ~IsPrefix(FieldOf(k, f), FieldOf(k, g))
<1>1. RowOf(k) \in Path /\ IsPrefix(Users, RowOf(k))
  BY RowPaths
<1>2. Len(RowOf(k)) \in Nat
  BY <1>1 DEF Path
<1>3. \A g \in Name : FieldOf(k, g) \in Path /\ Len(FieldOf(k, g)) = Len(RowOf(k)) + 1
  BY <1>1, AppendedPath DEF FieldOf, Child
<1>4. ~IsPrefix(FieldOf(k, f), RowOf(k))
  <2>1. IsPrefix(FieldOf(k, f), RowOf(k)) => Len(FieldOf(k, f)) <= Len(RowOf(k))
    BY <1>1, <1>3, PrefixPointwise
  <2> QED BY <1>2, <1>3, <2>1
<1>5. ~IsPrefix(FieldOf(k, f), Users)
  BY <1>1, <1>3, <1>4, PrefixTransitive, PathsOfUsers
<1>6. ASSUME NEW g \in Name \ {f} PROVE ~IsPrefix(FieldOf(k, f), FieldOf(k, g))
  <2>1. FieldOf(k, f) # FieldOf(k, g)
    BY FieldPaths
  <2>2. Len(FieldOf(k, f)) = Len(FieldOf(k, g)) /\ FieldOf(k, f) \in Path /\ FieldOf(k, g) \in Path
    BY <1>3
  <2> QED BY <2>1, <2>2, PrefixAntisymmetric
<1> QED BY <1>4, <1>5, <1>6

(* An object without children shows a mapper nothing.                      *)
LEMMA LeafObject ==
  ASSUME NEW kind
  PROVE  /\ DOMAIN Leaf(kind) = {<<>>} /\ Leaf(kind)[<<>>] = kind /\ IsObject(Leaf(kind))
         /\ \A f \in Field : Attrs(Leaf(kind), <<>>)[f] = NoVal
<1>1. DOMAIN Leaf(kind) = {<<>>} /\ Leaf(kind)[<<>>] = kind
  BY DEF Leaf
<1>2. IsObject(Leaf(kind))
  BY <1>1, PathsOfUsers DEF IsObject
<1>3. ASSUME NEW f \in Field PROVE Append(<<>>, f) \notin DOMAIN Leaf(kind)
  <2>1. f \in Name
    BY RowKeyAssumption
  <2>2. Append(<<>>, f) # <<>>
    BY <2>1
  <2> QED BY <1>1, <2>2
<1> QED BY <1>1, <1>2, <1>3 DEF Attrs

(* An object assigned at or below a row is a change at that row.           *)
LEMMA GraftAway ==
  ASSUME NEW d, DOMAIN d \subseteq Path, NEW k \in Name, NEW p \in Path, IsPrefix(RowOf(k), p),
         NEW value, IsObject(value)
  PROVE  /\ DOMAIN Graft(d, p, value) \subseteq Path /\ AwayFrom(d, Graft(d, p, value), k)
         /\ p \in DOMAIN Graft(d, p, value) /\ Graft(d, p, value)[p] = value[<<>>]
<1> DEFINE e == Graft(d, p, value)
<1>1. DOMAIN value \subseteq Path /\ <<>> \in DOMAIN value
  BY DEF IsObject
<1>2. /\ DOMAIN e \subseteq Path
      /\ \A q \in Path : IsPrefix(p, q) =>
           /\ q \in DOMAIN e <=> Below(p, q) \in DOMAIN value
           /\ Below(p, q) \in DOMAIN value => e[q] = value[Below(p, q)]
      /\ \A q \in Path : ~IsPrefix(p, q) =>
           /\ q \in DOMAIN e <=> q \in DOMAIN d
           /\ q \in DOMAIN d => e[q] = d[q]
  BY <1>1, Grafted
<1> HIDE DEF e
<1>3. RowOf(k) \in Path
  BY RowPaths
<1>4. AwayFrom(d, e, k)
  <2>1. ASSUME NEW q \in Path, ~IsPrefix(RowOf(k), q) PROVE ~IsPrefix(p, q)
    BY <1>3, <2>1, PrefixTransitive
  <2> QED BY <1>2, <2>1 DEF AwayFrom, SameAt
<1>5. p \in DOMAIN e /\ e[p] = value[<<>>]
  BY <1>1, <1>2, OwnPrefix
<1> QED BY <1>2, <1>4, <1>5 DEF e

(* One field of a dict written. *)
Seen(value) == IF value[<<>>] \in Val THEN value[<<>>] ELSE NoVal

(* An object assigned to a field changes what a mapper sees of that field  *)
(* alone: the string, or none.                                             *)
LEMMA FieldGrafted ==
  ASSUME NEW h, DOMAIN h \subseteq Path, NEW k \in Name, RowOf(k) \in DOMAIN h, h[RowOf(k)] = Dict,
         NEW f \in Name, NEW value, IsObject(value)
  PROVE  LET e == Graft(h, FieldOf(k, f), value)
         IN /\ DOMAIN e \subseteq Path /\ AwayFrom(h, e, k)
            /\ RowOf(k) \in DOMAIN e /\ e[RowOf(k)] = Dict
            /\ FieldOf(k, f) \in DOMAIN e /\ e[FieldOf(k, f)] = value[<<>>]
            /\ \A g \in Field : Attrs(e, RowOf(k))[g] = IF g = f THEN Seen(value) ELSE Attrs(h, RowOf(k))[g]
<1> DEFINE e == Graft(h, FieldOf(k, f), value)
<1>1. DOMAIN value \subseteq Path /\ FieldOf(k, f) \in Path /\ IsPrefix(RowOf(k), FieldOf(k, f)) /\ RowOf(k) \in Path
  BY FieldPaths, RowPaths DEF IsObject
<1>2. /\ DOMAIN e \subseteq Path /\ AwayFrom(h, e, k)
      /\ FieldOf(k, f) \in DOMAIN e /\ e[FieldOf(k, f)] = value[<<>>]
  BY <1>1, GraftAway
<1>3. \A q \in Path : ~IsPrefix(FieldOf(k, f), q) => SameAt(h, e, q)
  BY <1>1, Grafted DEF SameAt
<1> HIDE DEF e
<1>4. RowOf(k) \in DOMAIN e /\ e[RowOf(k)] = Dict
  BY <1>1, <1>3, FieldsApart DEF SameAt
<1>5. ASSUME NEW g \in Field
      PROVE  Attrs(e, RowOf(k))[g] = IF g = f THEN Seen(value) ELSE Attrs(h, RowOf(k))[g]
  <2>1. g \in Name /\ FieldOf(k, g) \in Path
    BY RowKeyAssumption, FieldPaths
  <2>2. Append(RowOf(k), g) = FieldOf(k, g)
    BY DEF FieldOf, Child
  <2>3. Attrs(e, RowOf(k))[g] = IF FieldOf(k, g) \in DOMAIN e /\ e[FieldOf(k, g)] \in Val
                                THEN e[FieldOf(k, g)] ELSE NoVal
    BY <1>4, <2>2 DEF Attrs
  <2>4. Attrs(h, RowOf(k))[g] = IF FieldOf(k, g) \in DOMAIN h /\ h[FieldOf(k, g)] \in Val
                                THEN h[FieldOf(k, g)] ELSE NoVal
    BY <2>2 DEF Attrs
  <2>5. CASE g = f
    BY <1>2, <2>3, <2>5 DEF Seen
  <2>6. CASE g # f
    <3>1. SameAt(h, e, FieldOf(k, g))
      BY <1>3, <2>1, <2>6, FieldsApart
    <3> QED BY <2>3, <2>4, <2>6, <3>1 DEF SameAt
  <2> QED BY <2>5, <2>6
<1> QED BY <1>2, <1>4, <1>5 DEF e

-----------------------------------------------------------------------------
(* Traversals to a field.                                                  *)

(* Two changes at one row are a change at that row.                        *)
LEMMA AwayTransitive ==
  ASSUME NEW d, NEW h, NEW e, NEW k, AwayFrom(d, h, k), AwayFrom(h, e, k)
  PROVE  AwayFrom(d, e, k)
BY DEF AwayFrom, SameAt

(* No change is a change at any row.                                       *)
LEMMA AwaySelf ==
  ASSUME NEW d, NEW k
  PROVE  AwayFrom(d, d, k)
BY DEF AwayFrom, SameAt

(* The frames that lead to a row and to a field of it.                     *)
LEMMA FramesOfRow ==
  ASSUME NEW k \in Name, NEW o \in Path \cup {NoObj}
  PROVE  /\ Leads(AtRow(k, o), RowOf(k), o) /\ Last(AtRow(k, o)).key = k /\ Last(AtRow(k, o)).obj = o
         /\ Location(AtRow(k, o)) = RowOf(k)
         /\ Deep(AtRow(k, o)) /\ Above(AtRow(k, o)) = Users
<1>1. Leads(AtUsers, Users, Users)
  BY PlacesOfUsers
<1> DEFINE frames == AtUsers
<1> HIDE DEF frames
<1>2. /\ Leads(To(frames, k, o), Child(Users, k), o)
      /\ Last(To(frames, k, o)).key = k
      /\ Deep(To(frames, k, o)) /\ Above(To(frames, k, o)) = Users
  BY <1>1, LeadsOn DEF frames
<1>3. AtRow(k, o) = To(frames, k, o) /\ Child(Users, k) = RowOf(k)
  BY DEF AtRow, frames, RowOf
<1>4. Leads(AtRow(k, o), RowOf(k), o)
  BY <1>2, <1>3
<1> QED BY <1>2, <1>3, <1>4 DEF Leads

(* The frames at a field lead to its path, from the row.                   *)
LEMMA FramesOfField ==
  ASSUME NEW k \in Name, NEW f \in Name, NEW o \in Path \cup {NoObj}, NEW r \in Path \cup {NoObj}
  PROVE  /\ Last(AtField(k, f, o, r)).key = f /\ Last(AtField(k, f, o, r)).obj = r
         /\ Location(AtField(k, f, o, r)) = FieldOf(k, f)
         /\ Deep(AtField(k, f, o, r)) /\ Above(AtField(k, f, o, r)) = o
<1> DEFINE frames == AtRow(k, o)
<1>1. Leads(frames, RowOf(k), o)
  BY FramesOfRow
<1> HIDE DEF frames
<1>2. /\ Leads(To(frames, f, r), Child(RowOf(k), f), r)
      /\ Last(To(frames, f, r)).key = f
      /\ Deep(To(frames, f, r)) /\ Above(To(frames, f, r)) = o
  BY <1>1, LeadsOn
<1>3. AtField(k, f, o, r) = To(frames, f, r) /\ Child(RowOf(k), f) = FieldOf(k, f)
  BY DEF AtField, frames, FieldOf
<1> QED BY <1>2, <1>3 DEF Leads

(* A traversal to a field descends from its row by the field.              *)
LEMMA OneKeyOn ==
  ASSUME NEW d, NEW x, IsIndex(x), NEW k \in RowKey, NEW f \in Written, NEW create \in BOOLEAN,
         NEW e, NEW o, TraverseTo(M(d, x), AddressOfRow(k), create) = Walked(e, x, AtRow(k, o), Going)
  PROVE  TraverseTo(M(d, x), AddressOfField(k, f), create) = Descend(Walked(e, x, AtRow(k, o), Going), f, create)
<1> DEFINE t == Walked(e, x, AtRow(k, o), Going)
<1>1. TraverseTo(M(d, x), AddressOfField(k, f), create)
        = Step(TraverseTo(M(d, x), AddressOfRow(k), create), <<f>>, create)
  BY ThreeKeys DEF AddressOfField, AddressOfRow
<1>2. t.stop = FALSE /\ t.m.fault = "none" /\ f # "---"
  BY AtIsReady, Keys
<1> HIDE DEF t
<1>3. Step(t, <<f>>, create) = Descend(t, f, create)
  BY <1>2, PlainStep
<1> QED BY <1>1, <1>3 DEF t

(* The document in which the field f of row k can be written.              *)
FieldMade(d, e, k, f) ==
  /\ DOMAIN e \subseteq Path /\ AwayFrom(d, e, k)
  /\ RowOf(k) \in DOMAIN e /\ e[RowOf(k)] = Dict /\ FieldOf(k, f) \in DOMAIN e
  /\ \A g \in Field \ {f} :
       Attrs(e, RowOf(k))[g] = IF RowOf(k) \in DOMAIN d THEN Attrs(d, RowOf(k))[g] ELSE NoVal

(* From a row that is, or was just made, an object other than a dict.      *)
LEMMA ScalarToDict ==
  ASSUME NEW d, DOMAIN d \subseteq Path, NEW h, DOMAIN h \subseteq Path, NEW x, IsIndex(x),
         NEW k \in RowKey, NEW f \in Written, AwayFrom(d, h, k),
         RowOf(k) \in DOMAIN h, h[RowOf(k)] \notin {Dict, List},
         RowOf(k) \in DOMAIN d => d[RowOf(k)] # Dict,
         NEW create \in BOOLEAN, Makes(create)
  PROVE  \E e : /\ Descend(Walked(h, x, AtRow(k, RowOf(k)), Going), f, create)
                     = Walked(e, x, AtField(k, f, RowOf(k), FieldOf(k, f)), Going)
                /\ FieldMade(d, e, k, f)
<1> DEFINE h1 == Graft(h, RowOf(k), Leaf(Dict))
           e == Graft(h1, FieldOf(k, f), Leaf(Empty))
           row == RowOf(k)
           frames == AtRow(k, row)
<1>1. k \in Name /\ f \in Name /\ Halt(f) = Going /\ row \in Path
  BY Keys, RowPaths DEF Halt, Going
<1>2. Last(frames).obj = row /\ Location(frames) = row /\ Child(row, f) = FieldOf(k, f)
  BY <1>1, FramesOfRow DEF FieldOf
<1>3. Child(Location(frames), f) \notin NodesOf(x)
  BY <1>1, <1>2, NoNodeBelow
<1> HIDE DEF row, frames
<1>4. Descend(Walked(h, x, frames, Going), f, create)
        = Walked(Graft(Graft(h, row, Leaf(Dict)), Child(row, f), Leaf(Empty)), x,
             To(frames, f, Child(row, f)), Halt(f))
  <2>1. row \in DOMAIN h /\ h[row] \notin {Dict, List}
    BY DEF row
  <2> QED BY <1>1, <1>2, <1>3, <2>1, FromScalar
<1>5. Descend(Walked(h, x, AtRow(k, RowOf(k)), Going), f, create)
        = Walked(e, x, AtField(k, f, RowOf(k), FieldOf(k, f)), Going)
  BY <1>1, <1>2, <1>4 DEF frames, row, AtField
<1>6. /\ DOMAIN h1 \subseteq Path /\ AwayFrom(h, h1, k) /\ RowOf(k) \in DOMAIN h1 /\ h1[RowOf(k)] = Dict
  <2>1. IsPrefix(RowOf(k), RowOf(k)) /\ RowOf(k) \in Path
    BY <1>1, OwnPrefix, RowPaths
  <2> QED BY <1>1, <2>1, LeafObject, GraftAway
<1>7. \A g \in Field : Attrs(h1, RowOf(k))[g] = NoVal
  <2>1. Attrs(h1, RowOf(k)) = Attrs(Leaf(Dict), <<>>)
    BY <1>1, LeafObject, AttrsOfGraft DEF row
  <2> QED BY <2>1, LeafObject
<1> HIDE DEF h1
<1>8. /\ DOMAIN e \subseteq Path /\ AwayFrom(h1, e, k)
      /\ RowOf(k) \in DOMAIN e /\ e[RowOf(k)] = Dict /\ FieldOf(k, f) \in DOMAIN e
      /\ \A g \in Field : Attrs(e, RowOf(k))[g] = IF g = f THEN Seen(Leaf(Empty)) ELSE Attrs(h1, RowOf(k))[g]
  BY <1>1, <1>6, LeafObject, FieldGrafted
<1> HIDE DEF e
<1>9. AwayFrom(d, e, k)
  BY <1>6, <1>8, AwayTransitive
<1>10. RowOf(k) \in DOMAIN d => \A g \in Field : Attrs(d, RowOf(k))[g] = NoVal
  BY DEF Attrs
<1>11. FieldMade(d, e, k, f)
  BY <1>7, <1>8, <1>9, <1>10 DEF FieldMade
<1> QED BY <1>5, <1>11

(* A traversal that creates comes to the field of a row that is a dict,    *)
(* whatever was there, and changes nothing else a mapper sees.             *)
LEMMA WalkToFieldMade ==
  ASSUME NEW d, IsTableDb(d), NEW x, IsIndex(x), NEW k \in RowKey, NEW f \in Written,
         NEW create \in BOOLEAN, Makes(create)
  PROVE  \E e : /\ TraverseTo(M(d, x), AddressOfField(k, f), create)
                     = Walked(e, x, AtField(k, f, RowOf(k), FieldOf(k, f)), Going)
                /\ FieldMade(d, e, k, f)
<1> DEFINE row == RowOf(k)
           frames == AtRow(k, row)
<1>1. k \in Name /\ f \in Name /\ Halt(f) = Going /\ row \in Path
  BY Keys, RowPaths DEF Halt, Going
<1>2. Last(frames).obj = row /\ Location(frames) = row /\ Child(row, f) = FieldOf(k, f)
  BY <1>1, FramesOfRow DEF FieldOf
<1>3. Child(Location(frames), f) \notin NodesOf(x)
  BY <1>1, <1>2, NoNodeBelow
<1>4. DOMAIN d \subseteq Path /\ (row \in DOMAIN d => d[row] \notin {List, Empty})
  <2>1. k # Blank
    BY Literals
  <2> QED BY <1>1, <2>1, TableDb
<1> HIDE DEF row, frames
<1>5. CASE row \in DOMAIN d /\ d[row] = Dict
  <2>1. TraverseTo(M(d, x), AddressOfField(k, f), create) = Descend(Walked(d, x, frames, Going), f, create)
    <3>1. TraverseTo(M(d, x), AddressOfRow(k), create) = Walked(d, x, frames, Going)
      BY <1>1, <1>5, WalkToRow DEF frames, row
    <3> QED BY <1>1, <3>1, OneKeyOn DEF frames
  <2>2. CASE FieldOf(k, f) \in DOMAIN d
    <3>1. Descend(Walked(d, x, frames, Going), f, create) = Walked(d, x, To(frames, f, Child(row, f)), Halt(f))
      BY <1>1, <1>2, <1>4, <1>5, <2>2, FromDict
    <3>2. FieldMade(d, d, k, f)
      BY <1>4, <1>5, <2>2, AwaySelf DEF FieldMade, row
    <3>3. TraverseTo(M(d, x), AddressOfField(k, f), create)
            = Walked(d, x, AtField(k, f, RowOf(k), FieldOf(k, f)), Going)
      BY <1>1, <1>2, <2>1, <3>1 DEF AtField, frames, row
    <3> QED BY <3>2, <3>3
  <2>3. CASE FieldOf(k, f) \notin DOMAIN d
    <3> DEFINE e == Graft(d, FieldOf(k, f), Leaf(Empty))
    <3>1. Descend(Walked(d, x, frames, Going), f, create) = Walked(e, x, To(frames, f, Child(row, f)), Halt(f))
      BY <1>1, <1>2, <1>3, <1>4, <1>5, <2>3, FromDict
    <3>2. /\ DOMAIN e \subseteq Path /\ AwayFrom(d, e, k)
          /\ RowOf(k) \in DOMAIN e /\ e[RowOf(k)] = Dict /\ FieldOf(k, f) \in DOMAIN e
          /\ \A g \in Field : Attrs(e, RowOf(k))[g] = IF g = f THEN Seen(Leaf(Empty)) ELSE Attrs(d, RowOf(k))[g]
      BY <1>1, <1>4, <1>5, LeafObject, FieldGrafted DEF row
    <3> HIDE DEF e
    <3>3. FieldMade(d, e, k, f)
      BY <1>5, <3>2 DEF FieldMade, row
    <3>4. TraverseTo(M(d, x), AddressOfField(k, f), create)
            = Walked(e, x, AtField(k, f, RowOf(k), FieldOf(k, f)), Going)
      BY <1>1, <1>2, <2>1, <3>1 DEF AtField, frames, row
    <3> QED BY <3>3, <3>4
  <2> QED BY <2>2, <2>3
<1>6. CASE row \in DOMAIN d /\ d[row] # Dict
  <2>1. TraverseTo(M(d, x), AddressOfField(k, f), create) = Descend(Walked(d, x, frames, Going), f, create)
    <3>1. TraverseTo(M(d, x), AddressOfRow(k), create) = Walked(d, x, frames, Going)
      BY <1>1, <1>6, WalkToRow DEF frames, row
    <3> QED BY <1>1, <3>1, OneKeyOn DEF frames
  <2>2. \E e : /\ Descend(Walked(d, x, AtRow(k, RowOf(k)), Going), f, create)
                    = Walked(e, x, AtField(k, f, RowOf(k), FieldOf(k, f)), Going)
               /\ FieldMade(d, e, k, f)
    BY <1>4, <1>6, AwaySelf, ScalarToDict DEF row
  <2> QED BY <2>1, <2>2 DEF frames, row
<1>7. CASE row \notin DOMAIN d
  <2> DEFINE h == Graft(d, row, Leaf(Empty))
  <2>1. TraverseTo(M(d, x), AddressOfField(k, f), create) = Descend(Walked(h, x, frames, Going), f, create)
    <3>1. TraverseTo(M(d, x), AddressOfRow(k), create) = Walked(h, x, frames, Going)
      BY <1>1, <1>7, WalkToRow DEF frames, row
    <3> HIDE DEF h
    <3> QED BY <1>1, <3>1, OneKeyOn DEF frames
  <2>2. DOMAIN h \subseteq Path /\ AwayFrom(d, h, k) /\ row \in DOMAIN h /\ h[row] = Empty
    <3>1. IsPrefix(RowOf(k), RowOf(k))
      BY <1>1, OwnPrefix DEF row
    <3> QED BY <1>1, <1>4, <3>1, LeafObject, GraftAway DEF row
  <2> HIDE DEF h
  <2>3. h[row] \notin {Dict, List}
    BY <2>2, Literals
  <2>4. \E e : /\ Descend(Walked(h, x, AtRow(k, RowOf(k)), Going), f, create)
                    = Walked(e, x, AtField(k, f, RowOf(k), FieldOf(k, f)), Going)
               /\ FieldMade(d, e, k, f)
    BY <1>4, <1>7, <2>2, <2>3, ScalarToDict DEF row
  <2> QED BY <2>1, <2>4 DEF frames, row
<1> QED BY <1>5, <1>6, <1>7

(* A traversal that does not create changes nothing, and comes to the      *)
(* field when the row is a dict that has it.                               *)
LEMMA WalkToFieldFound ==
  ASSUME NEW d, IsTableDb(d), NEW x, IsIndex(x), NEW k \in RowKey, NEW f \in Written,
         NEW create \in BOOLEAN, ~Makes(create)
  PROVE  \E o \in Path \cup {NoObj}, r \in Path \cup {NoObj} :
           /\ TraverseTo(M(d, x), AddressOfField(k, f), create) = Walked(d, x, AtField(k, f, o, r), Going)
           /\ o = IF RowOf(k) \in DOMAIN d THEN RowOf(k) ELSE NoObj
           /\ o # NoObj /\ d[o] = Dict /\ FieldOf(k, f) \in DOMAIN d => r = FieldOf(k, f)
<1> DEFINE row == RowOf(k)
<1>1. k \in Name /\ f \in Name /\ Halt(f) = Going /\ row \in Path
      /\ NoObj # row
  BY Keys, RowPaths DEF Halt, Going
<1>2. \A o \in Path \cup {NoObj} : Last(AtRow(k, o)).obj = o /\ Location(AtRow(k, o)) = row
  BY <1>1, FramesOfRow
<1>3. Child(row, f) = FieldOf(k, f) /\ FieldOf(k, f) \in Path /\ Child(row, f) \notin NodesOf(x)
  BY <1>1, NoNodeBelow, FieldPaths DEF FieldOf
<1>4. DOMAIN d \subseteq Path
  BY TableDb
<1> HIDE DEF row
<1>5. CASE row \in DOMAIN d
  <2> DEFINE frames == AtRow(k, row)
  <2>a. Last(frames).obj = row /\ Location(frames) = row
    BY <1>1, <1>2
  <2>1. TraverseTo(M(d, x), AddressOfField(k, f), create) = Descend(Walked(d, x, frames, Going), f, create)
    BY <1>1, <1>5, WalkToRow, OneKeyOn DEF row
  <2> HIDE DEF frames
  <2>2. CASE d[row] = Dict /\ FieldOf(k, f) \in DOMAIN d
    <3>1. Descend(Walked(d, x, frames, Going), f, create) = Walked(d, x, To(frames, f, Child(row, f)), Halt(f))
      BY <1>1, <1>3, <1>4, <1>5, <2>a, <2>2, FromDict
    <3>2. TraverseTo(M(d, x), AddressOfField(k, f), create) = Walked(d, x, AtField(k, f, row, FieldOf(k, f)), Going)
      BY <1>1, <1>3, <2>1, <3>1 DEF AtField, frames
    <3> QED BY <1>1, <1>3, <1>5, <3>2 DEF row
  <2>3. CASE ~(d[row] = Dict /\ FieldOf(k, f) \in DOMAIN d)
    <3>1. Descend(Walked(d, x, frames, Going), f, create) = Walked(d, x, To(frames, f, NoObj), Halt(f))
      <4>1. CASE d[row] = Dict
        BY <1>1, <1>3, <1>4, <1>5, <2>a, <2>3, <4>1, FromDict
      <4>2. CASE d[row] # Dict
        <5>1. d[row] \notin {Dict, List}
          BY <1>1, <1>5, <4>2, TableDb, Literals DEF row
        <5> QED BY <1>1, <1>3, <1>4, <1>5, <2>a, <5>1, FromScalar
      <4> QED BY <4>1, <4>2
    <3>2. TraverseTo(M(d, x), AddressOfField(k, f), create) = Walked(d, x, AtField(k, f, row, NoObj), Going)
      BY <1>1, <2>1, <3>1 DEF AtField, frames
    <3> QED BY <1>1, <1>5, <2>3, <3>2 DEF row
  <2> QED BY <2>2, <2>3
<1>6. CASE row \notin DOMAIN d
  <2> DEFINE frames == AtRow(k, NoObj)
  <2>a. Last(frames).obj = NoObj
    BY <1>2
  <2>1. TraverseTo(M(d, x), AddressOfField(k, f), create) = Descend(Walked(d, x, frames, Going), f, create)
    BY <1>1, <1>6, WalkToRow, OneKeyOn DEF row
  <2> HIDE DEF frames
  <2>2. Descend(Walked(d, x, frames, Going), f, create) = Walked(d, x, To(frames, f, NoObj), Halt(f))
    BY <1>1, <2>a, FromNothing
  <2>3. TraverseTo(M(d, x), AddressOfField(k, f), create) = Walked(d, x, AtField(k, f, NoObj, NoObj), Going)
    BY <1>1, <2>1, <2>2 DEF AtField, frames
  <2> QED BY <1>6, <2>3 DEF row
<1> QED BY <1>5, <1>6

-----------------------------------------------------------------------------
(* The bookkeeping at a row and at a field.                                *)

(* The mapper of users without a row, and with one.                        *)
Unlisted(x, r) == [n \in DOMAIN x |-> UnregisterAll(x[n], {r})]
Listed(x, r, k) == [n \in DOMAIN x |-> RegisterAll(x[n], {<<r, <<k>>>>})]
ListClash(x, r, k) == \E n \in DOMAIN x : RegisterClash(x[n], {<<r, <<k>>>>})

(* The only mapper there is, if any, is that of users.                     *)
LEMMA OnlyUsers ==
  ASSUME NEW x, IsIndex(x)
  PROVE  /\ \A n \in DOMAIN x : n = Users /\ x[n] \in Mapper(RowPath) /\ x[n] = MapperOf(x)
         /\ NodesOf(x) \subseteq {<<>>, Users}
         /\ DOMAIN x = {} => MapperOf(x) = EmptyMapper
BY DEF IsIndex, NodesOf, MapperOf

(* Another mapper at each place of an index is an index again.             *)
LEMMA MapperOfMade ==
  ASSUME NEW x, IsIndex(x), NEW y, y = [n \in DOMAIN x |-> y[n]],
         \A n \in DOMAIN x : y[n] \in Mapper(RowPath)
  PROVE  /\ IsIndex(y) /\ DOMAIN y = DOMAIN x /\ NodesOf(y) = NodesOf(x)
         /\ Users \in DOMAIN x => MapperOf(y) = y[Users]
         /\ Users \notin DOMAIN x => MapperOf(y) = EmptyMapper
BY DEF IsIndex, NodesOf, MapperOf

(* A mapper without indices registers nothing and has no clash.            *)
LEMMA EmptyUnchanged ==
  ASSUME NEW r, NEW k
  PROVE  /\ Unregister(EmptyMapper, r) = EmptyMapper /\ Register(EmptyMapper, r, k) = EmptyMapper
         /\ Clashes(EmptyMapper, r, k) = {}
<1>1. Hooked(EmptyMapper, r) = {}
  BY DEF Hooked, EmptyMapper
<1> DEFINE key == [f \in Field |-> [v \in Val |-> NoKey]]
<1>2. \A f \in Field, v \in Val : EmptyMapper.key[f][v] = NoKey
  BY DEF EmptyMapper
<1>3. [EmptyMapper EXCEPT !.key = key] = EmptyMapper
  BY DEF EmptyMapper
<1>4. Unregister(EmptyMapper, r) = [EmptyMapper EXCEPT !.key = key]
  BY <1>1, <1>2 DEF Unregister
<1>5. Register(EmptyMapper, r, k) = [EmptyMapper EXCEPT !.key = key]
  BY <1>1, <1>2 DEF Register, WithEntries
<1> QED BY <1>1, <1>3, <1>4, <1>5 DEF Clashes

(* Unregistering a row in the mapper of users, if there is one, is the     *)
(* table's Unregister.                                                     *)
LEMMA IndexUnlisted ==
  ASSUME NEW x, IsIndex(x), NEW r \in Row
  PROVE  /\ IsIndex(Unlisted(x, r)) /\ NodesOf(Unlisted(x, r)) = NodesOf(x)
         /\ MapperIn(Unlisted(x, r)) = Unregister(MapperIn(x), r)
<1> DEFINE y == Unlisted(x, r)
           F(n) == UnregisterAll(x[n], {r})
<1>1. \A n \in DOMAIN x : F(n) \in Mapper(RowPath)
  BY OnlyUsers, PlainUnregister
<1>2. /\ IsIndex(y) /\ NodesOf(y) = NodesOf(x)
      /\ Users \in DOMAIN x => MapperOf(y) = UnregisterAll(x[Users], {r})
      /\ Users \notin DOMAIN x => MapperOf(y) = EmptyMapper
  <2>1. y = [n \in DOMAIN x |-> y[n]] /\ \A n \in DOMAIN x : y[n] = F(n)
    BY DEF Unlisted
  <2> HIDE DEF F, y
  <2>2. \A n \in DOMAIN x : y[n] \in Mapper(RowPath)
    BY <1>1, <2>1
  <2> QED BY <2>1, <2>2, MapperOfMade DEF F
<1> HIDE DEF y
<1>3. MapperIn(y) = Plain(MapperOf(y)) /\ MapperIn(x) = Plain(MapperOf(x))
  BY <1>2, MapperInIsPlain
<1>4. CASE Users \in DOMAIN x
  <2>1. x[Users] \in Mapper(RowPath) /\ MapperOf(x) = x[Users]
    BY <1>4, OnlyUsers
  <2>2. Plain(UnregisterAll(x[Users], {r})) = Unregister(Plain(x[Users]), r)
    BY <2>1, PlainUnregister
  <2> QED BY <1>2, <1>3, <1>4, <2>1, <2>2 DEF y
<1>5. CASE Users \notin DOMAIN x
  <2>1. MapperOf(x) = EmptyMapper /\ MapperOf(y) = EmptyMapper
    BY <1>2, <1>5 DEF MapperOf
  <2> QED BY <1>2, <1>3, <2>1, EmptyMapperPlain, EmptyUnchanged DEF y
<1> QED BY <1>4, <1>5

(* Registering a row there without a clash is the table's Register, and no *)
(* clash to the table.                                                     *)
LEMMA IndexListed ==
  ASSUME NEW x, IsIndex(x), NEW r \in Row, NEW k \in RowKey, ~ListClash(x, r, k)
  PROVE  /\ IsIndex(Listed(x, r, k)) /\ NodesOf(Listed(x, r, k)) = NodesOf(x)
         /\ Clashes(MapperIn(x), r, k) = {}
         /\ MapperIn(Listed(x, r, k)) = Register(MapperIn(x), r, k)
<1> DEFINE y == Listed(x, r, k)
           F(n) == RegisterAll(x[n], {<<r, <<k>>>>})
<1>0. \A n \in DOMAIN x : ~RegisterClash(x[n], {<<r, <<k>>>>})
  BY DEF ListClash
<1>1. \A n \in DOMAIN x : F(n) \in Mapper(RowPath)
  BY <1>0, OnlyUsers, PlainRegister
<1>2. /\ IsIndex(y) /\ NodesOf(y) = NodesOf(x)
      /\ Users \in DOMAIN x => MapperOf(y) = RegisterAll(x[Users], {<<r, <<k>>>>})
      /\ Users \notin DOMAIN x => MapperOf(y) = EmptyMapper
  <2>1. y = [n \in DOMAIN x |-> y[n]] /\ \A n \in DOMAIN x : y[n] = F(n)
    BY DEF Listed
  <2> HIDE DEF F, y
  <2>2. \A n \in DOMAIN x : y[n] \in Mapper(RowPath)
    BY <1>1, <2>1
  <2> QED BY <2>1, <2>2, MapperOfMade DEF F
<1> HIDE DEF y
<1>3. MapperIn(y) = Plain(MapperOf(y)) /\ MapperIn(x) = Plain(MapperOf(x))
  BY <1>2, MapperInIsPlain
<1>4. CASE Users \in DOMAIN x
  <2>1. x[Users] \in Mapper(RowPath) /\ MapperOf(x) = x[Users]
    BY <1>4, OnlyUsers
  <2>2. /\ Clashes(Plain(x[Users]), r, k) = {}
        /\ Plain(RegisterAll(x[Users], {<<r, <<k>>>>})) = Register(Plain(x[Users]), r, k)
    BY <1>0, <1>4, <2>1, PlainRegister
  <2> QED BY <1>2, <1>3, <1>4, <2>1, <2>2 DEF y
<1>5. CASE Users \notin DOMAIN x
  <2>1. MapperOf(x) = EmptyMapper /\ MapperOf(y) = EmptyMapper
    BY <1>2, <1>5 DEF MapperOf
  <2> QED BY <1>2, <1>3, <2>1, EmptyMapperPlain, EmptyUnchanged DEF y
<1> QED BY <1>4, <1>5

(* The parts of a sound machine, which has not failed.                     *)
LEMMA SoundMachine ==
  ASSUME NEW d, NEW x
  PROVE  /\ M(d, x) = Sound(d, NodesOf(x), x)
         /\ M(d, x).db = d /\ M(d, x).nodes = NodesOf(x) /\ M(d, x).mappers = x
         /\ ~Thrown(M(d, x))
BY DEF M, Machine, Sound, Thrown

(* The bookkeeping around a row.                                           *)
LEMMA RowDeleted ==
  ASSUME NEW d, DOMAIN d \subseteq Path, NEW x, IsIndex(x), NEW k \in RowKey, RowOf(k) \in DOMAIN d,
         NEW frames, Location(frames) = RowOf(k), Last(frames).obj = RowOf(k)
  PROVE  HandleDelete(M(d, x), frames) = M(d, Unlisted(x, Attrs(d, RowOf(k))))
<1> DEFINE p == RowOf(k)
           y == Unlisted(x, Attrs(d, p))
<1>1. p \in Path /\ p # <<>> /\ k \in Name
  BY Keys, RowPaths
<1>2. HandleDelete(M(d, x), frames) =
        Sound(d, NodesOf(x) \ Gone(d, x, p), Remaining(d, x, p))
  <2> HIDE DEF p
  <2> QED BY <1>1, Deleted DEF p
<1>3. Gone(d, x, p) = {}
  <2>1. ~IsPrefix(p, <<>>) /\ ~IsPrefix(p, Users)
    BY <1>1, PathsOfUsers, RowPrefix
  <2> QED BY <2>1, OnlyUsers DEF Gone
<1>4. Olds(d, p, Users) = {Attrs(d, p)}
  <2>1. {L \in Under(d, p) : Front(L) = Users} = {p}
    BY <1>1, RowBelow DEF RowOf, Child
  <2>2. \A L \in Under(d, p) : L # <<>>
    BY <1>1, RowPrefix DEF Under
  <2> QED BY <2>1, <2>2 DEF Olds
<1>5. Remaining(d, x, p) = y
  <2>1. \A n \in DOMAIN x : UnregisterAll(x[n], Olds(d, p, n)) = UnregisterAll(x[n], {Attrs(d, p)})
    BY <1>4, OnlyUsers
  <2>2. DOMAIN x \ Gone(d, x, p) = DOMAIN x
    BY <1>3
  <2> QED BY <2>1, <2>2 DEF Unlisted, Remaining
<1>6. NodesOf(x) \ Gone(d, x, p) = NodesOf(y)
  <2>1. Attrs(d, p) \in Row
    BY AttrsAreRow
  <2> QED BY <1>3, <2>1, IndexUnlisted
<1> HIDE DEF y
<1> QED BY <1>2, <1>5, <1>6, SoundMachine DEF y

(* handleCreate of a row registers it in the mapper of users, or throws on *)
(* a clash.                                                                *)
LEMMA RowCreated ==
  ASSUME NEW d, DOMAIN d \subseteq Path, NEW x, IsIndex(x), NEW k \in RowKey, RowOf(k) \in DOMAIN d,
         NEW frames, Deep(frames), Location(frames) = RowOf(k), Last(frames).obj = RowOf(k)
  PROVE  IF ListClash(x, Attrs(d, RowOf(k)), k) THEN Thrown(HandleCreate(M(d, x), frames))
         ELSE HandleCreate(M(d, x), frames) = M(d, Listed(x, Attrs(d, RowOf(k)), k))
<1> DEFINE p == RowOf(k)
           r == Attrs(d, p)
           y == Listed(x, r, k)
<1>1. p \in Path /\ p # <<>> /\ k \in Name /\ Last(p) = k
  BY Keys, RowPaths
<1>2. /\ Clashing(d, x, p) => Thrown(HandleCreate(M(d, x), frames))
      /\ ~Clashing(d, x, p) => HandleCreate(M(d, x), frames) = Sound(d, NodesOf(x), Joined(d, x, p))
  <2> HIDE DEF p
  <2> QED BY <1>1, Created DEF p, Deep
<1>3. News(d, p, Users) = {<<r, <<k>>>>}
  <2>1. {L \in Under(d, p) : Front(L) = Users} = {p}
    BY <1>1, RowBelow DEF RowOf, Child
  <2> QED BY <1>1, <2>1 DEF News
<1>4. \A n \in DOMAIN x : News(d, p, n) = {<<r, <<k>>>>}
  BY <1>3, OnlyUsers
<1> HIDE DEF r
<1>5. Clashing(d, x, p) <=> ListClash(x, r, k)
  BY <1>4 DEF ListClash, Clashing
<1>6. Joined(d, x, p) = y
  BY <1>4 DEF Listed, Joined
<1> HIDE DEF y
<1>7. r \in Row
  BY AttrsAreRow DEF r
<1>8. ~ListClash(x, r, k) => NodesOf(y) = NodesOf(x)
  BY <1>7, IndexListed DEF y
<1> QED BY <1>2, <1>5, <1>6, <1>8, SoundMachine DEF r, y

(* The bookkeeping around what is below a row: there is none.              *)
LEMMA NothingBelow ==
  ASSUME NEW d, DOMAIN d \subseteq Path, NEW x, IsIndex(x), NEW k \in Name, NEW f \in Name,
         NEW frames, Deep(frames), Location(frames) = FieldOf(k, f), Last(frames).obj = FieldOf(k, f)
  PROVE  HandleDelete(M(d, x), frames) = M(d, x) /\ HandleCreate(M(d, x), frames) = M(d, x)
<1> DEFINE p == FieldOf(k, f)
<1>1. p \in Path /\ p # <<>>
  BY FieldPaths
<1>2. HandleDelete(M(d, x), frames) =
        Sound(d, NodesOf(x) \ Gone(d, x, p), Remaining(d, x, p))
  <2> HIDE DEF p
  <2> QED BY <1>1, Deleted DEF p
<1>3. /\ Clashing(d, x, p) => Thrown(HandleCreate(M(d, x), frames))
      /\ ~Clashing(d, x, p) => HandleCreate(M(d, x), frames) = Sound(d, NodesOf(x), Joined(d, x, p))
  <2> HIDE DEF p
  <2> QED BY <1>1, Created DEF p, Deep
<1>4. \A q \in Path : IsPrefix(p, q) => q # <<>> /\ q # Users /\ Front(q) # Users
  <2> SUFFICES ASSUME NEW q \in Path, IsPrefix(p, q) PROVE q # <<>> /\ q # Users /\ Front(q) # Users
    OBVIOUS
  <2>1. IsPrefix(RowOf(k), p) /\ RowOf(k) \in Path
    BY FieldPaths, RowPaths
  <2>2. q # <<>> /\ q # Users
    BY <1>1, <2>1, PrefixTransitive, RowPrefix
  <2>3. Front(q) # Users
    <3>1. Len(p) = 3 /\ Len(Users) = 1
      <4>1. RowOf(k) \in Path /\ Len(RowOf(k)) = 2
        BY PathsOfUsers DEF RowOf, Child
      <4>2. Len(p) = Len(RowOf(k)) + 1
        <5> DEFINE row == RowOf(k)
        <5>1. row \in Path
          BY <4>1
        <5> HIDE DEF row
        <5>2. Len(Append(row, f)) = Len(row) + 1
          BY <5>1, AppendedPath
        <5> QED BY <5>2 DEF row, FieldOf, Child
      <4> QED BY <4>1, <4>2, PathsOfUsers
    <3>2. Len(q) >= Len(p)
      BY <1>1, <3>1, PrefixPointwise
    <3>3. Len(q) \in Nat /\ (Len(q) > 0 => Len(Front(q)) = Len(q) - 1)
      <4>1. Len(q) \in Nat /\ Front(q) = SubSeq(q, 1, Len(q) - 1)
        BY DEF Path, Front
      <4>2. ASSUME Len(q) > 0 PROVE Len(SubSeq(q, 1, Len(q) - 1)) = Len(q) - 1
        <5> DEFINE m == Len(q) - 1
        <5>1. m \in Nat /\ m <= Len(q) /\ q \in Seq(Name)
          BY <4>1, <4>2 DEF Path
        <5> HIDE DEF m
        <5>2. Len(SubSeq(q, 1, m)) = m
          BY <5>1
        <5> QED BY <5>2 DEF m
      <4> QED BY <4>1, <4>2
    <3> DEFINE n == Len(q)
               l == Len(p)
               u == Len(Users)
               g == Len(Front(q))
    <3>4. n >= l /\ l = 3 /\ u = 1 /\ n \in Nat /\ (n > 0 => g = n - 1)
      BY <3>1, <3>2, <3>3
    <3> HIDE DEF n, l, u, g
    <3>5. g # u
      BY <3>4
    <3> QED BY <3>5 DEF g, u
  <2> QED BY <2>2, <2>3
<1>5. Gone(d, x, p) = {}
  BY <1>4, PathsOfUsers, OnlyUsers DEF Gone
<1>6. \A n \in DOMAIN x : Olds(d, p, n) = {} /\ News(d, p, n) = {}
  <2>1. \A n \in DOMAIN x : n = Users
    BY OnlyUsers
  <2>2. \A L \in Under(d, p) : Front(L) # Users
    BY <1>4 DEF Under
  <2> HIDE DEF p
  <2> QED BY <2>1, <2>2 DEF Olds, News
<1> HIDE DEF p
<1>7. \A n \in DOMAIN x : /\ UnregisterAll(x[n], Olds(d, p, n)) = x[n] /\ RegisterAll(x[n], News(d, p, n)) = x[n]
                          /\ ~RegisterClash(x[n], News(d, p, n))
  BY <1>6, OnlyUsers, NothingUnregistered
<1>8. x = [n \in DOMAIN x |-> x[n]]
  BY DEF IsIndex
<1>9. Remaining(d, x, p) = x /\ Joined(d, x, p) = x /\ NodesOf(x) \ Gone(d, x, p) = NodesOf(x)
  BY <1>5, <1>7, <1>8 DEF Remaining, Joined
<1>10. ~Clashing(d, x, p)
  BY <1>7 DEF Clashing
<1> QED BY <1>2, <1>3, <1>9, <1>10, SoundMachine

-----------------------------------------------------------------------------
(* SET of a row,                                                           *)

(* SET where a walk has ended.                                             *)
LEMMA SetTaken ==
  ASSUME NEW h, NEW x, NEW frames, NEW value, ~Halt(Last(frames).key), Last(frames).obj # NoObj
  PROVE  SetResult(Walked(h, x, frames, Going), value).m = Assigned(Walked(h, x, frames, Going), value)
<1> DEFINE t == Walked(h, x, frames, Going)
<1>1. t.m.fault = "none" /\ t.frames = frames
  BY DEF Walked, M, Machine
<1>2. ~Invalid(t, TRUE)
  BY <1>1 DEF Invalid, Halt
<1> HIDE DEF t
<1> QED BY <1>1, <1>2 DEF SetResult, Done, t

(* SET of an address that ended in the empty key is refused.               *)
LEMMA SetRefused ==
  ASSUME NEW h, NEW x, NEW frames, NEW stop, NEW value, Halt(Last(frames).key)
  PROVE  SetResult(Walked(h, x, frames, stop), value).m = M(h, x)
<1> DEFINE t == Walked(h, x, frames, stop)
<1>1. t.frames = frames /\ t.m = M(h, x)
  BY DEF Walked
<1>2. Invalid(t, TRUE)
  BY <1>1 DEF Invalid, Halt
<1> HIDE DEF t
<1> QED BY <1>1, <1>2 DEF SetResult, Refused, t

(* SET of an address whose traversal threw does no more.                   *)
LEMMA SetThrown ==
  ASSUME NEW t, NEW value, Thrown(t.m)
  PROVE  SetResult(t, value).m = t.m
BY DEF SetResult, Refused, Thrown

(* SET at a place without an index node is handleDelete, the assignment    *)
(* and handleCreate.                                                       *)
LEMMA AssignedTo ==
  ASSUME NEW h, NEW x, NEW frames, NEW p, Last(frames).obj = p, Location(frames) \notin NodesOf(x),
         NEW z, HandleDelete(M(h, x), frames) = M(h, z), NEW value
  PROVE  Assigned(Walked(h, x, frames, Going), value) = HandleCreate(M(Graft(h, p, value), z), frames)
<1> DEFINE t == Walked(h, x, frames, Going)
           e == Graft(h, p, value)
<1>1. t.m = M(h, x) /\ t.frames = frames
  BY DEF Walked
<1>2. ~HasNode(t.m, t.frames)
  BY <1>1, SoundMachine DEF HasNode
<1>3. [M(h, z) EXCEPT !.db = Graft(@, p, value)] = M(e, z)
  <2>1. M(h, z).db = h
    BY SoundMachine
  <2>2. [M(h, z) EXCEPT !.db = Graft(@, p, value)] = [M(h, z) EXCEPT !.db = e]
    BY <2>1
  <2> HIDE DEF e
  <2>3. [M(h, z) EXCEPT !.db = e] = M(e, z)
    BY DEF M, Machine
  <2> QED BY <2>2, <2>3
<1> HIDE DEF t, e
<1> DEFINE freed == /\ Len(t.frames) > 1 /\ HasNode(t.m, t.frames)
                    /\ t.m.db[Last(t.frames).obj] # Empty /\ DOMAIN value # {<<>>}
           m1 == [HandleDelete(t.m, t.frames) EXCEPT !.db = Graft(@, Last(t.frames).obj, value)]
<1>4. Assigned(t, value) = HandleCreate(IF freed THEN Faulted(m1, "undefined") ELSE m1, t.frames)
  BY DEF Assigned
<1>5. m1 = M(e, z)
  BY <1>1, <1>3
<1>6. ~freed
  BY <1>2
<1> HIDE DEF freed, m1
<1> QED BY <1>1, <1>4, <1>5, <1>6 DEF t, e

(* What an assignment of row k comes to.                                   *)
RowIn(d, k) == IF k \in DOMAIN RowsIn(d) THEN RowsIn(d)[k] ELSE NoFields

RowGiven(d, x, k, r, e, y) ==
  /\ IsTableDb(e) /\ IsIndex(y) /\ Phantom(e) = Phantom(d)
  /\ RowsIn(e) = [j \in DOMAIN RowsIn(d) \cup {k} |-> IF j = k THEN r ELSE RowsIn(d)[j]]
  /\ Clashes(Unregister(MapperIn(x), RowIn(d, k)), r, k) = {}
  /\ MapperIn(y) = Register(Unregister(MapperIn(x), RowIn(d, k)), r, k)

(* A row of the table is what a mapper sees of the object, no fields when  *)
(* there is none.                                                          *)
LEMMA RowInIs ==
  ASSUME NEW d, IsTableDb(d), NEW k \in RowKey
  PROVE  /\ k \in DOMAIN RowsIn(d) <=> RowOf(k) \in DOMAIN d
         /\ RowOf(k) \in DOMAIN d => RowIn(d, k) = Attrs(d, RowOf(k)) /\ RowsIn(d)[k] = Attrs(d, RowOf(k))
         /\ RowOf(k) \notin DOMAIN d => RowIn(d, k) = NoFields
<1>1. DOMAIN d \subseteq Path
  BY TableDb
<1>2. RowsIn(d) = [j \in {j \in RowKey : RowOf(j) \in DOMAIN d} |-> Attrs(d, RowOf(j))]
  BY <1>1, RowsRead
<1> QED BY <1>2 DEF RowIn

(* SET at a row, made on the way or not, throws or gives the row its new   *)
(* value in the document and in the mapper.                                *)
LEMMA SetAtRow ==
  ASSUME NEW d, IsTableDb(d), NEW h, DOMAIN h \subseteq Path, NEW x, IsIndex(x), NEW k \in RowKey,
         AwayFrom(d, h, k), RowOf(k) \in DOMAIN h, Attrs(h, RowOf(k)) = RowIn(d, k),
         NEW value, IsRow(value)
  PROVE  LET m == SetResult(Walked(h, x, AtRow(k, RowOf(k)), Going), value).m
         IN Thrown(m) \/ \E e, y : m = M(e, y) /\ RowGiven(d, x, k, Attrs(value, <<>>), e, y)
<1> DEFINE row == RowOf(k)
           frames == AtRow(k, row)
           e == Graft(h, row, value)
           r == Attrs(value, <<>>)
           old == RowIn(d, k)
           z == Unlisted(x, old)
           y == Listed(z, r, k)
           m == SetResult(Walked(h, x, frames, Going), value).m
<1>1. k \in Name /\ row \in Path /\ row # NoObj /\ ~Halt(k)
  BY Keys, RowPaths DEF Halt
<1>2. /\ Last(frames).key = k /\ Last(frames).obj = row
      /\ Location(frames) = row /\ Deep(frames)
  BY <1>1, FramesOfRow
<1>3. IsObject(value) /\ value[<<>>] \notin {List, Empty} /\ r \in Row /\ old \in Row
  <2>1. old \in Row
    BY AttrsAreRow
  <2>2. r \in Row
    BY AttrsAreRow
  <2> QED BY <2>1, <2>2 DEF IsRow
<1>4. row \notin NodesOf(x)
  BY <1>1, NoNodeBelow
<1>5. Attrs(h, row) = old /\ row \in DOMAIN h
  OBVIOUS
<1> HIDE DEF frames, row, old
<1>6. HandleDelete(M(h, x), frames) = M(h, z)
  <2>1. HandleDelete(M(h, x), frames) = M(h, Unlisted(x, Attrs(h, row)))
    BY <1>2, <1>5, RowDeleted DEF row
  <2> QED BY <1>5, <2>1
<1>7. m = Assigned(Walked(h, x, frames, Going), value)
  BY <1>1, <1>2, SetTaken
<1>8. IsIndex(z) /\ MapperIn(z) = Unregister(MapperIn(x), old)
  BY <1>3, IndexUnlisted
<1> HIDE DEF z, r, m
<1>9. m = HandleCreate(M(e, z), frames)
  BY <1>2, <1>4, <1>6, <1>7, AssignedTo
<1>10. /\ DOMAIN e \subseteq Path /\ AwayFrom(h, e, k) /\ row \in DOMAIN e /\ e[row] = value[<<>>]
  BY <1>1, <1>3, OwnPrefix, GraftAway DEF row
<1>11. Attrs(e, row) = r
  BY <1>1, <1>3, AttrsOfGraft DEF r
<1> HIDE DEF e
<1>12. IF ListClash(z, Attrs(e, row), k) THEN Thrown(HandleCreate(M(e, z), frames))
       ELSE HandleCreate(M(e, z), frames) = M(e, Listed(z, Attrs(e, row), k))
  BY <1>2, <1>8, <1>10, RowCreated DEF row
<1>13. ASSUME ~ListClash(z, r, k) PROVE m = M(e, y) /\ RowGiven(d, x, k, r, e, y)
  <2>1. m = M(e, y)
    BY <1>9, <1>11, <1>12, <1>13
  <2>2. IsIndex(y) /\ Clashes(MapperIn(z), r, k) = {} /\ MapperIn(y) = Register(MapperIn(z), r, k)
    BY <1>3, <1>8, <1>13, IndexListed
  <2> HIDE DEF y
  <2>3. AwayFrom(d, e, k)
    BY <1>10, AwayTransitive
  <2>4. /\ IsTableDb(e) /\ Phantom(e) = Phantom(d)
        /\ RowsIn(e) = [j \in DOMAIN RowsIn(d) \cup {k} |-> IF j = k THEN Attrs(e, RowOf(k)) ELSE RowsIn(d)[j]]
    <3>1. RowOf(k) \in DOMAIN e /\ e[RowOf(k)] \notin {List, Empty}
      BY <1>3, <1>10 DEF row
    <3>2. DOMAIN e \subseteq Path
      BY <1>10
    <3> QED BY <2>3, <3>1, <3>2, RowWritten, SMTT(60)
  <2>5. RowsIn(e) = [j \in DOMAIN RowsIn(d) \cup {k} |-> IF j = k THEN r ELSE RowsIn(d)[j]]
    BY <1>11, <2>4 DEF row
  <2> QED BY <1>8, <2>1, <2>2, <2>4, <2>5 DEF RowGiven, old
<1>14. ASSUME ListClash(z, r, k) PROVE Thrown(m)
  BY <1>9, <1>11, <1>12, <1>14
<1> QED BY <1>13, <1>14 DEF m, r, frames, row

-----------------------------------------------------------------------------
(* through users, and of a field.                                          *)

(* SET of a row, by its key or by the key that an index gives.             *)
LEMMA SetBelowUsers ==
  ASSUME NEW d, IsTableDb(d), NEW x, IsIndex(x), NEW k \in RowKey, NEW create \in BOOLEAN, Makes(create),
         NEW value, IsRow(value)
  PROVE  LET m == SetResult(Descend(Walked(d, x, AtUsers, Going), k, create), value).m
         IN Thrown(m) \/ \E e, y : m = M(e, y) /\ RowGiven(d, x, k, Attrs(value, <<>>), e, y)
<1> DEFINE row == RowOf(k)
           h == IF row \in DOMAIN d THEN d ELSE Graft(d, row, Leaf(Empty))
<1>1. k \in Name /\ Halt(k) = Going /\ row \in Path /\ DOMAIN d \subseteq Path
  BY Keys, RowPaths, TableDb DEF Halt, Going
<1>2. Descend(Walked(d, x, AtUsers, Going), k, create) = Walked(h, x, AtRow(k, row), Going)
  BY <1>1, DescendToRow
<1>3. DOMAIN h \subseteq Path /\ AwayFrom(d, h, k) /\ row \in DOMAIN h
  <2>1. CASE row \in DOMAIN d
    BY <1>1, <2>1, AwaySelf
  <2>2. CASE row \notin DOMAIN d
    <3>1. IsPrefix(RowOf(k), row)
      BY <1>1, OwnPrefix
    <3> QED BY <1>1, <2>2, <3>1, LeafObject, GraftAway
  <2> QED BY <2>1, <2>2
<1>4. Attrs(h, row) = RowIn(d, k)
  <2>1. CASE row \in DOMAIN d
    BY <2>1, RowInIs
  <2>2. CASE row \notin DOMAIN d
    <3>1. Attrs(h, row) = Attrs(Leaf(Empty), <<>>)
      BY <1>1, <2>2, LeafObject, AttrsOfGraft
    <3>2. Attrs(Leaf(Empty), <<>>) = NoFields
      BY LeafObject DEF NoFields, Attrs
    <3> QED BY <2>2, <3>1, <3>2, RowInIs
  <2> QED BY <2>1, <2>2
<1> HIDE DEF h
<1>5. LET m == SetResult(Walked(h, x, AtRow(k, RowOf(k)), Going), value).m
      IN Thrown(m) \/ \E e, y : m = M(e, y) /\ RowGiven(d, x, k, Attrs(value, <<>>), e, y)
  BY <1>3, <1>4, SetAtRow
<1> QED BY <1>2, <1>5

(* Databases that differ at the empty key alone differ in Empty objects.    *)
LEMMA BlankIsEmpty ==
  ASSUME NEW d, IsTableDb(d), NEW e, IsTableDb(e), AwayFrom(d, e, Blank)
  PROVE  Solid(e) = Solid(d)
<1>1. ASSUME NEW b, IsTableDb(b), NEW q \in DOMAIN b, IsPrefix(RowOf(Blank), q) PROVE b[q] = Empty
  <2>1. q \in Path /\ DOMAIN b \subseteq Path /\ Blank \in Name
    BY <1>1, TableDb, Literals
  <2>2. q # <<>> /\ q # Users
    BY <1>1, <2>1, RowPrefix
  <2>3. PICK k \in Name : IsPrefix(RowOf(k), q) /\ SoundRow(b, k)
    BY <1>1, <2>1, <2>2, RowByRow
  <2>4. k = Blank
    BY <1>1, <2>1, <2>3, RowsApart
  <2> QED BY <1>1, <2>3, <2>4, Literals DEF SoundRow
<1>2. DOMAIN d \subseteq Path /\ DOMAIN e \subseteq Path
  BY TableDb
<1>3. ASSUME NEW q PROVE /\ q \in DOMAIN e /\ e[q] # Empty <=> q \in DOMAIN d /\ d[q] # Empty
                         /\ q \in DOMAIN e /\ e[q] # Empty => e[q] = d[q]
  <2>1. CASE q \in Path /\ ~IsPrefix(RowOf(Blank), q)
    BY <2>1 DEF AwayFrom, SameAt
  <2>2. CASE q \notin Path \/ IsPrefix(RowOf(Blank), q)
    BY <1>1, <1>2, <2>2
  <2> QED BY <2>1, <2>2
<1>4. {q \in DOMAIN e : e[q] # Empty} = {q \in DOMAIN d : d[q] # Empty}
  BY <1>3
<1> QED BY <1>3, <1>4 DEF Solid

BlankGiven(d, e) ==
  /\ IsTableDb(e) /\ Phantom(e) = TRUE /\ RowsIn(e) = RowsIn(d)
  /\ Solid(e) = Solid(d)

(* SET through a field that finds nothing is refused and leaves an Empty   *)
(* object under the empty key.                                             *)
LEMMA SetBelowBlank ==
  ASSUME NEW d, IsTableDb(d), NEW x, IsIndex(x), NEW create \in BOOLEAN, Makes(create), NEW value
  PROVE  \E e : /\ SetResult(Descend(Walked(d, x, AtUsers, Going), Blank, create), value).m = M(e, x)
                /\ BlankGiven(d, e)
<1> DEFINE row == RowOf(Blank)
           e == IF row \in DOMAIN d THEN d ELSE Graft(d, row, Leaf(Empty))
<1>1. Blank \in Name /\ row \in Path /\ DOMAIN d \subseteq Path /\ Halt(Blank) /\ row # NoObj
  BY Literals, RowPaths, TableDb, Keys DEF Halt, Blank
<1>2. Descend(Walked(d, x, AtUsers, Going), Blank, create) = Walked(e, x, AtRow(Blank, row), Halt(Blank))
  BY <1>1, DescendToRow
<1>3. Last(AtRow(Blank, row)).key = Blank
  BY <1>1, FramesOfRow
<1>4. DOMAIN e \subseteq Path /\ AwayFrom(d, e, Blank) /\ row \in DOMAIN e
  <2>1. CASE row \in DOMAIN d
    BY <1>1, <2>1, AwaySelf
  <2>2. CASE row \notin DOMAIN d
    <3>1. IsPrefix(RowOf(Blank), row)
      BY <1>1, OwnPrefix
    <3> QED BY <1>1, <2>2, <3>1, LeafObject, GraftAway
  <2> QED BY <2>1, <2>2
<1>5. SoundRow(e, Blank)
  <2>1. CASE row \in DOMAIN d
    <3>1. PICK k \in Name : IsPrefix(RowOf(k), row) /\ SoundRow(d, k)
      <4>1. row # <<>> /\ row # Users
        BY <1>1, RowPaths
      <4> QED BY <1>1, <2>1, <4>1, RowByRow
    <3>2. k = Blank
      <4>1. IsPrefix(RowOf(Blank), row)
        BY <1>1, OwnPrefix
      <4> QED BY <1>1, <3>1, <4>1, RowsApart
    <3> QED BY <2>1, <3>1, <3>2
  <2>2. CASE row \notin DOMAIN d
    <3>1. \A q \in Path : IsPrefix(row, q) =>
            /\ q \in DOMAIN Graft(d, row, Leaf(Empty)) <=> Below(row, q) \in DOMAIN Leaf(Empty)
            /\ Below(row, q) \in DOMAIN Leaf(Empty)
                 => Graft(d, row, Leaf(Empty))[q] = Leaf(Empty)[Below(row, q)]
      BY <1>1, LeafObject, Grafted DEF IsObject
    <3>2. \A q \in DOMAIN e : IsPrefix(row, q) => q = row /\ e[q] = Empty
      <4> SUFFICES ASSUME NEW q \in DOMAIN e, IsPrefix(row, q) PROVE q = row /\ e[q] = Empty
        OBVIOUS
      <4>1. q \in Path /\ Below(row, q) = <<>> /\ e[q] = Leaf(Empty)[<<>>]
        BY <1>4, <2>2, <3>1, LeafObject
      <4>2. row \o Below(row, q) = q /\ row \o <<>> = row
        BY <1>1, <4>1, BelowPath, OwnPrefix
      <4> QED BY <4>1, <4>2, LeafObject
    <3> QED BY <3>2 DEF SoundRow
  <2> QED BY <2>1, <2>2
<1> HIDE DEF e
<1>6. IsTableDb(e) /\ Phantom(e) = TRUE /\ RowsIn(e) = RowsIn(d)
  BY <1>4, <1>5, BlankMade
<1>7. SetResult(Walked(e, x, AtRow(Blank, row), Halt(Blank)), value).m = M(e, x)
  <2> DEFINE frames == AtRow(Blank, row)
             stop == Halt(Blank)
  <2>1. Halt(Last(frames).key)
    BY <1>1, <1>3
  <2> HIDE DEF frames, stop
  <2>2. SetResult(Walked(e, x, frames, stop), value).m = M(e, x)
    BY <2>1, SetRefused
  <2> QED BY <2>2 DEF frames, stop
<1>8. BlankGiven(d, e)
  BY <1>4, <1>6, BlankIsEmpty DEF BlankGiven
<1> QED BY <1>2, <1>6, <1>7, <1>8

(* SET of a field.                                                         *)
FieldGiven(d, k, f, v, e) ==
  /\ IsTableDb(e) /\ Phantom(e) = Phantom(d)
  /\ RowsIn(e) = [j \in DOMAIN RowsIn(d) \cup {k} |->
                    IF j = k THEN [RowIn(d, k) EXCEPT ![f] = v] ELSE RowsIn(d)[j]]

(* A row that is now a dict with the field gives the table that field.     *)
LEMMA FieldGivenBy ==
  ASSUME NEW d, IsTableDb(d), NEW k \in RowKey, NEW f \in Written, NEW v,
         NEW e, DOMAIN e \subseteq Path, AwayFrom(d, e, k), RowOf(k) \in DOMAIN e, e[RowOf(k)] = Dict,
         \A g \in Field : Attrs(e, RowOf(k))[g] = IF g = f THEN v ELSE RowIn(d, k)[g]
  PROVE  FieldGiven(d, k, f, v, e)
<1> DEFINE r == Attrs(e, RowOf(k))
           old == RowIn(d, k)
<1>1. r \in Row /\ old \in Row
  <2>1. r \in Row
    BY AttrsAreRow
  <2>2. old \in Row
    BY RowInIs, AttrsAreRow DEF NoFields, Row
  <2> QED BY <2>1, <2>2
<1> HIDE DEF r, old
<1>2. r = [old EXCEPT ![f] = v]
  BY <1>1 DEF Row, r, old
<1>3. e[RowOf(k)] \notin {List, Empty}
  BY Literals
<1>4. /\ IsTableDb(e) /\ Phantom(e) = Phantom(d)
      /\ RowsIn(e) = [j \in DOMAIN RowsIn(d) \cup {k} |-> IF j = k THEN Attrs(e, RowOf(k)) ELSE RowsIn(d)[j]]
  BY <1>3, RowWritten
<1> QED BY <1>2, <1>4 DEF FieldGiven, r, old

(* SET of a field gives the row that field, and tells no mapper.           *)
LEMMA SetOfField ==
  ASSUME NEW d, IsTableDb(d), NEW x, IsIndex(x), NEW k \in RowKey, NEW f \in Written,
         NEW create \in BOOLEAN, Makes(create), NEW value, IsObject(value)
  PROVE  \E e : /\ SetResult(TraverseTo(M(d, x), AddressOfField(k, f), create), value).m = M(e, x)
                /\ FieldGiven(d, k, f, Seen(value), e)
<1> DEFINE p == FieldOf(k, f)
           frames == AtField(k, f, RowOf(k), p)
<1>1. k \in Name /\ f \in Name /\ p \in Path /\ RowOf(k) \in Path /\ p # NoObj /\ ~Halt(f)
  <2>1. k \in Name /\ f \in Name /\ ~Halt(f) /\ NoObj \notin Path
    BY Keys DEF Halt
  <2> QED BY <2>1, RowPaths, FieldPaths
<1>2. PICK h : /\ TraverseTo(M(d, x), AddressOfField(k, f), create) = Walked(h, x, frames, Going)
               /\ FieldMade(d, h, k, f)
  BY WalkToFieldMade
<1>3. Last(frames).key = f /\ Last(frames).obj = p /\ Location(frames) = p /\ Deep(frames)
  BY <1>1, FramesOfField
<1>4. p \notin NodesOf(x)
  BY <1>1, NoNodeBelow
<1> DEFINE e == Graft(h, p, value)
           m == SetResult(Walked(h, x, frames, Going), value).m
<1>5. DOMAIN h \subseteq Path /\ AwayFrom(d, h, k) /\ RowOf(k) \in DOMAIN h /\ h[RowOf(k)] = Dict
  BY <1>2 DEF FieldMade
<1>6. /\ DOMAIN e \subseteq Path /\ AwayFrom(h, e, k) /\ RowOf(k) \in DOMAIN e /\ e[RowOf(k)] = Dict
      /\ \A g \in Field : Attrs(e, RowOf(k))[g] = IF g = f THEN Seen(value) ELSE Attrs(h, RowOf(k))[g]
  BY <1>1, <1>5, FieldGrafted
<1>7. \A g \in Field \ {f} : Attrs(h, RowOf(k))[g] = RowIn(d, k)[g]
  <2>1. ASSUME NEW g \in Field \ {f} PROVE Attrs(h, RowOf(k))[g] = RowIn(d, k)[g]
    <3>1. Attrs(h, RowOf(k))[g] = IF RowOf(k) \in DOMAIN d THEN Attrs(d, RowOf(k))[g] ELSE NoVal
      BY <1>2 DEF FieldMade
    <3>2. CASE RowOf(k) \in DOMAIN d
      BY <3>1, <3>2, RowInIs
    <3>3. CASE RowOf(k) \notin DOMAIN d
      <4>1. RowIn(d, k) = NoFields
        BY <3>3, RowInIs
      <4> QED BY <3>1, <3>3, <4>1 DEF NoFields
    <3> QED BY <3>2, <3>3
  <2> QED BY <2>1
<1> HIDE DEF p, frames, e, m
<1>8. AwayFrom(d, e, k)
  BY <1>5, <1>6, AwayTransitive
<1>9. FieldGiven(d, k, f, Seen(value), e)
  <2>1. \A g \in Field : Attrs(e, RowOf(k))[g] = IF g = f THEN Seen(value) ELSE RowIn(d, k)[g]
    BY <1>6, <1>7
  <2> QED BY <1>6, <1>8, <2>1, FieldGivenBy
<1>10. m = Assigned(Walked(h, x, frames, Going), value)
  BY <1>1, <1>3, SetTaken DEF m
<1>11. HandleDelete(M(h, x), frames) = M(h, x)
  BY <1>1, <1>3, <1>5, NothingBelow DEF p
<1>12. Assigned(Walked(h, x, frames, Going), value) = HandleCreate(M(e, x), frames)
  BY <1>3, <1>4, <1>11, AssignedTo DEF e
<1>13. HandleCreate(M(e, x), frames) = M(e, x)
  BY <1>1, <1>3, <1>6, NothingBelow DEF p
<1> QED BY <1>2, <1>9, <1>10, <1>12, <1>13 DEF m

-----------------------------------------------------------------------------
(* SET of users.                                                           *)

(* SET of users.                                                           *)
LEMMA BelowUsers ==
  ASSUME NEW p \in Path, IsPrefix(Users, p), p # Users
  PROVE  /\ Below(Users, p) \in Path /\ Below(Users, p) # <<>> /\ Below(Users, p)[1] = p[2]
         /\ p[2] \in Name /\ IsPrefix(RowOf(p[2]), p)
<1>1. Below(Users, p) \in Path /\ Users \o Below(Users, p) = p
  BY PathsOfUsers, BelowPath
<1>2. Below(Users, p) # <<>>
  BY <1>1, PathsOfUsers, OwnPrefix
<1> DEFINE r == Below(Users, p)
<1>3. r[1] = (Users \o r)[2]
  <2>1. r \in Seq(Name) /\ Users \in Seq(Name) /\ Len(Users) = 1
    BY <1>1, PathsOfUsers DEF Path
  <2>2. Len(r) >= 1
    BY <1>2, <2>1
  <2> HIDE DEF r
  <2> QED BY <2>1, <2>2, JoinedSecond
<1> QED BY <1>1, <1>2, <1>3, RowAbove

(* Users with a new table is users alone, without an Empty object.         *)
LEMMA UsersGiven ==
  ASSUME NEW d, IsTableDb(d), NEW value, IsTable(value)
  PROVE  LET e == Graft(d, Users, value) IN IsTableDb(e) /\ Phantom(e) = FALSE
<1> DEFINE e == Graft(d, Users, value)
<1>1. DOMAIN d \subseteq Path /\ <<>> \in DOMAIN d /\ d[<<>>] = Dict
  BY TableDb
<1>2. /\ DOMAIN value \subseteq Path /\ <<>> \in DOMAIN value /\ value[<<>>] = Dict
      /\ \A p \in DOMAIN value \ {<<>>} :
           p[1] \in RowKey /\ <<p[1]>> \in DOMAIN value /\ value[<<p[1]>>] \notin {List, Empty}
  BY DEF IsTable, IsObject
<1>3. /\ DOMAIN e \subseteq Path
      /\ \A q \in Path : IsPrefix(Users, q) =>
           /\ q \in DOMAIN e <=> Below(Users, q) \in DOMAIN value
           /\ Below(Users, q) \in DOMAIN value => e[q] = value[Below(Users, q)]
      /\ \A q \in Path : ~IsPrefix(Users, q) =>
           /\ q \in DOMAIN e <=> q \in DOMAIN d
           /\ q \in DOMAIN d => e[q] = d[q]
  BY <1>1, <1>2, PathsOfUsers, Grafted
<1> HIDE DEF e
<1>4. IsPrefix(Users, Users) /\ Below(Users, Users) = <<>>
  BY PathsOfUsers, OwnPrefix
<1>5. ~IsPrefix(Users, <<>>)
  BY PathsOfUsers, PrefixPointwise
<1>6. /\ <<>> \in DOMAIN e /\ Users \in DOMAIN e /\ e[<<>>] = Dict /\ e[Users] = Dict
  BY <1>1, <1>2, <1>3, <1>4, <1>5, PathsOfUsers
<1>7. \A k \in Name : Below(Users, RowOf(k)) = <<k>> /\ IsPrefix(Users, RowOf(k)) /\ RowOf(k) \in Path
  BY PathsOfUsers, AppendedPath DEF RowOf, Child
<1>8. ASSUME NEW p \in DOMAIN e \ {<<>>, Users}
      PROVE  \E k \in Name : IsPrefix(RowOf(k), p) /\ SoundRow(e, k)
  <2>1. p \in Path
    BY <1>3
  <2>2. IsPrefix(Users, p)
    <3> SUFFICES ASSUME ~IsPrefix(Users, p) PROVE FALSE
      OBVIOUS
    <3>1. p \in DOMAIN d
      BY <1>3, <2>1
    <3>2. PICK k \in Name : IsPrefix(RowOf(k), p)
      BY <1>1, <3>1, RowByRow
    <3> QED BY <2>1, <3>2, RowPrefix
  <2>3. PICK k \in Name : k = p[2] /\ IsPrefix(RowOf(k), p)
    BY <2>1, <2>2, BelowUsers
  <2>4. k \in RowKey /\ <<k>> \in DOMAIN value /\ value[<<k>>] \notin {List, Empty}
    BY <1>2, <1>3, <2>1, <2>2, <2>3, BelowUsers
  <2>5. RowOf(k) \in DOMAIN e /\ e[RowOf(k)] = value[<<k>>]
    BY <1>3, <1>7, <2>4
  <2> QED BY <2>3, <2>4, <2>5 DEF SoundRow
<1>9. IsTableDb(e)
  BY <1>3, <1>6, <1>8, RowByRow
<1>10. RowOf(Blank) \notin DOMAIN e
  <2>1. Blank \in Name /\ Blank \notin RowKey /\ <<Blank>> # <<>> /\ <<Blank>>[1] = Blank
    BY Literals
  <2> QED BY <1>2, <1>3, <1>7, <2>1
<1> QED BY <1>9, <1>10 DEF Phantom, e

(* handleCreate registers nothing when there is no mapper.                 *)
LEMMA NoneCreated ==
  ASSUME NEW m, NEW frames, Len(frames) # 1, DOMAIN m.mappings = {}, PointerFault(m, {}) = m,
         m.mappers = NoMappers
  PROVE  HandleCreate(m, frames) = [m EXCEPT !.mappers = NoMappers]
<1> DEFINE region == Region(m, frames)
           used == {i \in DOMAIN m.mappings : Hits(m.mappings[i], region) # {}}
           told(n) ==
             {<<Attrs(m.db, region[L]), <<Last(L)>>>> : L \in {L \in DOMAIN region : Front(L) = n}}
             \cup {<<Attrs(m.db, region[L]), L>> :
                     L \in UNION {Hits(m.mappings[i], region) :
                                    i \in {i \in used : TellsAt(m.mappings[i], n)}}}
           m1 == PointerFault(m, used)
<1>1. m1 = m
  <2>1. used = {}
    OBVIOUS
  <2> QED BY <2>1
<1>2. HandleCreate(m, frames) =
        IF Len(frames) = 1 THEN m
        ELSE IF \E n \in DOMAIN m.mappers : RegisterClash(m.mappers[n], told(n))
             THEN Faulted(m1, "throw")
             ELSE [m1 EXCEPT !.mappers = [n \in DOMAIN @ |-> RegisterAll(@[n], told(n))]]
  BY DEF HandleCreate
<1>3. DOMAIN m.mappers = {}
  BY DEF NoMappers
<1> HIDE DEF m1, told, used, region
<1>4. [n \in DOMAIN m1.mappers |-> RegisterAll(m1.mappers[n], told(n))] = NoMappers
  BY <1>1, <1>3 DEF NoMappers
<1> QED BY <1>1, <1>2, <1>3, <1>4

(* SET of users replaces it and destroys its index node.                   *)
LEMMA SetOfUsers ==
  ASSUME NEW d, IsTableDb(d), NEW x, IsIndex(x), NEW value
  PROVE  LET m == SetResult(Walked(d, x, AtUsers, Going), value).m
         IN /\ m.db = Graft(d, Users, value) /\ m.nodes = NodesOf(NoMappers)
            /\ m.mappers = NoMappers /\ m.mappings = <<>>
<1> DEFINE t == Walked(d, x, AtUsers, Going)
           frames == AtUsers
           e == Graft(d, Users, value)
           gone == Sound(d, NodesOf(x) \ Gone(d, x, Users), Remaining(d, x, Users))
           root == NodesOf(NoMappers)
           freed == /\ Len(t.frames) > 1 /\ HasNode(t.m, t.frames)
                    /\ t.m.db[Last(t.frames).obj] # Empty /\ DOMAIN value # {<<>>}
           m1 == [HandleDelete(t.m, t.frames) EXCEPT !.db = Graft(@, Last(t.frames).obj, value)]
           m2 == IF freed THEN Faulted(m1, "undefined") ELSE m1
<1>1. Location(frames) = Users /\ Last(frames).obj = Users /\ Last(frames).key = UsersKey /\ Deep(frames)
  BY PlacesOfUsers DEF Leads
<1>2. ~Halt(UsersKey) /\ Users \in Path /\ Users # NoObj /\ Users # <<>>
  <2>1. ~Halt(UsersKey) /\ NoObj \notin Path
    BY Keys DEF Halt
  <2> QED BY <2>1, PathsOfUsers
<1>3. DOMAIN d \subseteq Path /\ d[Users] # Empty
  BY TableDb, Literals
<1> HIDE DEF frames
<1>4. SetResult(Walked(d, x, frames, Going), value).m = Assigned(Walked(d, x, frames, Going), value)
  BY <1>1, <1>2, SetTaken
<1>5. HandleDelete(M(d, x), frames) = gone
  BY <1>1, <1>2, <1>3, Deleted
<1>6. NodesOf(x) \ Gone(d, x, Users) = root /\ Remaining(d, x, Users) = NoMappers
  <2>1. IsPrefix(Users, Users) /\ ~IsPrefix(Users, <<>>)
    BY PathsOfUsers, OwnPrefix, PrefixPointwise
  <2>2. Gone(d, x, Users) = DOMAIN x
    BY <1>2, <1>3, <2>1, OnlyUsers DEF Gone, NodesOf
  <2>3. NodesOf(x) \ DOMAIN x = {<<>>}
    BY <1>2, OnlyUsers DEF NodesOf
  <2> QED BY <2>2, <2>3 DEF Remaining, NoMappers, NodesOf
<1>7. gone = Sound(d, root, NoMappers)
  BY <1>6
<1> HIDE DEF gone, root, e
<1>8. t.m = M(d, x) /\ t.frames = frames
  BY DEF Walked, frames
<1>9. m1 = Sound(e, root, NoMappers)
  <2>1. m1 = [Sound(d, root, NoMappers) EXCEPT !.db = Graft(@, Users, value)]
    BY <1>1, <1>5, <1>7, <1>8
  <2>2. Sound(d, root, NoMappers).db = d
    BY DEF Sound, Machine
  <2>3. m1 = [Sound(d, root, NoMappers) EXCEPT !.db = e]
    BY <2>1, <2>2 DEF e
  <2>4. [Sound(d, root, NoMappers) EXCEPT !.db = e] = Sound(e, root, NoMappers)
    BY DEF Sound, Machine
  <2> QED BY <2>3, <2>4
<1>10. Assigned(t, value) = HandleCreate(m2, t.frames)
  BY DEF Assigned
<1> HIDE DEF m1, freed, t
<1>11. /\ m2.db = e /\ m2.nodes = root /\ m2.mappers = NoMappers /\ m2.mappings = <<>>
       /\ [m2 EXCEPT !.mappers = NoMappers] = m2
  BY <1>9 DEF Sound, Machine, Faulted
<1>12. PointerFault(m2, {}) = m2 /\ DOMAIN m2.mappings = {}
  BY <1>11 DEF PointerFault
<1> HIDE DEF m2
<1>13. HandleCreate(m2, frames) = [m2 EXCEPT !.mappers = NoMappers]
  <2>1. Len(frames) # 1
    BY <1>1 DEF Deep
  <2> QED BY <1>11, <1>12, <2>1, NoneCreated
<1>14. SetResult(Walked(d, x, AtUsers, Going), value).m = m2
  BY <1>4, <1>8, <1>10, <1>11, <1>13 DEF t, frames
<1> QED BY <1>11, <1>14 DEF e, root

-----------------------------------------------------------------------------
(* DELETE.                                                                 *)

(* DELETE where a walk has ended.                                          *)
LEMMA CutAway ==
  ASSUME NEW d, NEW p
  PROVE  /\ \A q : q \in DOMAIN Cut(d, p) <=> q \in DOMAIN d /\ ~IsPrefix(p, q)
         /\ \A q \in DOMAIN Cut(d, p) : Cut(d, p)[q] = d[q]
BY DEF Cut, Under

(* DELETE of an address whose traversal threw does no more.                *)
LEMMA DelThrown ==
  ASSUME NEW t, Thrown(t.m)
  PROVE  DelResult(t).m = t.m
BY DEF DelResult, Refused, Thrown

(* DELETE of an address that ended in the empty key is refused.            *)
LEMMA DelRefused ==
  ASSUME NEW d, NEW x, NEW frames, NEW stop, Halt(Last(frames).key)
  PROVE  DelResult(Walked(d, x, frames, stop)).m = M(d, x)
<1> DEFINE t == Walked(d, x, frames, stop)
<1>1. t.frames = frames /\ t.m = M(d, x)
  BY DEF Walked
<1>2. Invalid(t, FALSE)
  BY <1>1 DEF Invalid, Halt
<1> HIDE DEF t
<1> QED BY <1>1, <1>2 DEF DelResult, Refused, t

(* DELETE below no object, or below one without children, ends the         *)
(* process.                                                                *)
LEMMA DelNowhere ==
  ASSUME NEW d, NEW x, NEW frames, ~Halt(Last(frames).key), Deep(frames),
         Above(frames) = NoObj \/ d[Above(frames)] \notin {Dict, List}
  PROVE  Thrown(DelResult(Walked(d, x, frames, Going)).m)
<1> DEFINE t == Walked(d, x, frames, Going)
           parent == t.frames[Len(t.frames) - 1].obj
<1>1. t.frames = frames /\ t.m = M(d, x) /\ t.m.fault = "none" /\ t.m.db = d
  BY DEF Walked, M, Machine
<1>2. ~Invalid(t, FALSE) /\ Len(t.frames) # 1 /\ parent = Above(frames)
  BY <1>1 DEF Invalid, Halt, Deep, Above
<1>3. parent = NoObj \/ ~Indexable(t.m.db, parent)
  BY <1>1, <1>2 DEF Indexable
<1>4. Thrown(Faulted(t.m, "throw"))
  BY <1>1 DEF Thrown, Faulted, M, Machine
<1>5. DelResult(t).m = Faulted(t.m, "throw")
  <2> HIDE DEF t
  <2> QED BY <1>1, <1>2, <1>3 DEF DelResult, Refused
<1> QED BY <1>4, <1>5

(* DELETE from a dict is handleDelete and the removal, or refused when     *)
(* there is no such child.                                                 *)
LEMMA DelFromDict ==
  ASSUME NEW d, NEW x, NEW frames, ~Halt(Last(frames).key), Deep(frames),
         NEW p, Above(frames) = p, p # NoObj, d[p] = Dict
  PROVE  /\ Last(frames).key \notin KeysOf(d, p) => DelResult(Walked(d, x, frames, Going)).m = M(d, x)
         /\ \A z : Last(frames).key \in KeysOf(d, p) /\ HandleDelete(M(d, x), frames) = M(d, z) =>
              DelResult(Walked(d, x, frames, Going)).m = M(Cut(d, Child(p, Last(frames).key)), z)
<1> DEFINE t == Walked(d, x, frames, Going)
           parent == t.frames[Len(t.frames) - 1].obj
           key == Last(t.frames).key
           cut == [HandleDelete(t.m, t.frames) EXCEPT !.db = Cut(@, Append(parent, key))]
<1>1. t.frames = frames /\ t.m = M(d, x) /\ t.m.fault = "none" /\ t.m.db = d
  BY DEF Walked, M, Machine
<1>2. ~Invalid(t, FALSE) /\ Len(t.frames) # 1 /\ parent = p /\ key = Last(frames).key
  BY <1>1 DEF Invalid, Halt, Deep, Above
<1>3. Indexable(t.m.db, parent) /\ t.m.db[parent] # List /\ parent # NoObj
  BY <1>1, <1>2, Literals DEF Indexable
<1>4. DelResult(t).m = IF key \in KeysOf(t.m.db, parent) THEN cut ELSE t.m
  <2> HIDE DEF t, cut
  <2>1. ~(t.m.fault # "none" \/ Invalid(t, FALSE)) /\ Len(t.frames) # 1
        /\ ~(parent = NoObj \/ ~Indexable(t.m.db, parent)) /\ t.m.db[parent] # List
    BY <1>1, <1>2, <1>3
  <2>2. DelResult(t) = IF key \in KeysOf(t.m.db, parent) THEN Done(cut) ELSE Refused(t.m)
    BY <2>1 DEF DelResult, cut
  <2> QED BY <2>2 DEF Done, Refused
<1>5. ASSUME NEW z, HandleDelete(M(d, x), frames) = M(d, z)
      PROVE  cut = M(Cut(d, Child(p, Last(frames).key)), z)
  <2> DEFINE e == Cut(d, Child(p, Last(frames).key))
  <2>1. cut = [M(d, z) EXCEPT !.db = Cut(@, Append(p, Last(frames).key))]
    BY <1>1, <1>2, <1>5
  <2>2. M(d, z).db = d
    BY SoundMachine
  <2>3. cut = [M(d, z) EXCEPT !.db = e]
    BY <2>1, <2>2 DEF Child
  <2> HIDE DEF e, cut
  <2>4. [M(d, z) EXCEPT !.db = e] = M(e, z)
    BY DEF M, Machine
  <2> QED BY <2>3, <2>4 DEF e
<1> HIDE DEF cut, t
<1> QED BY <1>1, <1>2, <1>4, <1>5 DEF t

(* DELETE of a row.                                                        *)
RowGone(d, x, k, e, y) ==
  /\ IsTableDb(e) /\ IsIndex(y) /\ Phantom(e) = Phantom(d)
  /\ RowsIn(e) = [j \in DOMAIN RowsIn(d) \ {k} |-> RowsIn(d)[j]]
  /\ MapperIn(y) = IF k \in DOMAIN RowsIn(d) THEN Unregister(MapperIn(x), RowsIn(d)[k]) ELSE MapperIn(x)

(* DELETE of a row takes it out of the document and of the mapper.         *)
LEMMA DelBelowUsers ==
  ASSUME NEW d, IsTableDb(d), NEW x, IsIndex(x), NEW k \in RowKey, NEW create \in BOOLEAN, ~Makes(create)
  PROVE  \E e, y : /\ DelResult(Descend(Walked(d, x, AtUsers, Going), k, create)).m = M(e, y)
                   /\ RowGone(d, x, k, e, y)
<1> DEFINE row == RowOf(k)
           o == IF row \in DOMAIN d THEN row ELSE NoObj
           frames == AtRow(k, o)
           m == DelResult(Walked(d, x, frames, Going)).m
<1>1. k \in Name /\ Halt(k) = Going /\ ~Halt(k) /\ row \in Path /\ DOMAIN d \subseteq Path
      /\ d[Users] = Dict /\ Users # NoObj
  <2>1. NoObj \notin Path /\ k \in Name /\ Halt(k) = Going /\ ~Halt(k)
    BY Keys DEF Halt, Going
  <2> QED BY <2>1, RowPaths, TableDb, PathsOfUsers
<1>2. Descend(Walked(d, x, AtUsers, Going), k, create) = Walked(d, x, frames, Going)
  BY <1>1, DescendToRow
<1>3. /\ Last(frames).key = k /\ Last(frames).obj = o
      /\ Location(frames) = row /\ Deep(frames) /\ Above(frames) = Users
  BY <1>1, FramesOfRow
<1>4. k \in KeysOf(d, Users) <=> row \in DOMAIN d
  BY <1>1, RowsRead
<1> HIDE DEF frames, m
<1>5. CASE row \notin DOMAIN d
  <2>1. m = M(d, x)
    BY <1>1, <1>3, <1>4, <1>5, DelFromDict DEF m
  <2>2. RowsIn(d) = [j \in DOMAIN RowsIn(d) \ {k} |-> RowsIn(d)[j]] /\ k \notin DOMAIN RowsIn(d)
    <3>1. k \notin DOMAIN RowsIn(d)
      BY <1>5, RowInIs
    <3>2. RowsIn(d) = [j \in {j \in RowKey : RowOf(j) \in DOMAIN d} |-> Attrs(d, RowOf(j))]
      BY <1>1, RowsRead
    <3> QED BY <3>1, <3>2
  <2>3. RowGone(d, x, k, d, x)
    BY <2>2 DEF RowGone
  <2> QED BY <1>2, <2>1, <2>3 DEF m
<1>6. CASE row \in DOMAIN d
  <2> DEFINE e == Cut(d, row)
             old == Attrs(d, row)
             z == Unlisted(x, old)
  <2>1. HandleDelete(M(d, x), frames) = M(d, z)
    BY <1>1, <1>3, <1>6, RowDeleted
  <2>2. old \in Row
    BY AttrsAreRow
  <2> HIDE DEF old
  <2>3. IsIndex(z) /\ MapperIn(z) = Unregister(MapperIn(x), old)
    BY <2>2, IndexUnlisted
  <2> HIDE DEF z
  <2>4. Child(Users, k) = row
    BY DEF RowOf
  <2>5. m = M(e, z)
    <3>1. m = M(Cut(d, Child(Users, Last(frames).key)), z)
      BY <1>1, <1>3, <1>4, <1>6, <2>1, DelFromDict DEF m
    <3> QED BY <1>3, <2>4, <3>1
  <2>6. DOMAIN e \subseteq Path /\ AwayFrom(d, e, k) /\ \A q \in DOMAIN e : ~IsPrefix(row, q)
    BY <1>1, CutAway DEF AwayFrom, SameAt
  <2> HIDE DEF e, row
  <2>7. /\ IsTableDb(e) /\ Phantom(e) = Phantom(d)
        /\ RowsIn(e) = [j \in DOMAIN RowsIn(d) \ {k} |-> RowsIn(d)[j]]
    BY <2>6, RowRemoved DEF row
  <2>8. k \in DOMAIN RowsIn(d) /\ RowsIn(d)[k] = old
    BY <1>6, RowInIs DEF old, row
  <2>9. RowGone(d, x, k, e, z)
    BY <2>3, <2>7, <2>8 DEF RowGone
  <2> QED BY <1>2, <2>5, <2>9 DEF m
<1> QED BY <1>5, <1>6

(* DELETE through a field that finds nothing changes nothing.              *)
LEMMA DelBelowBlank ==
  ASSUME NEW d, IsTableDb(d), NEW x, IsIndex(x), NEW create \in BOOLEAN, ~Makes(create)
  PROVE  DelResult(Descend(Walked(d, x, AtUsers, Going), Blank, create)).m = M(d, x)
<1> DEFINE row == RowOf(Blank)
           o == IF row \in DOMAIN d THEN row ELSE NoObj
           frames == AtRow(Blank, o)
           stop == Halt(Blank)
<1>1. Blank \in Name /\ Halt(Blank) /\ row \in Path
  BY Literals, RowPaths DEF Halt, Blank
<1>2. Descend(Walked(d, x, AtUsers, Going), Blank, create) = Walked(d, x, frames, stop)
  BY <1>1, DescendToRow
<1>3. Halt(Last(frames).key)
  BY <1>1, FramesOfRow
<1> HIDE DEF frames, stop
<1> QED BY <1>2, <1>3, DelRefused

(* DELETE of a field.                                                      *)
LEMMA FieldCut ==
  ASSUME NEW d, IsTableDb(d), NEW k \in RowKey, NEW f \in Written,
         RowOf(k) \in DOMAIN d, d[RowOf(k)] = Dict
  PROVE  FieldGiven(d, k, f, NoVal, Cut(d, FieldOf(k, f)))
<1> DEFINE e == Cut(d, FieldOf(k, f))
           row == RowOf(k)
<1>1. k \in Name /\ f \in Name /\ row \in Path /\ FieldOf(k, f) \in Path /\ DOMAIN d \subseteq Path
      /\ IsPrefix(row, FieldOf(k, f)) /\ IsPrefix(FieldOf(k, f), FieldOf(k, f)) /\ \A g \in Field : g \in Name
  <2>1. k \in Name /\ f \in Name /\ Field \subseteq Name
    BY Keys, RowKeyAssumption
  <2> QED BY <2>1, RowPaths, FieldPaths, TableDb, OwnPrefix
<1>2. DOMAIN e \subseteq Path /\ AwayFrom(d, e, k)
  <2>1. \A q \in Path : ~IsPrefix(row, q) => ~IsPrefix(FieldOf(k, f), q)
    BY <1>1, PrefixTransitive
  <2> QED BY <1>1, <2>1, CutAway DEF AwayFrom, SameAt
<1>3. row \in DOMAIN e /\ e[row] = Dict
  BY <1>1, FieldsApart, CutAway
<1>4. \A g \in Field : Attrs(e, row)[g] = IF g = f THEN NoVal ELSE Attrs(d, row)[g]
  <2> SUFFICES ASSUME NEW g \in Field PROVE Attrs(e, row)[g] = IF g = f THEN NoVal ELSE Attrs(d, row)[g]
    OBVIOUS
  <2>1. Append(row, g) = FieldOf(k, g)
    BY DEF FieldOf, Child
  <2>2. g = f => FieldOf(k, g) \notin DOMAIN e
    BY <1>1, CutAway
  <2>3. g # f => (FieldOf(k, g) \in DOMAIN e <=> FieldOf(k, g) \in DOMAIN d)
                 /\ (FieldOf(k, g) \in DOMAIN d => e[FieldOf(k, g)] = d[FieldOf(k, g)])
    BY <1>1, FieldsApart, CutAway
  <2> HIDE DEF e, row
  <2> QED BY <1>3, <2>1, <2>2, <2>3 DEF Attrs, row
<1>5. RowIn(d, k) = Attrs(d, row)
  BY RowInIs
<1> HIDE DEF e
<1> QED BY <1>2, <1>3, <1>4, <1>5, FieldGivenBy DEF e

(* DELETE of a field ends the process, changes nothing, or takes the field *)
(* from a row that is there.                                               *)
LEMMA DelOfField ==
  ASSUME NEW d, IsTableDb(d), NEW x, IsIndex(x), NEW k \in RowKey, NEW f \in Written,
         NEW create \in BOOLEAN, ~Makes(create)
  PROVE  LET m == DelResult(TraverseTo(M(d, x), AddressOfField(k, f), create)).m
         IN \/ Thrown(m)
            \/ m = M(d, x)
            \/ k \in DOMAIN RowsIn(d) /\ \E e : m = M(e, x) /\ FieldGiven(d, k, f, NoVal, e)
<1> DEFINE row == RowOf(k)
           p == FieldOf(k, f)
<1>1. k \in Name /\ f \in Name /\ ~Halt(f) /\ row \in Path /\ p \in Path /\ NoObj \notin Path /\ DOMAIN d \subseteq Path
  <2>1. k \in Name /\ f \in Name /\ ~Halt(f) /\ NoObj \notin Path
    BY Keys DEF Halt
  <2> QED BY <2>1, RowPaths, FieldPaths, TableDb
<1>2. PICK o \in Path \cup {NoObj}, r \in Path \cup {NoObj} :
           /\ TraverseTo(M(d, x), AddressOfField(k, f), create) = Walked(d, x, AtField(k, f, o, r), Going)
           /\ o = IF row \in DOMAIN d THEN row ELSE NoObj
           /\ o # NoObj /\ d[o] = Dict /\ p \in DOMAIN d => r = p
  BY WalkToFieldFound
<1> DEFINE frames == AtField(k, f, o, r)
           m == DelResult(Walked(d, x, frames, Going)).m
<1>3. Last(frames).key = f /\ Last(frames).obj = r /\ Location(frames) = p /\ Deep(frames) /\ Above(frames) = o
  BY <1>1, FramesOfField
<1> HIDE DEF frames, m, p, row
<1>4. CASE o = NoObj \/ d[o] \notin {Dict, List}
  BY <1>1, <1>2, <1>3, <1>4, DelNowhere DEF m, frames
<1>5. CASE o # NoObj /\ d[o] \in {Dict, List}
  <2>1. o = row /\ row \in DOMAIN d /\ d[row] = Dict
    <3>1. o = row /\ row \in DOMAIN d
      BY <1>2, <1>5
    <3>2. d[row] # List
      <4>1. RowOf(k) \in DOMAIN d
        BY <3>1 DEF row
      <4> QED BY <1>1, <4>1, TableDb, Literals DEF row
    <3> QED BY <1>5, <3>1, <3>2
  <2>2. f \in KeysOf(d, row) <=> p \in DOMAIN d
    BY <1>1, KeysAreChildren DEF p, FieldOf, Child, row
  <2>3. CASE p \notin DOMAIN d
    <3>1. m = M(d, x)
      BY <1>1, <1>3, <1>5, <2>1, <2>2, <2>3, DelFromDict DEF m
    <3> QED BY <1>2, <3>1 DEF m, frames
  <2>4. CASE p \in DOMAIN d
    <3>1. r = p
      BY <1>2, <1>5, <2>1, <2>4
    <3>2. HandleDelete(M(d, x), frames) = M(d, x)
      BY <1>1, <1>3, <3>1, NothingBelow DEF p
    <3>3. m = M(Cut(d, Child(row, Last(frames).key)), x)
      BY <1>1, <1>3, <1>5, <2>1, <2>2, <2>4, <3>2, DelFromDict DEF m
    <3>4. Child(row, Last(frames).key) = p
      BY <1>3 DEF p, FieldOf, row
    <3>5. m = M(Cut(d, p), x)
      BY <3>3, <3>4
    <3>6. FieldGiven(d, k, f, NoVal, Cut(d, p))
      BY <2>1, FieldCut DEF p, row
    <3>7. k \in DOMAIN RowsIn(d)
      BY <2>1, RowInIs DEF row
    <3> QED BY <1>2, <3>5, <3>6, <3>7 DEF m, frames
  <2> QED BY <2>3, <2>4
<1> QED BY <1>4, <1>5

-----------------------------------------------------------------------------
(* The end of a command, and GET.                                          *)

(* What a command that ends well does to the variables.                    *)
Took(e, y) ==
  /\ db' = e /\ nodes' = NodesOf(y) /\ mappers' = y /\ mappings' = <<>>
  /\ UNCHANGED <<status, disk>>
Failed == End("failed")

(* A command that threw ends the process; one that went well leaves its    *)
(* machine.                                                                *)
LEMMA Becomes ==
  ASSUME NEW m, NEW replies, Become(m, replies)
  PROVE  /\ Thrown(m) => Failed
         /\ \A e, y : m = M(e, y) => Took(e, y) /\ reply' \in replies
<1>1. ASSUME Thrown(m) PROVE Failed
  BY <1>1 DEF Become, Thrown, Failed
<1>2. ASSUME NEW e, NEW y, m = M(e, y) PROVE Took(e, y) /\ reply' \in replies
  <2>1. m.fault = "none" /\ m.db = e /\ m.nodes = NodesOf(y) /\ m.mappers = y /\ m.mappings = <<>>
    BY <1>2 DEF M, Machine
  <2> QED BY <2>1 DEF Become, Took
<1> QED BY <1>1, <1>2

(* A sound machine that throws has failed.                                 *)
LEMMA FaultedIsThrown ==
  ASSUME NEW d, NEW x
  PROVE  Thrown(Faulted(M(d, x), "throw"))
BY DEF Thrown, Faulted, M, Machine

(* A GET leaves its machine and its answer, or ends the process.           *)
LEMMA Sendings ==
  ASSUME NEW m, NEW got, Send(m, got)
  PROVE  /\ Thrown(m) => Failed
         /\ \A e, y : m = M(e, y) => Failed \/ (Took(e, y) /\ reply' = got)
<1> DEFINE sent == IF Serializable(got.doc) THEN m ELSE Faulted(m, "throw")
<1>1. Become(sent, {got})
  BY DEF Send
<1>2. Thrown(m) => Thrown(sent)
  BY DEF Thrown, Faulted
<1>3. \A e, y : m = M(e, y) => Thrown(sent) \/ sent = M(e, y)
  BY FaultedIsThrown
<1> DEFINE replies == {got}
<1>4. \A a : a \in replies => a = got
  OBVIOUS
<1> HIDE DEF sent, replies
<1>5. Become(sent, replies)
  BY <1>1 DEF replies
<1>6. /\ Thrown(sent) => Failed
      /\ \A e, y : sent = M(e, y) => Took(e, y) /\ reply' \in replies
  BY <1>5, Becomes
<1> QED BY <1>2, <1>3, <1>4, <1>6

(* GET through a field.                                                    *)
NoNames(names) == names = {}
Spot(d, k) == IF RowOf(k) \in DOMAIN d THEN RowOf(k) ELSE NoObj

(* An answer without a filter shows what a mapper sees of the row, no      *)
(* fields when there is none.                                              *)
LEMMA FoundBelowUsers ==
  ASSUME NEW d, IsTableDb(d), NEW x, NEW fields, NEW exclude, NoNames(fields), NoNames(exclude),
         NEW k \in Name, NEW stop
  PROVE  Attrs(Found(Walked(d, x, AtRow(k, Spot(d, k)), stop), fields, exclude), <<>>)
           = IF RowOf(k) \in DOMAIN d THEN Attrs(d, RowOf(k)) ELSE NoFields
<1> DEFINE o == Spot(d, k)
           frames == AtRow(k, o)
           t == Walked(d, x, frames, stop)
<1>0. o \in Path \cup {NoObj} /\ o = IF RowOf(k) \in DOMAIN d THEN RowOf(k) ELSE NoObj
  BY RowPaths DEF Spot
<1> HIDE DEF o
<1>1. Last(frames).obj = o
  BY <1>0, FramesOfRow
<1>2. NoObj \notin Path /\ RowOf(k) \in Path /\ DOMAIN d \subseteq Path
  BY Keys, RowPaths, TableDb
<1> HIDE DEF frames
<1>3. t.frames = frames /\ t.m.db = d
  BY DEF Walked, M, Machine
<1> HIDE DEF t
<1>4. Found(t, fields, exclude) = IF o = NoObj THEN Leaf(Empty) ELSE Filtered(ValueAt(d, o), fields, exclude)
  BY <1>1, <1>3 DEF Found
<1>5. Filtered(ValueAt(d, o), fields, exclude) = ValueAt(d, o)
  <2>1. fields \cup exclude = {}
    BY DEF NoNames
  <2> QED BY <2>1 DEF Filtered
<1>6. CASE RowOf(k) \in DOMAIN d
  <2>1. o = RowOf(k) /\ o # NoObj
    BY <1>0, <1>2, <1>6
  <2>2. Attrs(ValueAt(d, o), <<>>) = Attrs(d, o)
    BY <1>2, <1>6, <2>1, AttrsOfValue
  <2> QED BY <1>4, <1>5, <1>6, <2>1, <2>2 DEF t, frames, o
<1>7. CASE RowOf(k) \notin DOMAIN d
  <2>1. Attrs(Leaf(Empty), <<>>) = NoFields
    BY LeafObject DEF NoFields, Attrs
  <2> QED BY <1>0, <1>4, <1>7, <2>1 DEF t, frames, o
<1> QED BY <1>6, <1>7

(* GET of a row changes nothing and answers with the row.                  *)
LEMMA GetBelowUsers ==
  ASSUME NEW d, IsTableDb(d), NEW x, IsIndex(x), NEW fields, NEW exclude, NoNames(fields), NoNames(exclude),
         NEW k \in RowKey \cup {Blank}, NEW create \in BOOLEAN, ~Makes(create)
  PROVE  LET t == Descend(Walked(d, x, AtUsers, Going), k, create)
         IN t.m = M(d, x) /\ Attrs(Found(t, fields, exclude), <<>>) = RowIn(d, k)
<1> DEFINE o == Spot(d, k)
           t == Descend(Walked(d, x, AtUsers, Going), k, create)
           stop == Halt(k)
<1>1. k \in Name /\ RowOf(k) \in Path /\ DOMAIN d \subseteq Path
  <2>1. k \in Name
    BY Keys, Literals
  <2> QED BY <2>1, RowPaths, TableDb
<1>2. t = Walked(d, x, AtRow(k, o), stop)
  BY <1>1, DescendToRow DEF Spot
<1> HIDE DEF stop, t
<1>3. t.m = M(d, x)
  BY <1>2 DEF Walked
<1>4. Attrs(Found(t, fields, exclude), <<>>) = IF RowOf(k) \in DOMAIN d THEN Attrs(d, RowOf(k)) ELSE NoFields
  BY <1>1, <1>2, FoundBelowUsers
<1>5. CASE k \in RowKey
  BY <1>3, <1>4, <1>5, RowInIs DEF t
<1>6. CASE k = Blank
  <2>1. k \notin DOMAIN RowsIn(d)
    BY <1>6, Literals, ObjectsAndRows
  <2>2. RowOf(k) \in DOMAIN d => Attrs(d, RowOf(k)) = NoFields
    <3>1. RowOf(k) \in DOMAIN d => d[RowOf(k)] = Empty
      BY <1>1, <1>6, TableDb, Literals
    <3> QED BY <3>1, Literals DEF Attrs, NoFields
  <2> QED BY <1>3, <1>4, <2>1, <2>2 DEF RowIn, t
<1> QED BY <1>5, <1>6
=============================================================================
