------------------------------ MODULE Documents ------------------------------
(***************************************************************************)
(* Objects (objects/Object.hpp) as values.  A document is a function from  *)
(* the paths of its nodes to what each node is: Dict, List, Empty (the     *)
(* object of a default constructor), or a scalar.  The path <<>> is its    *)
(* root; list elements have the keys "0", "1", ...                         *)
(***************************************************************************)
EXTENDS Integers, Sequences, SequencesExt, FiniteSets, TLC

Dict == "{}"
List == "[]"
Empty == "?"

Name == STRING
Path == Seq(Name)

(* The state after n steps from start, Op giving each from the one before. *)
Repeated(Op(_, _), start, n) ==
  LET at[i \in 0 .. n] == IF i = 0 THEN start ELSE Op(at[i - 1], i) IN at[n]

Leaf(kind) == [p \in {<<>>} |-> kind]

Below(p, q) == SubSeq(q, Len(p) + 1, Len(q))
Under(doc, p) == {q \in DOMAIN doc : IsPrefix(p, q)}

ValueAt(doc, p) == [r \in {Below(p, q) : q \in Under(doc, p)} |-> doc[p \o r]]

Cut(doc, p) == [q \in DOMAIN doc \ Under(doc, p) |-> doc[q]]

(* Object::operator= at p, or an element added there. *)
Graft(doc, p, value) ==
  LET new == {p \o r : r \in DOMAIN value}
  IN [q \in (DOMAIN doc \ Under(doc, p)) \cup new |->
        IF q \in new THEN value[Below(p, q)] ELSE doc[q]]

Indexable(doc, p) == doc[p] \in {Dict, List}
KeysOf(doc, p) == {Last(q) : q \in {q \in Under(doc, p) : Len(q) = Len(p) + 1}}
SizeOf(doc, p) == Cardinality(KeysOf(doc, p))

(* ListData::parseIndex: strtol must consume the key; negatives count from *)
(* the end.  At most one position.                                         *)
ListPositions(n, key) == {i \in 0 .. n - 1 : key \in {ToString(i), ToString(i - n)}}

(* The canonical keys that key names among the children of p: hasKey and   *)
(* operator[] of DictData and of ListData.                                 *)
ElementKeys(n, key) == {ToString(i) : i \in ListPositions(n, key)}
ChildKeys(doc, p, key) ==
  CASE doc[p] = Dict -> {key} \cap KeysOf(doc, p)
    [] doc[p] = List -> ElementKeys(SizeOf(doc, p), key)
    [] OTHER -> {}

(* RukoDb::parseIndex uses stoi, which stops at the first character that   *)
(* is no digit ("1x" is 1) and throws when there is no digit at all.  Keys *)
(* are numbers below MaxIndex, numbers followed by junk, or no numbers.    *)
MaxIndex == 4
StoiNumbers(key) == {i \in -MaxIndex .. MaxIndex : key \in {ToString(i), ToString(i) \o "x"}}
StoiPositions(n, key) == {i \in 0 .. n - 1 : \E s \in StoiNumbers(key) : s \in {i, i - n}}

(* Mutated form of EraseElement: the elements behind i do not move. *)
EraseInPlace(doc, p, i) == Cut(doc, Append(p, ToString(i)))

(* list.erase(list.begin() + i): the elements behind i move one forward.   *)
EraseElement(doc, p, i) ==
  LET n == SizeOf(doc, p)
      At(j) == Append(p, ToString(j))
      Moved(d, j) == Graft(d, At(i + j - 1), ValueAt(d, At(i + j)))
  IN Cut(Repeated(Moved, doc, n - 1 - i), At(n - 1))

(* A tree as the C++ objects can form it. *)
IsDocument(doc) ==
  /\ IsFiniteSet(DOMAIN doc) /\ DOMAIN doc \subseteq Path /\ <<>> \in DOMAIN doc
  /\ \A q \in DOMAIN doc \ {<<>>} :
       /\ Front(q) \in DOMAIN doc
       /\ Indexable(doc, Front(q))
  /\ \A p \in DOMAIN doc : doc[p] = List =>
       KeysOf(doc, p) = {ToString(i) : i \in 0 .. SizeOf(doc, p) - 1}
==============================================================================
