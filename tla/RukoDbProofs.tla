---------------------------- MODULE RukoDbProofs -----------------------------
(***************************************************************************)
(* RukoDb is well formed, whatever clients send: no command leaves a       *)
(* document the C++ objects cannot form, an index tree with a hole, or a   *)
(* live mapping without a mapper. The lemmas follow the code: documents,   *)
(* the mappers, the machine, a traversal frame by frame, the bookkeeping   *)
(* around a deletion and a creation, mappings, the commands, the steps of  *)
(* the database.                                                           *)
(***************************************************************************)
EXTENDS RukoDb, FiniteSetTheorems, NaturalsInduction, TLAPS

-----------------------------------------------------------------------------
(* Paths and documents: what stands where after an assignment or a         *)
(* deletion, and that each leaves a tree the C++ objects can form.         *)

(* A path is a prefix of another when they agree as far as it goes. *)
LEMMA PrefixPointwise ==
  ASSUME NEW p \in Path, NEW q \in Path
  PROVE  IsPrefix(p, q) <=> Len(p) <= Len(q) /\ \A i \in 1 .. Len(p) : p[i] = q[i]
BY DEF IsPrefix, Path

(* Below is what is left of a path behind a prefix of it. *)
LEMMA BelowPath ==
  ASSUME NEW p \in Path, NEW q \in Path, IsPrefix(p, q)
  PROVE  Below(p, q) \in Path /\ p \o Below(p, q) = q /\ Len(Below(p, q)) = Len(q) - Len(p)
BY DEF IsPrefix, Below, Path

LEMMA JoinedPath ==
  ASSUME NEW p \in Path, NEW r \in Path
  PROVE  p \o r \in Path /\ IsPrefix(p, p \o r) /\ Below(p, p \o r) = r
BY DEF IsPrefix, Below, Path

(* Behind a prefix of one key, the second key is the first of the rest. *)
LEMMA JoinedSecond ==
  ASSUME NEW s \in Seq(Name), NEW r \in Seq(Name), Len(s) = 1, Len(r) >= 1
  PROVE  (s \o r)[2] = r[1]
OBVIOUS

LEMMA AppendedPath ==
  ASSUME NEW p \in Path, NEW k \in Name
  PROVE  /\ Append(p, k) \in Path /\ Len(Append(p, k)) = Len(p) + 1
         /\ Last(Append(p, k)) = k /\ Front(Append(p, k)) = p
         /\ IsPrefix(p, Append(p, k)) /\ Below(p, Append(p, k)) = <<k>>
         /\ p \o <<k>> = Append(p, k)
         /\ \A i \in 1 .. Len(p) : Append(p, k)[i] = p[i]
         /\ Append(p, k)[Len(p) + 1] = k
<1>1. /\ Append(p, k) \in Path /\ Len(Append(p, k)) = Len(p) + 1 /\ Last(Append(p, k)) = k
      /\ Append(p, k)[Len(p) + 1] = k
  BY DEF Path, Last
<1>4. \A i \in 1 .. Len(p) : Append(p, k)[i] = p[i]
  BY DEF Path
<1>2. Front(Append(p, k)) = p
  BY DEF Path, Front
<1>3. <<k>> \in Path /\ p \o <<k>> = Append(p, k)
  BY DEF Path
<1> QED BY <1>1, <1>2, <1>3, <1>4, JoinedPath

(* A path one key longer than a prefix of it is that key appended. *)
LEMMA ChildPath ==
  ASSUME NEW p \in Path, NEW q \in Path, IsPrefix(p, q), Len(q) = Len(p) + 1
  PROVE  Last(q) \in Name /\ q = Append(p, Last(q))
BY DEF IsPrefix, Path, Last

(* The keys below p are those that lead from it to an object. *)
LEMMA KeysAreChildren ==
  ASSUME NEW doc, DOMAIN doc \subseteq Path, NEW p \in Path
  PROVE  KeysOf(doc, p) = {k \in Name : Append(p, k) \in DOMAIN doc}
<1>1. ASSUME NEW k \in KeysOf(doc, p) PROVE k \in Name /\ Append(p, k) \in DOMAIN doc
  <2>1. PICK q \in DOMAIN doc : IsPrefix(p, q) /\ Len(q) = Len(p) + 1 /\ k = Last(q)
    BY <1>1 DEF KeysOf, Under
  <2> QED BY <2>1, ChildPath
<1>2. ASSUME NEW k \in Name, Append(p, k) \in DOMAIN doc PROVE k \in KeysOf(doc, p)
  <2>1. /\ IsPrefix(p, Append(p, k)) /\ Len(Append(p, k)) = Len(p) + 1
        /\ Last(Append(p, k)) = k
    BY AppendedPath
  <2> QED BY <1>2, <2>1 DEF KeysOf, Under
<1> QED BY <1>1, <1>2

(* What stands where after an assignment. *)
LEMMA Grafted ==
  ASSUME NEW doc, DOMAIN doc \subseteq Path, NEW p \in Path,
         NEW value, DOMAIN value \subseteq Path
  PROVE  /\ DOMAIN Graft(doc, p, value) \subseteq Path
         /\ \A q \in Path : IsPrefix(p, q) =>
              /\ q \in DOMAIN Graft(doc, p, value) <=> Below(p, q) \in DOMAIN value
              /\ Below(p, q) \in DOMAIN value => Graft(doc, p, value)[q] = value[Below(p, q)]
         /\ \A q \in Path : ~IsPrefix(p, q) =>
              /\ q \in DOMAIN Graft(doc, p, value) <=> q \in DOMAIN doc
              /\ q \in DOMAIN doc => Graft(doc, p, value)[q] = doc[q]
<1> DEFINE new == {p \o r : r \in DOMAIN value}
           old == DOMAIN doc \ Under(doc, p)
           g == [q \in old \cup new |-> IF q \in new THEN value[Below(p, q)] ELSE doc[q]]
<1>1. \A q \in new : q \in Path /\ IsPrefix(p, q) /\ Below(p, q) \in DOMAIN value
  BY JoinedPath
<1>2. \A q \in Path : IsPrefix(p, q) /\ Below(p, q) \in DOMAIN value => q \in new
  BY BelowPath
<1>3. \A q : q \in old <=> q \in DOMAIN doc /\ ~IsPrefix(p, q)
  BY DEF Under
<1>4. Graft(doc, p, value) = g
  BY DEF Graft
<1> HIDE DEF new, old
<1> QED BY <1>1, <1>2, <1>3, <1>4

(* An object as a document of its own. *)
LEMMA ValueBelow ==
  ASSUME NEW doc, DOMAIN doc \subseteq Path, NEW p \in Path
  PROVE  \A r \in Path : /\ r \in DOMAIN ValueAt(doc, p) <=> p \o r \in DOMAIN doc
                         /\ p \o r \in DOMAIN doc => ValueAt(doc, p)[r] = doc[p \o r]
<1> TAKE r \in Path
<1>1. r \in {Below(p, q) : q \in Under(doc, p)} <=> p \o r \in DOMAIN doc
  BY JoinedPath, BelowPath DEF Under
<1> QED BY <1>1 DEF ValueAt
-----------------------------------------------------------------------------
(* Induction, and what it says of paths and numerals.                      *)

(* A set of numbers that is not empty has a least one. *)
LEMMA LeastNumber ==
  ASSUME NEW S, S \subseteq Nat, S # {}
  PROVE  \E x \in S : \A y \in S : x <= y
<1> DEFINE R == OpToRel(<, Nat)
<1>1. \A a, b \in Nat : ~(a < b) => b <= a
  OBVIOUS
<1>2. \A a, b \in Nat : a < b => <<a, b>> \in R
  BY DEF OpToRel
<1>3. IsWellFoundedOn(R, Nat)
  BY NatLessThanWellFounded
<1> HIDE DEF R
<1>4. PICK x \in S : \A y \in S : ~ (<<y, x>> \in R)
  BY <1>3, WFMin
<1> QED BY <1>1, <1>2, <1>4

(* A set with 0 and the successors of its numbers has all numbers.         *)
LEMMA InductionOn ==
  ASSUME NEW S, 0 \in S, \A n \in Nat : n \in S => n + 1 \in S
  PROVE  Nat \subseteq S
<1> DEFINE T == Nat \ S
<1>1. SUFFICES ASSUME T # {} PROVE FALSE
  OBVIOUS
<1>2. PICK x \in T : \A y \in T : x <= y
  BY <1>1, LeastNumber
<1>3. x \in Nat \ {0} /\ x \notin S
  BY <1>2
<1>4. x - 1 \in Nat /\ ~(x <= x - 1) /\ (x - 1) + 1 = x
  BY <1>3
<1>5. x - 1 \in S
  BY <1>2, <1>4
<1> QED BY <1>3, <1>4, <1>5

(* The first n keys of a path. *)
LEMMA FirstKeys ==
  ASSUME NEW q \in Path, NEW n \in Nat, n <= Len(q)
  PROVE  /\ SubSeq(q, 1, n) \in Path /\ Len(SubSeq(q, 1, n)) = n
         /\ \A i \in 1 .. n : SubSeq(q, 1, n)[i] = q[i]
<1>1. q \in Seq(Name)
  BY DEF Path
<1>2. SubSeq(q, 1, n) \in Seq(Name)
  BY <1>1
<1>3. Len(SubSeq(q, 1, n)) = n
  BY <1>1
<1>4. \A i \in 1 .. n : SubSeq(q, 1, n)[i] = q[i]
  BY <1>1
<1> QED BY <1>2, <1>3, <1>4 DEF Path

(* The path one key shorter. *)
LEMMA FrontPath ==
  ASSUME NEW q \in Path, q # <<>>
  PROVE  /\ Front(q) \in Path /\ Last(q) \in Name /\ q = Append(Front(q), Last(q))
         /\ Len(q) \in Nat \ {0} /\ Len(Front(q)) = Len(q) - 1
         /\ \A i \in 1 .. Len(q) - 1 : Front(q)[i] = q[i]
<1>1. Len(q) \in Nat \ {0} /\ Last(q) \in Name
  BY DEF Path, Last
<1>2. /\ Front(q) \in Path /\ Len(Front(q)) = Len(q) - 1
      /\ \A i \in 1 .. Len(q) - 1 : Front(q)[i] = q[i]
  <2>1. Len(q) - 1 \in Nat /\ Len(q) - 1 <= Len(q)
    BY <1>1
  <2> QED BY <2>1, FirstKeys DEF Front
<1> DEFINE p == Front(q)
           k == Last(q)
           r == Append(p, k)
<1>3. /\ r \in Path /\ Len(r) = Len(p) + 1 /\ r[Len(p) + 1] = k
      /\ \A i \in 1 .. Len(p) : r[i] = p[i]
  BY <1>1, <1>2, AppendedPath
<1>4. k = q[Len(q)]
  BY DEF Last
<1> HIDE DEF r, p, k
<1>5. r \in Path /\ q \in Path /\ Len(r) = Len(q) /\ \A i \in 1 .. Len(q) : r[i] = q[i]
  BY <1>1, <1>2, <1>3, <1>4 DEF p
<1>6. r = q
  BY <1>5 DEF Path
<1> QED BY <1>1, <1>2, <1>6 DEF r, p, k

(* A prefix of a longer path is one of the path without its last key.      *)
LEMMA PrefixOfFront ==
  ASSUME NEW p \in Path, NEW q \in Path, q # <<>>
  PROVE  /\ IsPrefix(p, Front(q)) <=> IsPrefix(p, q) /\ p # q
         /\ IsPrefix(p, q) /\ p # q => Len(p) < Len(q)
<1>1. Front(q) \in Path /\ Len(q) \in Nat \ {0} /\ Len(Front(q)) = Len(q) - 1
      /\ \A i \in 1 .. Len(q) - 1 : Front(q)[i] = q[i]
  BY FrontPath
<1>2. Len(p) \in Nat
  BY DEF Path
<1>3. IsPrefix(p, q) /\ p # q => Len(p) < Len(q)
  <2>1. SUFFICES ASSUME IsPrefix(p, q), Len(p) = Len(q) PROVE p = q
    BY <1>1, <1>2, PrefixPointwise
  <2>2. \A i \in 1 .. Len(p) : p[i] = q[i]
    BY <2>1, PrefixPointwise
  <2> QED BY <2>1, <2>2 DEF Path
<1>4. IsPrefix(p, Front(q)) <=> Len(p) <= Len(q) - 1 /\ \A i \in 1 .. Len(p) : p[i] = Front(q)[i]
  BY <1>1, PrefixPointwise
<1>5. IsPrefix(p, q) <=> Len(p) <= Len(q) /\ \A i \in 1 .. Len(p) : p[i] = q[i]
  BY PrefixPointwise
<1>6. Len(p) <= Len(q) - 1 => p # q
  BY <1>1, <1>2
<1> QED BY <1>1, <1>2, <1>3, <1>4, <1>5, <1>6

(* The root is a prefix of every path, and a path of itself.               *)
LEMMA PrefixEnds ==
  ASSUME NEW p \in Path
  PROVE  /\ IsPrefix(<<>>, p) /\ IsPrefix(p, p) /\ Below(p, p) = <<>> /\ p \o <<>> = p
         /\ <<>> \in Path /\ Below(<<>>, p) = p /\ <<>> \o p = p
         /\ IsPrefix(p, <<>>) => p = <<>>
BY DEF IsPrefix, Below, Path

(* The numerals below n. *)
Numerals(n) == {ToString(i) : i \in 0 .. n - 1}

LEMMA NumeralsFinite ==
  ASSUME NEW n \in Nat
  PROVE  /\ IsFiniteSet(Numerals(n)) /\ Cardinality(Numerals(n)) \in 0 .. n
         /\ Numerals(n + 1) = Numerals(n) \cup {ToString(n)}
         /\ Numerals(0) = {}
<1> DEFINE S == {k \in Nat : IsFiniteSet(Numerals(k)) /\ Cardinality(Numerals(k)) \in 0 .. k}
<1>1. \A k \in Nat : Numerals(k + 1) = Numerals(k) \cup {ToString(k)}
  <2> TAKE k \in Nat
  <2>1. 0 .. (k + 1) - 1 = (0 .. k - 1) \cup {k}
    OBVIOUS
  <2> QED BY <2>1 DEF Numerals
<1>2. Numerals(0) = {}
  BY DEF Numerals
<1>3. 0 \in S
  BY <1>2, FS_EmptySet
<1>4. ASSUME NEW k \in Nat, k \in S PROVE k + 1 \in S
  <2>1. /\ IsFiniteSet(Numerals(k) \cup {ToString(k)})
        /\ Cardinality(Numerals(k) \cup {ToString(k)}) \in {Cardinality(Numerals(k)), Cardinality(Numerals(k)) + 1}
    BY <1>4, FS_AddElement
  <2>2. Cardinality(Numerals(k)) \in 0 .. k
    BY <1>4
  <2>3. Numerals(k + 1) = Numerals(k) \cup {ToString(k)} /\ k + 1 \in Nat
    BY <1>1
  <2>4. Cardinality(Numerals(k + 1)) \in 0 .. k + 1
    BY <2>1, <2>2, <2>3
  <2> QED BY <2>1, <2>3, <2>4
<1> HIDE DEF S
<1>5. Nat \subseteq S
  BY <1>3, <1>4, InductionOn
<1> QED BY <1>1, <1>2, <1>5 DEF S

(* Numerals with the next one are numerals, as many as there are.          *)
LEMMA NumeralsGrow ==
  ASSUME NEW n \in Nat, Cardinality(Numerals(n)) = n, NEW K, K = Numerals(n) \cup {ToString(n)}
  PROVE  K = Numerals(Cardinality(K)) /\ n <= Cardinality(K) /\ Cardinality(K) \in Nat
<1>1. IsFiniteSet(Numerals(n)) /\ K = Numerals(n + 1)
  BY NumeralsFinite
<1>2. Cardinality(K) = IF ToString(n) \in Numerals(n) THEN n ELSE n + 1
  BY <1>1, FS_AddElement
<1>3. CASE ToString(n) \in Numerals(n)
  <2>1. K = Numerals(n)
    BY <1>3
  <2> QED BY <1>2, <1>3, <2>1
<1>4. CASE ToString(n) \notin Numerals(n)
  BY <1>1, <1>2, <1>4
<1> QED BY <1>3, <1>4

(* Without the last one, they still are.                                   *)
LEMMA NumeralsShrink ==
  ASSUME NEW n \in Nat \ {0}, Cardinality(Numerals(n)) = n, NEW K, K = Numerals(n) \ {ToString(n - 1)}
  PROVE  K = Numerals(n - 1) /\ Cardinality(K) = n - 1
<1>1. n - 1 \in Nat /\ (n - 1) + 1 = n
  OBVIOUS
<1>2. /\ Numerals(n) = Numerals(n - 1) \cup {ToString(n - 1)}
      /\ IsFiniteSet(Numerals(n)) /\ Cardinality(Numerals(n - 1)) \in 0 .. n - 1
  BY <1>1, NumeralsFinite
<1>3. ToString(n - 1) \notin Numerals(n - 1)
  <2>1. SUFFICES ASSUME ToString(n - 1) \in Numerals(n - 1) PROVE FALSE
    OBVIOUS
  <2>2. Numerals(n) = Numerals(n - 1)
    BY <1>2, <2>1
  <2> QED BY <1>2, <2>2
<1>4. K = Numerals(n - 1)
  BY <1>2, <1>3
<1>5. Cardinality(K) = n - 1
  BY <1>2, FS_RemoveElement
<1> QED BY <1>4, <1>5

(* The image of a finite set is finite. *)
LEMMA ImageFinite ==
  ASSUME NEW S, IsFiniteSet(S), NEW f, DOMAIN f = S
  PROVE  IsFiniteSet({f[x] : x \in S})
<1> DEFINE T == {f[x] : x \in S}
           g == [x \in S |-> f[x]]
<1>1. g \in Surjection(S, T)
  BY DEF Surjection
<1> HIDE DEF g, T
<1>2. IsFiniteSet(T)
  BY <1>1, FS_Surjection
<1> QED BY <1>2 DEF T

(* What a document has at the prefixes of a path it has. *)
LEMMA PrefixClosed ==
  ASSUME NEW doc, IsDocument(doc), NEW p \in Path, NEW q \in DOMAIN doc, IsPrefix(p, q)
  PROVE  p \in DOMAIN doc /\ (p # q => Indexable(doc, p))
<1> DEFINE Has(r) == p \in DOMAIN doc /\ (p # r => Indexable(doc, p))
           S == {n \in Nat : \A r \in DOMAIN doc : IsPrefix(p, r) /\ Len(r) = Len(p) + n => Has(r)}
<1>1. /\ DOMAIN doc \subseteq Path /\ Len(p) \in Nat
      /\ \A r \in DOMAIN doc \ {<<>>} : Front(r) \in DOMAIN doc /\ Indexable(doc, Front(r))
  BY DEF IsDocument, Path
<1> HIDE DEF Indexable
<1>2. 0 \in S
  <2> SUFFICES ASSUME NEW r \in DOMAIN doc, IsPrefix(p, r), Len(r) = Len(p) + 0 PROVE Has(r)
    BY DEF S
  <2>1. r \in Path /\ Len(r) = Len(p) /\ \A i \in 1 .. Len(p) : p[i] = r[i]
    BY <1>1, PrefixPointwise
  <2>2. r = p
    BY <2>1 DEF Path
  <2> QED BY <2>2
<1>3. ASSUME NEW n \in Nat, n \in S PROVE n + 1 \in S
  <2> SUFFICES ASSUME NEW r \in DOMAIN doc, IsPrefix(p, r), Len(r) = Len(p) + (n + 1) PROVE Has(r)
    BY DEF S
  <2>1. r \in Path /\ r # <<>> /\ p # r
    BY <1>1 DEF Path
  <2>2. /\ Front(r) \in DOMAIN doc /\ Indexable(doc, Front(r))
        /\ IsPrefix(p, Front(r)) /\ Len(Front(r)) = Len(p) + n
    BY <1>1, <2>1, FrontPath, PrefixOfFront
  <2>3. Has(Front(r))
    BY <1>3, <2>2 DEF S
  <2> QED BY <2>2, <2>3
<1> HIDE DEF S
<1>4. Nat \subseteq S
  BY <1>2, <1>3, InductionOn
<1>5. Len(q) - Len(p) \in Nat /\ Len(q) = Len(p) + (Len(q) - Len(p))
  BY <1>1, PrefixPointwise DEF Path
<1> QED BY <1>4, <1>5 DEF S

(* Below a place of a finite document there are finitely many keys. *)
LEMMA KeysImageFinite ==
  ASSUME NEW doc, IsFiniteSet(DOMAIN doc), NEW p
  PROVE  IsFiniteSet(KeysOf(doc, p))
<1> DEFINE S == {q \in Under(doc, p) : Len(q) = Len(p) + 1}
           f == [q \in S |-> Last(q)]
<1>1. S \in SUBSET DOMAIN doc
  BY DEF Under
<1>2. IsFiniteSet(S)
  BY <1>1, FS_Subset
<1>3. DOMAIN f = S /\ KeysOf(doc, p) = {f[q] : q \in S}
  BY DEF KeysOf
<1> HIDE DEF S, f
<1> QED BY <1>2, <1>3, ImageFinite

(* An object has finitely many keys, and a list the numerals. *)
LEMMA KeysFinite ==
  ASSUME NEW doc, IsDocument(doc), NEW p \in Path
  PROVE  /\ IsFiniteSet(KeysOf(doc, p)) /\ SizeOf(doc, p) \in Nat
         /\ KeysOf(doc, p) = {k \in Name : Append(p, k) \in DOMAIN doc}
         /\ p \in DOMAIN doc /\ doc[p] = List =>
              KeysOf(doc, p) = Numerals(SizeOf(doc, p))
<1>4. IsFiniteSet(KeysOf(doc, p))
  BY KeysImageFinite DEF IsDocument
<1>5. SizeOf(doc, p) \in Nat
  BY <1>4, FS_CardinalityType DEF SizeOf
<1>6. DOMAIN doc \subseteq Path
  BY DEF IsDocument
<1>7. KeysOf(doc, p) = {k \in Name : Append(p, k) \in DOMAIN doc}
  BY <1>6, KeysAreChildren
<1>8. p \in DOMAIN doc /\ doc[p] = List => KeysOf(doc, p) = Numerals(SizeOf(doc, p))
  BY DEF IsDocument, Numerals
<1> QED BY <1>4, <1>5, <1>7, <1>8

(* The other way round: what a document is, in terms of its objects' keys. *)
LEMMA DocumentIs ==
  ASSUME NEW doc, IsFiniteSet(DOMAIN doc), DOMAIN doc \subseteq Path, <<>> \in DOMAIN doc,
         \A q \in DOMAIN doc \ {<<>>} : Front(q) \in DOMAIN doc /\ Indexable(doc, Front(q)),
         \A p \in DOMAIN doc : doc[p] = List => KeysOf(doc, p) = Numerals(SizeOf(doc, p))
  PROVE  IsDocument(doc)
BY DEF IsDocument, Numerals

LEMMA LeafDocument ==
  ASSUME NEW kind
  PROVE  /\ IsDocument(Leaf(kind)) /\ DOMAIN Leaf(kind) = {<<>>} /\ Leaf(kind)[<<>>] = kind
         /\ KeysOf(Leaf(kind), <<>>) = {}
<1> DEFINE doc == Leaf(kind)
<1>1. DOMAIN doc = {<<>>} /\ doc[<<>>] = kind /\ <<>> \in Path
  BY DEF Leaf, Path
<1>2. IsFiniteSet(DOMAIN doc)
  BY <1>1, FS_Singleton
<1> HIDE DEF doc
<1>3. KeysOf(doc, <<>>) = {}
  <2> SUFFICES ASSUME NEW k \in KeysOf(doc, <<>>) PROVE FALSE
    OBVIOUS
  <2>0. DOMAIN doc \subseteq Path
    BY <1>1
  <2>3. KeysOf(doc, <<>>) = {j \in Name : Append(<<>>, j) \in DOMAIN doc}
    BY <1>1, <2>0, KeysAreChildren
  <2>1. k \in Name /\ Append(<<>>, k) \in DOMAIN doc
    BY <2>3
  <2>2. Len(Append(<<>>, k)) = Len(<<>>) + 1
    BY <1>1, <2>1, AppendedPath
  <2> QED BY <1>1, <2>1, <2>2
<1>4. KeysOf(doc, <<>>) = Numerals(SizeOf(doc, <<>>))
  BY <1>3, FS_EmptySet, NumeralsFinite DEF SizeOf
<1>5. IsDocument(doc)
  BY <1>1, <1>2, <1>4, DocumentIs
<1> QED BY <1>1, <1>3, <1>5 DEF doc

-----------------------------------------------------------------------------
(* The parent of a path, seen from a prefix of it. *)
LEMMA FrontBelow ==
  ASSUME NEW p \in Path, NEW q \in Path, IsPrefix(p, q), p # q
  PROVE  /\ q # <<>> /\ Front(q) \in Path /\ IsPrefix(p, Front(q))
         /\ Below(p, q) \in Path /\ Below(p, q) # <<>>
         /\ Front(Below(p, q)) = Below(p, Front(q)) /\ Last(Below(p, q)) = Last(q)
<1>1. q # <<>>
  BY PrefixEnds
<1>2. /\ Front(q) \in Path /\ IsPrefix(p, Front(q)) /\ Last(q) \in Name
      /\ q = Append(Front(q), Last(q))
  BY <1>1, FrontPath, PrefixOfFront
<1> DEFINE r == Front(q)
           k == Last(q)
           s == Below(p, r)
<1>3. s \in Path /\ p \o s = r
  BY <1>2, BelowPath
<1> HIDE DEF r, k, s
<1>4. r \in Path /\ k \in Name /\ q = Append(r, k)
  BY <1>2 DEF r, k
<1>5. Append(s, k) \in Path /\ Front(Append(s, k)) = s /\ Last(Append(s, k)) = k
      /\ Len(Append(s, k)) = Len(s) + 1
  BY <1>3, <1>4, AppendedPath
<1>6. p \o Append(s, k) = Append(r, k)
  BY <1>3, <1>4 DEF Path
<1>7. Below(p, q) = Append(s, k)
  BY <1>4, <1>5, <1>6, JoinedPath
<1>8. Append(s, k) # <<>>
  <2>1. Len(s) + 1 # 0
    BY <1>3 DEF Path
  <2> QED BY <1>5, <2>1
<1> QED BY <1>1, <1>2, <1>5, <1>7, <1>8 DEF r, k, s

(* A child's path, seen from a prefix of its parent's, and from others. *)
LEMMA ChildBelow ==
  ASSUME NEW p \in Path, NEW q \in Path, NEW k \in Name
  PROVE  /\ IsPrefix(p, q) => /\ IsPrefix(p, Append(q, k))
                              /\ Below(p, Append(q, k)) = Append(Below(p, q), k)
         /\ ~IsPrefix(p, q) => (IsPrefix(p, Append(q, k)) <=> p = Append(q, k))
<1> DEFINE c == Append(q, k)
<1>1. c \in Path /\ Front(c) = q /\ Last(c) = k /\ Len(c) = Len(q) + 1
  BY AppendedPath
<1> HIDE DEF c
<1>2. c # <<>>
  BY <1>1 DEF Path
<1>3. IsPrefix(p, q) <=> IsPrefix(p, c) /\ p # c
  BY <1>1, <1>2, PrefixOfFront
<1>4. IsPrefix(p, q) => Below(p, c) = Append(Below(p, q), k)
  <2> SUFFICES ASSUME IsPrefix(p, q) PROVE Below(p, c) = Append(Below(p, q), k)
    OBVIOUS
  <2>1. /\ Below(p, c) \in Path /\ Below(p, c) # <<>>
        /\ Front(Below(p, c)) = Below(p, q) /\ Last(Below(p, c)) = k
    BY <1>1, <1>3, FrontBelow
  <2> QED BY <2>1, FrontPath
<1>5. p = c => IsPrefix(p, c)
  BY <1>1, PrefixEnds
<1> QED BY <1>3, <1>4, <1>5 DEF c

(* The keys of the objects after an assignment. *)
LEMMA KeysInGraft ==
  ASSUME NEW doc, DOMAIN doc \subseteq Path, NEW p \in Path, NEW q \in Path,
         NEW value, DOMAIN value \subseteq Path, <<>> \in DOMAIN value
  PROVE  LET g == Graft(doc, p, value)
         IN /\ IsPrefix(p, q) => KeysOf(g, q) = KeysOf(value, Below(p, q))
            /\ ~IsPrefix(p, q) /\ Front(p) # q => KeysOf(g, q) = KeysOf(doc, q)
            /\ p # <<>> /\ Front(p) = q => KeysOf(g, q) = KeysOf(doc, q) \cup {Last(p)}
<1> DEFINE g == Graft(doc, p, value)
<1>1. /\ DOMAIN g \subseteq Path
      /\ \A r \in Path : IsPrefix(p, r) => (r \in DOMAIN g <=> Below(p, r) \in DOMAIN value)
      /\ \A r \in Path : ~IsPrefix(p, r) => (r \in DOMAIN g <=> r \in DOMAIN doc)
  BY Grafted
<1> HIDE DEF g
<1>2. /\ KeysOf(g, q) = {k \in Name : Append(q, k) \in DOMAIN g}
      /\ KeysOf(doc, q) = {k \in Name : Append(q, k) \in DOMAIN doc}
  BY <1>1, KeysAreChildren
<1>3. \A k \in Name : Append(q, k) \in Path
  BY AppendedPath
<1>4. ASSUME IsPrefix(p, q) PROVE KeysOf(g, q) = KeysOf(value, Below(p, q))
  <2>1. KeysOf(value, Below(p, q)) = {k \in Name : Append(Below(p, q), k) \in DOMAIN value}
    BY <1>4, BelowPath, KeysAreChildren
  <2>2. \A k \in Name : IsPrefix(p, Append(q, k)) /\ Below(p, Append(q, k)) = Append(Below(p, q), k)
    BY <1>4, ChildBelow
  <2>3. \A k \in Name : Append(q, k) \in DOMAIN g <=> Append(Below(p, q), k) \in DOMAIN value
    BY <1>1, <1>3, <2>2
  <2> QED BY <1>2, <2>1, <2>3
<1>5. ASSUME ~IsPrefix(p, q), Front(p) # q PROVE KeysOf(g, q) = KeysOf(doc, q)
  <2>1. \A k \in Name : p # Append(q, k)
    BY <1>5, AppendedPath
  <2>2. \A k \in Name : ~IsPrefix(p, Append(q, k))
    BY <1>5, <2>1, ChildBelow
  <2>3. \A k \in Name : Append(q, k) \in DOMAIN g <=> Append(q, k) \in DOMAIN doc
    BY <1>1, <1>3, <2>2
  <2> QED BY <1>2, <2>3
<1>6. ASSUME p # <<>>, Front(p) = q PROVE KeysOf(g, q) = KeysOf(doc, q) \cup {Last(p)}
  <2>1. Last(p) \in Name /\ p = Append(q, Last(p)) /\ ~IsPrefix(p, q)
    BY <1>6, FrontPath, PrefixOfFront, PrefixEnds
  <2>6. \A k \in Name : IsPrefix(p, Append(q, k)) <=> p = Append(q, k)
    BY <2>1, ChildBelow
  <2>5. \A k \in Name : Last(Append(q, k)) = k
    BY AppendedPath
  <2>2. \A k \in Name : IsPrefix(p, Append(q, k)) <=> k = Last(p)
    BY <2>1, <2>5, <2>6
  <2>3. p \in DOMAIN g
    BY <1>1, PrefixEnds
  <2>4. ASSUME NEW k \in Name PROVE k \in KeysOf(g, q) <=> k \in KeysOf(doc, q) \/ k = Last(p)
    <3>1. CASE k = Last(p)
      BY <1>2, <2>1, <2>3, <3>1
    <3>2. CASE k # Last(p)
      BY <1>1, <1>2, <1>3, <2>2, <3>2
    <3> QED BY <3>1, <3>2
  <2> QED BY <1>2, <2>1, <2>4
<1> QED BY <1>4, <1>5, <1>6 DEF g

(* What an assignment at p asks of a document: p is its root, or an        *)
(* element of an object that has it, or that takes it.                     *)
Takes(doc, p) ==
  p = <<>> \/ /\ Front(p) \in DOMAIN doc /\ Indexable(doc, Front(p))
              /\ \/ p \in DOMAIN doc
                 \/ doc[Front(p)] = Dict
                 \/ Last(p) = ToString(SizeOf(doc, Front(p)))

LEMMA TakesAt ==
  ASSUME NEW doc, IsDocument(doc), NEW p \in DOMAIN doc
  PROVE  Takes(doc, p)
BY DEF IsDocument, Takes

LEMMA GraftFinite ==
  ASSUME NEW doc, IsFiniteSet(DOMAIN doc), NEW p, NEW value, IsFiniteSet(DOMAIN value)
  PROVE  IsFiniteSet(DOMAIN Graft(doc, p, value))
<1> DEFINE S == DOMAIN value
           f == [r \in S |-> p \o r]
<1>1. DOMAIN Graft(doc, p, value) = (DOMAIN doc \ Under(doc, p)) \cup {f[r] : r \in S}
  BY DEF Graft
<1>2. DOMAIN f = S /\ IsFiniteSet(S)
  OBVIOUS
<1> HIDE DEF S, f
<1>3. IsFiniteSet({f[r] : r \in S})
  BY <1>2, ImageFinite
<1>4. IsFiniteSet(DOMAIN doc \ Under(doc, p))
  BY FS_Subset
<1> QED BY <1>1, <1>3, <1>4, FS_Union

LEMMA GraftDocument ==
  ASSUME NEW doc, IsDocument(doc), NEW p \in Path, Takes(doc, p),
         NEW value, IsDocument(value)
  PROVE  IsDocument(Graft(doc, p, value)) /\ p \in DOMAIN Graft(doc, p, value)
<1> DEFINE g == Graft(doc, p, value)
<1>1. /\ IsFiniteSet(DOMAIN doc) /\ DOMAIN doc \subseteq Path /\ <<>> \in DOMAIN doc
      /\ IsFiniteSet(DOMAIN value) /\ DOMAIN value \subseteq Path /\ <<>> \in DOMAIN value
      /\ <<>> \in Path
  BY PrefixEnds DEF IsDocument
<1>2. /\ DOMAIN g \subseteq Path
      /\ \A q \in Path : IsPrefix(p, q) =>
           /\ q \in DOMAIN g <=> Below(p, q) \in DOMAIN value
           /\ Below(p, q) \in DOMAIN value => g[q] = value[Below(p, q)]
      /\ \A q \in Path : ~IsPrefix(p, q) =>
           /\ q \in DOMAIN g <=> q \in DOMAIN doc
           /\ q \in DOMAIN doc => g[q] = doc[q]
  BY <1>1, Grafted
<1>3. IsFiniteSet(DOMAIN g)
  BY <1>1, GraftFinite
<1>4. p \in DOMAIN g /\ IsPrefix(p, p)
  BY <1>1, <1>2, PrefixEnds
<1>5. ASSUME NEW q \in Path, q # <<>>, q \in DOMAIN doc, ~IsPrefix(p, q)
      PROVE  Front(q) \in DOMAIN g /\ g[Front(q)] = doc[Front(q)] /\ Indexable(doc, Front(q))
  <2>1. Front(q) \in DOMAIN doc /\ Indexable(doc, Front(q))
    BY <1>5 DEF IsDocument
  <2>2. ~IsPrefix(p, Front(q)) /\ Front(q) \in Path
    BY <1>5, PrefixOfFront, FrontPath
  <2> QED BY <1>2, <2>1, <2>2
<1>6. ASSUME p # <<>>
      PROVE  /\ ~IsPrefix(p, Front(p)) /\ Front(p) \in Path /\ Front(p) \in DOMAIN doc
             /\ Front(p) \in DOMAIN g /\ g[Front(p)] = doc[Front(p)] /\ Indexable(doc, Front(p))
             /\ Front(p) # p
  <2>1. Front(p) \in DOMAIN doc /\ Indexable(doc, Front(p))
    BY <1>6 DEF Takes
  <2>2. ~IsPrefix(p, Front(p)) /\ Front(p) \in Path
    BY <1>6, PrefixOfFront, FrontPath
  <2> QED BY <1>2, <1>4, <2>1, <2>2
<1>7. <<>> \in DOMAIN g
  BY <1>1, <1>2, <1>4, PrefixEnds
<1>8. ASSUME NEW q \in DOMAIN g \ {<<>>}
      PROVE  Front(q) \in DOMAIN g /\ Indexable(g, Front(q))
  <2>1. q \in Path
    BY <1>2
  <2>2. CASE q = p
    BY <1>6, <1>8, <2>2 DEF Indexable
  <2>3. CASE ~IsPrefix(p, q)
    BY <1>2, <1>5, <2>1, <2>3 DEF Indexable
  <2>4. CASE IsPrefix(p, q) /\ q # p
    <3>1. /\ Front(q) \in Path /\ IsPrefix(p, Front(q))
          /\ Below(p, q) \in Path /\ Below(p, q) # <<>>
          /\ Front(Below(p, q)) = Below(p, Front(q))
      BY <2>1, <2>4, FrontBelow
    <3>2. Below(p, q) \in DOMAIN value
      BY <1>2, <2>1, <2>4
    <3>3. Below(p, Front(q)) \in DOMAIN value /\ Indexable(value, Below(p, Front(q)))
      BY <3>1, <3>2 DEF IsDocument
    <3> QED BY <1>2, <3>1, <3>3 DEF Indexable
  <2> QED BY <2>2, <2>3, <2>4
<1>9. ASSUME NEW q \in DOMAIN g, g[q] = List
      PROVE  KeysOf(g, q) = Numerals(SizeOf(g, q))
  <2>1. q \in Path
    BY <1>2
  <2>2. CASE IsPrefix(p, q)
    <3>1. KeysOf(g, q) = KeysOf(value, Below(p, q))
      BY <1>1, <2>1, <2>2, KeysInGraft
    <3>2. Below(p, q) \in DOMAIN value /\ value[Below(p, q)] = List /\ Below(p, q) \in Path
      BY <1>2, <1>9, <2>1, <2>2, BelowPath
    <3>3. KeysOf(value, Below(p, q)) = Numerals(SizeOf(value, Below(p, q)))
      BY <3>2, KeysFinite
    <3> QED BY <3>1, <3>3 DEF SizeOf
  <2>3. CASE ~IsPrefix(p, q) /\ Front(p) # q
    <3>1. KeysOf(g, q) = KeysOf(doc, q)
      BY <1>1, <2>1, <2>3, KeysInGraft
    <3>2. q \in DOMAIN doc /\ doc[q] = List
      BY <1>2, <1>9, <2>1, <2>3
    <3>3. KeysOf(doc, q) = Numerals(SizeOf(doc, q))
      BY <2>1, <3>2, KeysFinite
    <3> QED BY <3>1, <3>3 DEF SizeOf
  <2>4. CASE ~IsPrefix(p, q) /\ Front(p) = q
    <3>1. p # <<>>
      BY <2>1, <2>4, PrefixEnds
    <3>2. KeysOf(g, q) = KeysOf(doc, q) \cup {Last(p)}
      BY <1>1, <2>1, <2>4, <3>1, KeysInGraft
    <3>3. q \in DOMAIN doc /\ doc[q] = List
      BY <1>2, <1>9, <2>1, <2>4
    <3>4. /\ KeysOf(doc, q) = Numerals(SizeOf(doc, q)) /\ SizeOf(doc, q) \in Nat
          /\ KeysOf(doc, q) = {k \in Name : Append(q, k) \in DOMAIN doc}
      BY <2>1, <3>3, KeysFinite
    <3>5. CASE p \in DOMAIN doc
      <4>1. Last(p) \in Name /\ p = Append(q, Last(p))
        BY <2>4, <3>1, FrontPath
      <4>2. KeysOf(g, q) = KeysOf(doc, q)
        BY <3>2, <3>4, <3>5, <4>1
      <4> QED BY <3>4, <4>2 DEF SizeOf
    <3>6. CASE p \notin DOMAIN doc
      <4>1. Last(p) = ToString(SizeOf(doc, q))
        BY <2>4, <3>1, <3>3, <3>6 DEF Takes, List, Dict
      <4>2. Cardinality(Numerals(SizeOf(doc, q))) = SizeOf(doc, q)
        BY <3>4 DEF SizeOf
      <4> DEFINE K == KeysOf(g, q)
                 n == SizeOf(doc, q)
      <4>3. n \in Nat /\ Cardinality(Numerals(n)) = n /\ K = Numerals(n) \cup {ToString(n)}
        BY <3>2, <3>4, <4>1, <4>2
      <4> HIDE DEF K, n
      <4>4. K = Numerals(Cardinality(K))
        BY <4>3, NumeralsGrow
      <4> QED BY <4>4 DEF K, SizeOf
    <3> QED BY <3>5, <3>6
  <2> QED BY <2>2, <2>3, <2>4
<1> HIDE DEF g
<1>10. IsDocument(g)
  BY <1>2, <1>3, <1>7, <1>8, <1>9, DocumentIs
<1> QED BY <1>4, <1>10 DEF g

(* The keys of the objects that a deletion leaves. *)
LEMMA KeysInCut ==
  ASSUME NEW doc, DOMAIN doc \subseteq Path, NEW p \in Path, NEW q \in Path, ~IsPrefix(p, q)
  PROVE  /\ Front(p) # q => KeysOf(Cut(doc, p), q) = KeysOf(doc, q)
         /\ p # <<>> /\ Front(p) = q => KeysOf(Cut(doc, p), q) = KeysOf(doc, q) \ {Last(p)}
<1> DEFINE g == Cut(doc, p)
<1>1. /\ DOMAIN g \subseteq Path
      /\ \A r \in Path : r \in DOMAIN g <=> r \in DOMAIN doc /\ ~IsPrefix(p, r)
  BY DEF Cut, Under
<1> HIDE DEF g
<1>2. /\ KeysOf(g, q) = {k \in Name : Append(q, k) \in DOMAIN g}
      /\ KeysOf(doc, q) = {k \in Name : Append(q, k) \in DOMAIN doc}
  BY <1>1, KeysAreChildren
<1>3. \A k \in Name : /\ Append(q, k) \in Path /\ Front(Append(q, k)) = q
                      /\ Last(Append(q, k)) = k
  BY AppendedPath
<1>4. \A k \in Name : IsPrefix(p, Append(q, k)) <=> p = Append(q, k)
  BY ChildBelow
<1>5. ASSUME Front(p) # q PROVE KeysOf(g, q) = KeysOf(doc, q)
  <2>1. \A k \in Name : Append(q, k) \in DOMAIN g <=> Append(q, k) \in DOMAIN doc
    BY <1>1, <1>3, <1>4, <1>5
  <2> QED BY <1>2, <2>1
<1>6. ASSUME p # <<>>, Front(p) = q PROVE KeysOf(g, q) = KeysOf(doc, q) \ {Last(p)}
  <2>1. Last(p) \in Name /\ p = Append(q, Last(p))
    BY <1>6, FrontPath
  <2>2. \A k \in Name : IsPrefix(p, Append(q, k)) <=> k = Last(p)
    BY <1>3, <1>4, <2>1
  <2>3. \A k \in Name : Append(q, k) \in DOMAIN g <=> Append(q, k) \in DOMAIN doc /\ k # Last(p)
    BY <1>1, <1>3, <2>2
  <2> QED BY <1>2, <2>3
<1> QED BY <1>5, <1>6 DEF g

(* A deletion leaves a document: of an element of a dict, or of the last   *)
(* one of a list.                                                          *)
LEMMA CutDocument ==
  ASSUME NEW doc, IsDocument(doc), NEW p \in DOMAIN doc, p # <<>>,
         doc[Front(p)] = List => Last(p) = ToString(SizeOf(doc, Front(p)) - 1)
  PROVE  IsDocument(Cut(doc, p))
<1> DEFINE g == Cut(doc, p)
<1>1. /\ IsFiniteSet(DOMAIN doc) /\ DOMAIN doc \subseteq Path /\ <<>> \in DOMAIN doc
      /\ p \in Path /\ <<>> \in Path
  BY PrefixEnds DEF IsDocument
<1>2. /\ DOMAIN g \subseteq Path
      /\ \A q : q \in DOMAIN g <=> q \in DOMAIN doc /\ ~IsPrefix(p, q)
      /\ \A q \in DOMAIN g : g[q] = doc[q]
  BY <1>1 DEF Cut, Under
<1> HIDE DEF g
<1>3. IsFiniteSet(DOMAIN g)
  BY <1>1, <1>2, FS_Subset
<1>4. <<>> \in DOMAIN g
  BY <1>1, <1>2, PrefixEnds
<1>5. ASSUME NEW q \in DOMAIN g \ {<<>>}
      PROVE  Front(q) \in DOMAIN g /\ Indexable(g, Front(q))
  <2>1. q \in Path /\ Front(q) \in DOMAIN doc /\ Indexable(doc, Front(q))
    BY <1>2, <1>5 DEF IsDocument
  <2>2. ~IsPrefix(p, Front(q))
    BY <1>1, <1>2, <1>5, <2>1, PrefixOfFront
  <2> QED BY <1>2, <2>1, <2>2 DEF Indexable
<1>6. ASSUME NEW q \in DOMAIN g, g[q] = List
      PROVE  KeysOf(g, q) = Numerals(SizeOf(g, q))
  <2>1. q \in Path /\ q \in DOMAIN doc /\ doc[q] = List /\ ~IsPrefix(p, q)
    BY <1>2, <1>6
  <2>2. /\ KeysOf(doc, q) = Numerals(SizeOf(doc, q)) /\ SizeOf(doc, q) \in Nat
        /\ KeysOf(doc, q) = {k \in Name : Append(q, k) \in DOMAIN doc}
    BY <2>1, KeysFinite
  <2>3. CASE Front(p) # q
    <3>1. KeysOf(g, q) = KeysOf(doc, q)
      BY <1>1, <2>1, <2>3, KeysInCut DEF g
    <3> QED BY <2>2, <3>1 DEF SizeOf
  <2>4. CASE Front(p) = q
    <3> DEFINE K == KeysOf(g, q)
               n == SizeOf(doc, q)
    <3>1. K = KeysOf(doc, q) \ {Last(p)}
      BY <1>1, <2>1, <2>4, KeysInCut DEF g
    <3>2. Last(p) = ToString(n - 1)
      BY <2>1, <2>4
    <3>3. Last(p) \in Name /\ p = Append(q, Last(p))
      BY <1>1, <2>4, FrontPath
    <3>4. Last(p) \in Numerals(n)
      BY <2>2, <3>3
    <3>5. n # 0
      BY <3>4, NumeralsFinite
    <3>6. Cardinality(Numerals(n)) = n
      BY <2>2 DEF SizeOf
    <3>7. n \in Nat \ {0} /\ K = Numerals(n) \ {ToString(n - 1)}
      BY <2>2, <3>1, <3>2, <3>5
    <3> HIDE DEF K, n
    <3>8. K = Numerals(n - 1) /\ Cardinality(K) = n - 1
      BY <3>6, <3>7, NumeralsShrink
    <3> QED BY <3>8 DEF K, SizeOf
  <2> QED BY <2>3, <2>4
<1>7. IsDocument(g)
  BY <1>2, <1>3, <1>4, <1>5, <1>6, DocumentIs
<1> QED BY <1>7 DEF g

(* An object of a document is a document. *)
LEMMA ValueDocument ==
  ASSUME NEW doc, IsDocument(doc), NEW p \in DOMAIN doc
  PROVE  IsDocument(ValueAt(doc, p))
<1> DEFINE v == ValueAt(doc, p)
           S == Under(doc, p)
           f == [q \in S |-> Below(p, q)]
<1>1. /\ IsFiniteSet(DOMAIN doc) /\ DOMAIN doc \subseteq Path /\ p \in Path /\ <<>> \in Path
  BY PrefixEnds DEF IsDocument
<1>2. IsFiniteSet(S) /\ \A q \in S : q \in Path /\ IsPrefix(p, q)
  BY <1>1, FS_Subset DEF Under
<1>3. DOMAIN v = {f[q] : q \in S} /\ DOMAIN f = S
  BY DEF ValueAt
<1>4. DOMAIN v \subseteq Path
  <2>1. \A q \in S : f[q] \in Path
    BY <1>1, <1>2, BelowPath
  <2> QED BY <1>3, <2>1
<1> HIDE DEF S, f
<1>5. IsFiniteSet(DOMAIN v)
  BY <1>2, <1>3, ImageFinite
<1>6. \A r \in Path : /\ r \in DOMAIN v <=> p \o r \in DOMAIN doc
                      /\ p \o r \in DOMAIN doc => v[r] = doc[p \o r]
  BY <1>1, ValueBelow
<1> HIDE DEF v
<1>7. <<>> \in DOMAIN v
  BY <1>1, <1>6, PrefixEnds
<1>8. \A r \in Path : /\ p \o r \in Path /\ IsPrefix(p, p \o r) /\ Below(p, p \o r) = r
  BY <1>1, JoinedPath
<1>9. ASSUME NEW r \in DOMAIN v \ {<<>>}
      PROVE  Front(r) \in DOMAIN v /\ Indexable(v, Front(r))
  <2> DEFINE q == p \o r
  <2>1. r \in Path /\ r # <<>> /\ q \in DOMAIN doc /\ q \in Path /\ IsPrefix(p, q) /\ Below(p, q) = r
    BY <1>4, <1>6, <1>8
  <2>2. p # q
    BY <1>1, <2>1, PrefixEnds
  <2> HIDE DEF q
  <2>3. /\ q # <<>> /\ Front(q) \in Path /\ IsPrefix(p, Front(q))
        /\ Front(r) = Below(p, Front(q))
    BY <1>1, <2>1, <2>2, FrontBelow
  <2>4. Front(r) \in Path /\ p \o Front(r) = Front(q)
    BY <1>1, <2>3, BelowPath
  <2>5. Front(q) \in DOMAIN doc /\ Indexable(doc, Front(q))
    BY <2>1, <2>3 DEF IsDocument
  <2> QED BY <1>6, <2>4, <2>5 DEF Indexable
<1>10. ASSUME NEW r \in DOMAIN v, v[r] = List
       PROVE  KeysOf(v, r) = Numerals(SizeOf(v, r))
  <2>1. r \in Path /\ p \o r \in DOMAIN doc /\ doc[p \o r] = List /\ p \o r \in Path
    BY <1>4, <1>6, <1>8, <1>10
  <2>2. KeysOf(v, r) = {k \in Name : Append(r, k) \in DOMAIN v}
    BY <1>4, <2>1, KeysAreChildren
  <2>3. KeysOf(doc, p \o r) = {k \in Name : Append(p \o r, k) \in DOMAIN doc}
    BY <1>1, <2>1, KeysAreChildren
  <2>4. \A k \in Name : Append(r, k) \in Path /\ p \o Append(r, k) = Append(p \o r, k)
    BY <1>1, <2>1 DEF Path
  <2>5. \A k \in Name : Append(r, k) \in DOMAIN v <=> Append(p \o r, k) \in DOMAIN doc
    BY <1>6, <2>4
  <2>6. KeysOf(v, r) = KeysOf(doc, p \o r)
    BY <2>2, <2>3, <2>5
  <2>7. KeysOf(doc, p \o r) = Numerals(SizeOf(doc, p \o r))
    BY <2>1, KeysFinite
  <2> QED BY <2>6, <2>7 DEF SizeOf
<1>11. IsDocument(v)
  BY <1>4, <1>5, <1>7, <1>9, <1>10, DocumentIs
<1> QED BY <1>11 DEF v

LEMMA LongerPath ==
  ASSUME NEW p \in Path, NEW q \in Path, Len(q) = Len(p) + 1
  PROVE  q # <<>> /\ ~IsPrefix(q, p)
<1>1. Len(p) \in Nat /\ Len(p) + 1 # 0
  BY DEF Path
<1> QED BY <1>1, PrefixPointwise

(* list.erase leaves a document, with one element less. *)
LEMMA ErasedDocument ==
  ASSUME NEW doc, IsDocument(doc), NEW p \in DOMAIN doc, doc[p] = List,
         NEW i \in 0 .. SizeOf(doc, p) - 1
  PROVE  IsDocument(EraseElement(doc, p, i))
<1> DEFINE n == SizeOf(doc, p)
           Nth(j) == Append(p, ToString(j))
           Moved(d, j) == Graft(d, Nth(i + j - 1), ValueAt(d, Nth(i + j)))
           IsRun(g, k) == g = [j \in 0 .. k |-> IF j = 0 THEN doc ELSE Moved(g[j - 1], j)]
           last == n - 1 - i
           run == CHOOSE g : IsRun(g, last)
           S == {k \in Nat : \E g : IsRun(g, k)}
           Holds(d) == /\ IsDocument(d) /\ p \in DOMAIN d /\ d[p] = List
                       /\ KeysOf(d, p) = Numerals(n)
           T == {k \in Nat : k <= last => Holds(run[k])}
<1>1. /\ p \in Path /\ n \in Nat /\ i \in Nat /\ i < n /\ last \in Nat
      /\ KeysOf(doc, p) = Numerals(n)
  BY KeysFinite DEF IsDocument
<1>2. \A j \in 0 .. n - 1 : /\ ToString(j) \in Name /\ Nth(j) \in Path /\ Front(Nth(j)) = p
                            /\ Last(Nth(j)) = ToString(j) /\ Nth(j) # <<>> /\ ~IsPrefix(Nth(j), p)
  <2> TAKE j \in 0 .. n - 1
  <2>1. ToString(j) \in Name
    BY <1>1, KeysFinite DEF Numerals
  <2>2. Nth(j) \in Path /\ Front(Nth(j)) = p /\ Last(Nth(j)) = ToString(j) /\ Len(Nth(j)) = Len(p) + 1
    BY <1>1, <2>1, AppendedPath
  <2> HIDE DEF Nth
  <2>4. Nth(j) # <<>> /\ ~IsPrefix(Nth(j), p)
    BY <1>1, <2>2, LongerPath
  <2> QED BY <2>1, <2>2, <2>4
<1>3. EraseElement(doc, p, i) = Cut(run[last], Nth(n - 1))
  BY DEF EraseElement, Repeated
<1> HIDE DEF n, Nth
<1>4. last \in S
  <2> HIDE DEF Moved, last
  <2>1. IsRun([j \in {0} |-> doc], 0)
    OBVIOUS
  <2>2. ASSUME NEW k \in Nat, k \in S PROVE k + 1 \in S
    <3>1. PICK g : IsRun(g, k)
      BY <2>2
    <3> DEFINE h == [j \in 0 .. k + 1 |-> IF j <= k THEN g[j] ELSE Moved(g[k], k + 1)]
    <3>2. IsRun(h, k + 1) /\ k + 1 \in Nat
      BY <3>1
    <3> HIDE DEF h
    <3> QED BY <3>2
  <2>3. 0 \in S
    BY <2>1
  <2> HIDE DEF S
  <2> QED BY <1>1, <2>2, <2>3, InductionOn
<1>5. IsRun(run, last)
  <2> HIDE DEF Moved, last
  <2> QED BY <1>4
<1> HIDE DEF run, S
<1>6. last \in T
  <2>1. 0 \in T
    BY <1>1, <1>5
  <2>2. ASSUME NEW k \in Nat, k \in T PROVE k + 1 \in T
    <3> SUFFICES ASSUME k + 1 <= last PROVE Holds(run[k + 1])
      OBVIOUS
    <3> DEFINE d == run[k]
    <3>1. Holds(d) /\ run[k + 1] = Moved(d, k + 1)
      BY <1>1, <1>5, <2>2
    <3> HIDE DEF d
    <3>2. i + (k + 1) - 1 \in 0 .. n - 1 /\ i + (k + 1) \in 0 .. n - 1
      BY <1>1
    <3> DEFINE a == Nth(i + (k + 1) - 1)
               b == Nth(i + (k + 1))
    <3>3. \A j \in 0 .. n - 1 : Nth(j) \in DOMAIN d
      <4>1. \A j \in 0 .. n - 1 : ToString(j) \in KeysOf(d, p)
        BY <3>1 DEF Numerals
      <4> QED BY <1>1, <3>1, <4>1, KeysFinite DEF Nth
    <3>4. a \in DOMAIN d /\ b \in DOMAIN d
      BY <3>2, <3>3
    <3>5. a \in Path /\ Front(a) = p /\ Last(a) \in KeysOf(d, p) /\ a # <<>> /\ ~IsPrefix(a, p)
      BY <1>2, <3>1, <3>2 DEF Numerals
    <3> DEFINE e == Graft(d, a, ValueAt(d, b))
    <3>6. run[k + 1] = e
      BY <3>1
    <3> HIDE DEF a, b
    <3>7. IsDocument(ValueAt(d, b))
      BY <3>1, <3>4, ValueDocument
    <3>8. IsDocument(e)
      BY <3>1, <3>4, <3>5, <3>7, TakesAt, GraftDocument
    <3>12. DOMAIN d \subseteq Path /\ DOMAIN ValueAt(d, b) \subseteq Path
      BY <3>1, <3>7 DEF IsDocument
    <3>9. p \in DOMAIN e /\ e[p] = List
      BY <1>1, <3>1, <3>5, <3>12, Grafted
    <3>10. KeysOf(e, p) = KeysOf(d, p) \cup {Last(a)}
      BY <1>1, <3>1, <3>5, <3>7, KeysInGraft DEF IsDocument
    <3>11. KeysOf(e, p) = Numerals(n)
      BY <3>1, <3>5, <3>10
    <3> QED BY <3>6, <3>8, <3>9, <3>11
  <2> HIDE DEF T
  <2> QED BY <1>1, <2>1, <2>2, InductionOn
<1>7. Holds(run[last])
  BY <1>1, <1>6
<1> DEFINE d == run[last]
<1> HIDE DEF d
<1>8. /\ IsDocument(d) /\ p \in DOMAIN d /\ d[p] = List
      /\ KeysOf(d, p) = Numerals(n) /\ SizeOf(d, p) = n
  <2>1. Cardinality(KeysOf(doc, p)) = n
    BY DEF n, SizeOf
  <2>2. SizeOf(d, p) = n
    BY <1>1, <1>7, <2>1 DEF SizeOf, d
  <2> QED BY <1>7, <2>2 DEF d
<1>9. Nth(n - 1) \in DOMAIN d /\ Nth(n - 1) # <<>> /\ Front(Nth(n - 1)) = p
      /\ Last(Nth(n - 1)) = ToString(n - 1)
  <2>1. n - 1 \in 0 .. n - 1
    BY <1>1
  <2>2. ToString(n - 1) \in KeysOf(d, p)
    BY <1>8, <2>1 DEF Numerals
  <2> QED BY <1>1, <1>2, <1>8, <2>1, <2>2, KeysFinite DEF Nth
<1>10. IsDocument(Cut(d, Nth(n - 1)))
  BY <1>8, <1>9, CutDocument
<1> QED BY <1>3, <1>10 DEF d

-----------------------------------------------------------------------------
(* Mappers whose entries lead to places. *)
LEMMA EmptyIsMapper == EmptyMapper \in Mapper(Place)
BY DEF EmptyMapper, Mapper


LEMMA EntryOf ==
  ASSUME NEW mp \in Mapper(Place), NEW f \in Field, NEW v \in Val
  PROVE  mp.key[f][v] \in Place \cup {NoKey}
BY DEF Mapper

LEMMA IndexAdded ==
  ASSUME NEW mp \in Mapper(Place), NEW f \in Field
  PROVE  [mp EXCEPT !.indices = @ \cup {f}] \in Mapper(Place)
BY DEF Mapper

LEMMA UnregisteredMapper ==
  ASSUME NEW mp \in Mapper(Place), NEW olds
  PROVE  UnregisterAll(mp, olds) \in Mapper(Place)
<1> DEFINE Left(f, v) == IF f \in mp.indices /\ \E r \in olds : r[f] = v THEN NoKey
                         ELSE mp.key[f][v]
           key == [f \in Field |-> [v \in Val |-> Left(f, v)]]
<1>1. \A f \in Field, v \in Val : Left(f, v) \in Place \cup {NoKey}
  BY EntryOf
<1>2. UnregisterAll(mp, olds) = [mp EXCEPT !.key = key]
  BY DEF UnregisterAll
<1> HIDE DEF Left
<1>3. key \in [Field -> [Val -> Place \cup {NoKey}]]
  BY <1>1
<1> HIDE DEF key
<1> QED BY <1>2, <1>3 DEF Mapper

LEMMA RegisteredMapper ==
  ASSUME NEW mp \in Mapper(Place), NEW regs, \A r \in regs : r[2] \in Place
  PROVE  RegisterAll(mp, regs) \in Mapper(Place)
<1> DEFINE Given(f, v) == IF f \in mp.indices /\ Targets(mp, regs, f, v) # {}
                          THEN CHOOSE t \in Targets(mp, regs, f, v) : TRUE
                          ELSE mp.key[f][v]
           key == [f \in Field |-> [v \in Val |-> Given(f, v)]]
<1>1. \A f \in Field, v \in Val : Given(f, v) \in Place \cup {NoKey}
  <2> TAKE f \in Field, v \in Val
  <2>1. Targets(mp, regs, f, v) \subseteq Place \cup {NoKey}
    BY EntryOf DEF Targets
  <2> QED BY <2>1, EntryOf
<1>2. RegisterAll(mp, regs) = [mp EXCEPT !.key = key]
  BY DEF RegisterAll
<1> HIDE DEF Given
<1>3. key \in [Field -> [Val -> Place \cup {NoKey}]]
  BY <1>1
<1> HIDE DEF key
<1> QED BY <1>2, <1>3 DEF Mapper

LEMMA IndexedMapper ==
  ASSUME NEW mp \in Mapper(Place), NEW f \in Field, NEW rows, DOMAIN rows \subseteq Place
  PROVE  CreateIndex(mp, f, rows) \in Mapper(Place)
<1> DEFINE index == [v \in Val |-> IF Holders(rows, f, v) = {} THEN NoKey
                                   ELSE CHOOSE k \in Holders(rows, f, v) : TRUE]
<1>1. \A v : Holders(rows, f, v) \subseteq Place
  BY DEF Holders
<1>2. index \in [Val -> Place \cup {NoKey}]
  BY <1>1
<1>3. CreateIndex(mp, f, rows) = [indices |-> mp.indices \cup {f}, key |-> [mp.key EXCEPT ![f] = index]]
  BY DEF CreateIndex, WithIndex
<1> HIDE DEF index
<1> QED BY <1>2, <1>3 DEF Mapper

-----------------------------------------------------------------------------
(* Machines, as the operators of IndexManager make them. *)
IsMachine(m) ==
  m = [db |-> m.db, nodes |-> m.nodes, mappers |-> m.mappers, mappings |-> m.mappings,
       fault |-> m.fault]
IsSound(m) == IsMachine(m) /\ Formed(m)

LEMMA MachineIs ==
  ASSUME NEW m, NEW d, NEW n, NEW x, NEW g, NEW f,
         m = [db |-> d, nodes |-> n, mappers |-> x, mappings |-> g, fault |-> f]
  PROVE  /\ IsMachine(m) /\ m.db = d /\ m.nodes = n /\ m.mappers = x /\ m.mappings = g
         /\ m.fault = f
BY DEF IsMachine

LEMMA MachineWith ==
  ASSUME NEW m, IsMachine(m), NEW y, NEW g
  PROVE  /\ g = [m EXCEPT !.db = y] =>
              /\ IsMachine(g) /\ g.db = y /\ g.nodes = m.nodes /\ g.mappers = m.mappers
              /\ g.mappings = m.mappings /\ g.fault = m.fault
         /\ g = [m EXCEPT !.nodes = y] =>
              /\ IsMachine(g) /\ g.db = m.db /\ g.nodes = y /\ g.mappers = m.mappers
              /\ g.mappings = m.mappings /\ g.fault = m.fault
         /\ g = [m EXCEPT !.mappers = y] =>
              /\ IsMachine(g) /\ g.db = m.db /\ g.nodes = m.nodes /\ g.mappers = y
              /\ g.mappings = m.mappings /\ g.fault = m.fault
         /\ g = [m EXCEPT !.fault = y] =>
              /\ IsMachine(g) /\ g.db = m.db /\ g.nodes = m.nodes /\ g.mappers = m.mappers
              /\ g.mappings = m.mappings /\ g.fault = y
<1>1. /\ [m EXCEPT !.db = y] = [db |-> y, nodes |-> m.nodes, mappers |-> m.mappers,
                                mappings |-> m.mappings, fault |-> m.fault]
      /\ [m EXCEPT !.nodes = y] = [db |-> m.db, nodes |-> y, mappers |-> m.mappers,
                                mappings |-> m.mappings, fault |-> m.fault]
      /\ [m EXCEPT !.mappers = y] = [db |-> m.db, nodes |-> m.nodes, mappers |-> y,
                                mappings |-> m.mappings, fault |-> m.fault]
      /\ [m EXCEPT !.fault = y] = [db |-> m.db, nodes |-> m.nodes, mappers |-> m.mappers,
                                mappings |-> m.mappings, fault |-> y]
  BY DEF IsMachine
<1> QED BY <1>1, MachineIs

LEMMA FaultedSound ==
  ASSUME NEW m, IsMachine(m), NEW fault
  PROVE  /\ IsMachine(Faulted(m, fault))
         /\ Faulted(m, fault).db = m.db /\ Faulted(m, fault).nodes = m.nodes
         /\ Faulted(m, fault).mappers = m.mappers /\ Faulted(m, fault).mappings = m.mappings
         /\ Formed(Faulted(m, fault)) <=> Formed(m)
<1> DEFINE g == Faulted(m, fault)
<1>1. /\ IsMachine(g) /\ g.db = m.db /\ g.nodes = m.nodes
      /\ g.mappers = m.mappers /\ g.mappings = m.mappings
  <2>1. g = m \/ g = [m EXCEPT !.fault = fault]
    BY DEF Faulted
  <2> HIDE DEF g
  <2> QED BY <2>1, MachineWith
<1> HIDE DEF g
<1>2. Formed(g) <=> Formed(m)
  BY <1>1 DEF Formed
<1> QED BY <1>1, <1>2 DEF g

(* A machine with another document is sound. *)
LEMMA WithDocument ==
  ASSUME NEW m, IsSound(m), NEW d, IsDocument(d)
  PROVE  LET g == [m EXCEPT !.db = d]
         IN /\ IsSound(g) /\ g.db = d /\ g.nodes = m.nodes /\ g.mappers = m.mappers
            /\ g.mappings = m.mappings /\ g.fault = m.fault
<1> DEFINE g == [m EXCEPT !.db = d]
<1>1. /\ IsMachine(g) /\ g.db = d /\ g.nodes = m.nodes /\ g.mappers = m.mappers
      /\ g.mappings = m.mappings /\ g.fault = m.fault
  BY MachineWith DEF IsSound
<1> HIDE DEF g
<1>2. Formed(g)
  BY <1>1 DEF IsSound, Formed
<1> QED BY <1>1, <1>2 DEF IsSound, g

(* So is one with a mapper set at a node. *)
LEMMA MapperSet ==
  ASSUME NEW m, IsSound(m), NEW loc \in m.nodes, NEW mp \in Mapper(Place)
  PROVE  LET g == SetMapper(m, loc, mp)
         IN /\ IsSound(g) /\ g.db = m.db /\ g.nodes = m.nodes /\ g.mappings = m.mappings
            /\ g.fault = m.fault /\ MapperAt(g, loc) = mp
            /\ DOMAIN g.mappers = DOMAIN m.mappers \cup {loc}
<1> DEFINE g == SetMapper(m, loc, mp)
           x == [n \in DOMAIN m.mappers \cup {loc} |-> IF n = loc THEN mp ELSE m.mappers[n]]
<1>1. g = [m EXCEPT !.mappers = x]
  BY DEF SetMapper
<1>2. /\ DOMAIN x = DOMAIN m.mappers \cup {loc} /\ x[loc] = mp
      /\ x \in [DOMAIN x -> Mapper(Place)]
  BY DEF IsSound, Formed
<1> HIDE DEF g, x
<1>3. /\ IsMachine(g) /\ g.db = m.db /\ g.nodes = m.nodes /\ g.mappers = x
      /\ g.mappings = m.mappings /\ g.fault = m.fault
  BY <1>1, MachineWith DEF IsSound
<1>4. Formed(g)
  BY <1>2, <1>3 DEF IsSound, Formed
<1>5. MapperAt(g, loc) = mp
  BY <1>2, <1>3 DEF MapperAt
<1> QED BY <1>2, <1>3, <1>4, <1>5 DEF IsSound, g

LEMMA MapperFound ==
  ASSUME NEW m, IsSound(m), NEW loc
  PROVE  MapperAt(m, loc) \in Mapper(Place)
BY EmptyIsMapper DEF MapperAt, IsSound, Formed

(* Registering at a node changes its mapper only. *)
LEMMA RegisteredAt ==
  ASSUME NEW m, IsSound(m), NEW loc \in m.nodes, NEW regs, \A r \in regs : r[2] \in Place
  PROVE  LET g == RegisterAt(m, loc, regs)
         IN IsSound(g) /\ g.db = m.db /\ g.nodes = m.nodes /\ g.mappings = m.mappings
<1>1. IsSound(Faulted(m, "throw")) /\ Faulted(m, "throw").db = m.db
      /\ Faulted(m, "throw").nodes = m.nodes /\ Faulted(m, "throw").mappings = m.mappings
  BY FaultedSound DEF IsSound
<1>2. RegisterAll(MapperAt(m, loc), regs) \in Mapper(Place)
  BY MapperFound, RegisteredMapper
<1> QED BY <1>1, <1>2, MapperSet DEF RegisterAt

LEMMA StarThingUpdated ==
  ASSUME NEW m, IsSound(m), NEW loc \in m.nodes, NEW pattern \in Place
  PROVE  LET g == UpdateStarThing(m, loc, pattern)
         IN IsSound(g) /\ g.db = m.db /\ g.nodes = m.nodes /\ g.mappings = m.mappings
<1> DEFINE regs == {<<Attrs(m.db, p), p>> : p \in Matching(m.db, pattern)}
<1>1. ASSUME NEW p \in Matching(m.db, pattern) PROVE p \in Place
  <2>1. p \in Path /\ Len(p) = Len(pattern)
    BY DEF IsSound, Formed, IsDocument, Matching, PatternMatches
  <2>2. Len(pattern) # 0
    BY DEF Place, Path
  <2> QED BY <2>1, <2>2 DEF Place
<1>2. \A r \in regs : r[2] \in Place
  BY <1>1
<1>3. UpdateStarThing(m, loc, pattern) = RegisterAt(m, loc, regs)
  BY DEF UpdateStarThing
<1> HIDE DEF regs
<1> QED BY <1>2, <1>3, RegisteredAt

LEMMA IndexAddedAt ==
  ASSUME NEW m, IsSound(m), NEW loc \in m.nodes, NEW f \in Field
  PROVE  LET g == AddIndex(m, loc, f)
         IN IsSound(g) /\ g.db = m.db /\ g.nodes = m.nodes /\ g.mappings = m.mappings
BY MapperFound, IndexAdded, MapperSet DEF AddIndex

-----------------------------------------------------------------------------
(* Traversals: a sound machine, and frames whose objects the document has. *)
FrameOf(d) == [key : Name, obj : DOMAIN d \cup {NoObj}]
IsTraversal(t) ==
  /\ t = [m |-> t.m, frames |-> t.frames, stop |-> t.stop]
  /\ IsSound(t.m) /\ t.frames \in Seq(FrameOf(t.m.db)) /\ t.frames # <<>>

LEMMA TraversalIs ==
  ASSUME NEW t, NEW m, NEW frames, NEW stop, t = [m |-> m, frames |-> frames, stop |-> stop],
         IsSound(m), frames \in Seq(FrameOf(m.db)), frames # <<>>
  PROVE  IsTraversal(t) /\ t.m = m /\ t.frames = frames /\ t.stop = stop
BY DEF IsTraversal

(* The location of frames is a path, one key shorter than they are. *)
LEMMA LocationIs ==
  ASSUME NEW d, NEW frames \in Seq(FrameOf(d)), frames # <<>>
  PROVE  /\ Location(frames) \in Path /\ Len(frames) \in Nat \ {0}
         /\ Len(Location(frames)) = Len(frames) - 1
         /\ Last(frames).key \in Name /\ Last(frames).obj \in DOMAIN d \cup {NoObj}
<1>1. Len(frames) \in Nat \ {0} /\ \A i \in 1 .. Len(frames) : frames[i] \in FrameOf(d)
  OBVIOUS
<1>2. Location(frames) \in Seq(Name) /\ Len(Location(frames)) = Len(frames) - 1
  <2>1. \A i \in 1 .. Len(frames) - 1 : frames[i + 1].key \in Name
    BY <1>1 DEF FrameOf
  <2>2. Len(frames) - 1 \in Nat
    BY <1>1
  <2> QED BY <2>1, <2>2 DEF Location
<1>3. Last(frames) \in FrameOf(d)
  BY <1>1 DEF Last
<1> QED BY <1>1, <1>2, <1>3 DEF Path, FrameOf

(* Frames of a document are frames of one that has more. *)
LEMMA FramesGrow ==
  ASSUME NEW d, NEW e, DOMAIN d \subseteq DOMAIN e, NEW frames \in Seq(FrameOf(d))
  PROVE  frames \in Seq(FrameOf(e))
<1>1. FrameOf(d) \subseteq FrameOf(e)
  BY DEF FrameOf
<1> QED BY <1>1

LEMMA Starts ==
  ASSUME NEW m, IsSound(m)
  PROVE  IsTraversal(Start(m)) /\ Start(m).m = m
<1>1. <<>> \in DOMAIN m.db
  BY DEF IsSound, Formed, IsDocument
<1>2. RootFrames \in Seq(FrameOf(m.db)) /\ RootFrames # <<>>
  <2> DEFINE frame == [key |-> "[root]", obj |-> <<>>]
  <2>1. frame \in FrameOf(m.db)
    BY <1>1, NameAssumption DEF FrameOf
  <2>2. RootFrames = <<frame>>
    BY DEF RootFrames
  <2> HIDE DEF frame
  <2> QED BY <2>1, <2>2
<1> HIDE DEF RootFrames
<1> QED BY <1>2, TraversalIs DEF Start

(* The keys of a child lead to it. *)
LEMMA ChildFound ==
  ASSUME NEW d, IsDocument(d), NEW p \in DOMAIN d, NEW key, NEW k \in ChildKeys(d, p, key)
  PROVE  k \in Name /\ Append(p, k) \in DOMAIN d
<1>1. p \in Path
  BY DEF IsDocument
<1>2. k \in KeysOf(d, p)
  <2>1. CASE d[p] = Dict
    BY <2>1 DEF ChildKeys, List, Dict
  <2>2. CASE d[p] = List
    <3>1. k \in ElementKeys(SizeOf(d, p), key)
      BY <2>2 DEF ChildKeys, List, Dict
    <3>2. k \in Numerals(SizeOf(d, p))
      BY <3>1 DEF ElementKeys, ListPositions, Numerals
    <3> QED BY <1>1, <2>2, <3>2, KeysFinite
  <2>3. CASE d[p] \notin {Dict, List}
    BY <2>3 DEF ChildKeys
  <2> QED BY <2>1, <2>2, <2>3
<1> QED BY <1>1, <1>2, KeysFinite

(* A scalar made a dict. *)
LEMMA DictMade ==
  ASSUME NEW d, IsDocument(d), NEW p \in DOMAIN d, ~Indexable(d, p), NEW kind
  PROVE  /\ IsDocument(Graft(d, p, Leaf(kind)))
         /\ DOMAIN d \subseteq DOMAIN Graft(d, p, Leaf(kind))
         /\ Graft(d, p, Leaf(kind))[p] = kind
<1> DEFINE e == Graft(d, p, Leaf(kind))
           v == Leaf(kind)
<1>1. p \in Path /\ DOMAIN d \subseteq Path
  BY DEF IsDocument
<1>2. IsDocument(v) /\ DOMAIN v = {<<>>} /\ v[<<>>] = kind /\ DOMAIN v \subseteq Path
  BY LeafDocument DEF IsDocument
<1> HIDE DEF v
<1>3. IsDocument(e) /\ p \in DOMAIN e
  BY <1>1, <1>2, TakesAt, GraftDocument DEF v
<1>4. ASSUME NEW q \in DOMAIN d PROVE q \in DOMAIN e
  <2>1. CASE IsPrefix(p, q)
    BY <1>1, <1>3, <2>1, PrefixClosed
  <2>2. CASE ~IsPrefix(p, q)
    BY <1>1, <1>2, <2>2, Grafted DEF v
  <2> QED BY <2>1, <2>2
<1>5. e[p] = kind
  BY <1>1, <1>2, PrefixEnds, Grafted DEF v
<1> QED BY <1>3, <1>4, <1>5

(* A key added to a dict. *)
LEMMA KeyAdded ==
  ASSUME NEW d, IsDocument(d), NEW p \in DOMAIN d, d[p] = Dict,
         NEW k \in Name, Append(p, k) \notin DOMAIN d, NEW kind
  PROVE  /\ IsDocument(Graft(d, Append(p, k), Leaf(kind)))
         /\ DOMAIN d \subseteq DOMAIN Graft(d, Append(p, k), Leaf(kind))
         /\ Append(p, k) \in DOMAIN Graft(d, Append(p, k), Leaf(kind))
<1> DEFINE c == Append(p, k)
           v == Leaf(kind)
           e == Graft(d, c, v)
<1>1. p \in Path /\ DOMAIN d \subseteq Path
  BY DEF IsDocument
<1>2. c \in Path /\ Front(c) = p
  BY <1>1, AppendedPath
<1>3. IsDocument(v) /\ DOMAIN v \subseteq Path
  BY LeafDocument DEF IsDocument
<1> HIDE DEF c, v
<1>4. Takes(d, c)
  BY <1>2 DEF Takes, Indexable
<1>5. IsDocument(e) /\ c \in DOMAIN e
  BY <1>2, <1>3, <1>4, GraftDocument
<1>6. ASSUME NEW q \in DOMAIN d PROVE q \in DOMAIN e
  <2>1. ~IsPrefix(c, q)
    BY <1>2, PrefixClosed DEF c
  <2> QED BY <1>1, <1>2, <1>3, <2>1, Grafted
<1> QED BY <1>5, <1>6 DEF c, v

LEMMA Descended ==
  ASSUME NEW t, IsTraversal(t), NEW key \in Name, NEW create
  PROVE  IsTraversal(Descend(t, key, create)) /\ Descend(t, key, create).m.nodes = t.m.nodes
<1> DEFINE top  == Last(t.frames).obj
           db1  == IF top # NoObj /\ create /\ ~Indexable(t.m.db, top)
                   THEN Graft(t.m.db, top, Leaf(Dict)) ELSE t.m.db
           found == IF top = NoObj THEN {} ELSE ChildKeys(db1, top, key)
           adds == /\ create /\ top # NoObj /\ found = {}
                   /\ Append(Location(t.frames), key) \notin t.m.nodes
                   /\ Adds(db1, top)
           db2  == IF adds THEN Graft(db1, Append(top, key), Leaf(Empty)) ELSE db1
           obj  == CASE found # {} -> Append(top, CHOOSE k \in found : TRUE)
                     [] adds -> Append(top, key)
                     [] OTHER -> NoObj
           m2   == [t.m EXCEPT !.db = db2]
           frames == Append(t.frames, [key |-> key, obj |-> obj])
           stop == key = ""
<1>1. Descend(t, key, create) = [m |-> m2, frames |-> frames, stop |-> stop]
  BY DEF Descend
<1>2. /\ IsSound(t.m) /\ IsDocument(t.m.db) /\ top \in DOMAIN t.m.db \cup {NoObj}
      /\ t.frames \in Seq(FrameOf(t.m.db))
  BY LocationIs DEF IsTraversal, IsSound, Formed
<1> HIDE DEF top
<1>3. IsDocument(db1) /\ DOMAIN t.m.db \subseteq DOMAIN db1
  BY <1>2, DictMade
<1> HIDE DEF db1
<1>4. top # NoObj => top \in DOMAIN db1
  BY <1>2, <1>3
<1>5. \A k \in found : k \in Name /\ Append(top, k) \in DOMAIN db1
  BY <1>3, <1>4, ChildFound
<1>6. adds => /\ top \in DOMAIN db1 /\ db1[top] = Dict /\ Append(top, key) \notin DOMAIN db1
  <2> SUFFICES ASSUME adds PROVE top \in DOMAIN db1 /\ db1[top] = Dict /\ Append(top, key) \notin DOMAIN db1
    OBVIOUS
  <2>1. top \in DOMAIN db1 /\ db1[top] = Dict /\ ChildKeys(db1, top, key) = {}
    BY <1>4 DEF Adds
  <2>2. top \in Path
    BY <1>3, <2>1 DEF IsDocument
  <2>3. key \notin KeysOf(db1, top)
    BY <2>1 DEF ChildKeys, List, Dict
  <2> QED BY <1>3, <2>1, <2>2, <2>3, KeysFinite
<1> HIDE DEF found, adds
<1>7. /\ IsDocument(db2) /\ DOMAIN db1 \subseteq DOMAIN db2
      /\ adds => Append(top, key) \in DOMAIN db2
  BY <1>3, <1>6, KeyAdded
<1> HIDE DEF db2
<1>8. obj \in DOMAIN db2 \cup {NoObj}
  BY <1>5, <1>7
<1> HIDE DEF obj
<1>9. IsSound(m2) /\ m2.db = db2 /\ m2.nodes = t.m.nodes
  BY <1>2, <1>7, WithDocument
<1> HIDE DEF m2
<1>10. [key |-> key, obj |-> obj] \in FrameOf(db2) /\ t.frames \in Seq(FrameOf(db2))
  BY <1>2, <1>3, <1>7, <1>8, FramesGrow DEF FrameOf
<1>11. frames \in Seq(FrameOf(db2)) /\ frames # <<>>
  BY <1>10
<1> HIDE DEF frames, stop
<1> QED BY <1>1, <1>9, <1>11, TraversalIs

(* A traversal with another machine, frames or mark is one. *)
LEMMA TraversalWith ==
  ASSUME NEW t, IsTraversal(t), NEW g
  PROVE  /\ \A m : IsSound(m) /\ m.db = t.m.db /\ g = [t EXCEPT !.m = m] =>
              IsTraversal(g) /\ g.m = m /\ g.frames = t.frames
         /\ \A stop : g = [t EXCEPT !.stop = stop] =>
              IsTraversal(g) /\ g.m = t.m /\ g.frames = t.frames
         /\ \A frames : frames \in Seq(FrameOf(t.m.db)) /\ frames # <<>>
                          /\ g = [t EXCEPT !.frames = frames] =>
              IsTraversal(g) /\ g.m = t.m /\ g.frames = frames
<1>1. t = [m |-> t.m, frames |-> t.frames, stop |-> t.stop]
  BY DEF IsTraversal
<1>2. \A m : [t EXCEPT !.m = m] = [m |-> m, frames |-> t.frames, stop |-> t.stop]
  BY <1>1
<1>3. \A stop : [t EXCEPT !.stop = stop] = [m |-> t.m, frames |-> t.frames, stop |-> stop]
  BY <1>1
<1>4. \A frames : [t EXCEPT !.frames = frames] = [m |-> t.m, frames |-> frames, stop |-> t.stop]
  BY <1>1
<1>5. IsSound(t.m) /\ t.frames \in Seq(FrameOf(t.m.db)) /\ t.frames # <<>>
  BY DEF IsTraversal
<1>6. ASSUME NEW m, IsSound(m), m.db = t.m.db, g = [t EXCEPT !.m = m]
      PROVE  IsTraversal(g) /\ g.m = m /\ g.frames = t.frames
  BY <1>2, <1>5, <1>6, TraversalIs
<1>7. ASSUME NEW stop, g = [t EXCEPT !.stop = stop]
      PROVE  IsTraversal(g) /\ g.m = t.m /\ g.frames = t.frames
  <2>1. g = [m |-> t.m, frames |-> t.frames, stop |-> stop]
    BY <1>3, <1>7
  <2> QED BY <1>5, <2>1, TraversalIs
<1>8. ASSUME NEW frames, frames \in Seq(FrameOf(t.m.db)), frames # <<>>, g = [t EXCEPT !.frames = frames]
      PROVE  IsTraversal(g) /\ g.m = t.m /\ g.frames = frames
  BY <1>4, <1>5, <1>8, TraversalIs
<1> QED BY <1>6, <1>7, <1>8

LEMMA AbsolutelyDescended ==
  ASSUME NEW t, IsTraversal(t), NEW target \in Path, NEW create
  PROVE  IsTraversal(DescendAbsolute(t, target, create))
<1> DEFINE Walk(s, i) == IF s.stop THEN s ELSE Descend(s, target[i], create)
           IsRun(g, k) == g = [j \in 0 .. k |-> IF j = 0 THEN Start(t.m) ELSE Walk(g[j - 1], j)]
           last == Len(target)
           run == CHOOSE g : IsRun(g, last)
           S == {k \in Nat : \E g : IsRun(g, k)}
           T == {k \in Nat : k <= last => IsTraversal(run[k])}
<1>1. last \in Nat /\ \A i \in 1 .. last : target[i] \in Name
  BY DEF Path
<1>2. DescendAbsolute(t, target, create) = [run[last] EXCEPT !.stop = FALSE]
  BY DEF DescendAbsolute, Repeated
<1>3. ASSUME NEW s, IsTraversal(s), NEW i \in 1 .. last PROVE IsTraversal(Walk(s, i))
  BY <1>1, <1>3, Descended
<1> HIDE DEF Walk, last
<1>4. last \in S
  <2>1. IsRun([j \in {0} |-> Start(t.m)], 0)
    OBVIOUS
  <2>2. ASSUME NEW k \in Nat, k \in S PROVE k + 1 \in S
    <3>1. PICK g : IsRun(g, k)
      BY <2>2
    <3> DEFINE h == [j \in 0 .. k + 1 |-> IF j <= k THEN g[j] ELSE Walk(g[k], k + 1)]
    <3>2. IsRun(h, k + 1) /\ k + 1 \in Nat
      BY <3>1
    <3> HIDE DEF h
    <3> QED BY <3>2
  <2>3. 0 \in S
    BY <2>1
  <2> HIDE DEF S
  <2> QED BY <1>1, <2>2, <2>3, InductionOn
<1>5. IsRun(run, last)
  BY <1>4
<1> HIDE DEF run, S
<1>6. 0 \in T
  BY <1>1, <1>5, Starts DEF IsTraversal
<1>7. ASSUME NEW k \in Nat, k \in T PROVE k + 1 \in T
  <2> SUFFICES ASSUME k + 1 <= last PROVE IsTraversal(run[k + 1])
    OBVIOUS
  <2>1. IsTraversal(run[k]) /\ run[k + 1] = Walk(run[k], k + 1)
    BY <1>1, <1>5, <1>7
  <2>2. k + 1 \in 1 .. last
    BY <1>1
  <2> QED BY <1>3, <2>1, <2>2
<1> HIDE DEF T
<1>8. last \in T
  BY <1>1, <1>6, <1>7, InductionOn
<1>9. IsTraversal(run[last])
  BY <1>1, <1>8 DEF T
<1> QED BY <1>2, <1>9, TraversalWith

LEMMA OneKeyPlace ==
  ASSUME NEW k \in Name
  PROVE  <<k>> \in Place
BY DEF Place, Path

(* Building the index of a place leaves the document and the nodes. *)
LEMMA IndexBuilt ==
  ASSUME NEW m, IsSound(m), NEW loc \in m.nodes, NEW obj \in DOMAIN m.db \cup {NoObj}, NEW f \in Field
  PROVE  IsSound(BuildIndex(m, loc, obj, f)) /\ BuildIndex(m, loc, obj, f).db = m.db
<1>1. CASE obj # NoObj
  <2> DEFINE rows == [k \in (IF Indexable(m.db, obj) THEN KeysOf(m.db, obj) ELSE {})
                        |-> Attrs(m.db, Append(obj, k))]
             rel == [p \in {<<k>> : k \in DOMAIN rows} |-> rows[p[1]]]
             mp == CreateIndex(MapperAt(m, loc), f, rel)
  <2>1. BuildIndex(m, loc, obj, f) = IF OneToOne(rows, f) THEN SetMapper(m, loc, mp) ELSE Faulted(m, "throw")
    BY <1>1 DEF BuildIndex
  <2>2. DOMAIN rel = {<<k>> : k \in DOMAIN rows} /\ DOMAIN rows \subseteq KeysOf(m.db, obj)
    OBVIOUS
  <2>3. IsDocument(m.db) /\ obj \in Path
    BY <1>1 DEF IsSound, Formed, IsDocument
  <2>4. KeysOf(m.db, obj) \subseteq Name
    BY <2>3, KeysFinite
  <2> HIDE DEF rows, rel
  <2>5. DOMAIN rel \subseteq Place
    BY <2>2, <2>4, OneKeyPlace
  <2>6. mp \in Mapper(Place)
    BY <2>5, MapperFound, IndexedMapper
  <2> HIDE DEF mp
  <2>7. IsSound(SetMapper(m, loc, mp)) /\ SetMapper(m, loc, mp).db = m.db
    BY <2>6, MapperSet
  <2>8. IsSound(Faulted(m, "throw")) /\ Faulted(m, "throw").db = m.db
    BY FaultedSound DEF IsSound
  <2> QED BY <2>1, <2>7, <2>8
<1>2. CASE obj = NoObj
  <2> DEFINE Updated(a, i) ==
               IF i \in MappingsAt(m, loc)
               THEN UpdateStarThing(AddIndex(a, loc, f), loc, m.mappings[i].pattern) ELSE a
             start == SetMapper(m, loc, MapperAt(m, loc))
             IsRun(g, k) == g = [j \in 0 .. k |-> IF j = 0 THEN start ELSE Updated(g[j - 1], j)]
             last == Len(m.mappings)
             run == CHOOSE g : IsRun(g, last)
             S == {k \in Nat : \E g : IsRun(g, k)}
             Holds(a) == IsSound(a) /\ a.db = m.db /\ a.nodes = m.nodes
             T == {k \in Nat : k <= last => Holds(run[k])}
  <2>1. /\ last \in Nat
        /\ \A i \in MappingsAt(m, loc) : m.mappings[i].pattern \in Place
    <3>1. m.mappings \in Seq(StarIndex)
      BY DEF IsSound, Formed
    <3>2. last \in Nat /\ \A i \in DOMAIN m.mappings : m.mappings[i] \in StarIndex
      BY <3>1
    <3> QED BY <3>2 DEF StarIndex, MappingsAt
  <2>2. BuildIndex(m, loc, obj, f) = run[last]
    BY <1>2 DEF BuildIndex, Repeated
  <2>3. Holds(start)
    BY MapperFound, MapperSet
  <2>4. ASSUME NEW a, Holds(a), NEW i PROVE Holds(Updated(a, i))
    <3>1. Holds(AddIndex(a, loc, f))
      BY <2>4, IndexAddedAt
    <3>2. i \in MappingsAt(m, loc) =>
            Holds(UpdateStarThing(AddIndex(a, loc, f), loc, m.mappings[i].pattern))
      BY <2>1, <3>1, StarThingUpdated
    <3> QED BY <2>4, <3>2
  <2> HIDE DEF Updated, last, start, Holds
  <2>5. last \in S
    <3>1. IsRun([j \in {0} |-> start], 0)
      OBVIOUS
    <3>2. ASSUME NEW k \in Nat, k \in S PROVE k + 1 \in S
      <4>1. PICK g : IsRun(g, k)
        BY <3>2
      <4> DEFINE h == [j \in 0 .. k + 1 |-> IF j <= k THEN g[j] ELSE Updated(g[k], k + 1)]
      <4>2. IsRun(h, k + 1) /\ k + 1 \in Nat
        BY <4>1
      <4> HIDE DEF h
      <4> QED BY <4>2
    <3>3. 0 \in S
      BY <3>1
    <3> HIDE DEF S
    <3> QED BY <2>1, <3>2, <3>3, InductionOn
  <2>6. IsRun(run, last)
    BY <2>5
  <2> HIDE DEF run, S
  <2>7. 0 \in T
    BY <2>1, <2>3, <2>6
  <2>8. ASSUME NEW k \in Nat, k \in T PROVE k + 1 \in T
    <3> SUFFICES ASSUME k + 1 <= last PROVE Holds(run[k + 1])
      OBVIOUS
    <3>1. Holds(run[k]) /\ run[k + 1] = Updated(run[k], k + 1)
      BY <2>1, <2>6, <2>8
    <3> QED BY <2>4, <3>1
  <2> HIDE DEF T
  <2>9. last \in T
    BY <2>1, <2>7, <2>8, InductionOn
  <2>10. Holds(run[last])
    BY <2>1, <2>9 DEF T
  <2> QED BY <2>2, <2>10 DEF Holds
<1> QED BY <1>1, <1>2

(* The prefixes of a path are a tree that ends in it. *)
LEMMA PrefixTree ==
  ASSUME NEW loc \in Path
  PROVE  /\ Prefixes(loc) \subseteq Path /\ loc \in Prefixes(loc)
         /\ \A n \in Prefixes(loc) \ {<<>>} : Front(n) \in Prefixes(loc)
<1>1. Len(loc) \in Nat
  BY DEF Path
<1>2. \A l \in 0 .. Len(loc) : /\ SubSeq(loc, 1, l) \in Path /\ Len(SubSeq(loc, 1, l)) = l
                               /\ \A i \in 1 .. l : SubSeq(loc, 1, l)[i] = loc[i]
  BY <1>1, FirstKeys
<1>3. Prefixes(loc) = {SubSeq(loc, 1, l) : l \in 0 .. Len(loc)}
  BY DEF Prefixes
<1>4. loc = SubSeq(loc, 1, Len(loc))
  <2> DEFINE s == SubSeq(loc, 1, Len(loc))
  <2>1. s \in Path /\ Len(s) = Len(loc) /\ \A i \in 1 .. Len(loc) : s[i] = loc[i]
    BY <1>1, <1>2
  <2> HIDE DEF s
  <2>2. s = loc
    BY <2>1 DEF Path
  <2> QED BY <2>2 DEF s
<1>5. ASSUME NEW n \in Prefixes(loc) \ {<<>>} PROVE Front(n) \in Prefixes(loc)
  <2>1. PICK l \in 0 .. Len(loc) : n = SubSeq(loc, 1, l)
    BY <1>3
  <2>2. n \in Path /\ Len(n) = l /\ \A i \in 1 .. l : n[i] = loc[i]
    BY <1>2, <2>1
  <2>3. l - 1 \in 0 .. Len(loc)
    BY <1>1, <2>2 DEF Path
  <2> DEFINE s == SubSeq(loc, 1, l - 1)
             r == Front(n)
  <2>4. s \in Path /\ Len(s) = l - 1 /\ \A i \in 1 .. l - 1 : s[i] = loc[i]
    BY <1>2, <2>3
  <2>5. r \in Path /\ Len(r) = l - 1 /\ \A i \in 1 .. l - 1 : r[i] = n[i]
    BY <2>2, FrontPath
  <2>6. \A i \in 1 .. l - 1 : r[i] = loc[i]
    BY <2>2, <2>5
  <2> HIDE DEF s, r
  <2>7. r = s
    BY <2>4, <2>5, <2>6 DEF Path
  <2> QED BY <1>3, <2>3, <2>7 DEF r, s
<1>6. Prefixes(loc) \subseteq Path
  BY <1>2, <1>3
<1>7. loc \in Prefixes(loc)
  <2>1. SubSeq(loc, 1, Len(loc)) \in Prefixes(loc)
    BY <1>1, <1>3
  <2> QED BY <1>4, <2>1
<1> QED BY <1>5, <1>6, <1>7

(* The index nodes down to a place made. *)
NodesTo(m, loc) == [m EXCEPT !.nodes = @ \cup Prefixes(loc)]

LEMMA NodesMade ==
  ASSUME NEW m, IsSound(m), NEW loc \in Path, NEW g, g = NodesTo(m, loc)
  PROVE  /\ IsSound(g) /\ loc \in g.nodes /\ g.db = m.db /\ g.mappers = m.mappers
         /\ g.mappings = m.mappings
<1> DEFINE N == m.nodes \cup Prefixes(loc)
<1>1. N \subseteq Path /\ <<>> \in N /\ (\A n \in N \ {<<>>} : Front(n) \in N) /\ m.nodes \subseteq N /\ loc \in N
  BY PrefixTree DEF IsSound, Formed
<1> HIDE DEF N
<1>2. /\ IsMachine(g) /\ g.db = m.db /\ g.nodes = N /\ g.mappers = m.mappers
      /\ g.mappings = m.mappings
  BY MachineWith DEF IsSound, NodesTo, N
<1>3. Formed(g)
  BY <1>1, <1>2 DEF IsSound, Formed
<1> QED BY <1>1, <1>2, <1>3 DEF IsSound

LEMMA Resolved ==
  ASSUME NEW t, IsTraversal(t), NEW f \in Field
  PROVE  IsSound(Resolve(t, f)) /\ Resolve(t, f).db = t.m.db
<1> DEFINE loc == Location(t.frames)
           m1  == [t.m EXCEPT !.nodes = @ \cup Prefixes(loc)]
<1>1. IsSound(t.m) /\ loc \in Path /\ Last(t.frames).obj \in DOMAIN t.m.db \cup {NoObj}
  BY LocationIs DEF IsTraversal
<1>2. Resolve(t, f) = IF HasIndex(MapperAt(m1, loc), f) THEN m1
                      ELSE BuildIndex(m1, loc, Last(t.frames).obj, f)
  BY DEF Resolve
<1> HIDE DEF loc
<1>3. m1 = NodesTo(t.m, loc)
  BY DEF NodesTo
<1> HIDE DEF m1
<1>4. IsSound(m1) /\ loc \in m1.nodes /\ m1.db = t.m.db
  BY <1>1, <1>3, NodesMade
<1> QED BY <1>1, <1>2, <1>4, IndexBuilt

LEMMA Followed ==
  ASSUME NEW t, IsTraversal(t), NEW f \in Field, NEW v \in Val, NEW create
  PROVE  IsTraversal(Follow(t, f, v, create))
<1> DEFINE target == Get(MapperAt(t.m, Location(t.frames)), f, v)
<1>1. target \in Place \cup {NoKey}
  BY MapperFound, EntryOf DEF Get, IsTraversal
<1>2. Follow(t, f, v, create) =
        IF t.m.fault # "none" THEN t
        ELSE IF target # NoKey /\ Len(target) > 1 THEN DescendAbsolute(t, target, create)
        ELSE Descend(t, IF target = NoKey THEN "" ELSE target[1], create)
  BY DEF Follow
<1> HIDE DEF target
<1>3. target # NoKey => target \in Path /\ target[1] \in Name
  BY <1>1 DEF Place, Path
<1>4. "" \in Name
  BY NameAssumption
<1> DEFINE key == IF target = NoKey THEN "" ELSE target[1]
<1>5. key \in Name
  BY <1>3, <1>4
<1> HIDE DEF key
<1>6. IsTraversal(Descend(t, key, create))
  BY <1>5, Descended
<1>7. target # NoKey => IsTraversal(DescendAbsolute(t, target, create))
  BY <1>3, AbsolutelyDescended
<1> QED BY <1>2, <1>6, <1>7 DEF key

LEMMA SteppedBy ==
  ASSUME NEW t, IsTraversal(t), NEW f \in Field, NEW v \in Val, NEW create
  PROVE  IsTraversal(StepBy(t, f, v, create))
<1>1. IsTraversal(Descend(t, "", create))
  BY NameAssumption, Descended
<1> DEFINE g == [t EXCEPT !.m = Resolve(t, f)]
<1>2. IsTraversal(g)
  BY Resolved, TraversalWith
<1> HIDE DEF g
<1>3. IsTraversal(Follow(g, f, v, create))
  BY <1>2, Followed
<1> QED BY <1>1, <1>3 DEF StepBy, g

(* A key of an address. *)
IsKey(key) == (key \in Path /\ Len(key) = 1) \/ (\E f \in Field, v \in Val : key = <<f, v>>)

LEMMA Stepped ==
  ASSUME NEW t, IsTraversal(t), NEW key, IsKey(key), NEW create
  PROVE  IsTraversal(Step(t, key, create))
<1>1. CASE t.stop \/ t.m.fault # "none"
  BY <1>1 DEF Step
<1>2. CASE ~(t.stop \/ t.m.fault # "none") /\ key = <<"---">>
  <2>1. Step(t, key, create) = IF Len(t.frames) > 1 THEN [t EXCEPT !.frames = Front(@)] ELSE t
    BY <1>2 DEF Step
  <2>2. CASE Len(t.frames) > 1
    <3> DEFINE frames == Front(t.frames)
    <3>1. t.frames \in Seq(FrameOf(t.m.db))
      BY DEF IsTraversal
    <3>2. frames \in Seq(FrameOf(t.m.db)) /\ Len(frames) = Len(t.frames) - 1
      <4>1. Len(t.frames) - 1 \in Nat /\ Len(t.frames) - 1 <= Len(t.frames)
        BY <2>2, <3>1
      <4> DEFINE n == Len(t.frames) - 1
      <4> HIDE DEF n
      <4>2. SubSeq(t.frames, 1, n) \in Seq(FrameOf(t.m.db)) /\ Len(SubSeq(t.frames, 1, n)) = n
        BY <3>1, <4>1 DEF n
      <4> QED BY <4>2 DEF n, Front
    <3>3. frames # <<>>
      BY <2>2, <3>1, <3>2
    <3> HIDE DEF frames
    <3>4. IsTraversal([t EXCEPT !.frames = frames])
      BY <3>2, <3>3, TraversalWith
    <3> QED BY <2>1, <2>2, <3>4 DEF frames
  <2> QED BY <2>1, <2>2
<1>3. CASE ~(t.stop \/ t.m.fault # "none") /\ key # <<"---">> /\ key \in Path /\ Len(key) = 1
  <2>1. Step(t, key, create) = Descend(t, key[1], create)
    BY <1>3 DEF Step
  <2>2. key[1] \in Name
    BY <1>3 DEF Path
  <2> QED BY <2>1, <2>2, Descended
<1>4. CASE ~(t.stop \/ t.m.fault # "none") /\ key # <<"---">> /\ \E f \in Field, v \in Val : key = <<f, v>>
  <2>1. PICK f \in Field, v \in Val : key = <<f, v>>
    BY <1>4
  <2>2. Len(key) = 2 /\ key[1] = f /\ key[2] = v
    BY <2>1
  <2>3. Step(t, key, create) = StepBy(t, f, v, create)
    BY <1>4, <2>2 DEF Step
  <2> QED BY <2>3, SteppedBy
<1> QED BY <1>1, <1>2, <1>3, <1>4 DEF IsKey

LEMMA AddressKeys ==
  ASSUME NEW keys, IsAddress(keys)
  PROVE  Len(keys) \in Nat /\ \A i \in 1 .. Len(keys) : IsKey(keys[i])
BY DEF IsAddress, IsKey

(* A traversal walks over the keys: what the definition of TraverseTo      *)
(* chooses exists.                                                         *)
IsWalk(at, m, keys, create) ==
  at = [n \in 0 .. Len(keys) |->
          IF n = 0 THEN Start(m) ELSE Step(at[n - 1], keys[n], create)]

LEMMA TraversalWalks ==
  ASSUME NEW m, NEW keys, NEW create, Len(keys) \in Nat
  PROVE  \E at : IsWalk(at, m, keys, create) /\ TraverseTo(m, keys, create) = at[Len(keys)]
<1> DEFINE Next1(a, n) == Step(a, keys[n], create)
           IsRun(at, k) == at = [n \in 0 .. k |-> IF n = 0 THEN Start(m) ELSE Next1(at[n - 1], n)]
           last == Len(keys)
           run == CHOOSE at : IsRun(at, last)
           S == {k \in Nat : \E at : IsRun(at, k)}
<1>1. TraverseTo(m, keys, create) = run[last]
  BY DEF TraverseTo, Repeated
<1>2. IsRun(run, last) => IsWalk(run, m, keys, create)
  BY DEF IsWalk
<1> HIDE DEF Next1, last
<1>3. last \in S
  <2>1. IsRun([n \in {0} |-> Start(m)], 0)
    OBVIOUS
  <2>2. ASSUME NEW k \in Nat, k \in S PROVE k + 1 \in S
    <3>1. PICK at : IsRun(at, k)
      BY <2>2
    <3> DEFINE h == [n \in 0 .. k + 1 |-> IF n <= k THEN at[n] ELSE Next1(at[k], k + 1)]
    <3>2. IsRun(h, k + 1) /\ k + 1 \in Nat
      BY <3>1
    <3> HIDE DEF h
    <3> QED BY <3>2
  <2>3. 0 \in S
    BY <2>1
  <2> HIDE DEF S
  <2> QED BY <2>2, <2>3, InductionOn DEF last
<1>4. IsRun(run, last)
  BY <1>3
<1> QED BY <1>1, <1>2, <1>4 DEF last

(* Wherever a client's keys lead, the machine is sound. *)
LEMMA TraversalSound ==
  ASSUME NEW m, IsSound(m), NEW keys, IsAddress(keys), NEW create
  PROVE  IsTraversal(TraverseTo(m, keys, create))
<1> DEFINE last == Len(keys)
<1>1. last \in Nat /\ \A i \in 1 .. last : IsKey(keys[i])
  BY AddressKeys
<1>2. PICK run : IsWalk(run, m, keys, create) /\ TraverseTo(m, keys, create) = run[last]
  BY <1>1, TraversalWalks
<1>3. /\ run[0] = Start(m)
      /\ \A n \in 1 .. last : run[n] = Step(run[n - 1], keys[n], create)
  BY <1>1, <1>2 DEF IsWalk
<1> HIDE DEF last
<1> DEFINE T == {k \in Nat : k <= last => IsTraversal(run[k])}
<1>4. 0 \in T
  BY <1>3, Starts
<1>5. ASSUME NEW k \in Nat, k \in T PROVE k + 1 \in T
  <2> SUFFICES ASSUME k + 1 <= last PROVE IsTraversal(run[k + 1])
    OBVIOUS
  <2>1. k + 1 \in 1 .. last
    BY <1>1
  <2>2. IsTraversal(run[k]) /\ run[k + 1] = Step(run[k], keys[k + 1], create)
    BY <1>1, <1>3, <1>5, <2>1
  <2> QED BY <1>1, <2>1, <2>2, Stepped
<1> HIDE DEF T
<1>6. last \in T
  BY <1>1, <1>4, <1>5, InductionOn
<1>7. IsTraversal(run[last])
  BY <1>1, <1>6 DEF T
<1> QED BY <1>2, <1>7

-----------------------------------------------------------------------------
(* The bookkeeping around deletions and creations. *)
SameBut(g, m) == g.db = m.db /\ g.nodes = m.nodes /\ g.mappers = m.mappers /\ g.mappings = m.mappings

LEMMA PointerFaulted ==
  ASSUME NEW m, IsSound(m), NEW used
  PROVE  IsSound(PointerFault(m, used)) /\ SameBut(PointerFault(m, used), m)
<1>1. \A fault : IsSound(Faulted(m, fault)) /\ SameBut(Faulted(m, fault), m)
  BY FaultedSound DEF IsSound, SameBut
<1>2. SameBut(m, m)
  BY DEF SameBut
<1> HIDE DEF SameBut, IsSound
<1> QED BY <1>1, <1>2 DEF PointerFault

(* Mappings whose nodes may dangle are mappings. *)
Dangling(list, gone) ==
  [i \in DOMAIN list |->
     IF list[i].node = "live" /\ list[i].loc \in gone
     THEN [list[i] EXCEPT !.node = "dangling"] ELSE list[i]]

LEMMA MappingsDangle ==
  ASSUME NEW list \in Seq(StarIndex), NEW gone, NEW left, left = Dangling(list, gone)
  PROVE  /\ left \in Seq(StarIndex) /\ DOMAIN left = DOMAIN list
         /\ \A i \in DOMAIN left : left[i].node = "live" =>
              list[i].node = "live" /\ left[i].loc = list[i].loc /\ left[i].loc \notin gone
<1>1. \A i \in DOMAIN list : list[i] \in StarIndex
  OBVIOUS
<1>2. ASSUME NEW i \in DOMAIN list
      PROVE  /\ [list[i] EXCEPT !.node = "dangling"] \in StarIndex
             /\ [list[i] EXCEPT !.node = "dangling"].node = "dangling"
  BY <1>1 DEF StarIndex
<1>0. /\ DOMAIN left = DOMAIN list
      /\ \A i \in DOMAIN list : left[i] = IF list[i].node = "live" /\ list[i].loc \in gone
                                       THEN [list[i] EXCEPT !.node = "dangling"] ELSE list[i]
  BY DEF Dangling
<1>3. DOMAIN list = 1 .. Len(list) /\ Len(list) \in Nat
  OBVIOUS
<1>4. \A i \in DOMAIN list : left[i] \in StarIndex
  BY <1>0, <1>1, <1>2
<1>5. left \in Seq(StarIndex)
  <2>1. left = [i \in 1 .. Len(list) |-> left[i]]
    BY <1>3 DEF Dangling
  <2> QED BY <1>3, <1>4, <2>1
<1>6. ASSUME NEW i \in DOMAIN left, left[i].node = "live"
      PROVE  list[i].node = "live" /\ left[i].loc = list[i].loc /\ left[i].loc \notin gone
  <2>1. CASE list[i].node = "live" /\ list[i].loc \in gone
    BY <1>0, <1>2, <1>6, <2>1
  <2>2. CASE ~(list[i].node = "live" /\ list[i].loc \in gone)
    BY <1>0, <1>6, <2>2
  <2> QED BY <2>1, <2>2
<1> QED BY <1>0, <1>5, <1>6

(* A machine with other nodes, mappers and mappings. *)
Remade(m, n, x, y) == [m EXCEPT !.nodes = n, !.mappers = x, !.mappings = y]

LEMMA MachineRemade ==
  ASSUME NEW m, IsMachine(m), NEW n, NEW x, NEW y, NEW g, g = Remade(m, n, x, y)
  PROVE  /\ IsMachine(g) /\ g.db = m.db /\ g.nodes = n /\ g.mappers = x /\ g.mappings = y
         /\ g.fault = m.fault
<1> DEFINE d == m.db
           n0 == m.nodes
           x0 == m.mappers
           y0 == m.mappings
           f == m.fault
           r == [db |-> d, nodes |-> n0, mappers |-> x0, mappings |-> y0, fault |-> f]
           made == [db |-> d, nodes |-> n, mappers |-> x, mappings |-> y, fault |-> f]
<1>0. m = r
  BY DEF IsMachine
<1> HIDE DEF d, n0, x0, y0, f
<1>1. [r EXCEPT !.nodes = n, !.mappers = x, !.mappings = y]
        = [[[r EXCEPT !.nodes = n] EXCEPT !.mappers = x] EXCEPT !.mappings = y]
  OBVIOUS
<1>2. [r EXCEPT !.nodes = n]
        = [db |-> d, nodes |-> n, mappers |-> x0, mappings |-> y0, fault |-> f]
  OBVIOUS
<1>3. [[db |-> d, nodes |-> n, mappers |-> x0, mappings |-> y0, fault |-> f] EXCEPT !.mappers = x]
        = [db |-> d, nodes |-> n, mappers |-> x, mappings |-> y0, fault |-> f]
  OBVIOUS
<1>4. [[db |-> d, nodes |-> n, mappers |-> x, mappings |-> y0, fault |-> f] EXCEPT !.mappings = y]
        = made
  OBVIOUS
<1> HIDE DEF r
<1>5. [r EXCEPT !.nodes = n, !.mappers = x, !.mappings = y] = made
  BY <1>1, <1>2, <1>3, <1>4
<1> HIDE DEF made
<1>6. g = made
  BY <1>0, <1>5 DEF Remade
<1> QED BY <1>6, MachineIs DEF made, d, f

(* A subtree of the index nodes taken away. *)
LEMMA NodesTaken ==
  ASSUME NEW m, IsSound(m), NEW gone \in SUBSET m.nodes, <<>> \notin gone,
         \A n \in m.nodes \ {<<>>} : Front(n) \in gone => n \in gone,
         NEW x, DOMAIN x = DOMAIN m.mappers \ gone, x \in [DOMAIN x -> Mapper(Place)],
         NEW list \in Seq(StarIndex),
         \A i \in DOMAIN list : list[i].node = "live" => list[i].loc \in DOMAIN m.mappers,
         NEW a, IsSound(a), SameBut(a, m), NEW g,
         g = Remade(a, m.nodes \ gone, x, Dangling(list, gone))
  PROVE  IsSound(g) /\ g.db = m.db
<1> DEFINE left == Dangling(list, gone)
<1>0. left = Dangling(list, gone)
  OBVIOUS
<1>2. g = Remade(a, m.nodes \ gone, x, left)
  OBVIOUS
<1> HIDE DEF left
<1>1. /\ left \in Seq(StarIndex) /\ DOMAIN left = DOMAIN list
      /\ \A i \in DOMAIN left : left[i].node = "live" =>
           list[i].node = "live" /\ left[i].loc = list[i].loc /\ left[i].loc \notin gone
  BY <1>0, MappingsDangle
<1>3. /\ IsMachine(g) /\ g.db = m.db /\ g.nodes = m.nodes \ gone /\ g.mappers = x
      /\ g.mappings = left
  BY <1>2, MachineRemade DEF IsSound, SameBut
<1>4. /\ IsDocument(m.db) /\ m.nodes \subseteq Path /\ <<>> \in m.nodes
      /\ \A n \in m.nodes \ {<<>>} : Front(n) \in m.nodes
      /\ DOMAIN m.mappers \subseteq m.nodes
  BY DEF IsSound, Formed
<1>5. \A n \in (m.nodes \ gone) \ {<<>>} : Front(n) \in m.nodes \ gone
  BY <1>4
<1>6. \A i \in DOMAIN left : left[i].node = "live" => left[i].loc \in DOMAIN x
  BY <1>1
<1>7. DOMAIN x \subseteq m.nodes \ gone
  BY <1>4
<1>8. Formed(g)
  BY <1>1, <1>3, <1>4, <1>5, <1>6, <1>7 DEF Formed
<1> QED BY <1>3, <1>8 DEF IsSound

LEMMA HandledDelete ==
  ASSUME NEW m, IsSound(m), NEW frames, Location(frames) \in Path
  PROVE  IsSound(HandleDelete(m, frames)) /\ HandleDelete(m, frames).db = m.db
<1> DEFINE loc    == Location(frames)
           full   == m.db[Last(frames).obj] # Empty
           region == Region(m, frames)
           used   == {i \in DOMAIN m.mappings :
                        full /\ loc # <<>> /\ Hits(m.mappings[i], region) # {}}
           gone   == {n \in m.nodes : /\ full
                                      /\ IsPrefix(loc, n)
                                      /\ loc = <<>> => n # <<>> /\ n[1] \in KeysOf(m.db, <<>>)}
           early  == {i \in used : \E L \in Hits(m.mappings[i], region), P \in DOMAIN region :
                         /\ IsStrictPrefix(loc, P) /\ IsPrefix(P, m.mappings[i].loc)
                         /\ ~IsPrefix(P, L) /\ ~IsPrefix(L, P)}
           Olds(n) ==
             {Attrs(m.db, region[L]) :
                L \in {L \in DOMAIN region : \/ L # <<>> /\ Front(L) = n
                                            \/ \E i \in used : TellsAt(m.mappings[i], n)
                                                             /\ L \in Hits(m.mappings[i], region)}}
           m1 == PointerFault(m, used)
           a  == IF early # {} THEN Faulted(m1, "undefined") ELSE m1
           x  == [n \in DOMAIN m.mappers \ gone |-> UnregisterAll(m.mappers[n], Olds(n))]
           g  == HandleDelete(m, frames)
<1>1. g = [a EXCEPT
             !.nodes = @ \ gone,
             !.mappers = x,
             !.mappings = [i \in DOMAIN @ |->
                IF @[i].node = "live" /\ @[i].loc \in gone THEN [@[i] EXCEPT !.node = "dangling"]
                ELSE @[i]]]
  BY DEF HandleDelete
<1>2. /\ loc \in Path /\ m.nodes \subseteq Path /\ m.mappings \in Seq(StarIndex)
      /\ \A i \in DOMAIN m.mappings : m.mappings[i].node = "live" => m.mappings[i].loc \in DOMAIN m.mappers
      /\ \A n \in DOMAIN m.mappers : m.mappers[n] \in Mapper(Place)
  BY DEF IsSound, Formed
<1>3. \A n \in gone : IsPrefix(loc, n)
  OBVIOUS
<1>4. gone \in SUBSET m.nodes /\ <<>> \notin gone
  BY <1>2, PrefixEnds
<1>5. ASSUME NEW n \in m.nodes \ {<<>>}, Front(n) \in gone PROVE n \in gone
  <2>1. n \in Path /\ n # <<>> /\ IsPrefix(loc, Front(n)) /\ full
    BY <1>2, <1>5
  <2>2. IsPrefix(loc, n)
    BY <1>2, <2>1, PrefixOfFront
  <2>3. CASE loc # <<>>
    BY <2>1, <2>2, <2>3
  <2>4. CASE loc = <<>>
    <3>1. Front(n) # <<>> /\ Front(n)[1] \in KeysOf(m.db, <<>>)
      BY <1>5, <2>4
    <3>2. /\ Front(n) \in Path /\ Len(n) \in Nat /\ Len(Front(n)) = Len(n) - 1
          /\ \A i \in 1 .. Len(n) - 1 : Front(n)[i] = n[i]
      BY <2>1, FrontPath
    <3>3. Len(Front(n)) # 0 /\ Len(Front(n)) \in Nat
      BY <3>1, <3>2 DEF Path
    <3>4. Front(n)[1] = n[1]
      BY <3>2, <3>3
    <3> QED BY <2>1, <2>2, <3>1, <3>4
  <2> QED BY <2>3, <2>4
<1>6. IsSound(m1) /\ SameBut(m1, m)
  BY PointerFaulted
<1> HIDE DEF used, early, Olds
<1> HIDE DEF m1
<1>7. IsSound(a) /\ SameBut(a, m)
  BY <1>6, FaultedSound DEF IsSound, SameBut
<1>8. DOMAIN x = DOMAIN m.mappers \ gone /\ x \in [DOMAIN x -> Mapper(Place)]
  BY <1>2, UnregisteredMapper
<1> HIDE DEF a, x, gone, g
<1>9. a.nodes = m.nodes /\ a.mappings = m.mappings
  BY <1>7 DEF SameBut
<1>10. g = Remade(a, m.nodes \ gone, x, Dangling(m.mappings, gone))
  BY <1>1, <1>9 DEF Remade, Dangling
<1> DEFINE list == m.mappings
<1>12. \A n \in m.nodes \ {<<>>} : Front(n) \in gone => n \in gone
  BY <1>5
<1>13. /\ list \in Seq(StarIndex) /\ g = Remade(a, m.nodes \ gone, x, Dangling(list, gone))
       /\ \A i \in DOMAIN list : list[i].node = "live" => list[i].loc \in DOMAIN m.mappers
  BY <1>2, <1>10
<1> HIDE DEF list, loc, full, region
<1>14. ASSUME NEW b, IsSound(b), SameBut(b, m)
       PROVE  /\ IsSound(Remade(b, m.nodes \ gone, x, Dangling(list, gone)))
              /\ Remade(b, m.nodes \ gone, x, Dangling(list, gone)).db = m.db
  <2>1. IsSound(Remade(b, m.nodes \ gone, x, Dangling(list, gone)))
    BY <1>4, <1>8, <1>12, <1>13, <1>14, NodesTaken
  <2>2. Remade(b, m.nodes \ gone, x, Dangling(list, gone)).db = m.db
    BY <1>14, MachineRemade DEF IsSound, SameBut
  <2> QED BY <2>1, <2>2
<1>11. IsSound(g) /\ g.db = m.db
  BY <1>7, <1>13, <1>14
<1> QED BY <1>11 DEF g

(* Where the objects from a frame down are. *)
LEMMA RegionPlaces ==
  ASSUME NEW m, IsSound(m), NEW frames, Location(frames) \in Path, Last(frames).obj \in Path,
         Location(frames) # <<>>
  PROVE  \A L \in DOMAIN Region(m, frames) : L \in Place /\ <<Last(L)>> \in Place
<1> DEFINE loc == Location(frames)
           obj == Last(frames).obj
<1>1. DOMAIN Region(m, frames) = {loc \o Below(obj, p) : p \in Under(m.db, obj)}
  BY DEF Region
<1>2. DOMAIN m.db \subseteq Path
  BY DEF IsSound, Formed, IsDocument
<1> HIDE DEF loc, obj
<1>3. loc \in Path /\ obj \in Path /\ loc # <<>>
  BY DEF loc, obj
<1>4. ASSUME NEW p \in Under(m.db, obj)
      PROVE  loc \o Below(obj, p) \in Place
  <2>1. Below(obj, p) \in Path
    BY <1>2, <1>3, BelowPath DEF Under
  <2>2. loc \o Below(obj, p) \in Path /\ IsPrefix(loc, loc \o Below(obj, p))
    BY <1>3, <2>1, JoinedPath
  <2>3. loc \o Below(obj, p) # <<>>
    BY <1>3, <2>2, PrefixEnds
  <2> QED BY <2>2, <2>3 DEF Place
<1>5. \A L \in Place : Last(L) \in Name
  BY FrontPath DEF Place
<1> QED BY <1>1, <1>4, <1>5, OneKeyPlace

WithMappers(m, x) == [m EXCEPT !.mappers = x]

LEMMA MappersRemade ==
  ASSUME NEW m, IsMachine(m), NEW x, NEW g, g = WithMappers(m, x)
  PROVE  /\ IsMachine(g) /\ g.db = m.db /\ g.nodes = m.nodes /\ g.mappers = x
         /\ g.mappings = m.mappings
BY MachineWith DEF WithMappers

LEMMA HandledCreate ==
  ASSUME NEW m, IsSound(m), NEW frames, Location(frames) \in Path, Last(frames).obj \in Path,
         Len(frames) # 1 => Location(frames) # <<>>
  PROVE  IsSound(HandleCreate(m, frames)) /\ HandleCreate(m, frames).db = m.db
<1> DEFINE region == Region(m, frames)
           used   == {i \in DOMAIN m.mappings : Hits(m.mappings[i], region) # {}}
           Regs(n) ==
             {<<Attrs(m.db, region[L]), <<Last(L)>>>> : L \in {L \in DOMAIN region : Front(L) = n}}
             \cup {<<Attrs(m.db, region[L]), L>> :
                     L \in UNION {Hits(m.mappings[i], region) :
                                    i \in {i \in used : TellsAt(m.mappings[i], n)}}}
           m1 == PointerFault(m, used)
           x  == [n \in DOMAIN m1.mappers |-> RegisterAll(m1.mappers[n], Regs(n))]
           g  == HandleCreate(m, frames)
<1>1. g = IF Len(frames) = 1 THEN m
          ELSE IF \E n \in DOMAIN m.mappers : RegisterClash(m.mappers[n], Regs(n))
               THEN Faulted(m1, "throw")
               ELSE [m1 EXCEPT !.mappers = [n \in DOMAIN @ |-> RegisterAll(@[n], Regs(n))]]
  BY DEF HandleCreate
<1>2. CASE Len(frames) = 1
  BY <1>1, <1>2
<1>3. CASE Len(frames) # 1
  <2>1. \A L \in DOMAIN region : L \in Place /\ <<Last(L)>> \in Place
    BY <1>3, RegionPlaces
  <2>2. IsSound(m1) /\ SameBut(m1, m)
    BY PointerFaulted
  <2> HIDE DEF region
  <2>3. \A i : Hits(m.mappings[i], region) \subseteq DOMAIN region
    BY DEF Hits
  <2>4. ASSUME NEW n, NEW r \in Regs(n) PROVE r[2] \in Place
    <3>1. CASE \E L \in DOMAIN region : r = <<Attrs(m.db, region[L]), <<Last(L)>>>>
      BY <2>1, <3>1
    <3>2. CASE \E L \in DOMAIN region : r = <<Attrs(m.db, region[L]), L>>
      <4>1. PICK L \in DOMAIN region : r = <<Attrs(m.db, region[L]), L>>
        BY <3>2
      <4>2. r[2] = L
        BY <4>1
      <4> QED BY <2>1, <4>2
    <3> QED BY <2>3, <2>4, <3>1, <3>2
  <2>5. [m1 EXCEPT !.mappers = [n \in DOMAIN @ |-> RegisterAll(@[n], Regs(n))]]
          = [m1 EXCEPT !.mappers = x]
    OBVIOUS
  <2> HIDE DEF m1
  <2> HIDE DEF Regs
  <2>6. DOMAIN x = DOMAIN m1.mappers /\ x \in [DOMAIN x -> Mapper(Place)]
    BY <2>2, <2>4, RegisteredMapper DEF IsSound, Formed
  <2>7. IsSound(Faulted(m1, "throw")) /\ Faulted(m1, "throw").db = m.db
    BY <2>2, FaultedSound DEF IsSound, SameBut
  <2> DEFINE h == [m1 EXCEPT !.mappers = x]
  <2> HIDE DEF x
  <2>13. h = WithMappers(m1, x) /\ IsMachine(m1)
    BY <2>2 DEF IsSound, WithMappers
  <2>8. /\ IsMachine(h) /\ h.db = m1.db /\ h.nodes = m1.nodes /\ h.mappers = x
        /\ h.mappings = m1.mappings
    <3> HIDE DEF h
    <3> QED BY <2>13, MappersRemade
  <2> HIDE DEF h
  <2>9. Formed(h)
    BY <2>2, <2>6, <2>8 DEF IsSound, Formed
  <2>10. h.db = m.db
    BY <2>2, <2>8 DEF SameBut
  <2> HIDE DEF g
  <2>11. g = Faulted(m1, "throw") \/ g = h
    BY <1>1, <1>3, <2>5 DEF h
  <2>12. IsSound(g) /\ g.db = m.db
    BY <2>7, <2>8, <2>9, <2>10, <2>11 DEF IsSound
  <2> QED BY <2>12 DEF g
<1> QED BY <1>2, <1>3

-----------------------------------------------------------------------------
(* Mappings. *)
LEMMA MappingsKept ==
  ASSUME NEW G, NEW list \in Seq(G), NEW loc
  PROVE  MappingsBut(list, loc) \in Seq(G)
<1> DEFINE Kept(l, i) == IF list[i].loc = loc THEN l ELSE Append(l, list[i])
           IsRun(g, k) == g = [j \in 0 .. k |-> IF j = 0 THEN <<>> ELSE Kept(g[j - 1], j)]
           last == Len(list)
           run == CHOOSE g : IsRun(g, last)
           S == {k \in Nat : \E g : IsRun(g, k)}
           T == {k \in Nat : k <= last => run[k] \in Seq(G)}
<1>1. last \in Nat /\ \A i \in 1 .. last : list[i] \in G
  OBVIOUS
<1>2. MappingsBut(list, loc) = run[last]
  BY DEF MappingsBut, Repeated
<1>3. ASSUME NEW l \in Seq(G), NEW i \in 1 .. last PROVE Kept(l, i) \in Seq(G)
  BY <1>1
<1> HIDE DEF last, Kept
<1>4. last \in S
  <2>1. IsRun([j \in {0} |-> <<>>], 0)
    OBVIOUS
  <2>2. ASSUME NEW k \in Nat, k \in S PROVE k + 1 \in S
    <3>1. PICK g : IsRun(g, k)
      BY <2>2
    <3> DEFINE h == [j \in 0 .. k + 1 |-> IF j <= k THEN g[j] ELSE Kept(g[k], k + 1)]
    <3>2. IsRun(h, k + 1) /\ k + 1 \in Nat
      BY <3>1
    <3> HIDE DEF h
    <3> QED BY <3>2
  <2>3. 0 \in S
    BY <2>1
  <2> HIDE DEF S
  <2> QED BY <1>1, <2>2, <2>3, InductionOn
<1>5. IsRun(run, last)
  BY <1>4
<1> HIDE DEF run, S
<1>6. 0 \in T
  BY <1>1, <1>5
<1>7. ASSUME NEW k \in Nat, k \in T PROVE k + 1 \in T
  <2> SUFFICES ASSUME k + 1 <= last PROVE run[k + 1] \in Seq(G)
    OBVIOUS
  <2>1. run[k] \in Seq(G) /\ run[k + 1] = Kept(run[k], k + 1)
    BY <1>1, <1>5, <1>7
  <2>2. k + 1 \in 1 .. last
    BY <1>1
  <2> QED BY <1>3, <2>1, <2>2
<1> HIDE DEF T
<1>8. last \in T
  BY <1>1, <1>6, <1>7, InductionOn
<1>9. run[last] \in Seq(G)
  BY <1>1, <1>8 DEF T
<1> QED BY <1>2, <1>9

LEMMA MappingDeleted ==
  ASSUME NEW t, IsTraversal(t)
  PROVE  IsSound(DeleteMapping(t).m)
<1> DEFINE loc  == Location(t.frames)
           m    == t.m
           gone == {n \in m.nodes : IsPrefix(loc, n)}
           left == MappingsBut(m.mappings, loc)
           x    == [n \in DOMAIN m.mappers \ gone |-> m.mappers[n]]
           m1   == [m EXCEPT
                      !.nodes = @ \ gone,
                      !.mappers = [n \in DOMAIN @ \ gone |-> @[n]],
                      !.mappings = [i \in DOMAIN left |->
                         IF left[i].node = "live" /\ left[i].loc \in gone
                         THEN [left[i] EXCEPT !.node = "dangling"] ELSE left[i]]]
           G    == {g \in StarIndex : g.node = "live" => g.loc \in DOMAIN m.mappers}
<1>1. DeleteMapping(t).m \in {m, m1, Faulted(m1, "throw")}
      /\ (~IsValid(loc) => DeleteMapping(t).m = m)
  BY DEF DeleteMapping
<1>2. m1 = Remade(m, m.nodes \ gone, x, Dangling(left, gone))
  BY DEF Remade, Dangling
<1>3. IsSound(m) /\ loc \in Path
  BY LocationIs DEF IsTraversal
<1> HIDE DEF m1, m, loc
<1>4. /\ m.nodes \subseteq Path /\ m.mappings \in Seq(StarIndex)
      /\ \A i \in DOMAIN m.mappings : m.mappings[i].node = "live" => m.mappings[i].loc \in DOMAIN m.mappers
      /\ \A n \in DOMAIN m.mappers : m.mappers[n] \in Mapper(Place)
  BY <1>3 DEF IsSound, Formed
<1>5. m.mappings \in Seq(G)
  <2>1. /\ Len(m.mappings) \in Nat /\ DOMAIN m.mappings = 1 .. Len(m.mappings)
        /\ \A i \in DOMAIN m.mappings : m.mappings[i] \in StarIndex
        /\ m.mappings = [i \in 1 .. Len(m.mappings) |-> m.mappings[i]]
    BY <1>4
  <2>2. \A i \in DOMAIN m.mappings : m.mappings[i] \in G
    BY <1>4, <2>1
  <2> QED BY <2>1, <2>2
<1>6. left \in Seq(G)
  BY <1>5, MappingsKept
<1> HIDE DEF left
<1>7. left \in Seq(StarIndex) /\ \A i \in DOMAIN left : left[i].node = "live" => left[i].loc \in DOMAIN m.mappers
  <2>1. /\ Len(left) \in Nat /\ DOMAIN left = 1 .. Len(left) /\ \A i \in DOMAIN left : left[i] \in G
        /\ left = [i \in 1 .. Len(left) |-> left[i]]
    BY <1>6
  <2> QED BY <2>1
<1>8. CASE ~IsValid(loc)
  BY <1>1, <1>3, <1>8 DEF m
<1>9. CASE IsValid(loc)
  <2>1. loc # <<>>
    BY <1>9 DEF IsValid
  <2>2. gone \in SUBSET m.nodes /\ <<>> \notin gone
    BY <1>3, <2>1, PrefixEnds
  <2>3. \A n \in m.nodes \ {<<>>} : Front(n) \in gone => n \in gone
    BY <1>3, <1>4, PrefixOfFront
  <2>4. DOMAIN x = DOMAIN m.mappers \ gone /\ x \in [DOMAIN x -> Mapper(Place)]
    BY <1>4
  <2>5. SameBut(m, m)
    BY DEF SameBut
  <2> HIDE DEF gone, x, G
  <2>6. IsSound(Remade(m, m.nodes \ gone, x, Dangling(left, gone)))
    BY <1>3, <1>7, <2>2, <2>3, <2>4, <2>5, NodesTaken
  <2>7. IsSound(m1)
    BY <1>2, <2>6
  <2>8. IsSound(Faulted(m1, "throw"))
    BY <2>7, FaultedSound DEF IsSound
  <2> QED BY <1>1, <1>3, <2>7, <2>8
<1> QED BY <1>8, <1>9

LEMMA MappingCreated ==
  ASSUME NEW t, IsTraversal(t), NEW pattern \in Place
  PROVE  IsSound(CreateMapping(t, pattern).m)
<1> DEFINE loc == Location(t.frames)
           m   == t.m
           new == [loc |-> loc, pattern |-> pattern, node |-> "live"]
           m1  == [m EXCEPT !.nodes = @ \cup Prefixes(loc), !.mappings = Append(@, new)]
           N   == m.nodes \cup Prefixes(loc)
           y   == Append(m.mappings, new)
           known == \E g \in ToSet(m.mappings) : g.loc = loc /\ g.pattern = pattern
           made == IF loc \in DOMAIN m1.mappers THEN UpdateStarThing(m1, loc, pattern)
                   ELSE SetMapper(m1, loc, EmptyMapper)
           x   == [n \in DOMAIN m.mappers \cup {loc} |-> IF n = loc THEN EmptyMapper ELSE m.mappers[n]]
<1>1. CreateMapping(t, pattern).m = m \/ CreateMapping(t, pattern).m = made
  BY DEF CreateMapping
<1>2. IsSound(m) /\ loc \in Path
  BY LocationIs DEF IsTraversal
<1>3. m1 = Remade(m, N, m.mappers, y)
  <2>1. [m EXCEPT !.nodes = N, !.mappings = y] = Remade(m, N, m.mappers, y)
    <3> HIDE DEF N, y
    <3>1. m = [db |-> m.db, nodes |-> m.nodes, mappers |-> m.mappers, mappings |-> m.mappings,
               fault |-> m.fault]
      BY <1>2 DEF IsSound, IsMachine
    <3> DEFINE mp == m.mappers
    <3> QED BY <3>1 DEF Remade
  <2> QED BY <2>1
<1> HIDE DEF m, m1, loc
<1>4. /\ IsMachine(m1) /\ m1.db = m.db /\ m1.nodes = N /\ m1.mappers = m.mappers /\ m1.mappings = y
  <2> HIDE DEF N, y
  <2>1. IsMachine(m)
    BY <1>2 DEF IsSound
  <2> QED BY <1>3, <2>1, MachineRemade
<1>5. /\ IsDocument(m.db) /\ N \subseteq Path /\ <<>> \in N /\ loc \in N /\ DOMAIN m.mappers \subseteq N
      /\ \A n \in N \ {<<>>} : Front(n) \in N
      /\ m.mappers \in [DOMAIN m.mappers -> Mapper(Place)]
  BY <1>2, PrefixTree DEF IsSound, Formed
<1>6. y \in Seq(StarIndex)
      /\ \A i \in DOMAIN y : y[i].node = "live" => y[i].loc \in DOMAIN m.mappers \cup {loc}
  <2>1. new \in StarIndex
    BY <1>2 DEF StarIndex
  <2>2. /\ m.mappings \in Seq(StarIndex)
        /\ \A i \in DOMAIN m.mappings : m.mappings[i].node = "live" => m.mappings[i].loc \in DOMAIN m.mappers
    BY <1>2 DEF IsSound, Formed
  <2>3. new.loc = loc
    OBVIOUS
  <2> HIDE DEF new
  <2>4. /\ y \in Seq(StarIndex) /\ DOMAIN y = 1 .. Len(m.mappings) + 1
        /\ DOMAIN m.mappings = 1 .. Len(m.mappings) /\ Len(m.mappings) \in Nat
        /\ \A i \in DOMAIN m.mappings : y[i] = m.mappings[i]
        /\ y[Len(m.mappings) + 1] = new
    BY <2>1, <2>2
  <2>5. \A i \in DOMAIN y : i \in DOMAIN m.mappings \/ i = Len(m.mappings) + 1
    BY <2>4
  <2> QED BY <2>2, <2>3, <2>4, <2>5
<1> HIDE DEF N, y
<1>7. CASE loc \in DOMAIN m1.mappers
  <2>1. Formed(m1)
    BY <1>4, <1>5, <1>6, <1>7 DEF Formed
  <2>2. IsSound(UpdateStarThing(m1, loc, pattern))
    BY <1>4, <1>5, <2>1, StarThingUpdated DEF IsSound
  <2> QED BY <1>1, <1>2, <1>7, <2>2
<1>8. CASE loc \notin DOMAIN m1.mappers
  <2> DEFINE h == SetMapper(m1, loc, EmptyMapper)
  <2>1. h = [m1 EXCEPT !.mappers = x]
    BY <1>4 DEF SetMapper
  <2>2. DOMAIN x = DOMAIN m.mappers \cup {loc} /\ x \in [DOMAIN x -> Mapper(Place)]
    BY <1>5, EmptyIsMapper
  <2> HIDE DEF h, x
  <2>3. IsMachine(h) /\ h.db = m.db /\ h.nodes = N /\ h.mappers = x /\ h.mappings = y
    BY <1>4, <2>1, MachineWith
  <2>4. Formed(h)
    BY <1>5, <1>6, <2>2, <2>3 DEF Formed
  <2> QED BY <1>1, <1>2, <1>8, <2>3, <2>4 DEF IsSound, h
<1> QED BY <1>7, <1>8

LEMMA LeastIsIn ==
  ASSUME NEW S, S \subseteq Nat, S # {}
  PROVE  Min(S) \in S
BY LeastNumber DEF Min

(* The place listed through a mapping. *)
LEMMA MappingsIndexed ==
  ASSUME NEW t, IsTraversal(t), IsMapped(t.m, Location(t.frames)), NEW f \in Field
  PROVE  IsSound(MappingIndexed(t, f))
<1> DEFINE loc == Location(t.frames)
           at  == MappingsAt(t.m, loc)
           m   == PointerFault(t.m, at)
           pattern == t.m.mappings[Min(at)].pattern
<1>1. MappingIndexed(t, f) =
        IF m.fault # "none" \/ HasIndex(MapperAt(m, loc), f) THEN m
        ELSE UpdateStarThing(AddIndex(m, loc, f), loc, pattern)
  BY DEF MappingIndexed
<1>2. IsSound(t.m)
  BY DEF IsTraversal
<1>3. IsSound(m) /\ SameBut(m, t.m)
  BY <1>2, PointerFaulted
<1>4. ASSUME m.fault = "none" PROVE loc \in m.nodes /\ pattern \in Place
  <2>1. at # {} /\ at \subseteq DOMAIN t.m.mappings /\ \A i \in at : t.m.mappings[i].loc = loc
    BY DEF IsMapped, MappingsAt
  <2>2. \A i \in DOMAIN t.m.mappings : /\ t.m.mappings[i] \in StarIndex
                                       /\ t.m.mappings[i].node = "live" /\ loc = t.m.mappings[i].loc
                                            => loc \in DOMAIN t.m.mappers
    BY <1>2 DEF IsSound, Formed
  <2>3. \A i \in at : t.m.mappings[i].node = "live"
    BY <1>4, <2>1, <2>2 DEF PointerFault, Faulted, StarIndex
  <2>4. loc \in DOMAIN t.m.mappers
    BY <2>1, <2>2, <2>3
  <2>5. loc \in m.nodes
    BY <1>2, <1>3, <2>4 DEF IsSound, Formed, SameBut
  <2>6. Min(at) \in at
    <3>1. at \subseteq Nat
      BY <1>2, <2>1 DEF IsSound, Formed
    <3> HIDE DEF at
    <3> QED BY <2>1, <3>1, LeastIsIn
  <2>7. pattern \in Place
    BY <2>1, <2>2, <2>6 DEF StarIndex
  <2> QED BY <2>5, <2>7
<1> HIDE DEF m, loc, pattern
<1>5. m.fault = "none" => IsSound(UpdateStarThing(AddIndex(m, loc, f), loc, pattern))
  BY <1>3, <1>4, IndexAddedAt, StarThingUpdated
<1> QED BY <1>1, <1>3, <1>5

-----------------------------------------------------------------------------
(* The commands on a machine. *)

(* What a traversal gives the handlers. *)
LEMMA TraversalFrames ==
  ASSUME NEW t, IsTraversal(t)
  PROVE  /\ IsSound(t.m) /\ IsDocument(t.m.db) /\ DOMAIN t.m.db \subseteq Path
         /\ Location(t.frames) \in Path
         /\ Len(t.frames) # 1 => Location(t.frames) # <<>>
         /\ Last(t.frames).obj \in DOMAIN t.m.db \cup {NoObj} /\ Last(t.frames).key \in Name
         /\ Last(t.frames).obj # NoObj => Last(t.frames).obj \in Path
<1>1. /\ IsSound(t.m) /\ IsDocument(t.m.db) /\ DOMAIN t.m.db \subseteq Path
      /\ t.frames \in Seq(FrameOf(t.m.db)) /\ t.frames # <<>>
  BY DEF IsTraversal, IsSound, Formed, IsDocument
<1>2. /\ Location(t.frames) \in Path /\ Len(t.frames) \in Nat \ {0}
      /\ Len(Location(t.frames)) = Len(t.frames) - 1
      /\ Last(t.frames).key \in Name /\ Last(t.frames).obj \in DOMAIN t.m.db \cup {NoObj}
  BY <1>1, LocationIs
<1>3. Len(t.frames) # 1 => Location(t.frames) # <<>>
  <2> SUFFICES ASSUME Location(t.frames) = <<>> PROVE Len(t.frames) = 1
    OBVIOUS
  <2>1. Len(Location(t.frames)) = 0
    OBVIOUS
  <2> QED BY <1>2, <2>1
<1> QED BY <1>1, <1>2, <1>3

LEMMA AssignedSound ==
  ASSUME NEW t, IsTraversal(t), Last(t.frames).obj # NoObj, NEW value, IsDocument(value)
  PROVE  IsSound(Assigned(t, value))
<1> DEFINE p == Last(t.frames).obj
           freed == /\ Len(t.frames) > 1 /\ HasNode(t.m, t.frames)
                    /\ t.m.db[p] # Empty /\ DOMAIN value # {<<>>}
           m0 == HandleDelete(t.m, t.frames)
           d  == Graft(t.m.db, p, value)
           m1 == [m0 EXCEPT !.db = d]
           m2 == IF freed THEN Faulted(m1, "undefined") ELSE m1
<1>1. /\ IsSound(t.m) /\ IsDocument(t.m.db) /\ p \in DOMAIN t.m.db /\ p \in Path
      /\ Location(t.frames) \in Path
      /\ Len(t.frames) # 1 => Location(t.frames) # <<>>
  BY TraversalFrames
<1>2. IsSound(m0) /\ m0.db = t.m.db
  BY <1>1, HandledDelete
<1>3. Assigned(t, value) = HandleCreate(m2, t.frames)
  BY <1>2 DEF Assigned
<1>4. IsDocument(d)
  BY <1>1, TakesAt, GraftDocument
<1> HIDE DEF m0, d, p, freed
<1>5. IsSound(m1)
  BY <1>2, <1>4, WithDocument
<1> HIDE DEF m1
<1>6. IsSound(m2)
  BY <1>5, FaultedSound DEF IsSound
<1> HIDE DEF m2
<1>7. IsSound(HandleCreate(m2, t.frames))
  BY <1>1, <1>6, HandledCreate DEF p
<1> QED BY <1>3, <1>7

LEMMA SetSound ==
  ASSUME NEW t, IsTraversal(t), NEW value, IsDocument(value)
  PROVE  IsSound(SetResult(t, value).m)
<1>1. SetResult(t, value).m = t.m
      \/ (Last(t.frames).obj # NoObj /\ SetResult(t, value).m = Assigned(t, value))
  BY DEF SetResult, Refused, Done, Invalid
<1> QED BY <1>1, AssignedSound, TraversalFrames

(* A frame of its own below other frames. *)
Framed(frames, key, obj) == Append(frames, [key |-> key, obj |-> obj])

LEMMA FramesBelow ==
  ASSUME NEW d, NEW frames \in Seq(FrameOf(d)), NEW key \in Name, NEW obj, NEW g,
         g = Framed(frames, key, obj), frames # <<>>
  PROVE  /\ Location(g) \in Path /\ Location(g) # <<>> /\ Last(g).obj = obj
<1> DEFINE frame == [key |-> key, obj |-> obj]
           n == Len(frames)
<1>1. n \in Nat \ {0} /\ \A i \in 1 .. n : frames[i] \in FrameOf(d)
  OBVIOUS
<1>2. frame.key = key /\ frame.obj = obj
  OBVIOUS
<1> HIDE DEF frame
<1>3. Len(g) = n + 1 /\ g[n + 1] = frame /\ \A i \in 1 .. n : g[i] = frames[i]
  BY DEF frame, Framed
<1> HIDE DEF n
<1>4. \A i \in 1 .. n : g[i + 1].key \in Name
  <2> TAKE i \in 1 .. n
  <2>1. CASE i = n
    BY <1>2, <1>3, <2>1
  <2>2. CASE i # n
    <3>1. i + 1 \in 1 .. n
      BY <1>1, <2>2
    <3> QED BY <1>1, <1>3, <3>1 DEF FrameOf
  <2> QED BY <2>1, <2>2
<1>5. Location(g) = [i \in 1 .. n |-> g[i + 1].key]
  BY <1>1, <1>3 DEF Location
<1>6. Location(g) \in Seq(Name) /\ Len(Location(g)) = n
  BY <1>1, <1>3, <1>4 DEF Location
<1>7. Location(g) # <<>>
  BY <1>1, <1>6
<1>8. Last(g) = frame
  BY <1>1, <1>3 DEF Last
<1> QED BY <1>2, <1>6, <1>7, <1>8 DEF Path

LEMMA DeclareSound ==
  ASSUME NEW t, IsTraversal(t), NEW kind
  PROVE  IsSound(DeclareResult(t, kind).m)
<1> DEFINE p  == Last(t.frames).obj
           m1 == IF t.m.db[p] # Empty THEN HandleDelete(t.m, t.frames) ELSE t.m
           d  == Graft(t.m.db, p, Leaf(kind))
           m2 == [m1 EXCEPT !.db = d]
<1>1. /\ IsSound(t.m) /\ IsDocument(t.m.db) /\ p \in DOMAIN t.m.db \cup {NoObj} /\ (p # NoObj => p \in Path)
      /\ Location(t.frames) \in Path
      /\ Len(t.frames) # 1 => Location(t.frames) # <<>>
  BY TraversalFrames
<1>2. IsSound(m1) /\ m1.db = t.m.db
  BY <1>1, HandledDelete
<1>3. DeclareResult(t, kind).m = t.m \/ (p # NoObj /\ DeclareResult(t, kind).m = HandleCreate(m2, t.frames))
  BY <1>2 DEF DeclareResult, Refused, Done, Invalid
<1>4. ASSUME p # NoObj PROVE IsSound(HandleCreate(m2, t.frames))
  <2>1. IsDocument(Leaf(kind))
    BY LeafDocument
  <2>2. IsDocument(d)
    BY <1>1, <1>4, <2>1, TakesAt, GraftDocument
  <2> HIDE DEF m1, d
  <2>3. IsSound(m2)
    BY <1>2, <2>2, WithDocument
  <2> HIDE DEF m2
  <2> QED BY <1>1, <1>4, <2>3, HandledCreate
<1> QED BY <1>1, <1>3, <1>4

-----------------------------------------------------------------------------
(* LPUT appends under a name when no list becomes longer than MaxList.     *)
LEMMA LputNamed ==
  ASSUME NEW d, IsDocument(d), NEW p \in DOMAIN d, d[p] = List, NEW value, IsDocument(value),
         NEW key, key = ToString(SizeOf(d, p)), Bounded(Graft(d, Append(p, key), value))
  PROVE  key \in Name
<1> DEFINE c == Append(p, key)
           e == Graft(d, c, value)
           A == Name \cup {key}
<1>1. p \in Path /\ DOMAIN d \subseteq Path /\ SizeOf(d, p) \in Nat
      /\ IsFiniteSet(DOMAIN d) /\ IsFiniteSet(DOMAIN value) /\ DOMAIN value \subseteq Path
  BY KeysFinite DEF IsDocument
<1> SUFFICES ASSUME key \notin Name PROVE FALSE
  OBVIOUS
<1>2. /\ p \in Seq(A) /\ c \in Seq(A) /\ Len(c) = Len(p) + 1 /\ Len(p) \in Nat
      /\ c[Len(p) + 1] = key
  BY <1>1 DEF Path
<1> HIDE DEF c
<1>3. ASSUME NEW q \in Path, Len(q) <= Len(p) + 1 PROVE ~IsPrefix(c, q)
  <2> SUFFICES ASSUME IsPrefix(c, q) PROVE FALSE
    OBVIOUS
  <2> DEFINE n == Len(p) + 1
  <2>1. n \in Nat /\ n >= 1 /\ Len(q) \in Nat /\ q \in Seq(A) /\ Len(c) = n /\ c[n] = key
    BY <1>2 DEF Path
  <2>2. Len(q) = n
    BY <1>3, <2>1 DEF IsPrefix
  <2>3. SubSeq(c, 1, n) = SubSeq(q, 1, n)
    BY <2>1 DEF IsPrefix
  <2> HIDE DEF n
  <2>4. SubSeq(c, 1, n)[n] = c[n] /\ SubSeq(q, 1, n)[n] = q[n]
    BY <1>2, <2>1, <2>2
  <2>5. q[n] \in Name
    BY <2>1, <2>2 DEF Path
  <2> QED BY <2>1, <2>3, <2>4, <2>5
<1>4. ASSUME NEW q \in DOMAIN d, Len(q) <= Len(p) + 1 PROVE q \in DOMAIN e
  BY <1>1, <1>3, <1>4 DEF Graft, Under
<1>5. p \in DOMAIN e /\ e[p] = List
  <2>1. p \in DOMAIN e
    BY <1>2, <1>4
  <2>2. ASSUME NEW r \in DOMAIN value PROVE p # c \o r
    <3>1. r \in Seq(A) /\ Len(r) \in Nat
      BY <1>1 DEF Path
    <3>2. Len(c \o r) = Len(p) + 1 + Len(r)
      BY <1>2, <3>1
    <3>3. Len(c \o r) # Len(p)
      BY <1>2, <3>1, <3>2
    <3> QED BY <3>3
  <2> QED BY <2>1, <2>2 DEF Graft
<1>6. KeysOf(d, p) \subseteq KeysOf(e, p)
  <2> SUFFICES ASSUME NEW k \in KeysOf(d, p) PROVE k \in KeysOf(e, p)
    OBVIOUS
  <2>1. k \in Name /\ Append(p, k) \in DOMAIN d
    BY <1>1, KeysFinite
  <2>2. /\ Append(p, k) \in Path /\ Len(Append(p, k)) = Len(p) + 1
        /\ Last(Append(p, k)) = k /\ IsPrefix(p, Append(p, k))
    BY <1>1, <2>1, AppendedPath
  <2>3. Append(p, k) \in DOMAIN e
    <3> DEFINE q == Append(p, k)
    <3>1. q \in DOMAIN d /\ Len(q) = Len(p) + 1
      BY <2>1, <2>2
    <3> HIDE DEF q, e
    <3>2. Len(q) <= Len(p) + 1
      BY <1>2, <3>1
    <3>3. q \in DOMAIN e
      BY <1>4, <3>1, <3>2
    <3> QED BY <3>3 DEF q
  <2> QED BY <2>2, <2>3 DEF KeysOf, Under
<1>7. IsFiniteSet(DOMAIN e)
  BY <1>1, GraftFinite
<1>8. SizeOf(e, p) <= MaxList
  BY <1>5 DEF Bounded, c
<1> HIDE DEF e
<1>9. IsFiniteSet(KeysOf(e, p))
  BY <1>7, KeysImageFinite
<1>10. SizeOf(d, p) <= SizeOf(e, p) /\ SizeOf(e, p) \in Nat
  BY <1>6, <1>9, FS_Subset, FS_CardinalityType DEF SizeOf
<1>11. SizeOf(d, p) \in 0 .. MaxList
  <2> DEFINE a == SizeOf(d, p)
             b == SizeOf(e, p)
  <2>1. a \in Nat /\ b \in Nat /\ a <= b /\ b <= MaxList /\ MaxList \in Nat
    BY <1>1, <1>8, <1>10, NameAssumption
  <2> HIDE DEF a, b
  <2>2. a \in 0 .. MaxList
    BY <2>1
  <2> QED BY <2>2 DEF a
<1> QED BY <1>11, NameAssumption

LEMMA CreateKeepsDocument ==
  ASSUME NEW m, IsMachine(m), NEW frames
  PROVE  HandleCreate(m, frames).db = m.db
<1> DEFINE region == Region(m, frames)
           used   == {i \in DOMAIN m.mappings : Hits(m.mappings[i], region) # {}}
           m1 == PointerFault(m, used)
           g  == HandleCreate(m, frames)
<1>1. IsMachine(m1) /\ m1.db = m.db
  BY FaultedSound DEF PointerFault
<1>2. IsMachine(Faulted(m1, "throw")) /\ Faulted(m1, "throw").db = m1.db
  <2> HIDE DEF m1
  <2> QED BY <1>1, FaultedSound
<1>3. PICK y : g = m \/ g = Faulted(m1, "throw") \/ g = [m1 EXCEPT !.mappers = y]
  BY DEF HandleCreate
<1>4. ASSUME g = [m1 EXCEPT !.mappers = y] PROVE g.db = m1.db
  <2> HIDE DEF m1, g
  <2> QED BY <1>1, <1>4, MachineWith
<1>5. g.db = m.db
  <2> HIDE DEF m1, g
  <2> QED BY <1>1, <1>2, <1>3, <1>4
<1> QED BY <1>5 DEF g

LEMMA LputSound ==
  ASSUME NEW t, IsTraversal(t), NEW value, IsDocument(value), Bounded(LputResult(t, value).m.db)
  PROVE  IsSound(LputResult(t, value).m)
<1> DEFINE p   == Last(t.frames).obj
           d   == IF t.m.db[p] = Empty THEN Graft(t.m.db, p, Leaf(List)) ELSE t.m.db
           key == ToString(SizeOf(d, p))
           c   == Append(p, key)
           e   == Graft(d, c, value)
           m1  == [t.m EXCEPT !.db = e]
           frames == Append(t.frames, [key |-> key, obj |-> c])
           res == LputResult(t, value)
<1>1. /\ IsSound(t.m) /\ IsDocument(t.m.db) /\ p \in DOMAIN t.m.db \cup {NoObj} /\ (p # NoObj => p \in Path)
      /\ t.frames \in Seq(FrameOf(t.m.db)) /\ t.frames # <<>>
  BY TraversalFrames DEF IsTraversal
<1>2. res.m = t.m \/ (p # NoObj /\ d[p] = List /\ res.m = HandleCreate(m1, frames))
  BY DEF LputResult, Refused, Done, Invalid
<1> SUFFICES ASSUME p # NoObj, d[p] = List, res.m = HandleCreate(m1, frames) PROVE IsSound(res.m)
  BY <1>1, <1>2
<1> HIDE DEF res
<1>3. IsDocument(d) /\ p \in DOMAIN d
  <2>1. CASE t.m.db[p] = Empty
    <3>1. ~Indexable(t.m.db, p)
      BY <2>1 DEF Indexable, Empty, Dict, List
    <3> QED BY <1>1, <2>1, <3>1, DictMade
  <2>2. CASE t.m.db[p] # Empty
    BY <1>1, <2>2
  <2> QED BY <2>1, <2>2
<1> HIDE DEF d
<1>4. ASSUME key \in Name PROVE IsSound(m1) /\ m1.db = e /\ c \in Path
  <2>1. p \in Path /\ c \in Path /\ Front(c) = p /\ Last(c) = key
    BY <1>3, <1>4, AppendedPath DEF IsDocument
  <2>2. Takes(d, c)
    BY <1>3, <2>1 DEF Takes, Indexable
  <2> HIDE DEF c, key
  <2>3. IsDocument(e)
    BY <1>3, <2>1, <2>2, GraftDocument
  <2> HIDE DEF e
  <2> QED BY <1>1, <2>1, <2>3, WithDocument
<1>5. m1.db = e
  BY <1>1, MachineWith DEF IsSound
<1>6. HandleCreate(m1, frames).db = m1.db
  <2> HIDE DEF frames
  <2>1. IsMachine(m1)
    BY <1>1, MachineWith DEF IsSound
  <2> HIDE DEF m1
  <2> QED BY <2>1, CreateKeepsDocument
<1>7. key \in Name
  <2>1. Bounded(e)
    BY <1>5, <1>6 DEF res
  <2> HIDE DEF e, key
  <2> QED BY <1>3, <2>1, LputNamed DEF e, c, key
<1>8. IsSound(m1) /\ c \in Path
  BY <1>4, <1>7
<1>9. Location(frames) \in Path /\ Location(frames) # <<>> /\ Last(frames).obj = c
  <2>1. frames = Append(t.frames, [key |-> key, obj |-> c])
    OBVIOUS
  <2> HIDE DEF c, key, frames
  <2> DEFINE top == t.frames
             dd == t.m.db
  <2>2. top \in Seq(FrameOf(dd)) /\ top # <<>> /\ frames = Framed(top, key, c)
    BY <1>1, <2>1 DEF Framed
  <2> HIDE DEF top, dd
  <2> QED BY <1>7, <2>2, FramesBelow
<1> HIDE DEF m1, frames, c
<1> QED BY <1>8, <1>9, HandledCreate

-----------------------------------------------------------------------------
(* Deleting. *)

(* The frames of the elements of a list, from the i-th on, and the steps   *)
(* that take them out of the indices and enter them again.                 *)
ElementFrames(top, parent, i, x) ==
  Framed(top, ToString(i + x - 1), Append(parent, ToString(i + x - 1)))

AllDeleted(m, top, parent, i, k) ==
  Repeated(LAMBDA a, x : HandleDelete(a, ElementFrames(top, parent, i, x)), m, k)

AllCreated(m, top, parent, i, k) ==
  Repeated(LAMBDA a, x : HandleCreate(a, ElementFrames(top, parent, i, x)), m, k)

LEMMA ElementsDeleted ==
  ASSUME NEW m, IsSound(m), NEW top, NEW parent, NEW i, NEW last \in Nat,
         \A x \in 1 .. last : Location(ElementFrames(top, parent, i, x)) \in Path
  PROVE  /\ IsSound(AllDeleted(m, top, parent, i, last))
         /\ AllDeleted(m, top, parent, i, last).db = m.db
<1> DEFINE Next1(a, x) == HandleDelete(a, ElementFrames(top, parent, i, x))
           IsRun(g, k) == g = [j \in 0 .. k |-> IF j = 0 THEN m ELSE Next1(g[j - 1], j)]
           run == CHOOSE g : IsRun(g, last)
           S == {k \in Nat : \E g : IsRun(g, k)}
           Holds(a) == IsSound(a) /\ a.db = m.db
           T == {k \in Nat : k <= last => Holds(run[k])}
<1>1. AllDeleted(m, top, parent, i, last) = run[last]
  BY DEF AllDeleted, Repeated
<1>2. ASSUME NEW a, Holds(a), NEW x \in 1 .. last PROVE Holds(Next1(a, x))
  BY <1>2, HandledDelete
<1> HIDE DEF Next1
<1>3. last \in S
  <2>1. IsRun([j \in {0} |-> m], 0)
    OBVIOUS
  <2>2. ASSUME NEW k \in Nat, k \in S PROVE k + 1 \in S
    <3>1. PICK g : IsRun(g, k)
      BY <2>2
    <3> DEFINE h == [j \in 0 .. k + 1 |-> IF j <= k THEN g[j] ELSE Next1(g[k], k + 1)]
    <3>2. IsRun(h, k + 1) /\ k + 1 \in Nat
      BY <3>1
    <3> HIDE DEF h
    <3> QED BY <3>2
  <2>3. 0 \in S
    BY <2>1
  <2> HIDE DEF S
  <2> QED BY <2>2, <2>3, InductionOn
<1>4. IsRun(run, last)
  BY <1>3
<1> HIDE DEF run, S, Holds
<1>5. 0 \in T
  BY <1>4 DEF Holds
<1>6. ASSUME NEW k \in Nat, k \in T PROVE k + 1 \in T
  <2> SUFFICES ASSUME k + 1 <= last PROVE Holds(run[k + 1])
    OBVIOUS
  <2>1. Holds(run[k]) /\ run[k + 1] = Next1(run[k], k + 1)
    BY <1>4, <1>6
  <2> QED BY <1>2, <2>1
<1> HIDE DEF T
<1>7. last \in T
  BY <1>5, <1>6, InductionOn
<1>8. Holds(run[last])
  BY <1>7 DEF T
<1> QED BY <1>1, <1>8 DEF Holds

LEMMA ElementsCreated ==
  ASSUME NEW m, IsSound(m), NEW top, NEW parent, NEW i, NEW last \in Nat,
         \A x \in 1 .. last : /\ Location(ElementFrames(top, parent, i, x)) \in Place
                              /\ Last(ElementFrames(top, parent, i, x)).obj \in Path
  PROVE  IsSound(AllCreated(m, top, parent, i, last))
<1> DEFINE Next1(a, x) == HandleCreate(a, ElementFrames(top, parent, i, x))
           IsRun(g, k) == g = [j \in 0 .. k |-> IF j = 0 THEN m ELSE Next1(g[j - 1], j)]
           run == CHOOSE g : IsRun(g, last)
           S == {k \in Nat : \E g : IsRun(g, k)}
           T == {k \in Nat : k <= last => IsSound(run[k])}
<1>1. AllCreated(m, top, parent, i, last) = run[last]
  BY DEF AllCreated, Repeated
<1>2. ASSUME NEW a, IsSound(a), NEW x \in 1 .. last PROVE IsSound(Next1(a, x))
  BY <1>2, HandledCreate DEF Place
<1> HIDE DEF Next1
<1>3. last \in S
  <2>1. IsRun([j \in {0} |-> m], 0)
    OBVIOUS
  <2>2. ASSUME NEW k \in Nat, k \in S PROVE k + 1 \in S
    <3>1. PICK g : IsRun(g, k)
      BY <2>2
    <3> DEFINE h == [j \in 0 .. k + 1 |-> IF j <= k THEN g[j] ELSE Next1(g[k], k + 1)]
    <3>2. IsRun(h, k + 1) /\ k + 1 \in Nat
      BY <3>1
    <3> HIDE DEF h
    <3> QED BY <3>2
  <2>3. 0 \in S
    BY <2>1
  <2> HIDE DEF S
  <2> QED BY <2>2, <2>3, InductionOn
<1>4. IsRun(run, last)
  BY <1>3
<1> HIDE DEF run, S
<1>5. 0 \in T
  BY <1>4
<1>6. ASSUME NEW k \in Nat, k \in T PROVE k + 1 \in T
  <2> SUFFICES ASSUME k + 1 <= last PROVE IsSound(run[k + 1])
    OBVIOUS
  <2>1. IsSound(run[k]) /\ run[k + 1] = Next1(run[k], k + 1)
    BY <1>4, <1>6
  <2> QED BY <1>2, <2>1
<1> HIDE DEF T
<1>7. last \in T
  BY <1>5, <1>6, InductionOn
<1> QED BY <1>1, <1>7 DEF T

(* The frames above the last. *)
LEMMA FramesAbove ==
  ASSUME NEW t, IsTraversal(t), Len(t.frames) # 1
  PROVE  /\ Front(t.frames) \in Seq(FrameOf(t.m.db)) /\ Front(t.frames) # <<>>
         /\ t.frames[Len(t.frames) - 1].obj \in DOMAIN t.m.db \cup {NoObj}
<1> DEFINE n  == Len(t.frames)
           dd == t.m.db
           fs == t.frames
<1>1. fs \in Seq(FrameOf(dd)) /\ fs # <<>> /\ n = Len(fs) /\ n # 1
  BY DEF IsTraversal
<1> HIDE DEF dd, fs, n
<1>2. n \in Nat /\ n > 1 /\ \A j \in 1 .. n : fs[j] \in FrameOf(dd)
  BY <1>1
<1>3. Front(fs) = [j \in 1 .. n - 1 |-> fs[j]]
  BY <1>1, <1>2 DEF Front
<1>4. Front(fs) \in Seq(FrameOf(dd)) /\ Len(Front(fs)) = n - 1
  BY <1>2, <1>3
<1>5. Front(fs) # <<>>
  BY <1>2, <1>4
<1>6. fs[n - 1] \in FrameOf(dd)
  BY <1>2
<1>7. fs[n - 1].obj \in DOMAIN dd \cup {NoObj}
  BY <1>6 DEF FrameOf
<1> QED BY <1>4, <1>5, <1>7 DEF fs, n, dd

LEMMA ElementDeleted ==
  ASSUME NEW t, IsTraversal(t), Len(t.frames) # 1,
         NEW parent \in DOMAIN t.m.db, t.m.db[parent] = List, NEW key
  PROVE  IsSound(DeleteElement(t, parent, key).m)
<1> DEFINE n == SizeOf(t.m.db, parent)
           Frames(j) == Append(Front(t.frames),
                               [key |-> ToString(j), obj |-> Append(parent, ToString(j))])
           i == CHOOSE i \in StoiPositions(n, key) : TRUE
           top == Front(t.frames)
           m1 == AllDeleted(t.m, top, parent, i, n - i)
           e  == EraseElement(m1.db, parent, i)
           m2 == [m1 EXCEPT !.db = e]
           m3 == AllCreated(m2, top, parent, i, n - 1 - i)
<1>1. /\ IsSound(t.m) /\ IsDocument(t.m.db) /\ DOMAIN t.m.db \subseteq Path
      /\ top \in Seq(FrameOf(t.m.db)) /\ top # <<>> /\ parent \in Path
  BY TraversalFrames, FramesAbove
<1>2. Repeated(LAMBDA a, x : HandleDelete(a, Frames(i + x - 1)), t.m, n - i) = m1
  BY DEF AllDeleted, ElementFrames, Framed
<1>3. Repeated(LAMBDA a, x : HandleCreate(a, Frames(i + x - 1)), m2, n - 1 - i) = m3
  BY DEF AllCreated, ElementFrames, Framed
<1>4. \/ DeleteElement(t, parent, key).m = Faulted(t.m, "throw")
      \/ DeleteElement(t, parent, key).m = t.m
      \/ StoiPositions(n, key) # {} /\ DeleteElement(t, parent, key).m = m3
  BY <1>2, <1>3 DEF DeleteElement, Refused, Done
<1>5. IsSound(Faulted(t.m, "throw"))
  BY <1>1, FaultedSound DEF IsSound
<1>6. ASSUME StoiPositions(n, key) # {} PROVE IsSound(m3)
  <2>1. n \in Nat /\ \A j \in 0 .. n - 1 : ToString(j) \in Name
    BY <1>1, KeysFinite DEF Numerals
  <2>2. i \in 0 .. n - 1
    BY <1>6 DEF StoiPositions
  <2> HIDE DEF n, i, m3
  <2>3. ASSUME NEW x \in 1 .. n - i
        PROVE  /\ Location(ElementFrames(top, parent, i, x)) \in Place
               /\ Last(ElementFrames(top, parent, i, x)).obj \in Path
    <3> DEFINE k == ToString(i + x - 1)
               p == Append(parent, k)
               g == ElementFrames(top, parent, i, x)
               dd == t.m.db
    <3>1. i + x - 1 \in 0 .. n - 1
      BY <2>1, <2>2
    <3>2. k \in Name /\ p \in Path /\ g = Framed(top, k, p) /\ top \in Seq(FrameOf(dd))
      BY <1>1, <2>1, <3>1, AppendedPath DEF ElementFrames
    <3> HIDE DEF k, p, g, top, dd
    <3>3. Location(g) \in Path /\ Location(g) # <<>> /\ Last(g).obj = p
      BY <1>1, <3>2, FramesBelow
    <3>4. Location(g) \in Place /\ Last(g).obj \in Path
      BY <3>2, <3>3 DEF Place
    <3> QED BY <3>4 DEF g
  <2> HIDE DEF top
  <2>4. IsSound(m1) /\ m1.db = t.m.db
    <3>1. n - i \in Nat
      BY <2>1, <2>2
    <3>2. \A x \in 1 .. n - i : Location(ElementFrames(top, parent, i, x)) \in Path
      BY <2>3 DEF Place
    <3> QED BY <1>1, <3>1, <3>2, ElementsDeleted
  <2> HIDE DEF m1
  <2>5. IsDocument(e)
    BY <1>1, <2>2, <2>4, ErasedDocument DEF n
  <2> HIDE DEF e
  <2>6. IsSound(m2)
    BY <2>4, <2>5, WithDocument
  <2> HIDE DEF m2
  <2>7. n - 1 - i \in Nat /\ \A x \in 1 .. n - 1 - i : x \in 1 .. n - i
    BY <2>1, <2>2
  <2> QED BY <2>3, <2>6, <2>7, ElementsCreated DEF m3
<1> QED BY <1>1, <1>4, <1>5, <1>6

LEMMA DelSound ==
  ASSUME NEW t, IsTraversal(t)
  PROVE  IsSound(DelResult(t).m)
<1> DEFINE parent == t.frames[Len(t.frames) - 1].obj
           key    == Last(t.frames).key
           m0 == HandleDelete(t.m, t.frames)
           d  == Cut(m0.db, Append(parent, key))
           m1 == [m0 EXCEPT !.db = Leaf(Dict)]
           m2 == [m0 EXCEPT !.db = d]
<1>1. /\ IsSound(t.m) /\ IsDocument(t.m.db) /\ DOMAIN t.m.db \subseteq Path
      /\ Location(t.frames) \in Path
  BY TraversalFrames
<1>2. IsSound(m0) /\ m0.db = t.m.db
  BY <1>1, HandledDelete
<1>3. \/ DelResult(t).m = t.m
      \/ DelResult(t).m = Faulted(t.m, "throw")
      \/ DelResult(t).m = m1
      \/ /\ Len(t.frames) # 1 /\ parent # NoObj /\ t.m.db[parent] = List
         /\ DelResult(t).m = DeleteElement(t, parent, key).m
      \/ /\ Len(t.frames) # 1 /\ parent # NoObj /\ t.m.db[parent] # List
         /\ key \in KeysOf(t.m.db, parent) /\ DelResult(t).m = m2
  BY DEF DelResult, Refused, Done, Invalid
<1>4. IsSound(Faulted(t.m, "throw"))
  BY <1>1, FaultedSound DEF IsSound
<1>5. IsSound(m1)
  <2> HIDE DEF m0
  <2> QED BY <1>2, LeafDocument, WithDocument
<1>6. ASSUME Len(t.frames) # 1, parent # NoObj PROVE parent \in DOMAIN t.m.db
  BY <1>6, FramesAbove
<1>7. ASSUME parent \in DOMAIN t.m.db, t.m.db[parent] # List, key \in KeysOf(t.m.db, parent)
      PROVE  IsSound(m2)
  <2> DEFINE c == Append(parent, key)
  <2>1. key \in Name /\ c \in DOMAIN t.m.db /\ parent \in Path
    BY <1>1, <1>7, KeysFinite
  <2>2. Front(c) = parent /\ Len(c) = Len(parent) + 1 /\ c \in Path
    BY <2>1, AppendedPath
  <2> HIDE DEF parent, c
  <2>3. c # <<>>
    BY <2>1, <2>2, LongerPath
  <2>4. IsDocument(d)
    BY <1>1, <1>2, <1>7, <2>1, <2>2, <2>3, CutDocument DEF c
  <2> HIDE DEF m0, d
  <2> QED BY <1>2, <2>4, WithDocument
<1> HIDE DEF m1, m2, parent, key
<1> QED BY <1>1, <1>3, <1>4, <1>5, <1>6, <1>7, ElementDeleted

-----------------------------------------------------------------------------
(* The database's steps. *)

(* What Formed says of the four parts of a state. *)
LEMMA FormedParts ==
  ASSUME NEW m, NEW g, SameBut(g, m)
  PROVE  Formed(g) <=> Formed(m)
BY DEF SameBut, Formed

LEMMA NowSound ==
  ASSUME WellFormed
  PROVE  IsSound(Now)
BY DEF WellFormed, IsSound, IsMachine, Now, Machine

LEMMA NowFormed ==
  ASSUME NEW m, IsSound(m), db' = m.db, nodes' = m.nodes, mappers' = m.mappers, mappings' = m.mappings
  PROVE  Formed(Now)'
BY DEF IsSound, Formed, Now, Machine

LEMMA Unmoved ==
  ASSUME WellFormed, UNCHANGED <<memory, disk>>, status' \in {"up", "killed", "failed"}
  PROVE  WellFormed'
BY DEF WellFormed, memory, Now, Machine

LEMMA Became ==
  ASSUME WellFormed, NEW m, NEW replies, Become(m, replies), db' = m.db => IsSound(m)
  PROVE  WellFormed'
<1>1. CASE End("failed")
  BY <1>1, Unmoved DEF End
<1>2. CASE /\ db' = m.db /\ nodes' = m.nodes /\ mappers' = m.mappers /\ mappings' = m.mappings
           /\ UNCHANGED <<status, disk>>
  <2>1. Formed(Now)'
    BY <1>2, NowFormed
  <2> QED BY <1>2, <2>1 DEF WellFormed
<1> QED BY <1>1, <1>2 DEF Become

LEMMA CommitKeeps ==
  ASSUME WellFormed, NEW res, Commit(res), db' = res.m.db => IsSound(res.m)
  PROVE  WellFormed'
BY Became DEF Commit

LEMMA ListSound ==
  ASSUME NEW t, IsTraversal(t), IsMapped(t.m, Location(t.frames)), NEW f \in Field, NEW found
  PROVE  IsSound(MappingList(MappingIndexed(t, f), found).m)
<1> DEFINE m == MappingIndexed(t, f)
<1>1. IsSound(m)
  BY MappingsIndexed
<1> HIDE DEF m
<1>2. IsSound(Faulted(m, "throw"))
  BY <1>1, FaultedSound DEF IsSound
<1>3. MappingList(m, found).m \in {m, Faulted(m, "throw")}
  BY DEF MappingList
<1>4. IsSound(MappingList(m, found).m)
  BY <1>1, <1>2, <1>3
<1> QED BY <1>4 DEF m

LEMMA Sent ==
  ASSUME WellFormed, NEW m, IsSound(m), NEW got, Send(m, got)
  PROVE  WellFormed'
<1>1. IsSound(Faulted(m, "throw"))
  BY FaultedSound DEF IsSound
<1>2. CASE Serializable(got.doc)
  BY <1>2, Became DEF Send
<1>3. CASE ~Serializable(got.doc)
  BY <1>1, <1>3, Became DEF Send
<1> QED BY <1>2, <1>3

LEMMA ListKeeps ==
  ASSUME WellFormed, NEW keys, IsAddress(keys), NEW f \in Field, NEW fields, NEW exclude,
         ListBy(keys, f, fields, exclude)
  PROVE  WellFormed'
<1> DEFINE t == ToFind(keys)
           loc == Location(t.frames)
           p == Last(t.frames).obj
           Reply(doc) == Got(keys, f, fields, exclude, doc)
           m == MappingIndexed(t, f)
           res == MappingList(m, TargetsIn(t, m, MapperAt(m, loc).key[f]))
<1>1. IsTraversal(t) /\ IsSound(t.m)
  BY NowSound, TraversalSound DEF ToFind, IsTraversal
<1>2. \/ Become(t.m, {NoAnswer})
      \/ Become(Faulted(t.m, "throw"), {NoAnswer})
      \/ \E doc : Send(t.m, Reply(doc))
      \/ IsMapped(t.m, loc) /\ Send(res.m, Reply(res.doc))
  BY DEF ListBy
<1>3. IsSound(Faulted(t.m, "throw"))
  BY <1>1, FaultedSound DEF IsSound
<1> HIDE DEF t, Reply
<1>4. IsMapped(t.m, loc) => IsSound(res.m)
  BY <1>1, ListSound
<1> HIDE DEF res, loc
<1>5. CASE Become(t.m, {NoAnswer})
  BY <1>1, <1>5, Became
<1>6. CASE Become(Faulted(t.m, "throw"), {NoAnswer})
  BY <1>3, <1>6, Became
<1>7. CASE \E doc : Send(t.m, Reply(doc))
  BY <1>1, <1>7, Sent
<1>8. CASE IsMapped(t.m, loc) /\ Send(res.m, Reply(res.doc))
  BY <1>4, <1>8, Sent
<1> QED BY <1>2, <1>5, <1>6, <1>7, <1>8

LEMMA CommandKeeps ==
  ASSUME WellFormed
  PROVE  /\ \A keys, value : IsAddress(keys) /\ IsDocument(value) /\ Set(keys, value) => WellFormed'
         /\ \A keys, value : IsAddress(keys) /\ IsDocument(value) /\ Lput(keys, value) => WellFormed'
         /\ \A keys : IsAddress(keys) /\ Del(keys) => WellFormed'
         /\ \A keys, kind : IsAddress(keys) /\ Declare(keys, kind) => WellFormed'
         /\ \A keys, fields, exclude : IsAddress(keys) /\ GetAt(keys, fields, exclude) => WellFormed'
         /\ \A keys, pattern : IsAddress(keys) /\ pattern \in Place /\ Map(keys, pattern) => WellFormed'
         /\ \A keys : IsAddress(keys) /\ Unmap(keys) => WellFormed'
<1>1. \A keys : IsAddress(keys) => IsTraversal(ToCreate(keys)) /\ IsTraversal(ToFind(keys))
  BY NowSound, TraversalSound DEF ToCreate, ToFind
<1>2. ASSUME NEW keys, NEW value, IsAddress(keys), IsDocument(value), Set(keys, value)
      PROVE  WellFormed'
  <2> DEFINE t == ToCreate(keys)
             res == SetResult(t, value)
  <2>1. IsTraversal(t)
    BY <1>1, <1>2
  <2>2. Commit(res)
    BY <1>2 DEF Set
  <2> HIDE DEF t
  <2>3. IsSound(res.m)
    BY <1>2, <2>1, SetSound
  <2> HIDE DEF res
  <2> QED BY <2>2, <2>3, CommitKeeps
<1>3. ASSUME NEW keys, NEW value, IsAddress(keys), IsDocument(value), Lput(keys, value)
      PROVE  WellFormed'
  <2> DEFINE t == ToCreate(keys)
             res == LputResult(t, value)
  <2>1. IsTraversal(t)
    BY <1>1, <1>3
  <2>2. Commit(res) /\ Bounded(db')
    BY <1>3 DEF Lput
  <2> HIDE DEF t
  <2>3. db' = res.m.db => IsSound(res.m)
    BY <1>3, <2>1, <2>2, LputSound
  <2> HIDE DEF res
  <2> QED BY <2>2, <2>3, CommitKeeps
<1>4. ASSUME NEW keys, IsAddress(keys), Del(keys) PROVE WellFormed'
  <2> DEFINE t == ToFind(keys)
             res == DelResult(t)
  <2>1. IsTraversal(t)
    BY <1>1, <1>4
  <2>2. Commit(res)
    BY <1>4 DEF Del
  <2> HIDE DEF t
  <2>3. IsSound(res.m)
    BY <2>1, DelSound
  <2> HIDE DEF res
  <2> QED BY <2>2, <2>3, CommitKeeps
<1>5. ASSUME NEW keys, NEW kind, IsAddress(keys), Declare(keys, kind) PROVE WellFormed'
  <2> DEFINE t == ToCreate(keys)
             res == DeclareResult(t, kind)
  <2>1. IsTraversal(t)
    BY <1>1, <1>5
  <2>2. Commit(res)
    BY <1>5 DEF Declare
  <2> HIDE DEF t
  <2>3. IsSound(res.m)
    BY <2>1, DeclareSound
  <2> HIDE DEF res
  <2> QED BY <2>2, <2>3, CommitKeeps
<1>6. ASSUME NEW keys, NEW fields, NEW exclude, IsAddress(keys), GetAt(keys, fields, exclude)
      PROVE  WellFormed'
  <2> DEFINE t == ToFind(keys)
             got == Got(keys, "", fields, exclude, Found(t, fields, exclude))
  <2>1. IsTraversal(t)
    BY <1>1, <1>6
  <2>2. Send(t.m, got)
    BY <1>6 DEF GetAt
  <2> HIDE DEF t, got
  <2> QED BY <2>1, <2>2, Sent DEF IsTraversal
<1>7. ASSUME NEW keys, NEW pattern, IsAddress(keys), pattern \in Place, Map(keys, pattern)
      PROVE  WellFormed'
  <2> DEFINE t == ToFind(keys)
             res == CreateMapping(t, pattern)
  <2>1. IsTraversal(t)
    BY <1>1, <1>7
  <2>2. Commit(res)
    BY <1>7 DEF Map
  <2> HIDE DEF t
  <2>3. IsSound(res.m)
    BY <1>7, <2>1, MappingCreated
  <2> HIDE DEF res
  <2> QED BY <2>2, <2>3, CommitKeeps
<1>8. ASSUME NEW keys, IsAddress(keys), Unmap(keys) PROVE WellFormed'
  <2> DEFINE t == ToFind(keys)
             res == DeleteMapping(t)
  <2>1. IsTraversal(t)
    BY <1>1, <1>8
  <2>2. Commit(res)
    BY <1>8 DEF Unmap
  <2> HIDE DEF t
  <2>3. IsSound(res.m)
    BY <2>1, MappingDeleted
  <2> HIDE DEF res
  <2> QED BY <2>2, <2>3, CommitKeeps
<1> QED BY <1>2, <1>3, <1>4, <1>5, <1>6, <1>7, <1>8

LEMMA RestartKeeps ==
  ASSUME WellFormed, Restart
  PROVE  WellFormed'
<1> DEFINE list == [i \in DOMAIN disk.mappings |-> [disk.mappings[i] EXCEPT !.node = "null"]]
<1>1. Formed(disk) /\ disk.mappings \in Seq(StarIndex)
  BY DEF WellFormed, Formed
<1>2. list \in Seq(StarIndex) /\ \A i \in DOMAIN list : list[i].node # "live"
  <2> DEFINE old == disk.mappings
             Nulled(g) == [g EXCEPT !.node = "null"]
  <2>1. \A g \in StarIndex : Nulled(g) \in StarIndex /\ Nulled(g).node = "null"
    BY DEF StarIndex
  <2>2. old \in Seq(StarIndex) /\ list = [i \in 1 .. Len(old) |-> Nulled(old[i])]
    BY <1>1
  <2> HIDE DEF old, list, Nulled
  <2>3. \A i \in 1 .. Len(old) : old[i] \in StarIndex
    BY <2>2
  <2> QED BY <2>1, <2>2, <2>3
<1> HIDE DEF list
<1>3. db' = disk.db /\ nodes' = disk.nodes /\ mappers' = disk.mappers /\ mappings' = list
  BY DEF Restart, list
<1>4. Formed(Now)'
  BY <1>1, <1>2, <1>3 DEF Formed, Now, Machine
<1> QED BY <1>1, <1>4 DEF WellFormed, Restart

LEMMA SaveKeeps ==
  ASSUME WellFormed, Save
  PROVE  WellFormed'
<1>1. CASE End("failed")
  BY <1>1, Unmoved DEF End
<1>2. CASE /\ disk' = [db |-> db, nodes |-> nodes, mappers |-> mappers, mappings |-> mappings]
           /\ UNCHANGED <<memory, status, reply>>
  <2>1. Formed(Now)' /\ status' \in {"up", "killed", "failed"}
    BY <1>2 DEF WellFormed, memory, Now, Machine
  <2>2. Formed(disk)'
    <3> DEFINE d == [db |-> db, nodes |-> nodes, mappers |-> mappers, mappings |-> mappings]
    <3>1. SameBut(d, Now)
      BY DEF SameBut, Now, Machine
    <3>2. disk' = d
      BY <1>2
    <3> HIDE DEF d
    <3>3. Formed(d)
      BY <3>1, FormedParts DEF WellFormed
    <3> QED BY <3>2, <3>3
  <2> QED BY <2>1, <2>2 DEF WellFormed
<1> QED BY <1>1, <1>2 DEF Save

LEMMA ServedWell ==
  ASSUME WellFormed, Serve(Client)
  PROVE  WellFormed'
<1> USE ClientAssumption
<1>1. ASSUME NEW c \in Client.set, Set(c[1], c[2]) PROVE WellFormed'
  BY <1>1, CommandKeeps
<1>2. ASSUME NEW c \in Client.lput, Lput(c[1], c[2]) PROVE WellFormed'
  BY <1>2, CommandKeeps
<1>3. ASSUME NEW c \in Client.del, Del(c) PROVE WellFormed'
  BY <1>3, CommandKeeps
<1>4. ASSUME NEW c \in Client.declare, Declare(c[1], c[2]) PROVE WellFormed'
  BY <1>4, CommandKeeps
<1>5. ASSUME NEW c \in Client.get, GetAt(c[1], c[2], c[3]) PROVE WellFormed'
  BY <1>5, CommandKeeps
<1>6. ASSUME NEW c \in Client.list, ListBy(c[1], c[2], c[3], c[4]) PROVE WellFormed'
  BY <1>6, ListKeeps
<1>7. ASSUME NEW c \in Client.map, Map(c[1], c[2]) PROVE WellFormed'
  BY <1>7, CommandKeeps
<1>8. ASSUME NEW c \in Client.unmap, Unmap(c) PROVE WellFormed'
  BY <1>8, CommandKeeps
<1>9. CASE Save
  BY <1>9, SaveKeeps
<1>10. CASE Kill
  BY <1>10, Unmoved DEF Kill, End
<1>11. CASE Restart
  BY <1>11, RestartKeeps
<1> QED BY <1>1, <1>2, <1>3, <1>4, <1>5, <1>6, <1>7, <1>8, <1>9, <1>10, <1>11 DEF Serve

LEMMA InitWell ==
  ASSUME Init
  PROVE  WellFormed
<1>1. IsDocument(db)
  BY ClientAssumption DEF Init
<1>2. <<>> \in Path /\ mappings \in Seq(StarIndex) /\ DOMAIN mappings = {}
      /\ nodes = {<<>>} /\ DOMAIN mappers = {}
  BY DEF Init, Path, NoMappers
<1>3. Formed(Now)
  BY <1>1, <1>2 DEF Formed, Now, Machine
<1>4. SameBut(disk, Now)
  BY DEF Init, SameBut, Now, Machine
<1>5. Formed(disk)
  BY <1>3, <1>4, FormedParts
<1> QED BY <1>3, <1>5 DEF WellFormed, Init

(* Whatever clients send, in memory and in the file the document is one    *)
(* the C++ objects can form, the index nodes are a tree, every mapper sits *)
(* on a node and leads to places, and a mapping's live pointer is to a     *)
(* node with a mapper: what IndexManager.cpp asserts and dereferences.     *)
THEOREM DatabaseWellFormed == Spec => []WellFormed
<1>1. Init => WellFormed
  BY InitWell
<1>2. WellFormed /\ [Next]_vars => WellFormed'
  <2> SUFFICES ASSUME WellFormed, [Next]_vars PROVE WellFormed'
    OBVIOUS
  <2>1. CASE Next
    BY <2>1, ServedWell DEF Next
  <2>2. CASE UNCHANGED vars
    BY <2>2, Unmoved DEF vars, memory, WellFormed
  <2> QED BY <2>1, <2>2
<1> QED BY <1>1, <1>2, PTL DEF Spec
==============================================================================
