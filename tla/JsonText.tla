------------------------------ MODULE JsonText ------------------------------
(***************************************************************************)
(* Objects and commands as text: what Object::toString and a command's     *)
(* toString print (into the .json copy, the command log and the shell) and *)
(* what Object::parseFromString and Command::fromString read.  A text is a *)
(* sequence of characters; of the space it has only what ends a word, and  *)
(* a bare word or a run of digits is one character.                        *)
(***************************************************************************)
EXTENDS Strings, Documents

(* Ints, and floats, which are printed with as many characters as needed.  *)
NumberText ==
  ("0" :> <<"0">>) @@ ("2" :> <<"2">>) @@ ("-1" :> <<"-", "1">>)
  @@ ("0.5" :> <<"0", ".", "5">>) @@ ("2.0" :> <<"2">>)
  @@ ("0.00001" :> <<"1", "e-05">>) @@ ("1e10" :> <<"1", "e+10">>)
Numbers == DOMAIN NumberText
Bare == {"null", "true", "false"} \cup Numbers   \* scalars that are no strings

Flat(texts) == FoldLeft(LAMBDA a, b : a \o b, <<>>, texts)
Joined(texts, sep) ==
  Flat([i \in DOMAIN texts |-> IF i = 1 THEN texts[i] ELSE <<sep>> \o texts[i]])

(* An unordered map is met in an order of its own: either of two here.     *)
Ordered(S, back) == IF back THEN Reverse(SetToSeq(S)) ELSE SetToSeq(S)
Positions(n) == [i \in 1 .. n |-> ToString(i - 1)]

-----------------------------------------------------------------------------
Escaped(cs) ==
  Flat([i \in DOMAIN cs |-> CASE cs[i] \in {"\\", "\""} -> <<"\\", cs[i]>>
                              [] cs[i] = "\n" -> <<"\\", "n">>
                              [] OTHER -> <<cs[i]>>])

Quoted(cs) == <<"\"">> \o cs \o <<"\"">>

(* Mutated form of PrintKey: the key is printed without its quotes. *)
PrintKeyBare(k) == Chars(k) \o <<":">>

(* A key is printed as it is; a string is escaped.                         *)
PrintKey(k) == Quoted(Chars(k)) \o <<":">>

DictText(parts) == <<"{">> \o Joined(parts, ",") \o <<"}">>
ListText(parts) == <<"[">> \o Joined(parts, ",") \o <<"]">>

RECURSIVE PrintObject(_, _)
PrintObject(doc, back) ==
  LET Child(k) == PrintObject(ValueAt(doc, <<k>>), back)
      keys == Ordered(KeysOf(doc, <<>>), back)
      n == SizeOf(doc, <<>>)
  IN CASE doc[<<>>] = Dict ->
            DictText([i \in DOMAIN keys |-> PrintKey(keys[i]) \o Child(keys[i])])
       [] doc[<<>>] = List -> ListText([i \in 1 .. n |-> Child(Positions(n)[i])])
       [] doc[<<>>] \in Numbers -> NumberText[doc[<<>>]]
       [] doc[<<>>] \in Bare \cup {Empty} -> <<doc[<<>>]>>
       [] OTHER -> Quoted(Escaped(Chars(doc[<<>>])))

-----------------------------------------------------------------------------
(* The parser returns the object and the characters after it, or throws.   *)
Parsed(doc, rest) == [ok |-> TRUE, doc |-> doc, rest |-> rest]
Throws == [ok |-> FALSE, doc |-> Leaf(Empty), rest |-> <<>>]

Next1(t) == IF t = <<>> THEN Nul ELSE Head(t)
Skip(t, c) == IF Next1(t) = c THEN Tail(t) ELSE t

(* A string ends at the first quote: escapes are not undone. *)
ParseString(t) ==
  LET body == UpTo(t, {"\"", Nul})
  IN IF Next1(After(t, body)) = "\"" THEN Parsed(Leaf(StringOf(body)), Tail(After(t, body)))
     ELSE Throws

(* A number has no sign, and is an int without a point.  The power of ten  *)
(* is an int: 0 for a negative exponent, undefined for a large one.        *)
Digits == {"0", "1", "2"}
AsPrinted == {"0", "2", "0.5"}

ParseNumber(t) ==
  LET text == SubSeq(t, 1, IF Next1(Tail(t)) = "." THEN 3 ELSE 1)
      rest == After(t, text)
  IN CASE Next1(rest) = "e-05" -> Parsed(Leaf("0"), Tail(rest))
       [] Next1(rest) = "e+10" -> Parsed(Leaf(Unnamed), Tail(rest))
       [] OTHER -> Parsed(Leaf(CHOOSE n \in AsPrinted : NumberText[n] = text), rest)

IsString(doc) == doc[<<>>] \notin Bare \cup {Dict, List, Empty}

(* map.emplace: the first of two equal keys stays. *)
Emplace(doc, k, value) == IF <<k>> \in DOMAIN doc THEN doc ELSE Graft(doc, <<k>>, value)

RECURSIVE ParseObject(_), ParseDict(_, _), ParseList(_, _)
ParseObject(t) ==
  CASE Next1(t) = "{" -> ParseDict(Leaf(Dict), Tail(t))
    [] Next1(t) = "[" -> ParseList(Leaf(List), Tail(t))
    [] Next1(t) = "\"" -> ParseString(Tail(t))
    [] Next1(t) \in Digits -> ParseNumber(t)
    [] Next1(t) \in Bare \ Numbers -> Parsed(Leaf(Head(t)), Tail(t))
    [] OTHER -> Throws

ParseDict(doc, t) ==
  IF Next1(t) = "}" THEN Parsed(doc, Tail(t))
  ELSE LET key == ParseObject(t)
           val == ParseObject(Tail(key.rest))
       IN IF ~key.ok \/ ~IsString(key.doc) \/ Next1(key.rest) # ":" THEN Throws
          ELSE IF ~val.ok \/ Next1(val.rest) \notin {",", "}"} THEN Throws
          ELSE ParseDict(Emplace(doc, key.doc[<<>>], val.doc), Skip(val.rest, ","))

ParseList(doc, t) ==
  IF Next1(t) = "]" THEN Parsed(doc, Tail(t))
  ELSE LET val == ParseObject(t)
       IN IF ~val.ok \/ Next1(val.rest) \notin {",", "]"} THEN Throws
          ELSE ParseList(Graft(doc, <<ToString(SizeOf(doc, <<>>))>>, val.doc), Skip(val.rest, ","))

-----------------------------------------------------------------------------
(* A command: its name, the addresses it has, and an object or none.  An   *)
(* address is a sequence of keys and a key is a sequence of characters.    *)
Command(name, addresses, object) == [name |-> name, addresses |-> addresses, object |-> object]

(* join(keys, "."). *)
Dotted(keys) == Joined(keys, ".")

PrintCommand(c, back) ==
  Joined(<<<<c.name>>>> \o [i \in DOMAIN c.addresses |-> Dotted(c.addresses[i])]
           \o [i \in DOMAIN c.object |-> PrintObject(c.object[i], back)], " ")

(* parseWord, and the spaces after it. *)
Word(t) == UpTo(t, {" ", "\n", Nul})
RECURSIVE SkipSpaces(_)
SkipSpaces(t) == IF Next1(t) \in {" ", "\n"} THEN SkipSpaces(Tail(t)) ELSE t

(* Mutated form of AfterWord: the spaces are left for the next word. *)
AfterWordAt(t) == After(t, Word(t))

AfterWord(t) == SkipSpaces(After(t, Word(t)))

(* split: getline does not give an empty part behind the last delimiter.   *)
RECURSIVE Split(_, _)
Split(cs, sep) ==
  IF cs = <<>> THEN <<>>
  ELSE LET part == UpTo(cs, {sep}) IN <<part>> \o Split(Skip(After(cs, part), sep), sep)

Unknown == Command("", <<>>, <<>>)

(* Command::fromString, and runInteractive, which runs no command that is  *)
(* followed by anything more.                                              *)
ReadCommand(text) ==
  LET t == SkipSpaces(text)
      name == IF Word(t) = <<>> THEN "" ELSE Word(t)[1]
      first  == AfterWord(t)
      second == AfterWord(first)
      obj == ParseObject(second)
  IN IF name \in {"SET", "LPUT"}
     THEN IF obj.ok /\ SkipSpaces(obj.rest) = <<>>
          THEN Command(name, <<Split(Word(first), ".")>>, <<obj.doc>>) ELSE Unknown
     ELSE IF name \in {"GET", "DELETE", "DELETE_MAPPING"} /\ second = <<>>
     THEN Command(name, <<Split(Word(first), ".")>>, <<>>)
     ELSE IF name = "CREATE_MAPPING" /\ AfterWord(second) = <<>>
     THEN Command(name, <<Split(Word(first), "."), Split(Word(second), ".")>>, <<>>)
     ELSE Unknown
==============================================================================
