------------------------------ MODULE MCStorage ------------------------------
(* Rows under keys and with names that the conversions cut, separate or escape. *)
EXTENDS Storage

K(k) == <<k>>
By(f, v) == <<f, v>>
Holding(v) == (<<>> :> Dict) @@ (<<"name">> :> v)

(* The strings are ann and k followed by NUL, k.l, and a"b. *)
Spellings ==
  ("quote" :> <<"a", "\"", "b">>) @@ ("annNUL" :> <<"ann", Nul, "x">>)
  @@ ("kNUL" :> <<"k", Nul>>) @@ ("dotted" :> <<"k", ".", "l">>)

U == K("users")
Numbered == DictOf([int |-> Leaf("2"), float |-> Leaf("0.5")])
StorageClient ==
  [set |-> {<<<<U, K("k")>>, Holding("ann")>>, <<<<U, K("kNUL")>>, Holding("annNUL")>>},
   lput |-> {<<<<U, K("dotted")>>, v>> : v \in {Numbered, Leaf("quote")}}
            \cup {<<<<U>>, Numbered>>},
   del |-> {<<U>>}, declare |-> {}, list |-> {},
   get |-> {<<<<U, By("name", "ann")>>>>},
   map |-> {<<<<K("byname")>>, <<"users", "*">>>>},
   unmap |-> {<<K("byname")>>}]

(* Bounds: clients wait while a save writes, and send nothing to a server  *)
(* that loaded a part of a file; a save follows a GET.                      *)
Usable == saver = "idle" /\ (file = NoFile \/ ~saving \/ SaveIsWhole)
Due == status = "starting" \/ reply.did = "get"
MCNext ==
  \/ Usable /\ Perform
  \/ Due /\ BeginSave
  \/ SaveThrows \/ Write \/ WriteJson \/ Die \/ StartProcess
MCSpec == StorageInit /\ [][MCNext]_svars

(* No file, or one that begins like a database and holds something else.   *)
ForeignFile == Id(Dict) \o Count(1) \o Str("users") \o Id(Foreign)
AnyFile == {NoFile, ForeignFile, Id(Foreign)}
=============================================================================
