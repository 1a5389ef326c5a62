------------------------------ MODULE MCServer ------------------------------
(* A client that writes rows, one that looks rows up, and one that makes   *)
(* and deletes a mapping over them.                                        *)
EXTENDS Serial

Holding(v) == (<<>> :> Dict) @@ (<<"name">> :> v)
U == <<"users">>
K == <<"k">>
M == <<"byname">>
Ann == <<"name", "ann">>

Do(name, keys) == [name |-> name, keys |-> keys, value |-> Leaf(Empty), pattern |-> <<>>]
SetRow == [Do("SET", <<U, K>>) EXCEPT !.value = Holding("ann")]
MapRows == [Do("CREATE_MAPPING", <<M>>) EXCEPT !.pattern = <<"users", "*">>]

Threes ==
  [writer |-> <<{SetRow}, {Do("DELETE", <<U>>), Do("unknown", <<>>)}>>,
   looker |-> <<{Do("GET", <<U, Ann>>)}, {Do("GET", <<M, Ann>>), Do("GET_MAPPINGS", <<>>)}>>,
   mapper |-> <<{MapRows}, {Do("DELETE_MAPPING", <<M>>)}>>]

(* Bounds: clients send when all have come, and one of them leaves after   *)
(* an answer, when all rest.                                               *)
Bounds ==
  /\ sent' # sent => threads >= Cardinality(Clients)
  /\ \A c \in Clients : at[c] = "idle" /\ at'[c] = "away" =>
       c = "looker" /\ sent[c] > 0 /\ \A d \in Clients : at[d] \in {"idle", "away", "reply"}
MCNext == SerialNext /\ Bounds
MCSpec ==
  /\ SerialInit /\ [][MCNext]_serialvars
  /\ Fairness

Pair == [writer |-> <<{SetRow}>>, mapper |-> <<{MapRows}>>]
NewDb == {Leaf(Dict)}

(* What these commands are, as Client names them. *)
Sent(name) ==
  UNION {UNION {{d \in part : d.name = name} : part \in ToSet(Threes[c])} : c \in DOMAIN Threes}
Commands ==
  [set |-> {<<d.keys, d.value>> : d \in Sent("SET")},
   del |-> {d.keys : d \in Sent("DELETE")},
   get |-> {<<d.keys, {}, {}>> : d \in Sent("GET")},
   map |-> {<<d.keys, d.pattern>> : d \in Sent("CREATE_MAPPING")},
   unmap |-> {d.keys : d \in Sent("DELETE_MAPPING")},
   lput |-> {}, declare |-> {}, list |-> {}]
=============================================================================
