------------------------------- MODULE Server -------------------------------
(***************************************************************************)
(* RukoServer::run and the threads of its clients, around one RukoDb.  A   *)
(* command is logged without a lock.  Then the three on mappings work on   *)
(* the indices, also without one, and the others under RukoDb::mut: they   *)
(* traverse, which gives pointers into the database and the index tree,    *)
(* and use these.  The reply is sent when the lock was given back.         *)
(*                                                                         *)
(* Work on the indices by two threads at once is a data race: from then on *)
(* (`raced`) the effects modelled are some of what may happen, and the     *)
(* process may fail at any moment.                                         *)
(***************************************************************************)
EXTENDS RukoDb

CONSTANTS
  Sends,       \* for each client, what it sends first, second, ...: sets of commands
  Idle,        \* no command
  Mute,        \* clients that may stop reading their replies
  MaxThreads,  \* how many threads the system lets the process start
  Nobody

(* A client sends commands, each with what Client says clients send. *)
IsCommand(command) ==
  CASE command.name = "SET" -> <<command.keys, command.value>> \in Client.set
    [] command.name = "DELETE" -> command.keys \in Client.del
    [] command.name = "GET" -> <<command.keys, {}, {}>> \in Client.get
    [] command.name = "CREATE_MAPPING" -> <<command.keys, command.pattern>> \in Client.map
    [] command.name = "DELETE_MAPPING" -> command.keys \in Client.unmap
    [] OTHER -> command.name \in {"GET_MAPPINGS", "unknown"}

ASSUME ServerAssumption ==
  /\ Nobody \notin DOMAIN Sends
  /\ \A c \in DOMAIN Sends : /\ Len(Sends[c]) \in Nat
                             /\ \A i \in 1 .. Len(Sends[c]) :
                                  \A command \in Sends[c][i] : IsCommand(command)

VARIABLES
  at,        \* where the thread of each client is
  sent,      \* how many commands each client has sent
  doing,     \* the one its thread is at
  frames,    \* what traverseTo returned to the thread
  seen,      \* and the index nodes there were then
  owner,     \* who holds RukoDb::mut
  threads,   \* the size of run's vector
  raced,
  log,       \* the lines in the log: <<client, number of the command>>
  spoilt     \* those written at the same time as another: there, or not

shared == <<memory, status>>
lines == <<log, spoilt>>
found == <<frames, seen>>
allvars == <<vars, at, sent, doing, found, owner, threads, raced, lines>>

Clients == DOMAIN Sends
Places == {"away", "idle", "asked", "logging", "ready", "apply", "append", "fill", "forget", "reply"}

ServerInit ==
  /\ Init
  /\ at = [c \in Clients |-> "away"] /\ sent = [c \in Clients |-> 0]
  /\ doing = [c \in Clients |-> Idle]
  /\ frames = [c \in Clients |-> RootFrames] /\ seen = [c \in Clients |-> {}]
  /\ owner = Nobody /\ threads = 0 /\ raced = FALSE
  /\ log = {} /\ spoilt = {}

In(c, places) == status = "up" /\ at[c] \in places
Is(c, names) == doing[c].name \in names
This(c) == <<c, sent[c]>>
GoTo(c, place) == at' = [at EXCEPT ![c] = place]

Hold(m) == db' = m.db /\ nodes' = m.nodes /\ mappers' = m.mappers /\ mappings' = m.mappings
Fail(how) == status' = how /\ UNCHANGED memory

(* Between two steps of a command on mappings, or of any in the indices. *)
Mapping == {"append", "fill", "forget"}
Inside  == Mapping \cup {"apply"}
Races(c, places) == raced' = (raced \/ \E d \in Clients \ {c} : at[d] \in places)

-----------------------------------------------------------------------------
(* A thread for each client that connects.  Nothing joins the threads of   *)
(* those that left or takes them from the vector, and when the system      *)
(* gives no more, the constructor of std::thread throws.                   *)
Accept(c) ==
  /\ In(c, {"away"}) /\ sent[c] < Len(Sends[c])
  /\ \/ threads < MaxThreads /\ threads' = threads + 1 /\ GoTo(c, "idle") /\ UNCHANGED shared
     \/ threads = MaxThreads /\ Fail("no thread") /\ UNCHANGED <<at, threads>>
  /\ UNCHANGED <<disk, reply, sent, doing, found, owner, raced, lines>>

Leave(c) ==
  /\ In(c, {"idle"}) /\ GoTo(c, "away")
  /\ UNCHANGED <<vars, sent, doing, found, owner, threads, raced, lines>>

(* The client sends its next command and its thread reads it. *)
Ask(c) ==
  /\ In(c, {"idle"}) /\ sent[c] < Len(Sends[c])
  /\ GoTo(c, "asked") /\ sent' = [sent EXCEPT ![c] = @ + 1]
  /\ \E command \in Sends[c][sent[c] + 1] : doing' = [doing EXCEPT ![c] = command]
  /\ UNCHANGED <<vars, found, owner, threads, raced, lines>>

(* fromStream gives null for a command it does not know; runCommand calls  *)
(* a method of it.  Lines written at the same time spoil each other.       *)
LogBegin(c) ==
  /\ In(c, {"asked"})
  /\ IF Is(c, {"unknown"}) THEN Fail("null command") /\ UNCHANGED <<at, spoilt>>
     ELSE /\ GoTo(c, "logging") /\ UNCHANGED shared
          /\ LET writing == {d \in Clients : at[d] = "logging"}
             IN spoilt' = spoilt \cup UNION {{This(c), This(d)} : d \in writing}
  /\ UNCHANGED <<disk, reply, sent, doing, found, owner, threads, raced, log>>

(* Mutated form of LogEnd: the line stays in the stream's buffer until the *)
(* thread writes the next one.                                             *)
LogEndBuffered(c) ==
  /\ In(c, {"logging"}) /\ GoTo(c, "ready")
  /\ log' = log \cup ({<<c, sent[c] - 1>>} \cap {c} \X {1})
  /\ UNCHANGED <<vars, sent, doing, found, owner, threads, raced, spoilt>>

LogEnd(c) ==
  /\ In(c, {"logging"}) /\ GoTo(c, "ready")
  /\ log' = log \cup ({This(c)} \ spoilt)
  /\ UNCHANGED <<vars, sent, doing, found, owner, threads, raced, spoilt>>

-----------------------------------------------------------------------------
(* Mutated form of Free: who had the lock keeps it until the reply was sent. *)
FreeLater == owner = Nobody /\ \A c \in Clients : at[c] # "reply"

Free == owner = Nobody

(* Mutated form of Lock: it is not waited for. *)
LockFreely(c) == owner' = c

(* RukoDb::mut. *)
Lock(c) == Free /\ owner' = c

(* Where a command's keys lead, made on the way by a SET.  What follows    *)
(* does not read stop.                                                     *)
Led(m, command) == [TraverseTo(m, command.keys, command.name = "SET") EXCEPT !.stop = FALSE]

(* Under the lock from here to the end of Apply.  The frames point to      *)
(* objects, and to the index nodes there are now.                          *)
Traverse(c) ==
  /\ In(c, {"ready"}) /\ Is(c, {"SET", "DELETE", "GET"})
  /\ Lock(c) /\ Races(c, Mapping)
  /\ \E t \in {Led(Now, doing[c])} :
       IF t.m.fault # "none" THEN Fail("failed") /\ UNCHANGED <<at, found>>
       ELSE /\ Hold(t.m) /\ UNCHANGED status /\ GoTo(c, "apply")
            /\ frames' = [frames EXCEPT ![c] = t.frames]
            /\ seen' = [seen EXCEPT ![c] = t.m.nodes]
  /\ UNCHANGED <<disk, reply, sent, doing, threads, lines>>

(* The index nodes on the way that came after the frames were made, for    *)
(* which these have null pointers, and the traversal without them.         *)
Unseen(c) ==
  LET loc == Location(frames[c])
  IN {n \in nodes \ seen[c] : IsPrefix(n, loc) \/ IsPrefix(loc, n)}

Traversed(c) ==
  {[m |-> Machine(db, nodes \ hidden, [n \in DOMAIN mappers \ hidden |-> mappers[n]], mappings),
    frames |-> frames[c], stop |-> FALSE] : hidden \in {Unseen(c)}}

(* The nodes that were not seen stay as they are. *)
WithUnseen(c, m) ==
  [m EXCEPT !.nodes = @ \cup Unseen(c),
            !.mappers = [n \in DOMAIN @ \cup (DOMAIN mappers \cap Unseen(c)) |->
                           IF n \in DOMAIN @ THEN @[n] ELSE mappers[n]]]

(* An object that the frames point to was destroyed. *)
Stale(c) ==
  \E i \in DOMAIN frames[c] : frames[c][i].obj \notin DOMAIN db \cup {NoObj}

(* The places where the command tells mappings of objects that go or come. *)
Tells(c, t) ==
  LET there == IF Last(t.frames).obj = NoObj THEN {} ELSE DOMAIN Region(t.m, t.frames)
  IN CASE Is(c, {"SET"}) /\ ~Invalid(t, TRUE) ->
            there \cup {Location(t.frames) \o p : p \in DOMAIN doing[c].value}
       [] Is(c, {"DELETE"}) /\ ~Invalid(t, FALSE) -> there
       [] OTHER -> {}

(* The assertions of recurseHandleCreate and recurseHandleDelete fail. *)
NoMapper(c, t) ==
  \E i \in DOMAIN mappings :
     /\ mappings[i].node = "live" /\ mappings[i].loc \in nodes \ DOMAIN mappers
     /\ \E L \in Tells(c, t) : PatternMatches(mappings[i].pattern, L)

(* The database a command leaves, and its reply.  GET copies the object    *)
(* under the lock, and makes bytes of its copy after it.                   *)
Replying(res) == [m |-> res.m, answer |-> Answer(res.wrote)]
Copied(t, keys) ==
  LET doc == Found(t, {}, {})
  IN [m |-> IF Serializable(doc) THEN t.m ELSE Faulted(t.m, "throw"),
      answer |-> Got(keys, "", {}, {}, doc)]

Performed(command, t) ==
  CASE command.name = "SET" -> Replying(SetResult(t, command.value))
    [] command.name = "DELETE" -> Replying(DelResult(t))
    [] command.name = "GET" -> Copied(t, command.keys)

Back(c, place) ==
  /\ GoTo(c, place)
  /\ frames' = [frames EXCEPT ![c] = RootFrames] /\ seen' = [seen EXCEPT ![c] = {}]

Apply(c) ==
  /\ In(c, {"apply"})
  /\ owner' = Nobody /\ Races(c, Mapping)
  /\ \E t \in Traversed(c) :
       IF Stale(c) \/ NoMapper(c, t) THEN Fail("failed") /\ UNCHANGED <<at, found, reply>>
       ELSE \E res \in {Performed(doing[c], t)} :
              \/ /\ res.m.fault # "none"
                 /\ Fail("failed") /\ UNCHANGED <<at, found, reply>>
              \/ /\ res.m.fault # "throw"
                 /\ Hold(WithUnseen(c, res.m))
                 /\ reply' = res.answer /\ UNCHANGED status /\ Back(c, "reply")
  /\ UNCHANGED <<disk, sent, doing, threads, lines>>

-----------------------------------------------------------------------------
(* createMapping: the keys are converted and the index nodes made, ...     *)
MapNodes(c) ==
  /\ In(c, {"ready"}) /\ Is(c, {"CREATE_MAPPING"}) /\ Races(c, Inside)
  /\ \E t \in {Led(Now, doing[c])} :
       LET loc == Location(t.frames)
           known == \E g \in ToSet(t.m.mappings) : g.loc = loc /\ g.pattern = doing[c].pattern
       IN IF t.m.fault # "none" THEN Fail("failed") /\ UNCHANGED <<at, frames, reply>>
          ELSE IF known \/ ~IsValid(loc)
          THEN /\ Hold(t.m) /\ UNCHANGED <<status, frames>>
               /\ GoTo(c, "reply") /\ reply' = Answer(FALSE)
          ELSE /\ Hold([t.m EXCEPT !.nodes = @ \cup Prefixes(loc)]) /\ UNCHANGED <<status, reply>>
               /\ GoTo(c, "append") /\ frames' = [frames EXCEPT ![c] = t.frames]
  /\ UNCHANGED <<disk, sent, doing, seen, owner, threads, lines>>

(* ... the mapping is added, with a pointer to its node, ... *)
MapAppend(c) ==
  /\ In(c, {"append"}) /\ Races(c, Inside) /\ GoTo(c, "fill")
  /\ LET loc == Location(frames[c])
     IN mappings' = Append(mappings, [loc |-> loc, pattern |-> doing[c].pattern,
                             node |-> IF loc \in nodes THEN "live" ELSE "dangling"])
  /\ UNCHANGED <<db, nodes, mappers, status, disk, reply, sent, doing, found, owner, threads, lines>>

(* ... and the node gets its mapper, or what the pattern matches comes in. *)
MapFill(c) ==
  /\ In(c, {"fill"}) /\ Races(c, Inside)
  /\ \E loc \in {Location(frames[c])} :
     \E m \in {IF loc \notin nodes THEN Faulted(Now, "undefined")
               ELSE IF loc \in DOMAIN mappers THEN UpdateStarThing(Now, loc, doing[c].pattern)
               ELSE SetMapper(Now, loc, EmptyMapper)} :
       IF m.fault # "none" THEN Fail("failed") /\ UNCHANGED <<at, found, reply>>
       ELSE /\ Hold(m) /\ UNCHANGED status /\ Back(c, "reply")
            /\ reply' = Answer(loc \notin DOMAIN mappers)
  /\ UNCHANGED <<disk, sent, doing, owner, threads, lines>>

(* deleteMapping: the index node and those below it are destroyed, ... *)
UnmapErase(c) ==
  /\ In(c, {"ready"}) /\ Is(c, {"DELETE_MAPPING"}) /\ Races(c, Inside)
  /\ \E t \in {Led(Now, doing[c])} :
       LET loc == Location(t.frames)
           gone == {n \in t.m.nodes : IsPrefix(loc, n)}
       IN IF t.m.fault # "none" THEN Fail("failed") /\ UNCHANGED <<at, frames, reply>>
          ELSE IF ~IsValid(loc) \/ loc \notin t.m.nodes
          THEN /\ Hold(t.m) /\ UNCHANGED <<status, frames>>
               /\ GoTo(c, "reply") /\ reply' = Answer(FALSE)
          ELSE /\ Hold([t.m EXCEPT
                     !.nodes = @ \ gone,
                     !.mappers = [n \in DOMAIN @ \ gone |-> @[n]],
                     !.mappings = [i \in DOMAIN @ |->
                        IF @[i].node = "live" /\ @[i].loc \in gone
                        THEN [@[i] EXCEPT !.node = "dangling"] ELSE @[i]]])
               /\ UNCHANGED <<status, reply>>
               /\ GoTo(c, "forget") /\ frames' = [frames EXCEPT ![c] = t.frames]
  /\ UNCHANGED <<disk, sent, doing, seen, owner, threads, lines>>

(* ... and the mappings there are looked for, and go. *)
UnmapForget(c) ==
  /\ In(c, {"forget"}) /\ Races(c, Inside)
  /\ LET loc == Location(frames[c])
     IN IF ~IsMapped(Now, loc) THEN Fail("failed") /\ UNCHANGED <<at, found, reply>>
        ELSE /\ mappings' = MappingsBut(mappings, loc) /\ reply' = Answer(TRUE)
             /\ UNCHANGED <<db, nodes, mappers, status>> /\ Back(c, "reply")
  /\ UNCHANGED <<disk, sent, doing, owner, threads, lines>>

(* getMappings walks the vector (what it answers is not modelled). *)
ListMappings(c) ==
  /\ In(c, {"ready"}) /\ Is(c, {"GET_MAPPINGS"}) /\ Races(c, Mapping)
  /\ GoTo(c, "reply")
  /\ UNCHANGED <<vars, sent, doing, found, owner, threads, lines>>

-----------------------------------------------------------------------------
(* The reply goes into the client's socket, or waits until the client      *)
(* reads what is there.                                                    *)
Reply(c) ==
  /\ In(c, {"reply"}) /\ GoTo(c, "idle")
  /\ doing' = [doing EXCEPT ![c] = Idle]
  /\ UNCHANGED <<vars, sent, found, owner, threads, raced, lines>>

(* What a data race does. *)
Undefined ==
  /\ status = "up" /\ raced /\ Fail("failed")
  /\ UNCHANGED <<disk, reply, at, sent, doing, found, owner, threads, raced, lines>>

Run(c) ==
  \/ LogBegin(c) \/ LogEnd(c)
  \/ Traverse(c) \/ Apply(c)
  \/ MapNodes(c) \/ MapAppend(c) \/ MapFill(c)
  \/ UnmapErase(c) \/ UnmapForget(c) \/ ListMappings(c)

ServerNext ==
  \/ \E c \in Clients : Accept(c) \/ Leave(c) \/ Ask(c) \/ Run(c) \/ Reply(c)
  \/ Undefined

(* What Run and Reply are to the thread of a client: one that can run goes *)
(* to another place (or the process ends).                                 *)
Running ==
  {"asked", "logging", "ready", "apply", "append", "fill", "forget"}
MayLock(c) == Is(c, {"SET", "DELETE", "GET"}) => Free
Moves(c, places) ==
  /\ In(c, places)
  /\ at[c] = "ready" => MayLock(c)
  /\ \E place \in Places \ {at[c]} : GoTo(c, place)

(* Each client's thread runs; clients that are not mute read their         *)
(* replies.  What clients send ends, so that no thread waits for a lock    *)
(* that others take again and again.                                       *)
Fairness ==
  /\ \A c \in Clients : WF_at(Moves(c, Running))
  /\ \A c \in Clients \ Mute : WF_at(Moves(c, {"reply"}))

ServerSpec == ServerInit /\ [][ServerNext]_allvars /\ Fairness

-----------------------------------------------------------------------------
(* Whatever clients send at the same time, as long as no command on        *)
(* mappings meets another command in the indices: where no command is in   *)
(* progress every index agrees with the database (RukoDb.hpp's mut).       *)
AtRest == \A c \in Clients : at[c] \notin Inside
IndexedTogether == ~raced /\ AtRest => IndexExact

(* Then no thread uses an object or an index node that another one has     *)
(* destroyed, or misses one that another has made, or meets a mapping      *)
(* without its mapper (IndexManager.cpp:144).                              *)
PointersHold ==
  ~raced => \A c \in Clients : In(c, {"apply"}) =>
     Unseen(c) = {} /\ ~Stale(c) /\ \A t \in Traversed(c) : ~NoMapper(c, t)

(* From its traversal to its end, a command that no command on mappings    *)
(* meets finds the database and the indices as its pointers into them were *)
(* made (RukoDb::mut, taken in each of the five commands).                 *)
UnderLock ==
  [][\A c \in Clients : at[c] = "apply" /\ at'[c] = "apply" /\ ~raced' => UNCHANGED memory]_allvars

(* main.cpp:14 "Log all commands to this file": a command that was         *)
(* answered has its line, also when the process ended since, unless that   *)
(* was written at the same time as another line.  So a command that was    *)
(* sent after the answer to another stands behind it.                      *)
Answers(c) == IF at[c] \in {"away", "idle"} THEN 1 .. sent[c] ELSE 1 .. sent[c] - 1
LogTells == \A c \in Clients : {c} \X Answers(c) \subseteq log \cup spoilt

(* A client that reads its replies gets an answer to every command, unless *)
(* the process ends, also when others never read theirs.                   *)
Answered ==
  \A c \in Clients \ Mute : at[c] = "asked" ~> at[c] \in {"idle", "away"} \/ status # "up"

(* IndexManager.cpp:144 "eassert(mappings[*it].node->mapper);". *)
MapperThere ==
  \A c \in Clients : In(c, {"apply"}) => \A t \in Traversed(c) : Stale(c) \/ ~NoMapper(c, t)
=============================================================================
