---------------------------- MODULE ServerProofs ----------------------------
(***************************************************************************)
(* For any clients and whatever they send, whatever the commands do to the *)
(* database and however the process ends: the log tells what the server    *)
(* answered, a command under the lock is alone with the database, and as   *)
(* long as no command on mappings meets another, the steps of all threads  *)
(* come to whole commands, one after the other.                            *)
(***************************************************************************)
EXTENDS Serial, RukoDbProofs

(* The commands of c whose lines were written. *)
Logged(c) == IF at[c] \in {"asked", "logging"} THEN 1 .. sent[c] - 1 ELSE 1 .. sent[c]

LogInv ==
  /\ at \in [Clients -> Places] /\ sent \in [Clients -> Nat]
  /\ \A c \in Clients : {c} \X Logged(c) \subseteq log \cup spoilt

LEMMA LogInit == ServerInit => LogInv
<1> SUFFICES ASSUME ServerInit PROVE LogInv
  OBVIOUS
<1>1. at = [c \in Clients |-> "away"] /\ sent = [c \in Clients |-> 0]
  BY DEF ServerInit
<1>2. ASSUME NEW c \in Clients PROVE Logged(c) = {}
  BY <1>1, <1>2 DEF Logged
<1> QED
  BY <1>1, <1>2 DEF LogInv, Places

(* A step by which the thread of c goes from one place to another, neither *)
(* to nor from those before its line is written, or by which the process   *)
(* ends.                                                                   *)
Unlogged(c) ==
  /\ UNCHANGED <<sent, lines>>
  /\ \/ UNCHANGED at
     \/ /\ at[c] \notin {"asked", "logging"}
        /\ \E place \in Places \ {"asked", "logging"} : GoTo(c, place)

LEMMA UnloggedKeeps ==
  ASSUME LogInv, NEW c \in Clients, Unlogged(c)
  PROVE  LogInv'
<1>1. sent' = sent /\ log' = log /\ spoilt' = spoilt
  BY DEF Unlogged, lines
<1>2. at' \in [Clients -> Places]
  BY DEF Unlogged, GoTo, LogInv
<1>3. ASSUME NEW d \in Clients PROVE Logged(d)' = Logged(d)
  BY <1>1 DEF Unlogged, GoTo, Logged, LogInv
<1> QED
  BY <1>1, <1>2, <1>3 DEF LogInv

LEMMA CommandsUnlogged ==
  ASSUME LogInv, NEW c \in Clients,
         \/ Accept(c) \/ Leave(c) \/ Traverse(c) \/ Apply(c) \/ MapNodes(c)
         \/ MapAppend(c) \/ MapFill(c) \/ UnmapErase(c) \/ UnmapForget(c)
         \/ ListMappings(c) \/ Reply(c)
  PROVE  Unlogged(c)
<1> USE DEF Unlogged, In, Fail, Places
<1>1. CASE Accept(c)
  BY <1>1 DEF Accept
<1>2. CASE Leave(c)
  BY <1>2 DEF Leave
<1>3. CASE Traverse(c)
  BY <1>3 DEF Traverse
<1>4. CASE Apply(c)
  BY <1>4 DEF Apply, Back
<1>5. CASE MapNodes(c)
  BY <1>5 DEF MapNodes
<1>6. CASE MapAppend(c)
  BY <1>6 DEF MapAppend
<1>7. CASE MapFill(c)
  BY <1>7 DEF MapFill, Back
<1>8. CASE UnmapErase(c)
  BY <1>8 DEF UnmapErase
<1>9. CASE UnmapForget(c)
  BY <1>9 DEF UnmapForget, Back
<1>10. CASE ListMappings(c) \/ Reply(c)
  BY <1>10 DEF ListMappings, Reply
<1> QED
  BY <1>1, <1>2, <1>3, <1>4, <1>5, <1>6, <1>7, <1>8, <1>9, <1>10

(* A command is written to the log before any other step of its own.       *)
LEMMA LogStep == LogInv /\ [ServerNext]_allvars => LogInv'
<1> SUFFICES ASSUME LogInv, [ServerNext]_allvars PROVE LogInv'
  OBVIOUS
<1>1. ASSUME NEW c \in Clients, Ask(c) PROVE LogInv'
  <2>1. /\ at[c] = "idle" /\ at' = [at EXCEPT ![c] = "asked"]
        /\ sent' = [sent EXCEPT ![c] = @ + 1] /\ log' = log /\ spoilt' = spoilt
    BY <1>1 DEF Ask, In, GoTo, lines
  <2>2. at' \in [Clients -> Places] /\ sent' \in [Clients -> Nat]
    BY <2>1 DEF LogInv, Places
  <2>3. ASSUME NEW d \in Clients PROVE Logged(d)' = Logged(d)
    <3>1. CASE d = c
      BY <2>1, <3>1 DEF Logged, LogInv
    <3>2. CASE d # c
      BY <2>1, <3>2 DEF Logged, LogInv
    <3> QED
      BY <3>1, <3>2
  <2> QED
    BY <2>1, <2>2, <2>3 DEF LogInv
<1>2. ASSUME NEW c \in Clients, LogBegin(c) PROVE LogInv'
  <2>1. /\ sent' = sent /\ log' = log /\ spoilt \subseteq spoilt'
        /\ at[c] = "asked" /\ (at' = at \/ at' = [at EXCEPT ![c] = "logging"])
    BY <1>2 DEF LogBegin, In, GoTo, Fail
  <2>2. at' \in [Clients -> Places]
    BY <2>1 DEF LogInv, Places
  <2>3. ASSUME NEW d \in Clients PROVE Logged(d)' = Logged(d)
    BY <2>1 DEF Logged, LogInv
  <2> QED
    BY <2>1, <2>2, <2>3 DEF LogInv
<1>3. ASSUME NEW c \in Clients, LogEnd(c) PROVE LogInv'
  <2>1. /\ at[c] = "logging" /\ at' = [at EXCEPT ![c] = "ready"]
        /\ sent' = sent /\ spoilt' = spoilt /\ log' = log \cup ({<<c, sent[c]>>} \ spoilt)
    BY <1>3 DEF LogEnd, In, GoTo, This
  <2>2. at' \in [Clients -> Places]
    BY <2>1 DEF LogInv, Places
  <2>3. Logged(c)' = Logged(c) \cup {sent[c]} \/ Logged(c)' = {}
    BY <2>1 DEF Logged, LogInv
  <2>4. {c} \X Logged(c)' \subseteq log' \cup spoilt'
    BY <2>1, <2>3 DEF LogInv
  <2>5. ASSUME NEW d \in Clients, d # c PROVE {d} \X Logged(d)' \subseteq log' \cup spoilt'
    <3>1. Logged(d)' = Logged(d)
      BY <2>1, <2>5 DEF Logged, LogInv
    <3> QED
      BY <2>1, <3>1 DEF LogInv
  <2> QED
    BY <2>1, <2>2, <2>4, <2>5 DEF LogInv
<1>4. CASE Undefined \/ UNCHANGED allvars
  <2>1. UNCHANGED <<at, sent, log, spoilt>>
    BY <1>4 DEF Undefined, allvars, lines
  <2> QED
    BY <2>1 DEF LogInv, Logged
<1> QED
  BY <1>1, <1>2, <1>3, <1>4, CommandsUnlogged, UnloggedKeeps DEF ServerNext, Run

(* main.cpp:14 "Log all commands to this file": every command that was     *)
(* answered has its line in the log, or one that another thread's spoilt,  *)
(* for any number of clients.                                              *)
THEOREM LogComplete == ServerSpec => []LogTells
<1>1. LogInv => LogTells
  <2> SUFFICES ASSUME LogInv, NEW c \in Clients PROVE Answers(c) \subseteq Logged(c)
    BY DEF LogTells, LogInv
  <2> QED
    BY DEF LogInv, Answers, Logged
<1> QED
  BY <1>1, LogInit, LogStep, PTL DEF ServerSpec

-----------------------------------------------------------------------------
(* A thread that traversed and did not finish holds the lock. *)
LockInv ==
  /\ at \in [Clients -> Places]
  /\ status = "up" => \A c \in Clients : at[c] = "apply" => owner = c

LEMMA LockInit == ServerInit => LockInv
BY DEF ServerInit, LockInv, Places

(* Steps that leave the lock alone and begin or end no command under it. *)
Outside(c) ==
  /\ owner' = owner /\ at[c] # "apply"
  /\ at' = at \/ \E place \in Places \ {"apply"} : GoTo(c, place)
  /\ status' = "up" => status = "up"

LEMMA OutsideKeeps ==
  ASSUME LockInv, NEW c \in Clients, Outside(c)
  PROVE  LockInv'
BY DEF LockInv, Outside, GoTo

LEMMA OthersOutside ==
  ASSUME LockInv, NEW c \in Clients,
         \/ Accept(c) \/ Leave(c) \/ Ask(c) \/ LogBegin(c) \/ LogEnd(c) \/ MapNodes(c)
         \/ MapAppend(c) \/ MapFill(c) \/ UnmapErase(c) \/ UnmapForget(c)
         \/ ListMappings(c) \/ Reply(c)
  PROVE  Outside(c)
<1> USE DEF Outside, In, Fail, Places, shared, vars
<1>1. CASE Accept(c)
  BY <1>1 DEF Accept
<1>2. CASE Leave(c) \/ Ask(c)
  BY <1>2 DEF Leave, Ask
<1>3. CASE LogBegin(c)
  BY <1>3 DEF LogBegin
<1>4. CASE LogEnd(c)
  BY <1>4 DEF LogEnd
<1>5. CASE MapNodes(c)
  BY <1>5 DEF MapNodes
<1>6. CASE MapAppend(c)
  BY <1>6 DEF MapAppend
<1>7. CASE MapFill(c)
  BY <1>7 DEF MapFill, Back
<1>8. CASE UnmapErase(c)
  BY <1>8 DEF UnmapErase
<1>9. CASE UnmapForget(c)
  BY <1>9 DEF UnmapForget, Back
<1>10. CASE ListMappings(c) \/ Reply(c)
  BY <1>10 DEF ListMappings, Reply
<1> QED
  BY <1>1, <1>2, <1>3, <1>4, <1>5, <1>6, <1>7, <1>8, <1>9, <1>10

LEMMA LockStep == LockInv /\ [ServerNext]_allvars => LockInv'
<1> SUFFICES ASSUME LockInv, [ServerNext]_allvars PROVE LockInv'
  OBVIOUS
<1>1. ASSUME NEW c \in Clients, Traverse(c) PROVE LockInv'
  <2>1. status = "up" /\ owner = Nobody /\ owner' = c
    BY <1>1 DEF Traverse, In, Lock, Free
  <2>2. \A d \in Clients : at[d] # "apply"
    BY <2>1, ServerAssumption DEF LockInv, Clients
  <2>3. (at' = at /\ status' = "failed") \/ at' = [at EXCEPT ![c] = "apply"]
    BY <1>1 DEF Traverse, Fail, GoTo
  <2> QED
    BY <2>1, <2>2, <2>3 DEF LockInv, Places
<1>2. ASSUME NEW c \in Clients, Apply(c) PROVE LockInv'
  <2>1. status = "up" /\ at[c] = "apply" /\ owner = c
    BY <1>2 DEF Apply, In, LockInv
  <2>2. (at' = at /\ status' = "failed") \/ at' = [at EXCEPT ![c] = "reply"]
    BY <1>2 DEF Apply, Fail, GoTo, Back
  <2> QED
    BY <2>1, <2>2 DEF LockInv, Places
<1>3. CASE Undefined \/ UNCHANGED allvars
  BY <1>3 DEF Undefined, Fail, allvars, vars, LockInv
<1> QED
  BY <1>1, <1>2, <1>3, OthersOutside, OutsideKeeps DEF ServerNext, Run

(* Another thread changes the memory outside the lock in a race only.      *)
LEMMA OthersRace ==
  ASSUME LockInv, NEW c \in Clients, at[c] = "apply", at'[c] = "apply", ~raced',
         NEW d \in Clients, Accept(d) \/ Leave(d) \/ Ask(d) \/ Run(d) \/ Reply(d)
  PROVE  UNCHANGED memory
<1>1. CASE Accept(d) \/ Leave(d) \/ Ask(d) \/ LogBegin(d) \/ LogEnd(d) \/ ListMappings(d) \/ Reply(d)
  BY <1>1 DEF Accept, Leave, Ask, LogBegin, LogEnd, ListMappings, Reply, vars, shared, memory, Fail
<1>2. CASE Traverse(d)
  BY <1>2, ServerAssumption DEF Traverse, In, Lock, Free, LockInv, Clients
<1>3. CASE Apply(d)
  <2>1. d = c
    BY <1>3 DEF Apply, In, LockInv
  <2>2. UNCHANGED memory \/ at' = [at EXCEPT ![c] = "reply"]
    BY <1>3, <2>1 DEF Apply, Fail, Back, GoTo
  <2> QED
    BY <2>2 DEF LockInv
<1>4. CASE MapNodes(d) \/ MapAppend(d) \/ MapFill(d) \/ UnmapErase(d) \/ UnmapForget(d)
  <2>1. Races(d, Inside) /\ at[d] # "apply"
    BY <1>4 DEF MapNodes, MapAppend, MapFill, UnmapErase, UnmapForget, In
  <2>2. c \in Clients \ {d} /\ at[c] \in Inside
    BY <2>1 DEF Inside
  <2> QED
    BY <2>1, <2>2 DEF Races
<1> QED
  BY <1>1, <1>2, <1>3, <1>4 DEF Run

(* RukoDb.cpp's lock_guard in each of the five commands: for any number of *)
(* clients, a command that meets no command on mappings finds the database *)
(* and the indices as its traversal left them.                             *)
THEOREM AloneUnderLock == ServerSpec => UnderLock
<1>1. LockInv /\ [ServerNext]_allvars =>
        [\A c \in Clients : at[c] = "apply" /\ at'[c] = "apply" /\ ~raced' => UNCHANGED memory]_allvars
  <2> SUFFICES ASSUME LockInv, [ServerNext]_allvars, NEW c \in Clients,
                      at[c] = "apply", at'[c] = "apply", ~raced'
               PROVE  UNCHANGED memory
    OBVIOUS
  <2>1. CASE Undefined \/ UNCHANGED allvars
    BY <2>1 DEF Undefined, Fail, allvars, vars, memory
  <2>2. ASSUME NEW d \in Clients, Accept(d) \/ Leave(d) \/ Ask(d) \/ Run(d) \/ Reply(d)
        PROVE  UNCHANGED memory
    BY <2>2, OthersRace
  <2>3. Undefined \/ UNCHANGED allvars
        \/ \E d \in Clients : Accept(d) \/ Leave(d) \/ Ask(d) \/ Run(d) \/ Reply(d)
    BY DEF ServerNext
  <2> QED
    BY <2>1, <2>2, <2>3
<1> QED
  BY <1>1, LockInit, LockStep, PTL DEF ServerSpec, UnderLock

(* The commands a client sends.                                            *)
OnData == {"SET", "DELETE", "GET"}
OnMappings == {"CREATE_MAPPING", "DELETE_MAPPING"}

LEMMA CommandIs ==
  ASSUME NEW command, IsCommand(command)
  PROVE  /\ command.name \in OnData \cup OnMappings => IsAddress(command.keys)
         /\ command.name = "SET" => IsDocument(command.value)
         /\ command.name = "CREATE_MAPPING" => command.pattern \in Place
<1>1. /\ command.name = "SET" => <<command.keys, command.value>> \in Client.set
      /\ command.name = "DELETE" => command.keys \in Client.del
      /\ command.name = "GET" => <<command.keys, {}, {}>> \in Client.get
      /\ command.name = "CREATE_MAPPING" => <<command.keys, command.pattern>> \in Client.map
      /\ command.name = "DELETE_MAPPING" => command.keys \in Client.unmap
  BY DEF IsCommand
<1>2. \A a, b : <<a, b>> \in Client.set => IsAddress(a) /\ IsDocument(b)
  BY ClientAssumption
<1>3. \A a, b, c : <<a, b, c>> \in Client.get => IsAddress(a)
  BY ClientAssumption
<1>4. \A a, b : <<a, b>> \in Client.map => IsAddress(a) /\ b \in Place
  BY ClientAssumption
<1>5. \A a \in Client.del \cup Client.unmap : IsAddress(a)
  BY ClientAssumption
<1> QED
  BY <1>1, <1>2, <1>3, <1>4, <1>5 DEF OnData, OnMappings

(* What a command does alone, to a sound database.                         *)
LEMMA LedSound ==
  ASSUME NEW m, IsSound(m), NEW command, IsCommand(command),
         command.name \in OnData \cup OnMappings
  PROVE  IsTraversal(Led(m, command))
<1> DEFINE create == command.name = "SET"
           t == TraverseTo(m, command.keys, create)
<1>1. IsTraversal(t)
  <2>1. IsAddress(command.keys)
    BY CommandIs
  <2> HIDE DEF create
  <2> QED
    BY <2>1, TraversalSound
<1>2. Led(m, command) = [t EXCEPT !.stop = FALSE]
  BY DEF Led
<1> HIDE DEF t
<1>3. Led(m, command) = [m |-> t.m, frames |-> t.frames, stop |-> FALSE]
  BY <1>1, <1>2 DEF IsTraversal
<1> QED
  BY <1>1, <1>3, TraversalIs DEF IsTraversal

LEMMA AloneSound ==
  ASSUME NEW m, IsSound(m), NEW command, IsCommand(command),
         command.name \in OnData \cup OnMappings
  PROVE  IsSound(Alone(m, command).m)
<1> DEFINE t == Led(m, command)
<1>1. IsTraversal(t)
  BY LedSound
<1> HIDE DEF t
<1>2. CASE command.name = "SET"
  <2>1. Alone(m, command).m = SetResult(t, command.value).m
    BY <1>2 DEF Alone, Performed, Replying, t
  <2> QED
    BY <1>1, <1>2, <2>1, CommandIs, SetSound
<1>3. CASE command.name = "DELETE"
  <2>1. Alone(m, command).m = DelResult(t).m
    BY <1>3 DEF Alone, Performed, Replying, t
  <2> QED
    BY <1>1, <2>1, DelSound
<1>4. CASE command.name = "GET"
  <2>1. Alone(m, command).m = t.m \/ Alone(m, command).m = Faulted(t.m, "throw")
    BY <1>4 DEF Alone, Performed, Copied, t
  <2> QED
    BY <1>1, <2>1, FaultedSound DEF IsTraversal, IsSound
<1>5. CASE command.name = "CREATE_MAPPING"
  <2>1. Alone(m, command).m = CreateMapping(t, command.pattern).m
    BY <1>5 DEF Alone, Replying, t
  <2> QED
    BY <1>1, <1>5, <2>1, CommandIs, MappingCreated
<1>6. CASE command.name = "DELETE_MAPPING"
  <2>1. Alone(m, command).m = DeleteMapping(t).m
    BY <1>6 DEF Alone, Replying, t
  <2> QED
    BY <1>1, <2>1, MappingDeleted
<1> QED
  BY <1>2, <1>3, <1>4, <1>5, <1>6 DEF OnData, OnMappings

-----------------------------------------------------------------------------
(* Every thread that was sent a command has one.                           *)
Asked == Places \ {"away", "idle"}
AskedInv ==
  /\ at \in [Clients -> Places] /\ sent \in [Clients -> Nat]
  /\ DOMAIN doing = Clients /\ DOMAIN frames = Clients /\ DOMAIN seen = Clients
  /\ \A c \in Clients : at[c] \in Asked => IsCommand(doing[c])

LEMMA AskedInit == ServerInit => AskedInv
BY DEF ServerInit, AskedInv, Asked, Places

(* A step that asks no command.                                            *)
Asks(c) ==
  /\ UNCHANGED <<sent, doing>> /\ DOMAIN frames' = DOMAIN frames /\ DOMAIN seen' = DOMAIN seen
  /\ at' = at \/ \E place \in Places : GoTo(c, place) /\ (place \in Asked => at[c] \in Asked)

LEMMA AsksNothing ==
  ASSUME AskedInv, NEW c \in Clients,
         \/ Accept(c) \/ Leave(c) \/ LogBegin(c) \/ LogEnd(c) \/ Traverse(c) \/ Apply(c)
         \/ MapNodes(c) \/ MapAppend(c) \/ MapFill(c) \/ UnmapErase(c) \/ UnmapForget(c)
         \/ ListMappings(c)
  PROVE  Asks(c)
<1> USE DEF Asks, In, Fail, Places, Asked, found
<1>1. CASE Accept(c)
  BY <1>1 DEF Accept
<1>2. CASE Leave(c)
  BY <1>2 DEF Leave
<1>3. CASE LogBegin(c)
  BY <1>3 DEF LogBegin
<1>4. CASE LogEnd(c)
  BY <1>4 DEF LogEnd
<1>5. CASE Traverse(c)
  BY <1>5 DEF Traverse
<1>6. CASE Apply(c)
  BY <1>6 DEF Apply, Back
<1>7. CASE MapNodes(c)
  BY <1>7 DEF MapNodes
<1>8. CASE MapAppend(c)
  BY <1>8 DEF MapAppend
<1>9. CASE MapFill(c)
  BY <1>9 DEF MapFill, Back
<1>10. CASE UnmapErase(c)
  BY <1>10 DEF UnmapErase
<1>11. CASE UnmapForget(c)
  BY <1>11 DEF UnmapForget, Back
<1>12. CASE ListMappings(c)
  BY <1>12 DEF ListMappings
<1> QED
  BY <1>1, <1>2, <1>3, <1>4, <1>5, <1>6, <1>7, <1>8, <1>9, <1>10, <1>11, <1>12

LEMMA AskedStep == AskedInv /\ [ServerNext]_allvars => AskedInv'
<1> SUFFICES ASSUME AskedInv, [ServerNext]_allvars PROVE AskedInv'
  OBVIOUS
<1>1. ASSUME NEW c \in Clients, Asks(c) PROVE AskedInv'
  BY <1>1 DEF Asks, GoTo, AskedInv
<1>2. ASSUME NEW c \in Clients, Ask(c) PROVE AskedInv'
  <2>1. PICK command \in Sends[c][sent[c] + 1] : doing' = [doing EXCEPT ![c] = command]
    BY <1>2 DEF Ask
  <2>2. /\ sent[c] < Len(Sends[c]) /\ at' = [at EXCEPT ![c] = "asked"]
        /\ sent' = [sent EXCEPT ![c] = @ + 1] /\ UNCHANGED found
    BY <1>2 DEF Ask, GoTo
  <2>3. sent[c] \in Nat /\ Len(Sends[c]) \in Nat
    BY ServerAssumption DEF AskedInv, Clients
  <2>4. sent[c] + 1 \in 1 .. Len(Sends[c])
    BY <2>2, <2>3
  <2>5. IsCommand(command)
    BY <2>4, ServerAssumption DEF Clients
  <2> QED
    BY <2>1, <2>2, <2>3, <2>5 DEF AskedInv, Asked, Places, found
<1>3. ASSUME NEW c \in Clients, Reply(c) PROVE AskedInv'
  <2>1. /\ at' = [at EXCEPT ![c] = "idle"] /\ doing' = [doing EXCEPT ![c] = Idle]
        /\ UNCHANGED <<sent, frames, seen>>
    BY <1>3 DEF Reply, GoTo, found
  <2> QED
    BY <2>1 DEF AskedInv, Asked, Places
<1>4. CASE Undefined \/ UNCHANGED allvars
  <2>1. UNCHANGED <<at, sent, doing, frames, seen>>
    BY <1>4 DEF Undefined, allvars, found
  <2> QED
    BY <2>1 DEF AskedInv
<1> QED
  BY <1>1, <1>2, <1>3, <1>4, AsksNothing DEF ServerNext, Run

-----------------------------------------------------------------------------
(* Where a command is: what it has made so far of the machine m that it    *)
(* found, with the frames fr and the index nodes sn its thread remembers.  *)
Known(m, loc, pattern) == \E g \in ToSet(m.mappings) : g.loc = loc /\ g.pattern = pattern
WithMapping(m, loc, pattern) ==
  [m EXCEPT !.nodes = @ \cup Prefixes(loc),
            !.mappings = Append(@, [loc |-> loc, pattern |-> pattern, node |-> "live"])]
Subtree(m, loc) == {n \in m.nodes : IsPrefix(loc, n)}
Erased(m, loc) ==
  Remade(m, m.nodes \ Subtree(m, loc),
         [n \in DOMAIN m.mappers \ Subtree(m, loc) |-> m.mappers[n]],
         Dangling(m.mappings, Subtree(m, loc)))

Maps(t, command) ==
  /\ command.name = "CREATE_MAPPING" /\ IsValid(Location(t.frames))
  /\ ~Known(t.m, Location(t.frames), command.pattern)
Unmaps(t, command) ==
  /\ command.name = "DELETE_MAPPING" /\ IsValid(Location(t.frames))
  /\ Location(t.frames) \in t.m.nodes

ReachedFrom(t, place, command, m, fr, sn) ==
  /\ t.m.fault = "none" /\ fr = t.frames
  /\ \/ place = "apply" /\ command.name \in OnData /\ m = t.m /\ sn = t.m.nodes
     \/ place = "append" /\ Maps(t, command) /\ m = NodesTo(t.m, Location(t.frames))
     \/ /\ place = "fill" /\ Maps(t, command)
        /\ m = WithMapping(t.m, Location(t.frames), command.pattern)
     \/ place = "forget" /\ Unmaps(t, command) /\ m = Erased(t.m, Location(t.frames))

(* The thread of c is there, in a command that found the machine m.        *)
Reached(c, m) == ReachedFrom(Led(m, doing[c]), at[c], doing[c], Now, frames[c], seen[c])

(* As long as there is no race: one thread at most is between two steps of *)
(* a command, which found a sound machine and has made of it what it would *)
(* have made alone.                                                        *)
Together ==
  /\ AtRest => IsSound(Now)
  /\ ~AtRest => IsSound(before) /\ before.fault = "none"
  /\ \A c, d \in Clients : at[c] \in Inside /\ at[d] \in Inside => c = d
  /\ \A c \in Clients : at[c] \in Inside => Reached(c, before)
TogetherInv == ~raced /\ status = "up" => Together

(* What the steps of a thread are to its command: *)
OnDatabase == OnData \cup OnMappings
(* it fails, *)
Fails(c) ==
  /\ status' = "failed" /\ UNCHANGED <<memory, at, reply>>
  /\ at[c] \in Inside \cup {"ready"} /\ Alone(Began, doing[c]).m.fault # "none"
(* goes inside, *)
Begins(c) ==
  /\ AtRest /\ UNCHANGED <<status, reply, doing>>
  /\ \E place \in Inside : GoTo(c, place)
  /\ ReachedFrom(Led(Now, doing[c]), at'[c], doing[c], Now', frames'[c], seen'[c])
(* goes on, *)
Goes(c) ==
  /\ at[c] \in Inside /\ UNCHANGED <<status, reply, doing>>
  /\ \E place \in Inside : GoTo(c, place)
  /\ ReachedFrom(Led(before, doing[c]), at'[c], doing[c], Now', frames'[c], seen'[c])
(* comes to its end, *)
Ends(c) ==
  /\ at[c] \in Inside \/ (AtRest /\ at[c] = "ready")
  /\ GoTo(c, "reply") /\ status' = status
  /\ doing[c].name \in OnDatabase
  /\ LET alone == Alone(Began, doing[c])
     IN /\ alone.m.fault # "throw"
        /\ Now' = [alone.m EXCEPT !.fault = "none"] /\ reply' = alone.answer
(* or is none of the database's.                                           *)
Apart(c) ==
  /\ at[c] \notin Inside /\ UNCHANGED <<memory, reply, found>> /\ status' # "failed"
  /\ \A d \in Clients \ {c} : doing'[d] = doing[d]
  /\ \/ at' = at
     \/ \E place \in Places \ (Inside \cup {"reply"}) : GoTo(c, place)
     \/ /\ GoTo(c, "reply") /\ at[c] = "ready"
        /\ doing[c].name = "GET_MAPPINGS"

LEMMA MachineOfNow == IsMachine(Now) /\ Now.fault = "none"
BY DEF IsMachine, Now, Machine

(* The database as it was when the command inside began, or as it is.      *)
LEMMA BeganSound ==
  ASSUME Together
  PROVE  IsSound(Began) /\ Began.fault = "none"
BY MachineOfNow DEF Together, Began

LEMMA Unfaulted ==
  ASSUME NEW m, IsMachine(m)
  PROVE  /\ Formed(m) => IsSound([m EXCEPT !.fault = "none"])
         /\ m.fault = "none" => [m EXCEPT !.fault = "none"] = m
<1> DEFINE g == [m EXCEPT !.fault = "none"]
<1>1. /\ IsMachine(g) /\ SameBut(g, m) /\ g.fault = "none"
  BY MachineWith DEF SameBut
<1>2. Formed(g) <=> Formed(m)
  BY <1>1, FormedParts
<1>3. m.fault = "none" => g = m
  BY <1>1 DEF IsMachine, SameBut
<1> QED
  BY <1>1, <1>2, <1>3 DEF IsSound

LEMMA EndsTogether ==
  ASSUME AskedInv, Together, Remember, status = "up", NEW c \in Clients, Ends(c)
  PROVE  Together' /\ OneCommand
<1> DEFINE alone == Alone(Began, doing[c])
<1>1. /\ alone.m.fault # "throw" /\ Now' = [alone.m EXCEPT !.fault = "none"]
      /\ reply' = alone.answer /\ status' = "up"
      /\ at' = [at EXCEPT ![c] = "reply"]
  BY DEF Ends, GoTo
<1>2. AtRest'
  <2>1. \A d \in Clients \ {c} : at[d] \notin Inside
    BY DEF Ends, Together, AtRest
  <2> QED
    BY <1>1, <2>1 DEF AtRest, AskedInv, Inside, Mapping
<1>3. Began' = Now'
  BY <1>2 DEF Began
<1>4. IsSound(Now)'
  <2>1. IsCommand(doing[c])
    BY DEF Ends, AskedInv, Asked, Places, Inside, Mapping, AtRest
  <2>2. IsSound(alone.m)
    BY <2>1, BeganSound, AloneSound DEF Ends, OnDatabase
  <2> HIDE DEF alone
  <2> QED
    BY <1>1, <2>2, Unfaulted DEF IsSound
<1>5. Together'
  BY <1>2, <1>4 DEF Together, AtRest
<1>6. ASSUME NEW d \in Clients, Finishes(d) PROVE d = c
  BY <1>1, <1>6 DEF Finishes, AskedInv
<1>7. Finishes(c)
  BY <1>1 DEF Finishes, Ends, AskedInv, Inside, Mapping
<1> QED
  BY <1>1, <1>3, <1>5, <1>6, <1>7 DEF OneCommand

LEMMA EntersTogether ==
  ASSUME AskedInv, Together, Remember, status = "up", NEW c \in Clients, Begins(c) \/ Goes(c)
  PROVE  Together' /\ OneCommand
<1>1. PICK place \in Inside : at' = [at EXCEPT ![c] = place]
  BY DEF Begins, Goes, GoTo
<1>2. /\ UNCHANGED <<status, reply, doing>> /\ at'[c] = place
      /\ \A d \in Clients \ {c} : at'[d] = at[d] /\ at[d] \notin Inside
  BY <1>1 DEF Begins, Goes, AskedInv, Together, AtRest
<1>3. ~AtRest' /\ \A d \in Clients : at'[d] \in Inside => d = c
  BY <1>1, <1>2 DEF AtRest
<1>4. AtRest <=> Begins(c)
  BY DEF Begins, Goes, AtRest
<1>5. before' = IF AtRest THEN Now ELSE before
  BY <1>3 DEF Remember
<1>6. Began' = Began
  BY <1>3, <1>5 DEF Began
<1>7. IsSound(before') /\ before'.fault = "none"
  BY <1>5, MachineOfNow DEF Together
<1>8. Reached(c, before)'
  BY <1>2, <1>4, <1>5 DEF Begins, Goes, Reached
<1>9. Together'
  BY <1>3, <1>7, <1>8 DEF Together
<1>10. \A d \in Clients : ~Finishes(d)
  BY <1>2 DEF Finishes, Inside, Mapping
<1> QED
  BY <1>2, <1>6, <1>9, <1>10 DEF OneCommand

LEMMA FailsAlone ==
  ASSUME AskedInv, Together, Remember, status = "up", NEW c \in Clients, Fails(c)
  PROVE  OneCommand
<1>1. Now' = Now /\ AtRest' = AtRest
  BY DEF Fails, Now, memory, AtRest
<1>2. Began' = Began
  BY <1>1 DEF Began, Remember
<1> QED
  BY <1>2 DEF OneCommand, Fails, Finishes

LEMMA ApartTogether ==
  ASSUME AskedInv, Together, Remember, status = "up", NEW c \in Clients, Apart(c)
  PROVE  (status' = "up" => Together') /\ OneCommand
<1>1. /\ Now' = Now /\ UNCHANGED <<frames, seen, reply>> /\ status' # "failed"
  BY DEF Apart, Now, memory, found
<1>2. /\ \A d \in Clients \ {c} : at'[d] = at[d] /\ doing'[d] = doing[d]
      /\ at[c] \notin Inside /\ at'[c] \notin Inside
  BY DEF Apart, GoTo, AskedInv, Inside, Mapping
<1>3. AtRest' = AtRest
  BY <1>2 DEF AtRest
<1>4. /\ Began' = Began /\ (~AtRest => before' = before)
  BY <1>1, <1>3 DEF Began, Remember
<1>5. Together'
  <2>1. AtRest' => IsSound(Now)'
    BY <1>1, <1>3 DEF Together
  <2>2. ~AtRest' => IsSound(before)' /\ before'.fault = "none"
    BY <1>3, <1>4 DEF Together
  <2>3. ASSUME NEW d \in Clients, at'[d] \in Inside PROVE Reached(d, before)'
    <3>1. d # c /\ at[d] \in Inside
      BY <1>2, <2>3
    <3>2. ~AtRest /\ Reached(d, before)
      BY <3>1 DEF Together, AtRest
    <3> QED
      BY <1>1, <1>2, <1>4, <3>1, <3>2 DEF Reached
  <2>4. \A d, e \in Clients : at'[d] \in Inside /\ at'[e] \in Inside => d = e
    BY <1>2 DEF Together
  <2> QED
    BY <2>1, <2>2, <2>3, <2>4 DEF Together
<1>6. ASSUME NEW d \in Clients, Finishes(d) PROVE d = c /\ doing[d].name = "GET_MAPPINGS"
  BY <1>2, <1>6 DEF Finishes, Apart, GoTo, AskedInv
<1>7. ASSUME NEW d \in Clients, Finishes(d)
      PROVE  LET alone == Alone(Began, doing[d])
             IN /\ alone.m.fault # "throw"
                /\ Began' = [alone.m EXCEPT !.fault = "none"] /\ reply' = alone.answer
  <2>1. Alone(Began, doing[d]) = [m |-> Began, answer |-> reply]
    BY <1>6, <1>7 DEF Alone
  <2>2. IsMachine(Began) /\ Began.fault = "none"
    BY BeganSound DEF IsSound
  <2>3. [Began EXCEPT !.fault = "none"] = Began
    BY <2>2, Unfaulted
  <2> QED
    BY <1>1, <1>4, <2>1, <2>2, <2>3
<1> QED
  BY <1>1, <1>4, <1>5, <1>7 DEF OneCommand

LEMMA AloneFaulted ==
  ASSUME NEW m, IsSound(m), NEW command, IsCommand(command), command.name \in OnDatabase,
         Led(m, command).m.fault # "none"
  PROVE  Alone(m, command).m.fault # "none"
<1> DEFINE t == Led(m, command)
<1>1. IsTraversal(t)
  BY LedSound DEF OnDatabase
<1>2. t.m.fault # "none" /\ IsMachine(t.m)
  BY <1>1 DEF IsTraversal, IsSound
<1>3. Faulted(t.m, "throw").fault # "none"
  BY <1>2, MachineWith DEF Faulted
<1> HIDE DEF t
<1>4. CASE command.name = "SET"
  <2>1. Alone(m, command).m = SetResult(t, command.value).m
    BY <1>4 DEF Alone, Performed, Replying, t
  <2> QED
    BY <1>2, <2>1 DEF SetResult, Refused
<1>5. CASE command.name = "DELETE"
  <2>1. Alone(m, command).m = DelResult(t).m
    BY <1>5 DEF Alone, Performed, Replying, t
  <2>2. DelResult(t) = Refused(t.m)
    BY <1>2, Zenon DEF DelResult
  <2> QED
    BY <1>2, <2>1, <2>2 DEF Refused
<1>6. CASE command.name = "GET"
  <2>1. Alone(m, command).m = t.m \/ Alone(m, command).m = Faulted(t.m, "throw")
    BY <1>6 DEF Alone, Performed, Copied, t
  <2> QED
    BY <1>2, <1>3, <2>1
<1>7. CASE command.name = "CREATE_MAPPING"
  <2>1. Alone(m, command).m = CreateMapping(t, command.pattern).m
    BY <1>7 DEF Alone, Replying, t
  <2> QED
    BY <1>2, <2>1 DEF CreateMapping
<1>8. CASE command.name = "DELETE_MAPPING"
  <2>1. Alone(m, command).m = DeleteMapping(t).m
    BY <1>8 DEF Alone, Replying, t
  <2> QED
    BY <1>2, <2>1 DEF DeleteMapping
<1> QED
  BY <1>4, <1>5, <1>6, <1>7, <1>8 DEF OnDatabase, OnData, OnMappings

(* A machine without a fault that is held is what the variables make.      *)
LEMMA HeldNow ==
  ASSUME NEW m, IsMachine(m), m.fault = "none", Hold(m)
  PROVE  Now' = m
BY DEF Hold, Now, Machine, IsMachine

LEMMA CommandStarts ==
  ASSUME AskedInv, Together, AtRest, NEW c \in Clients, at[c] = "ready", doing[c].name \in OnDatabase
  PROVE  /\ IsSound(Now) /\ IsCommand(doing[c]) /\ IsTraversal(Led(Now, doing[c])) /\ Began = Now
         /\ Led(Now, doing[c]).m.fault # "none" => Alone(Now, doing[c]).m.fault # "none"
<1>1. IsSound(Now) /\ IsCommand(doing[c])
  BY DEF Together, AskedInv, Asked, Places
<1> QED
  BY <1>1, LedSound, AloneFaulted DEF Began, OnDatabase

LEMMA TraverseKind ==
  ASSUME AskedInv, LockInv, Together, status = "up", ~raced', NEW c \in Clients, Traverse(c)
  PROVE  Fails(c) \/ Begins(c)
<1> DEFINE t == Led(Now, doing[c])
<1>1. /\ at[c] = "ready" /\ doing[c].name \in OnData /\ owner = Nobody
      /\ \A d \in Clients \ {c} : at[d] \notin Mapping
      /\ IF t.m.fault # "none" THEN Fail("failed") /\ UNCHANGED <<at, found>>
         ELSE /\ Hold(t.m) /\ UNCHANGED status /\ GoTo(c, "apply")
              /\ frames' = [frames EXCEPT ![c] = t.frames]
              /\ seen' = [seen EXCEPT ![c] = t.m.nodes]
      /\ reply' = reply /\ doing' = doing
  BY DEF Traverse, In, Is, Lock, Free, Races, OnData
<1>2. AtRest
  BY <1>1, ServerAssumption DEF LockInv, AtRest, Inside, Clients, Mapping
<1>3. IsTraversal(t) /\ Began = Now /\ (t.m.fault # "none" => Alone(Now, doing[c]).m.fault # "none")
  BY <1>1, <1>2, CommandStarts DEF OnDatabase
<1> HIDE DEF t
<1>4. CASE t.m.fault # "none"
  BY <1>1, <1>3, <1>4 DEF Fails, Fail
<1>5. CASE t.m.fault = "none"
  <2>1. Now' = t.m
    BY <1>1, <1>3, <1>5, HeldNow DEF IsTraversal, IsSound
  <2>2. /\ at'[c] = "apply" /\ frames'[c] = t.frames /\ seen'[c] = t.m.nodes /\ "apply" \in Inside
    BY <1>1, <1>5 DEF GoTo, AskedInv, Inside
  <2>3. ReachedFrom(t, at'[c], doing[c], Now', frames'[c], seen'[c])
    BY <1>1, <1>5, <2>1, <2>2 DEF ReachedFrom
  <2> QED
    BY <1>1, <1>2, <1>5, <2>2, <2>3 DEF Begins, t
<1> QED
  BY <1>4, <1>5

(* The thread under the lock: its pointers are good.                       *)
LEMMA ApplyPointers ==
  ASSUME Together, AskedInv, NEW c \in Clients, at[c] = "apply"
  PROVE  LET t == Led(before, doing[c])
         IN /\ IsTraversal(t) /\ t.m = Now /\ doing[c].name \in OnData /\ IsCommand(doing[c])
            /\ Unseen(c) = {} /\ Traversed(c) = {t} /\ ~Stale(c) /\ ~NoMapper(c, t)
<1> DEFINE t == Led(before, doing[c])
<1>1. at[c] \in Inside /\ ~AtRest /\ at[c] \in Asked
  BY DEF Inside, AtRest, Asked, Places
<1>2. /\ frames[c] = t.frames /\ doing[c].name \in OnData /\ Now = t.m /\ seen[c] = t.m.nodes
  <2>1. Reached(c, before)
    BY <1>1 DEF Together
  <2> QED
    BY <2>1 DEF Reached, ReachedFrom
<1>3. IsCommand(doing[c]) /\ IsSound(before)
  BY <1>1 DEF AskedInv, Together
<1>4. IsTraversal(t)
  BY <1>2, <1>3, LedSound
<1>5. t = [m |-> t.m, frames |-> t.frames, stop |-> FALSE]
  BY <1>4 DEF Led, IsTraversal
<1> HIDE DEF t
<1>6. Now.nodes = nodes /\ Now.db = db /\ Now.mappers = mappers /\ Now.mappings = mappings
  BY DEF Now, Machine
<1>7. Unseen(c) = {}
  BY <1>2, <1>6 DEF Unseen
<1>8. IsSound(Now)
  BY <1>2, <1>4 DEF IsTraversal
<1>9. mappers = [n \in DOMAIN mappers |-> mappers[n]] /\ nodes \ {} = nodes /\ DOMAIN mappers \ {} = DOMAIN mappers
  BY <1>6, <1>8 DEF IsSound, Formed
<1>10. Traversed(c) = {t}
  <2>1. Traversed(c) = {[m |-> Machine(db, nodes \ {}, [n \in DOMAIN mappers \ {} |-> mappers[n]], mappings),
                         frames |-> frames[c], stop |-> FALSE]}
    BY <1>7 DEF Traversed
  <2>2. Machine(db, nodes \ {}, [n \in DOMAIN mappers \ {} |-> mappers[n]], mappings) = Now
    BY <1>9 DEF Now
  <2> QED
    BY <1>2, <1>5, <2>1, <2>2
<1>11. ~Stale(c)
  <2>1. t.frames \in Seq(FrameOf(db))
    BY <1>2, <1>4, <1>6 DEF IsTraversal
  <2>2. \A i \in DOMAIN t.frames : t.frames[i].obj \in DOMAIN db \cup {NoObj}
    <3>1. \A i \in DOMAIN t.frames : t.frames[i] \in FrameOf(db)
      BY <2>1
    <3> QED
      BY <3>1 DEF FrameOf
  <2> QED
    BY <1>2, <2>2 DEF Stale
<1>12. ~NoMapper(c, t)
  BY <1>6, <1>8 DEF NoMapper, IsSound, Formed
<1> QED
  BY <1>2, <1>3, <1>4, <1>7, <1>10, <1>11, <1>12 DEF t

LEMMA NoneUnseen ==
  ASSUME NEW c \in Clients, Unseen(c) = {}, NEW m, IsSound(m)
  PROVE  SameBut(WithUnseen(c, m), m)
<1> DEFINE y == m.nodes \cup Unseen(c)
           x == [n \in DOMAIN m.mappers \cup (DOMAIN mappers \cap Unseen(c)) |->
                   IF n \in DOMAIN m.mappers THEN m.mappers[n] ELSE mappers[n]]
           h == [m EXCEPT !.nodes = y]
<1>1. WithUnseen(c, m) = [h EXCEPT !.mappers = x]
  BY DEF WithUnseen, IsSound, IsMachine
<1>2. y = m.nodes /\ x = m.mappers
  BY DEF IsSound, Formed
<1> HIDE DEF x, y
<1>3. IsMachine(h) /\ SameBut(h, m)
  BY <1>2, MachineWith DEF IsSound, SameBut
<1> HIDE DEF h
<1> QED
  BY <1>1, <1>2, <1>3, MachineWith DEF SameBut

LEMMA ApplyKind ==
  ASSUME AskedInv, Together, status = "up", ~raced', NEW c \in Clients, Apply(c)
  PROVE  Fails(c) \/ Ends(c)
<1> DEFINE t == Led(before, doing[c])
           res == Performed(doing[c], t)
           g == WithUnseen(c, res.m)
<1>1. at[c] = "apply" /\ doing' = doing
  BY DEF Apply, In
<1>2. /\ IsTraversal(t) /\ t.m = Now /\ doing[c].name \in OnData /\ IsCommand(doing[c])
      /\ Unseen(c) = {} /\ Traversed(c) = {t} /\ ~Stale(c) /\ ~NoMapper(c, t)
  BY <1>1, ApplyPointers
<1>3. \/ res.m.fault # "none" /\ Fail("failed") /\ UNCHANGED <<at, found, reply>>
      \/ /\ res.m.fault # "throw" /\ Hold(g)
         /\ reply' = res.answer /\ UNCHANGED status /\ Back(c, "reply")
  BY <1>2 DEF Apply
<1>4. at[c] \in Inside /\ ~AtRest
  BY <1>1 DEF Inside, AtRest
<1>5. Alone(before, doing[c]) = res /\ Began = before /\ IsSound(before)
  BY <1>2, <1>4 DEF Alone, Began, OnData, Together
<1>6. IsSound(res.m)
  BY <1>2, <1>5, AloneSound
<1> HIDE DEF t, res
<1>7. CASE res.m.fault # "none" /\ Fail("failed") /\ UNCHANGED <<at, found, reply>>
  BY <1>4, <1>5, <1>7 DEF Fails, Fail
<1>8. CASE /\ res.m.fault # "throw" /\ Hold(g)
           /\ reply' = res.answer /\ UNCHANGED status /\ Back(c, "reply")
  <2>1. SameBut(g, res.m)
    BY <1>2, <1>6, NoneUnseen
  <2> HIDE DEF g
  <2>5. Now' = [res.m EXCEPT !.fault = "none"]
    <3> DEFINE h == [res.m EXCEPT !.fault = "none"]
    <3>1. IsMachine(h) /\ SameBut(h, res.m) /\ h.fault = "none"
      BY <1>6, MachineWith DEF IsSound, SameBut
    <3> HIDE DEF h
    <3>2. Hold(h)
      BY <1>8, <2>1, <3>1 DEF Hold, SameBut
    <3> QED
      BY <3>1, <3>2, HeldNow DEF h
  <2> QED
    BY <1>2, <1>4, <1>5, <1>8, <2>5 DEF Ends, Back, OnDatabase
<1> QED
  BY <1>3, <1>7, <1>8

LEMMA MappingMade ==
  ASSUME NEW m, IsSound(m), NEW loc, NEW pattern, NEW g, g = WithMapping(m, loc, pattern)
  PROVE  /\ IsMachine(g) /\ g.db = m.db /\ g.nodes = m.nodes \cup Prefixes(loc)
         /\ g.mappers = m.mappers /\ g.fault = m.fault
         /\ g.mappings = Append(m.mappings, [loc |-> loc, pattern |-> pattern, node |-> "live"])
<1> DEFINE N == m.nodes \cup Prefixes(loc)
           y == Append(m.mappings, [loc |-> loc, pattern |-> pattern, node |-> "live"])
<1>1. [m EXCEPT !.nodes = N, !.mappings = y] = Remade(m, N, m.mappers, y)
  <2> HIDE DEF N, y
  <2>1. m = [db |-> m.db, nodes |-> m.nodes, mappers |-> m.mappers, mappings |-> m.mappings,
             fault |-> m.fault]
    BY DEF IsSound, IsMachine
  <2> DEFINE mp == m.mappers
  <2> QED BY <2>1 DEF Remade
<1>2. WithMapping(m, loc, pattern) = [m EXCEPT !.nodes = N, !.mappings = y]
  BY DEF WithMapping
<1> HIDE DEF N, y
<1>3. g = Remade(m, N, m.mappers, y) /\ IsMachine(m)
  BY <1>1, <1>2 DEF IsSound
<1>4. /\ IsMachine(g) /\ g.db = m.db /\ g.nodes = N /\ g.mappers = m.mappers
      /\ g.mappings = y /\ g.fault = m.fault
  BY <1>3, MachineRemade
<1> QED
  BY <1>4 DEF N, y

(* What the two commands on mappings come to, alone.                       *)
LEMMA CreatedAlone ==
  ASSUME NEW m, NEW command, command.name = "CREATE_MAPPING"
  PROVE  LET t   == Led(m, command)
             loc == Location(t.frames)
             m1  == WithMapping(t.m, loc, command.pattern)
         IN /\ t.m.fault = "none" /\ ~Maps(t, command) =>
                 Alone(m, command) = [m |-> t.m, answer |-> Answer(FALSE)]
            /\ t.m.fault = "none" /\ Maps(t, command) =>
                 Alone(m, command) =
                   IF loc \in DOMAIN m1.mappers
                   THEN [m |-> UpdateStarThing(m1, loc, command.pattern), answer |-> Answer(FALSE)]
                   ELSE [m |-> SetMapper(m1, loc, EmptyMapper), answer |-> Answer(TRUE)]
<1> DEFINE t   == Led(m, command)
           loc == Location(t.frames)
           m1  == WithMapping(t.m, loc, command.pattern)
           res == CreateMapping(t, command.pattern)
<1>1. Alone(m, command) = [m |-> res.m, answer |-> Answer(res.wrote)]
  BY DEF Alone, Replying
<1>2. res = IF t.m.fault # "none" \/ Known(t.m, loc, command.pattern) \/ ~IsValid(loc)
            THEN [m |-> t.m, wrote |-> FALSE]
            ELSE IF loc \in DOMAIN m1.mappers
                 THEN [m |-> UpdateStarThing(m1, loc, command.pattern), wrote |-> FALSE]
                 ELSE [m |-> SetMapper(m1, loc, EmptyMapper), wrote |-> TRUE]
  BY DEF CreateMapping, Known, WithMapping
<1>3. Maps(t, command) <=> IsValid(loc) /\ ~Known(t.m, loc, command.pattern)
  BY DEF Maps
<1> HIDE DEF res, m1, t
<1> QED
  BY <1>1, <1>2, <1>3 DEF m1, t

LEMMA MapNodesKind ==
  ASSUME AskedInv, Together, status = "up", ~raced', NEW c \in Clients, MapNodes(c)
  PROVE  Fails(c) \/ Ends(c) \/ Begins(c)
<1> DEFINE t == Led(Now, doing[c])
           loc == Location(t.frames)
           known == Known(t.m, loc, doing[c].pattern)
<1>1. /\ at[c] = "ready" /\ doing[c].name = "CREATE_MAPPING"
      /\ \A d \in Clients \ {c} : at[d] \notin Inside
      /\ doing' = doing
  BY DEF MapNodes, In, Is, Races
<1>0. IF t.m.fault # "none" THEN Fail("failed") /\ UNCHANGED <<at, frames, reply>>
      ELSE IF known \/ ~IsValid(loc)
      THEN /\ Hold(t.m) /\ UNCHANGED <<status, frames>>
           /\ GoTo(c, "reply") /\ reply' = Answer(FALSE)
      ELSE /\ Hold(NodesTo(t.m, loc)) /\ UNCHANGED <<status, reply>>
           /\ GoTo(c, "append") /\ frames' = [frames EXCEPT ![c] = t.frames]
  BY DEF MapNodes, Known, NodesTo
<1>2. AtRest
  BY <1>1 DEF AtRest, Inside, Mapping
<1>3. /\ IsTraversal(t) /\ Began = Now
      /\ t.m.fault # "none" => Alone(Now, doing[c]).m.fault # "none"
  BY <1>1, <1>2, CommandStarts DEF OnDatabase, OnMappings
<1>4. /\ loc \in Path /\ IsSound(t.m)
      /\ Maps(t, doing[c]) <=> IsValid(loc) /\ ~known
      /\ t.m.fault = "none" /\ ~Maps(t, doing[c]) =>
           Alone(Now, doing[c]) = [m |-> t.m, answer |-> Answer(FALSE)]
  BY <1>1, <1>3, LocationIs, CreatedAlone DEF IsTraversal, Maps
<1> HIDE DEF t, loc, known
<1>5. CASE t.m.fault # "none"
  BY <1>0, <1>1, <1>3, <1>5 DEF Fails, Fail
<1>6. CASE t.m.fault = "none" /\ ~Maps(t, doing[c])
  <2>1. /\ Hold(t.m) /\ UNCHANGED status /\ GoTo(c, "reply") /\ reply' = Answer(FALSE)
    BY <1>0, <1>4, <1>6
  <2>2. Now' = t.m /\ t.m = [t.m EXCEPT !.fault = "none"]
    BY <1>4, <1>6, <2>1, HeldNow, Unfaulted DEF IsSound
  <2>3. Alone(Began, doing[c]) = [m |-> t.m, answer |-> Answer(FALSE)]
    BY <1>3, <1>4, <1>6
  <2>4. doing[c].name \in OnDatabase
    BY <1>1 DEF OnDatabase, OnMappings
  <2> QED
    BY <1>1, <1>2, <1>6, <2>1, <2>2, <2>3, <2>4 DEF Ends
<1>7. CASE t.m.fault = "none" /\ Maps(t, doing[c])
  <2>1. /\ Hold(NodesTo(t.m, loc)) /\ UNCHANGED <<status, reply>>
        /\ GoTo(c, "append") /\ frames' = [frames EXCEPT ![c] = t.frames]
    BY <1>0, <1>4, <1>7
  <2>2. IsMachine(NodesTo(t.m, loc)) /\ NodesTo(t.m, loc).fault = "none"
    BY <1>4, <1>7, MachineWith DEF NodesTo, IsSound
  <2>3. Now' = NodesTo(t.m, loc)
    BY <2>1, <2>2, HeldNow
  <2>4. /\ at'[c] = "append" /\ frames'[c] = t.frames /\ "append" \in Inside
    BY <2>1 DEF GoTo, AskedInv, Inside, Mapping
  <2>5. ReachedFrom(t, at'[c], doing[c], Now', frames'[c], seen'[c])
    BY <1>7, <2>3, <2>4 DEF ReachedFrom, loc
  <2> QED
    BY <1>1, <1>2, <2>1, <2>4, <2>5 DEF Begins, t
<1> QED
  BY <1>5, <1>6, <1>7

(* A thread in the midst of a command on mappings.                         *)
LEMMA InMidst ==
  ASSUME AskedInv, Together, NEW c \in Clients, at[c] \in Mapping
  PROVE  LET t == Led(before, doing[c])
         IN /\ IsTraversal(t) /\ t.m.fault = "none" /\ frames[c] = t.frames
            /\ IsSound(t.m) /\ Location(t.frames) \in Path
            /\ IsCommand(doing[c]) /\ Began = before
            /\ at[c] \in {"append", "fill"} => Maps(t, doing[c])
            /\ at[c] = "append" => Now = NodesTo(t.m, Location(t.frames))
            /\ at[c] = "fill" => Now = WithMapping(t.m, Location(t.frames), doing[c].pattern)
            /\ at[c] = "forget" => Unmaps(t, doing[c]) /\ Now = Erased(t.m, Location(t.frames))
<1> DEFINE t == Led(before, doing[c])
<1>1. at[c] \in Inside /\ ~AtRest /\ at[c] \in Asked
  BY DEF Inside, AtRest, Asked, Places, Mapping
<1>2. ReachedFrom(t, at[c], doing[c], Now, frames[c], seen[c])
  BY <1>1 DEF Together, Reached
<1>3. IsCommand(doing[c]) /\ IsSound(before) /\ Began = before
  BY <1>1 DEF AskedInv, Together, Began
<1>4. at[c] # "apply"
  BY DEF Mapping
<1>5. doing[c].name \in OnMappings
  BY <1>2, <1>4 DEF ReachedFrom, Maps, Unmaps, OnMappings
<1>6. IsTraversal(t)
  BY <1>3, <1>5, LedSound
<1>7. IsSound(t.m) /\ Location(t.frames) \in Path
  BY <1>6, LocationIs DEF IsTraversal
<1> HIDE DEF t
<1> QED
  BY <1>2, <1>3, <1>6, <1>7 DEF ReachedFrom, t

LEMMA MapAppendKind ==
  ASSUME AskedInv, Together, status = "up", NEW c \in Clients, MapAppend(c)
  PROVE  Goes(c)
<1> DEFINE t == Led(before, doing[c])
           loc == Location(t.frames)
           g == WithMapping(t.m, loc, doing[c].pattern)
<1>1. /\ at[c] = "append" /\ GoTo(c, "fill") /\ UNCHANGED <<status, reply, doing, frames>>
      /\ UNCHANGED <<db, nodes, mappers>>
      /\ mappings' = Append(mappings, [loc |-> Location(frames[c]), pattern |-> doing[c].pattern,
                               node |-> IF Location(frames[c]) \in nodes THEN "live" ELSE "dangling"])
  BY DEF MapAppend, In, found
<1>2. /\ t.m.fault = "none" /\ frames[c] = t.frames /\ IsSound(t.m) /\ loc \in Path
      /\ Maps(t, doing[c]) /\ Now = NodesTo(t.m, loc)
  BY <1>1, InMidst DEF Mapping
<1>3. /\ IsMachine(g) /\ g.db = t.m.db /\ g.nodes = t.m.nodes \cup Prefixes(loc)
      /\ g.mappers = t.m.mappers /\ g.fault = t.m.fault
      /\ g.mappings = Append(t.m.mappings, [loc |-> loc, pattern |-> doing[c].pattern, node |-> "live"])
  BY <1>2, MappingMade
<1>4. /\ db = t.m.db /\ nodes = t.m.nodes \cup Prefixes(loc) /\ mappers = t.m.mappers
      /\ mappings = t.m.mappings
  <2>1. Now.db = db /\ Now.nodes = nodes /\ Now.mappers = mappers /\ Now.mappings = mappings
    BY DEF Now, Machine
  <2> HIDE DEF t, loc
  <2>2. /\ Now.db = t.m.db /\ Now.nodes = t.m.nodes \cup Prefixes(loc)
        /\ Now.mappers = t.m.mappers /\ Now.mappings = t.m.mappings
    BY <1>2, MachineWith DEF NodesTo, IsSound
  <2> QED
    BY <2>1, <2>2
<1>5. loc \in nodes
  BY <1>2, <1>4, PrefixTree
<1> HIDE DEF t, loc, g
<1>6. Now' = g
  <2>1. Hold(g)
    BY <1>1, <1>2, <1>3, <1>4, <1>5 DEF Hold, loc
  <2> QED
    BY <1>2, <1>3, <2>1, HeldNow
<1>7. at'[c] = "fill" /\ "fill" \in Inside /\ "append" \in Inside
  BY <1>1 DEF GoTo, AskedInv, Inside, Mapping
<1>8. ReachedFrom(t, at'[c], doing[c], Now', frames'[c], seen'[c])
  BY <1>1, <1>2, <1>6, <1>7 DEF ReachedFrom, loc, g
<1> QED
  BY <1>1, <1>7, <1>8 DEF Goes, t

LEMMA MapFillKind ==
  ASSUME AskedInv, Together, status = "up", NEW c \in Clients, MapFill(c)
  PROVE  Fails(c) \/ Ends(c)
<1> DEFINE t == Led(before, doing[c])
           loc == Location(t.frames)
           g == WithMapping(t.m, loc, doing[c].pattern)
           made == IF loc \notin nodes THEN Faulted(Now, "undefined")
                ELSE IF loc \in DOMAIN mappers THEN UpdateStarThing(Now, loc, doing[c].pattern)
                ELSE SetMapper(Now, loc, EmptyMapper)
           alone == Alone(before, doing[c])
<1>1. at[c] = "fill" /\ doing' = doing
  BY DEF MapFill, In
<1>2. /\ t.m.fault = "none" /\ frames[c] = t.frames /\ IsSound(t.m) /\ loc \in Path
      /\ Maps(t, doing[c]) /\ Now = g /\ Began = before /\ IsCommand(doing[c])
  BY <1>1, InMidst DEF Mapping
<1>3. IF made.fault # "none" THEN Fail("failed") /\ UNCHANGED <<at, found, reply>>
      ELSE /\ Hold(made) /\ UNCHANGED status /\ Back(c, "reply")
           /\ reply' = Answer(loc \notin DOMAIN mappers)
  BY <1>2 DEF MapFill
<1>4. /\ g.nodes = t.m.nodes \cup Prefixes(loc) /\ g.mappers = t.m.mappers
      /\ Now.nodes = nodes /\ Now.mappers = mappers
  <2>1. Now.nodes = nodes /\ Now.mappers = mappers
    BY DEF Now, Machine
  <2>2. IsSound(t.m)
    BY <1>2
  <2>4. /\ IsMachine(g) /\ g.db = t.m.db /\ g.nodes = t.m.nodes \cup Prefixes(loc)
        /\ g.mappers = t.m.mappers /\ g.fault = t.m.fault
        /\ g.mappings = Append(t.m.mappings, [loc |-> loc, pattern |-> doing[c].pattern, node |-> "live"])
    BY <2>2, MappingMade
  <2> QED
    BY <2>1, <2>4, <1>2
<1>5. loc \in nodes /\ loc \in Prefixes(loc)
  BY <1>2, <1>4, PrefixTree
<1>6. doing[c].name = "CREATE_MAPPING"
  BY <1>2 DEF Maps
<1>7. alone = [m |-> made, answer |-> Answer(loc \notin DOMAIN mappers)]
  <2>1. alone = IF loc \in DOMAIN g.mappers
                THEN [m |-> UpdateStarThing(g, loc, doing[c].pattern), answer |-> Answer(FALSE)]
                ELSE [m |-> SetMapper(g, loc, EmptyMapper), answer |-> Answer(TRUE)]
    BY <1>2, <1>6, CreatedAlone
  <2>2. g.mappers = mappers
    BY <1>2, <1>4
  <2> HIDE DEF alone, g, t, loc
  <2> QED
    BY <1>2, <1>5, <2>1, <2>2
<1>8. /\ at[c] \in Inside /\ ~AtRest
  BY <1>1 DEF Inside, AtRest, Mapping
<1>9. IsSound(before)
  BY <1>8 DEF Together
<1>10. IsMachine(made)
  <2>1. IsSound(alone.m)
    BY <1>2, <1>6, <1>9, AloneSound DEF OnMappings
  <2> HIDE DEF alone, made
  <2> QED
    BY <1>7, <2>1 DEF IsSound
<1> HIDE DEF t, made, alone, loc, g
<1>11. CASE made.fault # "none"
  BY <1>2, <1>3, <1>7, <1>8, <1>11 DEF Fails, Fail, alone
<1>12. CASE made.fault = "none"
  <2>1. Now' = made /\ [made EXCEPT !.fault = "none"] = made
    BY <1>3, <1>10, <1>12, HeldNow, Unfaulted
  <2>2. GoTo(c, "reply") /\ status' = status /\ reply' = Answer(loc \notin DOMAIN mappers)
    BY <1>3, <1>12 DEF Back
  <2>3. doing[c].name \in OnDatabase
    BY <1>6 DEF OnDatabase, OnMappings
  <2> QED
    BY <1>2, <1>7, <1>8, <1>12, <2>1, <2>2, <2>3 DEF Ends, alone
<1> QED
  BY <1>11, <1>12

(* The mappings but those at a place, as they come together. *)
KeptBut(list, loc, l, i) == IF list[i].loc = loc THEN l ELSE Append(l, list[i])

LEMMA MappingsRun ==
  ASSUME NEW list, Len(list) \in Nat, NEW loc
  PROVE  \E run : /\ MappingsBut(list, loc) = run[Len(list)] /\ run[0] = <<>>
                  /\ \A k \in 0 .. Len(list) - 1 : run[k + 1] = KeptBut(list, loc, run[k], k + 1)
<1> DEFINE Kept(l, i) == IF list[i].loc = loc THEN l ELSE Append(l, list[i])
           IsRun(g, k) == g = [j \in 0 .. k |-> IF j = 0 THEN <<>> ELSE Kept(g[j - 1], j)]
           last == Len(list)
           run == CHOOSE g : IsRun(g, last)
           S == {k \in Nat : \E g : IsRun(g, k)}
<1>1. last \in Nat
  OBVIOUS
<1>2. MappingsBut(list, loc) = run[last]
  BY DEF MappingsBut, Repeated
<1>3. \A l, i : Kept(l, i) = KeptBut(list, loc, l, i)
  BY DEF KeptBut
<1> HIDE DEF last, Kept
<1>4. last \in S
  <2>1. IsRun([j \in {0} |-> <<>>], 0)
    OBVIOUS
  <2>2. ASSUME NEW k \in Nat, k \in S PROVE k + 1 \in S
    <3>1. PICK g : IsRun(g, k)
      BY <2>2
    <3> DEFINE h == [j \in 0 .. k + 1 |-> IF j <= k THEN g[j] ELSE Kept(g[k], k + 1)]
    <3>2. IsRun(h, k + 1) /\ k + 1 \in Nat
      BY <3>1
    <3> HIDE DEF h
    <3> QED BY <3>2
  <2>3. 0 \in S
    BY <2>1
  <2> HIDE DEF S
  <2> QED BY <1>1, <2>2, <2>3, InductionOn
<1>5. IsRun(run, last)
  BY <1>4
<1> HIDE DEF run, S
<1>6. run[0] = <<>> /\ \A k \in 0 .. last - 1 : run[k + 1] = Kept(run[k], k + 1)
  BY <1>1, <1>5
<1> QED
  BY <1>2, <1>3, <1>6 DEF last

(* A mapping that may dangle. *)
Dangled(g, gone) == IF g.node = "live" /\ g.loc \in gone THEN [g EXCEPT !.node = "dangling"] ELSE g

LEMMA DangledIs ==
  ASSUME NEW g \in StarIndex, NEW gone
  PROVE  Dangled(g, gone) \in StarIndex /\ Dangled(g, gone).loc = g.loc
BY DEF Dangled, StarIndex

LEMMA DangledList ==
  ASSUME NEW list \in Seq(StarIndex), NEW gone
  PROVE  /\ Dangling(list, gone) \in Seq(StarIndex) /\ Len(Dangling(list, gone)) = Len(list)
         /\ \A i \in 1 .. Len(list) : Dangling(list, gone)[i] = Dangled(list[i], gone)
<1>1. /\ Len(list) \in Nat /\ DOMAIN list = 1 .. Len(list)
      /\ \A i \in 1 .. Len(list) : list[i] \in StarIndex
  OBVIOUS
<1>2. Dangling(list, gone) = [i \in 1 .. Len(list) |-> Dangled(list[i], gone)]
  BY <1>1 DEF Dangling, Dangled
<1>3. \A i \in 1 .. Len(list) : Dangled(list[i], gone) \in StarIndex
  BY <1>1, DangledIs
<1> HIDE DEF StarIndex
<1> QED
  BY <1>1, <1>2, <1>3

LEMMA DanglingGrows ==
  ASSUME NEW list \in Seq(StarIndex), NEW g \in StarIndex, NEW gone
  PROVE  Dangling(Append(list, g), gone) = Append(Dangling(list, gone), Dangled(g, gone))
<1> DEFINE n == Len(list)
           more == Append(list, g)
           left == Dangling(list, gone)
           a == Dangling(more, gone)
           b == Append(left, Dangled(g, gone))
<1>1. /\ n \in Nat /\ more \in Seq(StarIndex) /\ Len(more) = n + 1 /\ more[n + 1] = g
      /\ \A i \in 1 .. n : more[i] = list[i]
  OBVIOUS
<1>2. Dangled(g, gone) \in StarIndex
  BY DangledIs
<1>3. /\ left \in Seq(StarIndex) /\ Len(left) = n
      /\ \A i \in 1 .. n : left[i] = Dangled(list[i], gone)
  BY DangledList
<1> HIDE DEF n, more, left
<1>4. /\ a \in Seq(StarIndex) /\ Len(a) = n + 1
      /\ \A i \in 1 .. n + 1 : a[i] = Dangled(more[i], gone)
  BY <1>1, DangledList
<1>5. /\ b \in Seq(StarIndex) /\ Len(b) = n + 1 /\ b[n + 1] = Dangled(g, gone)
      /\ \A i \in 1 .. n : b[i] = left[i]
  BY <1>1, <1>2, <1>3
<1> HIDE DEF a, b
<1>6. \A i \in 1 .. n + 1 : a[i] = b[i]
  BY <1>1, <1>3, <1>4, <1>5
<1>7. a = b
  BY <1>1, <1>4, <1>5, <1>6
<1> QED
  BY <1>7 DEF a, b, more, left

(* It is one whether they dangle first or go first.                        *)
LEMMA ForgottenDangling ==
  ASSUME NEW list \in Seq(StarIndex), NEW gone, NEW loc
  PROVE  MappingsBut(Dangling(list, gone), loc) = Dangling(MappingsBut(list, loc), gone)
<1> DEFINE left == Dangling(list, gone)
           last == Len(list)
<1>1. /\ last \in Nat /\ \A i \in 1 .. last : list[i] \in StarIndex
  OBVIOUS
<1>2. /\ Len(left) = last /\ \A i \in 1 .. last : left[i] = Dangled(list[i], gone)
  BY DangledList
<1> HIDE DEF left
<1>3. PICK a : /\ MappingsBut(list, loc) = a[last] /\ a[0] = <<>>
               /\ \A k \in 0 .. last - 1 : a[k + 1] = KeptBut(list, loc, a[k], k + 1)
  BY <1>1, MappingsRun
<1>4. PICK b : /\ MappingsBut(left, loc) = b[last] /\ b[0] = <<>>
               /\ \A k \in 0 .. last - 1 : b[k + 1] = KeptBut(left, loc, b[k], k + 1)
  BY <1>1, <1>2, MappingsRun
<1> HIDE DEF last
<1> DEFINE T == {k \in Nat : k <= last => a[k] \in Seq(StarIndex) /\ b[k] = Dangling(a[k], gone)}
<1>5. 0 \in T
  <2>1. Dangling(<<>>, gone) = <<>>
    BY DEF Dangling
  <2>2. a[0] \in Seq(StarIndex)
    BY <1>3
  <2>3. b[0] = Dangling(a[0], gone)
    BY <1>3, <1>4, <2>1
  <2> QED
    BY <2>2, <2>3
<1>6. ASSUME NEW k \in Nat, k \in T PROVE k + 1 \in T
  <2> SUFFICES ASSUME k + 1 <= last
               PROVE  a[k + 1] \in Seq(StarIndex) /\ b[k + 1] = Dangling(a[k + 1], gone)
    OBVIOUS
  <2>1. a[k] \in Seq(StarIndex) /\ b[k] = Dangling(a[k], gone)
    BY <1>1, <1>6
  <2>2. k \in 0 .. last - 1 /\ k + 1 \in 1 .. last
    BY <1>1
  <2>3. list[k + 1] \in StarIndex /\ left[k + 1] = Dangled(list[k + 1], gone)
    BY <1>1, <1>2, <2>2
  <2>4. /\ a[k + 1] = IF list[k + 1].loc = loc THEN a[k] ELSE Append(a[k], list[k + 1])
        /\ b[k + 1] = IF left[k + 1].loc = loc THEN b[k] ELSE Append(b[k], left[k + 1])
    BY <1>3, <1>4, <2>2 DEF KeptBut
  <2>5. left[k + 1].loc = list[k + 1].loc
    BY <2>3, DangledIs
  <2>6. Dangling(Append(a[k], list[k + 1]), gone) = Append(b[k], left[k + 1])
    BY <2>1, <2>3, DanglingGrows
  <2>7. Append(a[k], list[k + 1]) \in Seq(StarIndex)
    BY <2>1, <2>3
  <2> QED
    BY <2>1, <2>4, <2>5, <2>6, <2>7
<1> HIDE DEF T
<1>7. last \in T
  BY <1>1, <1>5, <1>6, InductionOn
<1>8. b[last] = Dangling(a[last], gone)
  BY <1>1, <1>7 DEF T
<1> QED
  BY <1>3, <1>4, <1>8 DEF left

LEMMA ErasedIs ==
  ASSUME NEW m, IsSound(m), NEW loc
  PROVE  LET g == Erased(m, loc)
         IN /\ IsMachine(g) /\ g.db = m.db /\ g.nodes = m.nodes \ Subtree(m, loc)
            /\ g.mappers = [n \in DOMAIN m.mappers \ Subtree(m, loc) |-> m.mappers[n]]
            /\ g.mappings = Dangling(m.mappings, Subtree(m, loc)) /\ g.fault = m.fault
<1> DEFINE N == m.nodes \ Subtree(m, loc)
           x == [n \in DOMAIN m.mappers \ Subtree(m, loc) |-> m.mappers[n]]
           y == Dangling(m.mappings, Subtree(m, loc))
<1>1. Erased(m, loc) = Remade(m, N, x, y)
  BY DEF Erased
<1> HIDE DEF N, x, y
<1>2. IsMachine(m)
  BY DEF IsSound
<1> QED
  BY <1>1, <1>2, MachineRemade DEF N, x, y

(* What the second one comes to, alone.                                    *)
Forgotten(m, loc) ==
  Remade(m, m.nodes \ Subtree(m, loc),
         [n \in DOMAIN m.mappers \ Subtree(m, loc) |-> m.mappers[n]],
         Dangling(MappingsBut(m.mappings, loc), Subtree(m, loc)))

LEMMA DeletedAlone ==
  ASSUME NEW m, NEW command, command.name = "DELETE_MAPPING"
  PROVE  LET t   == Led(m, command)
             loc == Location(t.frames)
         IN /\ t.m.fault = "none" /\ ~Unmaps(t, command) =>
                 Alone(m, command) = [m |-> t.m, answer |-> Answer(FALSE)]
            /\ t.m.fault = "none" /\ Unmaps(t, command) =>
                 Alone(m, command) =
                   IF IsMapped(t.m, loc)
                   THEN [m |-> Forgotten(t.m, loc), answer |-> Answer(TRUE)]
                   ELSE [m |-> Faulted(Forgotten(t.m, loc), "throw"), answer |-> Answer(FALSE)]
<1> DEFINE t   == Led(m, command)
           loc == Location(t.frames)
           res == DeleteMapping(t)
           made == Forgotten(t.m, loc)
<1>1. Alone(m, command) = [m |-> res.m, answer |-> Answer(res.wrote)]
  BY DEF Alone, Replying
<1>2. res = IF t.m.fault # "none" \/ ~IsValid(loc) \/ loc \notin t.m.nodes
            THEN [m |-> t.m, wrote |-> FALSE]
            ELSE IF ~IsMapped(t.m, loc) THEN [m |-> Faulted(made, "throw"), wrote |-> FALSE]
            ELSE [m |-> made, wrote |-> TRUE]
  BY DEF DeleteMapping, Forgotten, Remade, Dangling, Subtree
<1>3. Unmaps(t, command) <=> IsValid(loc) /\ loc \in t.m.nodes
  BY DEF Unmaps
<1> HIDE DEF res, made, t
<1> QED
  BY <1>1, <1>2, <1>3 DEF made, t

LEMMA UnmapEraseKind ==
  ASSUME AskedInv, Together, status = "up", ~raced', NEW c \in Clients, UnmapErase(c)
  PROVE  Fails(c) \/ Ends(c) \/ Begins(c)
<1> DEFINE t == Led(Now, doing[c])
           loc == Location(t.frames)
<1>1. /\ at[c] = "ready" /\ doing[c].name = "DELETE_MAPPING"
      /\ \A d \in Clients \ {c} : at[d] \notin Inside
      /\ doing' = doing
  BY DEF UnmapErase, In, Is, Races
<1>2. IF t.m.fault # "none" THEN Fail("failed") /\ UNCHANGED <<at, frames, reply>>
      ELSE IF ~IsValid(loc) \/ loc \notin t.m.nodes
      THEN /\ Hold(t.m) /\ UNCHANGED <<status, frames>>
           /\ GoTo(c, "reply") /\ reply' = Answer(FALSE)
      ELSE /\ Hold(Erased(t.m, loc)) /\ UNCHANGED <<status, reply>>
           /\ GoTo(c, "forget") /\ frames' = [frames EXCEPT ![c] = t.frames]
  BY DEF UnmapErase, Erased, Remade, Dangling, Subtree
<1>3. AtRest
  BY <1>1 DEF AtRest, Inside, Mapping
<1>4. /\ IsTraversal(t) /\ Began = Now
      /\ t.m.fault # "none" => Alone(Now, doing[c]).m.fault # "none"
  BY <1>1, <1>3, CommandStarts DEF OnDatabase, OnMappings
<1>5. /\ IsSound(t.m)
      /\ Unmaps(t, doing[c]) <=> IsValid(loc) /\ loc \in t.m.nodes
      /\ t.m.fault = "none" /\ ~Unmaps(t, doing[c]) =>
           Alone(Now, doing[c]) = [m |-> t.m, answer |-> Answer(FALSE)]
  BY <1>1, <1>4, DeletedAlone DEF IsTraversal, Unmaps
<1> HIDE DEF t, loc
<1>6. CASE t.m.fault # "none"
  BY <1>1, <1>2, <1>4, <1>6 DEF Fails, Fail
<1>7. CASE t.m.fault = "none" /\ ~Unmaps(t, doing[c])
  <2>1. /\ Hold(t.m) /\ UNCHANGED status /\ GoTo(c, "reply") /\ reply' = Answer(FALSE)
    BY <1>2, <1>5, <1>7
  <2>2. Now' = t.m /\ t.m = [t.m EXCEPT !.fault = "none"]
    BY <1>5, <1>7, <2>1, HeldNow, Unfaulted DEF IsSound
  <2>3. Alone(Began, doing[c]) = [m |-> t.m, answer |-> Answer(FALSE)]
    BY <1>4, <1>5, <1>7
  <2>4. doing[c].name \in OnDatabase
    BY <1>1 DEF OnDatabase, OnMappings
  <2> QED
    BY <1>1, <1>3, <1>7, <2>1, <2>2, <2>3, <2>4 DEF Ends
<1>8. CASE t.m.fault = "none" /\ Unmaps(t, doing[c])
  <2>1. /\ Hold(Erased(t.m, loc)) /\ UNCHANGED <<status, reply>>
        /\ GoTo(c, "forget") /\ frames' = [frames EXCEPT ![c] = t.frames]
    BY <1>2, <1>5, <1>8
  <2>2. IsMachine(Erased(t.m, loc)) /\ Erased(t.m, loc).fault = "none"
    BY <1>5, <1>8, ErasedIs
  <2>3. Now' = Erased(t.m, loc)
    BY <2>1, <2>2, HeldNow
  <2>4. /\ at'[c] = "forget" /\ frames'[c] = t.frames /\ "forget" \in Inside
    BY <2>1 DEF GoTo, AskedInv, Inside, Mapping
  <2>5. ReachedFrom(t, at'[c], doing[c], Now', frames'[c], seen'[c])
    BY <1>8, <2>3, <2>4 DEF ReachedFrom, loc
  <2> QED
    BY <1>1, <1>3, <2>1, <2>4, <2>5 DEF Begins, t
<1> QED
  BY <1>6, <1>7, <1>8

LEMMA UnmapForgetKind ==
  ASSUME AskedInv, Together, status = "up", NEW c \in Clients, UnmapForget(c)
  PROVE  Fails(c) \/ Ends(c)
<1> DEFINE t == Led(before, doing[c])
           loc == Location(t.frames)
           gone == Subtree(t.m, loc)
           g == Erased(t.m, loc)
           made == Forgotten(t.m, loc)
           alone == Alone(before, doing[c])
<1>1. /\ at[c] = "forget" /\ doing' = doing
      /\ IF ~IsMapped(Now, Location(frames[c])) THEN Fail("failed") /\ UNCHANGED <<at, found, reply>>
         ELSE /\ mappings' = MappingsBut(mappings, Location(frames[c])) /\ reply' = Answer(TRUE)
              /\ UNCHANGED <<db, nodes, mappers, status>> /\ Back(c, "reply")
  BY DEF UnmapForget, In
<1>2. /\ t.m.fault = "none" /\ frames[c] = t.frames /\ IsSound(t.m)
      /\ Unmaps(t, doing[c]) /\ Now = g /\ Began = before /\ IsCommand(doing[c])
  BY <1>1, InMidst DEF Mapping
<1>3. doing[c].name = "DELETE_MAPPING"
  BY <1>2 DEF Unmaps
<1>4. alone = IF IsMapped(t.m, loc) THEN [m |-> made, answer |-> Answer(TRUE)]
              ELSE [m |-> Faulted(made, "throw"), answer |-> Answer(FALSE)]
  BY <1>2, <1>3, DeletedAlone
<1>5. /\ at[c] \in Inside /\ ~AtRest
  BY <1>1 DEF Inside, AtRest, Mapping
<1>6. t.m.mappings \in Seq(StarIndex)
  BY <1>2 DEF IsSound, Formed
<1>7. /\ g.db = t.m.db /\ g.nodes = t.m.nodes \ gone
      /\ g.mappers = [n \in DOMAIN t.m.mappers \ gone |-> t.m.mappers[n]]
      /\ g.mappings = Dangling(t.m.mappings, gone)
  BY <1>2, ErasedIs
<1>8. /\ Now.db = db /\ Now.nodes = nodes /\ Now.mappers = mappers /\ Now.mappings = mappings
  BY DEF Now, Machine
<1>9. /\ IsMachine(made) /\ made.db = g.db /\ made.nodes = g.nodes /\ made.mappers = g.mappers
      /\ made.mappings = Dangling(MappingsBut(t.m.mappings, loc), gone) /\ made.fault = "none"
  <2> DEFINE N == t.m.nodes \ gone
             x == [n \in DOMAIN t.m.mappers \ gone |-> t.m.mappers[n]]
             y == Dangling(MappingsBut(t.m.mappings, loc), gone)
  <2>1. made = Remade(t.m, N, x, y)
    BY DEF Forgotten
  <2>2. g.db = t.m.db /\ g.nodes = N /\ g.mappers = x
    BY <1>7
  <2>3. IsMachine(t.m)
    BY <1>2 DEF IsSound
  <2> HIDE DEF N, x, y, made, g, t
  <2>4. /\ IsMachine(made) /\ made.db = t.m.db /\ made.nodes = N /\ made.mappers = x
        /\ made.mappings = y /\ made.fault = t.m.fault
    BY <2>1, <2>3, MachineRemade
  <2> QED
    BY <1>2, <2>2, <2>4 DEF y
<1> HIDE DEF made, g, t, alone
<1>10. IsMapped(Now, loc) <=> IsMapped(t.m, loc)
  <2>1. /\ Len(Dangling(t.m.mappings, gone)) = Len(t.m.mappings)
        /\ \A i \in 1 .. Len(t.m.mappings) :
             Dangling(t.m.mappings, gone)[i] = Dangled(t.m.mappings[i], gone)
        /\ Dangling(t.m.mappings, gone) \in Seq(StarIndex)
    BY <1>6, DangledList
  <2>2. DOMAIN g.mappings = DOMAIN t.m.mappings
    BY <1>6, <1>7, <2>1
  <2>3. ASSUME NEW i \in DOMAIN t.m.mappings PROVE g.mappings[i].loc = t.m.mappings[i].loc
    <3>1. i \in 1 .. Len(t.m.mappings) /\ t.m.mappings[i] \in StarIndex
      BY <1>6
    <3>2. g.mappings[i] = Dangled(t.m.mappings[i], gone)
      BY <1>7, <2>1, <3>1
    <3> QED
      BY <3>1, <3>2, DangledIs
  <2> QED
    BY <1>2, <2>2, <2>3 DEF IsMapped, MappingsAt
<1>11. CASE ~IsMapped(t.m, loc)
  <2>1. Fail("failed") /\ UNCHANGED <<at, found, reply>>
    BY <1>1, <1>2, <1>10, <1>11
  <2>2. alone.m = Faulted(made, "throw")
    BY <1>4, <1>11
  <2>3. Faulted(made, "throw").fault # "none"
    BY <1>9, MachineWith DEF Faulted
  <2> QED
    BY <1>2, <1>5, <2>1, <2>2, <2>3 DEF Fails, Fail, alone
<1>12. CASE IsMapped(t.m, loc)
  <2>1. /\ mappings' = MappingsBut(mappings, loc) /\ reply' = Answer(TRUE)
        /\ UNCHANGED <<db, nodes, mappers, status>> /\ Back(c, "reply")
    BY <1>1, <1>2, <1>10, <1>12
  <2>2. mappings' = made.mappings
    BY <1>2, <1>6, <1>7, <1>8, <1>9, <2>1, ForgottenDangling
  <2>3. Hold(made)
    BY <1>2, <1>8, <1>9, <2>1, <2>2 DEF Hold
  <2>4. Now' = made /\ made = [made EXCEPT !.fault = "none"]
    BY <1>9, <2>3, HeldNow, Unfaulted
  <2>5. alone = [m |-> made, answer |-> Answer(TRUE)]
    BY <1>4, <1>12
  <2>6. doing[c].name \in OnDatabase
    BY <1>3 DEF OnDatabase, OnMappings
  <2> QED
    BY <1>2, <1>5, <1>9, <2>1, <2>4, <2>5, <2>6 DEF Ends, Back, alone
<1> QED
  BY <1>11, <1>12

LEMMA ApartKind ==
  ASSUME AskedInv, NEW c \in Clients,
         \/ Accept(c) \/ Leave(c) \/ Ask(c) \/ LogBegin(c) \/ LogEnd(c) \/ ListMappings(c) \/ Reply(c)
  PROVE  Apart(c) /\ status = "up" /\ (raced => raced')
<1> USE DEF Apart, In, Fail, Places, Inside, Mapping, shared, vars, found, memory
<1>1. CASE Accept(c)
  BY <1>1 DEF Accept
<1>2. CASE Leave(c)
  BY <1>2 DEF Leave
<1>3. CASE Ask(c)
  BY <1>3 DEF Ask, AskedInv
<1>4. CASE LogBegin(c)
  BY <1>4 DEF LogBegin
<1>5. CASE LogEnd(c)
  BY <1>5 DEF LogEnd
<1>6. CASE ListMappings(c)
  BY <1>6 DEF ListMappings, Is, Races
<1>7. CASE Reply(c)
  BY <1>7 DEF Reply, AskedInv
<1> QED
  BY <1>1, <1>2, <1>3, <1>4, <1>5, <1>6, <1>7

LEMMA TogetherInit == SerialInit => TogetherInv
<1> SUFFICES ASSUME SerialInit PROVE Together
  BY DEF TogetherInv
<1>1. Init /\ \A c \in Clients : at[c] \notin Inside
  BY DEF SerialInit, ServerInit, Inside, Mapping
<1>2. IsSound(Now)
  BY <1>1, InitWell, MachineOfNow DEF WellFormed, IsSound
<1> QED
  BY <1>1, <1>2 DEF Together, AtRest

(* Each step of a thread is of one of these kinds.                         *)
LEMMA StepKinds ==
  ASSUME AskedInv, LockInv, TogetherInv, ~raced', NEW c \in Clients,
         Accept(c) \/ Leave(c) \/ Ask(c) \/ Run(c) \/ Reply(c)
  PROVE  /\ Together /\ status = "up"
         /\ Fails(c) \/ Begins(c) \/ Goes(c) \/ Ends(c) \/ Apart(c)
<1>1. CASE \/ Accept(c) \/ Leave(c) \/ Ask(c) \/ LogBegin(c) \/ LogEnd(c) \/ ListMappings(c)
           \/ Reply(c)
  BY <1>1, ApartKind DEF TogetherInv
<1>2. CASE \/ Traverse(c) \/ Apply(c) \/ MapNodes(c) \/ MapAppend(c) \/ MapFill(c)
           \/ UnmapErase(c) \/ UnmapForget(c)
  <2>1. status = "up" /\ (raced => raced')
    BY <1>2 DEF Traverse, Apply, MapNodes, MapAppend, MapFill, UnmapErase, UnmapForget, In, Races
  <2>2. Together
    BY <2>1 DEF TogetherInv
  <2> QED
    BY <1>2, <2>1, <2>2, TraverseKind, ApplyKind, MapNodesKind, MapAppendKind, MapFillKind,
       UnmapEraseKind, UnmapForgetKind
<1> QED
  BY <1>1, <1>2 DEF Run

LEMMA TogetherStep ==
  ASSUME AskedInv, LockInv, TogetherInv, [SerialNext]_serialvars
  PROVE  TogetherInv' /\ [~raced' => OneCommand]_serialvars
<1>1. CASE UNCHANGED serialvars
  <2>1. /\ UNCHANGED <<raced, status, before, at, doing, frames, seen>>
        /\ Now' = Now
    BY <1>1 DEF serialvars, allvars, vars, memory, found, Now
  <2>2. AtRest' = AtRest
    BY <2>1 DEF AtRest
  <2>3. \A c \in Clients : Reached(c, before)' = Reached(c, before)
    BY <2>1 DEF Reached
  <2>4. Together' = Together
    BY <2>1, <2>2, <2>3 DEF Together
  <2> QED
    BY <1>1, <2>1, <2>4 DEF TogetherInv
<1>2. CASE SerialNext
  <2> SUFFICES ASSUME ~raced' PROVE (status' = "up" => Together') /\ OneCommand
    BY DEF TogetherInv
  <2>1. Remember /\ ServerNext
    BY <1>2 DEF SerialNext
  <2>2. ~Undefined
    BY DEF Undefined
  <2>3. PICK c \in Clients : Accept(c) \/ Leave(c) \/ Ask(c) \/ Run(c) \/ Reply(c)
    BY <2>1, <2>2 DEF ServerNext
  <2>4. /\ Together /\ status = "up"
        /\ Fails(c) \/ Begins(c) \/ Goes(c) \/ Ends(c) \/ Apart(c)
    BY <2>3, StepKinds
  <2>5. CASE Fails(c)
    BY <2>1, <2>4, <2>5, FailsAlone DEF Fails
  <2>6. CASE Begins(c) \/ Goes(c)
    BY <2>1, <2>4, <2>6, EntersTogether
  <2>7. CASE Ends(c)
    BY <2>1, <2>4, <2>7, EndsTogether
  <2>8. CASE Apart(c)
    BY <2>1, <2>4, <2>8, ApartTogether
  <2> QED
    BY <2>4, <2>5, <2>6, <2>7, <2>8
<1> QED
  BY <1>1, <1>2

SerialInv == AskedInv /\ LockInv /\ TogetherInv

LEMMA SerialStarts == SerialInit => SerialInv
BY AskedInit, LockInit, TogetherInit DEF SerialInit, SerialInv

LEMMA SerialGoes ==
  SerialInv /\ [SerialNext]_serialvars => SerialInv' /\ [~raced' => OneCommand]_serialvars
<1> SUFFICES ASSUME SerialInv, [SerialNext]_serialvars
             PROVE  SerialInv' /\ [~raced' => OneCommand]_serialvars
  OBVIOUS
<1>1. [ServerNext]_allvars
  BY DEF SerialNext, serialvars
<1> QED
  BY <1>1, AskedStep, LockStep, TogetherStep DEF SerialInv

(* RukoDb.hpp:31 "std::mutex mut", held from a command's traversal to its  *)
(* end: for any number of clients, as long as no two threads race in the   *)
(* indices, what the interleaved threads do to the database, and what they *)
(* answer, is what the commands do that run alone, in the order in which   *)
(* they end, and the process fails only where one would fail alone.        *)
THEOREM CommandsOneByOne == SerialSpec => OneByOne
BY SerialStarts, SerialGoes, PTL DEF SerialSpec, OneByOne

(* The frames of traverseTo hold pointers to objects and index nodes, used *)
(* by the rest of the command: for any number of clients, as long as no    *)
(* two threads race, all of them are to what is there, none to a node made *)
(* since is missing, and no mapping is met without its mapper.             *)
THEOREM PointersAreGood == SerialSpec => []PointersHold
<1>1. SerialInv => PointersHold
  <2> SUFFICES ASSUME SerialInv, ~raced, NEW c \in Clients, In(c, {"apply"})
               PROVE  Unseen(c) = {} /\ ~Stale(c) /\ \A t \in Traversed(c) : ~NoMapper(c, t)
    BY DEF PointersHold
  <2>1. AskedInv /\ Together /\ at[c] = "apply"
    BY DEF SerialInv, TogetherInv, In
  <2> QED
    BY <2>1, ApplyPointers
<1> QED
  BY <1>1, SerialStarts, SerialGoes, PTL DEF SerialSpec

(* What is in memory between commands, while no two threads raced. *)
AtRestWell == ~raced /\ status = "up" /\ AtRest => Formed(Now)

(* For any number of clients, whatever they send: as long as no two        *)
(* threads raced, whenever none of them is inside RukoDb the document is   *)
(* one the C++ objects can form, the index tree has no hole, and every     *)
(* live mapping has its node and a mapper (IndexManager.cpp:144).          *)
THEOREM RestsWell == SerialSpec => []AtRestWell
<1>1. SerialInv => AtRestWell
  BY DEF SerialInv, TogetherInv, Together, AtRestWell, IsSound
<1> QED
  BY <1>1, SerialStarts, SerialGoes, PTL DEF SerialSpec

(* RukoServer::run with the history variable of Serial beside it is        *)
(* RukoServer::run: `before` is written and never read, so the threads'    *)
(* steps and their fairness are those of Server, and the two theorems on   *)
(* the log and the lock hold of it too.                                    *)
THEOREM SerialServes == SerialSpec => ServerSpec
<1>1. SerialInit => ServerInit
  BY DEF SerialInit
<1>2. [SerialNext]_serialvars => [ServerNext]_allvars
  BY DEF SerialNext, serialvars
<1> QED
  BY <1>1, <1>2, PTL DEF SerialSpec, ServerSpec
=============================================================================
