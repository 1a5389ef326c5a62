------------------------------- MODULE Storage -------------------------------
(***************************************************************************)
(* A server and its files: RukoDb's commands, each logged before it is     *)
(* performed, the steps of a save, the end of the process at any of them,  *)
(* and what RukoDb's constructor makes of the file that it finds.          *)
(* RukoDb's `disk` is what the last save serialized.                       *)
(***************************************************************************)
EXTENDS RukoDb, Serialization

CONSTANTS
  AsJson,     \* --as-json
  Files,      \* what the file may hold at first
  Cuts,       \* bound: how many tokens of a write that did not end are in the file
  NoFile

VARIABLES
  file,       \* the database file: tokens, or NoFile
  saver,      \* where a save is: "idle", "write" or "json"
  pending,    \* the bytes that it writes
  saving,     \* RukoDb::filename is not empty
  logged      \* the line a command just put in the log, and the command

svars == <<vars, file, saver, pending, saving, logged>>
files == <<file, saver, pending, saving>>

Memory(m) == db' = m.db /\ nodes' = m.nodes /\ mappers' = m.mappers /\ mappings' = m.mappings
Kept(m) == [db |-> m.db, nodes |-> m.nodes, mappers |-> m.mappers, mappings |-> m.mappings]
Fresh == FreshIndices(Leaf(Dict))

NoLine == [command |-> Unknown, line |-> <<>>]
Quiet == reply' = NoAnswer /\ logged' = NoLine

StorageInit ==
  /\ db = Fresh.db /\ nodes = Fresh.nodes /\ mappers = Fresh.mappers /\ mappings = Fresh.mappings
  /\ status = "killed" /\ disk = Kept(Fresh) /\ reply = NoAnswer
  /\ file \in Files
  /\ saver = "idle" /\ pending = <<>> /\ saving = TRUE
  /\ logged = NoLine

-----------------------------------------------------------------------------
(* runCommand: the command is printed to the log, then performed. *)
Spell(keys) ==
  [i \in DOMAIN keys |-> IF Len(keys[i]) = 1 THEN Chars(keys[i][1])
                         ELSE Chars(keys[i][1]) \o <<":">> \o Chars(keys[i][2])]
SpellPattern(pattern) == [i \in DOMAIN pattern |-> Chars(pattern[i])]

Log(name, addresses, object) ==
  LET c == Command(name, addresses, object)
  IN logged' = [command |-> c, line |-> PrintCommand(c, FALSE)]

Perform ==
  /\ status = "up"
  /\ \/ \E c \in Client.set : Log("SET", <<Spell(c[1])>>, <<c[2]>>) /\ Set(c[1], c[2])
     \/ \E c \in Client.lput : Log("LPUT", <<Spell(c[1])>>, <<c[2]>>) /\ Lput(c[1], c[2])
     \/ \E c \in Client.del : Log("DELETE", <<Spell(c)>>, <<>>) /\ Del(c)
     \/ \E c \in Client.get : Log("GET", <<Spell(c[1])>>, <<>>) /\ GetAt(c[1], {}, {})
     \/ \E c \in Client.map :
          Log("CREATE_MAPPING", <<Spell(c[1]), SpellPattern(c[2])>>, <<>>) /\ Map(c[1], c[2])
     \/ \E c \in Client.unmap : Log("DELETE_MAPPING", <<Spell(c)>>, <<>>) /\ Unmap(c)
  /\ UNCHANGED files

-----------------------------------------------------------------------------
(* RukoDb::save, by the scheduler, a signal, or the constructor while the  *)
(* status is "starting".  The file is opened, which truncates it, with the *)
(* snapshot: nothing looks at it between.                                  *)
BeginSave ==
  /\ status \in {"up", "starting"} /\ saver = "idle" /\ saving /\ Serializable(db)
  /\ pending' \in {Bytes(Now, back) : back \in BOOLEAN}
  /\ disk' = Kept(Now)
  /\ file' = <<>> /\ saver' = "write"
  /\ Quiet /\ UNCHANGED <<memory, status, saving>>

(* An object that cannot be serialized: the constructor catches that and   *)
(* turns saving off, a thread ends the process.                            *)
SaveThrows ==
  /\ status \in {"up", "starting"} /\ saver = "idle" /\ saving /\ ~Serializable(db)
  /\ IF status = "up" THEN status' = "failed" /\ UNCHANGED saving
                      ELSE status' = "up" /\ saving' = FALSE
  /\ Quiet /\ UNCHANGED <<memory, disk, file, saver, pending>>

Write ==
  /\ status \in {"up", "starting"} /\ saver = "write"
  /\ file' = pending /\ pending' = <<>>
  /\ saver' = IF AsJson THEN "json" ELSE "idle"
  /\ Quiet /\ UNCHANGED <<memory, status, disk, saving>>

(* The copy is printed from the live database: JsonTells. *)
WriteJson ==
  /\ status \in {"up", "starting"} /\ saver = "json"
  /\ saver' = "idle" /\ status' = "up"
  /\ Quiet /\ UNCHANGED <<memory, disk, file, pending, saving>>

(* The process ends, by itself after a failure, and may have written some  *)
(* of its bytes.                                                           *)
Die ==
  /\ status # "killed" /\ status' = "killed"
  /\ file' \in IF saver = "write" THEN {SubSeq(pending, 1, n) : n \in Cuts \cap 0 .. Len(pending)} ELSE {file}
  /\ Memory(Fresh)
  /\ saver' = "idle" /\ pending' = <<>>
  /\ Quiet /\ UNCHANGED <<disk, saving>>

-----------------------------------------------------------------------------
(* Mutated form of Begin: what is thrown leaves the file's name. *)
BeginSaving(m, threw) ==
  /\ Memory(m) /\ saving' = TRUE
  /\ status' = IF AsJson THEN "starting" ELSE "up"
  /\ Quiet /\ UNCHANGED <<disk, file, saver, pending>>

(* RukoDb's constructor: without an exception, and with --as-json, it also *)
(* saves before the server listens.                                        *)
Begin(m, threw) ==
  /\ Memory(m) /\ saving' = ~threw
  /\ status' = IF AsJson /\ ~threw THEN "starting" ELSE "up"
  /\ Quiet /\ UNCHANGED <<disk, file, saver, pending>>

StartProcess ==
  /\ status = "killed"
  /\ IF file = NoFile THEN Begin(Fresh, FALSE)
     ELSE \E l \in Load(file) : l.m.fault = "none" /\ Begin(l.m, l.threw)

StorageNext == Perform \/ BeginSave \/ SaveThrows \/ Write \/ WriteJson \/ Die \/ StartProcess

StorageSpec == StorageInit /\ [][StorageNext]_svars

-----------------------------------------------------------------------------
Names(doc) == UNION {ToSet(p) : p \in DOMAIN doc} \cup {doc[p] : p \in DOMAIN doc}
Without(strings, chars) == \A s \in strings : ToSet(Chars(s)) \cap chars = {}

SaveIsWhole == \E back \in BOOLEAN : file = Bytes(disk, back)

(* What is read of a document, each string up to its first NUL: when no    *)
(* two keys of a dict become one, the same nodes.                          *)
CPath(p) == [i \in DOMAIN p |-> CStr(p[i])]
Distinct(doc) == \A p, q \in DOMAIN doc : CPath(p) = CPath(q) => p = q
ReadBack(doc) ==
  [r \in {CPath(p) : p \in DOMAIN doc} |-> CStr(doc[CHOOSE p \in DOMAIN doc : CPath(p) = r])]

(* testRuko.cpp:265 "saving": a start from a file whose save was completed *)
(* has the database and the indices of that save, and the mappings without *)
(* their nodes; but strings end at their first NUL (serialization.cpp:242),*)
(* and of the keys of a dict that become equal one is left.                *)
RestartExact ==
  [][status = "killed" /\ status' # "killed" /\ file # NoFile /\ SaveIsWhole =>
       /\ saving'
       /\ IsDocument(db')
       /\ \A r \in DOMAIN db' : \E p \in DOMAIN disk.db : r = CPath(p) /\ db'[r] = CStr(disk.db[p])
       /\ Distinct(disk.db) => db' = ReadBack(disk.db)
       /\ Without(Names(disk.db), {Nul}) =>
            /\ nodes' = disk.nodes /\ mappers' = disk.mappers
            /\ mappings' = [i \in DOMAIN disk.mappings |-> [disk.mappings[i] EXCEPT !.node = "null"]]]_svars

(* RukoDb.cpp:60 "failed to load database. Saving disabled.": a file that  *)
(* holds something else than a database is still there after any number of *)
(* starts, commands, saves and ends.                                       *)
ForeignKept == [][file # NoFile /\ Token("id", Foreign) \in ToSet(file) => file' = file]_svars

(* Text that can be read again: no quotes, backslashes or line ends in     *)
(* strings, no quotes in keys, no Empty, no negative numbers, no floats    *)
(* that are whole or printed with an exponent.                             *)
Readable(doc) ==
  /\ Without(Names(doc), {"\"", "\\", "\n", Nul})
  /\ Names(doc) \cap ({Empty} \cup (Numbers \ AsPrinted)) = {}

(* README.md:54, "JSON form (ie. for exporting data or creating from a     *)
(* string for tests)": what is exported gives back the database it was     *)
(* printed from, in whatever order the keys were met.                      *)
JsonTells ==
  Readable(db) =>
    \A back \in BOOLEAN : ParseObject(PrintObject(db, back)) = Parsed(db, <<>>)

(* Keys that are one word of the shell and no two keys, in an address that *)
(* is not empty.                                                           *)
Words(address) ==
  address # <<>> /\ \A i \in DOMAIN address :
     address[i] # <<>> /\ ToSet(address[i]) \cap {" ", ".", "\n", Nul} = {}

(* A line of the log (--log-commands) is the command that the shell would  *)
(* run for it, so that a log can be run again: SET, LPUT, GET, DELETE and  *)
(* the commands on mappings, where their keys are words and their objects  *)
(* hold what the parser can read. Other keys and objects do not come back. *)
LineExact ==
  LET c == logged.command
  IN c # Unknown /\ (\A i \in DOMAIN c.addresses : Words(c.addresses[i]))
     /\ (\A i \in DOMAIN c.object : Readable(c.object[i])) =>
       ReadCommand(logged.line) = c
=============================================================================
