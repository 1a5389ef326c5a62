# Ruko server: verification

TLA+ specifications of ruko-server (the repository beside this directory), TLC
configurations that check them on small instances, and proofs for TLAPS. The
source is the reference: every definition that models code is listed in
`PROJECT.json` under "map" with the lines it stands for. Paths below are
relative to `src/source/`.

## The system

An in-memory JSON database served over TCP, kept in one file.

| Part | Source | State | Operations |
|---|---|---|---|
| `Object` and its data classes | `objects/` | a JSON tree; an `Empty` object is what a default constructor gives | get, assign, `iter`, `add`, list positions, parse, print |
| `KeyMapper` | `KeyMapper.cpp` | for each indexed field, a map from the string a row holds there to the row's key | `createIndex`, `registerVal`, `unregisterVal`, `get` |
| `IndexManager` | `IndexManager.cpp`, `IndexNode`, `StarIndex` | a tree of index nodes beside the document, each with a `KeyMapper` or none; the vector of mappings (location, wildcard pattern, pointer to a node) | `traverseTo`, `handleDelete`, `handleCreate`, `createMapping`, `deleteMapping`, `getMappingRepresentation` |
| `RukoDb` | `RukoDb.cpp` | the document, the indices, one mutex, a file name | `set`, `lput`, `del`, `declare`, `get`, the mapping commands, `save`, `load` |
| `Command` | `commands/` | none | decode a message, call `RukoDb`, say whether it wrote |
| `SaveScheduler` | `SaveScheduler.cpp` | a counter of writes, a mutex used as an event, a flag, a thread | `registerWrite`, `run`, `shutdown` |
| `RukoServer` | `RukoServer.cpp` | the listening socket, a thread per client, a log of commands, the set of open servers | `run`, `runInteractive`, `handleClient`, `runCommand`, `shutdown`, `signalHandler` |
| `Socket`, `SocketServer` | `Socket.cpp`, `SocketServer.cpp` | a descriptor, whether it is connected | `read`, `send`, `acceptClient` |
| serialization | `serialization.cpp`, `toBytes` and the constructors from bytes | none | what a file holds of objects, indices and mappings |
| text | `Object.cpp`, `StringData.cpp`, `commands/` | none | printing (the `.json` copy, the log) and parsing (the shell) of objects and commands |
| logger, renderer, command line | the rest | none, or output only | |

How they meet: a client's thread reads a message (`handleClient`), decodes it and
calls `runCommand`, which performs it on the one `RukoDb`, under `RukoDb::mut` except
for the three commands on mappings. `RukoDb` walks the client's keys through document and
index tree at once (`traverseTo`; a key `name:ann` is looked up in an index that is
built when it is first used), tells `IndexManager` before an object goes and
after one has come, and answers. A write is counted by `SaveScheduler`, whose own
thread saves the database after `maxDeltaWrites` writes or `maxDeltaTime`. Nothing on the
server's side catches an exception, so one that a command or a save throws ends the
process; the interactive shell catches those of its commands. SIGINT
and SIGTERM are handled on whatever thread they interrupt, by saving and
exiting.

What is hard: the derived data (indices, entries of mappings, node
pointers) that every command must leave in agreement with the document, over subtrees, shifting
list positions and several spellings of one key; commands that fail half-way;
what a restart brings back; the counter and the event between client threads
and the scheduler; two savers on one file; a file cut by the end of the process, or that is
something else; the three commands that take no lock, and the log that all threads write; a signal on any thread; a
byte stream cut anywhere; conversions that cut, escape or separate what they convert. The list, line by line, is `PROJECT.json` "hazards".

What would make each part correct:

- `KeyMapper`, `IndexManager`: every index the server has agrees with a scan of
  the document; a pointer from a mapping is to a live node.
- `RukoDb`: a lookup or a listing by field answers what a scan would answer, also
  after a save, a crash and a restart; what it holds can be saved.
- `SaveScheduler`: no write is forgotten, saves begin at the limit, shutdown ends
  and leaves everything in the file.
- sessions: the commands run are the commands sent; each is answered; a session ends with its client and only that.
- the server: a command under the lock is alone with the database and the indices; what was
  answered is in the log.
- files and text: what was saved, printed or logged is read as the same; a file that cannot be read is not overwritten.

## Modules

| Module | Stands for |
|---|---|
| `KeyMapper` | one mapper as a value, with the exceptions of `registerVal` and `createIndex` and what they leave behind |
| `IndexedTable` | the abstract view: one container, its mapper, the file, crashes and restarts |
| `IndexedTableProofs` | theorems about `IndexedTable` |
| `Documents` | objects as values: a function from paths to kinds |
| `IndexManager` | traversal, index nodes, bookkeeping, mappings, as functions of a *machine* (document, nodes, mappers, mappings, fault) |
| `RukoDb` | the commands as actions over that machine, save, kill, restart |
| `RukoDbProofs` | theorem about `RukoDb` with any clients: what memory and file hold is well formed; before it the lemmas about paths, and that assignment and deletion leave a tree the C++ objects can form |
| `RukoDbTable` | the refinement mapping from `RukoDb` to `IndexedTable` |
| `UsersProofs` | lemmas about a database that is `users` alone: what each traversal and command does to it |
| `RukoDbTableProofs` | that `RukoDb` implements `IndexedTable`, and what follows for its indices, lookups, listings and writes |
| `SaveScheduler` | client threads, scheduler thread, and the end of the process, step by step |
| `SaveSchedulerProofs` | theorems about `SaveScheduler` |
| `Dialogue` | the abstract view of a session: what has come is done in order, and answered once |
| `Connection` | one client's session over a byte stream |
| `ConnectionProofs` | theorems about `Connection` |
| `Server` | `RukoServer::run` and the threads of several clients around one `RukoDb`, with the lock and without it |
| `Serial` | `Server` with a history variable, and what its threads' steps come to as whole commands |
| `ServerProofs` | theorems about `Server` and `Serial` |
| `ServerTable` | the refinement mapping from `Serial` to `IndexedTable` |
| `ServerTableProofs` | that a server with any number of threads implements `IndexedTable`, and what follows for its indices and replies |
| `Strings` | strings with the characters that conversions treat specially |
| `JsonText` | printing and parsing of objects and commands |
| `Serialization` | the bytes of a file as tokens, and what `load` makes of any such file |
| `Storage` | `RukoDb` with its file, the steps of a save, the end of the process in any of them, the constructor, the log's lines |
| `MC...` | what TLC needs: symmetry, the commands that clients send in each run |

`RukoDb` extends `IndexManager`, which extends `KeyMapper` and `Documents`;
`IndexedTable` extends `KeyMapper` only. `Server` and `Storage` extend `RukoDb`, the first to let several
threads at it, the second (with `Serialization`, `JsonText`, `Strings`) to give it a file of bytes. `Connection` implements
`Dialogue` as `RukoDb`, and `Serial` with any number of threads, implement `IndexedTable`. `SaveScheduler` sees the database as the
number of writes applied to it, and `Connection` sees a command as a piece of the stream.

**KeyMapper.** `keyIndices` is the pair of the set of fields that have an
index and a total function to keys, with `NoKey` (the empty string `get` returns)
where the C++ map has no entry. `registerVal` visits fields in the order of a
hash map, so after an exception any set of the fields that did not clash may
have been registered. `unregisterVal` erases by value without looking at the key.

**IndexedTable.** A row is what a mapper can see of it: the string it has in each
field, or none. Actions are the commands as they reach one container: a row
written or deleted by its key (`SetRow`, `DelRow`) or through a lookup (`SetBy`, `DelBy`),
looked up (`GetBy`), the container replaced (`Replace`), one field of a row written
in place (`SetField`, `DelField`), the exception of a lookup that meets two holders (`IndexThrows`), `Save`,
`Kill`, `Restart`. `phantom` is the Empty object that a refused SET
leaves. `Interactive` says whether an exception ends the process.

**IndexManager, RukoDb.** A document is a function from paths (sequences of keys) to
"{}", "[]", "?" (Empty) or a scalar. The index tree is the set of paths that have
a node, and the mappers of some of them. Entries of a mapper are paths: of one
key for `toDotted` of a child, longer for an absolute address. A frame is a key and the object it
reached; its index pointer is not null exactly when its location is a node. The recursive walks of
`handleDelete` and `handleCreate` are given by what they do to every mapper: all that
is unregistered and registered in each, which nodes go, and which pointers are
used. A command that would register a value twice is a fault whatever the order, so the order of the walk does not
matter. A fault "throw" (an exception, a null pointer) ends the process; "undefined" (freed memory is
read) may end it or go on as if the memory still held null. `MaxList` bounds lists. A command's result is an operator of the traversal
(`SetResult(ToCreate(keys), value)`) and not a LET over it: TLC's coverage statistics expand a LET at
each of its uses.
The loops of the code (over a client's keys, the elements behind a deleted one, the rows given to a new index, the vector of
mappings) are `Repeated`, a recursive function from a start: a `RECURSIVE` operator would be out of the prover's reach.
`Formed` is what the C++ objects can form: a finite document whose lists have the positions from 0 on,
nodes that are a tree, mappers on nodes with entries that lead to places, and live pointers of mappings to nodes with a mapper.
`ClientAssumption` says what clients send: addresses of names and `field:value` pairs, documents, and no mapping of the root or with an empty
pattern. `NameAssumption` is what TLC and the prover must know of strings. Neither says what is in the database or in which order commands come.

**RukoDbTable.** The container is `users`; its clients write, delete and read it, its rows (by key and by field) and some fields
of the rows (`Written`), and never anything else (`TableClientAssumption`). A row is anything but a list or an Empty object, and a row's key is neither
"" nor the wildcard "---" (`RowKeyAssumption`). The table's rows are the rows of `users` as a mapper sees them, its mapper is
that of the index node, its `phantom` the Empty object under "", and it remembers a reply only of a GET of a row by a field.

**SaveScheduler.** Each access to a shared variable is a step: lock, write and
unlock; `++writesSinceSave`; `updateEvent.unlock()`; the scheduler's loop test,
`lock()`, comparison, reset; a save's snapshot under the lock, `open` (which truncates) and `write` without it.
`updateEvent` is locked by one thread and unlocked by others, which pthreads
make a binary semaphore; the model takes that for granted. `Close` is the end of a
shell. `Signal` interrupts any thread of a shell or a server, which then stops being where it was; a second
signal (`SignalAgain`) waits for the first one's handler, or, on the same thread, for ever. `PrintDb` is the `.json` copy, printed from the live
database. Version and counts are bounded by `MaxVersion`.

**Dialogue.** Only how many commands have come, were done, were answered and were heard, and whether the client is there.

**Connection.** Only places in the stream matter: how much has arrived, how much
was read, where the current `Socket::read` began and what it still wants. `Arrive` cuts
the stream anywhere; `Close` may come in the middle of a command. After the client has left, a first reply is lost and a later one raises SIGPIPE. Where commands end (`Ends`) is a constant, so
that the length of the i-th is a difference and not a sum over all before it.

**Server.** A client's thread goes from place to place (`at`): the message is read, logged (`LogBegin`,
`LogEnd`; lines written at the same time spoil each other), then SET, DELETE and GET traverse and work in two steps
under `RukoDb::mut`, with the frames they got in the first (`frames`, and in `seen` the index nodes these could point to).
CREATE_MAPPING and DELETE_MAPPING are the steps of
`createMapping` and `deleteMapping`, without the lock. When such a step meets another thread in the indices that is a data race:
`raced` says so, and from then on the process may fail at any moment; without it every effect modelled is the code's.
A pointer to what was destroyed (`Stale`, `Unseen`) and a mapping without a mapper (`NoMapper`) are looked for where `Apply` uses the frames.
`reply` is what the client will be sent, given with the last step under the lock; a fault "undefined" ends the process or goes on, as in `RukoDb`.
`Accept` gives each connection a thread that is never taken from the vector. A null command (`fromStream` does not know
it) and a thread that cannot be started end the process.

**Serial.** `before` is the database as the command that is inside of the indices found it; no step reads it. `Alone` is a whole command
on a database that nobody else is at: the traversal, and the result operator that the command's action in `RukoDb` has. `OneByOne` compares each
command's last step with that.

**ServerTable.** `Doc` and `Indices` are what the last command that ended left: the memory when no thread is inside of a command, else
`before`. So the first steps of a command are none of the table, and its last step is all of it; a process that fails on the way has not done it. Clients are
both those of `Server` and those of `RukoDbTable`, which make no mappings.

**Strings, JsonText, Serialization.** A string is one ordinary character unless `Spelled` gives its characters. Texts
are sequences of characters, files are sequences of tokens (an id, a count, a flag, a string, an address): what is written of a
string ends at its first NUL, an unordered map is met in one of two orders, the parser undoes no escapes. A few numbers stand for
those that are read as they were printed and those that are not. Reading goes
behind the end of a file, as the code does: `Load` gives what zeros there would give, and beside it a throw and the end of the process.

**Storage.** `BeginSave` serializes and truncates, `Write` writes, `WriteJson` ends a save with `--as-json`. `Die` is possible
everywhere and leaves as much of what was being written as one of `Cuts` says. `StartProcess` is the constructor: a load, a throw that
turns saving off, a first save. `logged` is the line a command put in the log beside the command itself.

## What the runs check

Passing runs (`PROJECT.json` "runs" names the cfg of each):

| Run | Instance | Shows |
|---|---|---|
| `table` | 2 keys, 2 fields of which one is written in place, 1 value, server | typing; the index on the other field is exact in memory and in the file, lookups return what a scan would, across duplicates, faults, saves and restarts. Two rows for one value is the least in which a holder, a duplicate and a free value meet; the theorems are for any number |
| `db_table` | `users` has 2 keys, 1 field, 2 values; all row commands, one row written and deleted in place, LPUT and DECLARE that must change nothing, listings | `RukoDb` implements `IndexedTable`: the traversal, recursion and index tree come to the table's steps, with a stale index too. Only files with one row are saved (`SaveAfterLookup`), which bounds what a restart brings back, not what memory holds |
| `db` | three scenes with clients of their own. A list of at most 2 rows, 2 values, deletion by "0", "1x", "none", by name and below a string; two elements are enough for a shift, and "1x" and "none" separate `stoi` from `strtol`. A mapping over `users.*` with an index on `users` and 2 rows, written below and through the mapping; what is saved is saved after a listing. `users.*.devices.*`, 2 users, lists of at most 2, indices at both levels and a mapping over the inner one, whole subtrees replaced; nothing is saved | objects and node pointers well formed, every index exact, lookups and listings what a scan would say; whatever changes the database or the mappings says so, and so is counted for the next save |
| `storage` | 2 rows whose key and name are equal up to a NUL, a list that holds numbers or a quote under a key with a dot, or numbers in `users` itself, a mapping; no file at first, or one that is something else; a write that did not end leaves 0 or 6 tokens. Clients wait while a save writes and send nothing to a server that loaded a part of a file, and a save follows a GET: bounds on the files | a completed save comes back as it was, strings up to their first NUL; a foreign file is never touched; the `.json` copy and each line of the log are read as what they were printed from |
| `server` | a writer (SET of a row, then DELETE of the container or an unknown command), a reader (a lookup by index, then through the mapping, or GET_MAPPINGS) that may stop reading, a client that makes and deletes the mapping; at most 4 threads; clients send when all have come and leave when all rest | where no mapping command met another command, indices are exact, no frame points to what was destroyed or misses what was made, and database and replies are those of whole commands one after the other; a command under the lock is alone; each answered command is in the log or its line met another; all who read are answered |
| `session` | 3 commands: larger than the buffer, of one byte, beyond the int; room for 1 reply | commands whole and in order, each answered while the client listens, the session ends; `Connection` implements `Dialogue` |
| `sched` | a shell, or a server with 2 clients, limit 1, 2 writes, `--as-json`, one or two signals at any moment or never | no write is forgotten, zero means saved (in both files), a scheduler that sleeps leaves at most the limit out of the file, who joins it has woken it; a save begins at the limit and when the time is over, a shutdown ends, a signal ends the process unless it interrupted the holder of a lock |

`CHECK_DEADLOCK FALSE` is set where the system may stop: a session that has ended, a
server without work at the bound of writes, a process that has ended, clients that have sent all they have, and
in `Storage` a file that no start can read.

Disagreements between the code and what the repository says of it, each a run
that TLC must find violated ("findings" quotes the lines):

| Run | What happens |
|---|---|
| `table_fields` | SET of one field of a row leaves the container's index stale |
| `db_restart` | a mapping has no node after a restart, and the next matching write ends the process |
| `server_mappings` | a SET meets a mapping that CREATE_MAPPING has not finished, and fails an assertion |
| `sched_durable` | no signal comes; a save that the scheduler began before the last write writes the file after the shutdown's save and before the shutdown has joined the scheduler, so the process ends with the older database in the file |
| `sched_early` | the scheduler's thread may end before it has begun |

The models also contain, without a run of their own, what the code does in these
cases:

- A SET through a lookup that finds nothing is refused, and leaves an Empty object under the
  key "" (`RukoDb.cpp:102`); the next save throws on it (`serialization.cpp:217`): `SetBy`, `Save`.
- An element of a list written as "-1" is registered under that key (`RukoDb.cpp:111`): `ListPositions`, `Assigned`.
- SET of the root leaves the entries of mappings as they were (`IndexManager.cpp:179`): `HandleDelete`, `HandleCreate`.
- A listing at a place with two mappings fills a new index from the first only (`IndexManager.cpp:434`): `MappingIndexed`.
- DELETE two levels below what exists dereferences a null parent (`RukoDb.cpp:152`): `DelResult`.
- Deleting a container destroys the index node of a mapping inside it (`IndexManager.cpp:217`): `PointerFault`.
- CREATE_MAPPING where an index is reports that nothing was created (`IndexManager.cpp:374`): `CreateMapping`.
- DELETE_MAPPING where only an index is destroys it and throws (`IndexManager.cpp:406`): `DeleteMapping`.
- A client that leaves two replies unread ends the server (`Socket.cpp:45`): `BrokenPipe`.
- A signal on the thread that holds the lock never ends the process (`RukoServer.cpp:171`), nor does a second one on the thread
  of the first (168): the exceptions in `SignalEnds`.
- A SET through a scalar makes it a dict, also when it is then refused, without a word to the indices (`IndexManager.cpp:32`): `Descend`.
- A GET of an object that holds an Empty one ends the server (`GetCommand.cpp:27`): `Got`.
- A null command or a thread that cannot be started ends the process (`Command.cpp:51`, `RukoServer.cpp:60`): `LogBegin`, `Accept`.
- A process that ends between the truncation and the write leaves an empty file, from which no later start comes up
  (`RukoDb.cpp:221`); a file cut elsewhere may load as something else and be saved as that: `Die`, `Load`.
- Negative numbers, escapes, and floats that are whole or printed with an exponent are not read as they were printed (`Object.cpp:213`, 247, 310):
  `Readable`. Keys with a dot or a space do not come back from the log: `Words`.
- `FIELDS` and `EXCLUDE` after a GET are never recognised in text, since `parseWordTest` wants letters that are
  spaces (`parsing.cpp:22`); the lists are left out of `ReadCommand`.

Most of these break `IndexExact` or `ListingExact`, so the clients of the passing runs of `RukoDb` stay clear of those on "-1", the root, two
mappings at one place, containers of mappings and scalars on the way: what the runs show is that beside the cases above the bookkeeping is right. `Bounds` keeps the
mapping scene to clients that do not put an object where the mapping is.

Every property of a passing run has a mutant: a change to one definition, of
the kind a slip in the code would be, under which TLC finds the property violated.
The mutated definitions stand in the modules before the ones they replace.

## Fairness

`SaveScheduler`: weak fairness for the steps of a thread that is in the middle of
a command or a save (the operating system schedules threads), strong fairness for
the step that takes `RukoDb::mut` in a save, since clients may hold it again and again
and the kernel's futex queue lets a waiting thread have it in the end; none for a client's next command, the
clock or the end of the process. `Connection`: weak fairness for the server's thread and for
the client's reading of replies that have come, since `write` blocks when the client does not
read; none for sending or leaving. `Server`: weak fairness for each thread that can go on and for the replies of clients that read;
a thread that waits for `RukoDb::mut` gets it because what the clients send is finite, so that the lock is not taken again and again. The other modules state safety only.

## What is proved

TLAPS, for all values of the constants. "typing" below is the module's `TypeOK`.

**One table (`IndexedTableProofs`).**

- `TableTyping`: `IndexedTable!Spec => []TypeOK`.
- `ServerIndexExact`, `FileIndexExact`, `RepliesExact`: without `Interactive`, `LiveIndexExact`, `DiskIndexExact` and `ReplyExact` hold throughout.
  The inductive invariant joins the three with the types: the file's exactness is what makes a restart exact, the
  mapper's exactness makes a lookup right, and none is inductive without the others. The argument for a row command is
  in `UnregisterExact` (taking the old value of a row out of an exact index gives an index that is exact
  for the other rows) and `AssignExact` (registering the new value without a clash
  makes it exact again). The assumption `~Interactive` is needed: where exceptions are
  caught, a half-registered row stays.

**The database, any clients (`RukoDbProofs`).**

- `DatabaseWellFormed`: `RukoDb!Spec => []WellFormed`, for whatever clients send: nested documents, lists, mappings, commands that
  fail half-way, saves, ends and restarts. `WellFormed` is inductive as it stands, because `Formed` joins the four
  things that depend on each other: a traversal may only add a node under a node, a mapping's pointer is live only while a
  mapper sits on its node, and `handleDelete` makes dangling what it destroys. It is carried through a command by one
  lemma for each operator (traversal, index building, `HandleDelete`, `HandleCreate`, the result of each command), down to
  `Graft`, `Cut` and `ErasedDocument`, which say that assignment, deletion and the shift of a list leave a document. `Lput` needs
  `Bounded`: only the numerals up to `MaxList` are known to be names. Loops are proved about from the least
  number of steps at which a claim would fail (`LeastNumber`, `InductionOn`), since the library's induction theorems
  take the claim as an operator.

**The database as the table (`UsersProofs`, `RukoDbTableProofs`).**

- `DatabaseImplementsTable`: `RukoDb!Spec => Table!Spec` under the refinement mapping, for any row keys, fields, values and
  clients that stay inside `users`. The invariant `TableInv` says that the document is `users` alone, that the only mapper there can be is
  its own, with entries that are row keys, and that no mapping exists, in memory (`Held`) and in the file (`DiskHeld`, where
  there is no Empty object either, since a save throws on one). Without it a step of the database has no step of the table:
  a traversal could come by a second index, and a restart bring back a phantom. Each command is then one lemma on constants (`SetRowLands`,
  `DelByLands`, ...): from `users` with such an index it comes to one of the things that can happen to a row and the mapper (`Comes`), or throws. Behind
  it is which frames its traversal gives and what `HandleDelete` and `HandleCreate` do there; `ComesIsStep` says which action of the table that is. Being
  about no variables, these lemmas serve for the threads of `Server` too.
- `UsersExact`: so `LiveIndexExact` holds of the database, by `ServerIndexExact`.
- `UsersIndexExact`, `UsersLookupExact`: `IndexExact` and `LookupExact` of `RukoDb`, for those clients, when no field is written in place (`Written = {}`).
  The assumption is needed: with it absent the run `table_fields` shows the stale index.
- `UsersListingExact`: `ListingExact`, also with fields written in place, since a listing without a mapping scans.
- `UsersWritesTold`: `WritesTold`: a command that does not say that it wrote changes Empty objects at most.

**Saving (`SaveSchedulerProofs`).** For any number of writers and any limit.

- `SchedulerTyping`, `NothingForgotten`: the invariant is inductive with
  the types: `count` is reset before the snapshot, and a write that is applied and not yet counted is named in it.
- `ZeroAlwaysMeansSaved`: from it and from `FileFollows` and `JsonFollows`, which say what the file
  and the `.json` copy hold while the scheduler is at each place, as long as nothing else saves. The copy is
  printed without the lock: what makes it right once no write is in progress is that a write it missed is still counted.
- `LossIsBounded`: what a sleeping scheduler leaves out of the file, from `Counted` (writes since the last snapshot are counted, or
  applied by a command in progress) and `Woken` (a count over the limit has a signal on its way, or a scheduler awake).
- `ShutdownWakes`: who waits in `join` has told the scheduler to end and woken it; from the order of the assignments in `shutdown`.

**Sessions (`ConnectionProofs`).** For any commands, buffer and cut of the stream.

- `SessionTyping`, `SessionWhole`: `WholeCommands` is inductive with `Placed`, which says that a
  session that reads a header began at the end of as many commands as it ran, and that one that reads a body wants exactly what is
  left of the next. `OffsetsGrow` and `PieceFits` are the arithmetic.
- `SessionKeepsDialogue`: a session implements `Dialogue`: its commands are done one at a time, in order, each when all of it has come, and
  answered once. The refinement mapping counts the commands whose end has arrived; what a client has heard never
  exceeds what was answered.

**Threads (`ServerProofs`).**

- `LogComplete`: for any clients and whatever they send, from the lines of a thread that is past its logging.
- `AloneUnderLock`: for any clients, from the fact that the owner of the lock is exactly the thread between its traversal
  and its end, and that who changes the memory without it was seen by `raced`.
- `CommandsOneByOne`, `PointersAreGood`: for any clients, whatever they send, mappings and lists included, as long as no command on mappings has met
  another in the indices. The inductive invariant `SerialInv` joins that every thread at a command has one (`AskedInv`), who owns the lock (`LockInv`),
  and `TogetherInv`: one thread at most is between two steps of a command, the database it found (`before`) was well formed, and
  what is in memory and in its frames is what its steps so far make of that (`Reached`). It is not inductive without each: a pointer is good
  because the memory is what the traversal left, and that holds because nobody else is inside. Each step of a thread is one of five kinds
  (`StepKinds`): the command fails, begins, goes on, ends, or the step is apart from the database; each kind keeps the invariant and has `OneCommand`. That
  the pieces of CREATE_MAPPING and DELETE_MAPPING come to `CreateMapping` and `DeleteMapping` takes that forgetting a location and making pointers dangle
  commute (`ForgottenDangling`).
- `RestsWell`: the document, index tree and pointers in `Server`'s memory are well formed whenever no thread is inside of a command and nothing raced. It
  is what `DatabaseWellFormed` says of the database alone, carried to the threads by `SerialInv`.
- `SerialServes`: `before` adds nothing, so these are statements about `Server`.

**Threads as the table (`ServerTableProofs`).** For any number of clients that stay inside `users` and send no command on mappings, any keys, fields and values.

- `ServerImplementsTable`: `SerialSpec => Served!Spec`: what all threads do to `users` and answer is what the table does that serves one command after the other.
  The invariant `ServedInv` is `SerialInv`, with `users` and its index as in `TableInv` for what the last command left (`BeganHeld`), and that nothing has raced.
  A step in which a command ends is that command alone by `CommandsOneByOne`'s argument (`EndIsStep`), and such a command `Lands` as in
  `RukoDbTableProofs` (`AloneLands`); every other step leaves the table as it was, or ends the process (`StillOrKilled`).
- `NeverRaced`: two threads never meet in the indices there: a race takes one of the three
  commands without the lock, in the step that sees it or in the thread that is met, and no client sends any.
- `ServedExact`: so `LiveIndexExact` and `ReplyExact` hold under any interleaving, by `ServerIndexExact` and `RepliesExact`.
- `ThreadsIndexExact`: `IndexedTogether` of `Server` when no field is written in place (`Written = {}`, needed for the reason given above).

No run instantiates `ServerTable`: `server`, the run of `Server`, is there for the clients that make mappings, which `TableClientAssumption`
excludes. Its parts are checked by `server` and `db_table`, and the theorem is for every instance.

Assumptions are those of the modules (`KeyMapperAssumption`, `TableAssumption`, `ClientAssumption`, `NameAssumption`, `RowKeyAssumption`,
`TableClientAssumption`, `SchedulerAssumption`, `ConnectionAssumption`, `ServerAssumption`): that the
special values are not among the ordinary ones, the numbers are numbers, clients send addresses and documents (and, for the theorems on `users`, stay there),
and commands lie one behind the other in their stream. TLC evaluates each in a run.

Only model-checked:

- `IndexExact`, `LookupExact`, `ListingExact` and `WritesTold` beyond `users`: for lists, mappings and nesting. They are false for arbitrary clients (the list of
  cases above, and for `WritesTold` a refused SET through a scalar), so the run `db` checks them on clients chosen to stay clear of those.
- `IndexedTogether` of `Server` beyond `users`, which has the same cases and lets several threads at them.
- The files and texts (`LineExact`, `JsonTells`, `RestartExact`, `ForeignKept`): their modules declare `RECURSIVE` operators, and what a
  recursive definition computes for every input is out of the prover's reach.
- All liveness (`Answered`, `SessionEnds`, `SaveAtLimit`, `SaveWhenDue`, `ShutdownEnds`, `SignalEnds`): ENABLED and fairness are out of reach too.

## Not modelled

- `libs/CLI11.hpp` (6778 of the repository's 10668 lines of implementation, more than the program itself) and
  `libs/backtrace.cpp` are vendored. Most of the other lines that no definition maps are declarations in headers, instances of
  templates, forwarding functions and log messages.
- The logger; the renderer, whose helpers no other file calls; the command line, of which the modules take the options as constants.
- The bytes of a command's arguments, HELP, and DECLARE and the lists of fields as text.
- Keys that hold ':' in a traversal, positions beyond `MaxIndex`, a pattern that is empty.
- A signal that interrupts the saver between lock and unlock of its snapshot, which is one step.
- Several servers in one process: `main` makes one.

## Plan

1. Done: `KeyMapper`, `IndexedTable`; `Documents`, `IndexManager`, `RukoDb`; `SaveScheduler`, `Connection`, `Server`;
   `Strings`, `JsonText`, `Serialization`, `Storage`; the refinements and the proofs above.
2. Proofs: `IndexExact` for clients of a list, and with it `IndexedTogether`.
3. `Server` together with `SaveScheduler`: a snapshot that meets a command on mappings.
