---------------------------- MODULE SaveScheduler ----------------------------
(***************************************************************************)
(* The threads that decide what of the database is in its file: the        *)
(* threads that run commands (RukoServer::runCommand), the thread of       *)
(* SaveScheduler, and the end of the process: RukoServer::shutdown on the  *)
(* main thread after the interactive shell, or signalHandler on whatever   *)
(* thread a signal interrupts.                                             *)
(*                                                                         *)
(* The database is the number of writes applied to it.  updateEvent is a   *)
(* mutex that one thread locks and others unlock, which makes it a binary  *)
(* semaphore: unlocking it twice is the same as once.                      *)
(***************************************************************************)
EXTENDS Integers

CONSTANTS Writer,          \* the main thread, and those of the clients
          Main,            \* the one that reads the shell's lines or accepts clients
          MaxDeltaWrites,  \* the limit given to the scheduler
          MaxVersion,      \* bound: clients write no more than this
          Fronts,          \* what main starts, "shell" or "server"
          AsJson,          \* --as-json: a save also prints the database to a .json file
          EarlyStart,      \* TRUE: the thread may start before isAlive is initialized
          Nobody

ASSUME SchedulerAssumption ==
  /\ MaxDeltaWrites \in Nat /\ MaxVersion \in Nat
  /\ Main \in Writer /\ Nobody \notin Writer
  /\ Fronts \subseteq {"shell", "server"}
  /\ AsJson \in BOOLEAN /\ EarlyStart \in BOOLEAN
  /\ "scheduler" \notin Writer

VARIABLES
  version,      \* writes applied to the database
  mut,          \* who holds RukoDb::mut
  client,       \* where each client thread is in its command
  count,        \* writesSinceSave
  event,        \* updateEvent is unlocked
  due,          \* maxDeltaTime has passed since lastSave
  isAlive,
  scheduler,    \* where the scheduler's thread is
  closer,       \* "shell" or "server", then where shutdown or the signal handler is
  interrupted,  \* the threads that signal handlers run on
  snap,         \* what each saver last serialized
  file,         \* the version in the file, or Partial or Mixed
  json          \* the version in the .json file, or Mixed

vars == <<version, mut, client, count, event, due, isAlive, scheduler, closer,
          interrupted, snap, file, json>>
saving == <<snap, file, json>>
waking == <<count, event, due, isAlive>>

Partial == -1   \* opened, so truncated, and not yet written
Mixed   == -2   \* two snapshots written over each other, or a print of a changing database

Saver == {"scheduler", "closer"}
Thread == Writer \cup {"scheduler"}
Up == closer \in {"shell", "server"}

(* A shell has no client threads; a server's main thread runs no commands. *)
Init ==
  /\ version = 0 /\ mut = Nobody
  /\ closer \in Fronts
  /\ client = [w \in Writer |-> IF (closer = "shell") = (w = Main) THEN "idle" ELSE "away"]
  /\ count = 0 /\ event = TRUE /\ due = FALSE /\ isAlive = TRUE
  /\ scheduler \in {"loop"} \cup (IF EarlyStart THEN {"ended"} ELSE {})
  /\ interrupted = {}
  /\ snap = [s \in Saver |-> 0] /\ file = 0 /\ json = 0

Running(thread) == closer # "done" /\ thread \notin interrupted

-----------------------------------------------------------------------------
(* RukoDb::set and the other writes, under the lock.  In a shell shutdown  *)
(* follows the last command; a signal stops no other thread.               *)
Lock(w) ==
  /\ Running(w) /\ client[w] = "idle" /\ mut = Nobody /\ version < MaxVersion
  /\ Up \/ interrupted # {}
  /\ mut' = w
  /\ client' = [client EXCEPT ![w] = "locked"]
  /\ UNCHANGED <<version, waking, scheduler, closer, interrupted, saving>>

(* Mutated form of Apply: the lock is not released. *)
ApplyLocked(w) ==
  /\ Running(w) /\ client[w] = "locked"
  /\ version' = version + 1
  /\ client' = [client EXCEPT ![w] = "applied"]
  /\ UNCHANGED <<mut, waking, scheduler, closer, interrupted, saving>>

Apply(w) ==
  /\ Running(w) /\ client[w] = "locked"
  /\ version' = version + 1
  /\ mut' = Nobody
  /\ client' = [client EXCEPT ![w] = "applied"]
  /\ UNCHANGED <<waking, scheduler, closer, interrupted, saving>>

(* registerWrite: ++writesSinceSave, then updateEvent.unlock(). *)
Count(w) ==
  /\ Running(w) /\ client[w] = "applied"
  /\ count' = count + 1
  /\ client' = [client EXCEPT ![w] = "counted"]
  /\ UNCHANGED <<version, mut, event, due, isAlive, scheduler, closer, interrupted, saving>>

(* Mutated form of Notify: the scheduler is not woken. *)
NotifyNobody(w) ==
  /\ Running(w) /\ client[w] = "counted"
  /\ client' = [client EXCEPT ![w] = "idle"]
  /\ UNCHANGED <<version, mut, waking, scheduler, closer, interrupted, saving>>

Notify(w) ==
  /\ Running(w) /\ client[w] = "counted"
  /\ event' = TRUE
  /\ client' = [client EXCEPT ![w] = "idle"]
  /\ UNCHANGED <<version, mut, count, due, isAlive, scheduler, closer, interrupted, saving>>

-----------------------------------------------------------------------------
Tick ==
  /\ closer # "done" /\ ~due
  /\ due' = TRUE
  /\ UNCHANGED <<version, mut, client, count, event, isAlive, scheduler, closer,
                 interrupted, saving>>

(* The scheduler's thread goes from one place in run() to another. *)
Goes(from, to) == Running("scheduler") /\ scheduler = from /\ scheduler' = to
Others == <<version, mut, client, closer, interrupted>>

Loop ==
  /\ \/ isAlive /\ Goes("loop", "wait")
     \/ ~isAlive /\ Goes("loop", "ended")
  /\ UNCHANGED <<Others, waking, saving>>

Wait ==
  /\ event /\ Goes("wait", "check")
  /\ event' = FALSE
  /\ UNCHANGED <<Others, count, due, isAlive, saving>>

(* Mutated form of Needed: only the number of writes counts. *)
NeededByCount == count > MaxDeltaWrites

Needed == (due /\ count > 0) \/ count > MaxDeltaWrites

Check ==
  /\ \/ Needed /\ Goes("check", "reset")
     \/ ~Needed /\ Goes("check", "loop")
  /\ UNCHANGED <<Others, waking, saving>>

Reset ==
  /\ Goes("reset", "snapshot")
  /\ count' = 0 /\ due' = FALSE
  /\ UNCHANGED <<Others, event, isAlive, saving>>

-----------------------------------------------------------------------------
(* RukoDb::save: the snapshot under the lock, the files without it. *)
Snapshot(s) ==
  /\ mut = Nobody
  /\ snap' = [snap EXCEPT ![s] = version]
  /\ UNCHANGED <<version, mut, client, waking, interrupted, file, json>>

Open(s) ==
  /\ file' = Partial
  /\ UNCHANGED <<version, mut, client, waking, interrupted, snap, json>>

(* Over another snapshot that a saver wrote since this one opened the file *)
(* the new one starts at the beginning; a longer old one shows behind it.  *)
Write(s) ==
  /\ file' \in {snap[s]} \cup (IF file \in {Partial, snap[s]} THEN {} ELSE {Mixed})
  /\ UNCHANGED <<version, mut, client, waking, interrupted, snap, json>>

AfterWrite(end) == IF AsJson THEN "json" ELSE end

(* Mutated form of PrintDb: the snapshot is printed once more, too early. *)
PrintDbBehind(s) ==
  /\ json' = IF snap[s] > 0 THEN snap[s] - 1 ELSE 0
  /\ UNCHANGED <<version, mut, client, waking, interrupted, snap, file>>

(* db.toString() takes no lock: it reads what a client is changing. *)
PrintDb(s) ==
  /\ json' = IF mut = Nobody THEN version ELSE Mixed
  /\ UNCHANGED <<version, mut, client, waking, interrupted, snap, file>>

SchedulerSnapshot == Goes("snapshot", "open") /\ Snapshot("scheduler") /\ UNCHANGED closer
SchedulerOpen     == Goes("open", "write") /\ Open("scheduler") /\ UNCHANGED closer

(* Mutated form of SchedulerWrite: the count is reset after the save. *)
SchedulerWriteResets ==
  /\ Goes("write", AfterWrite("loop"))
  /\ file' = snap["scheduler"] /\ count' = 0
  /\ UNCHANGED <<Others, event, due, isAlive, snap, json>>

SchedulerWrite    == Goes("write", AfterWrite("loop")) /\ Write("scheduler") /\ UNCHANGED closer

(* Reading the tree while it changes may also end the process. *)
SchedulerPrint ==
  /\ Goes("json", "loop") /\ PrintDb("scheduler")
  /\ closer' \in {closer} \cup (IF mut = Nobody THEN {} ELSE {"done"})

-----------------------------------------------------------------------------
(* The shell has read its last line.                                       *)
Close ==
  /\ closer = "shell" /\ client[Main] = "idle"
  /\ closer' = "snapshot"
  /\ UNCHANGED <<version, mut, client, waking, scheduler, interrupted, saving>>

Alive == {Main, "scheduler"} \cup {w \in Writer : client[w] # "away"}

(* A signal interrupts any thread; signalHandler locks openServersMut.  No *)
(* signal comes during shutdown, nor does the shell end during a signal.   *)
Signal ==
  /\ Up /\ closer' = "snapshot"
  /\ \E t \in Alive : interrupted' = {t}
  /\ UNCHANGED <<version, mut, client, waking, scheduler, saving>>

(* Another signal: on a thread of its own its handler waits for            *)
(* openServersMut, on the one that holds it for ever.                      *)
SignalAgain ==
  /\ closer \in {"snapshot", "open", "write", "json"} /\ interrupted # {}
  /\ \/ \E t \in Thread : interrupted = {t} /\ closer' = "stuck" /\ UNCHANGED interrupted
     \/ \E t \in Alive : \E first \in Thread \ {t} :
          /\ interrupted = {first}
          /\ interrupted' = {first, t} /\ UNCHANGED closer
  /\ UNCHANGED <<version, mut, client, waking, scheduler, saving>>

CloserGoes(from, to) == closer = from /\ closer' = to /\ UNCHANGED scheduler

CloserSnapshot == CloserGoes("snapshot", "open") /\ Snapshot("closer")
CloserOpen     == CloserGoes("open", "write") /\ Open("closer")

(* After the save, the handler calls exit(1) whatever the threads do.      *)
AfterSave == IF interrupted = {} THEN "stop" ELSE "done"

CloserWrite == CloserGoes("write", AfterWrite(AfterSave)) /\ Write("closer")

CloserPrint ==
  /\ closer = "json" /\ PrintDb("closer") /\ UNCHANGED scheduler
  /\ closer' \in {AfterSave} \cup (IF mut = Nobody THEN {} ELSE {"done"})

(* SaveScheduler::shutdown: isAlive = false, updateEvent.unlock(), join(). *)
Stop ==
  /\ CloserGoes("stop", "unlock")
  /\ isAlive' = FALSE
  /\ UNCHANGED <<version, mut, client, count, event, due, interrupted, saving>>

(* Mutated form of Unlock: shutdown does not wake the scheduler. *)
UnlockNothing ==
  /\ CloserGoes("unlock", "join")
  /\ UNCHANGED <<version, mut, client, waking, interrupted, saving>>

Unlock ==
  /\ CloserGoes("unlock", "join")
  /\ event' = TRUE
  /\ UNCHANGED <<version, mut, client, count, due, isAlive, interrupted, saving>>

Join ==
  /\ CloserGoes("join", "done") /\ scheduler = "ended"
  /\ UNCHANGED <<version, mut, client, waking, interrupted, saving>>

-----------------------------------------------------------------------------
Command(w) == Lock(w) \/ Apply(w) \/ Count(w) \/ Notify(w)
SchedulerStep ==
  Loop \/ Wait \/ Check \/ Reset
  \/ SchedulerSnapshot \/ SchedulerOpen \/ SchedulerWrite \/ SchedulerPrint
CloserStep ==
  CloserSnapshot \/ CloserOpen \/ CloserWrite \/ CloserPrint \/ Stop \/ Unlock \/ Join

Next ==
  (\E w \in Writer : Command(w)) \/ Tick \/ SchedulerStep
  \/ Close \/ Signal \/ SignalAgain \/ CloserStep

Spec == Init /\ [][Next]_vars

(* The threads are scheduled, and the mutex does not starve who waits for  *)
(* it.  Clients need not send commands, nor does the process have to end.  *)
Fairness ==
  /\ \A w \in Writer : WF_vars(Apply(w)) /\ WF_vars(Count(w)) /\ WF_vars(Notify(w))
  /\ WF_vars(SchedulerStep) /\ SF_vars(SchedulerSnapshot)
  /\ WF_vars(CloserStep) /\ SF_vars(CloserSnapshot)

FairSpec == Spec /\ Fairness

-----------------------------------------------------------------------------
(* Types, and that a client holds the lock exactly while it applies a write. *)
TypeOK ==
  /\ version \in Nat /\ count \in Nat
  /\ event \in BOOLEAN /\ due \in BOOLEAN /\ isAlive \in BOOLEAN
  /\ client \in [Writer -> {"away", "idle", "locked", "applied", "counted"}]
  /\ scheduler \in {"loop", "wait", "check", "reset", "snapshot", "open", "write", "json", "ended"}
  /\ closer \in {"shell", "server", "snapshot", "open", "write", "json",
                 "stop", "unlock", "join", "stuck", "done"}
  /\ interrupted \subseteq Thread
  /\ snap \in [Saver -> Nat]
  /\ file \in Nat \cup {Partial, Mixed} /\ json \in Nat \cup {Mixed}
  /\ mut \in Writer \cup {Nobody}
  /\ \A w \in Writer : mut = w <=> client[w] = "locked"

(* A write that the scheduler has not serialized is counted, is about to   *)
(* be, or is in the save that has begun: no reset of writesSinceSave, at   *)
(* whatever moment, makes the scheduler forget a write.                    *)
NoWriteForgotten ==
  version > snap["scheduler"] =>
    count > 0 \/ scheduler = "snapshot" \/ \E w \in Writer : client[w] = "applied"

(* Between saves of a process that is not ending, a count of zero means    *)
(* that the file holds every write, and once no client is in the middle of *)
(* one, that the .json copy, which is printed without the lock, does too.  *)
Resting == Up /\ scheduler \in {"loop", "wait", "check"} /\ \A w \in Writer : client[w] # "applied"
ZeroMeansSaved ==
  Resting /\ count = 0 => file = version /\ (AsJson /\ mut = Nobody => json = version)

(* A scheduler that sleeps, with no signal on its way to it, leaves at     *)
(* most MaxDeltaWrites writes out of the file: that is what the end of the *)
(* process can lose, however the signals of several writers fall together  *)
(* in the one event.                                                       *)
Asleep == scheduler = "wait" /\ ~event
InCommand(w) == client[w] \in {"applied", "counted"}
LossBounded ==
  Up /\ Asleep /\ (\A w \in Writer : ~InCommand(w)) => version <= file + MaxDeltaWrites

(* A shutdown that waits for the scheduler's thread has told it to end and *)
(* has woken it: the two never wait for each other.                        *)
JoinWakes == closer = "join" => ~isAlive /\ ~Asleep

(* Once more writes than the limit are counted, a save begins, however the *)
(* signals of several writers fall together, unless the process is ending. *)
SaveAtLimit == (count > MaxDeltaWrites) ~> (scheduler = "snapshot" \/ ~Up)

(* The scheduler looks at the clock only when a write wakes it: a write    *)
(* whose signal comes when the time is over is not left to the next one.   *)
SaveWhenDue ==
  (due /\ count > 0 /\ \E w \in Writer : client[w] = "counted") ~> (scheduler = "snapshot" \/ ~Up)

(* A shutdown ends: the scheduler, wherever it is, is woken and joined.    *)
ShutdownEnds == (closer = "snapshot" /\ interrupted = {}) ~> (closer = "done")

(* A signal ends the process, unless a handler runs on the thread that     *)
(* holds RukoDb::mut, or twice on one thread.                              *)
SignalEnds ==
  (closer = "snapshot" /\ interrupted # {}) ~> (closer \in {"done", "stuck"} \/ mut \in interrupted)

(* testRuko.cpp:270 saves and expects to find in the file all it wrote: so *)
(* a process that ends by RukoServer::shutdown, which saves after the last *)
(* command, does not leave an older database in the file.  A signal makes  *)
(* no such promise: other threads write while its handler saves.           *)
ShutdownDurable == closer = "done" /\ interrupted = {} => file \notin 0 .. version - 1
=============================================================================
