------------------------ MODULE SaveSchedulerProofs ------------------------
(***************************************************************************)
(* For any number of clients, any limits, and however the process ends:    *)
(* the lock protocol of the clients is sound and the scheduler forgets no  *)
(* write.                                                                  *)
(***************************************************************************)
EXTENDS SaveScheduler, FiniteSetTheorems, TLAPS

(* Types and the lock: `mut` names exactly the client that is applying. *)
THEOREM SchedulerTyping == Spec => []TypeOK
<1>1. Init => TypeOK
  <2> SUFFICES ASSUME Init PROVE TypeOK
    OBVIOUS
  <2>1. scheduler \in {"loop", "ended"}
    BY Zenon DEF Init
  <2> QED
    BY <2>1, SchedulerAssumption DEF Init, TypeOK, Saver, Partial, Mixed
<1>2. TypeOK /\ [Next]_vars => TypeOK'
  <2> SUFFICES ASSUME TypeOK, [Next]_vars PROVE TypeOK'
    OBVIOUS
  <2> USE DEF Saver, TypeOK, saving, waking, Others, Goes, CloserGoes, Partial, Mixed, Thread, Up
  <2>1. ASSUME NEW w \in Writer, Lock(w) PROVE TypeOK'
    BY <2>1, SchedulerAssumption DEF Lock
  <2>2. ASSUME NEW w \in Writer, Apply(w) PROVE TypeOK'
    BY <2>2, SchedulerAssumption DEF Apply
  <2>3. ASSUME NEW w \in Writer, Count(w) PROVE TypeOK'
    BY <2>3 DEF Count
  <2>4. ASSUME NEW w \in Writer, Notify(w) PROVE TypeOK'
    BY <2>4 DEF Notify
  <2>5. CASE Tick
    BY <2>5 DEF Tick
  <2>6. CASE Loop \/ Wait \/ Check \/ Reset
    <3>1. scheduler' \in {"wait", "check", "loop", "reset", "snapshot", "ended"}
      BY <2>6, Zenon DEF Loop, Wait, Check, Reset
    <3>2. count' \in Nat /\ event' \in BOOLEAN /\ due' \in BOOLEAN
      <4>1. CASE Loop \/ Check
        BY <4>1, Zenon DEF Loop, Check
      <4>2. CASE Wait
        BY <4>2, Zenon DEF Wait
      <4>3. CASE Reset
        BY <4>3 DEF Reset
      <4> QED
        BY <2>6, <4>1, <4>2, <4>3
    <3> QED
      BY <2>6, <3>1, <3>2 DEF Loop, Wait, Check, Reset
  <2>7. CASE SchedulerSnapshot \/ SchedulerOpen \/ SchedulerWrite \/ SchedulerPrint
    <3>1. CASE SchedulerSnapshot
      BY <3>1 DEF SchedulerSnapshot, Snapshot
    <3>2. CASE SchedulerOpen
      BY <3>2 DEF SchedulerOpen, Open
    <3>3. CASE SchedulerWrite
      BY <3>3 DEF SchedulerWrite, Write, AfterWrite
    <3>4. CASE SchedulerPrint
      BY <3>4 DEF SchedulerPrint, PrintDb
    <3> QED
      BY <2>7, <3>1, <3>2, <3>3, <3>4
  <2>8. CASE Close
    BY <2>8 DEF Close
  <2>9. CASE CloserSnapshot \/ CloserOpen \/ CloserWrite \/ CloserPrint
    <3>1. CASE CloserSnapshot
      BY <3>1 DEF CloserSnapshot, Snapshot
    <3>2. CASE CloserOpen
      BY <3>2 DEF CloserOpen, Open
    <3>3. CASE CloserWrite
      BY <3>3 DEF CloserWrite, Write, AfterWrite, AfterSave
    <3>4. CASE CloserPrint
      BY <3>4 DEF CloserPrint, PrintDb, AfterSave
    <3> QED
      BY <2>9, <3>1, <3>2, <3>3, <3>4
  <2>12. CASE Signal
    BY <2>12, SchedulerAssumption DEF Signal, Alive
  <2>13. CASE SignalAgain
    BY <2>13, SchedulerAssumption DEF SignalAgain, Alive
  <2>10. CASE Stop \/ Unlock \/ Join
    BY <2>10 DEF Stop, Unlock, Join
  <2>11. CASE UNCHANGED vars
    BY <2>11 DEF vars
  <2> QED
    BY <2>1, <2>2, <2>3, <2>4, <2>5, <2>6, <2>7, <2>8, <2>9, <2>10, <2>11,
       <2>12, <2>13 DEF Next, Command, SchedulerStep, CloserStep
<1> QED
  BY <1>1, <1>2, PTL DEF Spec

-----------------------------------------------------------------------------
(* writesSinceSave is reset before the snapshot is taken, never after it,  *)
(* so no interleaving makes the scheduler forget a write.                  *)
THEOREM NothingForgotten == Spec => []NoWriteForgotten
<1>1. Init => NoWriteForgotten
  BY DEF Init, NoWriteForgotten, Saver
<1>2. TypeOK /\ NoWriteForgotten /\ [Next]_vars => NoWriteForgotten'
  <2> SUFFICES ASSUME TypeOK, NoWriteForgotten, [Next]_vars PROVE NoWriteForgotten'
    OBVIOUS
  <2> USE DEF Saver, TypeOK, NoWriteForgotten, saving, waking, Others, Goes, CloserGoes
  <2>1. ASSUME NEW w \in Writer, Lock(w) PROVE NoWriteForgotten'
    BY <2>1, SchedulerAssumption DEF Lock
  <2>2. ASSUME NEW w \in Writer, Apply(w) PROVE NoWriteForgotten'
    BY <2>2, SchedulerAssumption DEF Apply
  <2>3. ASSUME NEW w \in Writer, Count(w) PROVE NoWriteForgotten'
    BY <2>3 DEF Count
  <2>4. ASSUME NEW w \in Writer, Notify(w) PROVE NoWriteForgotten'
    BY <2>4 DEF Notify
  <2>5. CASE Tick \/ Close \/ Signal \/ SignalAgain
    BY <2>5 DEF Tick, Close, Signal, SignalAgain
  <2>6. CASE Loop \/ Wait \/ Check \/ Reset
    BY <2>6 DEF Loop, Wait, Check, Reset
  <2>7. CASE SchedulerSnapshot
    BY <2>7 DEF SchedulerSnapshot, Snapshot
  <2>8. CASE SchedulerOpen \/ SchedulerWrite \/ SchedulerPrint
    BY <2>8 DEF SchedulerOpen, SchedulerWrite, SchedulerPrint, Open, Write, PrintDb
  <2>9. CASE CloserSnapshot \/ CloserOpen \/ CloserWrite \/ CloserPrint
    BY <2>9 DEF CloserSnapshot, CloserOpen, CloserWrite, CloserPrint, Snapshot, Open, Write, PrintDb
  <2>10. CASE Stop \/ Unlock \/ Join
    BY <2>10 DEF Stop, Unlock, Join
  <2>11. CASE UNCHANGED vars
    BY <2>11 DEF vars
  <2> QED
    BY <2>1, <2>2, <2>3, <2>4, <2>5, <2>6, <2>7, <2>8, <2>9, <2>10, <2>11
       DEF Next, Command, SchedulerStep, CloserStep
<1> QED
  BY <1>1, <1>2, SchedulerTyping, PTL DEF Spec

-----------------------------------------------------------------------------
(* Until the process begins to end only the scheduler touches the files.   *)
(* The database's holds the scheduler's last snapshot, or is being         *)
(* rewritten; the .json file is no older, and when it was printed while a  *)
(* client changed the database, that write is not in the snapshot either.  *)
FileFollows ==
  /\ snap["scheduler"] <= version
  /\ Up => /\ scheduler = "write" => file = Partial
           /\ scheduler \notin {"open", "write"} => file = snap["scheduler"]

JsonFollows ==
  Up /\ AsJson /\ scheduler \notin {"open", "write", "json"} =>
    IF json = Mixed THEN version > snap["scheduler"] \/ mut # Nobody
                    ELSE snap["scheduler"] <= json /\ json <= version

LEMMA FileFollowsScheduler == Spec => [](FileFollows /\ JsonFollows)
<1>1. Init => FileFollows /\ JsonFollows
  BY DEF Init, FileFollows, JsonFollows, Saver, Mixed
<1>2. TypeOK /\ FileFollows /\ JsonFollows /\ [Next]_vars => FileFollows' /\ JsonFollows'
  <2> SUFFICES ASSUME TypeOK, FileFollows, JsonFollows, [Next]_vars
               PROVE  FileFollows' /\ JsonFollows'
    OBVIOUS
  <2> USE DEF Saver, TypeOK, FileFollows, JsonFollows, saving, waking, Others, Goes, CloserGoes,
              Up, Mixed
  <2>1. ASSUME NEW w \in Writer, Command(w) PROVE FileFollows' /\ JsonFollows'
    <3>1. CASE Lock(w)
      BY <3>1, SchedulerAssumption DEF Lock
    <3>2. CASE Apply(w)
      BY <3>2 DEF Apply
    <3>3. CASE Count(w) \/ Notify(w)
      BY <3>3 DEF Count, Notify
    <3> QED
      BY <2>1, <3>1, <3>2, <3>3 DEF Command
  <2>2. CASE Tick \/ Close \/ Signal \/ SignalAgain
    BY <2>2 DEF Tick, Close, Signal, SignalAgain
  <2>3. CASE Loop \/ Wait \/ Check \/ Reset
    BY <2>3 DEF Loop, Wait, Check, Reset
  <2>4. CASE SchedulerSnapshot
    BY <2>4 DEF SchedulerSnapshot, Snapshot
  <2>5. CASE SchedulerOpen \/ SchedulerWrite
    BY <2>5 DEF SchedulerOpen, SchedulerWrite, Open, Write, AfterWrite
  <2>6. CASE SchedulerPrint
    BY <2>6 DEF SchedulerPrint, PrintDb
  <2>7. CASE CloserSnapshot \/ CloserOpen \/ CloserWrite \/ CloserPrint
    BY <2>7 DEF CloserSnapshot, CloserOpen, CloserWrite, CloserPrint, AfterWrite, AfterSave,
                Snapshot, Open, Write, PrintDb
  <2>8. CASE Stop \/ Unlock \/ Join
    BY <2>8 DEF Stop, Unlock, Join
  <2>9. CASE UNCHANGED vars
    BY <2>9 DEF vars
  <2> QED
    BY <2>1, <2>2, <2>3, <2>4, <2>5, <2>6, <2>7, <2>8, <2>9 DEF Next, SchedulerStep, CloserStep
<1> QED
  BY <1>1, <1>2, SchedulerTyping, PTL DEF Spec

(* What the count tells the scheduler is true of the files: once clients   *)
(* and scheduler rest with a count of zero, they hold every write.         *)
THEOREM ZeroAlwaysMeansSaved == Spec => []ZeroMeansSaved
<1>1. TypeOK /\ NoWriteForgotten /\ FileFollows /\ JsonFollows => ZeroMeansSaved
  BY DEF Saver, TypeOK, NoWriteForgotten, FileFollows, JsonFollows, ZeroMeansSaved, Resting, Up
<1> QED
  BY <1>1, SchedulerTyping, NothingForgotten, FileFollowsScheduler, PTL
-----------------------------------------------------------------------------
(* Every write behind the scheduler's snapshot is counted, but one in each *)
(* client that has applied it and not counted it yet.                      *)
Applied == {w \in Writer : client[w] = "applied"}
Counted ==
  /\ IsFiniteSet(Applied)
  /\ scheduler # "snapshot" => version <= snap["scheduler"] + count + Cardinality(Applied)

(* More writes than the limit: the event tells it, or a client is about to *)
(* signal it, or the scheduler is about to look.                           *)
Woken ==
  count > MaxDeltaWrites =>
    event \/ scheduler \in {"check", "reset"} \/ \E w \in Writer : client[w] = "counted"

(* A client that leaves or enters the middle of a command. *)
LEMMA AppliedApart ==
  ASSUME IsFiniteSet(Applied), NEW w \in Writer
  PROVE  /\ Cardinality(Applied) \in Nat
         /\ IsFiniteSet(Applied \cup {w})
         /\ w \notin Applied => Cardinality(Applied \cup {w}) = Cardinality(Applied) + 1
         /\ IsFiniteSet(Applied \ {w})
         /\ w \in Applied => Cardinality(Applied \ {w}) = Cardinality(Applied) - 1
BY FS_CardinalityType, FS_AddElement, FS_RemoveElement

LEMMA CountedStep ==
  ASSUME TypeOK, Counted, [Next]_vars
  PROVE  Counted'
<1> USE DEF Saver, TypeOK, saving, waking, Others, Goes, CloserGoes
<1>0. Cardinality(Applied) \in Nat
  BY FS_CardinalityType DEF Counted
<1>1. ASSUME NEW w \in Writer, Apply(w) PROVE Counted'
  <2>1. w \notin Applied /\ Applied' = Applied \cup {w}
    BY <1>1 DEF Apply, Applied
  <2>2. version' = version + 1 /\ UNCHANGED <<snap, count, scheduler>>
    BY <1>1 DEF Apply
  <2>3. IsFiniteSet(Applied)' /\ Cardinality(Applied)' = Cardinality(Applied) + 1
    BY <2>1, AppliedApart DEF Counted
  <2>4. snap["scheduler"] \in Nat
    OBVIOUS
  <2> QED
    BY <1>0, <2>2, <2>3, <2>4 DEF Counted
<1>2. ASSUME NEW w \in Writer, Count(w) PROVE Counted'
  <2>1. w \in Applied /\ Applied' = Applied \ {w}
    BY <1>2 DEF Count, Applied
  <2>2. count' = count + 1 /\ UNCHANGED <<snap, version, scheduler>>
    BY <1>2 DEF Count
  <2>3. IsFiniteSet(Applied)' /\ Cardinality(Applied)' = Cardinality(Applied) - 1
    BY <2>1, AppliedApart DEF Counted
  <2>4. snap["scheduler"] \in Nat
    OBVIOUS
  <2> QED
    BY <1>0, <2>2, <2>3, <2>4 DEF Counted
<1>3. ASSUME NEW w \in Writer, Lock(w) \/ Notify(w) PROVE Counted'
  <2>1. Applied' = Applied /\ UNCHANGED <<snap, version, count, scheduler>>
    BY <1>3 DEF Lock, Notify, Applied
  <2> QED
    BY <2>1 DEF Counted
<1>4. CASE Reset
  <2>1. scheduler' = "snapshot" /\ Applied' = Applied
    BY <1>4 DEF Reset, Applied
  <2> QED
    BY <2>1 DEF Counted
<1>5. CASE SchedulerSnapshot
  <2>1. Applied' = Applied /\ snap'["scheduler"] = version /\ count' = count /\ version' = version
    BY <1>5 DEF SchedulerSnapshot, Snapshot, Applied
  <2> QED
    BY <1>0, <2>1 DEF Counted
<1>6. CASE \/ Tick \/ Loop \/ Wait \/ Check \/ SchedulerOpen \/ SchedulerWrite \/ SchedulerPrint
           \/ Close \/ Signal \/ SignalAgain \/ CloserStep \/ UNCHANGED vars
  <2>1. UNCHANGED <<client, version, count>>
    BY <1>6 DEF Tick, Loop, Wait, Check, SchedulerOpen, SchedulerWrite, SchedulerPrint, Open, Write,
                PrintDb, Close, Signal, SignalAgain, CloserStep, CloserSnapshot, CloserOpen, CloserWrite,
                CloserPrint, Snapshot, Stop, Unlock, Join, vars
  <2>2. snap'["scheduler"] = snap["scheduler"]
    BY <1>6 DEF Tick, Loop, Wait, Check, SchedulerOpen, SchedulerWrite, SchedulerPrint, Open, Write,
                PrintDb, Close, Signal, SignalAgain, CloserStep, CloserSnapshot, CloserOpen, CloserWrite,
                CloserPrint, Snapshot, Stop, Unlock, Join, vars
  <2>3. scheduler' # "snapshot" => scheduler # "snapshot"
    BY <1>6 DEF Tick, Loop, Wait, Check, SchedulerOpen, SchedulerWrite, SchedulerPrint, Open, Write,
                PrintDb, Close, Signal, SignalAgain, CloserStep, CloserSnapshot, CloserOpen, CloserWrite,
                CloserPrint, Snapshot, Stop, Unlock, Join, vars
  <2> QED
    BY <2>1, <2>2, <2>3 DEF Counted, Applied
<1> QED
  BY <1>1, <1>2, <1>3, <1>4, <1>5, <1>6 DEF Next, Command, SchedulerStep

LEMMA WokenStep ==
  ASSUME TypeOK, Woken, [Next]_vars
  PROVE  Woken'
<1> USE SchedulerAssumption DEF TypeOK, saving, waking, Others, Goes, CloserGoes
<1>1. ASSUME NEW w \in Writer, Count(w) PROVE Woken'
  <2>1. client'[w] = "counted"
    BY <1>1 DEF Count
  <2> QED
    BY <2>1 DEF Woken
<1>2. ASSUME NEW w \in Writer, Notify(w) PROVE Woken'
  BY <1>2 DEF Notify, Woken
<1>3. ASSUME NEW w \in Writer, Lock(w) \/ Apply(w) PROVE Woken'
  <2>1. UNCHANGED <<count, event, scheduler>>
    BY <1>3 DEF Lock, Apply
  <2>2. ASSUME NEW d \in Writer, client[d] = "counted" PROVE client'[d] = "counted"
    BY <1>3, <2>2 DEF Lock, Apply
  <2> QED
    BY <2>1, <2>2 DEF Woken
<1>4. CASE Wait \/ Reset
  BY <1>4 DEF Wait, Reset, Woken
<1>5. CASE Check
  BY <1>5 DEF Check, Needed, Woken
<1>6. CASE \/ Tick \/ Loop \/ SchedulerSnapshot \/ SchedulerOpen \/ SchedulerWrite \/ SchedulerPrint
           \/ Close \/ Signal \/ SignalAgain \/ CloserStep \/ UNCHANGED vars
  <2>1. UNCHANGED <<client, count>> /\ (event => event')
    BY <1>6 DEF Tick, Loop, SchedulerSnapshot, SchedulerOpen, SchedulerWrite, SchedulerPrint, Open, Write,
                PrintDb, Close, Signal, SignalAgain, CloserStep, CloserSnapshot, CloserOpen, CloserWrite,
                CloserPrint, Snapshot, Stop, Unlock, Join, vars
  <2>2. scheduler \in {"check", "reset"} => scheduler' = scheduler
    BY <1>6 DEF Tick, Loop, SchedulerSnapshot, SchedulerOpen, SchedulerWrite, SchedulerPrint, Open, Write,
                PrintDb, Close, Signal, SignalAgain, CloserStep, CloserSnapshot, CloserOpen, CloserWrite,
                CloserPrint, Snapshot, Stop, Unlock, Join, vars
  <2> QED
    BY <2>1, <2>2 DEF Woken
<1> QED
  BY <1>1, <1>2, <1>3, <1>4, <1>5, <1>6 DEF Next, Command, SchedulerStep

(* registerWrite and run: for any number of clients and any limit, a       *)
(* scheduler that sleeps leaves no more than maxDeltaWrites writes to the  *)
(* next save.                                                              *)
THEOREM LossIsBounded == Spec => []LossBounded
<1>1. Init => Counted /\ Woken
  <2> SUFFICES ASSUME Init PROVE Counted /\ Woken
    OBVIOUS
  <2>1. Applied = {}
    BY DEF Init, Applied
  <2> QED
    BY <2>1, FS_EmptySet, SchedulerAssumption DEF Init, Counted, Woken, Saver
<1>2. TypeOK /\ FileFollows /\ Counted /\ Woken => LossBounded
  <2> SUFFICES ASSUME TypeOK, FileFollows, Counted, Woken, Up, Asleep,
                      \A w \in Writer : ~InCommand(w)
               PROVE  version <= file + MaxDeltaWrites
    BY DEF LossBounded
  <2>1. Applied = {} /\ Cardinality(Applied) = 0
    BY FS_EmptySet DEF Applied, InCommand
  <2>2. count <= MaxDeltaWrites
    BY SchedulerAssumption DEF Woken, Asleep, InCommand, TypeOK
  <2>3. file = snap["scheduler"] /\ version <= snap["scheduler"] + count
    BY <2>1 DEF Counted, FileFollows, Asleep, TypeOK, Saver
  <2> QED
    BY <2>2, <2>3, SchedulerAssumption DEF TypeOK, Saver
<1> QED
  BY <1>1, <1>2, CountedStep, WokenStep, SchedulerTyping, FileFollowsScheduler, PTL DEF Spec

-----------------------------------------------------------------------------
(* SaveScheduler::shutdown sets isAlive before it unlocks updateEvent: the *)
(* thread it joins has a way to its end from wherever it is.               *)
Told == closer \in {"unlock", "join"} => ~isAlive

THEOREM ShutdownWakes == Spec => []JoinWakes
<1>1. Init => Told /\ JoinWakes
  BY SchedulerAssumption DEF Init, Told, JoinWakes
<1>2. TypeOK /\ Told /\ JoinWakes /\ [Next]_vars => Told' /\ JoinWakes'
  <2> SUFFICES ASSUME TypeOK, Told, JoinWakes, [Next]_vars PROVE Told' /\ JoinWakes'
    OBVIOUS
  <2> USE DEF Told, JoinWakes, Asleep, TypeOK, saving, waking, Others, Goes, CloserGoes, Up
  <2>1. ASSUME NEW w \in Writer, Command(w) PROVE Told' /\ JoinWakes'
    BY <2>1 DEF Command, Lock, Apply, Count, Notify
  <2>2. CASE Tick \/ Close \/ Signal \/ SignalAgain
    BY <2>2 DEF Tick, Close, Signal, SignalAgain
  <2>3. CASE Loop \/ Wait \/ Check \/ Reset
    BY <2>3 DEF Loop, Wait, Check, Reset
  <2>4. CASE SchedulerSnapshot \/ SchedulerOpen \/ SchedulerWrite \/ SchedulerPrint
    BY <2>4 DEF SchedulerSnapshot, SchedulerOpen, SchedulerWrite, SchedulerPrint, Snapshot, Open, Write,
                PrintDb, AfterWrite
  <2>5. CASE CloserSnapshot \/ CloserOpen \/ CloserWrite \/ CloserPrint
    BY <2>5 DEF CloserSnapshot, CloserOpen, CloserWrite, CloserPrint, AfterWrite, AfterSave
  <2>6. CASE Stop \/ Unlock \/ Join
    BY <2>6 DEF Stop, Unlock, Join
  <2>7. CASE UNCHANGED vars
    BY <2>7 DEF vars
  <2> QED
    BY <2>1, <2>2, <2>3, <2>4, <2>5, <2>6, <2>7 DEF Next, SchedulerStep, CloserStep
<1> QED
  BY <1>1, <1>2, SchedulerTyping, PTL DEF Spec
=============================================================================
