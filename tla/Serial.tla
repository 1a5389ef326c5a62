------------------------------- MODULE Serial -------------------------------
(***************************************************************************)
(* What the commands of many clients come to: Server with a history        *)
(* variable, which no step reads, for the database as it was when the      *)
(* command that a thread is inside of began.                               *)
(***************************************************************************)
EXTENDS Server

VARIABLE before

serialvars == <<allvars, before>>

NoMachine == Machine(Leaf(Dict), {<<>>}, NoMappers, <<>>)

Remember ==
  before' = IF AtRest' THEN NoMachine ELSE IF AtRest THEN Now ELSE before

SerialInit == ServerInit /\ before = NoMachine
SerialNext == ServerNext /\ Remember
SerialSpec == SerialInit /\ [][SerialNext]_serialvars /\ Fairness

(* The database as the last finished command left it. *)
Began == IF AtRest THEN Now ELSE before

(* What a command would do to the database m with no other client there.   *)
Alone(m, command) ==
  LET t == Led(m, command)
  IN CASE command.name = "CREATE_MAPPING" -> Replying(CreateMapping(t, command.pattern))
       [] command.name = "DELETE_MAPPING" -> Replying(DeleteMapping(t))
       [] command.name = "GET_MAPPINGS" -> [m |-> m, answer |-> reply]
       [] OTHER -> Performed(command, t)

Finishes(c) == at[c] # "reply" /\ at'[c] = "reply"

(* What the lock of RukoDb.hpp:31 is for, taken in every command on data:  *)
(* as long as no command on mappings meets another command in the indices, *)
(* the threads' steps come to whole commands, one after the other.  When   *)
(* one finishes, the database and its reply are what it alone would have   *)
(* made of the database the one before left, nothing else changes that,    *)
(* and the process fails only where a command alone would fail.            *)
OneCommand ==
  /\ \A c \in Clients : Finishes(c) =>
       LET alone == Alone(Began, doing[c])
       IN /\ alone.m.fault # "throw"
          /\ Began' = [alone.m EXCEPT !.fault = "none"] /\ reply' = alone.answer
  /\ (\A c \in Clients : ~Finishes(c)) => UNCHANGED <<Began, reply>>
  /\ status = "up" /\ status' = "failed" =>
       \E c \in Clients : at[c] \in Inside \cup {"ready"} /\ Alone(Began, doing[c]).m.fault # "none"
OneByOne == [][~raced' => OneCommand]_serialvars
=============================================================================
