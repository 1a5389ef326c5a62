------------------------------- MODULE Dialogue -------------------------------
(***************************************************************************)
(* What a session promises a client (RukoServer::handleClient, the loop    *)
(* over one client): commands are done one at a time, in the order they    *)
(* were sent, each only when all of it has come; one is answered before    *)
(* the next is done, once, and answers are heard in that order.            *)
(***************************************************************************)
EXTENDS Integers

CONSTANT Commands   \* how many the client may send

VARIABLES
  asked,      \* the commands that have come
  done,       \* how many were done
  answered,   \* how many of these were answered
  heard,      \* how many answers the client has read
  present     \* the client has not left

vars == <<asked, done, answered, heard, present>>

Init == asked = {} /\ done = 0 /\ answered = 0 /\ heard = 0 /\ present = TRUE

Ask ==
  /\ present
  /\ asked' \in SUBSET (1 .. Commands) /\ asked \subseteq asked'
  /\ UNCHANGED <<done, answered, heard, present>>

Do ==
  /\ done = answered /\ done + 1 \in asked
  /\ done' = done + 1
  /\ UNCHANGED <<asked, answered, heard, present>>

(* An answer to a client that has left is lost. *)
Answer ==
  /\ answered < done
  /\ answered' = answered + 1
  /\ UNCHANGED <<asked, done, heard, present>>

Hear ==
  /\ present /\ heard < answered
  /\ heard' = heard + 1
  /\ UNCHANGED <<asked, done, answered, present>>

Leave ==
  /\ present /\ present' = FALSE
  /\ UNCHANGED <<asked, done, answered, heard>>

Next == Ask \/ Do \/ Answer \/ Hear \/ Leave

Spec == Init /\ [][Next]_vars
=============================================================================
