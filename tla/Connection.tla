----------------------------- MODULE Connection -----------------------------
(***************************************************************************)
(* One client's session: RukoServer::handleClient reads the commands from  *)
(* the socket, runs each and sends its reply.  The client may send several *)
(* commands before it reads a reply, and leave at any moment, also in the  *)
(* middle of a command.                                                    *)
(*                                                                         *)
(* A command is a header of 4 bytes with the length of the body, and the   *)
(* body.  Bytes are known by their place in the client's stream, which     *)
(* reaches the server in order and in pieces of any size.                  *)
(***************************************************************************)
EXTENDS Integers, Sequences, FiniteSetsExt

CONSTANTS
  Ends,        \* where in the client's stream its commands end, in their order
  BufferSize,  \* of Socket: what one read() of the system returns at most
  IntMax,      \* Socket::read takes an int
  Room         \* replies the client's socket holds until the client reads them

Header == 4

ASSUME ConnectionAssumption ==
  /\ Ends \in Seq(Nat)
  /\ \A i \in DOMAIN Ends : Header <= Ends[i]
  /\ \A i, j \in DOMAIN Ends : i < j => Ends[i] + Header <= Ends[j]
  /\ BufferSize \in Nat \ {0} /\ IntMax \in Nat \ {0} /\ Room \in Nat \ {0}

VARIABLES
  sent,      \* how much of the client's stream has arrived
  open,      \* the client has not closed its end
  taken,     \* how much the server has read
  session,   \* what handleClient is doing: "header", "body", "reply", "left"
  start,     \* where the Socket::read in progress began
  want,      \* its numbytes, less what it has
  ran,       \* the bodies of the commands that were run, as parts of the stream
  unread,    \* replies in the client's socket
  received,  \* replies the client has read
  reset,     \* the client's side has refused a reply
  process    \* "up", or "dead" of a SIGPIPE

vars == <<sent, open, taken, session, start, want, ran, unread, received, reset, process>>
client == <<sent, open, received>>
reading == <<taken, start, want>>

(* Where the command after the first i begins, and the length of its body. *)
Offset(i) == IF i = 0 THEN 0 ELSE Ends[i]
Total == Offset(Len(Ends))

Body(i) == [from |-> Offset(i - 1) + Header, to |-> Offset(i)]
Length(i) == Offset(i) - (Offset(i - 1) + Header)

(* bytesToU32 of the bytes at a place; what is no header has any length. *)
LenAt(place) ==
  LET i == {i \in DOMAIN Ends : Offset(i - 1) = place}
  IN IF i = {} THEN 0 .. IntMax ELSE {Length(j) : j \in i}

Init ==
  /\ sent = 0 /\ open = TRUE /\ taken = 0
  /\ session = "header" /\ start = 0 /\ want = Header
  /\ ran = <<>> /\ unread = 0 /\ received = 0
  /\ reset = FALSE /\ process = "up"

-----------------------------------------------------------------------------
(* The client and the network. *)
Arrive ==
  /\ open
  /\ \E n \in sent + 1 .. Total : sent' = n
  /\ UNCHANGED <<open, reading, session, ran, unread, received, reset, process>>

Receive ==
  /\ open /\ unread > 0
  /\ unread' = unread - 1 /\ received' = received + 1
  /\ UNCHANGED <<sent, open, reading, session, ran, reset, process>>

Close ==
  /\ open /\ open' = FALSE
  /\ UNCHANGED <<sent, reading, session, ran, unread, received, reset, process>>

-----------------------------------------------------------------------------
Serving(at) == process = "up" /\ session \in at

Piece == Min({BufferSize, want, sent - taken})

(* Mutated form of ReadBuffer: read returns what the first piece brings. *)
ReadBufferOnce ==
  /\ Serving({"header", "body"}) /\ want > 0 /\ taken < sent
  /\ taken' = taken + Piece /\ want' = 0
  /\ session' = IF Piece = want THEN session ELSE "left"
  /\ UNCHANGED <<client, start, ran, unread, reset, process>>

(* readBuffer: as much of what has arrived as is wanted and fits. *)
ReadBuffer ==
  /\ Serving({"header", "body"}) /\ want > 0 /\ taken < sent
  /\ taken' = taken + Piece /\ want' = want - Piece
  /\ UNCHANGED <<client, session, start, ran, unread, reset, process>>

(* Mutated form of ReadEnd: a short message is run as if it were whole. *)
ReadEndRuns ==
  /\ Serving({"header", "body"}) /\ want > 0 /\ taken = sent /\ ~open
  /\ IF session = "header" \/ taken = start THEN session' = "left" /\ UNCHANGED ran
     ELSE /\ session' = "reply"
          /\ ran' = Append(ran, [from |-> start, to |-> taken])
  /\ UNCHANGED <<client, reading, unread, reset, process>>

(* Mutated form of ReadEnd: read goes on when it gets nothing. *)
ReadEndRetries ==
  /\ Serving({"header", "body"}) /\ want > 0 /\ taken = sent /\ ~open
  /\ UNCHANGED vars

(* Nothing is left to read: readNextMessage returns no message. *)
ReadEnd ==
  /\ Serving({"header", "body"}) /\ want > 0 /\ taken = sent /\ ~open
  /\ session' = "left"
  /\ UNCHANGED <<client, reading, ran, unread, reset, process>>

(* Mutated form of ReadHeader: the length is taken to count the header. *)
ReadHeaderAgain ==
  /\ Serving({"header"}) /\ want = 0
  /\ \E len \in LenAt(start) :
       session' = "body" /\ start' = taken /\ want' = len - Header
  /\ UNCHANGED <<client, taken, ran, unread, reset, process>>

(* An empty body ends the session, and so does a length over IntMax: as an *)
(* int it is negative, so read returns nothing and the sizes differ.       *)
ReadHeader ==
  /\ Serving({"header"}) /\ want = 0
  /\ \E len \in LenAt(start) :
       \/ len \in 1 .. IntMax /\ session' = "body" /\ start' = taken /\ want' = len
       \/ len \notin 1 .. IntMax /\ session' = "left" /\ UNCHANGED <<start, want>>
  /\ UNCHANGED <<client, taken, ran, unread, reset, process>>

(* Mutated form of Run: a command that writes nothing is not answered. *)
RunSilent ==
  /\ Serving({"body"}) /\ want = 0
  /\ ran' = Append(ran, [from |-> start, to |-> taken])
  /\ session' = "header" /\ start' = taken /\ want' = Header
  /\ UNCHANGED <<client, taken, unread, reset, process>>

(* Command::fromStream and perform. *)
Run ==
  /\ Serving({"body"}) /\ want = 0
  /\ ran' = Append(ran, [from |-> start, to |-> taken])
  /\ session' = "reply"
  /\ UNCHANGED <<client, reading, unread, reset, process>>

-----------------------------------------------------------------------------
NextMessage == session' = "header" /\ start' = taken /\ want' = Header

(* write blocks while the client's socket is full. *)
Reply ==
  /\ Serving({"reply"}) /\ open /\ unread < Room
  /\ unread' = unread + 1
  /\ NextMessage
  /\ UNCHANGED <<client, taken, ran, reset, process>>

(* A reply to a client that has left succeeds, its result is not looked    *)
(* at, and the client's side answers it with a reset, sooner or later.     *)
ReplyLost ==
  /\ Serving({"reply"}) /\ ~open /\ ~reset
  /\ reset' \in BOOLEAN
  /\ NextMessage
  /\ UNCHANGED <<client, taken, ran, unread, process>>

(* The next one raises SIGPIPE, which RukoServer::init does not handle. *)
BrokenPipe ==
  /\ Serving({"reply"}) /\ reset
  /\ process' = "dead"
  /\ UNCHANGED <<client, reading, session, ran, unread, reset>>

HandleClient == ReadBuffer \/ ReadEnd \/ ReadHeader \/ Run \/ Reply \/ ReplyLost \/ BrokenPipe

Next == Arrive \/ Receive \/ Close \/ HandleClient

(* The client's thread in the server runs, and the client reads replies    *)
(* that have come; it need not send anything, nor ever close.              *)
Spec == Init /\ [][Next]_vars /\ WF_vars(HandleClient) /\ WF_vars(Receive)

-----------------------------------------------------------------------------
(* Types, and that a message in progress ends where the reads will end. *)
TypeOK ==
  /\ sent \in 0 .. Total /\ taken \in 0 .. sent
  /\ open \in BOOLEAN /\ reset \in BOOLEAN
  /\ session \in {"header", "body", "reply", "left"}
  /\ start \in 0 .. taken /\ want \in 0 .. IntMax + Header
  /\ ran \in Seq([from : Nat, to : Nat])
  /\ unread \in 0 .. Room /\ received \in Nat
  /\ process \in {"up", "dead"}

(* However the stream is cut into pieces, and wherever it ends: the i-th   *)
(* command the server runs is the i-th the client sent, and all of it had  *)
(* arrived.                                                                *)
WholeCommands ==
  /\ Len(ran) <= Len(Ends)
  /\ \A i \in DOMAIN ran : ran[i] = Body(i) /\ ran[i].to <= sent

(* The session as its client sees it: which commands have come, how many   *)
(* were done and how many answered.                                        *)
Dialogue == INSTANCE Dialogue WITH
  Commands <- Len(Ends),
  asked    <- {i \in DOMAIN Ends : Offset(i) <= sent},
  done     <- Len(ran),
  answered <- IF session = "reply" THEN Len(ran) - 1 ELSE Len(ran),
  heard    <- received,
  present  <- open

(* However the bytes of commands and replies meet, every step of a session *)
(* is one of the dialogue (RukoServer::handleClient): no command is done   *)
(* before the one in front of it was answered, and the replies a client    *)
(* reads are one for each command.                                         *)
KeepsDialogue == Dialogue!Spec

(* Commands a server can take: up to the first it ends the session for. *)
Served(i) == \A j \in 1 .. i : Length(j) \in 1 .. IntMax

(* A command that arrived whole is answered, unless the client leaves.     *)
Answered ==
  \A i \in DOMAIN Ends :
     Served(i) /\ sent >= Offset(i) ~> received >= i \/ ~open

(* The session of a client that left ends, whatever it was doing. *)
SessionEnds == ~open ~> session = "left" \/ process = "dead"
=============================================================================
