-------------------------- MODULE ConnectionProofs --------------------------
(***************************************************************************)
(* For any commands, any sizes of buffer and socket, and any pieces: a     *)
(* session runs the commands that were sent, whole and in order.           *)
(***************************************************************************)
EXTENDS Connection, TLAPS

(* A later command begins behind the header of an earlier one. *)
LEMMA OffsetsGrow ==
  /\ \A i \in 0 .. Len(Ends) : Offset(i) \in Nat
  /\ \A i, j \in 0 .. Len(Ends) : i < j => Offset(i) + Header <= Offset(j)
BY ConnectionAssumption DEF Offset, Header

(* A piece is not longer than what is wanted or than what has arrived. *)
LEMMA PieceFits ==
  ASSUME want \in Nat \ {0}, sent \in Nat, taken \in Nat, taken < sent
  PROVE  Piece \in 1 .. want /\ Piece <= sent - taken
<1> DEFINE S == {BufferSize, want, sent - taken}
<1>1. S \subseteq Nat \ {0}
  BY ConnectionAssumption
<1>2. \E x \in S : \A y \in S : x <= y
  <2>1. CASE BufferSize <= want /\ BufferSize <= sent - taken
    BY <1>1, <2>1
  <2>2. CASE want <= BufferSize /\ want <= sent - taken
    BY <1>1, <2>2
  <2>3. CASE sent - taken <= BufferSize /\ sent - taken <= want
    BY <1>1, <2>3
  <2> QED
    BY <1>1, <2>1, <2>2, <2>3
<1>3. Piece \in S /\ \A y \in S : Piece <= y
  BY <1>2 DEF Piece, Min
<1> QED
  BY <1>1, <1>3

(* Where the server is in the stream: after the header or in the body of   *)
(* the command that comes after those that were run, or at its end.        *)
Placed ==
  /\ Len(ran) <= Len(Ends)
  /\ \A i \in 1 .. Len(ran) : ran[i] = Body(i)
  /\ Offset(Len(ran)) <= taken
  /\ session = "header" => start = Offset(Len(ran)) /\ taken + want = start + Header
  /\ session = "body" => /\ Len(ran) < Len(Ends)
                         /\ start = Offset(Len(ran)) + Header
                         /\ taken + want = Offset(Len(ran) + 1)
  /\ session = "reply" => taken = Offset(Len(ran))

SessionInv == TypeOK /\ Placed

LEMMA SessionInit == Init => SessionInv
<1> SUFFICES ASSUME Init PROVE SessionInv
  OBVIOUS
<1>1. Total \in Nat /\ Len(Ends) \in Nat
  BY OffsetsGrow, ConnectionAssumption DEF Total
<1>2. ran = <<>> /\ Len(ran) = 0 /\ Offset(Len(ran)) = 0
  BY DEF Init, Offset
<1>3. TypeOK
  <2>1. ran \in Seq([from : Nat, to : Nat])
    BY <1>2
  <2>2. /\ sent \in 0 .. Total /\ taken \in 0 .. sent /\ start \in 0 .. taken
        /\ want \in 0 .. IntMax + Header /\ unread \in 0 .. Room /\ received \in Nat
    BY <1>1, ConnectionAssumption DEF Init, Header
  <2> QED
    BY <2>1, <2>2 DEF Init, TypeOK
<1> QED
  BY <1>1, <1>2, <1>3 DEF Init, SessionInv, Placed, Header

(* The header that was just read tells the length of its own command. *)
LEMMA HeaderTells ==
  ASSUME SessionInv, session = "header", want = 0
  PROVE  /\ Len(ran) < Len(Ends)
         /\ LenAt(start) = {Length(Len(ran) + 1)}
         /\ taken + Length(Len(ran) + 1) = Offset(Len(ran) + 1)
<1> DEFINE n == Len(ran)
<1>0. n \in Nat /\ Len(Ends) \in Nat /\ n <= Len(Ends)
  BY ConnectionAssumption DEF SessionInv, TypeOK, Placed
<1>1. start = Offset(n) /\ taken = Offset(n) + Header
  BY DEF SessionInv, TypeOK, Placed, Header
<1>2. n < Len(Ends)
  BY <1>0, <1>1, OffsetsGrow DEF SessionInv, TypeOK, Total, Header
<1>3. {j \in DOMAIN Ends : Offset(j - 1) = start} = {n + 1}
  <2>1. DOMAIN Ends = 1 .. Len(Ends)
    BY ConnectionAssumption
  <2>2. ASSUME NEW j \in 1 .. Len(Ends), Offset(j - 1) = Offset(n) PROVE j = n + 1
    <3>1. j - 1 \in 0 .. Len(Ends) /\ n \in 0 .. Len(Ends)
      BY <1>0
    <3>2. ~(j - 1 < n) /\ ~(n < j - 1)
      BY <2>2, <3>1, OffsetsGrow DEF Header
    <3> QED
      BY <1>0, <3>1, <3>2
  <2>3. n + 1 \in 1 .. Len(Ends) /\ (n + 1) - 1 = n
    BY <1>0, <1>2
  <2> QED
    BY <1>1, <2>1, <2>2, <2>3
<1>4. LenAt(start) = {Length(n + 1)}
  BY <1>3 DEF LenAt
<1>5. taken + Length(n + 1) = Offset(n + 1)
  <2>1. (n + 1) - 1 = n /\ Offset(n) \in Nat /\ Offset(n + 1) \in Nat
    BY <1>0, <1>2, OffsetsGrow
  <2> QED
    BY <1>1, <2>1 DEF Length, Header
<1> QED
  BY <1>2, <1>4, <1>5

LEMMA SessionStep == SessionInv /\ [Next]_vars => SessionInv'
<1> SUFFICES ASSUME SessionInv, [Next]_vars PROVE SessionInv'
  OBVIOUS
<1> DEFINE n == Len(ran)
<1>0. /\ n \in Nat /\ Len(Ends) \in Nat /\ n <= Len(Ends) /\ Total \in Nat
      /\ \A i \in 0 .. Len(Ends) : Offset(i) \in Nat
      /\ \A i, j \in 0 .. Len(Ends) : i < j => Offset(i) + Header <= Offset(j)
  BY OffsetsGrow, ConnectionAssumption DEF SessionInv, TypeOK, Placed, Total
<1> USE DEF SessionInv
<1>1. CASE Arrive \/ Receive \/ Close
  <2>1. UNCHANGED <<reading, session, ran>>
    BY <1>1 DEF Arrive, Receive, Close
  <2>2. sent \in 0 .. sent' /\ sent' \in 0 .. Total
    BY <1>0, <1>1 DEF Arrive, Receive, Close, TypeOK
  <2>3. unread' \in 0 .. Room /\ received' \in Nat
    BY <1>1, ConnectionAssumption DEF Arrive, Receive, Close, TypeOK
  <2>4. open' \in BOOLEAN /\ reset' \in BOOLEAN /\ process' \in {"up", "dead"}
    BY <1>1 DEF Arrive, Receive, Close, TypeOK
  <2>5. taken' \in 0 .. sent'
    BY <2>1, <2>2 DEF TypeOK, reading
  <2>6. TypeOK'
    BY <2>1, <2>2, <2>3, <2>4, <2>5 DEF TypeOK, reading
  <2> QED
    BY <2>1, <2>6 DEF Placed, reading
<1>2. CASE ReadBuffer
  <2>1. Piece \in 1 .. want /\ Piece <= sent - taken
    BY <1>2, PieceFits, ConnectionAssumption DEF ReadBuffer, TypeOK, Header
  <2>2. TypeOK'
    BY <1>0, <1>2, <2>1, ConnectionAssumption DEF ReadBuffer, TypeOK, client, Header
  <2>3. taken' + want' = taken + want /\ taken <= taken'
    BY <1>0, <1>2, <2>1, ConnectionAssumption DEF ReadBuffer, TypeOK, Header
  <2>4. session' = session /\ start' = start /\ ran' = ran /\ session \in {"header", "body"}
    BY <1>2 DEF ReadBuffer, Serving
  <2>5. Offset(n) \in Nat /\ taken \in Nat /\ taken' \in Nat
    BY <1>0, <2>2 DEF TypeOK
  <2> QED
    BY <2>2, <2>3, <2>4, <2>5 DEF Placed
<1>3. CASE ReadEnd
  BY <1>3 DEF ReadEnd, TypeOK, Placed, client, reading
<1>4. CASE ReadHeader
  <2>1. /\ n < Len(Ends) /\ LenAt(start) = {Length(n + 1)}
        /\ taken + Length(n + 1) = Offset(n + 1)
    BY <1>4, HeaderTells DEF ReadHeader, Serving
  <2>2. ran' = ran /\ taken' = taken /\ sent' = sent
    BY <1>4 DEF ReadHeader, client
  <2>3. \/ session' = "left" /\ start' = start /\ want' = want
        \/ /\ session' = "body" /\ start' = taken /\ want' = Length(n + 1)
           /\ Length(n + 1) \in 1 .. IntMax
    BY <1>4, <2>1 DEF ReadHeader
  <2>4. start = Offset(n) /\ taken = Offset(n) + Header
    BY <1>4 DEF ReadHeader, Serving, TypeOK, Placed, Header
  <2>5. TypeOK'
    BY <1>0, <1>4, <2>2, <2>3, ConnectionAssumption DEF ReadHeader, TypeOK, client, Header
  <2> QED
    BY <2>1, <2>2, <2>3, <2>4, <2>5 DEF Placed
<1>5. CASE Run
  <2>1. n < Len(Ends) /\ start = Offset(n) + Header /\ taken = Offset(n + 1)
    BY <1>0, <1>5 DEF Run, Serving, TypeOK, Placed
  <2>2. /\ ran' = Append(ran, [from |-> start, to |-> taken])
        /\ session' = "reply" /\ taken' = taken
    BY <1>5 DEF Run, reading
  <2>3. [from |-> start, to |-> taken] = Body(n + 1)
    BY <1>0, <2>1 DEF Body
  <2>4. /\ ran' \in Seq([from : Nat, to : Nat])
        /\ Len(ran') = n + 1 /\ ran'[n + 1] = Body(n + 1)
        /\ \A i \in 1 .. n : ran'[i] = ran[i]
    BY <2>2, <2>3 DEF TypeOK
  <2>5. TypeOK'
    BY <1>5, <2>4 DEF Run, TypeOK, client, reading
  <2>6. ASSUME NEW i \in 1 .. n + 1 PROVE ran'[i] = Body(i)
    <3>1. CASE i \in 1 .. n
      <4>1. ran[i] = Body(i)
        BY <3>1 DEF Placed
      <4> QED
        BY <3>1, <4>1, <2>4
    <3>2. CASE i = n + 1
      BY <3>2, <2>4
    <3> QED
      BY <1>0, <3>1, <3>2
  <2> QED
    BY <1>0, <2>1, <2>2, <2>4, <2>5, <2>6 DEF Placed
<1>6. CASE Reply \/ ReplyLost
  <2>1. /\ session = "reply" /\ ran' = ran /\ taken' = taken /\ sent' = sent
        /\ session' = "header" /\ start' = taken /\ want' = Header
    BY <1>6 DEF Reply, ReplyLost, Serving, NextMessage, client
  <2>2. TypeOK'
    BY <1>6, <2>1, ConnectionAssumption DEF Reply, ReplyLost, TypeOK, client, Header
  <2> QED
    BY <2>1, <2>2 DEF Placed
<1>7. CASE BrokenPipe \/ UNCHANGED vars
  BY <1>7 DEF BrokenPipe, vars, TypeOK, Placed, client, reading
<1> QED
  BY <1>1, <1>2, <1>3, <1>4, <1>5, <1>6, <1>7 DEF Next, HandleClient

LEMMA SessionInvariant == Spec => []SessionInv
BY SessionInit, SessionStep, PTL DEF Spec

(* The types of a session, for any commands, buffer and room (Socket.cpp,  *)
(* handleClient).                                                          *)
THEOREM SessionTyping == Spec => []TypeOK
<1>1. SessionInv => TypeOK
  BY DEF SessionInv
<1> QED
  BY <1>1, SessionInvariant, PTL

(* However the stream is cut and wherever it ends, the i-th command a      *)
(* session runs is the i-th that was sent, and all of it had arrived       *)
(* (readNextMessage).                                                      *)
THEOREM SessionWhole == Spec => []WholeCommands
<1>1. SessionInv => WholeCommands
  <2> SUFFICES ASSUME SessionInv, NEW i \in DOMAIN ran PROVE ran[i] = Body(i) /\ ran[i].to <= sent
    BY DEF WholeCommands, SessionInv, Placed
  <2>1. i \in 1 .. Len(ran) /\ Len(ran) \in Nat /\ Len(Ends) \in Nat /\ Len(ran) <= Len(Ends)
    BY ConnectionAssumption DEF SessionInv, TypeOK, Placed
  <2>2. ran[i] = Body(i)
    BY <2>1 DEF SessionInv, Placed
  <2>4. ran[i].to = Offset(i)
    BY <2>2 DEF Body
  <2>3. Offset(i) <= Offset(Len(ran)) /\ Offset(Len(ran)) <= taken
    BY <2>1, OffsetsGrow DEF SessionInv, Placed, Header
  <2>5. Offset(i) \in Nat /\ Offset(Len(ran)) \in Nat /\ taken \in 0 .. sent /\ sent \in Nat
    BY <2>1, OffsetsGrow, ConnectionAssumption DEF SessionInv, TypeOK, Total
  <2> QED
    BY <2>2, <2>3, <2>4, <2>5
<1> QED
  BY <1>1, SessionInvariant, PTL
-----------------------------------------------------------------------------
(* The client holds no more replies than there were commands answered. *)
AnsweredSoFar == IF session = "reply" THEN Len(ran) - 1 ELSE Len(ran)
Heard ==
  /\ session = "reply" => Len(ran) > 0
  /\ received + unread <= AnsweredSoFar

LEMMA HeardStep ==
  ASSUME SessionInv, Heard, [Next]_vars
  PROVE  Heard'
<1>0. Len(ran) \in Nat /\ received \in Nat /\ unread \in Nat
  BY ConnectionAssumption DEF SessionInv, TypeOK
<1>1. CASE Arrive \/ Receive \/ Close
  <2>1. UNCHANGED <<session, ran>> /\ received' + unread' = received + unread
    BY <1>0, <1>1 DEF Arrive, Receive, Close
  <2> QED
    BY <2>1 DEF Heard, AnsweredSoFar
<1>2. CASE Run
  <2>1. session = "body" /\ session' = "reply" /\ UNCHANGED <<received, unread>>
    BY <1>2 DEF Run, Serving, client
  <2>2. Len(ran') = Len(ran) + 1
    BY <1>2 DEF Run, SessionInv, TypeOK
  <2> QED
    BY <1>0, <2>1, <2>2 DEF Heard, AnsweredSoFar
<1>3. CASE Reply \/ ReplyLost
  <2>1. session = "reply" /\ session' = "header" /\ UNCHANGED <<received, ran>>
    BY <1>3 DEF Reply, ReplyLost, Serving, NextMessage, client
  <2>2. unread' = unread + 1 \/ unread' = unread
    BY <1>3 DEF Reply, ReplyLost
  <2> QED
    BY <1>0, <2>1, <2>2 DEF Heard, AnsweredSoFar
<1>4. CASE ReadBuffer \/ ReadEnd \/ ReadHeader \/ BrokenPipe \/ UNCHANGED vars
  <2>1. UNCHANGED <<ran, received, unread>>
    BY <1>4 DEF ReadBuffer, ReadEnd, ReadHeader, BrokenPipe, vars, client
  <2>2. session' = session \/ (session # "reply" /\ session' # "reply")
    BY <1>4 DEF ReadBuffer, ReadEnd, ReadHeader, BrokenPipe, vars, Serving
  <2> QED
    BY <2>1, <2>2 DEF Heard, AnsweredSoFar
<1> QED
  BY <1>1, <1>2, <1>3, <1>4 DEF Next, HandleClient

(* Each step of a session is a step of the dialogue, or none. *)
LEMMA DialogueStep ==
  ASSUME SessionInv, SessionInv', Heard, [Next]_vars
  PROVE  [Dialogue!Next]_Dialogue!vars
<1> DEFINE come == {i \in DOMAIN Ends : Offset(i) <= sent}
<1>0. /\ Len(ran) \in Nat /\ received \in Nat /\ unread \in Nat /\ Len(Ends) \in Nat
      /\ DOMAIN Ends = 1 .. Len(Ends) /\ sent \in Nat /\ sent' \in Nat
      /\ \A i \in 1 .. Len(Ends) : Offset(i) \in Nat
  BY OffsetsGrow, ConnectionAssumption DEF SessionInv, TypeOK, Total
<1> USE DEF Dialogue!vars
<1>1. CASE Arrive
  <2>1. open /\ sent < sent' /\ UNCHANGED <<ran, session, received, open>>
    BY <1>0, <1>1 DEF Arrive
  <2>2. come \subseteq come' /\ come' \subseteq 1 .. Len(Ends)
    BY <1>0, <2>1 DEF Offset
  <2> QED
    BY <2>1, <2>2 DEF Dialogue!Next, Dialogue!Ask
<1>2. CASE Receive
  <2>1. open /\ unread > 0 /\ received' = received + 1 /\ UNCHANGED <<ran, session, sent, open>>
    BY <1>2 DEF Receive, reading
  <2>2. received < AnsweredSoFar
    BY <1>0, <2>1 DEF Heard, AnsweredSoFar
  <2> QED
    BY <2>1, <2>2 DEF Dialogue!Next, Dialogue!Hear, AnsweredSoFar, Offset
<1>3. CASE Close
  BY <1>3 DEF Close, Dialogue!Next, Dialogue!Leave, Offset
<1>4. CASE Run
  <2>1. /\ session = "body" /\ session' = "reply" /\ UNCHANGED <<received, sent, open>>
        /\ ran' = Append(ran, [from |-> start, to |-> taken])
    BY <1>4 DEF Run, Serving, client
  <2>2. Len(ran') = Len(ran) + 1
    BY <2>1 DEF SessionInv, TypeOK
  <2>3. Len(ran) + 1 \in come
    <3>1. Len(ran) + 1 \in 1 .. Len(Ends) /\ Offset(Len(ran) + 1) = taken /\ taken <= sent
      BY <1>0, <1>4, ConnectionAssumption DEF Run, Serving, SessionInv, TypeOK, Placed
    <3> QED
      BY <1>0, <3>1
  <2>4. UNCHANGED come
    BY <2>1 DEF Offset
  <2> QED
    BY <1>0, <2>1, <2>2, <2>3, <2>4 DEF Dialogue!Next, Dialogue!Do
<1>5. CASE Reply \/ ReplyLost
  <2>1. session = "reply" /\ session' = "header" /\ UNCHANGED <<received, ran, sent, open>>
    BY <1>5 DEF Reply, ReplyLost, Serving, NextMessage, client
  <2> QED
    BY <1>0, <2>1 DEF Dialogue!Next, Dialogue!Answer, Offset
<1>6. CASE ReadBuffer \/ ReadEnd \/ ReadHeader \/ BrokenPipe \/ UNCHANGED vars
  <2>1. UNCHANGED <<ran, received, sent, open>>
    BY <1>6 DEF ReadBuffer, ReadEnd, ReadHeader, BrokenPipe, vars, client
  <2>2. session' = session \/ (session # "reply" /\ session' # "reply")
    BY <1>6 DEF ReadBuffer, ReadEnd, ReadHeader, BrokenPipe, vars, Serving
  <2> QED
    BY <2>1, <2>2 DEF Offset
<1> QED
  BY <1>1, <1>2, <1>3, <1>4, <1>5, <1>6 DEF Next, HandleClient

(* For any commands, buffer and cut of the stream, and wherever the client *)
(* leaves: a session does the commands in order, each when all of it has   *)
(* come and the one before was answered, and answers each once             *)
(* (RukoServer::handleClient).                                             *)
THEOREM SessionKeepsDialogue == Spec => KeepsDialogue
<1>1. Init => Heard /\ Dialogue!Init
  <2> SUFFICES ASSUME Init PROVE Heard /\ Dialogue!Init
    OBVIOUS
  <2>1. Len(ran) = 0 /\ sent = 0 /\ session = "header" /\ received = 0 /\ unread = 0 /\ open
    BY DEF Init
  <2>2. {i \in DOMAIN Ends : Offset(i) <= sent} = {}
    BY <2>1, ConnectionAssumption DEF Offset, Header
  <2> QED
    BY <2>1, <2>2 DEF Heard, AnsweredSoFar, Dialogue!Init
<1> QED
  BY <1>1, HeardStep, DialogueStep, SessionInvariant, PTL DEF Spec, KeepsDialogue, Dialogue!Spec
=============================================================================
