--------------------------- MODULE LspClientProofs ---------------------------
(***************************************************************************)
(* Proofs about the language-server client, for any calls and any room in  *)
(* the stream.                                                             *)
(***************************************************************************)
EXTENDS LspClient, SequenceTheorems, TLAPS

Reading == loop \in {"reading", "deliver"}

\* The stream to the server holds whole frames, then maybe the header of the call that
\* holds writeMu.
Wire ==
    /\ \A c \in Calls : pc[c] = "payload" => writeMu = c
    /\ writeMu # None => pc[writeMu] = "payload"
    /\ stream = "eof" => out = <<>> /\ server = None /\ asked = {}
    /\ writeMu # None /\ stream = "open" =>
         out # <<>> /\ out[Len(out)] = <<writeMu, "header">>
    /\ writeMu = None /\ out # <<>> => out[Len(out)][2] = "payload"
    /\ out # <<>> => out[1][2] = "header"
    /\ \A i \in 1..(Len(out) - 1) :
         /\ out[i][2] = "header" <=> out[i + 1][2] = "payload"
         /\ out[i][2] = "header" => out[i + 1][1] = out[i][1]

\* Where the answer to a request is: in a frame on its way to the server (or asked
\* there), about to be said, on its way back, with the loop, or in the slot (full).
Framed == {out[i][1] : i \in 1..Len(out)}
Saying == {r \in Requests : server = Answer(r)}
Said   == {r \in Requests : \E i \in 1..Len(inc) : inc[i] = Answer(r)}
Held   == {r \in Requests : loop = "deliver" /\ target = r}

\* It is at one place at a time, and at none before the request is sent, after it was
\* taken, or if the send failed.
Places == \A r \in Requests :
    /\ r \in Framed => r \notin asked \cup Saying \cup Said \cup Held \cup full
    /\ r \in asked => r \notin Saying \cup Said \cup Held \cup full
    /\ r \in Saying => r \notin Said \cup Held \cup full
    /\ r \in Said => r \notin Held \cup full
    /\ r \in Held => r \notin full
    /\ pc[r] \in {"idle", "send", "payload", "leave"} =>
         r \notin asked \cup Saying \cup Said \cup Held \cup full
    /\ pc[r] \in {"idle", "send", "leave"} => r \notin Framed

Distinct ==
    /\ \A i, j \in 1..Len(out) :
         (/\ out[i][2] = "header" /\ out[j][2] = "header"
          /\ out[i][1] = out[j][1] /\ out[i][1] \in Requests) => i = j
    /\ \A i, j \in 1..Len(inc) :
         inc[i] = inc[j] /\ inc[i].kind = "answer" => i = j

\* While the loop reads, no request has two answers.
OneAnswer == Reading => Places /\ Distinct

\* What failAllPending finds.
Late ==
    /\ loop = "deliver" => target # None
    /\ target # None => loop \in {"deliver", "failing"}
    /\ loop = "failing" =>
         /\ target # None => target \in pending
         /\ \A r \in pending \cap full : pc[r] \in {"select", "late"}

-----------------------------------------------------------------------------
(* Types and the map.                                                      *)

\* What is left of a sequence without its first two elements.
LEMMA DropFrame ==
    ASSUME NEW S, NEW q \in Seq(S), Len(q) >= 2
    PROVE  /\ SubSeq(q, 3, Len(q)) \in Seq(S)
           /\ Len(SubSeq(q, 3, Len(q))) = Len(q) - 2
           /\ \A i \in 1..(Len(q) - 2) : i + 2 \in 1..Len(q) /\ SubSeq(q, 3, Len(q))[i] = q[i + 2]
  <1> DEFINE rest == SubSeq(q, 3, Len(q))
  <1>1. Len(q) \in Nat /\ \A i \in 3..Len(q) : q[i] \in S
    OBVIOUS
  <1>2. /\ rest \in Seq(S)
        /\ Len(rest) = IF 3 =< Len(q) THEN Len(q) - 3 + 1 ELSE 0
        /\ \A i \in 1..(Len(q) - 3 + 1) : rest[i] = q[3 + i - 1]
    BY <1>1, SubSeqProperties
  <1> HIDE DEF rest
  <1>3. Len(rest) = Len(q) - 2
    <2>1. CASE 3 =< Len(q)
      <3>1. Len(rest) = Len(q) - 3 + 1
        BY <1>2, <2>1
      <3> QED
        BY <1>1, <3>1
    <2>2. CASE ~(3 =< Len(q))
      <3>1. Len(rest) = 0
        BY <1>2, <2>2
      <3>2. Len(q) = 2
        <4>1. \A n \in Nat : n >= 2 /\ ~(3 =< n) => n = 2
          OBVIOUS
        <4> QED
          BY <1>1, <2>2, <4>1
      <3> QED
        BY <3>1, <3>2
    <2> QED
      BY <2>1, <2>2
  <1>4. \A i \in 1..(Len(q) - 2) : i \in 1..(Len(q) - 3 + 1) /\ i + 2 \in 1..Len(q) /\ 3 + i - 1 = i + 2
    BY <1>1
  <1>5. \A i \in 1..(Len(q) - 2) : i + 2 \in 1..Len(q) /\ rest[i] = q[i + 2]
    BY <1>2, <1>4
  <1> QED
    BY <1>2, <1>3, <1>5 DEF rest

\* Every step keeps the types.
LEMMA TypeStep ==
    ASSUME TypeOK, Late, [Next]_vars
    PROVE  TypeOK'
  <1> USE ClientAssumption DEF TypeOK, Late, Calls, Messages, Answer, Ask, Note, Noise, Go,
                               callVars, loopVars, serverVars
  <1>1. ASSUME NEW r \in Requests, Request(r) PROVE TypeOK'
    BY <1>1 DEF Request
  <1>2. ASSUME NEW r \in Requests, Receive(r) PROVE TypeOK'
    BY <1>2 DEF Receive, Ends
  <1>3. ASSUME NEW r \in Requests, SeeClosed(r) PROVE TypeOK'
    BY <1>3 DEF SeeClosed, Ends
  <1>4. ASSUME NEW r \in Requests, Leave(r) PROVE TypeOK'
    BY <1>4 DEF Leave
  <1>5. ASSUME NEW r \in Requests, TimeOut(r) PROVE TypeOK'
    BY <1>5 DEF TimeOut, Ends
  <1>6. ASSUME NEW s \in Sends, Notify(s) PROVE TypeOK'
    BY <1>6 DEF Notify
  <1>7. ASSUME NEW c \in Calls, WriteHeader(c) PROVE TypeOK'
    BY <1>7 DEF WriteHeader, Written, MayWrite
  <1>8. ASSUME NEW c \in Calls, WritePayload(c) PROVE TypeOK'
    BY <1>8 DEF WritePayload, Written
  <1>9. ASSUME NEW c \in Calls, WriteFails(c) PROVE TypeOK'
    BY <1>9 DEF WriteFails, SendFailed, MayWrite
  <1>10. ASSUME NEW r \in Requests, ReadAnswer(r) PROVE TypeOK'
    BY <1>10 DEF ReadAnswer, Reads, Readable
  <1>11. ASSUME NEW s \in Sends, ReadAsk(s) PROVE TypeOK'
    BY <1>11 DEF ReadAsk, Reads, Readable
  <1>12. CASE ReadNote
    BY <1>12 DEF ReadNote, Reads, Readable
  <1>13. CASE ReadNoise
    BY <1>13 DEF ReadNoise, Reads, Readable
  <1>14. CASE Deliver
    BY <1>14 DEF Deliver
  <1>15. CASE ReadFails
    BY <1>15 DEF ReadFails
  <1>16. CASE FailNext
    BY <1>16 DEF FailNext
  <1>17. CASE FailOne
    BY <1>17 DEF FailOne, Failed
  <1>18. CASE FailedAll
    BY <1>18 DEF FailedAll
  <1>19. CASE CloseClosed
    BY <1>19 DEF CloseClosed, Closed
  <1>20. CASE Close
    BY <1>20 DEF Close
  <1>21. ASSUME NEW r \in Requests, ServerAnswers(r) PROVE TypeOK'
    BY <1>21 DEF ServerAnswers, Says
  <1>22. ASSUME NEW s \in Sends, ServerAsks(s) PROVE TypeOK'
    BY <1>22 DEF ServerAsks, Says
  <1>23. CASE ServerNotifies
    BY <1>23 DEF ServerNotifies, Says
  <1>24. CASE ServerGarbles
    BY <1>24 DEF ServerGarbles, Says
  <1>25. CASE ServerReads
    <2>1. out' \in Seq(Calls \X {"header", "payload"})
      BY <1>25, DropFrame DEF ServerReads
    <2> QED
      BY <1>25, <2>1 DEF ServerReads
  <1>26. CASE ServerWrites
    BY <1>26 DEF ServerWrites
  <1>27. CASE UNCHANGED vars
    BY <1>27 DEF vars
  <1> QED
    BY <1>1, <1>2, <1>3, <1>4, <1>5, <1>6, <1>7, <1>8, <1>9, <1>10, <1>11, <1>12, <1>13, <1>14,
       <1>15, <1>16, <1>17, <1>18, <1>19, <1>20, <1>21, <1>22, <1>23, <1>24, <1>25, <1>26, <1>27
    DEF Next, Awaiting, Sending, Loop, Server

\* Every step keeps the map exact.
LEMMA PendingStep ==
    ASSUME TypeOK, PendingExact, [Next]_vars
    PROVE  PendingExact'
  <1> USE ClientAssumption DEF TypeOK, PendingExact, PendingMuFree, Calls, Go, callVars, loopVars, serverVars
  <1>1. ASSUME NEW r \in Requests, Request(r) PROVE PendingExact'
    BY <1>1 DEF Request
  <1>2. ASSUME NEW r \in Requests, Receive(r) PROVE PendingExact'
    BY <1>2 DEF Receive, Ends
  <1>3. ASSUME NEW r \in Requests, SeeClosed(r) PROVE PendingExact'
    BY <1>3 DEF SeeClosed, Ends
  <1>4. ASSUME NEW r \in Requests, Leave(r) PROVE PendingExact'
    BY <1>4 DEF Leave
  <1>5. ASSUME NEW r \in Requests, TimeOut(r) PROVE PendingExact'
    BY <1>5 DEF TimeOut, Ends
  <1>6. ASSUME NEW s \in Sends, Notify(s) PROVE PendingExact'
    BY <1>6 DEF Notify
  <1>7. ASSUME NEW c \in Calls, WriteHeader(c) PROVE PendingExact'
    BY <1>7 DEF WriteHeader, Written, MayWrite
  <1>8. ASSUME NEW c \in Calls, WritePayload(c) PROVE PendingExact'
    BY <1>8 DEF WritePayload, Written
  <1>9. ASSUME NEW c \in Calls, WriteFails(c) PROVE PendingExact'
    BY <1>9 DEF WriteFails, SendFailed, MayWrite
  <1>10. ASSUME NEW r \in Requests, ReadAnswer(r) PROVE PendingExact'
    BY <1>10 DEF ReadAnswer, Reads, Readable
  <1>11. ASSUME NEW s \in Sends, ReadAsk(s) PROVE PendingExact'
    BY <1>11 DEF ReadAsk, Reads, Readable
  <1>12. CASE ReadNote
    BY <1>12 DEF ReadNote, Reads, Readable
  <1>13. CASE ReadNoise
    BY <1>13 DEF ReadNoise, Reads, Readable
  <1>14. CASE Deliver
    BY <1>14 DEF Deliver
  <1>15. CASE ReadFails
    BY <1>15 DEF ReadFails
  <1>16. CASE FailNext
    BY <1>16 DEF FailNext
  <1>17. CASE FailOne
    BY <1>17 DEF FailOne, Failed
  <1>18. CASE FailedAll
    BY <1>18 DEF FailedAll
  <1>19. CASE CloseClosed
    BY <1>19 DEF CloseClosed, Closed
  <1>20. CASE Close
    BY <1>20 DEF Close
  <1>21. ASSUME NEW r \in Requests, ServerAnswers(r) PROVE PendingExact'
    BY <1>21 DEF ServerAnswers, Says
  <1>22. ASSUME NEW s \in Sends, ServerAsks(s) PROVE PendingExact'
    BY <1>22 DEF ServerAsks, Says
  <1>23. CASE ServerNotifies
    BY <1>23 DEF ServerNotifies, Says
  <1>24. CASE ServerGarbles
    BY <1>24 DEF ServerGarbles, Says
  <1>25. CASE ServerReads
    BY <1>25 DEF ServerReads
  <1>26. CASE ServerWrites
    BY <1>26 DEF ServerWrites
  <1>27. CASE UNCHANGED vars
    BY <1>27 DEF vars
  <1> QED
    BY <1>1, <1>2, <1>3, <1>4, <1>5, <1>6, <1>7, <1>8, <1>9, <1>10, <1>11, <1>12, <1>13, <1>14,
       <1>15, <1>16, <1>17, <1>18, <1>19, <1>20, <1>21, <1>22, <1>23, <1>24, <1>25, <1>26, <1>27
    DEF Next, Awaiting, Sending, Loop, Server

-----------------------------------------------------------------------------
(* The wire.                                                               *)

\* A write adds its part at the end.
LEMMA Added ==
    ASSUME TypeOK, NEW c \in Calls, NEW part \in {"header", "payload"}, Written(c, part)
    PROVE  /\ Len(out) \in Nat /\ Len(out') = Len(out) + 1
           /\ out' # <<>> /\ out'[Len(out')] = <<c, part>>
           /\ \A i \in 1..Len(out) : out'[i] = out[i]
  BY DEF TypeOK, Written


\* Every step keeps the frames on the wire whole.
LEMMA WireStep ==
    ASSUME TypeOK, Wire, [Next]_vars
    PROVE  Wire'
  <1> USE ClientAssumption DEF TypeOK, Wire, Calls, Go, callVars, loopVars, serverVars
  <1>1. ASSUME NEW r \in Requests, Request(r) PROVE Wire'
    BY <1>1 DEF Request
  <1>2. ASSUME NEW r \in Requests, Receive(r) PROVE Wire'
    BY <1>2 DEF Receive, Ends
  <1>3. ASSUME NEW r \in Requests, SeeClosed(r) PROVE Wire'
    BY <1>3 DEF SeeClosed, Ends
  <1>4. ASSUME NEW r \in Requests, Leave(r) PROVE Wire'
    BY <1>4 DEF Leave
  <1>5. ASSUME NEW r \in Requests, TimeOut(r) PROVE Wire'
    BY <1>5 DEF TimeOut, Ends
  <1>6. ASSUME NEW s \in Sends, Notify(s) PROVE Wire'
    BY <1>6 DEF Notify
  <1>7. ASSUME NEW c \in Calls, WriteHeader(c) PROVE Wire'
    <2>1. writeMu = None /\ writeMu' = c /\ Written(c, "header") /\ stream = "open"
      BY <1>7 DEF WriteHeader, Written, MayWrite
    <2>2. /\ Len(out) \in Nat /\ Len(out') = Len(out) + 1
          /\ out' # <<>> /\ out'[Len(out')] = <<c, "header">>
          /\ \A i \in 1..Len(out) : out'[i] = out[i]
      BY <2>1, Added
    <2>3. out'[1][2] = "header"
      BY <2>2
    <2>4. ASSUME NEW i \in 1..(Len(out') - 1)
          PROVE  /\ out'[i][2] = "header" <=> out'[i + 1][2] = "payload"
                 /\ out'[i][2] = "header" => out'[i + 1][1] = out'[i][1]
      <3>1. CASE i = Len(out)
        BY <2>1, <2>2, <3>1
      <3>2. CASE i # Len(out)
        <4>1. i \in 1..(Len(out) - 1) /\ i \in 1..Len(out) /\ i + 1 \in 1..Len(out)
          BY <2>2, <3>2
        <4> QED
          BY <2>2, <4>1
      <3> QED
        BY <3>1, <3>2
    <2> QED
      BY <1>7, <2>1, <2>2, <2>3, <2>4 DEF WriteHeader, Written
  <1>8. ASSUME NEW c \in Calls, WritePayload(c) PROVE Wire'
    <2>1. writeMu = c /\ writeMu' = None /\ Written(c, "payload") /\ stream = "open"
      BY <1>8 DEF WritePayload, Written
    <2>2. /\ Len(out) \in Nat /\ Len(out') = Len(out) + 1
          /\ out' # <<>> /\ out'[Len(out')] = <<c, "payload">>
          /\ \A i \in 1..Len(out) : out'[i] = out[i]
      BY <2>1, Added
    <2>3. out # <<>> /\ out[Len(out)] = <<c, "header">> /\ Len(out) >= 1
      BY <2>1
    <2>4. ASSUME NEW i \in 1..(Len(out') - 1)
          PROVE  /\ out'[i][2] = "header" <=> out'[i + 1][2] = "payload"
                 /\ out'[i][2] = "header" => out'[i + 1][1] = out'[i][1]
      <3>1. CASE i = Len(out)
        BY <2>2, <2>3, <3>1
      <3>2. CASE i # Len(out)
        <4>1. i \in 1..(Len(out) - 1) /\ i \in 1..Len(out) /\ i + 1 \in 1..Len(out)
          BY <2>2, <3>2
        <4> QED
          BY <2>2, <4>1
      <3> QED
        BY <3>1, <3>2
    <2> QED
      BY <1>8, <2>1, <2>2, <2>3, <2>4 DEF WritePayload, Written
  <1>9. ASSUME NEW c \in Calls, WriteFails(c) PROVE Wire'
    BY <1>9 DEF WriteFails, SendFailed, MayWrite
  <1>10. ASSUME NEW r \in Requests, ReadAnswer(r) PROVE Wire'
    BY <1>10 DEF ReadAnswer, Reads, Readable
  <1>11. ASSUME NEW s \in Sends, ReadAsk(s) PROVE Wire'
    BY <1>11 DEF ReadAsk, Reads, Readable
  <1>12. CASE ReadNote
    BY <1>12 DEF ReadNote, Reads, Readable
  <1>13. CASE ReadNoise
    BY <1>13 DEF ReadNoise, Reads, Readable
  <1>14. CASE Deliver
    BY <1>14 DEF Deliver
  <1>15. CASE ReadFails
    BY <1>15 DEF ReadFails
  <1>16. CASE FailNext
    BY <1>16 DEF FailNext
  <1>17. CASE FailOne
    BY <1>17 DEF FailOne, Failed
  <1>18. CASE FailedAll
    BY <1>18 DEF FailedAll
  <1>19. CASE CloseClosed
    BY <1>19 DEF CloseClosed, Closed
  <1>20. CASE Close
    BY <1>20 DEF Close
  <1>21. ASSUME NEW r \in Requests, ServerAnswers(r) PROVE Wire'
    BY <1>21 DEF ServerAnswers, Says
  <1>22. ASSUME NEW s \in Sends, ServerAsks(s) PROVE Wire'
    BY <1>22 DEF ServerAsks, Says
  <1>23. CASE ServerNotifies
    BY <1>23 DEF ServerNotifies, Says
  <1>24. CASE ServerGarbles
    BY <1>24 DEF ServerGarbles, Says
  <1>25. CASE ServerReads
    <2>1. /\ Len(out) \in Nat /\ Len(out') = Len(out) - 2 /\ Len(out) >= 2
          /\ \A i \in 1..(Len(out) - 2) : i + 2 \in 1..Len(out) /\ out'[i] = out[i + 2]
      BY <1>25, DropFrame DEF ServerReads
    <2>2. out'# <<>> => Len(out') >= 1 /\ Len(out) >= 3 /\ out'[1] = out[3]
      BY <1>25, <2>1 DEF ServerReads
    <2>3. out[1][2] = "header" /\ out[2][2] = "payload" /\ out[2][2] # "header"
      BY <2>1
    <2>4. Len(out) >= 3 => out[3][2] = "header"
      BY <2>1, <2>3
    <2>5. out' # <<>> => out'[Len(out')] = out[Len(out)]
      BY <2>1, <2>2
    <2>6. ASSUME NEW i \in 1..(Len(out') - 1)
          PROVE  /\ out'[i][2] = "header" <=> out'[i + 1][2] = "payload"
                 /\ out'[i][2] = "header" => out'[i + 1][1] = out'[i][1]
      <3>1. /\ i + 2 \in 1..(Len(out) - 1) /\ (i + 1) + 2 = (i + 2) + 1
            /\ out'[i] = out[i + 2] /\ out'[i + 1] = out[(i + 2) + 1]
        <4>1. i \in 1..(Len(out) - 2) /\ i + 1 \in 1..(Len(out) - 2)
          BY <2>1
        <4>2. i + 2 \in 1..(Len(out) - 1) /\ (i + 1) + 2 = (i + 2) + 1
          BY <2>1
        <4> QED
          BY <2>1, <4>1, <4>2
      <3> QED
        BY <3>1
    <2>7. writeMu # None => out' # <<>>
      <3>1. ASSUME writeMu # None, out' = <<>> PROVE FALSE
        <4>1. Len(out) = 2
          BY <2>1, <3>1
        <4>2. out[Len(out)] = <<writeMu, "header">>
          BY <1>25, <3>1 DEF ServerReads
        <4> QED
          BY <2>3, <4>1, <4>2
      <3> QED
        BY <3>1
    <2> QED
      BY <1>25, <2>2, <2>4, <2>5, <2>6, <2>7 DEF ServerReads
  <1>26. CASE ServerWrites
    BY <1>26 DEF ServerWrites
  <1>27. CASE UNCHANGED vars
    BY <1>27 DEF vars
  <1> QED
    BY <1>1, <1>2, <1>3, <1>4, <1>5, <1>6, <1>7, <1>8, <1>9, <1>10, <1>11, <1>12, <1>13, <1>14,
       <1>15, <1>16, <1>17, <1>18, <1>19, <1>20, <1>21, <1>22, <1>23, <1>24, <1>25, <1>26, <1>27
    DEF Next, Awaiting, Sending, Loop, Server

-----------------------------------------------------------------------------
(* Where answers are.                                                      *)

\* A write adds the call to those that have a frame on the wire.
LEMMA WrittenFrames ==
    ASSUME TypeOK, NEW c \in Calls, NEW part \in {"header", "payload"}, Written(c, part)
    PROVE  Framed' = Framed \cup {c}
  <1> USE DEF TypeOK, Written
  <1>1. /\ Len(out') = Len(out) + 1 /\ out'[Len(out')] = <<c, part>>
        /\ \A i \in 1..Len(out) : out'[i] = out[i]
    OBVIOUS
  <1>2. Len(out) \in Nat
    OBVIOUS
  <1>3. ASSUME NEW x \in Framed' PROVE x \in Framed \cup {c}
    <2>1. PICK i \in 1..Len(out') : x = out'[i][1]
      BY <1>3 DEF Framed
    <2>2. CASE i = Len(out')
      BY <2>1, <2>2, <1>1
    <2>3. CASE i # Len(out')
      <3>1. i \in 1..Len(out)
        BY <2>3, <1>1, <1>2
      <3> QED
        BY <2>1, <3>1, <1>1 DEF Framed
    <2> QED
      BY <2>2, <2>3
  <1>4. ASSUME NEW x \in Framed PROVE x \in Framed'
    <2>1. PICK i \in 1..Len(out) : x = out[i][1]
      BY <1>4 DEF Framed
    <2>2. i \in 1..Len(out') /\ x = out'[i][1]
      BY <2>1, <1>1, <1>2
    <2> QED
      BY <2>2 DEF Framed
  <1>5. c \in Framed'
    <2>1. Len(out') \in 1..Len(out') /\ out'[Len(out')][1] = c
      BY <1>1, <1>2
    <2> QED
      BY <2>1 DEF Framed
  <1> QED
    BY <1>3, <1>4, <1>5

\* The server takes the one frame of a call whose payload is written.
LEMMA ServerReadsFrames ==
    ASSUME TypeOK, Wire, Distinct, ServerReads
    PROVE  /\ Head(out)[1] \in Framed
           /\ Framed' \subseteq Framed
           /\ Head(out)[1] \in Requests => Head(out)[1] \notin Framed' /\ pc[Head(out)[1]] # "payload"
  <1> USE DEF TypeOK, ServerReads
  <1>1. /\ Len(out) \in Nat /\ Len(out) >= 2
        /\ Len(out') = Len(out) - 2 /\ Head(out) = out[1]
        /\ \A i \in 1..Len(out') : i + 2 \in 1..Len(out) /\ out'[i] = out[i + 2]
    <2>1. out \in Seq(Calls \X {"header", "payload"}) /\ Len(out) >= 2
          /\ out' = SubSeq(out, 3, Len(out)) /\ Head(out) = out[1] /\ Len(out) \in Nat
      OBVIOUS
    <2> QED
      BY <2>1, DropFrame
  <1>2. Head(out)[1] \in Framed
    <2>1. 1 \in 1..Len(out)
      BY <1>1
    <2> QED
      BY <1>1, <2>1 DEF Framed
  <1>3. ASSUME NEW x \in Framed'
        PROVE  x \in Framed /\ (Head(out)[1] \in Requests => x # Head(out)[1])
    <2>1. PICK i \in 1..Len(out') : x = out'[i][1]
      BY <1>3 DEF Framed
    <2>2. i + 2 \in 1..Len(out) /\ x = out[i + 2][1]
      BY <2>1, <1>1
    <2>3. x \in Framed
      BY <2>2 DEF Framed
    <2>4. PICK k \in 2..Len(out) : out[k][2] = "header" /\ x = out[k][1]
      <3>1. CASE out[i + 2][2] = "header"
        BY <2>2, <3>1, <1>1
      <3>2. CASE out[i + 2][2] # "header"
        <4>1. i + 1 \in 1..(Len(out) - 1) /\ i + 1 \in 2..Len(out)
          BY <1>1, <2>1, <2>2
        <4>2. out[i + 1][2] = "header" /\ out[i + 2][1] = out[i + 1][1]
          <5>1. out[i + 2][2] = "payload" /\ (i + 1) + 1 = i + 2
            BY <3>2, <2>1, <2>2
          <5> QED
            BY <4>1, <5>1 DEF Wire
        <4> QED
          BY <4>1, <4>2, <2>2
      <3> QED
        BY <3>1, <3>2
    <2>5. 1 \in 1..Len(out) /\ k \in 1..Len(out) /\ k # 1 /\ out[1][2] = "header"
      BY <1>1, <2>4 DEF Wire
    <2> QED
      BY <2>3, <2>4, <2>5, <1>1 DEF Distinct
  <1>4. ASSUME Head(out)[1] \in Requests, pc[Head(out)[1]] = "payload" PROVE FALSE
    <2>1. /\ out[Len(out)] = <<out[1][1], "header">> /\ out[1][2] = "header"
          /\ out[1][1] \in Requests /\ 1 \in 1..Len(out) /\ Len(out) \in 1..Len(out)
      BY <1>1, <1>4, ClientAssumption DEF Wire, Calls
    <2>2. 1 = Len(out)
      BY <2>1, SMTT(60) DEF Distinct
    <2> QED
      BY <1>1, <2>2
  <1> QED
    BY <1>2, <1>3, <1>4

\* The loop takes the one answer it reads off the stream.
LEMMA ReadsSaid ==
    ASSUME TypeOK, Distinct, NEW m, Reads(m)
    PROVE  /\ Said' = {r \in Said : Answer(r) # m}
           /\ \A r \in Requests : m = Answer(r) => r \in Said
  <1> USE DEF TypeOK, Reads, Readable
  <1>1. /\ Len(inc) \in Nat /\ Len(inc) >= 1
        /\ Len(inc') = Len(inc) - 1 /\ m = inc[1]
        /\ \A i \in 1..Len(inc') : i + 1 \in 1..Len(inc) /\ inc'[i] = inc[i + 1]
    OBVIOUS
  <1>2. ASSUME NEW r \in Said' PROVE r \in Said /\ Answer(r) # m
    <2>1. PICK i \in 1..Len(inc') : inc'[i] = Answer(r)
      BY <1>2 DEF Said
    <2> QED
      BY <1>1, <1>2, <2>1 DEF Said, Distinct, Answer
  <1>3. ASSUME NEW r \in Said, Answer(r) # m PROVE r \in Said'
    <2>1. PICK i \in 1..Len(inc) : inc[i] = Answer(r)
      BY <1>3 DEF Said
    <2>2. i # 1
      BY <1>1, <1>3, <2>1
    <2>3. i - 1 \in 1..Len(inc') /\ inc'[i - 1] = inc[i]
      BY <1>1, <2>2
    <2> QED
      BY <1>3, <2>1, <2>3 DEF Said
  <1>4. \A r \in Requests : m = Answer(r) => r \in Said
    BY <1>1 DEF Said
  <1> QED
    BY <1>2, <1>3, <1>4

\* What was about to be said is said.
LEMMA ServerWritesSaid ==
    ASSUME TypeOK, ServerWrites
    PROVE  Said' = Said \cup Saying
  <1> USE DEF TypeOK, ServerWrites
  <1>1. /\ Len(inc) \in Nat /\ Len(inc') = Len(inc) + 1 /\ inc'[Len(inc')] = server
        /\ \A i \in 1..Len(inc) : inc'[i] = inc[i]
    OBVIOUS
  <1>2. ASSUME NEW r \in Said' PROVE r \in Said \cup Saying
    <2>1. PICK i \in 1..Len(inc') : inc'[i] = Answer(r)
      BY <1>2 DEF Said
    <2>2. CASE i = Len(inc')
      BY <1>1, <1>2, <2>1, <2>2 DEF Said, Saying
    <2>3. CASE i # Len(inc')
      BY <1>1, <1>2, <2>1, <2>3 DEF Said
    <2> QED
      BY <2>2, <2>3
  <1>3. ASSUME NEW r \in Said \cup Saying PROVE r \in Said'
    BY <1>1, <1>3 DEF Said, Saying
  <1> QED
    BY <1>2, <1>3

\* What a step that leaves out, inc, server or the loop alone keeps.
LEMMA Elsewhere ==
    /\ out' = out => Framed' = Framed
    /\ inc' = inc => Said' = Said
    /\ server' = server => Saying' = Saying
    /\ loop' = loop /\ target' = target => Held' = Held
  BY DEF Framed, Said, Saying, Held

\* Where answers are not.
LEMMA Nowhere ==
    /\ out = <<>> => Framed = {}
    /\ server = None => Saying = {}
    /\ server' = None => Saying' = {}
    /\ out' = <<>> => Framed' = {}
  <1>1. ASSUME NEW r \in Requests PROVE Answer(r) # None
    BY ClientAssumption DEF Messages
  <1>2. out = <<>> => Framed = {}
    BY DEF Framed
  <1>3. out' = <<>> => Framed' = {}
    BY DEF Framed
  <1>4. (server = None => Saying = {}) /\ (server' = None => Saying' = {})
    BY <1>1 DEF Saying
  <1> QED
    BY <1>2, <1>3, <1>4


\* No step puts an answer at a second place.
LEMMA PlacesStep ==
    ASSUME TypeOK, Wire, Late, OneAnswer, [Next]_vars
    PROVE  (Reading => Places)'
  <1> USE ClientAssumption, Elsewhere
      DEF TypeOK, OneAnswer, Places, Reading, Late, Calls, Go, callVars, loopVars, serverVars
  <1>1. ASSUME NEW r \in Requests, Request(r) PROVE (Reading => Places)'
    BY <1>1 DEF Request
  <1>2. ASSUME NEW r \in Requests, Receive(r) PROVE (Reading => Places)'
    BY <1>2 DEF Receive, Ends
  <1>3. ASSUME NEW r \in Requests, SeeClosed(r) PROVE (Reading => Places)'
    BY <1>3 DEF SeeClosed, Ends
  <1>4. ASSUME NEW r \in Requests, Leave(r) PROVE (Reading => Places)'
    BY <1>4 DEF Leave
  <1>5. ASSUME NEW r \in Requests, TimeOut(r) PROVE (Reading => Places)'
    BY <1>5 DEF TimeOut, Ends
  <1>6. ASSUME NEW s \in Sends, Notify(s) PROVE (Reading => Places)'
    BY <1>6 DEF Notify
  <1>7. ASSUME NEW c \in Calls, WriteHeader(c) PROVE (Reading => Places)'
    BY <1>7, WrittenFrames DEF WriteHeader, Written, MayWrite
  <1>8. ASSUME NEW c \in Calls, WritePayload(c) PROVE (Reading => Places)'
    <2>1. Framed' = Framed \cup {c} /\ pc[c] = "payload" /\ pc'[c] \in {"select", "done"}
      BY <1>8, WrittenFrames DEF WritePayload, Written
    <2>2. /\ Said' = Said /\ Saying' = Saying /\ Held' = Held /\ asked' = asked /\ full' = full
          /\ \A r \in Requests : r # c => pc'[r] = pc[r]
      BY <1>8 DEF WritePayload, Written
    <2> QED
      BY <1>8, <2>1, <2>2 DEF WritePayload, Written
  <1>9. ASSUME NEW c \in Calls, WriteFails(c) PROVE (Reading => Places)'
    BY <1>9, Nowhere DEF WriteFails, SendFailed, MayWrite, Wire
  <1>10. ASSUME NEW r \in Requests, ReadAnswer(r) PROVE (Reading => Places)'
    BY <1>10, ReadsSaid DEF ReadAnswer, Reads, Readable, Held, Answer
  <1>11. ASSUME NEW s \in Sends, ReadAsk(s) PROVE (Reading => Places)'
    BY <1>11, ReadsSaid DEF ReadAsk, Reads, Readable
  <1>12. CASE ReadNote
    BY <1>12, ReadsSaid DEF ReadNote, Reads, Readable
  <1>13. CASE ReadNoise
    BY <1>13 DEF ReadNoise, Reads, Readable
  <1>14. CASE Deliver
    BY <1>14 DEF Deliver, Held
  <1>15. CASE ReadFails
    BY <1>15 DEF ReadFails
  <1>16. CASE FailNext
    BY <1>16 DEF FailNext
  <1>17. CASE FailOne
    BY <1>17 DEF FailOne, Failed
  <1>18. CASE FailedAll
    BY <1>18 DEF FailedAll
  <1>19. CASE CloseClosed
    BY <1>19 DEF CloseClosed, Closed
  <1>20. CASE Close
    BY <1>20, Nowhere DEF Close
  <1>21. ASSUME NEW r \in Requests, ServerAnswers(r) PROVE (Reading => Places)'
    BY <1>21 DEF ServerAnswers, Says, Saying, Answer
  <1>22. ASSUME NEW s \in Sends, ServerAsks(s) PROVE (Reading => Places)'
    BY <1>22 DEF ServerAsks, Says, Saying, Answer, Ask
  <1>23. CASE ServerNotifies
    BY <1>23 DEF ServerNotifies, Says, Saying, Answer, Note
  <1>24. CASE ServerGarbles
    BY <1>24 DEF ServerGarbles, Says, Saying, Answer, Noise
  <1>25. CASE ServerReads
    <2>1. CASE Reading
      <3>1. /\ Head(out)[1] \in Framed /\ Framed' \subseteq Framed
            /\ Head(out)[1] \in Requests => Head(out)[1] \notin Framed' /\ pc[Head(out)[1]] # "payload"
        BY <1>25, <2>1, ServerReadsFrames DEF OneAnswer
      <3>2. /\ Said' = Said /\ Saying' = Saying /\ Held' = Held /\ full' = full /\ pc' = pc
            /\ asked' = asked \cup (Requests \cap {Head(out)[1]})
        BY <1>25 DEF ServerReads
      <3> QED
        BY <2>1, <3>1, <3>2
    <2>2. CASE ~Reading
      BY <1>25, <2>2 DEF ServerReads
    <2> QED
      BY <2>1, <2>2
  <1>26. CASE ServerWrites
    BY <1>26, ServerWritesSaid, Nowhere DEF ServerWrites
  <1>27. CASE UNCHANGED vars
    BY <1>27 DEF vars
  <1> QED
    BY <1>1, <1>2, <1>3, <1>4, <1>5, <1>6, <1>7, <1>8, <1>9, <1>10, <1>11, <1>12, <1>13, <1>14,
       <1>15, <1>16, <1>17, <1>18, <1>19, <1>20, <1>21, <1>22, <1>23, <1>24, <1>25, <1>26, <1>27
    DEF Next, Awaiting, Sending, Loop, Server

\* No step makes a second answer, or a second frame, of one request.
LEMMA DistinctStep ==
    ASSUME TypeOK, Wire, OneAnswer, [Next]_vars
    PROVE  (Reading => Distinct)'
  <1> USE ClientAssumption DEF TypeOK, OneAnswer, Distinct, Reading, Calls, Go, callVars, loopVars, serverVars
  <1>1. ASSUME NEW r \in Requests, Request(r) PROVE (Reading => Distinct)'
    BY <1>1 DEF Request
  <1>2. ASSUME NEW r \in Requests, Receive(r) PROVE (Reading => Distinct)'
    BY <1>2 DEF Receive, Ends
  <1>3. ASSUME NEW r \in Requests, SeeClosed(r) PROVE (Reading => Distinct)'
    BY <1>3 DEF SeeClosed, Ends
  <1>4. ASSUME NEW r \in Requests, Leave(r) PROVE (Reading => Distinct)'
    BY <1>4 DEF Leave
  <1>5. ASSUME NEW r \in Requests, TimeOut(r) PROVE (Reading => Distinct)'
    BY <1>5 DEF TimeOut, Ends
  <1>6. ASSUME NEW s \in Sends, Notify(s) PROVE (Reading => Distinct)'
    BY <1>6 DEF Notify
  <1>7. ASSUME NEW c \in Calls, WriteHeader(c) PROVE (Reading => Distinct)'
    <2>1. Written(c, "header") /\ pc[c] = "send" /\ loop' = loop /\ inc' = inc
      BY <1>7 DEF WriteHeader, Written
    <2>2. /\ Len(out) \in Nat /\ Len(out') = Len(out) + 1 /\ out'[Len(out')] = <<c, "header">>
          /\ \A i \in 1..Len(out) : out'[i] = out[i]
      BY <2>1, Added
    <2>3. ASSUME Reading, NEW i \in 1..Len(out), out[i][1] \in Requests PROVE out[i][1] # c
      BY <2>1, <2>3 DEF Places, Framed
    <2>4. ASSUME Reading, NEW i \in 1..Len(out'), NEW j \in 1..Len(out'),
                 out'[i][2] = "header", out'[j][2] = "header",
                 out'[i][1] = out'[j][1], out'[i][1] \in Requests
          PROVE  i = j
      <3>1. CASE i = Len(out') /\ j = Len(out')
        BY <3>1
      <3>2. CASE i = Len(out') /\ j # Len(out')
        <4>1. j \in 1..Len(out)
          BY <2>2, <3>2
        <4> QED
          BY <2>2, <2>3, <2>4, <3>2, <4>1
      <3>3. CASE i # Len(out') /\ j = Len(out')
        <4>1. i \in 1..Len(out)
          BY <2>2, <3>3
        <4> QED
          BY <2>2, <2>3, <2>4, <3>3, <4>1
      <3>4. CASE i # Len(out') /\ j # Len(out')
        <4>1. i \in 1..Len(out) /\ j \in 1..Len(out)
          BY <2>2, <3>4
        <4> QED
          BY <2>2, <2>4, <4>1
      <3> QED
        BY <3>1, <3>2, <3>3, <3>4
    <2> QED
      BY <2>1, <2>4
  <1>8. ASSUME NEW c \in Calls, WritePayload(c) PROVE (Reading => Distinct)'
    BY <1>8 DEF WritePayload, Written
  <1>9. ASSUME NEW c \in Calls, WriteFails(c) PROVE (Reading => Distinct)'
    BY <1>9 DEF WriteFails, SendFailed, MayWrite
  <1>10. ASSUME NEW r \in Requests, ReadAnswer(r) PROVE (Reading => Distinct)'
    BY <1>10 DEF ReadAnswer, Reads, Readable
  <1>11. ASSUME NEW s \in Sends, ReadAsk(s) PROVE (Reading => Distinct)'
    BY <1>11 DEF ReadAsk, Reads, Readable
  <1>12. CASE ReadNote
    BY <1>12 DEF ReadNote, Reads, Readable
  <1>13. CASE ReadNoise
    BY <1>13 DEF ReadNoise, Reads, Readable
  <1>14. CASE Deliver
    BY <1>14 DEF Deliver
  <1>15. CASE ReadFails
    BY <1>15 DEF ReadFails
  <1>16. CASE FailNext
    BY <1>16 DEF FailNext
  <1>17. CASE FailOne
    BY <1>17 DEF FailOne, Failed
  <1>18. CASE FailedAll
    BY <1>18 DEF FailedAll
  <1>19. CASE CloseClosed
    BY <1>19 DEF CloseClosed, Closed
  <1>20. CASE Close
    BY <1>20 DEF Close
  <1>21. ASSUME NEW r \in Requests, ServerAnswers(r) PROVE (Reading => Distinct)'
    BY <1>21 DEF ServerAnswers, Says
  <1>22. ASSUME NEW s \in Sends, ServerAsks(s) PROVE (Reading => Distinct)'
    BY <1>22 DEF ServerAsks, Says
  <1>23. CASE ServerNotifies
    BY <1>23 DEF ServerNotifies, Says
  <1>24. CASE ServerGarbles
    BY <1>24 DEF ServerGarbles, Says
  <1>25. CASE ServerReads
    BY <1>25 DEF ServerReads
  <1>26. CASE ServerWrites
    <2>1. /\ Len(inc) \in Nat /\ Len(inc') = Len(inc) + 1 /\ inc'[Len(inc')] = server
          /\ \A i \in 1..Len(inc) : inc'[i] = inc[i]
          /\ server \in Messages /\ loop' = loop /\ out' = out
      BY <1>26 DEF ServerWrites
    <2>2. ASSUME Reading, NEW i \in 1..Len(inc), server.kind = "answer" PROVE inc[i] # server
      <3>1. PICK r \in Requests : server = Answer(r)
        BY <2>1, <2>2 DEF Messages, Ask, Note, Noise
      <3> QED
        BY <2>2, <3>1 DEF Places, Saying, Said
    <2>3. ASSUME Reading, NEW i \in 1..Len(inc'), NEW j \in 1..Len(inc'),
                 inc'[i] = inc'[j], inc'[i].kind = "answer"
          PROVE  i = j
      <3>1. CASE i = Len(inc') /\ j = Len(inc')
        BY <3>1
      <3>2. CASE i = Len(inc') /\ j # Len(inc')
        <4>1. j \in 1..Len(inc)
          BY <2>1, <3>2
        <4> QED
          BY <2>1, <2>2, <2>3, <3>2, <4>1
      <3>3. CASE i # Len(inc') /\ j = Len(inc')
        <4>1. i \in 1..Len(inc)
          BY <2>1, <3>3
        <4> QED
          BY <2>1, <2>2, <2>3, <3>3, <4>1
      <3>4. CASE i # Len(inc') /\ j # Len(inc')
        <4>1. i \in 1..Len(inc) /\ j \in 1..Len(inc)
          BY <2>1, <3>4
        <4> QED
          BY <2>1, <2>3, <4>1
      <3> QED
        BY <3>1, <3>2, <3>3, <3>4
    <2> QED
      BY <2>1, <2>3
  <1>27. CASE UNCHANGED vars
    BY <1>27 DEF vars
  <1> QED
    BY <1>1, <1>2, <1>3, <1>4, <1>5, <1>6, <1>7, <1>8, <1>9, <1>10, <1>11, <1>12, <1>13, <1>14,
       <1>15, <1>16, <1>17, <1>18, <1>19, <1>20, <1>21, <1>22, <1>23, <1>24, <1>25, <1>26, <1>27
    DEF Next, Awaiting, Sending, Loop, Server

\* The loop fails requests whose slots are free, or whose owners read or are late.
LEMMA LateStep ==
    ASSUME TypeOK, OneAnswer, Late, PendingExact, [Next]_vars
    PROVE  Late'
  <1> USE ClientAssumption DEF TypeOK, OneAnswer, Late, PendingExact, Reading, PendingMuFree,
                               Calls, Go, callVars, loopVars, serverVars
  <1>1. ASSUME NEW r \in Requests, Request(r) PROVE Late'
    BY <1>1 DEF Request
  <1>2. ASSUME NEW r \in Requests, Receive(r) PROVE Late'
    BY <1>2 DEF Receive, Ends
  <1>3. ASSUME NEW r \in Requests, SeeClosed(r) PROVE Late'
    BY <1>3 DEF SeeClosed, Ends
  <1>4. ASSUME NEW r \in Requests, Leave(r) PROVE Late'
    BY <1>4 DEF Leave
  <1>5. ASSUME NEW r \in Requests, TimeOut(r) PROVE Late'
    BY <1>5 DEF TimeOut, Ends
  <1>6. ASSUME NEW s \in Sends, Notify(s) PROVE Late'
    BY <1>6 DEF Notify
  <1>7. ASSUME NEW c \in Calls, WriteHeader(c) PROVE Late'
    BY <1>7 DEF WriteHeader, Written, MayWrite
  <1>8. ASSUME NEW c \in Calls, WritePayload(c) PROVE Late'
    BY <1>8 DEF WritePayload, Written
  <1>9. ASSUME NEW c \in Calls, WriteFails(c) PROVE Late'
    BY <1>9 DEF WriteFails, SendFailed, MayWrite
  <1>10. ASSUME NEW r \in Requests, ReadAnswer(r) PROVE Late'
    BY <1>10 DEF ReadAnswer, Reads, Readable, Answer
  <1>11. ASSUME NEW s \in Sends, ReadAsk(s) PROVE Late'
    BY <1>11 DEF ReadAsk, Reads, Readable
  <1>12. CASE ReadNote
    BY <1>12 DEF ReadNote, Reads, Readable
  <1>13. CASE ReadNoise
    BY <1>13 DEF ReadNoise, Reads, Readable, Places
  <1>14. CASE Deliver
    BY <1>14 DEF Deliver
  <1>15. CASE ReadFails
    BY <1>15 DEF ReadFails, Places
  <1>16. CASE FailNext
    BY <1>16 DEF FailNext
  <1>17. CASE FailOne
    BY <1>17 DEF FailOne, Failed
  <1>18. CASE FailedAll
    BY <1>18 DEF FailedAll
  <1>19. CASE CloseClosed
    BY <1>19 DEF CloseClosed, Closed
  <1>20. CASE Close
    BY <1>20 DEF Close
  <1>21. ASSUME NEW r \in Requests, ServerAnswers(r) PROVE Late'
    BY <1>21 DEF ServerAnswers, Says
  <1>22. ASSUME NEW s \in Sends, ServerAsks(s) PROVE Late'
    BY <1>22 DEF ServerAsks, Says
  <1>23. CASE ServerNotifies
    BY <1>23 DEF ServerNotifies, Says
  <1>24. CASE ServerGarbles
    BY <1>24 DEF ServerGarbles, Says
  <1>25. CASE ServerReads
    BY <1>25 DEF ServerReads
  <1>26. CASE ServerWrites
    BY <1>26 DEF ServerWrites
  <1>27. CASE UNCHANGED vars
    BY <1>27 DEF vars
  <1> QED
    BY <1>1, <1>2, <1>3, <1>4, <1>5, <1>6, <1>7, <1>8, <1>9, <1>10, <1>11, <1>12, <1>13, <1>14,
       <1>15, <1>16, <1>17, <1>18, <1>19, <1>20, <1>21, <1>22, <1>23, <1>24, <1>25, <1>26, <1>27
    DEF Next, Awaiting, Sending, Loop, Server

-----------------------------------------------------------------------------
(* The theorems.                                                           *)

ClientInvariant == TypeOK /\ PendingExact /\ Wire /\ OneAnswer /\ Late

\* ClientInvariant holds at first, and every step keeps it.
THEOREM ClientInvariantHolds == Spec => []ClientInvariant
  <1>1. Init => ClientInvariant
    BY ClientAssumption, Nowhere
    DEF Init, ClientInvariant, TypeOK, PendingExact, Wire, OneAnswer, Places, Distinct, Late,
        Reading, Said, Held, Calls
  <1>2. ClientInvariant /\ [Next]_vars => ClientInvariant'
    <2> SUFFICES ASSUME ClientInvariant, [Next]_vars PROVE ClientInvariant'
      OBVIOUS
    <2>1. TypeOK' /\ PendingExact' /\ Wire' /\ Late'
      BY TypeStep, PendingStep, WireStep, LateStep DEF ClientInvariant
    <2>2. OneAnswer'
      BY PlacesStep, DistinctStep DEF ClientInvariant, OneAnswer
    <2> QED
      BY <2>1, <2>2 DEF ClientInvariant
  <1> QED
    BY <1>1, <1>2, PTL DEF Spec

\* The variables of the client keep their types.
THEOREM TypeCorrect == Spec => []TypeOK
  <1>1. ClientInvariant => TypeOK
    BY DEF ClientInvariant
  <1> QED
    BY <1>1, ClientInvariantHolds, PTL

\* No ending of Request leaves an entry in c.pending, nor loses one too early.
THEOREM PendingIsExact == Spec => []PendingExact
  <1>1. ClientInvariant => PendingExact
    BY DEF ClientInvariant
  <1> QED
    BY <1>1, ClientInvariantHolds, PTL

\* writeMu keeps the two writes of send together.
THEOREM FramesAreWhole == Spec => []FramesWhole
  <1>1. ClientInvariant => FramesWhole
    <2> SUFFICES ASSUME ClientInvariant, Len(out) >= 2
                 PROVE  out[1][1] = out[2][1] /\ out[1][2] = "header" /\ out[2][2] = "payload"
      BY DEF FramesWhole
    <2>1. Len(out) \in Nat /\ 1 \in 1..(Len(out) - 1)
      BY DEF ClientInvariant, TypeOK
    <2>2. out # <<>>
      BY DEF ClientInvariant, TypeOK
    <2> QED
      BY <2>1, <2>2 DEF ClientInvariant, Wire
  <1> QED
    BY <1>1, ClientInvariantHolds, PTL

\* dispatchResponse never waits, and failAllPending only for a request that is about to
\* read its slot, or has timed out.
THEOREM LoopWaits == Spec => []LoopWaitsForLateOnly
  <1>1. ClientInvariant => LoopWaitsForLateOnly
    <2> SUFFICES ASSUME ClientInvariant, target \in full
                 PROVE  loop = "failing" /\ pc[target] \in {"select", "late"}
      BY DEF LoopWaitsForLateOnly
    <2>1. target \in Requests /\ target # None
      BY ClientAssumption DEF ClientInvariant, TypeOK, Calls
    <2>2. loop # "deliver"
      BY <2>1 DEF ClientInvariant, OneAnswer, Places, Reading, Held
    <2> QED
      BY <2>1, <2>2 DEF ClientInvariant, Late
  <1> QED
    BY <1>1, ClientInvariantHolds, PTL
===============================================================================
