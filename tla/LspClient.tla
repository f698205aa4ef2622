------------------------------ MODULE LspClient ------------------------------
(***************************************************************************)
(* The JSON-RPC client of server/internal/lsp, one per language server.    *)
(*                                                                         *)
(* Calls of three kinds write to the server under writeMu: Request, which  *)
(* then waits for its answer, Notify, and the goroutine that replies to a  *)
(* request of the server.  One goroutine, the read loop, reads what the    *)
(* server says, hands answers to the requests they belong to, and, when    *)
(* the stream ends, fails every pending request and closes c.closed.       *)
(*                                                                         *)
(* A Call is one call; its name is also the id of its message.  Critical   *)
(* sections of pendingMu are single steps, but for the one of              *)
(* failAllPending, which the read loop is in while loop = "failing".  Both *)
(* directions of the stream are finite, and the server is one thread: it   *)
(* does not read while it has something to say that does not fit.  It      *)
(* answers a request at most once.  Whatever the messages carry is left    *)
(* out, and what Request returns, but for a timeout; so are handlers, which *)
(* send nothing of their own.                                              *)
(***************************************************************************)
EXTENDS Integers, Sequences

CONSTANTS
    Requests,   \* calls of Request
    Sends,      \* calls of Notify, and replies
    OutWindow,  \* bound: writes the stream holds on their way to the server
    InWindow,   \* bound: messages it holds on their way back
    None

Calls == Requests \cup Sends

Answer(r) == [kind |-> "answer", call |-> r]
Ask(s)    == [kind |-> "ask", call |-> s]       \* a request of the server
Note      == [kind |-> "note", call |-> None]   \* a notification, or no JSON
Noise     == [kind |-> "noise", call |-> None]  \* breaks the framing
Messages  == {Answer(r) : r \in Requests} \cup {Ask(s) : s \in Sends} \cup {Note, Noise}

ASSUME ClientAssumption ==
    /\ Requests \cap Sends = {}
    /\ None \notin Calls \cup Messages
    /\ OutWindow \in Nat /\ InWindow \in Nat

VARIABLES
    pc,         \* where each call is
    writeMu,    \* the call that holds it
    pending,    \* keys of c.pending
    full,       \* requests whose one-slot channel holds a message
    loop,       \* where the read loop is
    target,     \* the request whose channel it sends to
    stream,     \* "open" or "eof"
    out,        \* writes the server has not read
    server,     \* what the server is about to say
    asked,      \* requests it has read and not answered
    inc         \* what it said and the loop has not read

callVars == <<pc, writeMu>>
loopVars == <<loop, target>>
serverVars == <<out, server, asked, inc>>
vars == <<callVars, pending, full, loopVars, stream, serverVars>>

Init ==
    /\ pc = [c \in Calls |-> "idle"]
    /\ writeMu = None
    /\ pending = {}
    /\ full = {}
    /\ loop = "reading" /\ target = None
    /\ stream = "open"
    /\ out = <<>> /\ server = None /\ asked = {} /\ inc = <<>>

Go(c, where) == pc' = [pc EXCEPT ![c] = where]

PendingMuFree == loop # "failing"

-----------------------------------------------------------------------------
(* The start of a call.  A Request that waits for pendingMu has not begun.  *)

Request(r) ==
    /\ pc[r] = "idle" /\ PendingMuFree
    /\ pending' = pending \cup {r}
    /\ Go(r, "send")
    /\ UNCHANGED <<writeMu, full, loopVars, stream, serverVars>>

Notify(s) ==
    /\ pc[s] = "idle"
    /\ Go(s, "send")
    /\ UNCHANGED <<writeMu, pending, full, loopVars, stream, serverVars>>

-----------------------------------------------------------------------------
(* send: a header and a payload, written under writeMu.                    *)

\* Mutant: the two writes are not kept together.
MayWriteAnytime == TRUE

MayWrite == writeMu = None

\* A write waits until the window of the stream has room.
Written(c, part) ==
    /\ stream = "open" /\ Len(out) < OutWindow
    /\ out' = Append(out, <<c, part>>)
    /\ UNCHANGED <<pending, full, loopVars, stream, server, asked, inc>>

WriteHeader(c) ==
    /\ pc[c] = "send" /\ MayWrite
    /\ Written(c, "header")
    /\ Go(c, "payload")
    /\ writeMu' = c

WritePayload(c) ==
    /\ pc[c] = "payload"
    /\ Written(c, "payload")
    /\ Go(c, IF c \in Requests THEN "select" ELSE "done")
    /\ writeMu' = None

\* Mutant: a failed send returns before the deferred delete is in place.
SendFailedEarly(c) == Go(c, "done")

SendFailed(c) == Go(c, IF c \in Requests THEN "leave" ELSE "done")

WriteFails(c) ==
    /\ stream = "eof"
    /\ \/ pc[c] = "send" /\ MayWrite
       \/ pc[c] = "payload"
    /\ SendFailed(c)
    /\ writeMu' = None
    /\ UNCHANGED <<pending, full, loopVars, stream, serverVars>>

-----------------------------------------------------------------------------
(* The select of Request, and its deferred delete.                         *)

Ends(r, where) ==
    /\ pc[r] = "select"
    /\ Go(r, where)
    /\ UNCHANGED <<writeMu, pending, loopVars, stream, serverVars>>

\* An answer, or the error of failAllPending.
Receive(r) == r \in full /\ full' = full \ {r} /\ Ends(r, "leave")

SeeClosed(r) == loop = "closed" /\ Ends(r, "leave") /\ UNCHANGED full

TimeOut(r) == Ends(r, "late") /\ UNCHANGED full

Leave(r) ==
    /\ pc[r] \in {"leave", "late"} /\ PendingMuFree
    /\ pending' = pending \ {r}
    /\ Go(r, "done")
    /\ UNCHANGED <<writeMu, full, loopVars, stream, serverVars>>

-----------------------------------------------------------------------------
(* readLoop.                                                               *)

\* Mutant: the loop itself replies to the server, and reads no message meanwhile.
ReadableOnceReplied ==
    loop = "reading" /\ inc # <<>> /\ \A s \in Sends : pc[s] \in {"idle", "asked", "done"}

Readable == loop = "reading" /\ inc # <<>>

\* ReadMessage returned m.
Reads(m) ==
    /\ Readable /\ m = Head(inc)
    /\ inc' = Tail(inc)
    /\ UNCHANGED <<writeMu, pending, full, stream, out, server, asked>>

\* dispatchResponse up to its unlock; an unknown id is dropped.
ReadAnswer(r) ==
    /\ Reads(Answer(r))
    /\ IF r \in pending THEN loop' = "deliver" /\ target' = r ELSE UNCHANGED loopVars
    /\ UNCHANGED pc

\* handleServerRequest gets a goroutine of its own.
ReadAsk(s) ==
    /\ pc[s] = "asked" /\ Reads(Ask(s))
    /\ Go(s, "send")
    /\ UNCHANGED loopVars

ReadNote == Reads(Note) /\ UNCHANGED <<pc, loopVars>>

ReadNoise == Reads(Noise) /\ loop' = "failing" /\ UNCHANGED <<pc, target>>

Deliver ==
    /\ loop = "deliver" /\ target \notin full
    /\ full' = full \cup {target}
    /\ loop' = "reading" /\ target' = None
    /\ UNCHANGED <<callVars, pending, stream, serverVars>>

\* What was said before the end of the stream may be read or lost.
ReadFails ==
    /\ loop = "reading" /\ stream = "eof"
    /\ loop' = "failing"
    /\ UNCHANGED <<callVars, pending, full, target, stream, serverVars>>

-----------------------------------------------------------------------------
(* failAllPending, in the order of the map, and the end of the loop.       *)

FailNext ==
    /\ loop = "failing" /\ target = None
    /\ target' \in pending
    /\ UNCHANGED <<callVars, pending, full, loop, stream, serverVars>>

\* Mutant: the failed request stays in the map, to be failed again.
FailedKept == UNCHANGED pending

Failed == pending' = pending \ {target}

FailOne ==
    /\ loop = "failing" /\ target # None /\ target \notin full
    /\ full' = full \cup {target}
    /\ Failed
    /\ target' = None
    /\ UNCHANGED <<callVars, loop, stream, serverVars>>

FailedAll ==
    /\ loop = "failing" /\ target = None /\ pending = {}
    /\ loop' = "failed"
    /\ UNCHANGED <<callVars, pending, full, target, stream, serverVars>>

\* Mutant: the loop returns without closing c.closed.
ClosedNot == UNCHANGED loop

Closed == loop' = "closed"

CloseClosed ==
    /\ loop = "failed"
    /\ Closed
    /\ UNCHANGED <<callVars, pending, full, target, stream, serverVars>>

-----------------------------------------------------------------------------
\* The first Close; others do nothing.  What was not yet read of either side's words
\* is lost, but for what has reached the client, which may still be read.
Close ==
    /\ stream = "open"
    /\ stream' = "eof"
    /\ out' = <<>> /\ server' = None /\ asked' = {}
    /\ UNCHANGED <<callVars, pending, full, loopVars, inc>>

-----------------------------------------------------------------------------
(* The remote end.  Its exit and the loss of the connection look like      *)
(* Close to the client.                                                    *)

ServerReads ==
    /\ stream = "open" /\ server = None /\ Len(out) >= 2
    /\ out' = SubSeq(out, 3, Len(out))
    /\ asked' = asked \cup (Requests \cap {Head(out)[1]})
    /\ UNCHANGED <<callVars, pending, full, loopVars, stream, server, inc>>

Says(m) ==
    /\ stream = "open" /\ server = None
    /\ server' = m
    /\ UNCHANGED <<writeMu, pending, full, loopVars, stream, out, inc>>

ServerAnswers(r) == r \in asked /\ Says(Answer(r)) /\ asked' = asked \ {r} /\ UNCHANGED pc

ServerAsks(s) == pc[s] = "idle" /\ Says(Ask(s)) /\ Go(s, "asked") /\ UNCHANGED asked

ServerNotifies == Says(Note) /\ UNCHANGED <<pc, asked>>

ServerGarbles == Says(Noise) /\ UNCHANGED <<pc, asked>>

ServerWrites ==
    /\ stream = "open" /\ server # None /\ Len(inc) < InWindow
    /\ inc' = Append(inc, server)
    /\ server' = None
    /\ UNCHANGED <<callVars, pending, full, loopVars, stream, out, asked>>

-----------------------------------------------------------------------------
Sending(c) == WriteHeader(c) \/ WritePayload(c) \/ WriteFails(c)

Awaiting(r) == Receive(r) \/ SeeClosed(r) \/ Leave(r)

Loop ==
    \/ \E r \in Requests : ReadAnswer(r)
    \/ \E s \in Sends : ReadAsk(s)
    \/ ReadNote \/ ReadNoise \/ Deliver \/ ReadFails
    \/ FailNext \/ FailOne \/ FailedAll \/ CloseClosed

Server ==
    \/ \E r \in Requests : ServerAnswers(r)
    \/ \E s \in Sends : ServerAsks(s)
    \/ ServerNotifies \/ ServerGarbles \/ ServerReads \/ ServerWrites

Next ==
    \/ \E r \in Requests : Request(r) \/ Awaiting(r) \/ TimeOut(r)
    \/ \E s \in Sends : Notify(s)
    \/ \E c \in Calls : Sending(c)
    \/ Loop \/ Close \/ Server

Spec == Init /\ [][Next]_vars

\* Goroutines that can run do, and a server that lives gets back to reading.  No
\* property leans on the timeout of thirty seconds.
FairSpec ==
    /\ Spec
    /\ \A r \in Requests : WF_vars(Awaiting(r))
    /\ \A c \in Calls : WF_vars(Sending(c))
    /\ WF_vars(Loop)
    /\ SF_vars(ServerReads) /\ WF_vars(ServerWrites)

-----------------------------------------------------------------------------
TypeOK ==
    /\ pc \in [Calls -> {"idle", "asked", "send", "payload", "select", "leave", "late", "done"}]
    /\ writeMu \in Calls \cup {None}
    /\ pending \subseteq Requests
    /\ full \subseteq Requests
    /\ loop \in {"reading", "deliver", "failing", "failed", "closed"}
    /\ target \in Requests \cup {None}
    /\ stream \in {"open", "eof"}
    /\ out \in Seq(Calls \X {"header", "payload"})
    /\ server \in Messages \cup {None}
    /\ asked \subseteq Requests
    /\ inc \in Seq(Messages)

\* However a request ends, and whatever ends with it, it leaves no entry in the map,
\* and it loses its entry earlier only to failAllPending.
PendingExact == \A r \in Requests :
    /\ r \in pending => pc[r] \in {"send", "payload", "select", "leave", "late"}
    /\ loop \in {"reading", "deliver"} /\ pc[r] \in {"send", "payload", "select"}
         => r \in pending

\* The frames of concurrent calls are not mixed on the wire.
FramesWhole == Len(out) >= 2 =>
    out[1][1] = out[2][1] /\ out[1][2] = "header" /\ out[2][2] = "payload"

\* The read loop sends to one-slot channels that nobody may be reading.  It finds one
\* full only when it fails the pending requests, and then the request is about to read
\* it or has timed out with its answer in the slot.  The lock the loop holds keeps such
\* a request from leaving, and the loop never ends.
LoopWaitsForLateOnly ==
    target \in full => loop = "failing" /\ pc[target] \in {"select", "late"}

Jammed == loop = "failing" /\ target \in full /\ pc[target] = "late"

\* While the loop reads, every write ends, even with both directions of the stream
\* full and a server that waits to be read.
SendsEnd == \A c \in Calls :
    pc[c] \in {"send", "payload"} ~>
        pc[c] \notin {"send", "payload"} \/ loop \notin {"reading", "deliver"}

Running(c) == pc[c] \notin {"idle", "asked", "done"}

\* The end of the stream ends every call, even those that register after the loop has
\* failed the others, unless a late answer has jammed the loop.
LossEndsCalls == \A c \in Calls :
    stream = "eof" /\ Running(c) ~> pc[c] = "done" \/ Jammed

-----------------------------------------------------------------------------
\* The doc of Request: it "blocks until the matching response arrives (matched by id),
\* the Client is closed, or the underlying transport fails".
LossEndsEveryCall == \A c \in Calls : stream = "eof" /\ Running(c) ~> pc[c] = "done"
===============================================================================
