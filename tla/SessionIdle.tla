----------------------------- MODULE SessionIdle -----------------------------
(***************************************************************************)
(* The idle transfers of a session: IdleTransferManager of                 *)
(* idle-transfer.ts, the desktop form of the manager in IdleTransfer.  One *)
(* manager outlives all sessions of its window; startSession and           *)
(* stopSession, parts of connect, disconnect and the loss of the client,   *)
(* reset it under the walks and the worker that are still running.         *)
(*                                                                         *)
(* A session of the manager is named by the connection that started it.    *)
(* The worker exists while an item is active.  A local mkdir answers before *)
(* the next event of a connection; reading the cache is left out.          *)
(***************************************************************************)
EXTENDS SessionClients

CONSTANTS
    Listing,        \* the remote tree: each directory's entries, in order
    Size,           \* of each file
    Media,          \* the files with a media extension
    Root,           \* what each Scan or Grab walks, and each Drop cancels
    CacheLimit,     \* cacheLimitBytes
    MaxScanEntries  \* MAX_AUTOMATIC_SCAN_ENTRIES

Dirs == DOMAIN Listing

\* A TransferItem: path, whether for the cache, whose call, the client that listed it.
Items ==
    {x \in [path : DOMAIN Size, cache : BOOLEAN, by : Scans \cup Grabs, of : Connects] : x.cache => x.path \in Media}

ASSUME IdleAssumption ==
    /\ Media \subseteq DOMAIN Size /\ Dirs \cap DOMAIN Size = {}
    /\ \A p \in DOMAIN Size : Size[p] \in Nat
    /\ \A d \in Dirs : Listing[d] \in Seq(Dirs \cup DOMAIN Size)
    /\ Root \in [Scans \cup Grabs \cup Drops -> Dirs \cup DOMAIN Size]
    /\ \A s \in Scans : Root[s] \in Dirs
    /\ None \notin [item : Items, failed : BOOLEAN]

VARIABLES
    sftp,      \* this.sftp: the client it is of
    signal,    \* abortController: None, or the connection whose session it is
    dir,       \* cacheDirectory
    latest,    \* the scan whose generation is the current one; None after a stop
    queue,     \* the items that wait
    serving,    \* activeItem, and whether it failed and its part is being removed
    cached,    \* cacheRecords
    bytes,     \* cachedBytes
    reserved,  \* reservedCacheBytes
    walk       \* each Scan and Grab: what its function holds

queueVars == <<queue, reserved>>
idleVars == <<signal, dir, latest, queue, serving, cached, bytes, reserved, walk>>

NoWalk == [dirs |-> <<>>, of |-> None, from |-> None, reserved |-> 0, scanned |-> 0]

IdleInit ==
    /\ sftp = None
    /\ signal = None /\ dir = None /\ latest = None
    /\ queue = <<>> /\ serving = None
    /\ cached = {} /\ bytes = 0 /\ reserved = 0
    /\ walk = [w \in Scans \cup Grabs |-> NoWalk]

-----------------------------------------------------------------------------
(* Sessions.                                                                *)

\* stopSession behind its await: no worker is left.
Forgotten == cached' = {} /\ bytes' = 0 /\ reserved' = 0 /\ dir' = None

\* stopSession, which awaits the worker if there is one; that ends aborted.
StopSession ==
    /\ latest' = None
    /\ signal' = None
    /\ queue' = <<>>
    /\ IF serving = None THEN Forgotten ELSE UNCHANGED <<cached, bytes, reserved, dir>>
    /\ UNCHANGED <<serving, walk>>

\* As startSession would be without the stopSession before it.
StartSessionAsItIs(c) == signal' = c /\ UNCHANGED <<dir, latest, queue, serving, cached, bytes, reserved, walk>>

\* startSession up to the making of the directory.
StartSession(c) ==
    /\ latest' = None
    /\ signal' = c
    /\ queue' = <<>>
    /\ Forgotten
    /\ UNCHANGED <<serving, walk>>

-----------------------------------------------------------------------------
(* The queue and the worker.                                                *)
\* What x takes of the cache.
Cost(x) == IF x.cache THEN Size[x.path] ELSE 0

Bytes(q) ==
    LET sum[n \in 0..Len(q)] == IF n = 0 THEN 0 ELSE sum[n - 1] + Cost(q[n]) IN sum[Len(q)]

\* q.filter: the items at these places, in order.
Kept(q, places) ==
    LET kept[n \in 0..Len(q)] ==
            IF n = 0 THEN <<>> ELSE IF n \in places THEN Append(kept[n - 1], q[n]) ELSE kept[n - 1]
    IN kept[Len(q)]

Unreserve(n) == IF reserved > n THEN reserved - n ELSE 0

\* enqueue: a second copy of what is queued, or for the cache what is cached.
Duplicate(q, x) ==
    \/ \E i \in DOMAIN q : q[i].path = x.path /\ (x.cache \/ q[i].by = x.by)
    \/ x.cache /\ x.path \in cached

Queued(q, x) == IF Duplicate(q, x) THEN q ELSE Append(q, x)

\* The worker's next item of q, or its end; an aborted session's stop goes on.
NextItem(q) ==
    IF q # <<>> /\ signal # None
    THEN serving' = [item |-> Head(q), failed |-> FALSE] /\ queue' = Tail(q)
    ELSE serving' = None /\ queue' = q

\* ensureWorker; without a session the worker ends at once.
EnsureWorker(q) == IF serving = None THEN NextItem(q) ELSE queue' = q /\ UNCHANGED serving

\* transferFile has ended; an abort may come too late to stop it.
Transferred ==
    /\ serving # None /\ ~serving.failed
    /\ NextItem(queue)
    /\ IF signal = None THEN Forgotten
       ELSE IF serving.item.cache
       THEN LET p == serving.item.path IN
            /\ cached' = cached \cup {p} /\ bytes' = bytes + Size[p] /\ reserved' = Unreserve(Size[p])
            /\ UNCHANGED dir
       ELSE UNCHANGED <<cached, bytes, reserved, dir>>
    /\ UNCHANGED <<clientVars, sftp, signal, latest, walk>>

\* An abort, an error of the connection or the disk, an incomplete file.
TransferFails ==
    /\ serving # None /\ ~serving.failed
    /\ serving' = [serving EXCEPT !.failed = TRUE]
    /\ reserved' = IF serving.item.cache THEN Unreserve(Size[serving.item.path]) ELSE reserved
    /\ UNCHANGED <<clientVars, sftp, signal, dir, latest, queue, cached, bytes, walk>>

PartRemoved ==
    /\ serving # None /\ serving.failed
    /\ NextItem(queue)
    /\ IF signal = None THEN Forgotten ELSE UNCHANGED <<cached, bytes, reserved, dir>>
    /\ UNCHANGED <<clientVars, sftp, signal, latest, walk>>

-----------------------------------------------------------------------------
(* startAutomaticMediaCache and scanAutomaticDirectory.                     *)
Manual(q) == Kept(q, {n \in DOMAIN q : ~q[n].cache})

StartAutomaticMediaCache(s) ==
    /\ Called(s)
    /\ IF sftp = None THEN Go(s, "failed") /\ UNCHANGED idleVars
       ELSE /\ latest' = s
            /\ queue' = Manual(queue)
            /\ reserved' = Unreserve(Bytes(queue))
            /\ IF signal = None THEN Go(s, "ok") /\ UNCHANGED walk
               ELSE /\ Go(s, "wait")
                    /\ walk' = [walk EXCEPT ![s] = [NoWalk EXCEPT !.dirs = <<Root[s]>>, !.of = signal,
                                                                  !.reserved = bytes + reserved']]
            /\ UNCHANGED <<signal, dir, serving, cached, bytes>>
    /\ UNCHANGED <<window, closing, client, jump, link, shown, sftp>>

\* The governor lets the walk go on, to ask for the next directory.
WalkReads(w) ==
    /\ w \in Scans \cup Grabs /\ pc[w] = "wait"
    /\ IF signal # walk[w].of \/ sftp = None THEN Go(w, "failed") /\ walk' = [walk EXCEPT ![w] = NoWalk]
       ELSE Go(w, "list") /\ walk' = [walk EXCEPT ![w].from = sftp]
    /\ UNCHANGED <<window, closing, client, jump, link, shown, sftp, signal, dir, latest, queueVars, serving, cached, bytes>>

\* readDir or stat fails: what is queued waits for another call's worker.
WalkFails(w) ==
    /\ w \in Scans \cup Grabs /\ pc[w] \in {"stat", "list"}
    /\ Go(w, "failed") /\ walk' = [walk EXCEPT ![w] = NoWalk]
    /\ UNCHANGED <<window, closing, client, jump, link, shown, sftp, signal, dir, latest, queueVars, serving, cached, bytes>>

Item(w, p) == [path |-> p, cache |-> w \in Scans, by |-> w, of |-> walk[w].from]

\* One entry of a scan: queued if media, not empty, new and within the limit as
\* the scan knows it.
Scanned(s, st, e) ==
    IF e \in Dirs THEN [st EXCEPT !.dirs = Append(@, e)]
    ELSE IF e \notin Media \/ Size[e] = 0 \/ st.reserved + Size[e] > CacheLimit \/ e \in cached THEN st
    ELSE [st EXCEPT !.reserved = @ + Size[e], !.queue = Queued(@, Item(s, e))]

\* One entry of an idle download.
Taken(g, st, e) ==
    IF e \in Dirs THEN [st EXCEPT !.dirs = Append(@, e)] ELSE [st EXCEPT !.queue = Queued(@, Item(g, e))]

Entered(w, st, e) == IF w \in Scans THEN Scanned(w, st, e) ELSE Taken(w, st, e)

\* What the entries of a directory make of start.
Read(w, start, entries) ==
    LET st[n \in 0..Len(entries)] == IF n = 0 THEN start ELSE Entered(w, st[n - 1], entries[n])
    IN st[Len(entries)]

\* The listing came, whatever changed while it was read: its entries are queued,
\* and the walk goes on or ends and starts the worker.
Listed(w) ==
    /\ w \in Scans \cup Grabs /\ pc[w] = "list" /\ link[walk[w].from] = "up"
    /\ LET entries == Listing[Head(walk[w].dirs)]
           start == [dirs |-> Tail(walk[w].dirs), reserved |-> walk[w].reserved, queue |-> queue]
           end == Read(w, start, entries)
           scanned == walk[w].scanned + Len(entries)
           on == /\ end.dirs # <<>> /\ signal = walk[w].of
                 /\ w \in Scans => scanned < MaxScanEntries /\ latest = w
       IN
       IF w \in Scans /\ dir = None /\ end.reserved # start.reserved     \* no directory for them
       THEN Go(w, "ok") /\ walk' = [walk EXCEPT ![w] = NoWalk] /\ UNCHANGED <<queueVars, serving>>
       ELSE /\ reserved' = reserved + Bytes(end.queue) - Bytes(queue)
            /\ IF on
               THEN /\ Go(w, "wait") /\ queue' = end.queue /\ UNCHANGED serving
                    /\ walk' = [walk EXCEPT ![w].dirs = end.dirs, ![w].reserved = end.reserved, ![w].scanned = scanned]
               ELSE Go(w, "ok") /\ walk' = [walk EXCEPT ![w] = NoWalk] /\ EnsureWorker(end.queue)
    /\ UNCHANGED <<window, closing, client, jump, link, shown, sftp, signal, dir, latest, cached, bytes>>

-----------------------------------------------------------------------------
(* queueIdleDownload, cancelIdleDownloadGroup.                              *)
QueueManualDownload(g) ==
    /\ Called(g)
    /\ IF sftp = None \/ signal = None THEN Go(g, "failed") /\ UNCHANGED walk
       ELSE Go(g, "quiet") /\ walk' = [walk EXCEPT ![g] = [NoWalk EXCEPT !.of = signal]]
    /\ UNCHANGED <<window, closing, client, jump, link, shown, sftp, signal, dir, latest, queueVars, serving, cached, bytes>>

GrabStats(g) ==
    /\ g \in Grabs /\ pc[g] = "quiet"
    /\ IF signal # walk[g].of \/ sftp = None THEN Go(g, "failed") /\ walk' = [walk EXCEPT ![g] = NoWalk]
       ELSE Go(g, "stat") /\ walk' = [walk EXCEPT ![g].from = sftp]
    /\ UNCHANGED <<window, closing, client, jump, link, shown, sftp, signal, dir, latest, queueVars, serving, cached, bytes>>

\* A file is queued even if the session has been stopped.
GrabStated(g) ==
    /\ g \in Grabs /\ pc[g] = "stat" /\ link[walk[g].from] = "up"
    /\ IF Root[g] \in Dirs
       THEN Go(g, "wait") /\ walk' = [walk EXCEPT ![g].dirs = <<Root[g]>>] /\ UNCHANGED <<queue, serving>>
       ELSE Go(g, "ok") /\ walk' = [walk EXCEPT ![g] = NoWalk] /\ EnsureWorker(Queued(queue, Item(g, Root[g])))
    /\ UNCHANGED <<window, closing, client, jump, link, shown, sftp, signal, dir, latest, reserved, cached, bytes>>

\* Of a group the queued items go, with every item of their paths; an active one
\* is aborted, and may fail for it.
CancelGroup(d) ==
    /\ Called(d)
    /\ LET ofGroup(x) == ~x.cache /\ Root[x.by] = Root[d]
           paths == {queue[i].path : i \in {j \in DOMAIN queue : ofGroup(queue[j])}}
           stays == Kept(queue, {j \in DOMAIN queue : queue[j].path \notin paths}) IN
       /\ queue' = stays
       /\ reserved' = Unreserve(Bytes(queue) - Bytes(stays))
    /\ Go(d, "ok")
    /\ UNCHANGED <<window, closing, client, jump, link, shown, sftp, signal, dir, latest, serving, cached, bytes, walk>>

IdleNext ==
    \/ Transferred \/ TransferFails \/ PartRemoved
    \/ \E s \in Scans : StartAutomaticMediaCache(s)
    \/ \E w \in Scans \cup Grabs : WalkReads(w) \/ WalkFails(w) \/ Listed(w)
    \/ \E g \in Grabs : QueueManualDownload(g) \/ GrabStats(g) \/ GrabStated(g)
    \/ \E d \in Drops : CancelGroup(d)

\* This session's client, or one that lives on without a session: the late
\* 'close' of an earlier client takes the current one from the window, which it
\* does not end.
Live(c) == c = signal \/ link[c] = "up"

(* The manager is this session's alone: while the window has one, nothing   *)
(* queued or being transferred was listed over a connection that has ended, *)
(* and exactly what is queued or being transferred for the cache is         *)
(* reserved; a transfer into the cache has a directory to go to; and once a *)
(* session is over and its worker has ended nothing is on record.  However  *)
(* stops, losses, new sessions, new scans and cancellations fell between    *)
(* their awaits.                                                            *)
IdleIsThisSessions ==
    /\ signal # None /\ window =>
          /\ \A i \in DOMAIN queue : Live(queue[i].of)
          /\ serving # None => Live(serving.item.of)
    /\ signal # None =>
          reserved = Bytes(queue) + IF serving # None /\ ~serving.failed THEN Cost(serving.item) ELSE 0
    /\ serving # None /\ serving.item.cache => dir # None
    /\ serving = None /\ signal = None => cached = {} /\ bytes = 0

IdleTypeOK ==
    /\ sftp \in Connects \cup {None} /\ signal \in Connects \cup {None} /\ dir \in Connects \cup {None}
    /\ latest \in Scans \cup {None} /\ bytes \in Nat /\ reserved \in Nat
    /\ queue \in Seq(Items) /\ serving \in [item : Items, failed : BOOLEAN] \cup {None}
    /\ walk \in [Scans \cup Grabs -> [dirs : Seq(Dirs), of : Connects \cup {None}, from : Connects \cup {None},
                                      reserved : Nat, scanned : Nat]]
    /\ cached \subseteq Media
=============================================================================
