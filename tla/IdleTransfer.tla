----------------------------- MODULE IdleTransfer -----------------------------
(***************************************************************************)
(* The background transfer queue of server/internal/idletransfer: the      *)
(* automatic media cache and the manual idle downloads of one connection.  *)
(*                                                                         *)
(* Goroutines: one per automatic scan, one per QueueIdleDownload call, the *)
(* worker, the caller of StopSession, of CancelGroup and of ReadCached.    *)
(* A step is one critical section of m.mu, or one effect outside of it.    *)
(* startServices makes one Manager per connection and starts its session   *)
(* once, stopServices stops it once, so a session is new, live, stopped,   *)
(* and ctx.Err() # nil exactly when it is no longer live.                  *)
(***************************************************************************)
EXTENDS Integers, Sequences, FiniteSets

CONSTANTS
    Files, Dirs,      \* the remote tree
    Children,         \* ReadDir of each directory, in order
    Media,            \* files with a media extension
    Size, BaseName,   \* of each file
    ScanRoots, RequestRoots,  \* what the user opens and downloads
    GroupRoots,       \* the downloads the user cancels as a group
    Dests,            \* local destinations a user picks
    Scans,            \* bound: automatic scans, each used once
    Requests,         \* bound: QueueIdleDownload calls, each used once
    Workers,          \* bound: worker goroutines alive at one time
    CacheLimit,       \* cacheLimitBytes
    MaxScanEntries,   \* MaxAutomaticScanEntries
    None              \* "no file", "no item", "no goroutine"

ASSUME TreeAssumption ==
    /\ Files \cap Dirs = {}
    /\ Children \in [Dirs -> Seq(Files \cup Dirs)]
    /\ Media \subseteq Files
    /\ ScanRoots \subseteq Dirs /\ RequestRoots \subseteq Files \cup Dirs /\ GroupRoots \subseteq RequestRoots
    /\ Size \in [Files -> Nat] /\ CacheLimit \in Nat /\ MaxScanEntries \in Nat
    /\ "cache" \notin Dests                                  \* cacheDir is a directory of the manager's own
    /\ Scans \cap Requests = {} /\ IsFiniteSet(Scans) /\ IsFiniteSet(Files)
    /\ None \notin Files \cup Dirs \cup Workers

VARIABLES
    session,              \* "new", "live", "stopped"
    stopPc, stopWaits,    \* StopSession: its place, and the workerDone it waits on
    cacheDir,             \* whether cacheDir names a directory
    cacheRecords,         \* the local path recorded for each cached file
    cachedBytes, reservedCacheBytes,
    queue, queuedPaths,
    workerRunning, workerDone,
    activeItem,           \* with activePath, which is its remote path
    activeCancel,         \* the worker whose item context activeCancel cancels
    automaticScanGeneration,
    wpc, item, itemCanceled,                        \* the worker goroutines
    pc, walk,                                       \* the scan and request goroutines
    group,                                          \* the CancelGroup call
    reading,                                        \* the ReadCached call
    disk                                            \* whose bytes each local file holds

sessionVars == <<session, stopPc, stopWaits, cacheDir, automaticScanGeneration>>
cacheVars   == <<cacheRecords, cachedBytes>>
queueVars   == <<queue, queuedPaths, reservedCacheBytes>>
workerVars  == <<workerRunning, workerDone, wpc>>
activeVars  == <<activeItem, activeCancel, item, itemCanceled>>
walkVars    == <<pc, walk>>
vars == <<sessionVars, cacheVars, queueVars, workerVars, activeVars, walkVars, group, reading, disk>>

-----------------------------------------------------------------------------
(* Data.                                                                   *)

Walkers == Scans \cup Requests

\* fmt.Sprintf("%d-%s", len(m.queuedPaths), filepath.Base(entry.Name)) in cacheDir.
CachePath(f) == [dir |-> "cache", tag |-> Cardinality(queuedPaths), name |-> BaseName[f]]

\* A request lands in the picked directory under its own base name, a directory
\* with the shape of its tree: two single files of one name share a destination.
DownloadPath(d, r, f) ==
    IF r \in Dirs THEN [dir |-> d, tag |-> r, name |-> f]
                  ELSE [dir |-> d, tag |-> None, name |-> BaseName[f]]

Locals ==
    [dir : {"cache"}, tag : 0..Cardinality(Files), name : {BaseName[f] : f \in Files}]
        \cup {DownloadPath(d, r, f) : d \in Dests, r \in Files \cup Dirs, f \in Files}

CacheItem(f) == [path |-> f, local |-> CachePath(f), cache |-> TRUE, group |-> None]
ManualItem(f, d, r) == [path |-> f, local |-> DownloadPath(d, r, f), cache |-> FALSE, group |-> r]

Items == [path : Files, local : Locals, cache : BOOLEAN, group : Files \cup Dirs \cup {None}]

ASSUME ItemsAssumption == None \notin Items

\* The items of q at some places, in their order.
InOrder(places) ==
    CHOOSE f \in [1..Cardinality(places) -> places] : \A m, n \in DOMAIN f : m < n => f[m] < f[n]
ItemsAt(q, places) == [n \in 1..Cardinality(places) |-> q[InOrder(places)[n]]]

\* The bytes that the cache items at some places of q have reserved, one by one.
BytesAt(q, places) == UNION {{k} \X (1..Size[q[k].path]) : k \in {j \in places : q[j].cache}}

QueuedBytes(q) == Cardinality(BytesAt(q, DOMAIN q))

\* Mutant: the clamp at zero is missing.
UnreserveUnclamped(n) == reservedCacheBytes - n

Unreserve(n) == IF reservedCacheBytes > n THEN reservedCacheBytes - n ELSE 0

NoWalk == [dirs |-> <<>>, entries |-> <<>>, gen |-> 0, reserved |-> 0, scanned |-> 0,
           root |-> None, dest |-> None]

ctxDone == session # "live"

Running == {"loop", "pop", "transfer", "fetch", "landed", "failed", "ended", "noSession"}
Walking == {"start", "stat", "walk", "wait", "ensure"}

-----------------------------------------------------------------------------
Init ==
    /\ session = "new" /\ stopPc = "idle" /\ stopWaits = None /\ cacheDir = FALSE
    /\ automaticScanGeneration = 0
    /\ cacheRecords = [f \in Files |-> None] /\ cachedBytes = 0
    /\ queue = <<>> /\ queuedPaths = {} /\ reservedCacheBytes = 0
    /\ workerRunning = FALSE /\ workerDone = None
    /\ wpc = [w \in Workers |-> "off"]
    /\ activeItem = None /\ activeCancel = None
    /\ item = [w \in Workers |-> None] /\ itemCanceled = {}
    /\ pc = [v \in Walkers |-> "off"] /\ walk = [v \in Walkers |-> NoWalk]
    /\ group = [pc |-> "idle", root |-> None, targets |-> <<>>, activeMatches |-> FALSE]
    /\ reading = [pc |-> "idle", path |-> None, local |-> None]
    /\ disk = [l \in Locals |-> None]

-----------------------------------------------------------------------------
(* Session.                                                                *)

\* Its StopSession finds nothing to stop and advances the generation.
StartSession ==
    /\ session = "new"
    /\ session' = "live"
    /\ cacheDir' = TRUE
    /\ automaticScanGeneration' = automaticScanGeneration + 1
    /\ UNCHANGED <<stopPc, stopWaits, cacheVars, queueVars, workerVars, activeVars, walkVars, group, reading, disk>>

\* The first critical section of StopSession.  It cancels but does not release
\* the reservations: the second one, behind the wait, zeroes them.
StopSession ==
    /\ session = "live"
    /\ session' = "stopped"
    /\ automaticScanGeneration' = automaticScanGeneration + 1
    /\ itemCanceled' = itemCanceled \cup ({activeCancel} \ {None})
    /\ stopPc' = "draining"
    /\ stopWaits' = workerDone
    /\ queue' = <<>>
    /\ queuedPaths' = {}
    /\ UNCHANGED <<cacheDir, reservedCacheBytes, cacheVars, workerVars, activeItem, activeCancel, item,
                   walkVars, group, reading, disk>>

\* Mutant: StopSession does not wait for the worker.
drainedAlready == TRUE

\* <-done: a worker closes its channel as it returns.
drained == stopWaits # None => wpc[stopWaits] = "off"

\* The second critical section, and os.RemoveAll(dir).
StopSessionDrained ==
    /\ stopPc = "draining"
    /\ drained
    /\ stopPc' = "idle"
    /\ stopWaits' = None
    /\ cacheRecords' = [f \in Files |-> None]
    /\ cachedBytes' = 0
    /\ reservedCacheBytes' = 0
    /\ cacheDir' = FALSE
    /\ disk' = [l \in Locals |-> IF l.dir = "cache" THEN None ELSE disk[l]]
    /\ UNCHANGED <<session, automaticScanGeneration, queue, queuedPaths, workerVars, activeVars, walkVars,
                   group, reading>>

-----------------------------------------------------------------------------
(* ensureWorker, called at the end of a scan, of a request and of a worker. *)
(* base is wpc with the caller's own move already made.  Without a session  *)
(* the goroutine only closes its channel again, in a second section.        *)

FreeWorkers == {w \in Workers : wpc[w] = "off" /\ w # stopWaits}

\* Mutant: a second worker is started beside a running one.
NoWorkerNeededUnlessQueued == queue = <<>>

NoWorkerNeeded == workerRunning \/ queue = <<>>

ensureWorker(base) ==
    IF NoWorkerNeeded
    THEN wpc' = base /\ UNCHANGED <<workerRunning, workerDone>>
    ELSE \E w \in FreeWorkers :
           /\ wpc' = [base EXCEPT ![w] = IF session = "live" THEN "loop" ELSE "noSession"]
           /\ workerRunning' = TRUE
           /\ workerDone' = w

NoSession(w) ==
    /\ wpc[w] = "noSession"
    /\ wpc' = [wpc EXCEPT ![w] = "off"]
    /\ workerRunning' = FALSE
    /\ workerDone' = None
    /\ UNCHANGED <<sessionVars, cacheVars, queueVars, activeVars, walkVars, group, reading, disk>>

-----------------------------------------------------------------------------
(* enqueueLocked.  Only the queue is searched, not the active item.        *)

Duplicate(i) ==
    \/ \E k \in DOMAIN queue :
         queue[k].path = i.path /\ (i.cache \/ queue[k].local = i.local)
    \/ i.cache /\ cacheRecords[i.path] # None

enqueueLocked(i) ==
    IF Duplicate(i) THEN UNCHANGED queueVars
    ELSE /\ queuedPaths' = queuedPaths \cup {i.path}
         /\ queue' = Append(queue, i)
         /\ reservedCacheBytes' = reservedCacheBytes + (IF i.cache THEN Size[i.path] ELSE 0)

-----------------------------------------------------------------------------
(* Walks.  A scan and a request walk the tree alike.                       *)

besidesWalk == <<sessionVars, cacheVars, workerVars, activeVars, group, reading, disk>>

Goto(v, place) == pc' = [pc EXCEPT ![v] = place]

\* A walk that is over leaves none of its locals behind.
Over(v, end) == Goto(v, end) /\ walk' = [walk EXCEPT ![v] = NoWalk]

BetweenListings(v) == pc[v] = "walk" /\ walk[v].entries = <<>>

AtDirectory(v) == pc[v] = "walk" /\ walk[v].entries # <<>> /\ Head(walk[v].entries) \in Dirs

AtFile(v) == pc[v] = "walk" /\ walk[v].entries # <<>> /\ Head(walk[v].entries) \in Files

Exhausted(v) == walk[v].dirs = <<>> \/ (v \in Scans /\ walk[v].scanned >= MaxScanEntries)

Stale(v) == ctxDone \/ (v \in Scans /\ walk[v].gen # automaticScanGeneration)

\* The context is looked at, and of a scan its generation; then the governor waits.
WalkWaits(v) ==
    /\ BetweenListings(v) /\ ~Exhausted(v) /\ ~Stale(v)
    /\ Goto(v, "wait")
    /\ UNCHANGED <<walk, queueVars, besidesWalk>>

\* The governor granted, and ReadDir answered with the listing of the next
\* directory: neither looks at what changed during the wait.
ReadDir(v) ==
    LET listing == Children[Head(walk[v].dirs)]
    IN  /\ pc[v] = "wait"
        /\ Goto(v, "walk")
        /\ walk' = [walk EXCEPT ![v].entries = listing,
                                ![v].dirs = Tail(walk[v].dirs),
                                ![v].scanned = walk[v].scanned + Len(listing)]
        /\ UNCHANGED <<queueVars, besidesWalk>>

WalkDirectory(v) ==
    /\ AtDirectory(v)
    /\ walk' = [walk EXCEPT ![v].dirs = Append(walk[v].dirs, Head(walk[v].entries)),
                            ![v].entries = Tail(walk[v].entries)]
    /\ UNCHANGED <<pc, queueVars, besidesWalk>>

WalkEnds(v) ==
    /\ BetweenListings(v) /\ Exhausted(v)
    /\ Goto(v, "ensure")
    /\ UNCHANGED <<walk, queueVars, besidesWalk>>

\* The wait is canceled, or ReadDir fails; of a request, its context is over, or
\* MkdirAll fails for a directory in the listing.  The walk returns without
\* ensureWorker, whatever it queued before.
WalkFails(v) ==
    /\ \/ pc[v] = "wait"
       \/ v \in Requests /\ BetweenListings(v) /\ ~Exhausted(v) /\ ctxDone
       \/ v \in Requests /\ AtDirectory(v)
    /\ Over(v, "failed")
    /\ UNCHANGED <<queueVars, besidesWalk>>

\* scanAutomaticDirectory and QueueIdleDownload call ensureWorker at their end.
WalkEnsures(v) ==
    /\ pc[v] = "ensure"
    /\ ensureWorker(wpc)
    /\ Over(v, "done")
    /\ UNCHANGED <<sessionVars, cacheVars, queueVars, activeVars, group, reading, disk>>

-----------------------------------------------------------------------------
(* The automatic scan.                                                     *)

\* Mutant: a new scan empties the whole queue.
KeptByRescanNone(q) == <<>>

\* What a new scan keeps of the queue: the manual downloads.
KeptByRescan(q) == ItemsAt(q, {k \in DOMAIN q : ~q[k].cache})

\* The scan of the previous directory is retired and its queued items dropped.
StartAutomaticMediaCache(s, d) ==
    /\ pc[s] = "off"
    /\ session # "new"
    /\ automaticScanGeneration' = automaticScanGeneration + 1
    /\ LET discarded == {queue[k].path : k \in {j \in DOMAIN queue : queue[j].cache}}
       IN  /\ queue' = KeptByRescan(queue)
           /\ queuedPaths' = queuedPaths \ discarded
           /\ reservedCacheBytes' = Unreserve(QueuedBytes(queue))
    /\ IF ctxDone THEN Over(s, "done")
       ELSE /\ Goto(s, "start")
            /\ walk' = [walk EXCEPT ![s] = [NoWalk EXCEPT !.dirs = <<d>>, !.gen = automaticScanGeneration']]
    /\ UNCHANGED <<session, stopPc, stopWaits, cacheDir, cacheVars, workerVars, activeVars, group, reading, disk>>

\* reservedBytes is read once, when the scan goroutine starts.
ScanStart(s) ==
    /\ pc[s] = "start"
    /\ Goto(s, "walk")
    /\ walk' = [walk EXCEPT ![s].reserved = cachedBytes + reservedCacheBytes]
    /\ UNCHANGED <<queueVars, besidesWalk>>

\* A newer scan, or StopSession, ends the loop; the worker is started here too.
ScanRetires(s) ==
    /\ BetweenListings(s) /\ ~Exhausted(s) /\ Stale(s)
    /\ Goto(s, "ensure")
    /\ UNCHANGED <<walk, queueVars, besidesWalk>>

\* Mutant: a file is compared with the limit on its own.
OverLimitAlone(s, f) == Size[f] > CacheLimit

OverLimit(s, f) == walk[s].reserved + Size[f] > CacheLimit

Skips(s, f) ==
    \/ f \notin Media
    \/ Size[f] = 0
    \/ OverLimit(s, f)
    \/ cacheRecords[f] # None
    \/ ~cacheDir

\* A retired scan goes on to the end of the listing it is in.
ScanFile(s) ==
    /\ AtFile(s)
    /\ LET f == Head(walk[s].entries)
           rest == Tail(walk[s].entries)
       IN  \/ /\ ~Skips(s, f)
              /\ enqueueLocked(CacheItem(f))
              /\ walk' = [walk EXCEPT ![s].entries = rest, ![s].reserved = walk[s].reserved + Size[f]]
              /\ UNCHANGED pc
           \/ /\ Skips(s, f)
              /\ IF f \in Media /\ ~cacheDir THEN Over(s, "done")
                 ELSE walk' = [walk EXCEPT ![s].entries = rest] /\ UNCHANGED pc
              /\ UNCHANGED queueVars
    /\ UNCHANGED besidesWalk

-----------------------------------------------------------------------------
(* QueueIdleDownload and queueDirectory.                                   *)

QueueIdleDownload(r, p, d) ==
    /\ pc[r] = "off"
    /\ ~ctxDone
    /\ Goto(r, "stat")
    /\ walk' = [walk EXCEPT ![r] = [NoWalk EXCEPT !.root = p, !.dest = d]]
    /\ UNCHANGED <<queueVars, besidesWalk>>

\* The governor grants and Stat answers.
RequestStat(r) ==
    /\ pc[r] = "stat"
    /\ LET p == walk[r].root
       IN  \/ /\ p \in Dirs
              /\ Goto(r, "walk")
              /\ walk' = [walk EXCEPT ![r].dirs = <<p>>]
              /\ UNCHANGED queueVars
           \/ /\ p \in Files
              /\ Goto(r, "ensure")
              /\ enqueueLocked(ManualItem(p, walk[r].dest, p))
              /\ UNCHANGED walk
    /\ UNCHANGED besidesWalk

\* The wait is canceled, or Stat fails: nothing was queued.
RequestRefused(r) ==
    /\ pc[r] = "stat"
    /\ Over(r, "done")
    /\ UNCHANGED <<queueVars, besidesWalk>>

RequestFile(r) ==
    /\ AtFile(r)
    /\ enqueueLocked(ManualItem(Head(walk[r].entries), walk[r].dest, walk[r].root))
    /\ walk' = [walk EXCEPT ![r].entries = Tail(walk[r].entries)]
    /\ UNCHANGED <<pc, besidesWalk>>

-----------------------------------------------------------------------------
(* The worker.                                                             *)

MoveWorker(w, place) ==
    /\ wpc' = [wpc EXCEPT ![w] = place]
    /\ UNCHANGED <<sessionVars, cacheVars, queueVars, workerRunning, workerDone, activeVars, walkVars, group,
                   reading>>

\* ctx.Err() at the top of the loop, read without the lock.
WorkerLoop(w) ==
    /\ wpc[w] = "loop"
    /\ MoveWorker(w, IF ctxDone THEN "ended" ELSE "pop")
    /\ UNCHANGED disk

WorkerPop(w) ==
    /\ wpc[w] = "pop" /\ queue # <<>>
    /\ wpc' = [wpc EXCEPT ![w] = "transfer"]
    /\ queue' = Tail(queue)
    /\ item' = [item EXCEPT ![w] = Head(queue)]
    /\ activeItem' = Head(queue)
    /\ activeCancel' = w
    /\ itemCanceled' = itemCanceled \ {w}
    /\ UNCHANGED <<sessionVars, cacheVars, queuedPaths, reservedCacheBytes, workerRunning, workerDone, walkVars,
                   group, reading, disk>>

WorkerIdle(w) ==
    /\ wpc[w] = "pop" /\ queue = <<>>
    /\ MoveWorker(w, "ended")
    /\ UNCHANGED disk

\* Mutant: itemCtx does not derive from the session's context.
itemCtxDetached(w) == w \in itemCanceled

\* itemCtx: its own cancel, or that of the session it derives from.
itemCtxDone(w) == w \in itemCanceled \/ ctxDone

\* Mutant: the destination is not looked at.
DestinationIgnored(w) == FALSE

\* An idle download finds its destination taken.
DestinationExists(w) == ~item[w].cache /\ disk[item[w].local] # None

\* transferFile then succeeds without a byte.
TransferSkips(w) ==
    /\ wpc[w] = "transfer" /\ DestinationExists(w)
    /\ MoveWorker(w, "landed")
    /\ UNCHANGED disk

TransferStarts(w) ==
    /\ wpc[w] = "transfer" /\ ~DestinationExists(w)
    /\ MoveWorker(w, "fetch")
    /\ UNCHANGED disk

\* The chunks were granted, the size is right, and the part file is renamed, over
\* whatever is there.  A cancel behind the last look at the context is too late.
TransferLands(w) ==
    /\ wpc[w] = "fetch"
    /\ MoveWorker(w, "landed")
    /\ disk' = [disk EXCEPT ![item[w].local] = item[w].path]

\* The governor, the stream or a chunk sees the canceled context.
TransferCanceled(w) ==
    /\ wpc[w] = "fetch" /\ itemCtxDone(w)
    /\ MoveWorker(w, "failed")
    /\ UNCHANGED disk

\* Any other error: network, local disk, a size that does not match.
TransferErrs(w) ==
    /\ wpc[w] \in {"transfer", "fetch"}
    /\ MoveWorker(w, "failed")
    /\ UNCHANGED disk

\* Mutant: only a success gives its reservation back.
ReleasedOnSuccess(w) == IF item[w].cache /\ wpc[w] = "landed" THEN Size[item[w].path] ELSE 0

\* What a cache item gives back, whether it landed or failed.
Released(w) == IF item[w].cache THEN Size[item[w].path] ELSE 0

\* The bookkeeping behind transferFile.
WorkerFinishes(w) ==
    /\ wpc[w] \in {"landed", "failed"}
    /\ LET i == item[w]
       IN  /\ reservedCacheBytes' = Unreserve(Released(w))
           /\ IF i.cache /\ wpc[w] = "landed"
              THEN /\ cacheRecords' = [cacheRecords EXCEPT ![i.path] = i.local]
                   /\ cachedBytes' = cachedBytes + Size[i.path]
              ELSE UNCHANGED cacheVars
           /\ queuedPaths' = queuedPaths \ {i.path}
    /\ activeItem' = None
    /\ activeCancel' = None
    /\ item' = [item EXCEPT ![w] = None]
    /\ itemCanceled' = itemCanceled \ {w}
    /\ wpc' = [wpc EXCEPT ![w] = "loop"]
    /\ UNCHANGED <<sessionVars, queue, workerRunning, workerDone, walkVars, group, reading, disk>>

\* Mutant: the queue is not looked at again.
hasMoreNever == FALSE

hasMore == queue # <<>> /\ ~ctxDone

\* runWorker returned: workerRunning is cleared and the queue looked at once more.
WorkerEnds(w) ==
    /\ wpc[w] = "ended"
    /\ workerRunning' = FALSE
    /\ wpc' = [wpc EXCEPT ![w] = IF hasMore THEN "again" ELSE "off"]
    /\ UNCHANGED <<sessionVars, cacheVars, queueVars, workerDone, activeVars, walkVars, group, reading, disk>>

\* The deferred close(done) follows.
WorkerAgain(w) ==
    /\ wpc[w] = "again"
    /\ ensureWorker([wpc EXCEPT ![w] = "off"])
    /\ UNCHANGED <<sessionVars, cacheVars, queueVars, activeVars, walkVars, group, reading, disk>>

-----------------------------------------------------------------------------
(* Cancellation.                                                           *)

\* Mutant: a canceled cache item keeps its reservation.
FreedNothing(kept) == 0

\* What the items that leave the queue had reserved.
Freed(kept) == QueuedBytes(queue) - QueuedBytes(kept)

cancelDownload(p) ==
    LET kept == ItemsAt(queue, {k \in DOMAIN queue : queue[k].path # p})
    IN  /\ queue' = kept
        /\ reservedCacheBytes' = Unreserve(Freed(kept))
        /\ queuedPaths' = IF Len(kept) < Len(queue) THEN queuedPaths \ {p} ELSE queuedPaths
        /\ itemCanceled' =
             IF activeItem # None /\ activeItem.path = p /\ activeCancel # None
             THEN itemCanceled \cup {activeCancel} ELSE itemCanceled

CancelDownload(p) ==
    /\ session # "new"
    /\ cancelDownload(p)
    /\ UNCHANGED <<sessionVars, cacheVars, workerVars, activeItem, activeCancel, item, walkVars, group, reading,
                   disk>>

\* The first critical section: the targets, and whether the active item is one.
CancelGroup(g) ==
    /\ session # "new"
    /\ group.pc = "idle"
    /\ group' = [pc |-> "targets", root |-> g,
                  targets |-> ItemsAt(queue, {k \in DOMAIN queue : queue[k].group = g}),
                  activeMatches |-> activeItem # None /\ activeItem.group = g]
    /\ UNCHANGED <<sessionVars, cacheVars, queueVars, workerVars, activeVars, walkVars, reading, disk>>

\* m.CancelDownload(remotePath) for the next target.
GroupTarget ==
    /\ group.pc = "targets" /\ group.targets # <<>>
    /\ cancelDownload(Head(group.targets).path)
    /\ group' = [group EXCEPT !.targets = Tail(group.targets)]
    /\ UNCHANGED <<sessionVars, cacheVars, workerVars, activeItem, activeCancel, item, walkVars, reading, disk>>

\* The last critical section: whatever is active by now is canceled.
GroupActive ==
    /\ group.pc = "targets" /\ group.targets = <<>>
    /\ itemCanceled' = IF group.activeMatches /\ activeCancel # None
                       THEN itemCanceled \cup {activeCancel} ELSE itemCanceled
    /\ group' = [pc |-> "idle", root |-> None, targets |-> <<>>, activeMatches |-> FALSE]
    /\ UNCHANGED <<sessionVars, cacheVars, queueVars, workerVars, activeItem, activeCancel, item, walkVars,
                   reading, disk>>

-----------------------------------------------------------------------------
(* ReadCached: the record is looked up under the lock, the file read after. *)

ReadCached(f) ==
    /\ reading.pc = "idle"
    /\ cacheRecords[f] # None
    /\ reading' = [pc |-> "read", path |-> f, local |-> cacheRecords[f]]
    /\ UNCHANGED <<sessionVars, cacheVars, queueVars, workerVars, activeVars, walkVars, group, disk>>

ReadHit ==
    /\ reading.pc = "read"
    /\ disk[reading.local] # None
    /\ reading' = [pc |-> "idle", path |-> None, local |-> None]
    /\ UNCHANGED <<sessionVars, cacheVars, queueVars, workerVars, activeVars, walkVars, group, disk>>

\* The file is gone: the record is evicted and its bytes given back.
ReadEvicts ==
    /\ reading.pc = "read"
    /\ disk[reading.local] = None
    /\ cacheRecords' = [cacheRecords EXCEPT ![reading.path] = None]
    /\ cachedBytes' = IF cachedBytes > Size[reading.path] THEN cachedBytes - Size[reading.path] ELSE 0
    /\ reading' = [pc |-> "idle", path |-> None, local |-> None]
    /\ UNCHANGED <<sessionVars, queueVars, workerVars, activeVars, walkVars, group, disk>>

-----------------------------------------------------------------------------
Api ==
    \/ StartSession
    \/ StopSession
    \/ \E s \in Scans, d \in ScanRoots : StartAutomaticMediaCache(s, d)
    \/ \E r \in Requests, p \in RequestRoots, d \in Dests : QueueIdleDownload(r, p, d)
    \/ \E p \in Files : CancelDownload(p)
    \/ \E g \in GroupRoots : CancelGroup(g)
    \/ \E f \in Files : ReadCached(f)

\* Steps that wait for the governor or the network; errors may happen instead.
WalkGranted(v) == ReadDir(v) \/ (v \in Requests /\ RequestStat(v))

WalkErrs(v) == WalkFails(v) \/ (v \in Requests /\ RequestRefused(v))

WalkSteps(v) ==
    \/ WalkWaits(v) \/ WalkDirectory(v) \/ WalkEnds(v) \/ WalkEnsures(v)
    \/ v \in Scans /\ (ScanStart(v) \/ ScanFile(v) \/ ScanRetires(v))
    \/ v \in Requests /\ RequestFile(v)

WorkerSteps(w) ==
    \/ NoSession(w) \/ WorkerLoop(w) \/ WorkerPop(w) \/ WorkerIdle(w)
    \/ TransferSkips(w) \/ TransferStarts(w) \/ TransferCanceled(w)
    \/ WorkerFinishes(w) \/ WorkerEnds(w) \/ WorkerAgain(w)

CallerSteps == StopSessionDrained \/ GroupTarget \/ GroupActive \/ ReadHit \/ ReadEvicts

Next ==
    \/ Api \/ CallerSteps
    \/ \E v \in Walkers : WalkSteps(v) \/ WalkGranted(v) \/ WalkErrs(v)
    \/ \E w \in Workers : WorkerSteps(w) \/ TransferLands(w) \/ TransferErrs(w)

Spec == Init /\ [][Next]_vars

\* The Go scheduler runs every goroutine that can run.  Whether the governor
\* ever grants, and the network ever answers, is not the manager's to promise.
FairSpec ==
    /\ Spec
    /\ WF_vars(StopSessionDrained)
    /\ WF_vars(GroupTarget \/ GroupActive)
    /\ WF_vars(ReadHit \/ ReadEvicts)
    /\ \A v \in Walkers : WF_vars(WalkSteps(v))
    /\ \A w \in Workers : WF_vars(WorkerSteps(w))

-----------------------------------------------------------------------------
Walks == [dirs : Seq(Dirs), entries : Seq(Files \cup Dirs),
          gen : Nat, reserved : Nat, scanned : Nat,
          root : Files \cup Dirs \cup {None}, dest : Dests \cup {None}]

TypeOK ==
    /\ session \in {"new", "live", "stopped"}
    /\ stopPc \in {"idle", "draining"}
    /\ stopWaits \in Workers \cup {None}
    /\ cacheDir \in BOOLEAN
    /\ automaticScanGeneration \in Nat
    /\ cacheRecords \in [Files -> Locals \cup {None}]
    /\ cachedBytes \in Nat /\ reservedCacheBytes \in Nat
    /\ queue \in Seq(Items) /\ queuedPaths \subseteq Files
    /\ workerRunning \in BOOLEAN /\ workerDone \in Workers \cup {None}
    /\ activeItem \in Items \cup {None} /\ activeCancel \in Workers \cup {None}
    /\ wpc \in [Workers -> Running \cup {"off", "again"}]
    /\ item \in [Workers -> Items \cup {None}] /\ itemCanceled \subseteq Workers
    /\ pc \in [Walkers -> Walking \cup {"off", "done", "failed"}]
    /\ walk \in [Walkers -> Walks]
    /\ group \in [pc : {"idle", "targets"}, root : Files \cup Dirs \cup {None},
                  targets : Seq(Items), activeMatches : BOOLEAN]
    /\ reading \in [pc : {"idle", "read"}, path : Files \cup {None}, local : Locals \cup {None}]
    /\ disk \in [Locals -> Files \cup {None}]

\* However ensureWorker is raced by scans, requests, the end of a worker and
\* StopSession, at most one worker runs, exactly when workerRunning says so, and
\* the channel StopSession would wait on is its own.
OneWorker ==
    /\ \A w, x \in Workers : wpc[w] \in Running /\ wpc[x] \in Running => w = x
    /\ workerRunning <=> \E w \in Workers : wpc[w] \in Running
    /\ \A w \in Workers : wpc[w] \in Running => workerDone = w

\* What reservedCacheBytes holds back of the cache limit is what cache items
\* still queued or in transfer need: nothing leaks, and no release is clamped.
ReservationsExact ==
    session = "live" =>
        reservedCacheBytes = QueuedBytes(queue)
            + (IF activeItem # None /\ activeItem.cache THEN Size[activeItem.path] ELSE 0)

\* No lost wakeup: in a live session a queued item has a worker, or somebody who
\* will still call ensureWorker, or was left behind by a walk that failed.
NoLostWakeup ==
    session = "live" /\ queue # <<>> =>
        \/ workerRunning
        \/ \E w \in Workers : wpc[w] = "again"
        \/ \E v \in Walkers : pc[v] \in Walking \cup {"failed"}

\* Once StopSession has returned, no transfer of the session is under way and no
\* file is left, or put back, in the removed cache directory.
NothingAfterStop ==
    session = "stopped" /\ stopPc = "idle" =>
        /\ \A w \in Workers : wpc[w] \notin {"transfer", "fetch", "landed", "failed"}
        /\ \A l \in Locals : l.dir = "cache" => disk[l] = None
        /\ \A f \in Files : cacheRecords[f] = None

-----------------------------------------------------------------------------
(* What makes OneWorker, NoLostWakeup and NothingAfterStop inductive.      *)

WorkerTypeOK ==
    /\ wpc \in [Workers -> Running \cup {"off", "again"}]
    /\ pc \in [Walkers -> Walking \cup {"off", "done", "failed"}]
    /\ workerRunning \in BOOLEAN
    /\ cacheRecords = [f \in Files |-> cacheRecords[f]]
    /\ disk = [l \in Locals |-> disk[l]]

\* Before the session starts nothing is queued and no goroutine exists.
QuietBeforeStart ==
    session = "new" =>
        /\ queue = <<>> /\ stopPc = "idle"
        /\ \A v \in Walkers : pc[v] = "off"
        /\ \A w \in Workers : wpc[w] = "off"

\* While the session lives it has a cache directory, and workers have its context.
LiveHasSession ==
    session = "live" => cacheDir /\ stopPc = "idle" /\ \A w \in Workers : wpc[w] # "noSession"

\* The only worker left behind a stop is the one StopSession waits for.
StopWaitsForWorker ==
    session = "stopped" =>
        \A w \in Workers : wpc[w] \in Running \ {"noSession"} => stopPc = "draining" /\ stopWaits = w

\* Whoever may have queued something has yet to call ensureWorker.
QueueHasWorker ==
    session = "live" /\ queue # <<>> =>
        \/ workerRunning
        \/ \E w \in Workers : wpc[w] = "again"
        \/ \E v \in Walkers : pc[v] \in {"start", "walk", "wait", "ensure", "failed"}

WorkerInvariant ==
    /\ WorkerTypeOK /\ OneWorker /\ NothingAfterStop
    /\ QuietBeforeStart /\ LiveHasSession /\ StopWaitsForWorker /\ QueueHasWorker

-----------------------------------------------------------------------------
\* What is cached and reserved stays within the limit as long as only one scan was
\* started, whatever is canceled, fails or is downloaded meanwhile.
OneScanWithinLimit ==
    Cardinality({s \in Scans : pc[s] # "off"}) =< 1
        => cachedBytes + reservedCacheBytes =< CacheLimit

\* "keeping any manual downloads already queued": a queued idle download leaves
\* the queue only to be transferred, by its own cancellation, or when the session
\* stops, whatever scans come and go.
Manual(q) == {q[k] : k \in {j \in DOMAIN q : ~q[j].cache}}

Cancels(p) == CancelDownload(p) \/ (GroupTarget /\ Head(group.targets).path = p)

ManualDownloadsKept ==
    [][\A i \in Manual(queue) \ Manual(queue') :
         activeItem' = i \/ session' = "stopped" \/ Cancels(i.path)]_vars

\* An idle download never overwrites a file, also when two downloads are given
\* one destination.
NeverOverwrites ==
    [][\A l \in Locals : l.dir # "cache" /\ disk[l] # None => disk'[l] = disk[l]]_vars

\* StopSession returns, whether or not the governor or the network ever lets the
\* active transfer go on.
StopReturns == (stopPc = "draining") ~> (stopPc = "idle")

\* If the governor and the network keep answering, the queue drains, unless the
\* session stops or a walk failed.
ServiceFair ==
    /\ \A v \in Walkers : WF_vars(WalkGranted(v))
    /\ \A w \in Workers : WF_vars(TransferLands(w))

QueueDrains ==
    ServiceFair => ((queue # <<>>) ~>
        (queue = <<>> \/ ctxDone \/ \E v \in Walkers : pc[v] = "failed"))

-----------------------------------------------------------------------------
\* The claim of TestManager_StartAutomaticMediaCache_RespectsCacheLimit: what is cached
\* stays within the limit of the cache.
CacheWithinLimit == cachedBytes =< CacheLimit

\* ReadCached returns "the previously cached bytes for remotePath".
ReadsItsOwnBytes == [][ReadHit => disk[reading.local] = reading.path]_vars
===============================================================================
