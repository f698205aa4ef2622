-------------------------- MODULE IdleTransferProofs --------------------------
(***************************************************************************)
(* Proofs about the idle transfers, for any remote tree and any number of  *)
(* scans, requests and goroutines. The worker: there is one, a queued item *)
(* is never forgotten, and nothing happens behind a stop. The cache: the   *)
(* reserved bytes are exact and one scan stays within the limit. The queue *)
(* and the destinations: a manual download is kept, no file overwritten.   *)
(***************************************************************************)
EXTENDS IdleTransfer, FiniteSetTheorems, SequenceTheorems, WellFoundedInduction, TLAPS

Frame == <<session, stopPc, stopWaits, cacheDir, cacheRecords, workerRunning, workerDone, wpc, disk>>

\* A step of a walk, or a cancellation, can only disturb what is said of the queue.
LEMMA WalkStep ==
    ASSUME WorkerInvariant, UNCHANGED Frame,
           pc' \in [Walkers -> Walking \cup {"off", "done", "failed"}],
           QuietBeforeStart', QueueHasWorker'
    PROVE  WorkerInvariant'
  BY DEF Frame, WorkerInvariant, WorkerTypeOK, OneWorker, NothingAfterStop, LiveHasSession, StopWaitsForWorker

-----------------------------------------------------------------------------
\* A worker is started only when none runs, and then the queue has a worker.
LEMMA EnsureStartsOne ==
    ASSUME WorkerInvariant, session # "new",
           NEW base \in [Workers -> Running \cup {"off", "again"}],
           \A w \in Workers : base[w] = wpc[w] \/ (wpc[w] = "again" /\ base[w] = "off"),
           ensureWorker(base),
           UNCHANGED <<session, stopPc, stopWaits, cacheDir, cacheRecords, queue, disk>>,
           pc' \in [Walkers -> Walking \cup {"off", "done", "failed"}]
    PROVE  WorkerInvariant'
<1> USE DEF WorkerInvariant
<1>1. CASE workerRunning \/ queue = <<>>
  <2>1. wpc' = base /\ UNCHANGED <<workerRunning, workerDone>>
    BY <1>1 DEF ensureWorker, NoWorkerNeeded
  <2>2. WorkerTypeOK' /\ OneWorker'
    BY <2>1 DEF WorkerTypeOK, OneWorker, Running
  <2>3. NothingAfterStop' /\ StopWaitsForWorker'
    BY <2>1 DEF NothingAfterStop, StopWaitsForWorker, Running, WorkerTypeOK
  <2>4. QuietBeforeStart' /\ LiveHasSession' /\ QueueHasWorker'
    BY <1>1, <2>1 DEF QuietBeforeStart, LiveHasSession, QueueHasWorker
  <2> QED
    BY <2>2, <2>3, <2>4
<1>2. CASE ~(workerRunning \/ queue = <<>>)
  <2>1. PICK n \in Workers :
          /\ wpc[n] = "off"
          /\ wpc' = [base EXCEPT ![n] = IF session = "live" THEN "loop" ELSE "noSession"]
          /\ workerRunning' = TRUE
          /\ workerDone' = n
    BY <1>2 DEF ensureWorker, NoWorkerNeeded, FreeWorkers
  <2>2. \A w \in Workers : wpc[w] \notin Running /\ base[w] \notin Running
    BY <1>2 DEF OneWorker, Running
  <2>3. WorkerTypeOK' /\ OneWorker'
    BY <2>1, <2>2 DEF WorkerTypeOK, OneWorker, Running
  <2>4. NothingAfterStop' /\ StopWaitsForWorker'
    BY <2>1, <2>2 DEF NothingAfterStop, StopWaitsForWorker, Running
  <2>5. QuietBeforeStart' /\ LiveHasSession' /\ QueueHasWorker'
    BY <2>1 DEF QuietBeforeStart, LiveHasSession, QueueHasWorker
  <2> QED
    BY <2>3, <2>4, <2>5
<1> QED
  BY <1>1, <1>2

\* A scan or a request that calls ensureWorker at its end keeps the invariant.
LEMMA EnsuresKeepInvariant ==
    ASSUME WorkerInvariant, NEW v \in Walkers, WalkEnsures(v)
    PROVE  WorkerInvariant'
<1>1. session # "new"
  BY DEF WalkEnsures, WorkerInvariant, QuietBeforeStart
<1>2. /\ pc' \in [Walkers -> Walking \cup {"off", "done", "failed"}]
      /\ UNCHANGED <<session, stopPc, stopWaits, cacheDir, cacheRecords, queue, disk>>
  BY DEF WalkEnsures, Over, Goto, sessionVars, cacheVars, queueVars, WorkerInvariant, WorkerTypeOK
<1> QED
  BY <1>1, <1>2, EnsureStartsOne DEF WalkEnsures, WorkerInvariant, WorkerTypeOK

-----------------------------------------------------------------------------
\* Every step of a walk keeps the invariant.
LEMMA WalksKeepInvariant ==
    ASSUME WorkerInvariant,
           NEW v \in Walkers, WalkSteps(v) \/ WalkGranted(v) \/ WalkErrs(v)
    PROVE  WorkerInvariant'
<1> USE DEF sessionVars, cacheVars, queueVars, workerVars, activeVars, walkVars, besidesWalk, Frame
<1>0. CASE WalkEnsures(v)
  BY <1>0, EnsuresKeepInvariant
<1>1. CASE WalkDirectory(v)
  <2>1. UNCHANGED Frame /\ pc' \in [Walkers -> Walking \cup {"off", "done", "failed"}]
    BY <1>1 DEF WalkDirectory, AtDirectory, WorkerInvariant, WorkerTypeOK, Walking
  <2>2. QuietBeforeStart'
    BY <1>1, <2>1 DEF WalkDirectory, AtDirectory, WorkerInvariant, QuietBeforeStart
  <2>3. QueueHasWorker'
    BY <1>1, <2>1 DEF WalkDirectory, AtDirectory, WorkerInvariant, QueueHasWorker, LiveHasSession, WorkerTypeOK
  <2> QED
    BY <2>1, <2>2, <2>3, WalkStep
<1>2. CASE WalkEnds(v)
  <2>1. UNCHANGED Frame /\ pc' \in [Walkers -> Walking \cup {"off", "done", "failed"}]
    BY <1>2 DEF WalkEnds, BetweenListings, Goto, WorkerInvariant, WorkerTypeOK, Walking
  <2>2. QuietBeforeStart'
    BY <1>2, <2>1 DEF WalkEnds, BetweenListings, Goto, WorkerInvariant, QuietBeforeStart
  <2>3. QueueHasWorker'
    BY <1>2, <2>1 DEF WalkEnds, BetweenListings, Goto, WorkerInvariant, QueueHasWorker, LiveHasSession, WorkerTypeOK
  <2> QED
    BY <2>1, <2>2, <2>3, WalkStep
<1>3. CASE WalkFails(v)
  <2>1. UNCHANGED Frame /\ pc' \in [Walkers -> Walking \cup {"off", "done", "failed"}]
    BY <1>3 DEF WalkFails, BetweenListings, AtDirectory, Over, Goto, WorkerInvariant, WorkerTypeOK, Walking
  <2>2. QuietBeforeStart'
    BY <1>3, <2>1 DEF WalkFails, BetweenListings, AtDirectory, Over, Goto, WorkerInvariant, QuietBeforeStart
  <2>3. QueueHasWorker'
    BY <1>3, <2>1 DEF WalkFails, BetweenListings, AtDirectory, Over, Goto, WorkerInvariant, QueueHasWorker, LiveHasSession, WorkerTypeOK
  <2> QED
    BY <2>1, <2>2, <2>3, WalkStep
<1>4. CASE v \in Scans /\ ScanStart(v)
  <2>1. UNCHANGED Frame /\ pc' \in [Walkers -> Walking \cup {"off", "done", "failed"}]
    BY <1>4 DEF ScanStart, Goto, WorkerInvariant, WorkerTypeOK, Walking
  <2>2. QuietBeforeStart'
    BY <1>4, <2>1 DEF ScanStart, Goto, WorkerInvariant, QuietBeforeStart
  <2>3. QueueHasWorker'
    BY <1>4, <2>1 DEF ScanStart, Goto, WorkerInvariant, QueueHasWorker, LiveHasSession, WorkerTypeOK
  <2> QED
    BY <2>1, <2>2, <2>3, WalkStep
<1>5. CASE v \in Scans /\ ScanFile(v)
  <2>1. UNCHANGED Frame /\ pc' \in [Walkers -> Walking \cup {"off", "done", "failed"}]
    BY <1>5 DEF ScanFile, AtFile, enqueueLocked, Over, Goto, WorkerInvariant, WorkerTypeOK, Walking
  <2>2. QuietBeforeStart'
    BY <1>5, <2>1 DEF ScanFile, AtFile, enqueueLocked, Over, Goto, WorkerInvariant, QuietBeforeStart
  <2>3. QueueHasWorker'
    BY <1>5, <2>1 DEF ScanFile, AtFile, enqueueLocked, Over, Goto, WorkerInvariant, QueueHasWorker, LiveHasSession, WorkerTypeOK
  <2> QED
    BY <2>1, <2>2, <2>3, WalkStep
<1>6. CASE v \in Requests /\ RequestFile(v)
  <2>1. UNCHANGED Frame /\ pc' \in [Walkers -> Walking \cup {"off", "done", "failed"}]
    BY <1>6 DEF RequestFile, AtFile, enqueueLocked, WorkerInvariant, WorkerTypeOK, Walking
  <2>2. QuietBeforeStart'
    BY <1>6, <2>1 DEF RequestFile, AtFile, enqueueLocked, WorkerInvariant, QuietBeforeStart
  <2>3. QueueHasWorker'
    BY <1>6, <2>1 DEF RequestFile, AtFile, enqueueLocked, WorkerInvariant, QueueHasWorker, LiveHasSession, WorkerTypeOK
  <2> QED
    BY <2>1, <2>2, <2>3, WalkStep
<1>7. CASE v \in Requests /\ RequestRefused(v)
  <2>1. UNCHANGED Frame /\ pc' \in [Walkers -> Walking \cup {"off", "done", "failed"}]
    BY <1>7 DEF RequestRefused, Over, Goto, WorkerInvariant, WorkerTypeOK, Walking
  <2>2. QuietBeforeStart'
    BY <1>7, <2>1 DEF RequestRefused, Over, Goto, WorkerInvariant, QuietBeforeStart
  <2>3. QueueHasWorker'
    BY <1>7, <2>1 DEF RequestRefused, Over, Goto, WorkerInvariant, QueueHasWorker, LiveHasSession, WorkerTypeOK
  <2> QED
    BY <2>1, <2>2, <2>3, WalkStep
<1>8. CASE ReadDir(v)
  <2>1. UNCHANGED Frame /\ pc' \in [Walkers -> Walking \cup {"off", "done", "failed"}]
    BY <1>8 DEF ReadDir, Goto, WorkerInvariant, WorkerTypeOK, Walking
  <2>2. QuietBeforeStart'
    BY <1>8, <2>1 DEF ReadDir, Goto, WorkerInvariant, QuietBeforeStart
  <2>3. QueueHasWorker'
    BY <1>8, <2>1 DEF ReadDir, Goto, WorkerInvariant, QueueHasWorker, LiveHasSession, WorkerTypeOK
  <2> QED
    BY <2>1, <2>2, <2>3, WalkStep
<1>9. CASE v \in Scans /\ ScanRetires(v)
  <2>1. UNCHANGED Frame /\ pc' \in [Walkers -> Walking \cup {"off", "done", "failed"}]
    BY <1>9 DEF ScanRetires, BetweenListings, Goto, WorkerInvariant, WorkerTypeOK, Walking
  <2>2. QuietBeforeStart'
    BY <1>9, <2>1 DEF ScanRetires, BetweenListings, Goto, WorkerInvariant, QuietBeforeStart
  <2>3. QueueHasWorker'
    BY <1>9, <2>1 DEF ScanRetires, BetweenListings, Goto, WorkerInvariant, QueueHasWorker, LiveHasSession, WorkerTypeOK
  <2> QED
    BY <2>1, <2>2, <2>3, WalkStep
<1>10. CASE WalkWaits(v)
  <2>1. UNCHANGED Frame /\ pc' \in [Walkers -> Walking \cup {"off", "done", "failed"}]
    BY <1>10 DEF WalkWaits, BetweenListings, Goto, WorkerInvariant, WorkerTypeOK, Walking
  <2>2. QuietBeforeStart'
    BY <1>10, <2>1 DEF WalkWaits, BetweenListings, Goto, WorkerInvariant, QuietBeforeStart
  <2>3. QueueHasWorker'
    BY <1>10, <2>1 DEF WalkWaits, BetweenListings, Goto, WorkerInvariant, QueueHasWorker, LiveHasSession, WorkerTypeOK
  <2> QED
    BY <2>1, <2>2, <2>3, WalkStep
<1>11. CASE v \in Requests /\ RequestStat(v)
  <2>1. UNCHANGED Frame /\ pc' \in [Walkers -> Walking \cup {"off", "done", "failed"}]
    BY <1>11 DEF RequestStat, enqueueLocked, Goto, WorkerInvariant, WorkerTypeOK, Walking
  <2>2. QuietBeforeStart'
    BY <1>11, <2>1 DEF RequestStat, enqueueLocked, Goto, WorkerInvariant, QuietBeforeStart
  <2>3. QueueHasWorker'
    BY <1>11, <2>1 DEF RequestStat, enqueueLocked, Goto, WorkerInvariant, QueueHasWorker, LiveHasSession, WorkerTypeOK
  <2> QED
    BY <2>1, <2>2, <2>3, WalkStep
<1> QED
  BY <1>0, <1>1, <1>2, <1>3, <1>4, <1>5, <1>6, <1>7, <1>8, <1>9, <1>10, <1>11
     DEF WalkSteps, WalkGranted, WalkErrs

-----------------------------------------------------------------------------
\* A step of a worker that keeps it running, or frees it behind a stop.
LEMMA WorkersKeepInvariant ==
    ASSUME WorkerInvariant, NEW w \in Workers, WorkerSteps(w) \/ TransferLands(w) \/ TransferErrs(w)
    PROVE  WorkerInvariant'
<1> USE DEF sessionVars, cacheVars, queueVars, workerVars, activeVars, walkVars
<1>1. ASSUME wpc[w] \in Running \ {"noSession"}, NEW place \in Running \ {"noSession"},
             wpc' = [wpc EXCEPT ![w] = place],
             UNCHANGED <<session, stopPc, stopWaits, cacheDir, workerRunning, workerDone, pc>>,
             queue # <<>> \/ UNCHANGED queue,
             cacheRecords' = [f \in Files |-> cacheRecords'[f]],
             disk' = [l \in Locals |-> disk'[l]]
      PROVE  WorkerInvariant'
  <2>1. workerRunning
    BY <1>1 DEF WorkerInvariant, OneWorker
  <2>2. WorkerTypeOK' /\ OneWorker'
    BY <1>1 DEF WorkerInvariant, WorkerTypeOK, OneWorker
  <2>3. StopWaitsForWorker'
    BY <1>1 DEF WorkerInvariant, StopWaitsForWorker, WorkerTypeOK
  <2>4. NothingAfterStop'
    BY <1>1 DEF WorkerInvariant, NothingAfterStop, StopWaitsForWorker
  <2>5. QuietBeforeStart' /\ LiveHasSession'
    BY <1>1 DEF WorkerInvariant, QuietBeforeStart, LiveHasSession, WorkerTypeOK, Running
  <2>6. QueueHasWorker'
    BY <1>1, <2>1 DEF QueueHasWorker
  <2> QED
    BY <2>2, <2>3, <2>4, <2>5, <2>6 DEF WorkerInvariant
<1>2. CASE WorkerLoop(w)
  BY <1>1, <1>2 DEF WorkerLoop, MoveWorker, Running, WorkerInvariant, WorkerTypeOK
<1>3. CASE WorkerPop(w)
  BY <1>1, <1>3 DEF WorkerPop, Running, WorkerInvariant, WorkerTypeOK
<1>4. CASE WorkerIdle(w) \/ TransferSkips(w) \/ TransferStarts(w) \/ TransferCanceled(w) \/ TransferErrs(w)
  BY <1>1, <1>4 DEF WorkerIdle, TransferSkips, TransferStarts, TransferCanceled, TransferErrs, MoveWorker,
                    Running, WorkerInvariant, WorkerTypeOK
<1>5. CASE TransferLands(w)
  BY <1>1, <1>5 DEF TransferLands, MoveWorker, Running, WorkerInvariant, WorkerTypeOK
<1>6. CASE WorkerFinishes(w)
  BY <1>1, <1>6 DEF WorkerFinishes, Running, WorkerInvariant, WorkerTypeOK
<1>7. ASSUME wpc[w] \in Running, workerRunning' = FALSE,
             NEW place \in {"again", "off"}, wpc' = [wpc EXCEPT ![w] = place],
             session = "live" /\ queue # <<>> => place = "again",
             UNCHANGED <<session, stopPc, stopWaits, cacheDir, queue, cacheRecords, pc, disk>>
      PROVE  WorkerInvariant'
  <2>1. \A x \in Workers : x # w => wpc[x] \notin Running
    BY <1>7 DEF WorkerInvariant, OneWorker
  <2>2. WorkerTypeOK' /\ OneWorker'
    BY <1>7, <2>1 DEF WorkerInvariant, WorkerTypeOK, OneWorker, Running
  <2>3. StopWaitsForWorker' /\ NothingAfterStop'
    BY <1>7, <2>1 DEF WorkerInvariant, StopWaitsForWorker, NothingAfterStop, WorkerTypeOK, Running
  <2>4. QuietBeforeStart' /\ LiveHasSession' /\ QueueHasWorker'
    BY <1>7 DEF WorkerInvariant, QuietBeforeStart, LiveHasSession, QueueHasWorker, WorkerTypeOK, Running
  <2> QED
    BY <2>2, <2>3, <2>4 DEF WorkerInvariant
<1>8. CASE WorkerEnds(w)
  BY <1>7, <1>8 DEF WorkerEnds, hasMore, ctxDone, Running
<1>9. CASE NoSession(w)
  BY <1>7, <1>9 DEF NoSession, Running, WorkerInvariant, LiveHasSession
<1>10. CASE WorkerAgain(w)
  <2>1. session # "new"
    BY <1>10 DEF WorkerAgain, WorkerInvariant, QuietBeforeStart
  <2> DEFINE base == [wpc EXCEPT ![w] = "off"]
  <2>2. base \in [Workers -> Running \cup {"off", "again"}]
    BY DEF WorkerInvariant, WorkerTypeOK
  <2>3. \A x \in Workers : base[x] = wpc[x] \/ (wpc[x] = "again" /\ base[x] = "off")
    BY <1>10 DEF WorkerAgain, WorkerInvariant, WorkerTypeOK
  <2>4. UNCHANGED <<session, stopPc, stopWaits, cacheDir, cacheRecords, queue, disk, pc>> /\ ensureWorker(base)
    BY <1>10 DEF WorkerAgain
  <2>5. pc' \in [Walkers -> Walking \cup {"off", "done", "failed"}]
    BY <2>4 DEF WorkerInvariant, WorkerTypeOK
  <2> HIDE DEF base
  <2> QED
    BY <2>1, <2>2, <2>3, <2>4, <2>5, EnsureStartsOne
<1> QED
  BY <1>2, <1>3, <1>4, <1>5, <1>6, <1>8, <1>9, <1>10 DEF WorkerSteps

-----------------------------------------------------------------------------
LEMMA NothingKept ==
    ASSUME NEW q PROVE ItemsAt(q, {}) = <<>>
<1>1. Cardinality({}) = 0
  BY FS_EmptySet
<1>2. 1..0 = {}
  OBVIOUS
<1>3. ItemsAt(q, {}) = [n \in {} |-> q[InOrder({})[n]]]
  BY <1>1, <1>2 DEF ItemsAt
<1> QED
  BY <1>3

\* The calls of the application keep the invariant.
LEMMA CallsKeepInvariant ==
    ASSUME WorkerInvariant, Api \/ CallerSteps
    PROVE  WorkerInvariant'
<1> USE DEF sessionVars, cacheVars, queueVars, workerVars, activeVars, walkVars, Frame
<1>1. CASE StartSession
  BY <1>1, TreeAssumption DEF StartSession, WorkerInvariant, WorkerTypeOK, OneWorker, NothingAfterStop,
       QuietBeforeStart, LiveHasSession, StopWaitsForWorker, QueueHasWorker
<1>2. CASE StopSession
  <2>1. StopWaitsForWorker'
    BY <1>2 DEF StopSession, StopWaitsForWorker, WorkerInvariant, OneWorker
  <2> QED
    BY <1>2, <2>1 DEF StopSession, WorkerInvariant, WorkerTypeOK, OneWorker, NothingAfterStop,
       QuietBeforeStart, LiveHasSession, QueueHasWorker
<1>3. CASE StopSessionDrained
  <2>1. session = "stopped" => \A w \in Workers : wpc[w] \notin Running \ {"noSession"}
    BY <1>3, TreeAssumption DEF StopSessionDrained, drained, WorkerInvariant, StopWaitsForWorker, Running
  <2>2. WorkerTypeOK' /\ OneWorker' /\ QuietBeforeStart' /\ StopWaitsForWorker' /\ QueueHasWorker'
    BY <1>3, <2>1 DEF StopSessionDrained, WorkerInvariant, WorkerTypeOK, OneWorker, QuietBeforeStart,
         StopWaitsForWorker, QueueHasWorker
  <2>3. NothingAfterStop'
    BY <1>3, <2>1 DEF StopSessionDrained, NothingAfterStop, Running
  <2>4. LiveHasSession'
    BY <1>3 DEF StopSessionDrained, LiveHasSession, WorkerInvariant
  <2> QED
    BY <2>2, <2>3, <2>4 DEF WorkerInvariant
<1>4. ASSUME NEW s \in Scans, NEW d \in ScanRoots, StartAutomaticMediaCache(s, d) PROVE WorkerInvariant'
  <2>1. UNCHANGED Frame /\ pc' \in [Walkers -> Walking \cup {"off", "done", "failed"}]
    BY <1>4 DEF StartAutomaticMediaCache, Over, Goto, WorkerInvariant, WorkerTypeOK, Walking, Walkers
  <2>2. QuietBeforeStart'
    BY <1>4, <2>1 DEF StartAutomaticMediaCache, WorkerInvariant, QuietBeforeStart
  <2>3. QueueHasWorker'
    BY <1>4, <2>1 DEF StartAutomaticMediaCache, ctxDone, Goto, QueueHasWorker, WorkerInvariant, WorkerTypeOK, Walkers
  <2> QED
    BY <2>1, <2>2, <2>3, WalkStep
<1>5. ASSUME NEW r \in Requests, NEW p \in RequestRoots, NEW d \in Dests, QueueIdleDownload(r, p, d)
      PROVE  WorkerInvariant'
  <2>1. UNCHANGED Frame /\ pc' \in [Walkers -> Walking \cup {"off", "done", "failed"}]
    BY <1>5 DEF QueueIdleDownload, besidesWalk, Goto, WorkerInvariant, WorkerTypeOK, Walking, Walkers
  <2>2. QuietBeforeStart' /\ QueueHasWorker'
    BY <1>5, <2>1 DEF QueueIdleDownload, ctxDone, besidesWalk, Goto, WorkerInvariant, QuietBeforeStart,
         QueueHasWorker, WorkerTypeOK, Walkers
  <2> QED
    BY <2>1, <2>2, WalkStep
<1>6. ASSUME NEW p, cancelDownload(p), UNCHANGED <<Frame, pc>> PROVE WorkerInvariant'
  <2>1. queue = <<>> => queue' = <<>>
    <3> DEFINE others == {k \in DOMAIN queue : queue[k].path # p}
    <3>1. queue' = ItemsAt(queue, others)
      BY <1>6 DEF cancelDownload
    <3>2. queue = <<>> => others = {}
      OBVIOUS
    <3> QED
      BY <3>1, <3>2, NothingKept
  <2>2. QuietBeforeStart' /\ QueueHasWorker' /\ pc' \in [Walkers -> Walking \cup {"off", "done", "failed"}]
    BY <1>6, <2>1 DEF WorkerInvariant, QuietBeforeStart, QueueHasWorker, WorkerTypeOK
  <2> QED
    BY <1>6, <2>2, WalkStep
<1>7. ASSUME NEW p \in Files, CancelDownload(p) PROVE WorkerInvariant'
  BY <1>6, <1>7 DEF CancelDownload
<1>8. CASE GroupTarget
  BY <1>6, <1>8 DEF GroupTarget
<1>9. ASSUME UNCHANGED <<Frame, queue, pc>> PROVE WorkerInvariant'
  <2>1. QuietBeforeStart' /\ QueueHasWorker' /\ pc' \in [Walkers -> Walking \cup {"off", "done", "failed"}]
    BY <1>9 DEF WorkerInvariant, QuietBeforeStart, QueueHasWorker, WorkerTypeOK
  <2> QED
    BY <1>9, <2>1, WalkStep
<1>10. CASE (\E g \in GroupRoots : CancelGroup(g)) \/ (\E f \in Files : ReadCached(f)) \/ GroupActive \/ ReadHit
  BY <1>9, <1>10 DEF CancelGroup, ReadCached, GroupActive, ReadHit
<1>11. CASE ReadEvicts
  BY <1>11 DEF ReadEvicts, WorkerInvariant, WorkerTypeOK, OneWorker, NothingAfterStop,
       QuietBeforeStart, LiveHasSession, StopWaitsForWorker, QueueHasWorker
<1> QED
  BY <1>1, <1>2, <1>3, <1>4, <1>5, <1>7, <1>8, <1>10, <1>11 DEF Api, CallerSteps

-----------------------------------------------------------------------------
LEMMA WorkerInvariantNext == WorkerInvariant /\ [Next]_vars => WorkerInvariant'
<1> SUFFICES ASSUME WorkerInvariant, [Next]_vars PROVE WorkerInvariant'
  OBVIOUS
<1>1. CASE Api \/ CallerSteps
  BY <1>1, CallsKeepInvariant
<1>2. ASSUME NEW v \in Walkers, WalkSteps(v) \/ WalkGranted(v) \/ WalkErrs(v) PROVE WorkerInvariant'
  BY <1>2, WalksKeepInvariant
<1>3. ASSUME NEW w \in Workers, WorkerSteps(w) \/ TransferLands(w) \/ TransferErrs(w) PROVE WorkerInvariant'
  BY <1>3, WorkersKeepInvariant
<1>4. CASE UNCHANGED vars
  BY <1>4 DEF vars, sessionVars, cacheVars, queueVars, workerVars, activeVars, walkVars,
       WorkerInvariant, WorkerTypeOK, OneWorker, NothingAfterStop,
       QuietBeforeStart, LiveHasSession, StopWaitsForWorker, QueueHasWorker
<1> QED
  BY <1>1, <1>2, <1>3, <1>4 DEF Next

\* The inductive invariant: one worker runs and workerRunning says so, whoever may
\* have queued something has yet to call ensureWorker, and the only worker a stop
\* leaves behind is the one StopSession waits for.
THEOREM WorkerInvariantHolds == Spec => []WorkerInvariant
<1>1. Init => WorkerInvariant
  BY DEF Init, WorkerInvariant, WorkerTypeOK, OneWorker, NothingAfterStop,
       QuietBeforeStart, LiveHasSession, StopWaitsForWorker, QueueHasWorker, Running
<1> QED
  BY <1>1, WorkerInvariantNext, PTL DEF Spec

\* At most one worker runs, exactly when workerRunning says so, and StopSession
\* would wait on its channel.
THEOREM OneWorkerAlways == Spec => []OneWorker
<1>1. WorkerInvariant => OneWorker
  BY DEF WorkerInvariant
<1> QED
  BY <1>1, WorkerInvariantHolds, PTL

\* A queued item of a live session has a worker, or somebody who has yet to call
\* ensureWorker, or was left behind by a walk that failed.
THEOREM NoWakeupLost == Spec => []NoLostWakeup
<1>1. WorkerInvariant => NoLostWakeup
  BY DEF WorkerInvariant, QueueHasWorker, NoLostWakeup, Walking
<1> QED
  BY <1>1, WorkerInvariantHolds, PTL

\* When StopSession has returned no transfer is under way, and the cache is gone.
THEOREM StopIsFinal == Spec => []NothingAfterStop
<1>1. WorkerInvariant => NothingAfterStop
  BY DEF WorkerInvariant
<1> QED
  BY <1>1, WorkerInvariantHolds, PTL
-----------------------------------------------------------------------------
(* The items at some places of a queue: theirs, each once, and no others.   *)

Ascending(f) == \A m, n \in DOMAIN f : m < n => f[m] < f[n]

Ordered(S) == \E f \in [1..Cardinality(S) -> S] : Ascending(f)

LEMMA OneMorePlace ==
    ASSUME NEW k \in Nat, NEW S \in SUBSET (1..k), Ordered(S)
    PROVE  Ordered(S \cup {k + 1})
<1> DEFINE T == S \cup {k + 1}
<1>1. PICK f \in [1..Cardinality(S) -> S] : Ascending(f)
  BY DEF Ordered
<1>2. IsFiniteSet(S)
  <2>1. IsFiniteSet(1..k)
    BY FS_Interval
  <2> QED
    BY <2>1, FS_Subset
<1>3. Cardinality(S) \in Nat
  BY <1>2, FS_CardinalityType
<1>4. Cardinality(T) = Cardinality(S) + 1
  BY <1>2, FS_AddElement
<1> DEFINE g == [n \in 1..Cardinality(T) |-> IF n = Cardinality(T) THEN k + 1 ELSE f[n]]
<1>5. ASSUME NEW n \in 1..Cardinality(T), n # Cardinality(T) PROVE f[n] \in S /\ f[n] < k + 1
  <2>1. n \in 1..Cardinality(S)
    BY <1>3, <1>4, <1>5
  <2>2. f[n] \in S
    BY <1>1, <2>1
  <2>3. \A x \in S : x < k + 1
    OBVIOUS
  <2> QED
    BY <2>2, <2>3
<1>6. g \in [1..Cardinality(T) -> T]
  BY <1>5
<1>7. ASSUME NEW m \in 1..Cardinality(T), NEW n \in 1..Cardinality(T), m < n PROVE g[m] < g[n]
  <2>1. m # Cardinality(T) /\ m \in 1..Cardinality(S) /\ g[m] = f[m]
    BY <1>3, <1>4, <1>7
  <2>2. CASE n = Cardinality(T)
    BY <1>5, <2>1, <2>2
  <2>3. CASE n # Cardinality(T)
    <3>1. n \in 1..Cardinality(S) /\ g[n] = f[n]
      BY <1>3, <1>4, <2>3
    <3> QED
      BY <1>1, <1>7, <2>1, <3>1 DEF Ascending
  <2> QED
    BY <2>2, <2>3
<1>8. Ascending(g)
  BY <1>7 DEF Ascending
<1> QED
  BY <1>6, <1>8 DEF Ordered

LEMMA PlacesOrdered ==
    ASSUME NEW k \in Nat, NEW S \in SUBSET (1..k)
    PROVE  Ordered(S)
<1> DEFINE Bad == {n \in Nat : ~Ordered(S \cap (1..n))}
<1>1. ASSUME Bad # {} PROVE FALSE
  <2>1. Bad \subseteq Nat
    OBVIOUS
  <2>2. PICK x \in Bad : \A y \in Bad : ~(<<y, x>> \in OpToRel(<, Nat))
    <3> HIDE DEF Bad
    <3> QED
      BY <1>1, <2>1, NatLessThanWellFounded, WFMin
  <2>3. \A y \in Bad : ~(y < x)
    BY <2>2 DEF OpToRel
  <2>4. x # 0
    <3>1. S \cap (1..0) = {} /\ Cardinality({}) = 0
      BY FS_EmptySet
    <3>2. [n \in {} |-> n] \in [1..0 -> {}] /\ Ascending([n \in {} |-> n])
      BY DEF Ascending
    <3>3. Ordered(S \cap (1..0))
      BY <3>1, <3>2 DEF Ordered
    <3> QED
      BY <3>3
  <2>5. x \in Nat /\ x - 1 \in Nat /\ Ordered(S \cap (1..(x - 1)))
    BY <2>3, <2>4
  <2>6. CASE x \in S
    <3>1. S \cap (1..x) = (S \cap (1..(x - 1))) \cup {(x - 1) + 1}
      BY <2>5, <2>6
    <3>2. Ordered((S \cap (1..(x - 1))) \cup {(x - 1) + 1})
      BY <2>5, OneMorePlace
    <3> QED
      BY <3>1, <3>2
  <2>7. CASE x \notin S
    <3>1. S \cap (1..x) = S \cap (1..(x - 1))
      BY <2>5, <2>7
    <3> QED
      BY <2>5, <3>1
  <2> QED
    BY <2>6, <2>7
<1>2. S \cap (1..k) = S
  OBVIOUS
<1> QED
  BY <1>1, <1>2

LEMMA InOrderCounts ==
    ASSUME NEW q \in Seq(Items), NEW P \in SUBSET DOMAIN q
    PROVE  /\ IsFiniteSet(P) /\ Cardinality(P) \in Nat
           /\ InOrder(P) \in Bijection(1..Cardinality(P), P)
<1> DEFINE f == InOrder(P)
           C == 1..Cardinality(P)
<1>1. Len(q) \in Nat /\ DOMAIN q = 1..Len(q)
  OBVIOUS
<1>2. IsFiniteSet(P)
  <2>1. IsFiniteSet(1..Len(q))
    BY <1>1, FS_Interval
  <2> QED
    BY <1>1, <2>1, FS_Subset
<1>3. Cardinality(P) \in Nat
  BY <1>2, FS_CardinalityType
<1>4. f \in [C -> P] /\ Ascending(f)
  <2>1. Ordered(P)
    BY <1>1, PlacesOrdered
  <2> QED
    BY <2>1 DEF Ordered, Ascending, InOrder
<1>5. f \in Injection(C, P)
  <2>1. ASSUME NEW m \in C, NEW n \in C, f[m] = f[n] PROVE m = n
    <3>1. f[m] \in Nat /\ f[n] \in Nat
      BY <1>1, <1>4, <2>1
    <3>2. ~(m < n) /\ ~(n < m)
      BY <1>4, <2>1, <3>1 DEF Ascending
    <3> QED
      BY <1>3, <3>2
  <2> HIDE DEF f, C
  <2> QED
    BY <1>4, <2>1 DEF Injection, IsInjective
<1>6. Cardinality(C) = Cardinality(P)
  BY <1>3, FS_Interval
<1>7. f \in Surjection(C, P)
  <2> HIDE DEF f, C
  <2> QED
    BY <1>2, <1>5, <1>6, FS_Injection
<1> QED
  BY <1>2, <1>3, <1>5, <1>7 DEF Bijection

LEMMA ItemsAtAre ==
    ASSUME NEW q \in Seq(Items), NEW P \in SUBSET DOMAIN q
    PROVE  /\ ItemsAt(q, P) \in Seq(Items)
           /\ \A n \in DOMAIN ItemsAt(q, P) : \E k \in P : ItemsAt(q, P)[n] = q[k]
           /\ \A k \in P : \E n \in DOMAIN ItemsAt(q, P) : ItemsAt(q, P)[n] = q[k]
<1>1. Cardinality(P) \in Nat /\ InOrder(P) \in Bijection(1..Cardinality(P), P)
  BY InOrderCounts
<1>2. /\ \A n \in 1..Cardinality(P) : InOrder(P)[n] \in P
      /\ \A k \in P : \E n \in 1..Cardinality(P) : InOrder(P)[n] = k
  BY <1>1 DEF Bijection, Injection, Surjection
<1>3. \A k \in P : q[k] \in Items
  OBVIOUS
<1> DEFINE r == ItemsAt(q, P)
<1>4. DOMAIN r = 1..Cardinality(P) /\ \A n \in 1..Cardinality(P) : r[n] = q[InOrder(P)[n]]
  BY DEF ItemsAt
<1>5. r \in [1..Cardinality(P) -> Items]
  BY <1>2, <1>3 DEF ItemsAt
<1> HIDE DEF r
<1>6. r \in Seq(Items)
  BY <1>1, <1>5
<1>7. \A n \in DOMAIN r : \E k \in P : r[n] = q[k]
  BY <1>2, <1>4
<1>8. \A k \in P : \E n \in DOMAIN r : r[n] = q[k]
  BY <1>2, <1>4
<1> QED
  BY <1>6, <1>7, <1>8 DEF r

-----------------------------------------------------------------------------
(* The bytes that the cache items at some places have reserved.             *)

Bytes(i) == IF i.cache THEN Size[i.path] ELSE 0

LEMMA ItemBytes ==
    ASSUME NEW i \in Items
    PROVE  Size[i.path] \in Nat /\ Bytes(i) \in Nat /\ i.cache \in BOOLEAN
BY TreeAssumption DEF Items, Bytes

LEMMA BytesFinite ==
    ASSUME NEW q \in Seq(Items), NEW P \in SUBSET DOMAIN q
    PROVE  IsFiniteSet(BytesAt(q, P)) /\ Cardinality(BytesAt(q, P)) \in Nat
<1> DEFINE S == {j \in P : q[j].cache}
           M == [k \in S |-> {k} \X (1..Size[q[k].path])]
           Images == {{k} \X (1..Size[q[k].path]) : k \in S}
<1>1. IsFiniteSet(S)
  <2>1. IsFiniteSet(P)
    BY InOrderCounts
  <2> QED
    BY <2>1, FS_Subset
<1>2. M \in Surjection(S, Images)
  <2> HIDE DEF S
  <2>1. M \in [S -> Images] /\ \A m \in Images : \E k \in S : M[k] = m
    OBVIOUS
  <2> HIDE DEF M, Images
  <2> QED
    BY <2>1 DEF Surjection
<1>3. IsFiniteSet(Images)
  <2> HIDE DEF M, Images, S
  <2> QED
    BY <1>1, <1>2, FS_Surjection
<1>4. \A T \in Images : IsFiniteSet(T)
  <2> SUFFICES ASSUME NEW k \in S PROVE IsFiniteSet({k} \X (1..Size[q[k].path]))
    OBVIOUS
  <2>1. q[k] \in Items
    OBVIOUS
  <2>2. Size[q[k].path] \in Nat
    BY <2>1, ItemBytes
  <2>3. IsFiniteSet(1..Size[q[k].path])
    BY <2>2, FS_Interval
  <2>4. IsFiniteSet({k})
    BY FS_Singleton, Zenon
  <2> QED
    BY <2>3, <2>4, FS_Product
<1>5. IsFiniteSet(UNION Images)
  <2> HIDE DEF Images
  <2> QED
    BY <1>3, <1>4, FS_UNION
<1>6. BytesAt(q, P) = UNION Images
  BY DEF BytesAt
<1> QED
  BY <1>5, <1>6, FS_CardinalityType

\* One place holds the bytes of its item.
LEMMA BytesOfOne ==
    ASSUME NEW q \in Seq(Items), NEW k \in DOMAIN q
    PROVE  Cardinality(BytesAt(q, {k})) = Bytes(q[k])
<1> DEFINE s == Size[q[k].path]
<1>1. s \in Nat
  <2>1. q[k] \in Items
    OBVIOUS
  <2> QED
    BY <2>1, ItemBytes
<1>2. CASE q[k].cache
  <2>1. BytesAt(q, {k}) = {k} \X (1..s)
    BY <1>2 DEF BytesAt
  <2>2. Bytes(q[k]) = s
    BY <1>2 DEF Bytes
  <2> HIDE DEF s
  <2>3. IsFiniteSet({k}) /\ Cardinality({k}) = 1
    BY FS_Singleton, Zenon
  <2>4. IsFiniteSet(1..s) /\ Cardinality(1..s) = s
    BY <1>1, FS_Interval
  <2>5. Cardinality({k} \X (1..s)) = Cardinality({k}) * Cardinality(1..s)
    BY <2>3, <2>4, FS_Product
  <2>6. Cardinality({k} \X (1..s)) = s
    BY <1>1, <2>3, <2>4, <2>5
  <2> QED
    BY <2>1, <2>2, <2>6
<1>3. CASE ~q[k].cache
  <2>1. BytesAt(q, {k}) = {}
    BY <1>3 DEF BytesAt
  <2> QED
    BY <1>3, <2>1, FS_EmptySet DEF Bytes
<1> QED
  BY <1>2, <1>3

\* Places apart hold different bytes.
LEMMA BytesSplit ==
    ASSUME NEW q \in Seq(Items), NEW P \in SUBSET DOMAIN q, NEW R \in SUBSET DOMAIN q, P \cap R = {}
    PROVE  Cardinality(BytesAt(q, P \cup R)) = Cardinality(BytesAt(q, P)) + Cardinality(BytesAt(q, R))
<1> DEFINE S == BytesAt(q, P)
           T == BytesAt(q, R)
<1>1. BytesAt(q, P \cup R) = S \cup T
  BY DEF BytesAt
<1>2. S \cap T = {}
  BY DEF BytesAt
<1>3. IsFiniteSet(S) /\ Cardinality(S) \in Nat /\ IsFiniteSet(T) /\ Cardinality(T) \in Nat
  BY BytesFinite
<1> HIDE DEF S, T
<1>4. Cardinality(S \cup T) = Cardinality(S) + Cardinality(T) - Cardinality(S \cap T)
  BY <1>3, FS_Union
<1>5. Cardinality(S \cap T) = 0
  BY <1>2, FS_EmptySet
<1>6. Cardinality(S \cup T) = Cardinality(S) + Cardinality(T)
  BY <1>3, <1>4, <1>5
<1> QED
  BY <1>1, <1>6 DEF S, T

\* Items moved to other places take their bytes along.
LEMMA BytesMoved ==
    ASSUME NEW q \in Seq(Items), NEW r \in Seq(Items), NEW P \in SUBSET DOMAIN q,
           NEW h \in Bijection(DOMAIN r, P), \A k \in DOMAIN r : r[k] = q[h[k]]
    PROVE  QueuedBytes(r) = Cardinality(BytesAt(q, P))
<1> DEFINE S == BytesAt(r, DOMAIN r)
           T == BytesAt(q, P)
           m == [b \in S |-> <<h[b[1]], b[2]>>]
<1>1. /\ h \in [DOMAIN r -> P]
      /\ \A k, l \in DOMAIN r : h[k] = h[l] => k = l
      /\ \A p \in P : \E k \in DOMAIN r : h[k] = p
  BY DEF Bijection, Injection, Surjection, IsInjective
<1>2. \A b \in S : \E k \in DOMAIN r : r[k].cache /\ \E n \in 1..Size[r[k].path] : b = <<k, n>>
  BY DEF BytesAt
<1>3. \A k \in DOMAIN r : r[k].cache => \A n \in 1..Size[r[k].path] : <<k, n>> \in S
  BY DEF BytesAt
<1>4. \A b \in T : \E p \in P : q[p].cache /\ \E n \in 1..Size[q[p].path] : b = <<p, n>>
  BY DEF BytesAt
<1>5. \A p \in P : q[p].cache => \A n \in 1..Size[q[p].path] : <<p, n>> \in T
  BY DEF BytesAt
<1>6. IsFiniteSet(S)
  BY BytesFinite
<1> HIDE DEF S, T
<1>7. m \in [S -> T]
  <2> SUFFICES ASSUME NEW b \in S PROVE <<h[b[1]], b[2]>> \in T
    OBVIOUS
  <2>1. PICK k \in DOMAIN r : r[k].cache /\ \E n \in 1..Size[r[k].path] : b = <<k, n>>
    BY <1>2
  <2>2. PICK n \in 1..Size[r[k].path] : b = <<k, n>>
    BY <2>1
  <2>3. h[k] \in P /\ q[h[k]] = r[k]
    BY <1>1
  <2>4. <<h[k], n>> \in T
    BY <1>5, <2>1, <2>3
  <2> QED
    BY <2>2, <2>4
<1>8. ASSUME NEW b \in S, NEW c \in S, m[b] = m[c] PROVE b = c
  <2>1. PICK k \in DOMAIN r : r[k].cache /\ \E n \in 1..Size[r[k].path] : b = <<k, n>>
    BY <1>2
  <2>2. PICK n \in 1..Size[r[k].path] : b = <<k, n>>
    BY <2>1
  <2>3. PICK l \in DOMAIN r : r[l].cache /\ \E o \in 1..Size[r[l].path] : c = <<l, o>>
    BY <1>2
  <2>4. PICK o \in 1..Size[r[l].path] : c = <<l, o>>
    BY <2>3
  <2>5. m[b] = <<h[k], n>> /\ m[c] = <<h[l], o>>
    BY <2>2, <2>4
  <2>6. h[k] = h[l] /\ n = o
    BY <1>8, <2>5
  <2> QED
    BY <1>1, <2>2, <2>4, <2>6
<1>9. ASSUME NEW t \in T PROVE \E b \in S : m[b] = t
  <2>1. PICK p \in P : q[p].cache /\ \E n \in 1..Size[q[p].path] : t = <<p, n>>
    BY <1>4
  <2>2. PICK n \in 1..Size[q[p].path] : t = <<p, n>>
    BY <2>1
  <2>3. PICK k \in DOMAIN r : h[k] = p
    BY <1>1
  <2>4. r[k] = q[p]
    BY <2>3
  <2>5. <<k, n>> \in S
    BY <1>3, <2>1, <2>4
  <2>6. m[<<k, n>>] = t
    BY <2>2, <2>3, <2>5
  <2> QED
    BY <2>5, <2>6
<1>10. ExistsBijection(S, T)
  <2> HIDE DEF m
  <2>1. m \in Injection(S, T) /\ m \in Surjection(S, T)
    BY <1>7, <1>8, <1>9 DEF Injection, IsInjective, Surjection
  <2> QED
    BY <2>1 DEF Bijection, ExistsBijection
<1>11. Cardinality(T) = Cardinality(S)
  BY <1>6, <1>10, FS_Bijection
<1> QED
  BY <1>11 DEF QueuedBytes, S, T

LEMMA BytesAppended ==
    ASSUME NEW q \in Seq(Items), NEW i \in Items
    PROVE  QueuedBytes(Append(q, i)) = QueuedBytes(q) + Bytes(i)
<1> DEFINE r == Append(q, i)
           last == Len(q) + 1
<1>1. /\ Len(q) \in Nat /\ DOMAIN q = 1..Len(q)
      /\ r \in Seq(Items) /\ DOMAIN r = 1..last /\ r[last] = i
      /\ \A k \in DOMAIN q : r[k] = q[k]
  OBVIOUS
<1> HIDE DEF r
<1>2. DOMAIN r = DOMAIN q \cup {last} /\ DOMAIN q \cap {last} = {} /\ last \in DOMAIN r
  BY <1>1
<1>3. Cardinality(BytesAt(r, DOMAIN q \cup {last}))
        = Cardinality(BytesAt(r, DOMAIN q)) + Cardinality(BytesAt(r, {last}))
  BY <1>1, <1>2, BytesSplit
<1>4. BytesAt(r, DOMAIN q) = BytesAt(q, DOMAIN q)
  BY <1>1 DEF BytesAt
<1>5. Cardinality(BytesAt(r, {last})) = Bytes(i)
  BY <1>1, <1>2, BytesOfOne
<1>6. QueuedBytes(r) = QueuedBytes(q) + Bytes(i)
  BY <1>2, <1>3, <1>4, <1>5 DEF QueuedBytes
<1> QED
  BY <1>6 DEF r

LEMMA BytesPopped ==
    ASSUME NEW q \in Seq(Items), q # <<>>
    PROVE  /\ Head(q) \in Items /\ Tail(q) \in Seq(Items)
           /\ QueuedBytes(q) = QueuedBytes(Tail(q)) + Bytes(Head(q))
<1> DEFINE r == Tail(q)
           P == 2..Len(q)
           h == [k \in DOMAIN r |-> k + 1]
<1>1. /\ Len(q) \in Nat \ {0} /\ DOMAIN q = 1..Len(q) /\ Head(q) = q[1] /\ q[1] \in Items
      /\ r \in Seq(Items) /\ DOMAIN r = 1..(Len(q) - 1)
      /\ \A k \in DOMAIN r : r[k] = q[k + 1]
  OBVIOUS
<1>2. h \in Bijection(DOMAIN r, P)
  <2>1. h \in [DOMAIN r -> P]
    BY <1>1
  <2>2. \A k, l \in DOMAIN r : h[k] = h[l] => k = l
    BY <1>1
  <2>3. \A p \in P : \E k \in DOMAIN r : h[k] = p
    <3> SUFFICES ASSUME NEW p \in P PROVE \E k \in DOMAIN r : h[k] = p
      OBVIOUS
    <3>1. p - 1 \in DOMAIN r /\ h[p - 1] = p
      BY <1>1
    <3> QED
      BY <3>1
  <2> HIDE DEF r, h
  <2> QED
    BY <2>1, <2>2, <2>3 DEF Bijection, Injection, IsInjective, Surjection
<1>3. \A k \in DOMAIN r : r[k] = q[h[k]]
  BY <1>1
<1>4. P \in SUBSET DOMAIN q /\ P \cap {1} = {} /\ DOMAIN q = P \cup {1} /\ 1 \in DOMAIN q
  BY <1>1
<1> HIDE DEF r, P, h
<1>5. QueuedBytes(r) = Cardinality(BytesAt(q, P))
  BY <1>1, <1>2, <1>3, <1>4, BytesMoved
<1>6. Cardinality(BytesAt(q, P \cup {1})) = Cardinality(BytesAt(q, P)) + Cardinality(BytesAt(q, {1}))
  BY <1>4, BytesSplit
<1>7. Cardinality(BytesAt(q, {1})) = Bytes(q[1])
  BY <1>4, BytesOfOne
<1>8. QueuedBytes(q) = QueuedBytes(r) + Bytes(q[1])
  BY <1>4, <1>5, <1>6, <1>7 DEF QueuedBytes
<1> QED
  BY <1>1, <1>8 DEF r

LEMMA BytesKept ==
    ASSUME NEW q \in Seq(Items), NEW P \in SUBSET DOMAIN q
    PROVE  /\ QueuedBytes(ItemsAt(q, P)) = Cardinality(BytesAt(q, P))
           /\ QueuedBytes(ItemsAt(q, P)) \in Nat /\ QueuedBytes(q) \in Nat
           /\ QueuedBytes(ItemsAt(q, P)) <= QueuedBytes(q)
<1>1. Cardinality(P) \in Nat /\ InOrder(P) \in Bijection(1..Cardinality(P), P) /\ ItemsAt(q, P) \in Seq(Items)
  BY InOrderCounts, ItemsAtAre
<1>2. DOMAIN ItemsAt(q, P) = 1..Cardinality(P) /\ \A k \in 1..Cardinality(P) : ItemsAt(q, P)[k] = q[InOrder(P)[k]]
  BY DEF ItemsAt
<1>3. QueuedBytes(ItemsAt(q, P)) = Cardinality(BytesAt(q, P))
  BY <1>1, <1>2, BytesMoved
<1>4. /\ IsFiniteSet(BytesAt(q, DOMAIN q)) /\ Cardinality(BytesAt(q, DOMAIN q)) \in Nat
      /\ Cardinality(BytesAt(q, P)) \in Nat
  BY BytesFinite
<1>5. BytesAt(q, P) \in SUBSET BytesAt(q, DOMAIN q)
  BY DEF BytesAt
<1>6. Cardinality(BytesAt(q, P)) <= Cardinality(BytesAt(q, DOMAIN q))
  BY <1>4, <1>5, FS_Subset
<1> QED
  BY <1>3, <1>4, <1>6 DEF QueuedBytes

\* What a new scan keeps has reserved nothing.
LEMMA RescanKeepsNoBytes ==
    ASSUME NEW q \in Seq(Items)
    PROVE  KeptByRescan(q) \in Seq(Items) /\ QueuedBytes(KeptByRescan(q)) = 0
<1> DEFINE P == {k \in DOMAIN q : ~q[k].cache}
<1>1. BytesAt(q, P) = {}
  BY DEF BytesAt
<1>2. P \in SUBSET DOMAIN q
  OBVIOUS
<1> HIDE DEF P
<1>3. ItemsAt(q, P) \in Seq(Items) /\ QueuedBytes(ItemsAt(q, P)) = Cardinality(BytesAt(q, P))
  BY <1>2, ItemsAtAre, BytesKept
<1>4. Cardinality(BytesAt(q, P)) = 0
  BY <1>1, FS_EmptySet
<1> QED
  BY <1>3, <1>4 DEF KeptByRescan, P
-----------------------------------------------------------------------------
(* Types.  Beside TypeOK: a walk that waits has a directory to read, a      *)
(* request knows what it downloads and where to, a transfer has its item.   *)

SessionTyped ==
    /\ session \in {"new", "live", "stopped"}
    /\ stopPc \in {"idle", "draining"}
    /\ stopWaits \in Workers \cup {None}
    /\ cacheDir \in BOOLEAN
    /\ automaticScanGeneration \in Nat

CacheTyped ==
    /\ cacheRecords \in [Files -> Locals \cup {None}] /\ cachedBytes \in Nat
    /\ disk \in [Locals -> Files \cup {None}]

QueueTyped == queue \in Seq(Items) /\ queuedPaths \in SUBSET Files /\ reservedCacheBytes \in Nat

Transferring == {"transfer", "fetch", "landed", "failed"}

WorkersTyped ==
    /\ workerRunning \in BOOLEAN /\ workerDone \in Workers \cup {None}
    /\ activeItem \in Items \cup {None} /\ activeCancel \in Workers \cup {None}
    /\ wpc \in [Workers -> Running \cup {"off", "again"}]
    /\ item \in [Workers -> Items \cup {None}] /\ itemCanceled \in SUBSET Workers
    /\ \A w \in Workers : wpc[w] \in Transferring => item[w] \in Items

WalksTyped ==
    /\ pc \in [Walkers -> Walking \cup {"off", "done", "failed"}]
    /\ walk \in [Walkers -> Walks]
    /\ \A v \in Walkers : pc[v] = "wait" => walk[v].dirs # <<>>
    /\ \A r \in Requests : pc[r] \in Walking => walk[r].root \in Files \cup Dirs /\ walk[r].dest \in Dests

CallsTyped ==
    /\ group \in [pc : {"idle", "targets"}, root : Files \cup Dirs \cup {None},
                  targets : Seq(Items), activeMatches : BOOLEAN]
    /\ reading \in [pc : {"idle", "read"}, path : Files \cup {None}, local : Locals \cup {None}]
    /\ reading.pc = "read" => reading.path \in Files

Typed == SessionTyped /\ CacheTyped /\ QueueTyped /\ WorkersTyped /\ WalksTyped /\ CallsTyped

LEMMA SessionKept == ASSUME SessionTyped, UNCHANGED sessionVars PROVE SessionTyped'
  BY DEF SessionTyped, sessionVars
LEMMA CacheKept == ASSUME CacheTyped, UNCHANGED <<cacheVars, disk>> PROVE CacheTyped'
  BY DEF CacheTyped, cacheVars
LEMMA QueueKept == ASSUME QueueTyped, UNCHANGED queueVars PROVE QueueTyped'
  BY DEF QueueTyped, queueVars
LEMMA WorkersKept == ASSUME WorkersTyped, UNCHANGED <<workerVars, activeVars>> PROVE WorkersTyped'
  BY DEF WorkersTyped, workerVars, activeVars
LEMMA WalksKept == ASSUME WalksTyped, UNCHANGED walkVars PROVE WalksTyped'
  BY DEF WalksTyped, walkVars
LEMMA CallsKept == ASSUME CallsTyped, UNCHANGED <<group, reading>> PROVE CallsTyped'
  BY DEF CallsTyped

LEMMA TypedInit == Init => Typed
<1> SUFFICES ASSUME Init PROVE Typed
  OBVIOUS
<1>1. QueueTyped
  <2>1. <<>> \in Seq(Items)
    OBVIOUS
  <2> QED
    BY <2>1 DEF Init, QueueTyped
<1>2. WalksTyped
  <2>1. NoWalk \in Walks
    <3>1. <<>> \in Seq(Dirs) /\ <<>> \in Seq(Files \cup Dirs)
      OBVIOUS
    <3> QED
      BY <3>1 DEF NoWalk, Walks
  <2> QED
    BY <2>1 DEF Init, WalksTyped, Walking, Walkers
<1>3. CallsTyped
  <2>1. <<>> \in Seq(Items)
    OBVIOUS
  <2> QED
    BY <2>1 DEF Init, CallsTyped
<1> QED
  BY <1>1, <1>2, <1>3 DEF Init, Typed, SessionTyped, CacheTyped, WorkersTyped, Running, Transferring

-----------------------------------------------------------------------------
(* What goes into the queue, and what leaves it.                            *)

LEMMA CacheItemTyped ==
    ASSUME QueueTyped, NEW f \in Files PROVE CacheItem(f) \in Items /\ CacheItem(f).cache
<1>1. Cardinality(queuedPaths) \in 0..Cardinality(Files)
  <2>1. IsFiniteSet(queuedPaths) /\ Cardinality(queuedPaths) <= Cardinality(Files)
    BY TreeAssumption, FS_Subset DEF QueueTyped
  <2>2. Cardinality(queuedPaths) \in Nat /\ Cardinality(Files) \in Nat
    BY <2>1, TreeAssumption, FS_CardinalityType
  <2> QED
    BY <2>1, <2>2
<1>2. CachePath(f) \in Locals
  BY <1>1 DEF CachePath, Locals
<1> QED
  BY <1>2 DEF CacheItem, Items

LEMMA ManualItemTyped ==
    ASSUME NEW f \in Files, NEW d \in Dests, NEW r \in Files \cup Dirs
    PROVE  ManualItem(f, d, r) \in Items /\ ~ManualItem(f, d, r).cache
<1>1. DownloadPath(d, r, f) \in Locals
  BY DEF Locals
<1> QED
  BY <1>1 DEF ManualItem, Items

\* An item that is queued reserves its bytes, one that is queued already nothing.
LEMMA Enqueued ==
    ASSUME QueueTyped, NEW i \in Items, enqueueLocked(i)
    PROVE  /\ QueueTyped'
           /\ reservedCacheBytes' - QueuedBytes(queue') = reservedCacheBytes - QueuedBytes(queue)
           /\ reservedCacheBytes' <= reservedCacheBytes + Bytes(i)
           /\ ~i.cache => reservedCacheBytes' = reservedCacheBytes
           /\ queue' = queue \/ queue' = Append(queue, i)
<1>1. Bytes(i) \in Nat /\ i.path \in Files
  BY ItemBytes DEF Items
<1>2. QueuedBytes(queue) \in Nat
  BY BytesFinite DEF QueueTyped, QueuedBytes
<1>3. CASE Duplicate(i)
  <2>1. UNCHANGED queueVars
    BY <1>3 DEF enqueueLocked
  <2>2. queue' = queue /\ reservedCacheBytes' = reservedCacheBytes /\ QueuedBytes(queue') = QueuedBytes(queue)
    BY <2>1 DEF queueVars
  <2> QED
    BY <1>1, <1>2, <2>1, <2>2, QueueKept DEF QueueTyped
<1>4. CASE ~Duplicate(i)
  <2>1. /\ queuedPaths' = queuedPaths \cup {i.path} /\ queue' = Append(queue, i)
        /\ reservedCacheBytes' = reservedCacheBytes + Bytes(i)
    BY <1>4 DEF enqueueLocked, Bytes
  <2>2. QueuedBytes(queue') = QueuedBytes(queue) + Bytes(i)
    BY <2>1, BytesAppended DEF QueueTyped
  <2>3. QueueTyped'
    BY <1>1, <2>1 DEF QueueTyped
  <2>4. ~i.cache => Bytes(i) = 0
    BY DEF Bytes
  <2> QED
    BY <1>1, <1>2, <2>1, <2>2, <2>3, <2>4 DEF QueueTyped
<1> QED
  BY <1>3, <1>4

\* What a cancellation gives back is what the items it drops had reserved.
LEMMA Canceled ==
    ASSUME QueueTyped, WorkersTyped, NEW p, cancelDownload(p)
    PROVE  /\ QueueTyped'
           /\ itemCanceled' \in SUBSET Workers
           /\ queue' = ItemsAt(queue, {k \in DOMAIN queue : queue[k].path # p})
           /\ reservedCacheBytes' <= reservedCacheBytes
           /\ reservedCacheBytes >= QueuedBytes(queue)
                => reservedCacheBytes' - QueuedBytes(queue') = reservedCacheBytes - QueuedBytes(queue)
<1> DEFINE others == {k \in DOMAIN queue : queue[k].path # p}
           kept == ItemsAt(queue, others)
<1>1. /\ queue' = kept /\ reservedCacheBytes' = Unreserve(Freed(kept))
      /\ queuedPaths' \in {queuedPaths, queuedPaths \ {p}}
      /\ \/ itemCanceled' = itemCanceled
         \/ activeCancel # None /\ itemCanceled' = itemCanceled \cup {activeCancel}
  BY DEF cancelDownload
<1>2. kept \in Seq(Items)
  BY ItemsAtAre DEF QueueTyped
<1>3. QueuedBytes(kept) \in Nat /\ QueuedBytes(queue) \in Nat /\ QueuedBytes(kept) <= QueuedBytes(queue)
  BY BytesKept DEF QueueTyped
<1>4. itemCanceled' \in SUBSET Workers
  BY <1>1 DEF WorkersTyped
<1>5. QueuedBytes(queue') = QueuedBytes(kept)
  BY <1>1
<1>6. queue' = ItemsAt(queue, {k \in DOMAIN queue : queue[k].path # p})
  BY <1>1
<1> HIDE DEF kept
<1>7. Freed(kept) \in Nat /\ Freed(kept) = QueuedBytes(queue) - QueuedBytes(kept)
  BY <1>3 DEF Freed
<1>8. reservedCacheBytes' \in Nat /\ reservedCacheBytes' <= reservedCacheBytes
  BY <1>1, <1>7 DEF Unreserve, QueueTyped
<1>9. reservedCacheBytes >= QueuedBytes(queue) => reservedCacheBytes' = reservedCacheBytes - Freed(kept)
  BY <1>1, <1>3, <1>7 DEF Unreserve, QueueTyped
<1>10. QueueTyped'
  BY <1>1, <1>2, <1>8 DEF QueueTyped
<1> QED
  BY <1>3, <1>4, <1>5, <1>6, <1>7, <1>8, <1>9, <1>10 DEF QueueTyped
-----------------------------------------------------------------------------
(* Every step keeps the types.                                              *)

LEMMA WalkFields ==
    ASSUME NEW x \in Walks, NEW d \in Seq(Dirs), NEW e \in Seq(Files \cup Dirs), NEW n \in Nat
    PROVE  /\ [x EXCEPT !.entries = e] \in Walks
           /\ [x EXCEPT !.entries = e].root = x.root /\ [x EXCEPT !.entries = e].dest = x.dest
           /\ [x EXCEPT !.dirs = d] \in Walks
           /\ [x EXCEPT !.dirs = d].root = x.root /\ [x EXCEPT !.dirs = d].dest = x.dest
           /\ [x EXCEPT !.dirs = d, !.entries = e] \in Walks
           /\ [x EXCEPT !.dirs = d, !.entries = e].root = x.root
           /\ [x EXCEPT !.dirs = d, !.entries = e].dest = x.dest
           /\ [x EXCEPT !.entries = e, !.dirs = d, !.scanned = n] \in Walks
           /\ [x EXCEPT !.entries = e, !.dirs = d, !.scanned = n].root = x.root
           /\ [x EXCEPT !.entries = e, !.dirs = d, !.scanned = n].dest = x.dest
           /\ [x EXCEPT !.reserved = n] \in Walks
           /\ [x EXCEPT !.entries = e, !.reserved = n] \in Walks
  BY DEF Walks

LEMMA WalkMoved ==
    ASSUME WalksTyped, NEW v \in Walkers,
           NEW place \in Walking \cup {"off", "done", "failed"}, NEW x \in Walks,
           pc' = [pc EXCEPT ![v] = place], walk' = [walk EXCEPT ![v] = x],
           place = "wait" => x.dirs # <<>>,
           v \in Requests /\ place \in Walking => x.root \in Files \cup Dirs /\ x.dest \in Dests
    PROVE  WalksTyped'
<1>1. pc' \in [Walkers -> Walking \cup {"off", "done", "failed"}] /\ walk' \in [Walkers -> Walks]
  BY DEF WalksTyped
<1>2. \A u \in Walkers : pc'[u] = "wait" => walk'[u].dirs # <<>>
  BY DEF WalksTyped
<1>3. \A r \in Requests : pc'[r] \in Walking => walk'[r].root \in Files \cup Dirs /\ walk'[r].dest \in Dests
  BY DEF WalksTyped, Walkers
<1> QED
  BY <1>1, <1>2, <1>3 DEF WalksTyped

LEMMA NoWalkTyped == NoWalk \in Walks
<1>1. <<>> \in Seq(Dirs) /\ <<>> \in Seq(Files \cup Dirs)
  OBVIOUS
<1> QED
  BY <1>1 DEF NoWalk, Walks

LEMMA WalkIsOver ==
    ASSUME WalksTyped, NEW v \in Walkers, NEW end \in {"done", "failed"}, Over(v, end)
    PROVE  WalksTyped'
  BY NoWalkTyped, WalkMoved DEF Over, Goto, Walking

\* A walk that only goes somewhere else takes along what it has.
LEMMA WalkGoes ==
    ASSUME WalksTyped, NEW v \in Walkers, NEW place \in Walking, Goto(v, place), UNCHANGED walk,
           pc[v] \in Walking, place = "wait" => walk[v].dirs # <<>>
    PROVE  WalksTyped'
<1>1. walk[v] \in Walks /\ walk' = [walk EXCEPT ![v] = walk[v]]
  BY DEF WalksTyped
<1>2. v \in Requests => walk[v].root \in Files \cup Dirs /\ walk[v].dest \in Dests
  BY DEF WalksTyped
<1> QED
  BY <1>1, <1>2, WalkMoved DEF Goto

LEMMA EnsureTyped ==
    ASSUME WorkersTyped, NEW base \in [Workers -> Running \cup {"off", "again"}],
           \A w \in Workers : base[w] \in Transferring => wpc[w] = base[w],
           ensureWorker(base), UNCHANGED activeVars
    PROVE  WorkersTyped'
<1>1. CASE NoWorkerNeeded
  BY <1>1 DEF ensureWorker, WorkersTyped, activeVars, Transferring
<1>2. CASE ~NoWorkerNeeded
  <2>1. PICK n \in Workers :
          /\ wpc' = [base EXCEPT ![n] = IF session = "live" THEN "loop" ELSE "noSession"]
          /\ workerRunning' = TRUE
          /\ workerDone' = n
    BY <1>2 DEF ensureWorker, FreeWorkers
  <2> QED
    BY <2>1 DEF WorkersTyped, activeVars, Running, Transferring
<1> QED
  BY <1>1, <1>2

LEMMA WalksKeepTypes ==
    ASSUME Typed, NEW v \in Walkers, WalkSteps(v) \/ WalkGranted(v) \/ WalkErrs(v)
    PROVE  Typed'
<1> USE DEF Typed
<1>1. walk[v] \in Walks /\ pc[v] \in Walking \cup {"off", "done", "failed"}
  BY DEF WalksTyped
<1>2. PICK x \in Walks : x = walk[v]
  BY <1>1
<1>3. x.dirs \in Seq(Dirs) /\ x.entries \in Seq(Files \cup Dirs) /\ x.scanned \in Nat /\ x.reserved \in Nat
  BY DEF Walks
<1>4. x.entries # <<>> => Head(x.entries) \in Files \cup Dirs /\ Tail(x.entries) \in Seq(Files \cup Dirs)
  BY <1>3
<1>5. x.dirs # <<>> => Head(x.dirs) \in Dirs /\ Tail(x.dirs) \in Seq(Dirs)
  BY <1>3
<1>6. v \in Requests /\ pc[v] \in Walking => x.root \in Files \cup Dirs /\ x.dest \in Dests
  BY <1>2 DEF WalksTyped
\* A step that touches nothing but the walk, or the walk and the queue.
<1>7. ASSUME UNCHANGED besidesWalk, QueueTyped', WalksTyped' PROVE Typed'
  <2>1. UNCHANGED <<sessionVars, cacheVars, disk, workerVars, activeVars, group, reading>>
    BY <1>7 DEF besidesWalk
  <2> QED
    BY <1>7, <2>1, SessionKept, CacheKept, WorkersKept, CallsKept
<1>8. ASSUME UNCHANGED besidesWalk, UNCHANGED queueVars, WalksTyped' PROVE Typed'
  BY <1>7, <1>8, QueueKept
<1>9. CASE WalkWaits(v)
  <2>1. walk[v].dirs # <<>>
    BY <1>9 DEF WalkWaits, Exhausted
  <2>2. WalksTyped'
    BY <1>9, <2>1, WalkGoes DEF WalkWaits, BetweenListings, Walking
  <2> QED
    BY <1>8, <1>9, <2>2 DEF WalkWaits
<1>10. CASE ReadDir(v)
  <2> DEFINE listing == Children[Head(walk[v].dirs)]
             rest == Tail(x.dirs)
             n == x.scanned + Len(listing)
             y == [x EXCEPT !.entries = listing, !.dirs = rest, !.scanned = n]
  <2>1. x.dirs # <<>>
    BY <1>2, <1>10 DEF ReadDir, WalksTyped
  <2>2. listing \in Seq(Files \cup Dirs)
    BY <1>2, <1>5, <2>1, TreeAssumption
  <2>3. n \in Nat /\ rest \in Seq(Dirs)
    BY <1>3, <1>5, <2>1, <2>2
  <2>4. y \in Walks /\ y.root = x.root /\ y.dest = x.dest
    <3> HIDE DEF listing, rest, n
    <3> QED
      BY <2>2, <2>3 DEF Walks
  <2>5. pc' = [pc EXCEPT ![v] = "walk"] /\ walk' = [walk EXCEPT ![v] = y] /\ pc[v] = "wait"
    BY <1>2, <1>10 DEF ReadDir, Goto
  <2> HIDE DEF y
  <2>6. WalksTyped'
    BY <1>6, <2>4, <2>5, WalkMoved DEF Walking
  <2> QED
    BY <1>8, <1>10, <2>6 DEF ReadDir
<1>11. CASE WalkDirectory(v)
  <2> DEFINE d == Append(x.dirs, Head(x.entries))
             e == Tail(x.entries)
             y == [x EXCEPT !.dirs = d, !.entries = e]
  <2>1. d \in Seq(Dirs) /\ e \in Seq(Files \cup Dirs)
    BY <1>2, <1>3, <1>4, <1>11 DEF WalkDirectory, AtDirectory
  <2>2. y \in Walks /\ y.root = x.root /\ y.dest = x.dest
    <3> HIDE DEF d, e
    <3> QED
      BY <2>1 DEF Walks
  <2>3. pc' = [pc EXCEPT ![v] = "walk"] /\ walk' = [walk EXCEPT ![v] = y] /\ pc[v] = "walk"
    BY <1>2, <1>11 DEF WalkDirectory, AtDirectory, WalksTyped
  <2> HIDE DEF y
  <2>4. WalksTyped'
    BY <1>6, <2>2, <2>3, WalkMoved DEF Walking
  <2> QED
    BY <1>8, <1>11, <2>4 DEF WalkDirectory
<1>12. CASE WalkEnds(v) \/ (v \in Scans /\ ScanRetires(v))
  <2>1. Goto(v, "ensure") /\ UNCHANGED walk /\ UNCHANGED queueVars /\ UNCHANGED besidesWalk /\ pc[v] = "walk"
    BY <1>12 DEF WalkEnds, ScanRetires, BetweenListings
  <2> QED
    BY <1>8, <2>1, WalkGoes DEF Walking
<1>13. CASE WalkFails(v) \/ (v \in Requests /\ RequestRefused(v))
  <2>1. (Over(v, "failed") \/ Over(v, "done")) /\ UNCHANGED queueVars /\ UNCHANGED besidesWalk
    BY <1>13 DEF WalkFails, RequestRefused
  <2> QED
    BY <1>8, <2>1, WalkIsOver
<1>14. CASE WalkEnsures(v)
  <2>1. Over(v, "done") /\ ensureWorker(wpc) /\ UNCHANGED <<sessionVars, cacheVars, queueVars, activeVars, group, reading, disk>>
    BY <1>14 DEF WalkEnsures
  <2>2. WorkersTyped'
    BY <2>1, EnsureTyped DEF WorkersTyped
  <2> QED
    BY <2>1, <2>2, WalkIsOver, SessionKept, CacheKept, QueueKept, CallsKept
<1>15. CASE v \in Scans /\ ScanStart(v)
  <2> DEFINE y == [x EXCEPT !.reserved = cachedBytes + reservedCacheBytes]
  <2>1. cachedBytes + reservedCacheBytes \in Nat
    BY DEF CacheTyped, QueueTyped
  <2>2. y \in Walks
    BY <1>3, <2>1, WalkFields
  <2>3. pc' = [pc EXCEPT ![v] = "walk"] /\ walk' = [walk EXCEPT ![v] = y] /\ v \notin Requests
    BY <1>2, <1>15, TreeAssumption DEF ScanStart, Goto
  <2> HIDE DEF y
  <2>4. WalksTyped'
    BY <2>2, <2>3, WalkMoved DEF Walking
  <2> QED
    BY <1>8, <1>15, <2>4 DEF ScanStart
<1>16. CASE v \in Scans /\ ScanFile(v)
  <2> DEFINE f == Head(walk[v].entries)
             rest == Tail(x.entries)
  <2>1. f \in Files /\ rest \in Seq(Files \cup Dirs) /\ v \notin Requests /\ pc[v] = "walk"
    BY <1>2, <1>4, <1>16, TreeAssumption DEF ScanFile, AtFile
  <2>2. CASE Skips(v, f)
    <3> DEFINE y == [x EXCEPT !.entries = rest]
    <3>1. UNCHANGED queueVars /\ UNCHANGED besidesWalk
      BY <1>16, <2>2 DEF ScanFile
    <3>2. Over(v, "done") \/ (pc' = [pc EXCEPT ![v] = "walk"] /\ walk' = [walk EXCEPT ![v] = y])
      BY <1>2, <1>16, <2>1, <2>2 DEF ScanFile, WalksTyped
    <3>3. y \in Walks
      BY <1>3, <2>1, WalkFields
    <3> HIDE DEF y
    <3>4. WalksTyped'
      BY <2>1, <3>2, <3>3, WalkMoved, WalkIsOver DEF Walking
    <3> QED
      BY <1>8, <3>1, <3>4
  <2>3. CASE ~Skips(v, f)
    <3> DEFINE n == walk[v].reserved + Size[f]
               y == [x EXCEPT !.entries = rest, !.reserved = n]
    <3>1. enqueueLocked(CacheItem(f)) /\ UNCHANGED besidesWalk
      BY <1>16, <2>3 DEF ScanFile
    <3>2. pc' = [pc EXCEPT ![v] = "walk"] /\ walk' = [walk EXCEPT ![v] = y]
      BY <1>2, <1>16, <2>1, <2>3 DEF ScanFile, WalksTyped
    <3>3. n \in Nat
      BY <1>2, <1>3, <2>1, TreeAssumption
    <3>4. y \in Walks
      <4> HIDE DEF n
      <4> QED
        BY <1>3, <2>1, <3>3, WalkFields
    <3> HIDE DEF y
    <3>5. WalksTyped'
      BY <2>1, <3>2, <3>4, WalkMoved DEF Walking
    <3>6. QueueTyped'
      BY <2>1, <3>1, CacheItemTyped, Enqueued
    <3> QED
      BY <1>7, <3>1, <3>5, <3>6
  <2> QED
    BY <2>2, <2>3
<1>17. CASE v \in Requests /\ RequestFile(v)
  <2> DEFINE f == Head(x.entries)
             rest == Tail(x.entries)
             y == [x EXCEPT !.entries = rest]
  <2>1. f \in Files /\ rest \in Seq(Files \cup Dirs) /\ pc[v] = "walk"
    BY <1>2, <1>4, <1>17 DEF RequestFile, AtFile
  <2>2. x.root \in Files \cup Dirs /\ x.dest \in Dests
    BY <1>6, <1>17, <2>1 DEF Walking
  <2>3. enqueueLocked(ManualItem(f, x.dest, x.root)) /\ UNCHANGED besidesWalk
    BY <1>2, <1>17 DEF RequestFile
  <2>4. pc' = [pc EXCEPT ![v] = "walk"] /\ walk' = [walk EXCEPT ![v] = y]
    BY <1>2, <1>17, <2>1 DEF RequestFile, WalksTyped
  <2>5. y \in Walks /\ y.root = x.root /\ y.dest = x.dest
    BY <1>3, <2>1, WalkFields
  <2>6. QueueTyped'
    <3> HIDE DEF f
    <3> QED
      BY <2>1, <2>2, <2>3, ManualItemTyped, Enqueued
  <2> HIDE DEF y
  <2>7. WalksTyped'
    BY <2>2, <2>4, <2>5, WalkMoved DEF Walking
  <2> QED
    BY <1>7, <2>3, <2>6, <2>7
<1>18. CASE v \in Requests /\ RequestStat(v)
  <2>1. pc[v] = "stat" /\ x.root \in Files \cup Dirs /\ x.dest \in Dests /\ UNCHANGED besidesWalk
    BY <1>2, <1>6, <1>18 DEF RequestStat, Walking
  <2>2. CASE x.root \in Dirs
    <3> DEFINE y == [x EXCEPT !.dirs = <<x.root>>]
    <3>1. pc' = [pc EXCEPT ![v] = "walk"] /\ walk' = [walk EXCEPT ![v] = y] /\ UNCHANGED queueVars
      BY <1>2, <1>18, <2>2, TreeAssumption DEF RequestStat, Goto
    <3>2. <<x.root>> \in Seq(Dirs)
      BY <2>2
    <3>3. y \in Walks /\ y.root = x.root /\ y.dest = x.dest
      BY <1>3, <3>2, WalkFields
    <3> HIDE DEF y
    <3>4. WalksTyped'
      BY <2>1, <3>1, <3>3, WalkMoved DEF Walking
    <3> QED
      BY <1>8, <2>1, <3>1, <3>4
  <2>3. CASE x.root \in Files
    <3>1. Goto(v, "ensure") /\ enqueueLocked(ManualItem(x.root, x.dest, x.root)) /\ UNCHANGED walk
      BY <1>2, <1>18, <2>3, TreeAssumption DEF RequestStat
    <3>2. WalksTyped'
      BY <2>1, <3>1, WalkGoes DEF Walking
    <3>3. QueueTyped'
      BY <2>1, <2>3, <3>1, ManualItemTyped, Enqueued
    <3> QED
      BY <1>7, <2>1, <3>2, <3>3
  <2> QED
    BY <2>1, <2>2, <2>3
<1> QED
  BY <1>9, <1>10, <1>11, <1>12, <1>13, <1>14, <1>15, <1>16, <1>17, <1>18 DEF WalkSteps, WalkGranted, WalkErrs
\* A worker that goes on with its item, or without one.
LEMMA WorkerMoved ==
    ASSUME WorkersTyped, NEW w \in Workers, NEW place \in Running \cup {"off", "again"},
           wpc' = [wpc EXCEPT ![w] = place], place \in Transferring => wpc[w] \in Transferring,
           workerRunning' \in BOOLEAN, workerDone' \in Workers \cup {None}, UNCHANGED activeVars
    PROVE  WorkersTyped'
  BY DEF WorkersTyped, activeVars, Transferring

LEMMA WorkersKeepTypes ==
    ASSUME Typed, NEW w \in Workers, WorkerSteps(w) \/ TransferLands(w) \/ TransferErrs(w)
    PROVE  Typed'
<1> USE DEF Typed
<1>1. wpc \in [Workers -> Running \cup {"off", "again"}] /\ workerRunning \in BOOLEAN /\ workerDone \in Workers \cup {None}
  BY DEF WorkersTyped
<1>2. ASSUME NEW place \in Running \cup {"off", "again"}, MoveWorker(w, place), UNCHANGED disk,
             place \in Transferring => wpc[w] \in Transferring
      PROVE  Typed'
  <2>1. WorkersTyped'
    BY <1>1, <1>2, WorkerMoved DEF MoveWorker
  <2> QED
    BY <1>2, <2>1, SessionKept, CacheKept, QueueKept, WalksKept, CallsKept DEF MoveWorker
<1>3. CASE WorkerLoop(w)
  BY <1>2, <1>3 DEF WorkerLoop, Running, Transferring
<1>4. CASE WorkerIdle(w) \/ TransferSkips(w) \/ TransferStarts(w) \/ TransferCanceled(w) \/ TransferErrs(w)
  BY <1>2, <1>4 DEF WorkerIdle, TransferSkips, TransferStarts, TransferCanceled, TransferErrs, Running, Transferring
<1>5. CASE TransferLands(w)
  <2>1. WorkersTyped'
    BY <1>1, <1>5, WorkerMoved DEF TransferLands, MoveWorker, Running, Transferring
  <2>2. item[w].path \in Files
    BY <1>5 DEF TransferLands, WorkersTyped, Transferring, Items
  <2>3. CacheTyped'
    BY <1>5, <2>2 DEF TransferLands, MoveWorker, cacheVars, CacheTyped
  <2> QED
    BY <1>5, <2>1, <2>3, SessionKept, QueueKept, WalksKept, CallsKept DEF TransferLands, MoveWorker
<1>6. CASE WorkerPop(w)
  <2>1. Head(queue) \in Items /\ Tail(queue) \in Seq(Items)
    BY <1>6, BytesPopped DEF WorkerPop, QueueTyped
  <2>2. QueueTyped'
    BY <1>6, <2>1 DEF WorkerPop, QueueTyped
  <2>3. WorkersTyped'
    BY <1>6, <2>1 DEF WorkerPop, WorkersTyped, Running, Transferring
  <2> QED
    BY <1>6, <2>2, <2>3, SessionKept, CacheKept, WalksKept, CallsKept DEF WorkerPop
<1>7. CASE WorkerFinishes(w)
  <2>1. item[w] \in Items
    BY <1>7 DEF WorkerFinishes, WorkersTyped, Transferring
  <2>2. item[w].path \in Files /\ item[w].local \in Locals /\ Size[item[w].path] \in Nat
    BY <2>1, ItemBytes DEF Items
  <2>3. Released(w) \in Nat
    BY <2>2 DEF Released
  <2>4. reservedCacheBytes' \in Nat
    BY <1>7, <2>3 DEF WorkerFinishes, Unreserve, QueueTyped
  <2>5. QueueTyped'
    BY <1>7, <2>4 DEF WorkerFinishes, QueueTyped
  <2>6. CacheTyped'
    <3>1. CASE item[w].cache /\ wpc[w] = "landed"
      BY <1>7, <2>2, <3>1 DEF WorkerFinishes, CacheTyped
    <3>2. CASE ~(item[w].cache /\ wpc[w] = "landed")
      BY <1>7, <3>2 DEF WorkerFinishes, CacheTyped, cacheVars
    <3> QED
      BY <3>1, <3>2
  <2>7. WorkersTyped'
    BY <1>7 DEF WorkerFinishes, WorkersTyped, Running, Transferring
  <2> QED
    BY <1>7, <2>5, <2>6, <2>7, SessionKept, WalksKept, CallsKept DEF WorkerFinishes
<1>8. CASE WorkerEnds(w)
  <2>1. WorkersTyped'
    BY <1>1, <1>8, WorkerMoved DEF WorkerEnds, Transferring
  <2> QED
    BY <1>8, <2>1, SessionKept, CacheKept, QueueKept, WalksKept, CallsKept DEF WorkerEnds
<1>9. CASE NoSession(w)
  <2>1. WorkersTyped'
    BY <1>1, <1>9, WorkerMoved DEF NoSession, Transferring
  <2> QED
    BY <1>9, <2>1, SessionKept, CacheKept, QueueKept, WalksKept, CallsKept DEF NoSession
<1>10. CASE WorkerAgain(w)
  <2> DEFINE base == [wpc EXCEPT ![w] = "off"]
  <2>1. base \in [Workers -> Running \cup {"off", "again"}] /\ \A x \in Workers : base[x] \in Transferring => wpc[x] = base[x]
    BY <1>1 DEF Transferring
  <2>2. ensureWorker(base) /\ UNCHANGED activeVars
    BY <1>10 DEF WorkerAgain
  <2> HIDE DEF base
  <2>3. WorkersTyped'
    BY <2>1, <2>2, EnsureTyped
  <2> QED
    BY <1>10, <2>3, SessionKept, CacheKept, QueueKept, WalksKept, CallsKept DEF WorkerAgain
<1> QED
  BY <1>3, <1>4, <1>5, <1>6, <1>7, <1>8, <1>9, <1>10 DEF WorkerSteps

LEMMA CallsKeepTypes ==
    ASSUME Typed, Api \/ CallerSteps
    PROVE  Typed'
<1> USE DEF Typed
<1>1. CASE StartSession
  <2>1. SessionTyped'
    BY <1>1 DEF StartSession, SessionTyped
  <2> QED
    BY <1>1, <2>1, CacheKept, QueueKept, WorkersKept, WalksKept, CallsKept DEF StartSession
<1>2. CASE StopSession
  <2>1. SessionTyped'
    BY <1>2 DEF StopSession, SessionTyped, WorkersTyped
  <2>2. QueueTyped'
    <3>1. <<>> \in Seq(Items)
      OBVIOUS
    <3> QED
      BY <1>2, <3>1 DEF StopSession, QueueTyped
  <2>3. WorkersTyped'
    BY <1>2 DEF StopSession, WorkersTyped, workerVars
  <2> QED
    BY <1>2, <2>1, <2>2, <2>3, CacheKept, WalksKept, CallsKept DEF StopSession
<1>3. CASE StopSessionDrained
  <2>1. SessionTyped'
    BY <1>3 DEF StopSessionDrained, SessionTyped
  <2>2. CacheTyped'
    BY <1>3 DEF StopSessionDrained, CacheTyped
  <2>3. QueueTyped'
    BY <1>3 DEF StopSessionDrained, QueueTyped
  <2> QED
    BY <1>3, <2>1, <2>2, <2>3, WorkersKept, WalksKept, CallsKept DEF StopSessionDrained
<1>4. ASSUME NEW s \in Scans, NEW d \in ScanRoots, StartAutomaticMediaCache(s, d) PROVE Typed'
  <2>1. SessionTyped'
    BY <1>4 DEF StartAutomaticMediaCache, SessionTyped
  <2>2. QueueTyped'
    <3>1. KeptByRescan(queue) \in Seq(Items) /\ QueuedBytes(queue) \in Nat
      BY RescanKeepsNoBytes, BytesFinite DEF QueueTyped, QueuedBytes
    <3>2. reservedCacheBytes' \in Nat
      BY <1>4, <3>1 DEF StartAutomaticMediaCache, Unreserve, QueueTyped
    <3> QED
      BY <1>4, <3>1, <3>2 DEF StartAutomaticMediaCache, QueueTyped
  <2>3. WalksTyped'
    <3>1. s \in Walkers /\ s \notin Requests
      BY TreeAssumption DEF Walkers
    <3>2. CASE ctxDone
      <4>1. Over(s, "done")
        BY <1>4, <3>2 DEF StartAutomaticMediaCache
      <4> QED
        BY <3>1, <4>1, WalkIsOver
    <3>3. CASE ~ctxDone
      <4> DEFINE y == [NoWalk EXCEPT !.dirs = <<d>>, !.gen = automaticScanGeneration']
      <4>1. pc' = [pc EXCEPT ![s] = "start"] /\ walk' = [walk EXCEPT ![s] = y]
        BY <1>4, <3>3 DEF StartAutomaticMediaCache, Goto
      <4>2. y \in Walks
        <5>1. <<d>> \in Seq(Dirs)
          BY TreeAssumption
        <5>2. automaticScanGeneration' \in Nat
          BY <2>1 DEF SessionTyped
        <5> QED
          BY <5>1, <5>2, NoWalkTyped DEF Walks, NoWalk
      <4> HIDE DEF y
      <4> QED
        BY <3>1, <4>1, <4>2, WalkMoved DEF Walking
    <3> QED
      BY <3>2, <3>3
  <2> QED
    BY <1>4, <2>1, <2>2, <2>3, CacheKept, WorkersKept, CallsKept DEF StartAutomaticMediaCache
<1>5. ASSUME NEW r \in Requests, NEW p \in RequestRoots, NEW d \in Dests, QueueIdleDownload(r, p, d) PROVE Typed'
  <2>1. r \in Walkers /\ p \in Files \cup Dirs
    BY TreeAssumption DEF Walkers
  <2> DEFINE y == [NoWalk EXCEPT !.root = p, !.dest = d]
  <2>2. y \in Walks /\ y.root = p /\ y.dest = d
    BY <2>1, NoWalkTyped DEF Walks, NoWalk
  <2>3. pc' = [pc EXCEPT ![r] = "stat"] /\ walk' = [walk EXCEPT ![r] = y]
    BY <1>5 DEF QueueIdleDownload, Goto
  <2> HIDE DEF y
  <2>4. WalksTyped'
    BY <2>1, <2>2, <2>3, WalkMoved DEF Walking
  <2> QED
    BY <1>5, <2>4, SessionKept, CacheKept, QueueKept, WorkersKept, CallsKept DEF QueueIdleDownload, besidesWalk
<1>6. ASSUME NEW p, cancelDownload(p), UNCHANGED <<workerVars, activeItem, activeCancel, item>>
      PROVE  QueueTyped' /\ WorkersTyped'
  <2>1. QueueTyped' /\ itemCanceled' \in SUBSET Workers
    BY <1>6, Canceled
  <2> QED
    BY <1>6, <2>1 DEF WorkersTyped, workerVars
<1>7. ASSUME NEW p \in Files, CancelDownload(p) PROVE Typed'
  BY <1>6, <1>7, SessionKept, CacheKept, WalksKept, CallsKept DEF CancelDownload
<1>8. CASE GroupTarget
  <2>1. QueueTyped' /\ WorkersTyped'
    BY <1>6, <1>8 DEF GroupTarget
  <2>2. CallsTyped'
    <3>1. group.targets \in Seq(Items) /\ group.targets # <<>>
      BY <1>8 DEF GroupTarget, CallsTyped
    <3>2. Tail(group.targets) \in Seq(Items)
      BY <3>1
    <3> QED
      BY <1>8, <3>2 DEF GroupTarget, CallsTyped
  <2> QED
    BY <1>8, <2>1, <2>2, SessionKept, CacheKept, WalksKept DEF GroupTarget
<1>9. CASE GroupActive
  <2>1. WorkersTyped'
    BY <1>9 DEF GroupActive, WorkersTyped, workerVars
  <2>2. CallsTyped'
    <3>1. <<>> \in Seq(Items)
      OBVIOUS
    <3> QED
      BY <1>9, <3>1 DEF GroupActive, CallsTyped
  <2> QED
    BY <1>9, <2>1, <2>2, SessionKept, CacheKept, QueueKept, WalksKept DEF GroupActive
<1>10. ASSUME NEW g \in GroupRoots, CancelGroup(g) PROVE Typed'
  <2> DEFINE targets == ItemsAt(queue, {k \in DOMAIN queue : queue[k].group = g})
  <2>1. targets \in Seq(Items)
    BY ItemsAtAre DEF QueueTyped
  <2>2. g \in Files \cup Dirs
    BY TreeAssumption
  <2>3. group' = [pc |-> "targets", root |-> g, targets |-> targets,
                  activeMatches |-> activeItem # None /\ activeItem.group = g] /\ reading' = reading
    BY <1>10 DEF CancelGroup
  <2>4. (activeItem # None /\ activeItem.group = g) \in BOOLEAN
    OBVIOUS
  <2> HIDE DEF targets
  <2>5. CallsTyped'
    BY <2>1, <2>2, <2>3, <2>4 DEF CallsTyped
  <2> QED
    BY <1>10, <2>5, SessionKept, CacheKept, QueueKept, WorkersKept, WalksKept DEF CancelGroup
<1>11. ASSUME NEW f \in Files, ReadCached(f) PROVE Typed'
  <2>1. CallsTyped'
    BY <1>11 DEF ReadCached, CallsTyped, CacheTyped
  <2> QED
    BY <1>11, <2>1, SessionKept, CacheKept, QueueKept, WorkersKept, WalksKept DEF ReadCached
<1>12. CASE ReadHit
  <2>1. CallsTyped'
    BY <1>12 DEF ReadHit, CallsTyped
  <2> QED
    BY <1>12, <2>1, SessionKept, CacheKept, QueueKept, WorkersKept, WalksKept DEF ReadHit
<1>13. CASE ReadEvicts
  <2>1. CallsTyped'
    BY <1>13 DEF ReadEvicts, CallsTyped
  <2>2. reading.path \in Files /\ Size[reading.path] \in Nat
    BY <1>13, TreeAssumption DEF ReadEvicts, CallsTyped
  <2>3. CacheTyped'
    BY <1>13, <2>2 DEF ReadEvicts, CacheTyped
  <2> QED
    BY <1>13, <2>1, <2>3, SessionKept, QueueKept, WorkersKept, WalksKept DEF ReadEvicts
<1> QED
  BY <1>1, <1>2, <1>3, <1>4, <1>5, <1>7, <1>8, <1>9, <1>10, <1>11, <1>12, <1>13 DEF Api, CallerSteps

LEMMA TypedNext == Typed /\ [Next]_vars => Typed'
<1> SUFFICES ASSUME Typed, [Next]_vars PROVE Typed'
  OBVIOUS
<1>1. CASE Api \/ CallerSteps
  BY <1>1, CallsKeepTypes
<1>2. ASSUME NEW v \in Walkers, WalkSteps(v) \/ WalkGranted(v) \/ WalkErrs(v) PROVE Typed'
  BY <1>2, WalksKeepTypes
<1>3. ASSUME NEW w \in Workers, WorkerSteps(w) \/ TransferLands(w) \/ TransferErrs(w) PROVE Typed'
  BY <1>3, WorkersKeepTypes
<1>4. CASE UNCHANGED vars
  BY <1>4, SessionKept, CacheKept, QueueKept, WorkersKept, WalksKept, CallsKept DEF vars, Typed
<1> QED
  BY <1>1, <1>2, <1>3, <1>4 DEF Next

\* Every variable keeps its type: in particular no count of bytes goes below zero, whichever of a
\* landing, a failure, a cancellation, a new scan and a stop releases them.
THEOREM TransferTyped == Spec => []TypeOK
<1>1. Typed => TypeOK
  BY DEF Typed, SessionTyped, CacheTyped, QueueTyped, WorkersTyped, WalksTyped, CallsTyped, TypeOK
<1> QED
  BY <1>1, TypedInit, TypedNext, PTL DEF Spec
-----------------------------------------------------------------------------
(* Reservations.  Until the session stops they are exactly what the queue   *)
(* and the active item hold; while a stop waits for the worker they may be  *)
(* more, as the dropped queue is not released; then they are nothing.       *)

ActiveBytes == IF activeItem # None THEN Bytes(activeItem) ELSE 0

Held == QueuedBytes(queue) + ActiveBytes

Reservations ==
    /\ \A w \in Workers : wpc[w] \in Transferring => activeItem = item[w]
    /\ activeItem # None => \E w \in Workers : wpc[w] \in Transferring
    /\ session # "stopped" => reservedCacheBytes = Held
    /\ session = "stopped" /\ stopPc = "draining" => reservedCacheBytes >= Held
    /\ session = "stopped" /\ stopPc = "idle" => reservedCacheBytes = 0 /\ cachedBytes = 0 /\ ~cacheDir

\* With at most one scan started, what is cached and reserved is within the limit,
\* and within what the scan counts.
Counts(s) == pc[s] \in {"walk", "wait"}

LimitKept ==
    /\ (\A t \in Scans : pc[t] = "off") => cachedBytes + reservedCacheBytes <= CacheLimit
    /\ \A s \in Scans : (\A t \in Scans \ {s} : pc[t] = "off") =>
          /\ cachedBytes + reservedCacheBytes <= CacheLimit
          /\ Counts(s) => cachedBytes + reservedCacheBytes <= walk[s].reserved

BytesInv == Typed /\ WorkerInvariant /\ Reservations /\ LimitKept

LEMMA HeldTyped ==
    ASSUME Typed
    PROVE  /\ QueuedBytes(queue) \in Nat /\ ActiveBytes \in Nat /\ Held \in Nat
           /\ reservedCacheBytes \in Nat /\ cachedBytes \in Nat
<1>1. QueuedBytes(queue) \in Nat
  BY BytesFinite DEF Typed, QueueTyped, QueuedBytes
<1>2. ActiveBytes \in Nat
  BY ItemBytes DEF Typed, WorkersTyped, ActiveBytes
<1> QED
  BY <1>1, <1>2 DEF Held, Typed, QueueTyped, CacheTyped

\* The transfers see nothing of a step that leaves them and the queue's bytes alone.
TransferFrame == <<session, stopPc, cacheDir, wpc, item, activeItem>>

LEMMA ReservationsKept ==
    ASSUME Reservations, Typed, Typed', UNCHANGED TransferFrame,
           session # "stopped" \/ stopPc = "draining"
              => reservedCacheBytes' - QueuedBytes(queue') = reservedCacheBytes - QueuedBytes(queue),
           session = "stopped" /\ stopPc = "idle" => reservedCacheBytes' <= reservedCacheBytes,
           cachedBytes' <= cachedBytes
    PROVE  Reservations'
<1>1. /\ QueuedBytes(queue) \in Nat /\ QueuedBytes(queue') \in Nat /\ ActiveBytes \in Nat /\ ActiveBytes' = ActiveBytes
      /\ reservedCacheBytes \in Nat /\ reservedCacheBytes' \in Nat /\ cachedBytes \in Nat /\ cachedBytes' \in Nat
  <2>1. ActiveBytes' = ActiveBytes
    BY DEF TransferFrame, ActiveBytes, Bytes
  <2>2. QueuedBytes(queue') \in Nat /\ reservedCacheBytes' \in Nat /\ cachedBytes' \in Nat
    BY BytesFinite DEF Typed, QueueTyped, CacheTyped, QueuedBytes
  <2> QED
    BY <2>1, <2>2, HeldTyped
<1>2. session' # "stopped" => reservedCacheBytes' = Held'
  BY <1>1 DEF Reservations, TransferFrame, Held
<1>3. session' = "stopped" /\ stopPc' = "draining" => reservedCacheBytes' >= Held'
  BY <1>1 DEF Reservations, TransferFrame, Held
<1>4. session' = "stopped" /\ stopPc' = "idle" => reservedCacheBytes' = 0 /\ cachedBytes' = 0 /\ ~cacheDir'
  BY <1>1 DEF Reservations, TransferFrame
<1> QED
  BY <1>2, <1>3, <1>4 DEF Reservations, TransferFrame

LEMMA SumNat ==
    ASSUME NEW a \in Nat, NEW b \in Nat
    PROVE  a + b \in Nat
  OBVIOUS

LEMMA LeqTransitive ==
    ASSUME NEW a \in Nat, NEW b \in Nat, NEW c \in Nat, a <= b, b <= c
    PROVE  a <= c
  OBVIOUS

LEMMA ReservedCovers ==
    ASSUME NEW s \in Scans,
           cachedBytes \in Nat, reservedCacheBytes \in Nat, cachedBytes' \in Nat, reservedCacheBytes' \in Nat,
           walk[s].reserved \in Nat,
           cachedBytes + reservedCacheBytes <= walk[s].reserved,
           cachedBytes' + reservedCacheBytes' <= cachedBytes + reservedCacheBytes
    PROVE  cachedBytes' + reservedCacheBytes' <= walk[s].reserved
<1>1. cachedBytes + reservedCacheBytes \in Nat /\ cachedBytes' + reservedCacheBytes' \in Nat
  BY SumNat, Zenon
<1> QED
  BY <1>1, LeqTransitive, Zenon

LEMMA LimitStaysWalking ==
    ASSUME LimitKept, Typed, Typed',
           cachedBytes' + reservedCacheBytes' <= cachedBytes + reservedCacheBytes,
           \A t \in Scans : /\ pc'[t] = "off" => pc[t] = "off"
                            /\ pc'[t] \in {"walk", "wait"} =>
                               pc[t] \in {"walk", "wait"} /\ walk'[t].reserved = walk[t].reserved
    PROVE  LimitKept'
<1>1. \A t \in Scans : walk[t].reserved \in Nat
  BY DEF Typed, WalksTyped, Walks, Walkers
<1>2. /\ cachedBytes \in Nat /\ reservedCacheBytes \in Nat /\ cachedBytes' \in Nat /\ reservedCacheBytes' \in Nat
      /\ CacheLimit \in Nat
  BY TreeAssumption DEF Typed, CacheTyped, QueueTyped
<1>3. cachedBytes + reservedCacheBytes \in Nat /\ cachedBytes' + reservedCacheBytes' \in Nat
  BY <1>2, SumNat, Zenon
<1>4. ASSUME \A t \in Scans : pc'[t] = "off"
      PROVE  cachedBytes' + reservedCacheBytes' <= CacheLimit
  <2>1. cachedBytes + reservedCacheBytes <= CacheLimit
    BY <1>4 DEF LimitKept
  <2> QED
    BY <1>2, <1>3, <2>1, LeqTransitive, Zenon
<1>5. ASSUME NEW s \in Scans, \A t \in Scans \ {s} : pc'[t] = "off"
      PROVE  /\ cachedBytes' + reservedCacheBytes' <= CacheLimit
             /\ Counts(s)' => cachedBytes' + reservedCacheBytes' <= walk'[s].reserved
  <2>1. /\ cachedBytes + reservedCacheBytes <= CacheLimit
        /\ Counts(s) => cachedBytes + reservedCacheBytes <= walk[s].reserved
    BY <1>5 DEF LimitKept
  <2>2. cachedBytes' + reservedCacheBytes' <= CacheLimit
    BY <1>2, <1>3, <2>1, LeqTransitive, Zenon
  <2>3. ASSUME Counts(s)' PROVE cachedBytes' + reservedCacheBytes' <= walk'[s].reserved
    <3>1. Counts(s) /\ walk'[s].reserved = walk[s].reserved
      BY <2>3 DEF Counts
    <3>2. walk[s].reserved \in Nat
      BY <1>1
    <3>3. cachedBytes + reservedCacheBytes <= walk[s].reserved
      BY <2>1, <3>1
    <3> QED
      <4>1. cachedBytes' + reservedCacheBytes' <= walk[s].reserved
        BY <1>2, <3>2, <3>3, ReservedCovers, Zenon
      <4> QED
        BY <3>1, <4>1, Zenon
  <2> QED
    BY <2>2, <2>3
<1> QED
  BY <1>4, <1>5 DEF LimitKept

LEMMA LimitStays ==
    ASSUME LimitKept, Typed, Typed',
           cachedBytes' + reservedCacheBytes' <= cachedBytes + reservedCacheBytes,
           \A t \in Scans : /\ pc'[t] = "off" => pc[t] = "off"
                            /\ Counts(t)' => Counts(t) /\ walk'[t].reserved = walk[t].reserved
    PROVE  LimitKept'
  BY LimitStaysWalking DEF Counts

\* Steps that change neither the walks nor any count keep what is said of the limit.
LEMMA LimitUnmoved ==
    ASSUME LimitKept, UNCHANGED <<walkVars, cachedBytes, reservedCacheBytes>>
    PROVE  LimitKept'
  BY DEF LimitKept, Counts, walkVars

LEMMA BytesInvInit == Init => BytesInv
<1> SUFFICES ASSUME Init PROVE BytesInv
  OBVIOUS
<1>1. Typed /\ WorkerInvariant
  BY TypedInit DEF Init, WorkerInvariant, WorkerTypeOK, OneWorker, NothingAfterStop,
       QuietBeforeStart, LiveHasSession, StopWaitsForWorker, QueueHasWorker, Running
<1>2. QueuedBytes(<<>>) = 0
  <2>1. BytesAt(<<>>, DOMAIN <<>>) = {}
    BY DEF BytesAt
  <2> QED
    BY <2>1, FS_EmptySet DEF QueuedBytes
<1>3. Reservations
  BY <1>2 DEF Init, Reservations, Held, ActiveBytes, Transferring
<1>4. LimitKept
  <2>1. CacheLimit \in Nat /\ Scans \subseteq Walkers
    BY TreeAssumption DEF Walkers
  <2> QED
    BY <2>1 DEF Init, LimitKept, Counts
<1> QED
  BY <1>1, <1>3, <1>4 DEF BytesInv
LEMMA WalksKeepBytes ==
    ASSUME BytesInv, Typed', NEW v \in Walkers, WalkSteps(v) \/ WalkGranted(v) \/ WalkErrs(v)
    PROVE  Reservations' /\ LimitKept'
<1> USE DEF BytesInv
<1>1. walk[v] \in Walks /\ reservedCacheBytes \in Nat /\ cachedBytes \in Nat /\ pc \in [Walkers -> Walking \cup {"off", "done", "failed"}]
      /\ walk \in [Walkers -> Walks]
  BY DEF Typed, WalksTyped, QueueTyped, CacheTyped
<1>2. walk[v].reserved \in Nat /\ v \notin Scans \cap Requests /\ CacheLimit \in Nat
  BY <1>1, TreeAssumption DEF Walks
\* A step that leaves the queue alone.
<1>3. ASSUME UNCHANGED besidesWalk, UNCHANGED queueVars PROVE Reservations'
  BY <1>1, <1>3, ReservationsKept DEF besidesWalk, queueVars, sessionVars, workerVars, activeVars, cacheVars, TransferFrame
<1>4. ASSUME UNCHANGED besidesWalk, reservedCacheBytes' = reservedCacheBytes,
             v \in Scans => pc'[v] # "off" \/ pc[v] = "off",
             v \in Scans /\ pc'[v] \in {"walk", "wait"} =>
                pc[v] \in {"walk", "wait"} /\ walk'[v].reserved = walk[v].reserved,
             \A u \in Walkers \ {v} : pc'[u] = pc[u] /\ walk'[u] = walk[u]
      PROVE  LimitKept'
  <2>1. cachedBytes' + reservedCacheBytes' <= cachedBytes + reservedCacheBytes
    BY <1>1, <1>4 DEF besidesWalk, cacheVars
  <2>2. \A t \in Scans : /\ pc'[t] = "off" => pc[t] = "off"
                         /\ Counts(t)' => Counts(t) /\ walk'[t].reserved = walk[t].reserved
    BY <1>4 DEF Counts, Walkers
  <2> QED
    BY <2>1, <2>2, LimitStays
<1>5. CASE WalkWaits(v) \/ WalkEnds(v) \/ (v \in Scans /\ ScanRetires(v))
  <2>1. UNCHANGED besidesWalk /\ UNCHANGED queueVars /\ UNCHANGED walk /\ pc[v] = "walk" /\ (Goto(v, "wait") \/ Goto(v, "ensure"))
    BY <1>5 DEF WalkWaits, WalkEnds, ScanRetires, BetweenListings
  <2>2. LimitKept'
    BY <1>1, <1>4, <2>1 DEF queueVars, Goto
  <2> QED
    BY <1>3, <2>1, <2>2
<1>6. CASE ReadDir(v)
  <2>1. UNCHANGED besidesWalk /\ UNCHANGED queueVars /\ pc[v] = "wait" /\ Goto(v, "walk")
    BY <1>6 DEF ReadDir
  <2>2. walk'[v].reserved = walk[v].reserved /\ \A u \in Walkers \ {v} : walk'[u] = walk[u]
    BY <1>1, <1>6 DEF ReadDir, Walks
  <2>3. LimitKept'
    BY <1>1, <1>4, <2>1, <2>2 DEF queueVars, Goto
  <2> QED
    BY <1>3, <2>1, <2>3
<1>7. CASE WalkDirectory(v)
  <2>1. UNCHANGED besidesWalk /\ UNCHANGED queueVars /\ pc[v] = "walk" /\ UNCHANGED pc
    BY <1>7 DEF WalkDirectory, AtDirectory
  <2>2. walk'[v].reserved = walk[v].reserved /\ \A u \in Walkers \ {v} : walk'[u] = walk[u]
    BY <1>1, <1>7 DEF WalkDirectory, Walks
  <2>3. LimitKept'
    BY <1>1, <1>4, <2>1, <2>2 DEF queueVars
  <2> QED
    BY <1>3, <2>1, <2>3
<1>8. CASE WalkFails(v) \/ (v \in Requests /\ RequestRefused(v))
  <2>1. UNCHANGED besidesWalk /\ UNCHANGED queueVars /\ (Over(v, "failed") \/ Over(v, "done"))
    BY <1>8 DEF WalkFails, RequestRefused
  <2>2. LimitKept'
    BY <1>1, <1>4, <2>1 DEF queueVars, Over, Goto
  <2> QED
    BY <1>3, <2>1, <2>2
<1>9. CASE WalkEnsures(v)
  <2>1. /\ Over(v, "done") /\ ensureWorker(wpc)
        /\ UNCHANGED <<sessionVars, cacheVars, queueVars, activeVars, group, reading, disk>>
    BY <1>9 DEF WalkEnsures
  <2>2. \A w \in Workers : wpc[w] \in Transferring \/ wpc'[w] \in Transferring => wpc'[w] = wpc[w]
    <3>1. wpc \in [Workers -> Running \cup {"off", "again"}]
      BY DEF WorkerInvariant, WorkerTypeOK
    <3> QED
      BY <2>1, <3>1 DEF ensureWorker, FreeWorkers, Transferring
  <2>3. Reservations'
    BY <2>1, <2>2 DEF Reservations, Held, ActiveBytes, Bytes, sessionVars, cacheVars, queueVars, activeVars
  <2>4. \A t \in Scans : /\ pc'[t] = "off" => pc[t] = "off"
                         /\ Counts(t)' => Counts(t) /\ walk'[t].reserved = walk[t].reserved
    BY <1>1, <2>1 DEF Over, Goto, Counts, Walkers
  <2>5. cachedBytes' + reservedCacheBytes' <= cachedBytes + reservedCacheBytes
    BY <1>1, <2>1 DEF cacheVars, queueVars
  <2>6. LimitKept'
    BY <2>4, <2>5, LimitStays
  <2> QED
    BY <2>3, <2>6
<1>10. CASE v \in Scans /\ ScanStart(v)
  <2>1. UNCHANGED besidesWalk /\ UNCHANGED queueVars /\ Goto(v, "walk") /\ walk' = [walk EXCEPT ![v].reserved = cachedBytes + reservedCacheBytes]
        /\ pc[v] = "start"
    BY <1>10 DEF ScanStart
  <2>2. walk'[v].reserved = cachedBytes + reservedCacheBytes
    BY <1>1, <2>1 DEF Walks
  <2>3. cachedBytes' = cachedBytes /\ reservedCacheBytes' = reservedCacheBytes
    BY <2>1 DEF besidesWalk, cacheVars, queueVars
  <2>4. \A t \in Scans : pc'[t] = "off" => pc[t] = "off"
    BY <1>1, <2>1 DEF Goto, Walkers
  <2>5. (\A t \in Scans : pc'[t] = "off") => cachedBytes' + reservedCacheBytes' <= CacheLimit
    BY <2>3, <2>4 DEF LimitKept
  <2>6. ASSUME NEW s \in Scans, \A t \in Scans \ {s} : pc'[t] = "off"
        PROVE  /\ cachedBytes' + reservedCacheBytes' <= CacheLimit
               /\ Counts(s)' => cachedBytes' + reservedCacheBytes' <= walk'[s].reserved
    <3>1. s = v
      BY <1>1, <1>10, <2>1, <2>6 DEF Goto
    <3>2. cachedBytes + reservedCacheBytes <= CacheLimit
      BY <2>4, <2>6 DEF LimitKept
    <3> QED
      BY <1>1, <2>2, <2>3, <3>1, <3>2
  <2>7. LimitKept'
    BY <2>5, <2>6 DEF LimitKept
  <2> QED
    BY <1>3, <2>1, <2>7
\* A step that queues an item, or finds it queued.
<1>11. ASSUME NEW i \in Items, enqueueLocked(i), UNCHANGED besidesWalk, i.cache => cacheDir PROVE Reservations'
  <2>1. /\ reservedCacheBytes' - QueuedBytes(queue') = reservedCacheBytes - QueuedBytes(queue)
        /\ ~i.cache => reservedCacheBytes' = reservedCacheBytes
    BY <1>11, Enqueued DEF Typed
  <2>2. session = "stopped" /\ stopPc = "idle" => reservedCacheBytes' <= reservedCacheBytes
    BY <1>1, <1>11, <2>1 DEF Reservations
  <2>3. cachedBytes' <= cachedBytes /\ UNCHANGED TransferFrame
    BY <1>1, <1>11 DEF besidesWalk, cacheVars, sessionVars, workerVars, activeVars, TransferFrame
  <2> QED
    BY <2>1, <2>2, <2>3, ReservationsKept
<1>12. CASE v \in Requests /\ RequestFile(v)
  <2> DEFINE f == Head(walk[v].entries)
  <2>1. f \in Files /\ walk[v].root \in Files \cup Dirs /\ walk[v].dest \in Dests
    BY <1>12 DEF RequestFile, AtFile, Typed, WalksTyped, Walking
  <2>2. enqueueLocked(ManualItem(f, walk[v].dest, walk[v].root)) /\ UNCHANGED besidesWalk /\ UNCHANGED pc
        /\ \A u \in Walkers \ {v} : walk'[u] = walk[u]
    BY <1>1, <1>12 DEF RequestFile
  <2> HIDE DEF f
  <2>3. PICK i \in Items : i = ManualItem(f, walk[v].dest, walk[v].root) /\ ~i.cache
    BY <2>1, ManualItemTyped
  <2>4. Reservations'
    BY <1>11, <2>2, <2>3
  <2>5. reservedCacheBytes' = reservedCacheBytes
    BY <2>2, <2>3, Enqueued DEF Typed
  <2>6. LimitKept'
    BY <1>2, <1>4, <1>12, <2>2, <2>5
  <2> QED
    BY <2>4, <2>6
<1>13. CASE v \in Requests /\ RequestStat(v)
  <2>1. walk[v].root \in Files \cup Dirs /\ walk[v].dest \in Dests /\ UNCHANGED besidesWalk
    BY <1>13 DEF RequestStat, Typed, WalksTyped, Walking
  <2>2. \A u \in Walkers \ {v} : pc'[u] = pc[u] /\ walk'[u] = walk[u]
    BY <1>1, <1>13 DEF RequestStat, Goto
  <2>3. CASE walk[v].root \in Dirs
    <3>1. UNCHANGED queueVars
      BY <1>13, <2>3, TreeAssumption DEF RequestStat
    <3>2. LimitKept'
      BY <1>2, <1>4, <1>13, <2>1, <2>2, <3>1 DEF queueVars
    <3> QED
      BY <1>3, <2>1, <3>1, <3>2
  <2>4. CASE walk[v].root \in Files
    <3>1. enqueueLocked(ManualItem(walk[v].root, walk[v].dest, walk[v].root))
      BY <1>13, <2>4, TreeAssumption DEF RequestStat
    <3>2. PICK i \in Items : i = ManualItem(walk[v].root, walk[v].dest, walk[v].root) /\ ~i.cache
      BY <2>1, <2>4, ManualItemTyped
    <3>3. reservedCacheBytes' = reservedCacheBytes
      BY <3>1, <3>2, Enqueued DEF Typed
    <3>4. LimitKept'
      BY <1>2, <1>4, <1>13, <2>1, <2>2, <3>3
    <3> QED
      BY <1>11, <2>1, <3>1, <3>2, <3>4
  <2> QED
    BY <2>1, <2>3, <2>4
<1>14. CASE v \in Scans /\ ScanFile(v)
  <2> DEFINE f == Head(walk[v].entries)
  <2>1. f \in Files /\ pc[v] = "walk" /\ UNCHANGED besidesWalk
    BY <1>14 DEF ScanFile, AtFile
  <2>2. CASE Skips(v, f)
    <3>1. UNCHANGED queueVars
      BY <1>14, <2>2 DEF ScanFile
    <3>2. Over(v, "done") \/ (UNCHANGED pc /\ walk' = [walk EXCEPT ![v].entries = Tail(walk[v].entries)])
      BY <1>14, <2>2 DEF ScanFile
    <3>3. CASE Over(v, "done")
      <4>1. LimitKept'
        BY <1>1, <1>4, <2>1, <3>1, <3>3 DEF queueVars, Over, Goto
      <4> QED
        BY <1>3, <2>1, <3>1, <4>1
    <3>4. CASE UNCHANGED pc /\ walk' = [walk EXCEPT ![v].entries = Tail(walk[v].entries)]
      <4>1. walk'[v].reserved = walk[v].reserved /\ \A u \in Walkers \ {v} : walk'[u] = walk[u]
        BY <1>1, <3>4 DEF Walks
      <4>2. LimitKept'
        BY <1>1, <1>4, <2>1, <3>1, <3>4, <4>1 DEF queueVars
      <4> QED
        BY <1>3, <2>1, <3>1, <4>2
    <3> QED
      BY <3>2, <3>3, <3>4
  <2>3. CASE ~Skips(v, f)
    <3>1. /\ enqueueLocked(CacheItem(f)) /\ UNCHANGED pc /\ cacheDir
          /\ walk' = [walk EXCEPT ![v].entries = Tail(walk[v].entries), ![v].reserved = walk[v].reserved + Size[f]]
          /\ ~(walk[v].reserved + Size[f] > CacheLimit)
      BY <1>14, <2>3 DEF ScanFile, Skips, OverLimit
    <3>2. walk'[v].reserved = walk[v].reserved + Size[f]
      BY <1>1, <3>1 DEF Walks
    <3> HIDE DEF f
    <3>3. PICK i \in Items : i = CacheItem(f)
      BY <2>1, CacheItemTyped DEF Typed
    <3>4. Size[f] \in Nat /\ Bytes(i) = Size[f]
      <4>1. i.path = f /\ i.cache
        BY <3>3 DEF CacheItem
      <4> QED
        BY <2>1, <4>1, TreeAssumption DEF Bytes
    <3>5. reservedCacheBytes' <= reservedCacheBytes + Size[f] /\ reservedCacheBytes' \in Nat /\ cachedBytes' = cachedBytes
      <4>1. reservedCacheBytes' <= reservedCacheBytes + Bytes(i) /\ QueueTyped'
        BY <3>1, <3>3, Enqueued DEF Typed
      <4> QED
        BY <2>1, <3>4, <4>1 DEF QueueTyped, besidesWalk, cacheVars
    <3>6. Reservations'
      BY <1>11, <2>1, <3>1, <3>3
    <3>7. ASSUME NEW s \in Scans, \A t \in Scans \ {s} : pc'[t] = "off"
          PROVE  /\ cachedBytes' + reservedCacheBytes' <= CacheLimit
                 /\ Counts(s)' => cachedBytes' + reservedCacheBytes' <= walk'[s].reserved
      <4>1. s = v /\ Counts(v)
        BY <1>14, <2>1, <3>1, <3>7 DEF Counts
      <4>2. cachedBytes + reservedCacheBytes <= walk[v].reserved
        BY <1>14, <3>1, <3>7, <4>1 DEF LimitKept
      <4> QED
        BY <1>1, <1>2, <3>1, <3>2, <3>4, <3>5, <4>1, <4>2
    <3>8. LimitKept'
      BY <1>14, <2>1, <3>1, <3>7 DEF LimitKept
    <3> QED
      BY <3>6, <3>8
  <2> QED
    BY <2>2, <2>3
<1> QED
  BY <1>5, <1>6, <1>7, <1>8, <1>9, <1>10, <1>12, <1>13, <1>14 DEF WalkSteps, WalkGranted, WalkErrs

\* A worker that moves without taking up or giving up an item leaves the counts alone.
LEMMA WorkerKeepsBytes ==
    ASSUME BytesInv,
           UNCHANGED <<session, stopPc, cacheDir, cacheVars, queueVars, item, activeItem, walkVars>>,
           \A x \in Workers : wpc'[x] \in Transferring <=> wpc[x] \in Transferring
    PROVE  Reservations' /\ LimitKept'
<1>1. Reservations'
  BY DEF BytesInv, Reservations, Held, ActiveBytes, Bytes, cacheVars, queueVars
<1>2. LimitKept'
  BY LimitUnmoved DEF BytesInv, cacheVars, queueVars
<1> QED
  BY <1>1, <1>2

LEMMA WorkersKeepBytes ==
    ASSUME BytesInv, Typed', NEW w \in Workers, WorkerSteps(w) \/ TransferLands(w) \/ TransferErrs(w)
    PROVE  Reservations' /\ LimitKept'
<1> USE DEF BytesInv
<1>1. wpc \in [Workers -> Running \cup {"off", "again"}] /\ reservedCacheBytes \in Nat /\ cachedBytes \in Nat
  BY DEF Typed, WorkersTyped, QueueTyped, CacheTyped
<1>2. ASSUME NEW place, MoveWorker(w, place), place \in Transferring <=> wpc[w] \in Transferring
      PROVE  Reservations' /\ LimitKept'
  <2>1. \A x \in Workers : wpc'[x] \in Transferring <=> wpc[x] \in Transferring
    BY <1>1, <1>2 DEF MoveWorker
  <2> QED
    BY <1>2, <2>1, WorkerKeepsBytes DEF MoveWorker, sessionVars, activeVars
<1>3. CASE WorkerLoop(w)
  BY <1>2, <1>3 DEF WorkerLoop, Transferring
<1>4. CASE WorkerIdle(w) \/ TransferSkips(w) \/ TransferStarts(w) \/ TransferLands(w) \/ TransferCanceled(w)
           \/ TransferErrs(w)
  BY <1>2, <1>4 DEF WorkerIdle, TransferSkips, TransferStarts, TransferLands, TransferCanceled, TransferErrs,
       Transferring
<1>5. CASE WorkerEnds(w)
  <2>1. \A x \in Workers : wpc'[x] \in Transferring <=> wpc[x] \in Transferring
    BY <1>1, <1>5 DEF WorkerEnds, Transferring
  <2> QED
    BY <1>5, <2>1, WorkerKeepsBytes DEF WorkerEnds, sessionVars, activeVars
<1>6. CASE NoSession(w)
  <2>1. \A x \in Workers : wpc'[x] \in Transferring <=> wpc[x] \in Transferring
    BY <1>1, <1>6 DEF NoSession, Transferring
  <2> QED
    BY <1>6, <2>1, WorkerKeepsBytes DEF NoSession, sessionVars, activeVars
<1>7. CASE WorkerAgain(w)
  <2>1. \A x \in Workers : wpc'[x] \in Transferring <=> wpc[x] \in Transferring
    BY <1>1, <1>7 DEF WorkerAgain, ensureWorker, FreeWorkers, Transferring
  <2> QED
    BY <1>7, <2>1, WorkerKeepsBytes DEF WorkerAgain, sessionVars, activeVars
\* The counts say nothing of the session that a transfer of the worker could not say.
<1>8. wpc[w] \in Transferring => session = "live" \/ (session = "stopped" /\ stopPc = "draining")
  BY DEF WorkerInvariant, QuietBeforeStart, StopWaitsForWorker, Transferring, Running, Typed, SessionTyped
<1>9. QueuedBytes(queue) \in Nat /\ ActiveBytes \in Nat /\ Held = QueuedBytes(queue) + ActiveBytes
  BY HeldTyped DEF Held
<1>10. CASE WorkerPop(w)
  <2>1. /\ wpc[w] = "pop" /\ queue' = Tail(queue) /\ activeItem' = Head(queue) /\ queue # <<>>
        /\ wpc' = [wpc EXCEPT ![w] = "transfer"] /\ item' = [item EXCEPT ![w] = Head(queue)]
        /\ UNCHANGED <<session, stopPc, cacheDir, cachedBytes, reservedCacheBytes, walkVars>>
    BY <1>10 DEF WorkerPop, sessionVars, cacheVars
  <2>2. \A x \in Workers \ {w} : wpc[x] \notin Transferring
    BY <2>1 DEF WorkerInvariant, OneWorker, Running, Transferring
  <2>3. activeItem = None
    BY <2>1, <2>2 DEF Reservations, Transferring
  <2>4. /\ Head(queue) \in Items /\ Tail(queue) \in Seq(Items)
        /\ QueuedBytes(queue) = QueuedBytes(Tail(queue)) + Bytes(Head(queue))
    BY <2>1, BytesPopped DEF Typed, QueueTyped
  <2>5. /\ \A x \in Workers : wpc'[x] \in Transferring => activeItem' = item'[x]
        /\ wpc'[w] \in Transferring
    BY <1>1, <2>1, <2>2 DEF Typed, WorkersTyped, Transferring
  <2>6. Held' = Held
    <3>1. ActiveBytes = 0
      BY <2>3 DEF ActiveBytes
    <3>2. ActiveBytes' = Bytes(Head(queue))
      BY <2>1, <2>4, ItemsAssumption DEF ActiveBytes, Bytes
    <3>3. QueuedBytes(queue') = QueuedBytes(Tail(queue))
      BY <2>1
    <3>4. QueuedBytes(Tail(queue)) \in Nat /\ Bytes(Head(queue)) \in Nat
      BY <2>4, BytesFinite, ItemBytes DEF QueuedBytes
    <3> QED
      BY <1>9, <2>4, <3>1, <3>2, <3>3, <3>4 DEF Held
  <2>7. Reservations'
    BY <2>1, <2>5, <2>6 DEF Reservations
  <2> QED
    BY <2>1, <2>7, LimitUnmoved
<1>11. CASE WorkerFinishes(w)
  <2> DEFINE i == item[w]
  <2>1. /\ wpc[w] \in Transferring /\ activeItem' = None /\ reservedCacheBytes' = Unreserve(Released(w))
        /\ wpc' = [wpc EXCEPT ![w] = "loop"]
        /\ UNCHANGED <<session, stopPc, cacheDir, queue, walkVars>>
        /\ \/ i.cache /\ cachedBytes' = cachedBytes + Size[i.path]
           \/ cachedBytes' = cachedBytes
    BY <1>11 DEF WorkerFinishes, Transferring, sessionVars, cacheVars
  <2>2. i \in Items /\ i = activeItem /\ i # None
    BY <2>1, ItemsAssumption DEF Typed, WorkersTyped, Reservations
  <2>3. Size[i.path] \in Nat /\ Bytes(i) \in Nat /\ Released(w) = Bytes(i) /\ ActiveBytes = Bytes(i)
    BY <2>2, ItemBytes DEF Released, Bytes, ActiveBytes
  <2>4. i.cache => Bytes(i) = Size[i.path]
    BY DEF Bytes
  <2> HIDE DEF i
  <2>5. reservedCacheBytes >= Held
    BY <1>1, <1>8, <1>9, <2>1 DEF Reservations
  <2>6. reservedCacheBytes' = reservedCacheBytes - Bytes(i)
    BY <1>1, <1>9, <2>1, <2>3, <2>5 DEF Unreserve
  <2>7. Held' = QueuedBytes(queue)
    <3>1. ActiveBytes' = 0
      BY <2>1 DEF ActiveBytes
    <3>2. QueuedBytes(queue') = QueuedBytes(queue)
      BY <2>1
    <3> QED
      BY <1>9, <3>1, <3>2 DEF Held
  <2>8. \A x \in Workers : wpc'[x] \notin Transferring
    BY <1>1, <2>1 DEF WorkerInvariant, OneWorker, Running, Transferring
  <2>9. /\ session # "stopped" => reservedCacheBytes' = Held'
        /\ session = "stopped" /\ stopPc = "draining" => reservedCacheBytes' >= Held'
    BY <1>1, <1>9, <2>3, <2>5, <2>6, <2>7 DEF Reservations
  <2>10. Reservations'
    BY <1>8, <2>1, <2>8, <2>9 DEF Reservations
  <2>11. cachedBytes' + reservedCacheBytes' <= cachedBytes + reservedCacheBytes
    BY <1>1, <2>1, <2>3, <2>4, <2>6
  <2>12. \A t \in Scans : /\ pc'[t] = "off" => pc[t] = "off"
                          /\ Counts(t)' => Counts(t) /\ walk'[t].reserved = walk[t].reserved
    BY <2>1 DEF walkVars, Counts
  <2>13. LimitKept'
    BY <2>11, <2>12, LimitStays
  <2> QED
    BY <2>10, <2>13
<1> QED
  BY <1>3, <1>4, <1>5, <1>6, <1>7, <1>10, <1>11 DEF WorkerSteps

LEMMA SumsFall ==
    ASSUME NEW a \in Nat, NEW b \in Nat, NEW c \in Nat, NEW d \in Nat, c <= a, d <= b
    PROVE  c + d <= a + b
OBVIOUS

LEMMA CallsKeepBytes ==
    ASSUME BytesInv, Typed', Api \/ CallerSteps
    PROVE  Reservations' /\ LimitKept'
<1> USE DEF BytesInv
<1>0. /\ reservedCacheBytes \in Nat /\ cachedBytes \in Nat /\ reservedCacheBytes' \in Nat /\ cachedBytes' \in Nat
  BY DEF Typed, QueueTyped, CacheTyped
<1>1. /\ reservedCacheBytes \in Nat /\ cachedBytes \in Nat /\ session \in {"new", "live", "stopped"}
      /\ pc \in [Walkers -> Walking \cup {"off", "done", "failed"}]
      /\ QueuedBytes(queue) \in Nat /\ ActiveBytes \in Nat /\ Held = QueuedBytes(queue) + ActiveBytes
  BY HeldTyped DEF Typed, QueueTyped, CacheTyped, SessionTyped, WalksTyped, Held
<1>2. ASSUME UNCHANGED walkVars, cachedBytes' + reservedCacheBytes' <= cachedBytes + reservedCacheBytes
      PROVE  LimitKept'
  <2>1. \A t \in Scans : /\ pc'[t] = "off" => pc[t] = "off"
                         /\ Counts(t)' => Counts(t) /\ walk'[t].reserved = walk[t].reserved
    BY <1>2 DEF walkVars, Counts
  <2> QED
    BY <1>2, <2>1, LimitStays
<1>3. ASSUME UNCHANGED <<wpc, item, activeItem>>
      PROVE  /\ ActiveBytes' = ActiveBytes
             /\ \A x \in Workers : wpc'[x] \in Transferring => activeItem' = item'[x]
             /\ activeItem' # None => \E x \in Workers : wpc'[x] \in Transferring
  BY <1>3 DEF ActiveBytes, Bytes, Reservations
<1>4. CASE StartSession
  <2>1. /\ session = "new" /\ session' = "live"
        /\ UNCHANGED <<queue, reservedCacheBytes, cachedBytes, wpc, item, activeItem, walkVars>>
    BY <1>4 DEF StartSession, queueVars, cacheVars, workerVars, activeVars
  <2>2. Held' = Held
    BY <1>3, <2>1 DEF Held
  <2>3. Reservations'
    BY <1>3, <2>1, <2>2 DEF Reservations
  <2> QED
    BY <2>1, <2>3, LimitUnmoved
<1>5. CASE StopSession
  <2>1. /\ session = "live" /\ session' = "stopped" /\ stopPc' = "draining" /\ queue' = <<>>
        /\ UNCHANGED <<reservedCacheBytes, cachedBytes, wpc, item, activeItem, walkVars>>
    BY <1>5 DEF StopSession, cacheVars, workerVars
  <2>2. Held' = ActiveBytes
    <3>1. QueuedBytes(queue') = 0
      <4>1. BytesAt(queue', DOMAIN queue') = {}
        BY <2>1 DEF BytesAt
      <4> QED
        BY <4>1, FS_EmptySet DEF QueuedBytes
    <3> QED
      BY <1>1, <1>3, <2>1, <3>1 DEF Held
  <2>3. reservedCacheBytes' >= Held'
    BY <1>1, <2>1, <2>2 DEF Reservations
  <2>4. Reservations'
    BY <1>3, <2>1, <2>3 DEF Reservations
  <2> QED
    BY <2>1, <2>4, LimitUnmoved
<1>6. CASE StopSessionDrained
  <2>1. /\ stopPc = "draining" /\ stopPc' = "idle" /\ reservedCacheBytes' = 0 /\ cachedBytes' = 0
        /\ cacheDir' = FALSE /\ UNCHANGED <<session, wpc, item, activeItem, walkVars>>
    BY <1>6 DEF StopSessionDrained, workerVars, activeVars
  <2>2. session = "stopped"
    BY <1>1, <2>1 DEF WorkerInvariant, QuietBeforeStart, LiveHasSession
  <2>3. Reservations'
    BY <1>3, <2>1, <2>2 DEF Reservations
  <2> QED
    BY <1>1, <1>2, <2>1, <2>3
\* Steps that leave the transfers alone.
<1>7. ASSUME UNCHANGED TransferFrame, UNCHANGED <<queue, reservedCacheBytes>>, cachedBytes' <= cachedBytes
      PROVE  Reservations'
  BY <1>1, <1>7, ReservationsKept
<1>8. ASSUME NEW s \in Scans, NEW d \in ScanRoots, StartAutomaticMediaCache(s, d)
      PROVE  Reservations' /\ LimitKept'
  <2>1. /\ queue' = KeptByRescan(queue) /\ reservedCacheBytes' = Unreserve(QueuedBytes(queue))
        /\ UNCHANGED TransferFrame /\ cachedBytes' = cachedBytes /\ pc[s] = "off"
    BY <1>8 DEF StartAutomaticMediaCache, cacheVars, workerVars, activeVars, TransferFrame
  <2>2. QueuedBytes(queue') = 0
    BY <2>1, RescanKeepsNoBytes DEF Typed, QueueTyped
  <2>3. reservedCacheBytes' <= reservedCacheBytes
    BY <1>1, <2>1 DEF Unreserve
  <2>4. session # "stopped" \/ stopPc = "draining" => reservedCacheBytes >= QueuedBytes(queue)
    BY <1>1 DEF Reservations
  <2>5. session # "stopped" \/ stopPc = "draining"
          => reservedCacheBytes' - QueuedBytes(queue') = reservedCacheBytes - QueuedBytes(queue)
    BY <1>1, <2>1, <2>2, <2>4 DEF Unreserve
  <2>6. Reservations'
    BY <1>1, <2>1, <2>3, <2>5, ReservationsKept
  <2>7. Over(s, "done") \/ (Goto(s, "start") /\ \A u \in Walkers \ {s} : walk'[u] = walk[u])
    <3>1. walk \in [Walkers -> Walks]
      BY DEF Typed, WalksTyped
    <3> QED
      BY <1>8, <3>1 DEF StartAutomaticMediaCache
  <2>8. \A u \in Walkers \ {s} : pc'[u] = pc[u] /\ walk'[u] = walk[u]
    <3>1. walk \in [Walkers -> Walks]
      BY DEF Typed, WalksTyped
    <3> QED
      BY <1>1, <2>7, <3>1 DEF Over, Goto
  <2>9. pc'[s] \in {"start", "done"}
    BY <1>1, <2>7 DEF Over, Goto, Walkers
  <2>10. \A t \in Scans : /\ pc'[t] = "off" => pc[t] = "off"
                          /\ Counts(t)' => Counts(t) /\ walk'[t].reserved = walk[t].reserved
    BY <2>8, <2>9 DEF Counts, Walkers
  <2>11. cachedBytes' + reservedCacheBytes' <= cachedBytes + reservedCacheBytes
    BY <1>0, <2>1, <2>3
  <2>12. LimitKept'
    BY <2>10, <2>11, LimitStays
  <2> QED
    BY <2>6, <2>12
<1>9. ASSUME NEW r \in Requests, NEW p \in RequestRoots, NEW d \in Dests, QueueIdleDownload(r, p, d)
      PROVE  Reservations' /\ LimitKept'
  <2>1. UNCHANGED TransferFrame /\ UNCHANGED <<queue, reservedCacheBytes, cachedBytes>>
    BY <1>9 DEF QueueIdleDownload, besidesWalk, sessionVars, queueVars, cacheVars, workerVars, activeVars, TransferFrame
  <2>2. \A t \in Scans : pc'[t] = pc[t] /\ walk'[t] = walk[t]
    <3>1. walk \in [Walkers -> Walks]
      BY DEF Typed, WalksTyped
    <3> QED
      BY <1>1, <1>9, <3>1, TreeAssumption DEF QueueIdleDownload, Goto, Walkers
  <2>3. LimitKept'
    BY <1>1, <2>1, <2>2, LimitStays DEF Counts
  <2> QED
    BY <1>1, <1>7, <2>1, <2>3
<1>10. ASSUME NEW p, cancelDownload(p), UNCHANGED TransferFrame, UNCHANGED walkVars, cachedBytes' = cachedBytes
       PROVE  Reservations' /\ LimitKept'
  <2>1. /\ reservedCacheBytes' <= reservedCacheBytes /\ reservedCacheBytes' \in Nat
        /\ reservedCacheBytes >= QueuedBytes(queue)
             => reservedCacheBytes' - QueuedBytes(queue') = reservedCacheBytes - QueuedBytes(queue)
    BY <1>10, Canceled DEF Typed, QueueTyped
  <2>2. session # "stopped" \/ stopPc = "draining" => reservedCacheBytes >= QueuedBytes(queue)
    BY <1>1 DEF Reservations
  <2>3. Reservations'
    BY <1>1, <1>10, <2>1, <2>2, ReservationsKept
  <2>4. reservedCacheBytes' <= reservedCacheBytes /\ cachedBytes' <= cachedBytes
    BY <1>0, <1>10, <2>1
  <2>5. cachedBytes' + reservedCacheBytes' <= cachedBytes + reservedCacheBytes
    BY <1>0, <2>4, SumsFall
  <2> QED
    BY <1>2, <1>10, <2>3, <2>5
<1>11. ASSUME NEW p \in Files, CancelDownload(p) PROVE Reservations' /\ LimitKept'
  BY <1>10, <1>11 DEF CancelDownload, sessionVars, cacheVars, workerVars, TransferFrame
<1>12. CASE GroupTarget
  BY <1>10, <1>12 DEF GroupTarget, sessionVars, cacheVars, workerVars, TransferFrame
<1>13. CASE \/ \E g \in GroupRoots : CancelGroup(g)
            \/ \E f \in Files : ReadCached(f)
            \/ GroupActive \/ ReadHit
  <2>1. UNCHANGED TransferFrame /\ UNCHANGED <<queue, reservedCacheBytes, cachedBytes, walkVars>>
    BY <1>13 DEF CancelGroup, ReadCached, GroupActive, ReadHit, sessionVars, queueVars, cacheVars, workerVars,
         activeVars, TransferFrame
  <2> QED
    BY <1>1, <1>7, <2>1, LimitUnmoved
<1>14. CASE ReadEvicts
  <2>1. UNCHANGED TransferFrame /\ UNCHANGED <<queue, reservedCacheBytes>> /\ UNCHANGED walkVars
    BY <1>14 DEF ReadEvicts, sessionVars, queueVars, workerVars, activeVars, TransferFrame
  <2>2. cachedBytes' <= cachedBytes /\ cachedBytes' \in Nat
    <3>1. Size[reading.path] \in Nat
      BY <1>14, TreeAssumption DEF ReadEvicts, Typed, CallsTyped
    <3> QED
      BY <1>1, <1>14, <3>1 DEF ReadEvicts
  <2>3. cachedBytes' + reservedCacheBytes' <= cachedBytes + reservedCacheBytes
    <3>1. reservedCacheBytes' <= reservedCacheBytes
      BY <1>0, <2>1
    <3> QED
      BY <1>0, <2>2, <3>1, SumsFall
  <2> QED
    BY <1>2, <1>7, <2>1, <2>2, <2>3
<1> QED
  BY <1>4, <1>5, <1>6, <1>8, <1>9, <1>11, <1>12, <1>13, <1>14 DEF Api, CallerSteps

LEMMA BytesInvNext == BytesInv /\ [Next]_vars => BytesInv'
<1> SUFFICES ASSUME BytesInv, [Next]_vars PROVE BytesInv'
  OBVIOUS
<1>1. Typed' /\ WorkerInvariant'
  BY TypedNext, WorkerInvariantNext DEF BytesInv
<1>2. ASSUME Api \/ CallerSteps PROVE Reservations' /\ LimitKept'
  BY <1>1, <1>2, CallsKeepBytes
<1>3. ASSUME NEW v \in Walkers, WalkSteps(v) \/ WalkGranted(v) \/ WalkErrs(v) PROVE Reservations' /\ LimitKept'
  BY <1>1, <1>3, WalksKeepBytes
<1>4. ASSUME NEW w \in Workers, WorkerSteps(w) \/ TransferLands(w) \/ TransferErrs(w)
      PROVE  Reservations' /\ LimitKept'
  BY <1>1, <1>4, WorkersKeepBytes
<1>5. ASSUME UNCHANGED vars PROVE Reservations' /\ LimitKept'
  <2>1. UNCHANGED <<session, stopPc, cacheDir, cacheVars, queueVars, item, activeItem, wpc>> /\ UNCHANGED walkVars
    BY <1>5 DEF vars, sessionVars, workerVars, activeVars
  <2> QED
    BY <2>1, WorkerKeepsBytes
<1>6. Reservations' /\ LimitKept'
  BY <1>2, <1>3, <1>4, <1>5 DEF Next
<1> QED
  BY <1>1, <1>6 DEF BytesInv

\* While the session lives, what is held back of the cache limit is to the byte what the
\* cache items still queued or in transfer need, for any interleaving of landings, failures,
\* cancellations and new scans: no release is lost, doubled or clamped.
THEOREM ReservationsStayExact == Spec => []ReservationsExact
<1>1. BytesInv => ReservationsExact
  BY DEF BytesInv, Reservations, Held, ActiveBytes, Bytes, ReservationsExact
<1> QED
  BY <1>1, BytesInvInit, BytesInvNext, PTL DEF Spec

\* As long as one scan was started, what it queues fits the limit together with what is
\* cached, although it counts in a total of its own that it read when it started.
THEOREM OneScanStaysWithinLimit == Spec => []OneScanWithinLimit
<1>1. ASSUME BytesInv, Cardinality({s \in Scans : pc[s] # "off"}) <= 1
      PROVE  cachedBytes + reservedCacheBytes <= CacheLimit
  <2> DEFINE S == {s \in Scans : pc[s] # "off"}
  <2>1. IsFiniteSet(S)
    BY TreeAssumption, FS_Subset
  <2>2. CASE S = {}
    <3>1. \A t \in Scans : pc[t] = "off"
      BY <2>2
    <3> QED
      BY <1>1, <3>1 DEF BytesInv, LimitKept
  <2>3. CASE S # {}
    <3>1. PICK s \in S : TRUE
      BY <2>3
    <3>2. S = {s}
      <4> HIDE DEF S
      <4>1. IsFiniteSet(S \ {s}) /\ Cardinality(S \ {s}) = Cardinality(S) - 1
        BY <2>1, <3>1, FS_RemoveElement
      <4>2. Cardinality(S) \in Nat /\ Cardinality(S) <= 1
        BY <1>1, <2>1, FS_CardinalityType DEF S
      <4>3. Cardinality(S \ {s}) \in Nat
        BY <4>1, FS_CardinalityType
      <4>4. Cardinality(S \ {s}) = 0
        BY <4>1, <4>2, <4>3
      <4>5. S \ {s} = {}
        BY <4>1, <4>4, FS_EmptySet
      <4> QED
        BY <3>1, <4>5
    <3>3. s \in Scans /\ \A t \in Scans \ {s} : pc[t] = "off"
      BY <3>1, <3>2
    <3> QED
      BY <1>1, <3>3 DEF BytesInv, LimitKept
  <2> QED
    BY <2>2, <2>3
<1>2. BytesInv => OneScanWithinLimit
  BY <1>1 DEF OneScanWithinLimit
<1> QED
  BY <1>2, BytesInvInit, BytesInvNext, PTL DEF Spec
-----------------------------------------------------------------------------
(* The queue and the destinations of its items, from step to step.          *)

\* A cache item lands in the cache directory.
Placed(i) == i.cache => i.local.dir = "cache"

Queued(i) == i \in Items /\ Placed(i) /\ queue' = Append(queue, i)

Dropped(p) == Cancels(p) /\ queue' = ItemsAt(queue, {k \in DOMAIN queue : queue[k].path # p})

Popped == queue # <<>> /\ queue' = Tail(queue) /\ activeItem' = Head(queue)

QueueStep ==
    \/ UNCHANGED queue
    \/ \E i \in Items : Queued(i)
    \/ \E p \in Files : Dropped(p)
    \/ Popped
    \/ queue' = KeptByRescan(queue)
    \/ session' = "stopped" /\ queue' = <<>>

LEMMA Queues ==
    ASSUME Typed, NEW i \in Items, Placed(i), enqueueLocked(i)
    PROVE  QueueStep
<1>1. queue' = queue \/ queue' = Append(queue, i)
  BY Enqueued DEF Typed
<1> QED
  BY <1>1 DEF QueueStep, Queued

\* There is no other way into the queue or out of it.
LEMMA QueueSteps ==
    ASSUME Typed, [Next]_vars
    PROVE  QueueStep
<1> USE DEF queueVars
<1>1. ASSUME NEW v \in Walkers, WalkSteps(v) \/ WalkGranted(v) \/ WalkErrs(v) PROVE QueueStep
  <2>1. CASE v \in Scans /\ ScanFile(v)
    <3> DEFINE f == Head(walk[v].entries)
    <3>1. CASE UNCHANGED queueVars
      BY <3>1 DEF QueueStep
    <3>2. CASE enqueueLocked(CacheItem(f))
      <4>1. f \in Files
        BY <2>1 DEF ScanFile, AtFile
      <4> HIDE DEF f
      <4>2. CacheItem(f) \in Items /\ Placed(CacheItem(f))
        BY <4>1, CacheItemTyped DEF Typed, CacheItem, CachePath, Placed
      <4> QED
        BY <3>2, <4>2, Queues
    <3> QED
      BY <2>1, <3>1, <3>2 DEF ScanFile
  <2>2. CASE v \in Requests /\ RequestFile(v)
    <3> DEFINE i == ManualItem(Head(walk[v].entries), walk[v].dest, walk[v].root)
    <3>1. i \in Items /\ ~i.cache
      BY <2>2, ManualItemTyped DEF RequestFile, AtFile, Typed, WalksTyped, Walking
    <3>2. enqueueLocked(i)
      BY <2>2 DEF RequestFile
    <3> HIDE DEF i
    <3> QED
      BY <3>1, <3>2, Queues DEF Placed
  <2>3. CASE v \in Requests /\ RequestStat(v)
    <3> DEFINE i == ManualItem(walk[v].root, walk[v].dest, walk[v].root)
    <3>1. CASE UNCHANGED queueVars
      BY <3>1 DEF QueueStep
    <3>2. CASE walk[v].root \in Files /\ enqueueLocked(i)
      <4>1. i \in Items /\ ~i.cache
        BY <2>3, <3>2, ManualItemTyped DEF RequestStat, Typed, WalksTyped, Walking
      <4> HIDE DEF i
      <4> QED
        BY <3>2, <4>1, Queues DEF Placed
    <3> QED
      BY <2>3, <3>1, <3>2 DEF RequestStat
  <2>4. CASE WalkWaits(v) \/ WalkDirectory(v) \/ WalkEnds(v) \/ WalkEnsures(v) \/ ReadDir(v) \/ WalkFails(v)
    BY <2>4 DEF WalkWaits, WalkDirectory, WalkEnds, WalkEnsures, ReadDir, WalkFails, QueueStep
  <2>5. CASE (v \in Scans /\ (ScanStart(v) \/ ScanRetires(v))) \/ (v \in Requests /\ RequestRefused(v))
    BY <2>5 DEF ScanStart, ScanRetires, RequestRefused, QueueStep
  <2> QED
    BY <1>1, <2>1, <2>2, <2>3, <2>4, <2>5 DEF WalkSteps, WalkGranted, WalkErrs
<1>2. ASSUME NEW w \in Workers, WorkerSteps(w) \/ TransferLands(w) \/ TransferErrs(w) PROVE QueueStep
  <2>1. CASE WorkerPop(w)
    BY <2>1 DEF WorkerPop, QueueStep, Popped
  <2>2. CASE WorkerLoop(w) \/ WorkerIdle(w) \/ TransferSkips(w) \/ TransferStarts(w) \/ TransferLands(w)
             \/ TransferCanceled(w) \/ TransferErrs(w)
    BY <2>2 DEF WorkerLoop, WorkerIdle, TransferSkips, TransferStarts, TransferLands, TransferCanceled,
         TransferErrs, MoveWorker, QueueStep
  <2>3. CASE NoSession(w) \/ WorkerFinishes(w) \/ WorkerEnds(w) \/ WorkerAgain(w)
    BY <2>3 DEF NoSession, WorkerFinishes, WorkerEnds, WorkerAgain, QueueStep
  <2> QED
    BY <1>2, <2>1, <2>2, <2>3 DEF WorkerSteps
<1>3. CASE StopSession
  BY <1>3 DEF StopSession, QueueStep
<1>4. CASE \E s \in Scans, d \in ScanRoots : StartAutomaticMediaCache(s, d)
  BY <1>4 DEF StartAutomaticMediaCache, QueueStep
<1>5. ASSUME NEW p \in Files, CancelDownload(p) PROVE QueueStep
  BY <1>5, Zenon DEF CancelDownload, cancelDownload, Cancels, Dropped, QueueStep
<1>6. CASE GroupTarget
  <2>1. Head(group.targets).path \in Files
    <3>1. group.targets \in Seq(Items) /\ group.targets # <<>>
      BY <1>6 DEF GroupTarget, Typed, CallsTyped
    <3>2. Head(group.targets) \in Items
      BY <3>1
    <3> QED
      BY <3>2 DEF Items
  <2> QED
    BY <1>6, <2>1, Zenon DEF GroupTarget, cancelDownload, Cancels, Dropped, QueueStep
<1>7. CASE StartSession \/ StopSessionDrained \/ GroupActive \/ ReadHit \/ ReadEvicts
  BY <1>7 DEF StartSession, StopSessionDrained, GroupActive, ReadHit, ReadEvicts, QueueStep
<1>8. CASE \E r \in Requests, p \in RequestRoots, d \in Dests : QueueIdleDownload(r, p, d)
  BY <1>8 DEF QueueIdleDownload, QueueStep
<1>9. CASE \E g \in GroupRoots : CancelGroup(g)
  BY <1>9 DEF CancelGroup, QueueStep
<1>10. CASE \E f \in Files : ReadCached(f)
  BY <1>10 DEF ReadCached, QueueStep
<1>11. CASE UNCHANGED vars
  BY <1>11 DEF vars, QueueStep
<1> QED
  BY <1>1, <1>2, <1>3, <1>4, <1>5, <1>6, <1>7, <1>8, <1>9, <1>10, <1>11 DEF Next, Api, CallerSteps

\* No scan, request, landing or failure takes a manual download out of the queue: it is
\* transferred, canceled by its path, or dropped by the stop.
THEOREM ManualDownloadsStay == Spec => ManualDownloadsKept
<1>1. ASSUME Typed, [Next]_vars, NEW i \in Manual(queue) \ Manual(queue')
      PROVE  activeItem' = i \/ session' = "stopped" \/ Cancels(i.path)
  <2>1. PICK k \in DOMAIN queue : ~queue[k].cache /\ i = queue[k]
    BY <1>1 DEF Manual
  <2>2. queue \in Seq(Items) /\ \A n \in DOMAIN queue' : queue'[n] # i
    BY <1>1, <2>1 DEF Typed, QueueTyped, Manual
  <2>3. QueueStep
    BY <1>1, QueueSteps
  <2>4. ASSUME NEW P \in SUBSET DOMAIN queue, queue' = ItemsAt(queue, P) PROVE k \notin P
    BY <2>1, <2>2, <2>4, ItemsAtAre
  <2>5. ASSUME NEW j \in Items, Queued(j) PROVE FALSE
    <3>1. k \in DOMAIN queue' /\ queue'[k] = queue[k]
      BY <2>1, <2>2, <2>5 DEF Queued
    <3> QED
      BY <2>1, <2>2, <3>1
  <2>6. ASSUME NEW p \in Files, Dropped(p) PROVE Cancels(i.path)
    <3>1. k \notin {n \in DOMAIN queue : queue[n].path # p} /\ Cancels(p)
      BY <2>4, <2>6 DEF Dropped
    <3>2. i.path = p
      BY <2>1, <3>1
    <3> QED
      BY <3>1, <3>2
  <2>7. ASSUME Popped PROVE activeItem' = i
    <3>1. CASE k = 1
      BY <2>1, <2>2, <2>7, <3>1 DEF Popped
    <3>2. CASE k # 1
      <4>1. k - 1 \in DOMAIN queue' /\ queue'[k - 1] = queue[k]
        BY <2>1, <2>2, <2>7, <3>2 DEF Popped
      <4> QED
        BY <2>1, <2>2, <4>1
    <3> QED
      BY <3>1, <3>2
  <2>8. ASSUME queue' = KeptByRescan(queue) PROVE FALSE
    <3>1. k \notin {n \in DOMAIN queue : ~queue[n].cache}
      BY <2>4, <2>8 DEF KeptByRescan
    <3> QED
      BY <2>1, <3>1
  <2>9. ASSUME UNCHANGED queue PROVE FALSE
    BY <2>1, <2>2, <2>9
  <2> QED
    BY <2>3, <2>5, <2>6, <2>7, <2>8, <2>9 DEF QueueStep
<1>2. Typed /\ [Next]_vars
        => [\A i \in Manual(queue) \ Manual(queue') :
              activeItem' = i \/ session' = "stopped" \/ Cancels(i.path)]_vars
  BY <1>1
<1> QED
  BY <1>2, TypedInit, TypedNext, PTL DEF Spec, ManualDownloadsKept

-----------------------------------------------------------------------------
(* Destinations.  Cache items land in the cache directory, and the          *)
(* destination of an idle download that is being fetched is still free:     *)
(* it was when the fetch began, and no other worker writes.                 *)

DestinationFree ==
    /\ \A k \in DOMAIN queue : Placed(queue[k])
    /\ \A w \in Workers : wpc[w] \in Transferring => Placed(item[w])
    /\ \A w \in Workers : wpc[w] = "fetch" /\ ~item[w].cache => disk[item[w].local] = None

DestInv == Typed /\ WorkerInvariant /\ DestinationFree

LEMMA PlacedStays ==
    ASSUME DestInv, [Next]_vars
    PROVE  \A k \in DOMAIN queue' : Placed(queue'[k])
<1>1. QueueStep /\ queue \in Seq(Items) /\ \A k \in DOMAIN queue : Placed(queue[k])
  BY QueueSteps DEF DestInv, Typed, QueueTyped, DestinationFree
<1>2. ASSUME NEW P \in SUBSET DOMAIN queue, queue' = ItemsAt(queue, P)
      PROVE  \A k \in DOMAIN queue' : Placed(queue'[k])
  <2>1. \A n \in DOMAIN queue' : \E k \in P : queue'[n] = queue[k]
    BY <1>1, <1>2, ItemsAtAre
  <2> QED
    BY <1>1, <2>1
<1>3. ASSUME NEW i \in Items, Queued(i) PROVE \A k \in DOMAIN queue' : Placed(queue'[k])
  BY <1>1, <1>3 DEF Queued
<1>4. ASSUME NEW p \in Files, Dropped(p) PROVE \A k \in DOMAIN queue' : Placed(queue'[k])
  BY <1>2, <1>4 DEF Dropped
<1>5. ASSUME Popped PROVE \A k \in DOMAIN queue' : Placed(queue'[k])
  BY <1>1, <1>5 DEF Popped
<1>6. ASSUME queue' = KeptByRescan(queue) PROVE \A k \in DOMAIN queue' : Placed(queue'[k])
  BY <1>2, <1>6 DEF KeptByRescan
<1>7. ASSUME queue' = <<>> PROVE \A k \in DOMAIN queue' : Placed(queue'[k])
  BY <1>7
<1>8. ASSUME UNCHANGED queue PROVE \A k \in DOMAIN queue' : Placed(queue'[k])
  BY <1>1, <1>8
<1> QED
  BY <1>1, <1>3, <1>4, <1>5, <1>6, <1>7, <1>8 DEF QueueStep

\* Whoever only moves on, and takes at most files away.
LEMMA DestinationStays ==
    ASSUME DestInv, UNCHANGED item, \A w \in Workers : wpc'[w] \in Transferring => wpc'[w] = wpc[w],
           \A l \in Locals : disk[l] = None => disk'[l] = None,
           \A k \in DOMAIN queue' : Placed(queue'[k])
    PROVE  DestinationFree'
<1>1. \A w \in Workers : wpc[w] \in Transferring => item[w].local \in Locals
  BY DEF DestInv, Typed, WorkersTyped, Items
<1>2. \A w \in Workers : wpc'[w] \in Transferring => Placed(item'[w])
  BY DEF DestInv, DestinationFree, Placed
<1>3. \A w \in Workers : wpc'[w] = "fetch" /\ ~item'[w].cache => disk'[item'[w].local] = None
  BY <1>1 DEF DestInv, DestinationFree, Transferring
<1> QED
  BY <1>2, <1>3 DEF DestinationFree

LEMMA WorkersKeepDestinations ==
    ASSUME DestInv, NEW w \in Workers, WorkerSteps(w) \/ TransferLands(w) \/ TransferErrs(w),
           \A k \in DOMAIN queue' : Placed(queue'[k])
    PROVE  DestinationFree'
<1> USE DEF DestInv, Transferring
<1>1. wpc \in [Workers -> Running \cup {"off", "again"}] /\ item \in [Workers -> Items \cup {None}]
  BY DEF Typed, WorkersTyped
<1>2. \A x \in Workers : wpc[w] \in Running /\ x # w => wpc[x] \notin Transferring
  BY DEF WorkerInvariant, OneWorker, Running
<1>3. ASSUME NEW place, wpc[w] \in Transferring, MoveWorker(w, place),
             place = "fetch" /\ ~item[w].cache => disk'[item[w].local] = None
      PROVE  DestinationFree'
  <2>1. wpc' = [wpc EXCEPT ![w] = place] /\ item' = item
    BY <1>3 DEF MoveWorker, activeVars
  <2>2. \A x \in Workers : x # w => wpc'[x] \notin Transferring
    BY <1>1, <1>2, <1>3, <2>1 DEF Running
  <2>3. Placed(item'[w]) /\ wpc'[w] = place
    BY <1>1, <1>3, <2>1 DEF DestinationFree
  <2> QED
    BY <1>3, <2>1, <2>2, <2>3 DEF DestinationFree
<1>4. CASE TransferStarts(w)
  BY <1>3, <1>4 DEF TransferStarts, DestinationExists
<1>5. CASE TransferSkips(w) \/ TransferLands(w) \/ TransferCanceled(w) \/ TransferErrs(w)
  BY <1>3, <1>5 DEF TransferSkips, TransferLands, TransferCanceled, TransferErrs
<1>6. CASE WorkerPop(w)
  <2>1. /\ wpc' = [wpc EXCEPT ![w] = "transfer"] /\ item' = [item EXCEPT ![w] = Head(queue)]
        /\ wpc[w] \in Running /\ queue # <<>>
    BY <1>6 DEF WorkerPop, Running
  <2>2. \A x \in Workers : x # w => wpc'[x] \notin Transferring
    BY <1>1, <1>2, <2>1
  <2>3. Placed(Head(queue))
    BY <2>1 DEF DestinationFree, Typed, QueueTyped
  <2>4. wpc'[w] = "transfer" /\ item'[w] = Head(queue)
    BY <1>1, <2>1
  <2> QED
    BY <2>2, <2>3, <2>4 DEF DestinationFree
<1>7. CASE WorkerLoop(w) \/ WorkerIdle(w) \/ NoSession(w) \/ WorkerEnds(w)
  BY <1>1, <1>7, DestinationStays DEF WorkerLoop, WorkerIdle, NoSession, WorkerEnds, MoveWorker, activeVars
<1>8. CASE WorkerAgain(w)
  BY <1>1, <1>8, DestinationStays DEF WorkerAgain, ensureWorker, FreeWorkers, activeVars
<1>9. CASE WorkerFinishes(w)
  <2>1. wpc' = [wpc EXCEPT ![w] = "loop"] /\ wpc[w] \in Running
    BY <1>9 DEF WorkerFinishes, Running
  <2>2. \A x \in Workers : wpc'[x] \notin Transferring
    BY <1>1, <1>2, <2>1
  <2> QED
    BY <2>2 DEF DestinationFree
<1> QED
  BY <1>4, <1>5, <1>6, <1>7, <1>8, <1>9 DEF WorkerSteps

\* A call moves no worker and writes no file, except that the stop empties the cache directory.
LEMMA CallsKeepWorkers ==
    ASSUME Api \/ CallerSteps, ~StopSessionDrained
    PROVE  UNCHANGED disk /\ UNCHANGED item /\ UNCHANGED wpc
<1> USE DEF workerVars, activeVars, besidesWalk
<1>1. CASE StartSession \/ StopSession \/ GroupTarget \/ GroupActive \/ ReadHit \/ ReadEvicts
  BY <1>1 DEF StartSession, StopSession, GroupTarget, GroupActive, ReadHit, ReadEvicts
<1>2. CASE \E s \in Scans, d \in ScanRoots : StartAutomaticMediaCache(s, d)
  BY <1>2 DEF StartAutomaticMediaCache
<1>3. CASE \E r \in Requests, p \in RequestRoots, d \in Dests : QueueIdleDownload(r, p, d)
  BY <1>3 DEF QueueIdleDownload
<1>4. CASE \E p \in Files : CancelDownload(p)
  BY <1>4 DEF CancelDownload
<1>5. CASE \E g \in GroupRoots : CancelGroup(g)
  BY <1>5 DEF CancelGroup
<1>6. CASE \E f \in Files : ReadCached(f)
  BY <1>6 DEF ReadCached
<1> QED
  BY <1>1, <1>2, <1>3, <1>4, <1>5, <1>6 DEF Api, CallerSteps

LEMMA DestInvNext == DestInv /\ [Next]_vars => DestInv'
<1> SUFFICES ASSUME DestInv, [Next]_vars PROVE DestInv'
  OBVIOUS
<1>1. Typed' /\ WorkerInvariant' /\ \A k \in DOMAIN queue' : Placed(queue'[k])
  BY TypedNext, WorkerInvariantNext, PlacedStays DEF DestInv
<1>2. ASSUME NEW w \in Workers, WorkerSteps(w) \/ TransferLands(w) \/ TransferErrs(w) PROVE DestinationFree'
  BY <1>1, <1>2, WorkersKeepDestinations
<1>3. ASSUME UNCHANGED <<item, wpc, disk>> PROVE DestinationFree'
  BY <1>1, <1>3, DestinationStays
<1>4. ASSUME NEW v \in Walkers, WalkSteps(v) \/ WalkGranted(v) \/ WalkErrs(v) PROVE DestinationFree'
  <2>1. CASE WalkEnsures(v)
    <3>1. wpc \in [Workers -> Running \cup {"off", "again"}]
      BY DEF DestInv, Typed, WorkersTyped
    <3>2. \A w \in Workers : wpc'[w] \in Transferring => wpc'[w] = wpc[w]
      BY <2>1, <3>1 DEF WalkEnsures, ensureWorker, FreeWorkers, Transferring
    <3> QED
      BY <1>1, <2>1, <3>2, DestinationStays DEF WalkEnsures, activeVars
  <2>2. CASE ~WalkEnsures(v)
    <3>1. UNCHANGED besidesWalk
      BY <1>4, <2>2 DEF WalkSteps, WalkGranted, WalkErrs, WalkWaits, WalkDirectory, WalkEnds, ReadDir, WalkFails,
           ScanStart, ScanFile, ScanRetires, RequestStat, RequestFile, RequestRefused
    <3> QED
      BY <1>3, <3>1 DEF besidesWalk, workerVars, activeVars
  <2> QED
    BY <2>1, <2>2
<1>5. ASSUME StopSessionDrained PROVE DestinationFree'
  BY <1>1, <1>5, DestinationStays DEF StopSessionDrained, workerVars, activeVars
<1>6. ASSUME Api \/ CallerSteps, ~StopSessionDrained PROVE DestinationFree'
  <2>1. UNCHANGED disk /\ UNCHANGED item /\ UNCHANGED wpc
    BY <1>6, CallsKeepWorkers
  <2> QED
    BY <1>3, <2>1
<1>7. ASSUME UNCHANGED vars PROVE DestinationFree'
  BY <1>3, <1>7 DEF vars, workerVars, activeVars
<1>8. DestinationFree'
  BY <1>2, <1>4, <1>5, <1>6, <1>7 DEF Next
<1> QED
  BY <1>1, <1>8 DEF DestInv

\* No step overwrites a file outside of the cache: an idle download skips a destination that
\* exists, and one it found free stays free until it lands, as the queue has one worker.
THEOREM DownloadsNeverOverwrite == Spec => NeverOverwrites
<1>1. Init => DestInv
  <2> SUFFICES ASSUME Init PROVE DestInv
    OBVIOUS
  <2>1. Typed /\ WorkerInvariant
    BY BytesInvInit DEF BytesInv
  <2>2. DestinationFree
    BY DEF Init, DestinationFree, Transferring
  <2> QED
    BY <2>1, <2>2 DEF DestInv
<1>2. ASSUME DestInv, [Next]_vars, NEW l \in Locals, l.dir # "cache", disk[l] # None
      PROVE  disk'[l] = disk[l]
  <2>1. CASE UNCHANGED disk
    BY <2>1
  <2>2. CASE StopSessionDrained
    BY <1>2, <2>2 DEF StopSessionDrained
  <2>3. ASSUME NEW w \in Workers, TransferLands(w) PROVE disk'[l] = disk[l]
    <3>1. disk' = [disk EXCEPT ![item[w].local] = item[w].path] /\ wpc[w] = "fetch"
      BY <2>3 DEF TransferLands
    <3>2. item[w].local # l
      BY <1>2, <3>1 DEF DestInv, DestinationFree, Placed, Transferring
    <3>3. disk \in [Locals -> Files \cup {None}]
      BY <1>2 DEF DestInv, Typed, CacheTyped
    <3> QED
      BY <3>1, <3>2, <3>3
  <2>4. ASSUME NEW v \in Walkers, WalkSteps(v) \/ WalkGranted(v) \/ WalkErrs(v) PROVE UNCHANGED disk
    BY <2>4 DEF WalkSteps, WalkGranted, WalkErrs, WalkWaits, WalkDirectory, WalkEnds, ReadDir, WalkFails, WalkEnsures,
         ScanStart, ScanFile, ScanRetires, RequestStat, RequestFile, RequestRefused, besidesWalk
  <2>5. ASSUME NEW w \in Workers, WorkerSteps(w) \/ TransferErrs(w) PROVE UNCHANGED disk
    BY <2>5 DEF WorkerSteps, NoSession, WorkerLoop, WorkerPop, WorkerIdle, TransferSkips, TransferStarts,
         TransferCanceled, WorkerFinishes, WorkerEnds, WorkerAgain, TransferErrs
  <2>6. ASSUME Api \/ CallerSteps, ~StopSessionDrained PROVE UNCHANGED disk
    BY <2>6, CallsKeepWorkers
  <2>7. ASSUME UNCHANGED vars PROVE UNCHANGED disk
    BY <2>7 DEF vars
  <2> QED
    BY <1>2, <2>1, <2>2, <2>3, <2>4, <2>5, <2>6, <2>7 DEF Next
<1>3. DestInv /\ [Next]_vars
        => [\A l \in Locals : l.dir # "cache" /\ disk[l] # None => disk'[l] = disk[l]]_vars
  BY <1>2
<1> QED
  BY <1>1, <1>3, DestInvNext, PTL DEF Spec, NeverOverwrites
=============================================================================
