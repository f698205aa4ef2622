# A TLA+ model of SSH Studio

SSH Studio is a desktop application for working on a remote host over SSH: files,
terminals, tunnels, language servers, background downloads. The desktop program is
Electron: a main process (`src/main`) with one session manager per window, and a window
written with React (`src/renderer`). A Go backend (`server/`, run by Wails) mirrors the main
process. This directory holds TLA+ modules of the concurrent parts of all three, TLC
configurations that check them on small instances, and proofs of central invariants for
every value of the constants.

`PROJECT.json` maps every definition to the source lines it models and lists runs,
mutants, findings, hazards and theorems. Paths below are relative to the repository.

## Inventory

Components with state of their own, what they do, and what must hold. First the desktop
program, whose main process runs callbacks and awaits on one thread:

| Component | State | Operations | Hard behaviour | Correct when |
|---|---|---|---|---|
| Session lifecycle, `main/ssh-session.ts`, `main/index.ts` | the interactive, jump and auxiliary clients, sftp, `isClosing`, the state last emitted | connect, disconnect, loss, window closed, set-up of sftp and of the auxiliary client, metrics polls | everything else goes on while a connect or disconnect awaits; answers of an earlier connection come late | no sftp or metrics of an old connection is taken for the new one's; a disconnect ends what there was |
| Tunnels, `ssh-session.ts` | `activeTunnels`, states, listeners, bridged connections | start, stop, accept, negotiate, bridge, server error | start, stop and sweep of one tunnel overlap | what is shown is what listens; nothing stays bridged |
| Terminals and video, `ssh-session.ts` | terminals, buffered output, display, streams, observers | create, output, close, exit, vision mode, start and stop of streams | four ways to end, each with events | one exit, after all output; every terminal learns of the display |
| Language servers, `language-server-manager.ts` | sessions, processes | start, stop, stop all, unexpected end | stop during the handshake | ended with the session |
| Idle transfers, `idle-transfer.ts` | queue, reservations, cache records, walks, the worker | session start and stop, scan, idle download, cancel group | a stop in the middle of walks and transfers | the queue is of this session only; exact reservations |
| Remote files, `ssh-session.ts` | remote files, directory cache | atomic save, create, rename, delete, list | fallbacks of a refused rename, lost connections | a save replaces or fails; the cache is current |
| Search and previews, `ssh-session.ts` | output read so far | search by ripgrep or scan, preview | fallback in the middle, growing files | what it says of truncation is true |
| Transfers, `ssh-session.ts`, `transfer.ts` | part files, offsets, cancel functions | upload, download, resume, cancel | a part of another source | parts are whole prefixes; no litter |
| Saved connections, `saved-connections.ts` | one JSON file, a queue of mutations | save, remove, rename, visit, import, tunnels | reads and writes with awaits, cut writes | mutations are serial |
| Window, `App.tsx`, `EditorTabs.tsx` | tabs, timers, reconnect target | connect, reconnect, open, edit, save, rename, delete | answers and events in any order against typing | what is shown as saved is stored |
| Document hook, `use-remote-language-server.ts` | queue, attached models, session | open, change, close, restart | restarts with operations queued | edits reach the server |
| Terminal panel, `TerminalPanel.tsx` | list, panes, replay logs | open, split, reveal, close | answers after a reconnect, remounted panes | every running terminal is shown, with its output |

Then the Go backend:

| Component | State | Operations | Hard behaviour | Correct when |
|---|---|---|---|---|
| Bandwidth governor, `server/internal/idletransfer/governor.go` | count of foreground operations, time of the last one | `BeginForeground` and its release, `NoteForegroundActivity`, `WaitForAllowance` | state copied under a lock, clock read and sleep outside of it; cancellation | background bytes only after a full quiet sleep; nobody polls forever |
| Idle-transfer manager, `idletransfer/manager.go` | queue, reservations, cache records, active item, worker flag and channel, scan generation | start and stop of a session, automatic scan, idle download, cancel, cancel group, read cached | a goroutine per scan and call, one worker, governor waits between check and use, stop waits for the worker | one worker, no lost item, exact reservations, cache within its limit, nothing behind a stop |
| Host metrics poller, `hostmetrics/metrics.go` | running, generation, timer | `Start`, `Stop`, the poll chain | timers that already fired, polls in flight over a restart | one loop, no overlapping polls, nothing lost |
| LSP client, `lsp/client.go` | pending requests, handlers, the stream | `Request`, `Notify`, read loop, `Close` | answers race timeouts; failure of all pending under the lock | every request ends; a lost transport is announced |
| Language server sessions, `lsp/manager.go`, `app/language.go` | session table, closing flags, open documents | start, stop, stop all, document synchronisation | stop during the handshake, crash of the server | one server per workspace; `stopped` is the last event |
| Connection lifecycle, `app/app.go`, `app/services.go`, `ssh/manager.go`, `ssh/session.go` | sessions, services per connection, cancel functions | connect, disconnect, transport watcher | disconnect racing every other call | everything of a connection is released, announced once |
| Tunnels, `app/tunnels.go` | tunnel runtimes, their listeners and connections | start, stop, accept loop | start racing disconnect | no listener survives its connection |
| Terminals, `terminal/pty.go`, `terminal/persistent.go` | registry, shell kinds per client | create, write, close, remote exit | close racing exit | one end event per terminal |
| Remote files, `sftp/fs.go` | remote file system | atomic write, publish with backup | failure or crash between renames | old or new content at the path |
| Resumable transfers, `sftp/transfer.go`, `app/transfers.go` | part files, cancel functions | upload, download, resume | interruption, changed source | what is published is what was sent |
| Store, `store/*.go` | one JSON file, a key file, a marker | save, remove, migrate, encrypt | several processes, crash between writes | no saved connection is lost |

Stateless parts (shell-command builders and parsers in `sftp/search.go`, `sftp/shell.go`,
`sshconfig/parse.go`, `vision/vision.go`) and pure I/O (`app/desktop.go`) carry no protocol.

How they interact: `startServices` (`app/services.go`) makes, for each connection, an
idle-transfer manager and a metrics poller; `stopServices` stops both, the tunnels and the
language servers. Foreground file operations call the manager's governor
(`beginForeground` in `services.go` and `transfers.go`), background ones wait for it. A
goroutine that waits on the SSH connection tears everything down when the transport dies.
The renderer reacts to emitted events and drives all of it through concurrent calls.

In the desktop program the window calls the main process through `preload/index.ts` and
hears of events; `index.ts` hands each call to the session manager of the calling window, or
to the store all windows share. `connect` begins with a `disconnect`; both, and the loss of
the client, sweep language servers, the idle transfers, tunnels, streams and terminals, with
awaits in between.

## Plan

What is present, in the order it was written: `Governor`, `IdleTransfer`, `HostMetrics`,
`LspClient` (Go); `AtomicSave` and `RemoteFiles` with `RemoteReads` and `RemoteTransfers`
composed on it; `SessionClients` under `SessionTunnels`, `SessionTerminals`,
`SessionServers`, `SessionIdle`, all composed by `SessionLifecycle`; `WindowLink` under
`EditorTabs`, `DocumentSync`, `TerminalViews`, composed with `ConnectionStore` by
`Workbench`; and a module of proofs for each part that has theorems.

What could follow: the sharing of the Go store by processes and its migration; the watcher
goroutine and service locks of the Go lifecycle; the explorer and the tunnels dialog of the
window; resume offsets and workspace paths against reference definitions.

## Modules

### `Governor`

One action per critical section. `ReadState` is `g.state()`, `Decide` reads the clock after
the unlock, `Wake` ends the sleep, `Recheck` is the second `g.state()` that grants or starts
over. Time is kept as ages in ticks: `foregroundAge` is now minus `lastForeground`, and
saturates at `MaxAge`, past which no comparison in the code changes. `unchanged[w]` says
whether `lastForeground` still equals the waiter's copy; an activity at age 0 leaves the
stamp as it is, as two readings of one clock value do.

`MCGovernor.cfg`: two operations that overlap, one waiter, periods scaled so that every
branch of `decide` occurs (quiet period 2, tiers 3, 4, 5, ages to 6, rates 1, 2, 4, 8 and
chunks of 1 and 4 bytes so that delays are rounded up and floored). One waiter is enough:
waiters do not touch each other's variables. Checked: `TypeOK`, `OpsCounted`,
`GrantOnlyAfterQuiet`, and `WaitersServed` under fairness of the clock and of every
goroutine that can run, which the Go runtime provides.

### `IdleTransfer`

One action per critical section of `m.mu` or per effect outside of it. A scan and a request
share the walk: `WalkWaits` (the check of context and generation), `ReadDir` (after the
governor, unguarded, as in the code), then the entries one by one, then `ensureWorker`. The
worker is `WorkerLoop`, `WorkerPop`, the transfer, `WorkerFinishes`, `WorkerEnds` and
`WorkerAgain`; a transfer looks at its destination, then fetches, then renames. The
governor's grant and the network's answer are steps without fairness, except where a
property assumes it. `disk` says whose bytes each local file holds, so that a property can
compare what is read with what was asked for. The session's start and stop are those of
`startServices` and `stopServices`, one each per manager. Part files are left out; only the
worker touches them.

Bounds: `Scans` and `Requests` are used once each; `Workers` is the number of worker
goroutines alive at one time (two: one running, one that has ended but not yet returned);
`CacheLimit` is two or four units against files of size one and two.

* `idle_scans` (`MCIdleScans.cfg`): two scans over a directory with a subdirectory, two
  media files and one that is not, under `FairSpec`. A limit of two makes every file matter.
  `TypeOK`, `OneWorker`, `ReservationsExact`, `NoLostWakeup`, `NothingAfterStop`,
  `OneScanWithinLimit`, `StopReturns`, `QueueDrains`. `NoLostWakeup` and `QueueDrains` except
  walks that failed after they enqueued: the code leaves those items to the next worker.
* `idle_downloads` (`MCIdleDownloads.cfg`): two requests, each for a directory or for one of
  two files whose destinations coincide, one scan, cancellation of the directory's group.
  `ManualDownloadsKept`, `NeverOverwrites`.
* `idle_limit` and `idle_bytes` expect violations, see Findings.

Fairness: goroutines that can run do run. `StopReturns` needs no more than that, since a
canceled context ends the wait and the stream. `QueueDrains` is conditional on a governor
and a network that keep answering. Deadlock is not checked in these runs: a stopped session
has nothing left to do.

Nothing but the manager writes to the cache directory or to the destinations; a file the
user puts at a destination during a transfer is outside the model. The second of two
downloads of different files to one destination is dropped as already done: the code does
so, and `NeverOverwrites` is what it promises.

### `HostMetrics`

A poll is a goroutine or an armed timer, with the generation it was started with. Its steps
are the critical sections of `poll` and the two calls out of the package. `MCHostMetrics.cfg`
allows six generations, enough for two restarts with polls left over from each, and four
polls alive; `OneLoop`, `TimerDisarmable`, `KeepsDelivering` under fairness of goroutines,
timers and of `exec`, which ends with an answer or an error. Deadlock is not checked: a
stopped poller rests.

### `LspClient`

A call is one `Request`, one `Notify`, or one goroutine that replies to the server. `send`
is the two writes of `WriteMessage`, each waiting for room in the stream, with `writeMu`
held from the first to the second. A `Request` then is in its `select`; `Receive`,
`SeeClosed` and `TimeOut` are its cases, `Leave` the deferred delete, which needs
`pendingMu`. The read loop holds that mutex across steps only in `failAllPending`
(`loop = "failing"`): `FailNext` takes an entry of the map, `FailOne` sends to its slot.
`dispatchResponse` looks up and sends in two steps, as it unlocks in between. The server is
external: one thread that reads whole frames, answers a request at most once, asks and
notifies as it likes, may break the framing, and does not read while its output is stuck.

`MCLspClient.cfg`: two requests and one other call, one frame of room on the way out, one
message on the way back; this is what fills both directions while a reply is due. Checked:
`PendingExact`, `FramesWhole`, `LoopWaitsForLateOnly`; `SendsEnd` (no mutual wait of client
and server) and `LossEndsCalls`, under fairness of the goroutines that can run and a server
that, while the stream lives, gets back to reading. The timeout has no fairness: no
property leans on it. Deadlock is not checked, a client whose calls are over rests.

Two kinds of state are coarser than the code. A `Request` that waits for `pendingMu` has not
begun, and what `Request` returns is left out but for the timeout.

### `RemoteFiles`, `RemoteReads`, `RemoteTransfers`, and the promise `AtomicSave`

One action per answer of the server or of the disk. A file system maps names to inodes and
inodes to contents, so that a handle keeps its inode over a rename, and a handle of a file
that was unlinked writes to nobody. The connection is up over SFTP, over a shell, or gone;
any request may fail by itself or with the connection (`Request` in `RemoteFiles`). A write
is many steps: the file is opened with truncation (`OpenWrite`), filled byte by byte over the
connection it was opened on (`WriteByte`), and answered (`WriteEnds`). A failure or a loss
between any two leaves a prefix, two writes of one inode mix. `writeFileAtomic` is `SaveTemp`
to `SaveCleanup`: temporary file, rename, unlink and rename, the target itself, and what is
removed afterwards.
`RemoteTransfers` adds parts, offsets and the local disk; `RemoteReads` searches and previews.

`AtomicSave` is what a save promises to those who look at the file: a replacement in one
step; or a refusal, after which the file may be missing or hold the first bytes of the new
content (`Torn`), until the save lands or for good if it fails. A save is reported as saved
only if the file held all of its data at some moment of the save (`Land`). The code has one
exception, which the promise names: a save that writes over the file itself while another
call replaces, removes or writes it (`Disturbs`) writes to an inode nobody sees, or into the
other's bytes, and is told that it is saved (`Overtaken`). `SavePromise` says that
`RemoteTransfers` implements this, under the mapping given there. While a call that is not a
save is at work on the name the abstract file may change as it likes (`Meddle`).

`MCRemoteFiles.cfg`: two names, a content of two bytes and one of a single byte, five inodes,
two connections; the behaviours are the pairs of calls in `MCMixes`, each save with every
other call, each transfer with those that touch its part. Pairs are enough because a call
meets others only through a name or the cache. Deadlock is not checked: calls end.
Checked: `TypeOK`, `PartsAreWhole`, `TempIsWhole`, `NoLitter`, `CacheIsCurrent`,
`ReadsAreHonest`, `SavePromise`. Two uploads of one target share a part (the code does not
lock it), a source may change before its upload is resumed, and a listing in flight during a
change may be cached stale; the properties name these as their exceptions (`own`, `raced`)
and do not catch them.

### `SessionClients`, `SessionTunnels`, `SessionTerminals`, `SessionServers`, `SessionIdle`, `SessionLifecycle`

One window's session manager. A call is a process that runs from await to await; a client is
named by the call that opens it, and is dialing, up, ended by the remote, or down. The five
resource modules each say what their operations do and offer what a sweep needs
(`SweepTunnelsBegin`, `DropTerminals`, `DropStreams`, `Quit`, `StopSession`);
`SessionLifecycle` puts them together in `Sweep` (a disconnect, the first part of a connect,
a closing window) and in `InteractiveLost`. `handleRemoteDisconnect` starts `stopAllTunnels`
twice, for `end` and for `close`, and neither is awaited: each loop is a sequence in `sweep`.
In `SessionIdle` a session of the manager is named by its connection and every queued item
by the client that listed it.

`MCSession.cfg`: at most three connects, the second through a jump host, with a disconnect, a
closing window and one or two of every other kind of call, in the sets of `MCMixes`; one
chunk of output; a cache of three units against files of two. Each hazard needs at most two
calls besides the sweeps. Three connects meet in one set only, with a scan: the late `close`
of the first client takes the second from the window without ending it
(`handleRemoteDisconnect` asks whether the session is closing, not whose client it was,
`ssh-session.ts:4303`), so that a listing over the second can still be queued in the third's
session. `IdleIsThisSessions` says so: what is queued was listed by this session's client or
by one that lives on (`Live`). `OnlyCurrent` speaks of sftp and of the metrics events, not of
the auxiliary client. Deadlock is not checked: a window at rest has nothing to do.
Checked: `TypeOK`, `TerminalStory`, `VisionReachesTerminals`, `TunnelsAreTruthful`,
`OnlyCurrent`, `IdleIsThisSessions`, `DisconnectEnds`. All are safety: no fairness is assumed.

### `WindowLink`, `EditorTabs`, `DocumentSync`, `TerminalViews`, `ConnectionStore`, `Workbench`

Calls on their way to the main process are a sequence answered in any order (`asks`); what
comes back, answers and events, is handled in the order it was sent (`inbox`). One step is
one handler with the render and the effects it causes (`TabsRendered`, `DocsRendered`,
`PanelRendered`), because React runs them before the next message. What the main process
does is as coarse as the window can tell. `ConnectionStore` is exact: `runMutation`'s
queue, reads, writes that begin, end or fail, and the end of the program between any two.

Of the connection the window keeps two things, which do not always agree: `connectionStatus`
(`status`: a state and its `connectionId`) and `currentConnectionId` (`current`). An `error`
of a live client (`SocketError`, `ssh-session.ts:4308`) changes the first and leaves the
second, though the session goes on; a file system that is ready late says `connected` once
more, of whatever connection there is by then (`FilesReady`). `PanelRendered` follows
`status`, as the effect of `TerminalPanel.tsx:469` does: every state but `connected` empties
the list, the panes and the logs. The tabs follow `current`. So once the client of a
connection has reported an error (`erred`), its shells run on and no list has them: that is
what the code does, and the exception `TerminalsShown` names.

`MCWorkbench.cfg`: two files, three connections, three terminals, two replayed chunks; a
behaviour has one budget of gestures from `MCMixes`, or one set of four mutations and one
restart, since neither touches the other. Three of the budgets have errors of a live client
and late file systems, over a reconnect with a terminal, over two terminals and over tabs. Checked: `SavedIsStored`, `EditsReachServer`,
`TerminalsShown`, `StoreIsSerial`. No fairness: `EditsReachServer` and `TerminalsShown` say
what holds when the queues are empty. A save is one step of the main process here (its
interleavings are those of `RemoteFiles`), `SavedIsStored` excepts files of which something
crossed, and `EditsReachServer` excepts a document opened `Ahead`, with text typed between its
attaching and its turn (`use-remote-language-server.ts:258` reads the model late), and says
nothing of a server that has died.

## Findings

* `lsp_jam`: a request that times out just as its answer arrives, with the end of the stream
  right behind it, blocks `failAllPending` for good (`client.go:271`). The read loop never
  closes `c.closed`, so later requests hang and no `OnClose` handler runs. `LossEndsCalls`
  and `LoopWaitsForLateOnly` show that this is the only way.

* `idle_limit`: the cache can exceed its limit. A scan compares with a snapshot of the
  reserved bytes taken at its start (`manager.go:434`) and, once retired, still enqueues the
  listing it was waiting for. `OneScanWithinLimit` shows that two scans are needed.
* `idle_bytes`: two files of one name can share a cache file (`manager.go:479`), and
  `ReadCached` then answers with the bytes of the other.
* `metrics_overlap`: stopping and starting the poller during a slow poll leaves two polls
  collecting, against the doc of `Poller` (`metrics.go:436`).

## Proofs

TLC checks small instances; the theorems hold for every value of the constants that meets
the named assumptions of each module, which TLC evaluates in the runs: kinds of calls are
disjoint, periods, rates, limits and bounds are naturals of the sign the code gives them
(`ViewsAssumption`, `LinksAssumption` and `TerminalAssumption` for the bounds on terminals,
connections and output), `None` is none of the values it stands beside (`ItemsAssumption`,
`PathsAssumption`, `DocsAssumption`, `IdleAssumption`), sets that are counted or summed are
finite (operations, names, files, scans, tunnels), a remote tree lists only names of the
tree and its media are files (`IdleAssumption`), and no destination the user picks is the
manager's own cache directory (`TreeAssumption`). The invariants named below were checked by
TLC before they were proved.

Sequences that the code filters or adds up are filtered and summed here by a function over
their places (`Kept`, `Bytes`, `Read`, `Picked`), not by the library's recursive operators.
What such a function does at every place is shown by its least counterexample (`WFMin` of
the library), which takes the place of an induction.

* `GovernorProofs`: `TypeCorrect`; `OpsAreCounted` by the cardinality of `open`;
  `GrantsAreQuiet` from `PaceKept`, which ties a sleeping waiter's copy to the present: while
  the stamp is unchanged, the age now plus the sleep left is at least the age then plus the
  pacing delay. `GrantOnlyAfterQuiet` is not inductive without it, because at the moment of
  the grant the code only compares stamps.
* `IdleTransferProofs`: `WorkerInvariant` is `OneWorker` and `NothingAfterStop` with what
  makes them inductive: nothing exists before the session starts (`QuietBeforeStart`), a live
  session has its directory and no worker without a context (`LiveHasSession`), the only
  worker behind a stop is the one waited for (`StopWaitsForWorker`), and whoever may have
  queued something has yet to call `ensureWorker` (`QueueHasWorker`). One lemma per group of
  actions; `WalkStep` reduces a step of a walk to the two conjuncts it can disturb,
  `EnsureStartsOne` covers both callers of `ensureWorker`. `OneWorkerAlways`, `NoWakeupLost`
  and `StopIsFinal` follow.

  The cache: `BytesInv` is the types (`Typed`), the worker's invariant, `Reservations` and
  `LimitKept`. `ReservationsExact` alone is not inductive. What is reserved is what queue and
  active item hold until the stop; it may be more while a stop waits for the worker, because
  the dropped queue is not released one by one; then it is nothing. That the clamp in
  `releaseLocked` never bites depends on it. `LimitKept` compares what is cached and reserved
  with the scan's own counter, which is at least that as long as no other scan was started:
  `OneScanStaysWithinLimit`. The bytes of a queue are the cardinality of a set of pairs, so
  that the facts about finite sets replace an induction over the queue.

  The queue: `QueueStep` names every way a step can change it (`QueueSteps`), from which
  `ManualDownloadsStay` follows; what a filter leaves is shown by the order of the places
  it keeps. `DestInv` adds `DestinationFree`: while an idle download is fetched its
  destination is still free, because no other worker writes and a cache item lands in the
  cache directory (`Placed`). `DownloadsNeverOverwrite` follows.
* `RemoteFilesProofs`, about every mix of calls. `TypeInv`: types, and which call has a file
  open where. `TempInv`: nobody but the save writes through its temporary name or through a
  handle of it, so what it renames is whole (`TempStaysWhole`). With it `SavesAreAtomic` shows
  the refinement of `AtomicSave` action by action: each step of the calls is a step of the
  save's promise, a `Meddle`, or a stutter. A save writing over the file is undisturbed as long
  as its handle is what the name points at and the bytes there are those it sent, so its last
  reply finds its data whole under the name, and every byte before leaves a prefix; from the
  step of another call that breaks this it counts as disturbed. `PartInv`: a part belongs to a transfer
  that is at it or did not end well (`NothingIsLittered`). `CacheInv`: while nothing failed,
  the cached listing is what the server holds, or a call that will drop it is on its way
  (`ListingIsCurrent`); here `raced` is what makes the code's missing check harmless.
  `OwnInv`: an owned part is the prefix of its source as far as the offset says, through
  its own handle (`PartsStayWhole`). `ReadInv`: what was found is what ripgrep sent, or what
  the files scanned so far hold (`ReadsStayHonest`), counted as a set of matches.

* `HostMetricsProofs`: `PollInvariant` is `OneLoop` and `TimerDisarmable` with the types and
  `NoFutureGeneration`, without which a new loop might find a poll of its generation.

* `LspClientProofs`: `ClientInvariant` holds, with the types and `PendingExact`, three
  facts. `Wire`: the stream holds whole frames, then maybe the header of the call with
  `writeMu`. `OneAnswer`: while the loop reads, the answer to a request is at one place at a
  time, and at none before the request is sent or after it was taken (`Places`), nor is
  there a second frame or answer (`Distinct`). `Late`: what `failAllPending` finds.
  `LoopWaitsForLateOnly` is not inductive without them: that `dispatchResponse` finds the
  slot free depends on where every earlier answer went. `Elsewhere` spares each step the
  places it does not touch.

* `WorkbenchProofs`: `StoreInv` is `StoreIsSerial` with the types and three facts: only the
  head of the queue has read anything (`OnlyHeadActs`), what it read is what is on disk
  (`HeldIsFresh`), and a torn file is read as empty (`TornIsLost`). What a mutation makes of
  the connections stays unexpanded, so the result holds for any. The workbench implements
  `StoreSpec`, so the same holds inside it.

  The tabs: `SavedIsStored` speaks of a moment when nothing about a path is on its way, so
  its invariant `TabsInv` says what is on its way. Of each path nothing has crossed
  (`PathIs`): an answered read carries what is stored (`ReadsAre`), the answer of a write what
  it stored or what a later one did (`WritesAre`), and a tab's saved text is stored, or a note
  in the inbox will say so (`TabsAre`). `LinkInv` types the calls and notes; `CrossInv` says
  that renames and deletes answered but not yet rendered have crossed. Documents, terminals
  and the store leave all of it alone.

  The terminal panel: `TerminalsShown` speaks of an empty inbox, so `ShownInv` says what the
  inbox still has to tell. A terminal is announced once, before anything it says
  (`BornFirst`), and its end is the last (`EndsLast`); of one in the list or announced, the
  chunks printed and not taken are on their way, each once and in order (`Streams`), so the
  log has the last chunks and then the end (`Logs`), and a pane, with what waits for it,
  the output from far enough back (`PaneShows`). Unless its client
  reported an error, the window is at the main process's connection and no note will turn it
  elsewhere (`Here`), or a note will bring it there behind all that turn it (`Comes`,
  `ComesUp`), which late file systems, saying the same once more, leave so; a terminal of that
  connection is in the list, announced behind every such turn, or about to be closed
  (`ComesIn`). Where the
  notes of the inbox move to is said once for each kind of step (`SentMoves`, `TakenMoves`,
  `StillMoves`), and these facts follow them (`ComesInStays`).

  The documents: `DocsInv` keeps, while the active session is alive, a chain of operations for
  each path. `Finds`: the first that waits starts from what the server has. `Chained`: each
  follows on the one before. `Results`: the last leaves what the window has. So when none
  waits the server has what the window has (`Agrees`), which is `EditsReachServer`. A restart
  would break the chain if a new start were given a server that had documents already;
  `SessionsFresh` says that such a server is stopped, or the call that stops it comes before the
  wanted start does, which takes that the starts on their way are the last ones, in order
  (`StartsCome`).
* `SessionProofs`: `CurrentInv` is `OnlyCurrent` with `OneBusy` (at most one of the user's
  calls to connect or disconnect is under way, which the window's `Free` guard gives) and
  `NoneWhileDialing` (no client is installed while one dials). Tunnels, servers, terminals
  and idle transfers make most of a session's steps; the lemmas `TunnelsBeside`,
  `ServersBeside`, `IdleBeside` and `TerminalsBesideUsers` show once for each which calls and
  variables they leave alone; `SessionTunnelsProofs` has its own, which keep the links too.

  The terminals, in the same module: `StoryInv` gives an account of each terminal: what was read of it
  is what is held plus what was sent, and it has had no exit while it runs or is being made.
  `VisionInv`: with the display on, a terminal was told of it or is in the rest of some
  loop that tells them. `StoryEndsOnce` and `VisionReachesAll` follow.
* `SessionTunnelsProofs`: `TunnelInv`. A tunnel's listener was started for it and is bound
  (`Listeners`); one shown as running has it, or is before a call that will stop it
  (`RunningIsHeld`); a loop of `stopAllTunnels` has tunnels left only past the beginning of
  its disconnect or loss (`LoopsAreOnce`), so none is begun twice and forgets what it had;
  a bridged connection's listener is bound (`FlowsAreSound`). `stopAllTunnels` goes through
  a sequence, and an element leaves it only when stopped: the argument takes one turn of the
  loop at a time (`SweepWentOn`, `LoopOver`).

  `DisconnectEnds` is an action property, of the last turn of a disconnect (`LoopsEndLast`:
  no other step takes it out of its loop). Its invariant `EndInv` follows what any disconnect
  under way has counted (`Marked`). A client is closed, or the session still has it and
  `isClosing` holds, so the next last turn ends it (`ClientsEnd`); none is brought up again,
  because the call that opens it is past that point (`Past`). A video stream is closed or
  still registered (`FilmsEnd`). A language server is quitting or gone once a disconnect has
  stopped those it knew (`ServersEnd`). A listener is closed, its client is, or it is
  registered and no loop under way has passed it (`ListenersEnd`, `Ahead`), which takes that
  the library's `SetToSeq` lists every tunnel once (`SetToSeqIsSeq`). `TunnelInv` and
  `CurrentInv` give the rest.

  The idle transfers: `IdleInv` is `IdleIsThisSessions` (`Reserving`, `Directed`, `Recorded`,
  `AllLive`) with the types, `WalksGoOn` (a walk that lists has a directory and a client to
  ask) and `SessionsApart`. The last is why it holds across connections: from its
  `stopSession` to its `startSession` no connect has a session on, and the worker of the one
  before has ended before the new client is dialed, so `startSession` finds nothing of it.
  That the reservation is exact takes that a sum grows by what is appended and shrinks by what
  is taken (`BytesAppend`, `BytesTail`), that a filter keeps items of the queue, in all no more
  bytes than there were (`KeptAre`), and none if it keeps only manual downloads
  (`NothingToReserve`), and what a listing makes of the queue entry by entry (`Fills`).

  The types of a session (`SessionIsTyped`): those of tunnels, clients and idle transfers are
  parts of the invariants above; `CallTypes`, `LinkTypes`, `TunnelTypes`, `ShellTypes`,
  `FilmTypes`, `ServerTypes` and `OwnTypes` are the rest, each preserved by itself. Two facts
  had to be added: only a terminal with a session name is ever probing, and of a terminal no
  more is held and told than came in (`OutputCount`), which bounds what is told.

  All of it assumes of the constants that a call is of one kind, that names are distinct, and
  that a session has finitely many tunnels (`SessionAssumption`, `TunnelAssumption`).

Only model-checked:

* Liveness, since no prover here handles fairness: `WaitersServed`, `StopReturns`,
  `QueueDrains`, `KeepsDelivering`, `SendsEnd`, `LossEndsCalls`. They also hold only of the
  bounds of their runs.
* Every `violation` run, where TLC's counterexample is the result.

## Hazards no property covers

`PROJECT.json` lists the hazards that bite hardest. Met while reading, and left without a
property because the code promises nothing there: a connect whose client is lost while the
idle transfers start goes on to report `connected` (`ssh-session.ts:648`); a failed connect
after the handshake leaves terminals; a refused sftp of an old connection clears the new one
(`ssh-session.ts:4210`); two saves in one millisecond share a temporary name; a failed save
after the unlink and a failed direct write removes the only copy (`ssh-session.ts:912`); a
rename during a save leaves the tab saving for ever (`App.tsx:1559`); a name for a persistent
session is chosen from a stale list (`TerminalPanel.tsx:632`); a cut write of the store loses
all connections (`saved-connections.ts:727`); a second Disconnect during a disconnect lets a connect
overlap the next (`App.tsx:1023`; `SessionLifecycle` leaves that click out); a file opened
again between the `connected` event and the answer of the connect shows another host's
text (excepted by `crossed` in `SavedIsStored`); a tunnel started behind the tunnels loop of a
disconnect is forgotten by its `activeTunnels.clear()` (`ssh-session.ts:752`), so its listener
stays bound (excepted by `Looping` in `DisconnectEnds`, as is the auxiliary client); a
client dropped by the late `close` of an earlier one is not ended (`ssh-session.ts:4303`,
excepted by `Live`); a directory made for the idle cache after the session was lost stays.
In Go: the watcher and a disconnect can both announce the end (`app/services.go:57`); a tunnel started while services stop keeps its listener
(`app/tunnels.go:130`); one connection's disconnect cancels the operations of all
(`app/app.go:383`); publishing by backup leaves no file at the path for a moment
(`sftp/fs.go:158`); two processes lose each other's updates of the store
(`store/connections.go:212`); a crash repeats a migration (`store/migrate.go:189`).

## Not modelled

The Go counterparts of the session, file and store modules; the window's explorer, search,
media and tunnels dialogs, which show what calls return; pure parsers and builders of shell
commands; formats, messages and the contents of files, except where a property compares
whose bytes a file holds. Time is left to nondeterminism except in `Governor`.
