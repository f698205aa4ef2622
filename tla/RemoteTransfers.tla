--------------------------- MODULE RemoteTransfers ---------------------------
(***************************************************************************)
(* Uploads and downloads of src/main/ssh-session.ts (uploadLocalEntries,   *)
(* downloadEntry) beside the file operations of RemoteFiles and RemoteReads. *)
(* A file goes                                                             *)
(* byte by byte into a part file, which an interrupted attempt leaves for  *)
(* the next one to continue, and is renamed into place when it is whole.   *)
(* Without sftp it is written over its target.                             *)
(*                                                                         *)
(* The local disk is a directory like the server's.  A transfer of a       *)
(* directory takes its files in any order.  Progress counts are left out.  *)
(***************************************************************************)
EXTENDS RemoteReads

CONSTANTS
    FilesOf,    \* the names each transfer takes
    Strategy,   \* "ask", "overwrite" or "skip", of each transfer
    Edition,    \* bound: local files are edited to versions of a higher edition
    Edited      \* the name whose saves are compared with AtomicSave

Transfers == Uploads \cup Downloads

ASSUME TransfersAssumption ==
    /\ FilesOf \in [Transfers -> SUBSET Names]
    /\ Edition \in [Versions -> Nat]
    /\ Strategy \in [Transfers -> {"ask", "overwrite", "skip"}]
    /\ Edited \in Names

VARIABLES
    source,    \* the version of each local file to upload
    disk,      \* the local directory the downloads go to
    sftp,      \* the connection whose sftp a transfer took; 0: the shell
    cur,       \* the file a transfer is at
    left,      \* and those still to do
    at,        \* the offset it streams at
    lhand,     \* the local file it has open
    canceled,  \* progress.canceled
    own,       \* history: nothing spoiled the part of this attempt
    raced      \* history: the directory changed while a listing was on its way

transferVars == <<source, disk, sftp, cur, left, at, lhand, canceled>>
vars == <<fileVars, readVars, transferVars, own, raced>>

TransfersInit ==
    /\ source = [n \in Names |-> OldVersion]
    /\ disk = [dir |-> TRUE, data |-> [i \in Inodes |-> <<>>], entry |-> [p \in Paths |-> None]]
    /\ sftp = [t \in Transfers |-> 0]
    /\ cur = [t \in Transfers |-> None]
    /\ left = [t \in Transfers |-> {}]
    /\ at = [t \in Transfers |-> 0]
    /\ lhand = [t \in Transfers |-> None]
    /\ canceled = [t \in Transfers |-> FALSE]
    /\ own = [t \in Transfers |-> TRUE]
    /\ raced = FALSE

(* Whether the handle a transfer took still answers, and the end of an      *)
(* attempt that fails.                                                      *)
Live(t) == conn = "sftp" /\ sftp[t] = epoch
Stop(t) == IF canceled[t] THEN "canceled" ELSE "failed"
Final_(t) == Final(cur[t])
Part_(t)  == Part(cur[t])

(* resolveResumeOffset: the bytes of the part that are kept.                *)
ResumeOffset(partSize, sourceSize) == IF partSize >= sourceSize THEN 0 ELSE partSize

PartSize(f, p) == IF Has(f, p) THEN Len(Content(f, p)) ELSE 0

Streams(t) == pc[t] = "stream"

-----------------------------------------------------------------------------
(* Both ways *)

(* getTransferSftpHandle, the conflicts, registerOperationCancel.           *)
Begin(t) ==
    /\ pc[t] = "idle"
    /\ \/ /\ conn # "none"
          /\ sftp' = [sftp EXCEPT ![t] = IF conn = "sftp" THEN epoch ELSE 0]
          /\ LET there == IF t \in Uploads THEN fs ELSE disk
                 conflicts == {n \in FilesOf[t] : Has(there, Final(n))}
             IN  IF Strategy[t] = "ask" /\ conflicts # {}
                 THEN Go(t, "conflict") /\ UNCHANGED left
                 ELSE Go(t, "next") /\ left' = [left EXCEPT ![t] = FilesOf[t]]
       \/ Go(t, "failed") /\ UNCHANGED <<sftp, left>>
    /\ UNCHANGED <<conn, epoch, fs, cache, hand, todo, out, source, disk, cur, at, lhand, canceled>>

(* The loop over the files: a file that is there is skipped, or replaced    *)
(* later; a remote file whose stat fails counts as absent.  An upload that  *)
(* began without sftp takes the one there is by now.                        *)
NextFile(t) ==
    /\ pc[t] = "next"
    /\ \E n \in left[t] :
          \E there \in {Has(IF t \in Uploads THEN fs ELSE disk, Final(n))}
                        \cup (IF t \in Uploads THEN {FALSE} ELSE {}) :
             IF Strategy[t] = "skip" /\ there
             THEN left' = [left EXCEPT ![t] = @ \ {n}] /\ UNCHANGED <<pc, cur>>
             ELSE Go(t, "ensure") /\ cur' = [cur EXCEPT ![t] = n] /\ UNCHANGED left
    /\ sftp' = [sftp EXCEPT ![t] = IF t \in Uploads /\ @ = 0 /\ conn = "sftp" THEN epoch ELSE @]
    /\ UNCHANGED <<conn, epoch, fs, cache, hand, todo, out, source, disk, at, lhand, canceled>>

NoMoreFiles(t) ==
    /\ pc[t] = "next" /\ left[t] = {}
    /\ Go(t, IF t \in Uploads THEN "applied" ELSE "ok")
    /\ UNCHANGED <<conn, epoch, fs, cache, hand, todo, out, transferVars>>

(* cancelFileOperation while the operation is registered.  It also destroys *)
(* the streams of a file that is under way.                                 *)
Registered(t) == pc[t] \notin Ended \cup {"idle"}

CancelFileOperation(t) ==
    /\ Registered(t) /\ ~canceled[t]
    /\ canceled' = [canceled EXCEPT ![t] = TRUE]
    /\ UNCHANGED <<fileVars, source, disk, sftp, cur, left, at, lhand>>

(* A stream that fails, or is destroyed: the part stays.                    *)
StreamFails(t) ==
    /\ Streams(t)
    /\ Go(t, Stop(t))
    /\ hand' = [hand EXCEPT ![t] = None] /\ lhand' = [lhand EXCEPT ![t] = None]
    /\ UNCHANGED <<conn, epoch, fs, cache, todo, out, source, disk, sftp, cur, left, at, canceled>>

-----------------------------------------------------------------------------
(* uploadLocalFile, uploadFileResumable, renameRemoteInto *)

AskUp(t, can, next, done) ==
    /\ Ask(t, can, next, done, Stop(t))
    /\ UNCHANGED transferVars

UploadEnsure(t) ==       \* ensureRemoteDirectory, then throwIfCanceled
    /\ pc[t] = "ensure"
    /\ AskUp(t, sftp[t] = 0 \/ Live(t), [fs EXCEPT !.dir = TRUE],
             IF canceled[t] THEN "canceled" ELSE IF sftp[t] = 0 THEN "shellOpen" ELSE "stat")

UploadStat(t) ==         \* a part that cannot be read counts as none
    /\ pc[t] = "stat"
    /\ \E size \in {0, PartSize(fs, Part_(t))} :
          at' = [at EXCEPT ![t] = ResumeOffset(size, Size[source[cur[t]]])]
    /\ Go(t, "open")
    /\ UNCHANGED <<conn, epoch, fs, cache, hand, todo, out, source, disk, sftp, cur, left, lhand, canceled>>

\* Mutant: a part is continued although its size was not asked for.
UploadOpenUntruncated(t) ==
    /\ pc[t] = "open"
    /\ Request(t, Live(t) /\ CanOpen(fs, hand, Part_(t)),
               IF Has(fs, Part_(t)) THEN fs ELSE Opened(fs, hand, Part_(t)), "stream", Stop(t))
    /\ hand' = [hand EXCEPT ![t] = IF pc'[t] = "stream" THEN fs'.entry[Part_(t)] ELSE None]
    /\ UNCHANGED <<epoch, todo, out, source, disk, sftp, cur, left, at, lhand, canceled>>

(* createRemoteWriteStream: the part is kept and written from the offset,   *)
(* or truncated.                                                            *)
UploadOpen(t) ==
    /\ pc[t] = "open"
    /\ IF at[t] > 0 THEN Request(t, Live(t) /\ Has(fs, Part_(t)), fs, "stream", Stop(t))
       ELSE Request(t, Live(t) /\ CanOpen(fs, hand, Part_(t)), Opened(fs, hand, Part_(t)), "stream", Stop(t))
    /\ hand' = [hand EXCEPT ![t] = IF pc'[t] = "stream" THEN fs'.entry[Part_(t)] ELSE None]
    /\ UNCHANGED <<epoch, todo, out, source, disk, sftp, cur, left, at, lhand, canceled>>

UploadChunk(t) ==
    /\ Streams(t) /\ t \in Uploads /\ Live(t) /\ ~canceled[t]
    /\ at[t] < Size[source[cur[t]]]
    /\ fs' = Filled(fs, hand[t], WriteAt(fs.data[hand[t]], at[t], source[cur[t]]))
    /\ at' = [at EXCEPT ![t] = @ + 1]
    /\ UNCHANGED <<conn, epoch, cache, pc, hand, todo, out, source, disk, sftp, cur, left, lhand, canceled>>

UploadStreamed(t) ==
    /\ Streams(t) /\ t \in Uploads /\ ~canceled[t]
    /\ at[t] >= Size[source[cur[t]]]
    /\ Go(t, "into")
    /\ hand' = [hand EXCEPT ![t] = None]
    /\ UNCHANGED <<conn, epoch, fs, cache, todo, out, transferVars>>

UploadInto(t) ==
    /\ pc[t] = "into"
    /\ \E there \in {Has(fs, Final_(t)), FALSE} : Go(t, IF there THEN "clear" ELSE "swap")
    /\ UNCHANGED <<conn, epoch, fs, cache, hand, todo, out, transferVars>>

UploadClear(t) ==
    /\ pc[t] = "clear"
    /\ AskUp(t, conn = "sftp" => Has(fs, Final_(t)), Removed(fs, Final_(t)), "swap")

UploadSwap(t) ==
    /\ pc[t] = "swap"
    /\ Ask(t, Live(t) /\ fs.dir /\ Has(fs, Part_(t)) /\ ~Has(fs, Final_(t)),
           Moved(fs, Part_(t), Final_(t)), "next", Stop(t))
    /\ left' = [left EXCEPT ![t] = @ \ {cur[t]}]
    /\ UNCHANGED <<source, disk, sftp, cur, at, lhand, canceled>>

(* writeRemoteStreamWithShell: cat over the target, not canceled midway.    *)
UploadWithShell(t) ==
    \/ /\ pc[t] = "shellOpen"
       /\ OpenWrite(t, Final_(t), "shellWrite", Stop(t))
       /\ UNCHANGED transferVars
    \/ /\ pc[t] = "shellWrite"
       /\ WriteByte(t, Whole(source[cur[t]]))
       /\ UNCHANGED transferVars
    \/ /\ pc[t] = "shellWrite"
       /\ WriteEnds(t, Whole(source[cur[t]]), "next", Stop(t))
       /\ left' = [left EXCEPT ![t] = @ \ {cur[t]}]
       /\ UNCHANGED <<source, disk, sftp, cur, at, lhand, canceled>>

Upload(t) ==
    \/ UploadEnsure(t) \/ UploadStat(t) \/ UploadOpen(t) \/ UploadChunk(t) \/ UploadStreamed(t)
    \/ UploadInto(t) \/ UploadClear(t) \/ UploadSwap(t) \/ UploadWithShell(t)

-----------------------------------------------------------------------------
(* downloadRemoteFile and downloadRemoteFileWithShell *)

DownloadFails(t) ==
    /\ pc[t] \in {"ensure", "stat", "open", "rm", "rename", "shellOpen", "shellWrite"}
    /\ Go(t, Stop(t))
    /\ hand' = [hand EXCEPT ![t] = None] /\ lhand' = [lhand EXCEPT ![t] = None]
    /\ UNCHANGED <<conn, epoch, fs, cache, todo, out, source, disk, sftp, cur, left, at, canceled>>

DownloadEnsure(t) ==     \* mkdir, then throwIfCanceled
    /\ pc[t] = "ensure"
    /\ Go(t, IF sftp[t] = 0 THEN "shellOpen" ELSE IF canceled[t] THEN "canceled" ELSE "stat")
    /\ UNCHANGED <<conn, epoch, fs, cache, hand, todo, out, transferVars>>

DownloadStat(t) ==
    /\ pc[t] = "stat" /\ Live(t) /\ Has(fs, Final_(t))
    /\ at' = [at EXCEPT ![t] = ResumeOffset(PartSize(disk, Part_(t)), PartSize(fs, Final_(t)))]
    /\ Go(t, "open")
    /\ UNCHANGED <<conn, epoch, fs, cache, hand, todo, out, source, disk, sftp, cur, left, lhand, canceled>>

DownloadOpen(t) ==
    /\ pc[t] = "open" /\ Live(t) /\ Has(fs, Final_(t)) /\ CanOpen(disk, lhand, Part_(t))
    /\ LET opened == IF at[t] > 0 /\ Has(disk, Part_(t)) THEN disk ELSE Opened(disk, lhand, Part_(t))
       IN  disk' = opened /\ lhand' = [lhand EXCEPT ![t] = opened.entry[Part_(t)]]
    /\ hand' = [hand EXCEPT ![t] = fs.entry[Final_(t)]]
    /\ Go(t, "stream")
    /\ UNCHANGED <<conn, epoch, fs, cache, todo, out, source, sftp, cur, left, at, canceled>>

DownloadChunk(t) ==      \* appended, wherever the part ends by now
    /\ Streams(t) /\ t \in Downloads /\ Live(t) /\ ~canceled[t]
    /\ at[t] < Len(fs.data[hand[t]])
    /\ disk' = [disk EXCEPT !.data[lhand[t]] = Append(@, fs.data[hand[t]][at[t] + 1])]
    /\ at' = [at EXCEPT ![t] = @ + 1]
    /\ UNCHANGED <<fileVars, source, sftp, cur, left, lhand, canceled>>

DownloadStreamed(t) ==
    /\ Streams(t) /\ t \in Downloads /\ ~canceled[t] /\ Live(t)
    /\ at[t] >= Len(fs.data[hand[t]])
    /\ Go(t, "rm")
    /\ hand' = [hand EXCEPT ![t] = None] /\ lhand' = [lhand EXCEPT ![t] = None]
    /\ UNCHANGED <<conn, epoch, fs, cache, todo, out, source, disk, sftp, cur, left, at, canceled>>

DownloadSwap(t) ==
    /\ \/ pc[t] = "rm" /\ disk' = Removed(disk, Final_(t)) /\ Go(t, "rename") /\ UNCHANGED left
       \/ /\ pc[t] = "rename" /\ Has(disk, Part_(t))
          /\ disk' = Moved(disk, Part_(t), Final_(t))
          /\ left' = [left EXCEPT ![t] = @ \ {cur[t]}] /\ Go(t, "next")
    /\ UNCHANGED <<conn, epoch, fs, cache, hand, todo, out, source, sftp, cur, at, lhand, canceled>>

DownloadWithShell(t) ==  \* cat into the target itself; a failed one leaves what had come
    /\ \/ /\ pc[t] = "shellOpen"
          /\ CanOpen(disk, lhand, Final_(t))
          /\ disk' = Opened(disk, lhand, Final_(t)) /\ Go(t, "shellWrite") /\ UNCHANGED left
       \/ /\ pc[t] = "shellWrite" /\ conn # "none"
          /\ Has(fs, Final_(t)) /\ Has(disk, Final_(t))
          /\ \/ /\ disk' = Filled(disk, disk.entry[Final_(t)], Content(fs, Final_(t)))
                /\ left' = [left EXCEPT ![t] = @ \ {cur[t]}] /\ Go(t, "next")
             \/ /\ \E came \in 1..Len(Content(fs, Final_(t))) :
                      disk' = Filled(disk, disk.entry[Final_(t)], SubSeq(Content(fs, Final_(t)), 1, came))
                /\ Go(t, Stop(t)) /\ UNCHANGED left
    /\ UNCHANGED <<conn, epoch, fs, cache, hand, todo, out, source, sftp, cur, at, lhand, canceled>>

Download(t) ==
    \/ DownloadFails(t) \/ DownloadEnsure(t) \/ DownloadStat(t) \/ DownloadOpen(t)
    \/ DownloadChunk(t) \/ DownloadStreamed(t) \/ DownloadSwap(t) \/ DownloadWithShell(t)

-----------------------------------------------------------------------------
(* The user edits a local file that is being uploaded. *)
EditSource(n) ==
    /\ \E t \in Uploads : cur[t] = n /\ pc[t] \notin Ended
    /\ \E v \in Versions : Edition[v] > Edition[source[n]] /\ source' = [source EXCEPT ![n] = v]
    /\ UNCHANGED <<fileVars, disk, sftp, cur, left, at, lhand, canceled>>

Init == FilesInit /\ ReadsInit /\ TransfersInit

(* History: an attempt starts from the first bytes of what it streams, and  *)
(* nothing but its own chunks touches its part, or its source, from then on.*)
PartBytes(f, t) == IF Has(f, Part_(t)) THEN Content(f, Part_(t)) ELSE None

Sees(t) ==
    IF t \in Uploads THEN <<source[cur[t]], PartBytes(fs, t)>>
    ELSE <<PartBytes(disk, t), IF hand[t] = None THEN None ELSE fs.data[hand[t]]>>

Streamed(t) == IF t \in Uploads THEN Whole(source[cur[t]]) ELSE fs.data[hand[t]]

OwnAfter ==
    own' = [t \in Transfers |->
        IF pc'[t] = "stream" /\ ~Streams(t)
        THEN at[t] = 0 \/ LET kept == IF t \in Uploads THEN PartBytes(fs, t)' ELSE PartBytes(disk, t)'
                          IN  Len(kept) = at[t] /\ IsPrefix(kept, Streamed(t)')
        ELSE own[t] /\ (/\ pc[t] \in {"stream", "into", "clear", "swap", "rm", "rename"}
                        /\ pc'[t] = pc[t] /\ at'[t] = at[t]
                        => Sees(t)' = Sees(t))]

RacedAfter ==
    raced' = (raced \/ \E c \in Lists : pc[c] = "listed" /\ Visible(fs') # Visible(fs))

TransfersNext ==
    \/ \E t \in Transfers : \/ Begin(t) \/ NextFile(t) \/ NoMoreFiles(t)
                            \/ CancelFileOperation(t) \/ StreamFails(t)
    \/ \E t \in Uploads : Upload(t)
    \/ \E t \in Downloads : Download(t)
    \/ \E n \in Names : EditSource(n)

Step ==
    \/ EntryNext /\ UNCHANGED <<readVars, transferVars>>
    \/ ReadsNext /\ UNCHANGED transferVars
    \/ TransfersNext /\ UNCHANGED readVars

Next == Step /\ OwnAfter /\ RacedAfter

Spec == Init /\ [][Next]_vars

-----------------------------------------------------------------------------
(* Properties *)

Bytes == Versions \cup {None}
Trees ==
    {f \in [dir : BOOLEAN, entry : [Paths -> Inodes \cup {None}], data : [Inodes -> Seq(Bytes)]] :
        \A p, q \in Paths : f.entry[p] = f.entry[q] /\ f.entry[p] # None => p = q}

Places ==
    Ended \cup
    {"idle", "tempWrite", "swap", "unlink", "rename", "direct", "directWrite", "dropTemp", "cleanup",
     "createWrite", "renamePath", "applied", "each", "list", "listed", "ripgrep", "scan",
     "preview", "next", "ensure", "stat", "open", "stream", "into", "clear", "rm",
     "shellOpen", "shellWrite"}

(* The type invariant: no two names of a directory share a file.            *)
TypeOK ==
    /\ conn \in {"none", "shell", "sftp"} /\ epoch \in 1..MaxConnects
    /\ fs \in Trees /\ disk \in Trees
    /\ cache \in {None} \cup SUBSET Paths
    /\ pc \in [Calls -> Places]
    /\ hand \in [Calls -> Inodes \cup {None}]
    /\ todo \in [Calls -> SUBSET Paths]
    /\ out \in [Calls -> [via : 0..MaxConnects, sent : Nat]]
    /\ source \in [Names -> Versions]
    /\ sftp \in [Transfers -> 0..MaxConnects]
    /\ cur \in [Transfers -> Names \cup {None}] /\ left \in [Transfers -> SUBSET Names]
    /\ at \in [Transfers -> Nat] /\ lhand \in [Transfers -> Inodes \cup {None}]
    /\ canceled \in [Transfers -> BOOLEAN] /\ own \in [Transfers -> BOOLEAN]
    /\ raced \in BOOLEAN

(* A part is swapped into place "only once complete" (README.md:15): from   *)
(* the first byte to the swap it holds what was sent of the very file that  *)
(* replaces the target, whatever was resumed, canceled or lost before;      *)
(* unless the source changed or another call wrote the same part.           *)
PartsAreWhole ==
    /\ \A t \in Transfers : Streams(t) /\ own[t] =>
          LET kept == IF t \in Uploads THEN PartBytes(fs, t) ELSE PartBytes(disk, t)
          IN  Len(kept) = at[t] /\ IsPrefix(kept, Streamed(t))
    /\ \A t \in Uploads : pc[t] \in {"into", "clear", "swap"} /\ own[t] =>
          PartBytes(fs, t) = Whole(source[cur[t]])

(* What a fallback removes is not gone: when a save has unlinked its target *)
(* its temporary file, if it is still there, holds all of the new content.  *)
TempIsWhole ==
    \A s \in Saves : pc[s] \in {"swap", "unlink", "rename"} /\ Has(fs, Temp(s)) =>
        Content(fs, Temp(s)) = Whole(Data[s])

Settled == {"off", "ok", "conflict"}

(* Calls that all went well leave no temporary file and no part behind, on  *)
(* the server or on the local disk, however they interleaved.               *)
NoLitter ==
    (\A c \in Calls : pc[c] \in Settled) =>
        \A p \in Paths : (Has(fs, p) \/ Has(disk, p)) => p[2] = "final"

(* The explorer is not shown a listing older than the changes the user made *)
(* through it: when calls that are no saves all went well, and none changed *)
(* the directory while a listing was on its way, what readDir has cached is *)
(* what the server holds.                                                   *)
CacheIsCurrent ==
    (/\ \A c \in Calls : pc[c] \in Settled
     /\ \A s \in Saves : pc[s] = "off"
     /\ cache # None /\ ~raced)
        => cache = Visible(fs)

SaveState(s) ==
    IF pc[s] = "idle" THEN "idle"
    ELSE IF pc[s] \in {"tempWrite", "swap"} THEN "writing"
    ELSE IF pc[s] \in {"unlink", "rename", "direct", "directWrite"} THEN "fallback"
    ELSE IF pc[s] = "dropTemp" THEN "landed"
    ELSE IF pc[s] \in {"ok", "off"} THEN "saved" ELSE "failed"

EditedSaves == {s \in Saves : Target[s] = Edited}

EditedFile == IF Has(fs, Final(Edited)) THEN Content(fs, Final(Edited)) ELSE None
EditedStates == [s \in EditedSaves |-> SaveState(s)]
EditedContents == [s \in EditedSaves |-> Whole(Data[s])]
(* The saves that write over the file itself, and that no longer do: it has *)
(* another file under its name, or other bytes in it than they sent.        *)
Disturbed ==
    {s \in EditedSaves : pc[s] = "directWrite" /\
        (hand[s] # fs.entry[Final(Edited)] \/ fs.data[hand[s]] # SubSeq(Whole(Data[s]), 1, out[s].sent))}
Meddling == \E c \in Calls \ EditedSaves : pc[c] \notin Ended

Promise == INSTANCE AtomicSave WITH
    Saves <- EditedSaves, NewContent <- EditedContents,
    Contents <- Seq(Bytes) \cup {None}, Missing <- None,
    file <- EditedFile, state <- EditedStates, disturbed <- Disturbed, meddling <- Meddling

(* The saves of a file keep the promise of AtomicSave: nobody sees it       *)
(* missing or with part of the new content unless the rename over it was    *)
(* refused, and none is reported as saved whose data never was under the    *)
(* name; but for a save that was writing over the file itself when another  *)
(* call replaced, removed or wrote it, which is told that it is saved.      *)
SavePromise == Promise!Spec
=============================================================================
