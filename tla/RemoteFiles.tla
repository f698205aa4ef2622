----------------------------- MODULE RemoteFiles -----------------------------
(***************************************************************************)
(* The file operations of src/main/ssh-session.ts on one remote directory: *)
(* saves (writeFileAtomic), createEntry, renameEntry, deleteEntry and the  *)
(* cached readDir.  RemoteTransfers adds uploads and downloads.            *)
(*                                                                         *)
(* A call runs from await to await: a step is one request to the server    *)
(* with what the code does on its reply.  A request may be refused, may be *)
(* lost, or may be applied and its reply lost with the connection.  The    *)
(* server is a directory whose names point at files, so that an open       *)
(* handle outlives a rename or a removal of its name.                      *)
(*                                                                         *)
(* Names are files (no subdirectory, no directory where a file should go); *)
(* contents are short sequences of bytes, each byte naming the version of  *)
(* the data it comes from; a new connection reaches the same host, and the *)
(* sftp of the auxiliary connection is not told from the primary one.      *)
(***************************************************************************)
EXTENDS Integers, Sequences, FiniteSets, SequencesExt

CONSTANTS
    Names,          \* files of the directory
    Versions,       \* what a file may be filled with
    Size,           \* the bytes of each version
    Inodes, FirstInode,   \* bound: files a disk can hold
    OldVersion,     \* what the server holds at first
    Saves, Creates, Renames, Deletes, Lists, Searches, Previews, Uploads, Downloads,  \* the calls
    Target,         \* the name a call is about; Directory for some deletes
    NewName,        \* of each rename
    Data,           \* the version each save writes
    Directory, None,
    Mixes,          \* bound: the calls of one behaviour, one of these sets
    MaxConnects     \* bound: connections in one behaviour

Kinds == <<Saves, Creates, Renames, Deletes, Lists, Searches, Previews, Uploads, Downloads>>
Calls ==
    Saves \cup Creates \cup Renames \cup Deletes \cup Lists \cup Searches \cup Previews
    \cup Uploads \cup Downloads

Final(n) == <<n, "final">>
Part(n)  == <<n, "part">>         \* toPartPath
Temp(s)  == <<Target[s], s>>      \* buildTemporaryPath: one name per save
Paths == Names \X ({"final", "part"} \cup Saves)

Whole(v) == [i \in 1..Size[v] |-> v]

ASSUME FilesAssumption ==
    /\ Size \in [Versions -> Nat] /\ OldVersion \in Versions
    /\ FirstInode \in Inodes
    /\ {"final", "part"} \cap Saves = {}
    /\ \A i, j \in 1..Len(Kinds) : i # j => Kinds[i] \cap Kinds[j] = {}
    /\ Target \in [Calls -> Names \cup {Directory}]
    /\ Directory \notin Names
    /\ \A c \in Calls \ Deletes : Target[c] \in Names
    /\ NewName \in [Renames -> Names]
    /\ \A c \in Renames : NewName[c] # Target[c]
    /\ Data \in [Saves -> Versions]
    /\ None \notin Inodes /\ None \notin Names
    /\ None \notin Seq(Versions \cup {None})
    /\ MaxConnects \in Nat \ {0}

VARIABLES
    conn,    \* "none", "shell" (no this.sftp) or "sftp"
    epoch,   \* connections so far
    fs,      \* the server: whether the directory exists, its names, the files
    cache,   \* this.directoryCache of the directory
    pc,      \* where each call is
    hand,    \* the remote file each call has open
    todo,    \* what a delete has yet to remove, or a list to store
    out      \* the write of each call: the connection it goes over, the bytes in place

fileVars == <<conn, epoch, fs, cache, pc, hand, todo, out>>

NoWrite == [via |-> 0, sent |-> 0]

Ended == {"off", "ok", "failed", "canceled", "conflict"}

FilesInit ==
    /\ conn = "sftp" /\ epoch = 1
    /\ \E old \in Names :      \* the one file there is
          fs = [dir |-> TRUE, data |-> [i \in Inodes |-> IF i = FirstInode THEN Whole(OldVersion) ELSE <<>>],
                entry |-> [p \in Paths |-> IF p = Final(old) THEN FirstInode ELSE None]]
    /\ cache = None
    /\ \E mix \in Mixes : pc = [c \in Calls |-> IF c \in mix THEN "idle" ELSE "off"]
    /\ hand = [c \in Calls |-> None]
    /\ todo = [c \in Calls |-> {}]
    /\ out = [c \in Calls |-> NoWrite]

-----------------------------------------------------------------------------
(* The server *)

Has(f, p) == f.entry[p] # None
Content(f, p) == f.data[f.entry[p]]
Free(f, open) == Inodes \ ({f.entry[p] : p \in Paths} \cup {open[c] : c \in DOMAIN open})
Visible(f) == {p \in Paths : Has(f, p) /\ p[2] # "part"}

(* Opening a path for writing truncates the file or makes one, other than   *)
(* the files that are open.                                                 *)
CanOpen(f, open, p) == f.dir /\ (Has(f, p) \/ Free(f, open) # {})
Opened(f, open, p) ==
    IF Has(f, p) THEN [f EXCEPT !.data[f.entry[p]] = <<>>]
    ELSE LET i == CHOOSE i \in Free(f, open) : TRUE
         IN  [f EXCEPT !.entry[p] = i, !.data[i] = <<>>]
Filled(f, i, bytes) == [f EXCEPT !.data[i] = bytes]
WriteAt(bytes, offset, b) ==
    [i \in 1..(IF offset >= Len(bytes) THEN offset + 1 ELSE Len(bytes)) |->
        IF i = offset + 1 THEN b ELSE IF i <= Len(bytes) THEN bytes[i] ELSE None]
Removed(f, p) == [f EXCEPT !.entry[p] = None]
\* Mutant: the old name of a renamed file stays.
Linked(f, p, q) == [f EXCEPT !.entry[q] = f.entry[p]]

Moved(f, p, q) == [f EXCEPT !.entry[q] = f.entry[p], !.entry[p] = None]

(* ext_openssh_rename and mv replace their target; SFTP's rename does not.  *)
CanReplace(f, p) == f.dir /\ Has(f, p)
CanRename(f, p, q) == f.dir /\ Has(f, p) /\ (conn = "sftp" => ~Has(f, q))

-----------------------------------------------------------------------------
(* The connection *)

Connect ==
    /\ conn = "none" /\ epoch < MaxConnects
    /\ conn' = "shell" /\ epoch' = epoch + 1 /\ cache' = None
    /\ UNCHANGED <<fs, pc, hand, todo, out>>

SftpReady ==
    /\ conn = "shell" /\ conn' = "sftp"
    /\ UNCHANGED <<epoch, fs, cache, pc, hand, todo, out>>

Disconnect ==
    /\ conn # "none"
    /\ conn' = "none" /\ cache' = None
    /\ UNCHANGED <<epoch, fs, pc, hand, todo, out>>

-----------------------------------------------------------------------------
(* Requests.  Done and failed are where c goes on a good and a bad reply.   *)

Go(c, where) == pc' = [pc EXCEPT ![c] = where]

Request(c, can, next, done, failed) ==
    \/ /\ conn # "none" /\ can
       /\ fs' = next
       /\ Go(c, done)
       /\ UNCHANGED <<conn, cache>>
    \/ Go(c, failed) /\ UNCHANGED <<conn, cache, fs>>
    \/ /\ conn # "none" /\ can      \* applied, and the reply lost
       /\ fs' = next
       /\ Go(c, failed)
       /\ conn' = "none" /\ cache' = None

(* writeRemoteFile: the file is opened with truncation, then written one    *)
(* byte after the other over the connection it was opened on, and closed.   *)
(* A write that fails, or whose connection is lost, leaves the bytes that   *)
(* were in place by then; two that overlap write into one another.          *)
OpenWrite(c, p, done, failed) ==
    /\ Request(c, CanOpen(fs, hand, p), Opened(fs, hand, p), done, failed)
    /\ hand' = [hand EXCEPT ![c] = IF pc'[c] = done THEN fs'.entry[p] ELSE None]
    /\ out' = [out EXCEPT ![c] = IF pc'[c] = done THEN [via |-> epoch, sent |-> 0] ELSE NoWrite]
    /\ UNCHANGED <<epoch, todo>>

WriteByte(c, bytes) ==
    /\ conn # "none" /\ out[c].via = epoch /\ out[c].sent < Len(bytes)
    /\ fs' = Filled(fs, hand[c], WriteAt(fs.data[hand[c]], out[c].sent, bytes[out[c].sent + 1]))
    /\ out' = [out EXCEPT ![c] = [via |-> epoch, sent |-> out[c].sent + 1]]
    /\ UNCHANGED <<conn, epoch, cache, pc, hand, todo>>

WriteEnds(c, bytes, done, failed) ==
    /\ Request(c, out[c].via = epoch /\ out[c].sent >= Len(bytes), fs, done, failed)
    /\ hand' = [hand EXCEPT ![c] = None]
    /\ out' = [out EXCEPT ![c] = NoWrite]
    /\ UNCHANGED <<epoch, todo>>

Write(c, bytes, done, failed) == WriteByte(c, bytes) \/ WriteEnds(c, bytes, done, failed)

Ask(c, can, next, done, failed) ==
    /\ Request(c, can, next, done, failed)
    /\ UNCHANGED <<epoch, hand, todo, out>>

-----------------------------------------------------------------------------
(* writeFileAtomic: a temporary file renamed into place; without that       *)
(* rename the target is unlinked first; without any, it is written over.    *)

\* Mutant: the rename does not wait for the data.
SaveTempUnawaited(s) == pc[s] = "idle" /\ OpenWrite(s, Temp(s), "swap", "cleanup")

SaveTemp(s) == pc[s] = "idle" /\ OpenWrite(s, Temp(s), "tempWrite", "cleanup")

SaveTempWrite(s) == pc[s] = "tempWrite" /\ Write(s, Whole(Data[s]), "swap", "cleanup")

SaveSwap(s) ==
    /\ pc[s] = "swap"
    /\ Ask(s, conn = "sftp" /\ CanReplace(fs, Temp(s)),
           Moved(fs, Temp(s), Final(Target[s])), "ok", "unlink")

SaveUnlink(s) ==
    /\ pc[s] = "unlink"
    /\ Ask(s, TRUE, Removed(fs, Final(Target[s])), "rename", "direct")

\* Mutant: a save whose rename fails is reported as saved.
SaveRenameUnchecked(s) ==
    /\ pc[s] = "rename"
    /\ Ask(s, CanRename(fs, Temp(s), Final(Target[s])),
           Moved(fs, Temp(s), Final(Target[s])), "ok", "ok")

SaveRename(s) ==
    /\ pc[s] = "rename"
    /\ Ask(s, CanRename(fs, Temp(s), Final(Target[s])),
           Moved(fs, Temp(s), Final(Target[s])), "ok", "direct")

SaveDirect(s) == pc[s] = "direct" /\ OpenWrite(s, Final(Target[s]), "directWrite", "cleanup")

\* Mutant: the temporary file is forgotten once the target is written over.
SaveDirectWriteLast(s) ==
    pc[s] = "directWrite" /\ Write(s, Whole(Data[s]), "ok", "cleanup")

SaveDirectWrite(s) ==
    pc[s] = "directWrite" /\ Write(s, Whole(Data[s]), "dropTemp", "cleanup")

SaveDropTemp(s) == pc[s] = "dropTemp" /\ Ask(s, TRUE, Removed(fs, Temp(s)), "ok", "cleanup")

SaveCleanup(s) == pc[s] = "cleanup" /\ Ask(s, TRUE, Removed(fs, Temp(s)), "failed", "failed")

Save(s) ==
    \/ SaveTemp(s) \/ SaveTempWrite(s) \/ SaveSwap(s) \/ SaveUnlink(s) \/ SaveRename(s)
    \/ SaveDirect(s) \/ SaveDirectWrite(s) \/ SaveDropTemp(s) \/ SaveCleanup(s)

-----------------------------------------------------------------------------
(* createEntry of a file, renameEntry, deleteEntry and readDir *)

CreateEntry(c) ==
    \/ pc[c] = "idle" /\ OpenWrite(c, Final(Target[c]), "createWrite", "failed")
    \/ pc[c] = "createWrite" /\ WriteEnds(c, <<>>, "applied", "failed")

RenameEntry(c) ==
    \/ /\ pc[c] = "idle"
       /\ Ask(c, conn = "sftp" /\ CanReplace(fs, Final(Target[c])),
              Moved(fs, Final(Target[c]), Final(NewName[c])), "applied", "renamePath")
    \/ /\ pc[c] = "renamePath"
       /\ Ask(c, CanRename(fs, Final(Target[c]), Final(NewName[c])),
              Moved(fs, Final(Target[c]), Final(NewName[c])), "applied", "failed")

\* Mutant: the cached listing is kept.
InvalidateNothing(c) ==
    /\ pc[c] = "applied" /\ Go(c, "ok")
    /\ UNCHANGED <<conn, epoch, fs, cache, hand, todo, out>>

(* invalidateDirectoryCache, once the change of a call is in place; what    *)
(* renameEntry reads after it may fail.                                     *)
Invalidate(c) ==
    /\ pc[c] = "applied"
    /\ cache' = None
    /\ \E result \in {"ok"} \cup (IF c \in Renames THEN {"failed"} ELSE {}) : Go(c, result)
    /\ UNCHANGED <<conn, epoch, fs, hand, todo, out>>

(* deleteRemotePath: a directory is listed with its part files, emptied one *)
(* entry at a time, then removed.                                           *)
DeleteList(c) ==
    /\ pc[c] = "idle"
    /\ \/ /\ conn # "none" /\ fs.dir
          /\ Target[c] # Directory /\ conn = "sftp" => Has(fs, Final(Target[c]))
          /\ todo' = [todo EXCEPT ![c] = IF Target[c] = Directory THEN {p \in Paths : Has(fs, p)}
                                         ELSE {Final(Target[c])}]
          /\ Go(c, "each")
       \/ Go(c, "failed") /\ UNCHANGED todo
    /\ UNCHANGED <<conn, epoch, fs, cache, hand, out>>

DeleteEach(c) ==
    /\ pc[c] = "each"
    /\ \E p \in todo[c] :
          /\ Request(c, TRUE, Removed(fs, p), "each", "failed")
          /\ todo' = [todo EXCEPT ![c] = IF pc'[c] = "each" THEN @ \ {p} ELSE {}]
    /\ UNCHANGED <<epoch, hand, out>>

DeleteLast(c) ==
    /\ pc[c] = "each" /\ todo[c] = {}
    /\ IF Target[c] = Directory
       THEN Ask(c, fs.dir /\ \A p \in Paths : ~Has(fs, p), [fs EXCEPT !.dir = FALSE], "applied", "failed")
       ELSE Go(c, "applied") /\ UNCHANGED <<conn, epoch, fs, cache, hand, todo, out>>

DeleteEntry(c) == DeleteList(c) \/ DeleteEach(c) \/ DeleteLast(c)

ReadDir(c) ==
    \/ /\ pc[c] = "idle"
       /\ Go(c, IF cache # None THEN "ok" ELSE "list")
       /\ UNCHANGED todo
    \/ /\ pc[c] = "list"
       /\ \/ /\ conn # "none" /\ fs.dir
             /\ todo' = [todo EXCEPT ![c] = Visible(fs)]
             /\ Go(c, "listed")
          \/ Go(c, "failed") /\ UNCHANGED todo

ReadDirReply(c) ==
    /\ pc[c] = "listed"
    /\ cache' = todo[c]
    /\ todo' = [todo EXCEPT ![c] = {}]
    /\ Go(c, "ok")

CacheExpires ==
    /\ cache # None /\ cache' = None
    /\ UNCHANGED <<conn, epoch, fs, pc, hand, todo, out>>

List(c) ==
    /\ \/ ReadDir(c) /\ UNCHANGED cache
       \/ ReadDirReply(c)
    /\ UNCHANGED <<conn, epoch, fs, hand, out>>

EntryNext ==
    \/ Connect \/ SftpReady \/ Disconnect \/ CacheExpires
    \/ \E s \in Saves : Save(s)
    \/ \E c \in Creates : CreateEntry(c)
    \/ \E c \in Renames : RenameEntry(c)
    \/ \E c \in Deletes : DeleteEntry(c)
    \/ \E c \in Calls : Invalidate(c)
    \/ \E c \in Lists : List(c)
=============================================================================
