----------------------------- MODULE RemoteReads -----------------------------
(***************************************************************************)
(* What src/main/ssh-session.ts reads for the user in bounded amounts: a   *)
(* search of the directory, by the server's ripgrep or, without a usable   *)
(* one, file by file (searchInFiles), and the preview of a binary file     *)
(* (readBinaryFile).                                                       *)
(*                                                                         *)
(* Matches are counted, in the order they are found; what they are, and    *)
(* whether the files change while they are searched, is left out.          *)
(***************************************************************************)
EXTENDS RemoteFiles

CONSTANTS
    HitsIn,         \* matches in each file
    MaxResults,     \* maxResults of each search
    MaxBytes        \* the preview limit

ASSUME ReadsAssumption ==
    /\ IsFiniteSet(Names) /\ None \notin {"0", "1", "scanned"}
    /\ HitsIn \in [Names -> Nat] /\ MaxResults \in [Searches -> Nat \ {0}] /\ MaxBytes \in Nat \ {0}

VARIABLES
    read,       \* matches ripgrep has sent; bytes a preview has received
    found,      \* matches.length of each search
    cut,        \* its truncated, which for ripgrep is stoppedEarly
    unscanned,  \* files a scan has not read
    exit        \* how ripgrep ended: an exit code, "lost", or None

readVars == <<read, found, cut, unscanned, exit>>

(* The matches in the files of S, each a file and a number in it.           *)
MatchesIn(S) == UNION {{n} \X (1..HitsIn[n]) : n \in S}

Hits == Cardinality(MatchesIn(Names))

ReadsInit ==
    /\ read = [c \in Searches \cup Previews |-> 0]
    /\ found = [c \in Searches |-> 0]
    /\ cut = [c \in Searches |-> FALSE]
    /\ unscanned = [c \in Searches |-> {}]
    /\ exit = [c \in Searches |-> None]

Least(x, y) == IF x < y THEN x ELSE y

-----------------------------------------------------------------------------
(* searchInFilesWithRipgrep.  An error that has the search fall back to a   *)
(* scan rejects the promise, and what the stream says later is ignored.     *)

FallBack(c) == Go(c, "scan") /\ unscanned' = [unscanned EXCEPT ![c] = Names]

SearchStart(c) ==
    /\ pc[c] = "idle"
    /\ \/ conn # "none" /\ Go(c, "ripgrep") /\ UNCHANGED unscanned
       \/ conn # "none" /\ FallBack(c)
       \/ Go(c, "failed") /\ UNCHANGED unscanned
    /\ UNCHANGED <<conn, epoch, fs, cache, hand, todo, out, read, found, cut, exit>>

(* processJsonLine: a line brings the matches of one line of text.          *)
MatchLine(c) ==
    /\ pc[c] = "ripgrep" /\ conn # "none"
    /\ \E k \in 1..(Hits - read[c]) :
          /\ read' = [read EXCEPT ![c] = @ + k]
          /\ found' = [found EXCEPT ![c] = Least(@ + k, MaxResults[c])]
          /\ cut' = [cut EXCEPT ![c] = @ \/ found[c] + k > MaxResults[c]]
    /\ UNCHANGED <<fileVars, unscanned, exit>>

NotJson(c) ==            \* or an error of the stream
    /\ pc[c] = "ripgrep"
    /\ FallBack(c)
    /\ UNCHANGED <<conn, epoch, fs, cache, hand, todo, out, read, found, cut, exit>>

(* ripgrep ends with 0 when it has sent its matches, with 1 when it has     *)
(* none, with 127 or a complaint when it cannot run, otherwise with 2; a    *)
(* stream that is lost has no exit code.  A stopped one ends anyhow.        *)
RipgrepCloses(c) ==
    /\ pc[c] = "ripgrep"
    /\ \E code \in {"0", "1", "2", "127", "lost"}, complains \in BOOLEAN :
          /\ code = "0" => read[c] = Hits /\ Hits > 0
          /\ code = "1" => Hits = 0
          /\ conn = "none" => code = "lost"
          /\ exit' = [exit EXCEPT ![c] = code]
          /\ IF cut[c] \/ code \in {"0", "1"} \/ (found[c] > 0 /\ ~complains)
             THEN Go(c, "ok") /\ UNCHANGED unscanned
             ELSE \/ (code = "127" \/ complains) /\ FallBack(c)
                  \/ code # "127" /\ Go(c, "failed") /\ UNCHANGED unscanned
    /\ UNCHANGED <<conn, epoch, fs, cache, hand, todo, out, read, found, cut>>

(* searchInFilesByScanning starts over, and takes the files one by one.     *)
ScanFile(c) ==
    /\ pc[c] = "scan" /\ conn # "none" /\ ~(exit[c] = "scanned" /\ cut[c])
    /\ \E n \in unscanned[c] :
          LET so_far == (IF exit[c] = "scanned" THEN found[c] ELSE 0) + HitsIn[n]
          IN  /\ found' = [found EXCEPT ![c] = Least(so_far, MaxResults[c])]
              /\ cut' = [cut EXCEPT ![c] = so_far >= MaxResults[c]]
              /\ unscanned' = [unscanned EXCEPT ![c] = @ \ {n}]
    /\ exit' = [exit EXCEPT ![c] = "scanned"]
    /\ UNCHANGED <<fileVars, read>>

ScanEnds(c) ==
    /\ pc[c] = "scan"
    /\ \/ exit[c] = "scanned" /\ (cut[c] \/ unscanned[c] = {}) /\ Go(c, "ok")
       \/ Go(c, "failed")          \* a directory or a file cannot be read
    /\ UNCHANGED <<conn, epoch, fs, cache, hand, todo, out, readVars>>

Search(c) ==
    SearchStart(c) \/ MatchLine(c) \/ NotJson(c) \/ RipgrepCloses(c) \/ ScanFile(c) \/ ScanEnds(c)

-----------------------------------------------------------------------------
(* readBinaryFile: the size is checked before the file is opened, and the   *)
(* bytes are counted as they come.                                          *)

PreviewStat(c) ==
    /\ pc[c] = "idle"
    /\ \/ /\ conn = "sftp" /\ Has(fs, Final(Target[c]))
          /\ LET size == Len(Content(fs, Final(Target[c])))
             IN  \/ size <= MaxBytes /\ Go(c, "open") /\ UNCHANGED read
                 \/ size <= MaxBytes /\ Go(c, "ok") /\ read' = [read EXCEPT ![c] = size]   \* readCached
       \/ Go(c, "failed") /\ UNCHANGED read
    /\ UNCHANGED <<conn, epoch, fs, cache, hand, todo, out, found, cut, unscanned, exit>>

PreviewOpen(c) ==
    /\ pc[c] = "open"
    /\ \/ /\ conn = "sftp" /\ Has(fs, Final(Target[c]))
          /\ hand' = [hand EXCEPT ![c] = fs.entry[Final(Target[c])]]
          /\ Go(c, "preview")
       \/ Go(c, "failed") /\ UNCHANGED hand
    /\ UNCHANGED <<conn, epoch, fs, cache, todo, out, readVars>>

\* Mutant: the bytes are not counted while they come.
PreviewChunkUncounted(c) ==
    /\ pc[c] = "preview" /\ conn = "sftp" /\ read[c] < Len(fs.data[hand[c]])
    /\ read' = [read EXCEPT ![c] = @ + 1]
    /\ UNCHANGED <<fileVars, found, cut, unscanned, exit>>

PreviewChunk(c) ==
    /\ pc[c] = "preview" /\ conn = "sftp" /\ read[c] < Len(fs.data[hand[c]])
    /\ IF read[c] + 1 > MaxBytes
       THEN Go(c, "failed") /\ hand' = [hand EXCEPT ![c] = None] /\ UNCHANGED read
       ELSE read' = [read EXCEPT ![c] = @ + 1] /\ UNCHANGED <<pc, hand>>
    /\ UNCHANGED <<conn, epoch, fs, cache, todo, out, found, cut, unscanned, exit>>

PreviewEnds(c) ==
    /\ pc[c] = "preview"
    /\ \/ conn = "sftp" /\ read[c] >= Len(fs.data[hand[c]]) /\ Go(c, "ok")
       \/ Go(c, "failed")
    /\ hand' = [hand EXCEPT ![c] = None]
    /\ UNCHANGED <<conn, epoch, fs, cache, todo, out, readVars>>

Preview(c) == PreviewStat(c) \/ PreviewOpen(c) \/ PreviewChunk(c) \/ PreviewEnds(c)

ReadsNext == (\E c \in Searches : Search(c)) \/ (\E c \in Previews : Preview(c))

-----------------------------------------------------------------------------
(* What the user is told of a search is true: never more matches than were  *)
(* asked for, and a result that is not marked as truncated holds every      *)
(* match, whether ripgrep found them, was stopped, or gave way to a scan;   *)
(* but for a ripgrep that gave no exit code of success.  A preview is never *)
(* larger than its limit, though the file may grow after it was measured.   *)
ReadsAreHonest ==
    /\ \A c \in Searches : pc[c] = "ok" =>
          /\ found[c] <= MaxResults[c]
          /\ exit[c] \in {"0", "1", "scanned"} /\ ~cut[c] => found[c] = Hits
    /\ \A c \in Previews : pc[c] = "ok" => read[c] <= MaxBytes
=============================================================================
