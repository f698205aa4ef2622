-------------------------- MODULE RemoteFilesProofs --------------------------
(***************************************************************************)
(* The remote files of a session, for any names, contents and calls: what  *)
(* a save keeps (TempIsWhole, SavePromise), what a transfer swaps into     *)
(* place (PartsAreWhole), what is left behind (NoLitter), what the         *)
(* explorer is shown (CacheIsCurrent) and what a search or a preview says  *)
(* it has left out (ReadsAreHonest).                                       *)
(***************************************************************************)
EXTENDS RemoteTransfers, FiniteSetTheorems, TLAPS

-----------------------------------------------------------------------------
(* Constants *)

LEMMA PathsDiffer ==
    /\ \A n \in Names : Final(n) \in Paths /\ Part(n) \in Paths
    /\ \A s \in Saves : Temp(s) \in Paths /\ Target[s] \in Names
    /\ \A m, n \in Names : Final(m) # Part(n)
    /\ \A n \in Names, s \in Saves : Temp(s) # Final(n) /\ Temp(s) # Part(n)
    /\ \A r, s \in Saves : Temp(r) = Temp(s) => r = s
    /\ \A m, n \in Names : (Final(m) = Final(n) \/ Part(m) = Part(n)) => m = n
<1>1. Kinds[1] = Saves /\ Kinds[4] = Deletes /\ Len(Kinds) = 9
    BY DEF Kinds
<1>2. Saves \cap Deletes = {}
    BY <1>1, FilesAssumption
<1>3. \A s \in Saves : Target[s] \in Names
    BY <1>2, FilesAssumption DEF Calls
<1> QED BY <1>3, FilesAssumption DEF Final, Part, Temp, Paths

LEMMA KindsDiffer ==
    /\ \A s \in Saves : s \notin Creates \cup Renames \cup Deletes \cup Lists \cup Searches
                             \cup Previews \cup Uploads \cup Downloads
    /\ \A t \in Transfers : t \notin Creates \cup Renames \cup Deletes \cup Lists \cup Searches
                             \cup Previews
    /\ \A c \in Creates \cup Renames \cup Deletes \cup Uploads :
          c \notin Lists \cup Searches \cup Previews \cup Downloads
    /\ \A c \in Lists : c \notin Searches \cup Previews
    /\ Searches \cap Previews = {} /\ Uploads \cap Downloads = {} /\ Deletes \cap (Creates \cup Renames) = {}
<1>1. /\ Kinds[1] = Saves /\ Kinds[2] = Creates /\ Kinds[3] = Renames /\ Kinds[4] = Deletes
      /\ Kinds[5] = Lists /\ Kinds[6] = Searches /\ Kinds[7] = Previews /\ Kinds[8] = Uploads
      /\ Kinds[9] = Downloads /\ Len(Kinds) = 9
    BY DEF Kinds
<1>2. \A i, j \in 1..9 : i # j => Kinds[i] \cap Kinds[j] = {}
    BY <1>1, FilesAssumption
<1>3. \A i \in 2..9 : Saves \cap Kinds[i] = {}
    BY <1>1, <1>2
<1>4. \A i \in 2..7 : Uploads \cap Kinds[i] = {} /\ Downloads \cap Kinds[i] = {}
    BY <1>1, <1>2
<1>5. \A i \in {5, 6, 7, 9} : /\ Creates \cap Kinds[i] = {} /\ Renames \cap Kinds[i] = {}
                              /\ Deletes \cap Kinds[i] = {} /\ Uploads \cap Kinds[i] = {}
    BY <1>1, <1>2
<1>6. /\ Lists \cap Searches = {} /\ Lists \cap Previews = {} /\ Searches \cap Previews = {}
      /\ Deletes \cap Creates = {} /\ Deletes \cap Renames = {}
    BY <1>1, <1>2
<1>7. /\ Saves \cap Creates = {} /\ Saves \cap Renames = {} /\ Saves \cap Deletes = {}
      /\ Saves \cap Lists = {} /\ Saves \cap Searches = {} /\ Saves \cap Previews = {}
      /\ Saves \cap Uploads = {} /\ Saves \cap Downloads = {}
    BY <1>1, <1>3
<1>8. /\ Uploads \cap Creates = {} /\ Uploads \cap Renames = {} /\ Uploads \cap Deletes = {}
      /\ Uploads \cap Lists = {} /\ Uploads \cap Searches = {} /\ Uploads \cap Previews = {}
      /\ Downloads \cap Creates = {} /\ Downloads \cap Renames = {} /\ Downloads \cap Deletes = {}
      /\ Downloads \cap Lists = {} /\ Downloads \cap Searches = {} /\ Downloads \cap Previews = {}
      /\ Uploads \cap Downloads = {}
    BY <1>1, <1>4, <1>5
<1> QED BY <1>1, <1>5, <1>6, <1>7, <1>8 DEF Transfers

LEMMA WholeIsSeq ==
    ASSUME NEW v \in Versions
    PROVE  /\ Whole(v) \in Seq(Bytes) /\ Len(Whole(v)) = Size[v] /\ Size[v] \in Nat
           /\ \A i \in 1..Size[v] : Whole(v)[i] = v
<1>1. Size[v] \in Nat /\ v \in Bytes
    BY FilesAssumption DEF Bytes
<1>2. Whole(v) \in [1..Size[v] -> Bytes]
    BY <1>1 DEF Whole
<1> QED BY <1>1, <1>2 DEF Whole

-----------------------------------------------------------------------------
(* A directory *)

Dirs == [dir : BOOLEAN, entry : [Paths -> Inodes \cup {None}], data : [Inodes -> Seq(Bytes)]]

Unshared(entry) == \A p, q \in Paths : entry[p] = entry[q] /\ entry[p] # None => p = q

LEMMA TreeIsDir == \A d : d \in Trees <=> d \in Dirs /\ Unshared(d.entry)
BY DEF Trees, Dirs, Unshared

\* d with p open as the file i, which no other name has, nor a call if it is new.
OpenedAs(d, open, p, i, g) ==
    /\ g.entry = [d.entry EXCEPT ![p] = i] /\ g.data = [d.data EXCEPT ![i] = <<>>]
    /\ \A q \in Paths : q # p => d.entry[q] # i
    /\ Has(d, p) => d.entry[p] = i
    /\ ~Has(d, p) => \A c \in DOMAIN open : open[c] # i

LEMMA OpenedIs ==
    ASSUME NEW d \in Trees, NEW open, NEW p \in Paths, CanOpen(d, open, p)
    PROVE  /\ Opened(d, open, p) \in Trees
           /\ \E i \in Inodes : OpenedAs(d, open, p, i, Opened(d, open, p))
<1>0. d \in Dirs
    BY TreeIsDir
<1>u. Unshared(d.entry)
    BY TreeIsDir
<1>1. CASE Has(d, p)
  <2> DEFINE i == d.entry[p]
  <2>1. i \in Inodes
      BY <1>0, <1>1 DEF Has, Dirs
  <2>2. Opened(d, open, p) = [dir |-> d.dir, entry |-> d.entry, data |-> [d.data EXCEPT ![i] = <<>>]]
      BY <1>0, <1>1 DEF Opened, Dirs
  <2>3. [d.entry EXCEPT ![p] = i] = d.entry
      BY <1>0 DEF Dirs
  <2>4. \A q \in Paths : q # p => d.entry[q] # i
      BY <1>u, <1>1 DEF Unshared, Has
  <2>5. <<>> \in Seq(Bytes)
      OBVIOUS
  <2>6a. Opened(d, open, p) \in Dirs
      BY <1>0, <2>1, <2>2, <2>5 DEF Dirs
  <2>6b. Unshared(Opened(d, open, p).entry)
      BY <1>0, <1>u, <2>1, <2>2, <2>5 DEF Dirs, Unshared
  <2>6. Opened(d, open, p) \in Trees
      BY <2>6a, <2>6b, TreeIsDir
  <2>7. /\ Opened(d, open, p).entry = [d.entry EXCEPT ![p] = i]
        /\ Opened(d, open, p).data = [d.data EXCEPT ![i] = <<>>]
      BY <2>2, <2>3
  <2>8. d.entry[p] = i
      OBVIOUS
  <2> HIDE DEF i
  <2> QED BY <1>1, <2>1, <2>4, <2>6, <2>7, <2>8 DEF OpenedAs
<1>2. CASE ~Has(d, p)
  <2> DEFINE i == CHOOSE i \in Free(d, open) : TRUE
  <2>1. i \in Free(d, open)
      BY <1>2 DEF CanOpen
  <2>2. i \in Inodes /\ \A q \in Paths : d.entry[q] # i
      BY <2>1 DEF Free
  <2>3. \A c \in DOMAIN open : open[c] # i
      BY <2>1 DEF Free
  <2>4. Opened(d, open, p) = [d EXCEPT !.entry[p] = i, !.data[i] = <<>>]
      BY <1>2 DEF Opened
  <2> HIDE DEF i
  <2>5. Opened(d, open, p) = [dir |-> d.dir, entry |-> [d.entry EXCEPT ![p] = i], data |-> [d.data EXCEPT ![i] = <<>>]]
      BY <1>0, <2>4 DEF Dirs
  <2>6a. Opened(d, open, p) \in Dirs
      BY <1>0, <2>2, <2>5 DEF Dirs
  <2>6b. Unshared(Opened(d, open, p).entry)
      BY <1>0, <1>u, <2>2, <2>5 DEF Dirs, Unshared
  <2>6. Opened(d, open, p) \in Trees
      BY <2>6a, <2>6b, TreeIsDir
  <2>7. /\ Opened(d, open, p).entry = [d.entry EXCEPT ![p] = i]
        /\ Opened(d, open, p).data = [d.data EXCEPT ![i] = <<>>]
      BY <2>5
  <2> QED BY <1>2, <2>2, <2>3, <2>6, <2>7 DEF OpenedAs
<1> QED BY <1>1, <1>2

LEMMA DirChanges ==
    ASSUME NEW d \in Dirs
    PROVE  /\ \A i, bytes : Filled(d, i, bytes) =
              [dir |-> d.dir, entry |-> d.entry, data |-> [d.data EXCEPT ![i] = bytes]]
           /\ \A p : Removed(d, p) =
              [dir |-> d.dir, entry |-> [d.entry EXCEPT ![p] = None], data |-> d.data]
           /\ \A p, q : Moved(d, p, q) =
              [dir |-> d.dir, entry |-> [d.entry EXCEPT ![q] = d.entry[p], ![p] = None], data |-> d.data]
<1>1. \A x : [d EXCEPT !.data = x] = [dir |-> d.dir, entry |-> d.entry, data |-> x]
    BY DEF Dirs
<1>2. \A x : [d EXCEPT !.entry = x] = [dir |-> d.dir, entry |-> x, data |-> d.data]
    BY DEF Dirs
<1>3. \A i, bytes : Filled(d, i, bytes) = [d EXCEPT !.data = [d.data EXCEPT ![i] = bytes]]
    BY DEF Filled
<1>4. \A p : Removed(d, p) = [d EXCEPT !.entry = [d.entry EXCEPT ![p] = None]]
    BY DEF Removed
<1>5. \A p, q : Moved(d, p, q) =
              [d EXCEPT !.entry = [d.entry EXCEPT ![q] = d.entry[p], ![p] = None]]
    BY DEF Moved
<1>6. \A i, bytes : Filled(d, i, bytes) =
              [dir |-> d.dir, entry |-> d.entry, data |-> [d.data EXCEPT ![i] = bytes]]
    BY <1>1, <1>3, Zenon
<1>7. \A p : Removed(d, p) =
              [dir |-> d.dir, entry |-> [d.entry EXCEPT ![p] = None], data |-> d.data]
    BY <1>2, <1>4, Zenon
<1>8. \A p, q : Moved(d, p, q) =
              [dir |-> d.dir, entry |-> [d.entry EXCEPT ![q] = d.entry[p], ![p] = None], data |-> d.data]
    BY <1>2, <1>5, Zenon
<1> QED BY <1>6, <1>7, <1>8

FilledAs(d, i, bytes, g) ==
    g \in Trees /\ g.entry = d.entry /\ g.data = [d.data EXCEPT ![i] = bytes]

LEMMA FilledIs ==
    ASSUME NEW d \in Trees, NEW i, NEW bytes \in Seq(Bytes)
    PROVE  FilledAs(d, i, bytes, Filled(d, i, bytes))
<1>0. d \in Dirs
    BY TreeIsDir
<1>u. Unshared(d.entry)
    BY TreeIsDir
<1>1. Filled(d, i, bytes) = [dir |-> d.dir, entry |-> d.entry, data |-> [d.data EXCEPT ![i] = bytes]]
    BY <1>0, DirChanges
<1>2d. [d.data EXCEPT ![i] = bytes] \in [Inodes -> Seq(Bytes)]
    BY <1>0 DEF Dirs
<1>2a. Filled(d, i, bytes) \in Dirs
    BY <1>0, <1>1, <1>2d DEF Dirs
<1>2b. Unshared(Filled(d, i, bytes).entry)
    BY <1>0, <1>u, <1>1 DEF Dirs, Unshared
<1>2. Filled(d, i, bytes) \in Trees
    BY <1>2a, <1>2b, TreeIsDir
<1> QED BY <1>1, <1>2 DEF FilledAs

LEMMA RemovedIs ==
    ASSUME NEW d \in Trees, NEW p \in Paths
    PROVE  /\ Removed(d, p) \in Trees
           /\ Removed(d, p).entry = [d.entry EXCEPT ![p] = None]
           /\ Removed(d, p).data = d.data
<1>0. d \in Dirs
    BY TreeIsDir
<1>u. Unshared(d.entry)
    BY TreeIsDir
<1>1. Removed(d, p) = [dir |-> d.dir, entry |-> [d.entry EXCEPT ![p] = None], data |-> d.data]
    BY <1>0, DirChanges
<1>2a. Removed(d, p) \in Dirs
    BY <1>0, <1>1 DEF Dirs
<1>2b. Unshared(Removed(d, p).entry)
    BY <1>0, <1>u, <1>1 DEF Dirs, Unshared
<1>2. Removed(d, p) \in Trees
    BY <1>2a, <1>2b, TreeIsDir
<1> QED BY <1>1, <1>2

LEMMA MovedIs ==
    ASSUME NEW d \in Trees, NEW p \in Paths, NEW q \in Paths, p # q
    PROVE  /\ Moved(d, p, q) \in Trees
           /\ Moved(d, p, q).entry = [d.entry EXCEPT ![q] = d.entry[p], ![p] = None]
           /\ Moved(d, p, q).data = d.data
<1>0. d \in Dirs
    BY TreeIsDir
<1>u. Unshared(d.entry)
    BY TreeIsDir
<1>1. Moved(d, p, q) = [dir |-> d.dir, entry |-> [d.entry EXCEPT ![q] = d.entry[p], ![p] = None], data |-> d.data]
    BY <1>0, DirChanges
<1>2a. Moved(d, p, q) \in Dirs
    BY <1>0, <1>1 DEF Dirs
<1>2b. Unshared(Moved(d, p, q).entry)
    BY <1>0, <1>u, <1>1 DEF Dirs, Unshared
<1>2. Moved(d, p, q) \in Trees
    BY <1>2a, <1>2b, TreeIsDir
<1> QED BY <1>1, <1>2

LEMMA DirIs ==
    ASSUME NEW d \in Trees, NEW b \in BOOLEAN
    PROVE  /\ [d EXCEPT !.dir = b] \in Trees
           /\ [d EXCEPT !.dir = b].entry = d.entry /\ [d EXCEPT !.dir = b].data = d.data
<1>0. d \in Dirs
    BY TreeIsDir
<1>u. Unshared(d.entry)
    BY TreeIsDir
<1>1. [d EXCEPT !.dir = b] = [dir |-> b, entry |-> d.entry, data |-> d.data]
    BY <1>0 DEF Dirs
<1>2a. [d EXCEPT !.dir = b] \in Dirs
    BY <1>0, <1>1 DEF Dirs
<1>2b. Unshared([d EXCEPT !.dir = b].entry)
    BY <1>0, <1>u, <1>1 DEF Dirs, Unshared
<1>2. [d EXCEPT !.dir = b] \in Trees
    BY <1>2a, <1>2b, TreeIsDir
<1> QED BY <1>1, <1>2

LEMMA SizesAreNat ==
    ASSUME NEW d \in Trees
    PROVE  /\ \A p \in Paths : PartSize(d, p) \in Nat
           /\ \A i \in Inodes : d.data[i] \in Seq(Bytes) /\ Len(d.data[i]) \in Nat
           /\ \A p \in Paths : Has(d, p) => d.entry[p] \in Inodes
           /\ \A p \in Paths : d.entry[p] \in Inodes \cup {None}
           /\ \A p \in Paths : Has(d, p) => Content(d, p) \in Seq(Bytes)
<1>1. d \in Dirs
    BY TreeIsDir
<1>2. \A i \in Inodes : d.data[i] \in Seq(Bytes) /\ Len(d.data[i]) \in Nat
    BY <1>1 DEF Dirs
<1>3. \A p \in Paths : d.entry[p] \in Inodes \cup {None}
    BY <1>1 DEF Dirs
<1> QED BY <1>2, <1>3 DEF PartSize, Content, Has

LEMMA WriteAtIsSeq ==
    ASSUME NEW bytes \in Seq(Bytes), NEW offset \in Nat, NEW b \in Bytes
    PROVE  /\ WriteAt(bytes, offset, b) \in Seq(Bytes)
           /\ offset = Len(bytes) => /\ Len(WriteAt(bytes, offset, b)) = offset + 1
                                     /\ \A i \in 1..offset : WriteAt(bytes, offset, b)[i] = bytes[i]
                                     /\ WriteAt(bytes, offset, b)[offset + 1] = b
<1> DEFINE n == IF offset >= Len(bytes) THEN offset + 1 ELSE Len(bytes)
<1>1. n \in Nat /\ Len(bytes) \in Nat
    OBVIOUS
<1>2. \A i \in 1..n : i <= Len(bytes) => bytes[i] \in Bytes
    OBVIOUS
<1>3. WriteAt(bytes, offset, b) =
        [i \in 1..n |-> IF i = offset + 1 THEN b ELSE IF i <= Len(bytes) THEN bytes[i] ELSE None]
    BY DEF WriteAt
<1>4. None \in Bytes
    BY DEF Bytes
<1>5. WriteAt(bytes, offset, b) \in [1..n -> Bytes]
    BY <1>2, <1>3, <1>4
<1>6. WriteAt(bytes, offset, b) \in Seq(Bytes) /\ Len(WriteAt(bytes, offset, b)) = n
    BY <1>1, <1>5
<1> QED BY <1>1, <1>3, <1>6

\* The first n bytes of a version, and what a write makes of them.
LEMMA BegunIs ==
    ASSUME NEW v \in Versions
    PROVE  /\ SubSeq(Whole(v), 1, 0) = <<>> /\ SubSeq(Whole(v), 1, Size[v]) = Whole(v)
           /\ \A n \in Nat : n < Size[v] =>
                 WriteAt(SubSeq(Whole(v), 1, n), n, Whole(v)[n + 1]) = SubSeq(Whole(v), 1, n + 1)
<1>0. /\ Size[v] \in Nat /\ Whole(v) \in Seq(Bytes) /\ Len(Whole(v)) = Size[v]
      /\ Whole(v) = [i \in 1..Size[v] |-> v]
    BY WholeIsSeq DEF Whole
<1>1. \A n \in 0..Size[v] : SubSeq(Whole(v), 1, n) = [i \in 1..n |-> v]
    BY <1>0
<1>2. SubSeq(Whole(v), 1, 0) = <<>>
    BY <1>0
<1>3. SubSeq(Whole(v), 1, Size[v]) = Whole(v)
    BY <1>0, <1>1
<1>4. ASSUME NEW n \in Nat, n < Size[v]
      PROVE  WriteAt(SubSeq(Whole(v), 1, n), n, Whole(v)[n + 1]) = SubSeq(Whole(v), 1, n + 1)
  <2>1. /\ SubSeq(Whole(v), 1, n) = [i \in 1..n |-> v] /\ SubSeq(Whole(v), 1, n + 1) = [i \in 1..(n + 1) |-> v]
        /\ Whole(v)[n + 1] = v
      BY <1>0, <1>1, <1>4
  <2> DEFINE w == [i \in 1..n |-> v]
  <2>2. Len(w) = n /\ \A i \in 1..n : w[i] = v
      BY <1>4
  <2>3. WriteAt(w, n, v) = [i \in 1..(n + 1) |-> IF i = n + 1 THEN v ELSE IF i <= n THEN w[i] ELSE None]
      BY <2>2, <1>4 DEF WriteAt
  <2>4. WriteAt(w, n, v) = [i \in 1..(n + 1) |-> v]
      BY <2>2, <2>3, <1>4
  <2> QED BY <2>1, <2>4
<1> QED BY <1>2, <1>3, <1>4

-----------------------------------------------------------------------------
(* What one call does: it moves itself, and the server by one request.      *)

\* Where a call has a file of the server open, and where a transfer is at a file.
Holding == {"tempWrite", "directWrite", "createWrite", "preview", "stream"}
AtFile ==
    {"ensure", "stat", "open", "stream", "into", "clear", "swap", "rm", "rename",
     "shellOpen", "shellWrite"}

Holds(c, place) == place \in Holding \/ (c \in Uploads /\ place = "shellWrite")

TypeInv ==
    /\ TypeOK
    /\ \A c \in Calls : Holds(c, pc[c]) => hand[c] \in Inodes
    /\ \A t \in Downloads : pc[t] = "stream" => lhand[t] \in Inodes
    /\ \A t \in Transfers : pc[t] \in AtFile => cur[t] \in Names
    /\ \A s \in Saves : pc[s] # "applied"

\* The names a call may open, and may make: a new name of anything else is a renamed one.
Finds(c) == {Final(n) : n \in Names} \cup {Part(n) : n \in {m \in Names : c \in Uploads}}
Makes(c) == Finds(c) \cup {Temp(s) : s \in Saves \cap {c}}

Keeps(c) == hand'[c] \in {None, hand[c]}

ServerStep(c) ==
    \/ fs' = fs /\ Keeps(c)
    \/ fs' = fs /\ \E p \in Finds(c) : hand'[c] = fs.entry[p]
    \/ \E p \in Makes(c) :
          /\ CanOpen(fs, hand, p) /\ fs' = Opened(fs, hand, p)
          /\ hand'[c] \in {None, fs'.entry[p]}
    \/ \E bytes \in Seq(Bytes) : fs' = Filled(fs, hand[c], bytes) /\ Keeps(c)
    \/ \E p \in Paths : fs' = Removed(fs, p) /\ Keeps(c)
    \/ \E p \in Makes(c), n \in Names :
          p # Final(n) /\ Has(fs, p) /\ fs' = Moved(fs, p, Final(n)) /\ Keeps(c)
    \/ \E b \in BOOLEAN : fs' = [fs EXCEPT !.dir = b] /\ Keeps(c)

Moves(c) ==
    /\ pc' = [pc EXCEPT ![c] = pc'[c]] /\ pc'[c] \in Places
    /\ hand' = [hand EXCEPT ![c] = hand'[c]]
    /\ todo' = [todo EXCEPT ![c] = todo'[c]] /\ todo'[c] \in SUBSET Paths
    /\ conn' \in {"none", "shell", "sftp"} /\ epoch' = epoch
    /\ cache' \in {cache, None, todo[c]}
    /\ Holds(c, pc'[c]) => hand'[c] # None
    /\ ServerStep(c)

\* What a step does to the writes that are under way.
Outs == [via : 0..MaxConnects, sent : Nat]

Puts(c) == out' = [out EXCEPT ![c] = out'[c]] /\ out'[c] \in Outs

LEMMA OutTyped ==
    ASSUME TypeInv
    PROVE  /\ out \in [Calls -> Outs] /\ NoWrite \in Outs
           /\ \A n \in Nat : [via |-> epoch, sent |-> n] \in Outs
           /\ \A c \in Calls : out[c].sent \in Nat
           /\ out' = out => \A c \in Calls : Puts(c)
BY FilesAssumption DEF TypeInv, TypeOK, Outs, NoWrite, Puts

LEMMA MakesPaths == \A c \in Calls : Makes(c) \subseteq Paths
BY PathsDiffer DEF Makes, Finds

LEMMA OpenMoves ==
    ASSUME TypeInv, NEW c \in Calls, NEW p \in Makes(c), NEW done \in Places, NEW failed \in Places,
           done # failed, ~Holds(c, failed),
           Request(c, CanOpen(fs, hand, p), Opened(fs, hand, p), done, failed),
           hand' = [hand EXCEPT ![c] = IF pc'[c] = done THEN fs'.entry[p] ELSE None],
           UNCHANGED <<epoch, todo>>
    PROVE  /\ Moves(c) /\ pc'[c] \in {done, failed}
           /\ pc'[c] = done => hand'[c] = fs'.entry[p]
<1>0. /\ pc \in [Calls -> Places] /\ hand \in [Calls -> Inodes \cup {None}]
      /\ todo \in [Calls -> SUBSET Paths] /\ conn \in {"none", "shell", "sftp"}
      /\ fs \in Trees /\ p \in Paths /\ None \notin Inodes
    BY MakesPaths, FilesAssumption DEF TypeInv, TypeOK
<1>1. CASE CanOpen(fs, hand, p) /\ fs' = Opened(fs, hand, p)
  <2>0. PICK i \in Inodes : OpenedAs(fs, hand, p, i, fs')
      BY <1>0, <1>1, OpenedIs, Zenon
  <2>1. fs'.entry[p] \in Inodes
      BY <1>0, <2>0, TreeIsDir DEF Dirs, OpenedAs
  <2>2. hand'[c] \in {None, fs'.entry[p]} /\ (pc'[c] = done => hand'[c] = fs'.entry[p])
      BY <1>0
  <2>3. ServerStep(c)
      BY <1>1, <2>2 DEF ServerStep
  <2>4. /\ pc' = [pc EXCEPT ![c] = pc'[c]] /\ pc'[c] \in {done, failed}
        /\ conn' \in {"none", "shell", "sftp"} /\ cache' \in {cache, None}
      BY <1>0 DEF Request, Go
  <2>5. hand' = [hand EXCEPT ![c] = hand'[c]] /\ todo' = [todo EXCEPT ![c] = todo'[c]] /\ todo'[c] \in SUBSET Paths
      BY <1>0
  <2>6. Holds(c, pc'[c]) => hand'[c] # None
      BY <1>0, <2>1, <2>2, <2>4
  <2> QED BY <2>2, <2>3, <2>4, <2>5, <2>6 DEF Moves
<1>2. CASE fs' = fs /\ pc' = [pc EXCEPT ![c] = failed]
  <2>1. pc'[c] = failed /\ hand'[c] = None /\ hand' = [hand EXCEPT ![c] = None]
      BY <1>0, <1>2
  <2>2. conn' \in {"none", "shell", "sftp"} /\ cache' \in {cache, None}
      BY <1>0 DEF Request
  <2>3. todo' = [todo EXCEPT ![c] = todo'[c]] /\ todo'[c] \in SUBSET Paths
      BY <1>0
  <2> QED BY <1>2, <2>1, <2>2, <2>3 DEF Moves, ServerStep, Keeps
<1> QED BY <1>1, <1>2 DEF Request, Go

LEMMA OpenWriteMoves ==
    ASSUME TypeInv, NEW c \in Calls, NEW p \in Makes(c), NEW done \in Places, NEW failed \in Places,
           done # failed, ~Holds(c, failed), OpenWrite(c, p, done, failed)
    PROVE  /\ Moves(c) /\ Puts(c) /\ pc'[c] \in {done, failed}
           /\ pc'[c] = done => hand'[c] = fs'.entry[p] /\ out'[c].sent = 0
<1>2. /\ Request(c, CanOpen(fs, hand, p), Opened(fs, hand, p), done, failed)
      /\ hand' = [hand EXCEPT ![c] = IF pc'[c] = done THEN fs'.entry[p] ELSE None]
      /\ UNCHANGED <<epoch, todo>>
    BY DEF OpenWrite
<1>3. Moves(c) /\ pc'[c] \in {done, failed} /\ (pc'[c] = done => hand'[c] = fs'.entry[p])
    BY <1>2, OpenMoves, Zenon
<1>4. Puts(c) /\ (pc'[c] = done => out'[c].sent = 0)
  <2>1. PICK w \in {[via |-> epoch, sent |-> 0], NoWrite} : out' = [out EXCEPT ![c] = w]
      BY DEF OpenWrite
  <2>2. w \in Outs /\ w.sent = 0 /\ out \in [Calls -> Outs]
      BY OutTyped DEF NoWrite
  <2> QED BY <2>1, <2>2 DEF Puts
<1> QED BY <1>3, <1>4

\* A write of its bytes, one after the other, and the end of it.
ByteIn(c, bytes) == WriteAt(fs.data[hand[c]], out[c].sent, bytes[out[c].sent + 1])

LEMMA WriteByteMoves ==
    ASSUME TypeInv, NEW c \in Calls, NEW bytes \in Seq(Bytes), Holds(c, pc[c]), WriteByte(c, bytes)
    PROVE  /\ Moves(c) /\ Puts(c) /\ UNCHANGED <<pc, hand>>
           /\ FilledAs(fs, hand[c], ByteIn(c, bytes), fs')
           /\ out[c].sent < Len(bytes) /\ out'[c].sent = out[c].sent + 1
<1>0. /\ hand[c] \in Inodes /\ fs \in Trees /\ out[c].sent \in Nat /\ out \in [Calls -> Outs]
      /\ pc \in [Calls -> Places] /\ hand \in [Calls -> Inodes \cup {None}] /\ None \notin Inodes
      /\ todo \in [Calls -> SUBSET Paths] /\ conn \in {"none", "shell", "sftp"}
    BY OutTyped, FilesAssumption DEF TypeInv, TypeOK
<1>1. /\ out[c].sent < Len(bytes) /\ UNCHANGED <<conn, epoch, cache, pc, hand, todo>>
      /\ fs' = Filled(fs, hand[c], ByteIn(c, bytes))
      /\ out' = [out EXCEPT ![c] = [via |-> epoch, sent |-> out[c].sent + 1]]
    BY DEF WriteByte, ByteIn
<1>2. bytes[out[c].sent + 1] \in Bytes /\ fs.data[hand[c]] \in Seq(Bytes)
    BY <1>0, <1>1, SizesAreNat
<1>3. ByteIn(c, bytes) \in Seq(Bytes)
    BY <1>0, <1>2, WriteAtIsSeq DEF ByteIn
<1>4. FilledAs(fs, hand[c], ByteIn(c, bytes), fs')
    BY <1>0, <1>1, <1>3, FilledIs
<1>5. Moves(c)
    BY <1>0, <1>1, <1>3 DEF Moves, ServerStep, Keeps
<1>6. Puts(c) /\ out'[c].sent = out[c].sent + 1
  <2>1. PICK n \in Nat : n = out[c].sent + 1
      BY <1>0
  <2>2. [via |-> epoch, sent |-> n] \in Outs /\ out' = [out EXCEPT ![c] = [via |-> epoch, sent |-> n]]
      BY <1>1, <2>1, OutTyped
  <2> QED BY <1>0, <2>1, <2>2 DEF Puts
<1> QED BY <1>1, <1>4, <1>5, <1>6

LEMMA WriteEndsMoves ==
    ASSUME TypeInv, NEW c \in Calls, NEW bytes \in Seq(Bytes), NEW done \in Places, NEW failed \in Places,
           ~Holds(c, done), ~Holds(c, failed), WriteEnds(c, bytes, done, failed)
    PROVE  /\ Moves(c) /\ Puts(c) /\ fs' = fs /\ hand' = [hand EXCEPT ![c] = None]
           /\ pc'[c] \in {done, failed}
           /\ pc'[c] = done /\ done # failed => out[c].sent >= Len(bytes)
<1>0. /\ out \in [Calls -> Outs] /\ NoWrite \in Outs
      /\ pc \in [Calls -> Places] /\ hand \in [Calls -> Inodes \cup {None}] /\ None \notin Inodes
      /\ todo \in [Calls -> SUBSET Paths] /\ conn \in {"none", "shell", "sftp"}
    BY OutTyped, FilesAssumption DEF TypeInv, TypeOK
<1>1. /\ fs' = fs /\ hand' = [hand EXCEPT ![c] = None] /\ UNCHANGED <<epoch, todo>>
      /\ out' = [out EXCEPT ![c] = NoWrite]
      /\ conn' \in {conn, "none"} /\ cache' \in {cache, None}
      /\ pc' = [pc EXCEPT ![c] = done] \/ pc' = [pc EXCEPT ![c] = failed]
      /\ pc' = [pc EXCEPT ![c] = failed] \/ out[c].sent >= Len(bytes)
    BY DEF WriteEnds, Request, Go
<1>2. pc'[c] \in {done, failed} /\ (pc'[c] = done /\ done # failed => out[c].sent >= Len(bytes))
    BY <1>0, <1>1
<1>3. Moves(c)
    BY <1>0, <1>1, <1>2 DEF Moves, ServerStep, Keeps
<1>4. Puts(c)
    BY <1>0, <1>1 DEF Puts
<1> QED BY <1>1, <1>2, <1>3, <1>4

LEMMA SaveMoves ==
    ASSUME TypeInv, NEW s \in Saves, Save(s)
    PROVE  Moves(s) /\ Puts(s) /\ pc'[s] # "applied"
<1>0. /\ s \in Calls /\ s \notin Uploads
      /\ pc \in [Calls -> Places] /\ hand \in [Calls -> Inodes \cup {None}]
      /\ todo \in [Calls -> SUBSET Paths] /\ conn \in {"none", "shell", "sftp"}
      /\ Target[s] \in Names /\ Temp(s) \in Makes(s) /\ Temp(s) \in Paths
      /\ Final(Target[s]) \in Makes(s) /\ Final(Target[s]) \in Paths /\ Temp(s) # Final(Target[s])
      /\ Data[s] \in Versions /\ Whole(Data[s]) \in Seq(Bytes)
    BY PathsDiffer, KindsDiffer, FilesAssumption, WholeIsSeq DEF TypeInv, TypeOK, Calls, Makes, Finds
<1>p. ASSUME out' = out PROVE Puts(s)
    BY <1>0, <1>p, OutTyped
<1>w. ASSUME NEW done \in {"swap", "dropTemp"}, pc[s] \in {"tempWrite", "directWrite"},
             Write(s, Whole(Data[s]), done, "cleanup")
      PROVE  Moves(s) /\ Puts(s) /\ pc'[s] # "applied"
  <2>1. /\ done \in Places /\ "cleanup" \in Places /\ ~Holds(s, done) /\ ~Holds(s, "cleanup")
        /\ Holds(s, pc[s])
      BY <1>0, <1>w DEF Places, Holds, Holding
  <2>2. CASE WriteByte(s, Whole(Data[s]))
      BY <1>0, <1>w, <2>1, <2>2, WriteByteMoves
  <2>3. CASE WriteEnds(s, Whole(Data[s]), done, "cleanup")
    <3>1. Moves(s) /\ Puts(s) /\ pc'[s] \in {done, "cleanup"}
        BY <1>0, <2>1, <2>3, WriteEndsMoves, Zenon
    <3> QED BY <3>1
  <2> QED BY <1>w, <2>2, <2>3 DEF Write
<1>1. CASE SaveTemp(s)
  <2>1. OpenWrite(s, Temp(s), "tempWrite", "cleanup")
      BY <1>1 DEF SaveTemp
  <2>2. "tempWrite" \in Places /\ "cleanup" \in Places /\ ~Holds(s, "cleanup")
      BY <1>0 DEF Places, Holds, Holding
  <2>3. Moves(s) /\ Puts(s) /\ pc'[s] \in {"tempWrite", "cleanup"}
      BY <1>0, <2>1, <2>2, OpenWriteMoves, Zenon
  <2> QED BY <2>3
<1>2. CASE SaveTempWrite(s)
    BY <1>2, <1>w DEF SaveTempWrite
<1>3. CASE SaveSwap(s)
    BY <1>0, <1>p, <1>3 DEF SaveSwap, Ask, Request, Go, CanReplace, Moves, ServerStep, Keeps, Holds, Holding, Places, Ended
<1>4. CASE SaveUnlink(s)
    BY <1>0, <1>p, <1>4 DEF SaveUnlink, Ask, Request, Go, Moves, ServerStep, Keeps, Holds, Holding, Places, Ended
<1>5. CASE SaveRename(s)
    BY <1>0, <1>p, <1>5 DEF SaveRename, Ask, Request, Go, CanRename, Moves, ServerStep, Keeps, Holds, Holding, Places, Ended
<1>6. CASE SaveDirect(s)
  <2>1. OpenWrite(s, Final(Target[s]), "directWrite", "cleanup")
      BY <1>6 DEF SaveDirect
  <2>2. "directWrite" \in Places /\ "cleanup" \in Places /\ ~Holds(s, "cleanup")
      BY <1>0 DEF Places, Holds, Holding
  <2>3. Moves(s) /\ Puts(s) /\ pc'[s] \in {"directWrite", "cleanup"}
      BY <1>0, <2>1, <2>2, OpenWriteMoves, Zenon
  <2> QED BY <2>3
<1>7. CASE SaveDirectWrite(s)
    BY <1>7, <1>w DEF SaveDirectWrite
<1>8. CASE SaveDropTemp(s)
    BY <1>0, <1>p, <1>8 DEF SaveDropTemp, Ask, Request, Go, Moves, ServerStep, Keeps, Holds, Holding, Places, Ended
<1>9. CASE SaveCleanup(s)
    BY <1>0, <1>p, <1>9 DEF SaveCleanup, Ask, Request, Go, Moves, ServerStep, Keeps, Holds, Holding, Places, Ended
<1> QED BY <1>1, <1>2, <1>3, <1>4, <1>5, <1>6, <1>7, <1>8, <1>9 DEF Save

LEMMA CallTyped ==
    ASSUME TypeInv, NEW c \in Calls
    PROVE  /\ pc \in [Calls -> Places] /\ hand \in [Calls -> Inodes \cup {None}]
           /\ todo \in [Calls -> SUBSET Paths] /\ conn \in {"none", "shell", "sftp"}
           /\ Holds(c, pc[c]) => hand[c] \in Inodes /\ hand[c] # None
           /\ None \notin Inodes /\ fs \in Trees /\ Makes(c) \subseteq Paths
           /\ \A n \in Names : Final(n) \in Finds(c) /\ Final(n) \in Makes(c) /\ Final(n) \in Paths
BY MakesPaths, PathsDiffer, FilesAssumption DEF TypeInv, TypeOK, Makes, Finds

LEMMA CreateMoves == ASSUME TypeInv, NEW c \in Creates, CreateEntry(c) PROVE Moves(c) /\ Puts(c)
<1>0. c \in Calls /\ Target[c] \in Names
    BY KindsDiffer, FilesAssumption DEF Calls
<1>1. CASE pc[c] = "idle" /\ OpenWrite(c, Final(Target[c]), "createWrite", "failed")
  <2>1. "createWrite" \in Places /\ "failed" \in Places /\ ~Holds(c, "failed")
      BY DEF Places, Ended, Holds, Holding
  <2>2. Final(Target[c]) \in Makes(c)
      BY <1>0, CallTyped
  <2> QED BY <1>0, <1>1, <2>1, <2>2, OpenWriteMoves, Zenon
<1>2. CASE pc[c] = "createWrite" /\ WriteEnds(c, <<>>, "applied", "failed")
  <2>1. <<>> \in Seq(Bytes)
      OBVIOUS
  <2>2. c \notin Uploads
      BY KindsDiffer DEF Transfers
  <2>3. "applied" \in Places /\ "failed" \in Places /\ ~Holds(c, "applied") /\ ~Holds(c, "failed")
      BY <2>2 DEF Places, Ended, Holds, Holding
  <2> QED BY <1>0, <1>2, <2>1, <2>3, WriteEndsMoves, Zenon
<1> QED BY <1>1, <1>2 DEF CreateEntry

LEMMA RenameMoves == ASSUME TypeInv, NEW c \in Renames, RenameEntry(c) PROVE Moves(c)
<1>0. /\ c \in Calls /\ Target[c] \in Names /\ NewName[c] \in Names
      /\ Final(Target[c]) # Final(NewName[c]) /\ Final(Target[c]) \in Makes(c)
    BY KindsDiffer, FilesAssumption, PathsDiffer DEF Calls, Makes, Finds
<1>1. CASE /\ pc[c] = "idle"
           /\ Ask(c, conn = "sftp" /\ CanReplace(fs, Final(Target[c])),
                  Moved(fs, Final(Target[c]), Final(NewName[c])), "applied", "renamePath")
    BY <1>0, <1>1, CallTyped
       DEF Ask, Request, Go, CanReplace, Moves, ServerStep, Keeps, Holds, Holding, Places, Ended
<1>2. CASE /\ pc[c] = "renamePath"
           /\ Ask(c, CanRename(fs, Final(Target[c]), Final(NewName[c])),
                  Moved(fs, Final(Target[c]), Final(NewName[c])), "applied", "failed")
    BY <1>0, <1>2, CallTyped
       DEF Ask, Request, Go, CanRename, Moves, ServerStep, Keeps, Holds, Holding, Places, Ended
<1> QED BY <1>1, <1>2 DEF RenameEntry

LEMMA DeleteMoves == ASSUME TypeInv, NEW c \in Deletes, DeleteEntry(c) PROVE Moves(c)
<1>0. c \in Calls /\ (Target[c] # Directory => Final(Target[c]) \in Paths)
    BY FilesAssumption, PathsDiffer DEF Calls
<1>1. CASE DeleteList(c)
    BY <1>0, <1>1, CallTyped
       DEF DeleteList, Go, Moves, ServerStep, Keeps, Holds, Holding, Places, Ended
<1>2. CASE DeleteEach(c)
  <2>1. PICK p \in todo[c] : Request(c, TRUE, Removed(fs, p), "each", "failed")
      BY <1>2 DEF DeleteEach
  <2>2. p \in Paths
      BY <1>0, CallTyped
  <2>3. ServerStep(c)
      BY <1>2, <2>1, <2>2 DEF DeleteEach, Request, ServerStep, Keeps
  <2>4. todo' = [todo EXCEPT ![c] = todo'[c]] /\ todo'[c] \in SUBSET Paths
      BY <1>0, <1>2, CallTyped DEF DeleteEach
  <2> QED BY <1>0, <1>2, <2>1, <2>3, <2>4, CallTyped
          DEF DeleteEach, Request, Go, Moves, Holds, Holding, Places, Ended
<1>3. CASE DeleteLast(c)
    BY <1>0, <1>3, CallTyped, ZenonT(60)
       DEF DeleteLast, Ask, Request, Go, Moves, ServerStep, Keeps, Holds, Holding, Places, Ended
<1> QED BY <1>1, <1>2, <1>3 DEF DeleteEntry

LEMMA InvalidateMoves == ASSUME TypeInv, NEW c \in Calls, Invalidate(c) PROVE Moves(c)
BY CallTyped DEF Invalidate, Go, Moves, ServerStep, Keeps, Holds, Holding, Places, Ended

LEMMA ListMoves == ASSUME TypeInv, NEW c \in Lists, List(c) PROVE Moves(c) /\ fs' = fs
<1>0. c \in Calls
    BY DEF Calls
<1>1. CASE ReadDir(c) /\ UNCHANGED cache
    BY <1>0, <1>1, CallTyped
       DEF List, ReadDir, ReadDirReply, Visible, Go, Moves, ServerStep, Keeps, Holds, Holding, Places, Ended
<1>2. CASE ReadDirReply(c)
    BY <1>0, <1>2, CallTyped
       DEF List, ReadDir, ReadDirReply, Go, Moves, ServerStep, Keeps, Holds, Holding, Places, Ended
<1> QED BY <1>1, <1>2 DEF List

LEMMA SearchMoves == ASSUME TypeInv, NEW c \in Searches, Search(c) PROVE Moves(c) /\ UNCHANGED <<fs, cache, todo>>
<1>0. c \in Calls
    BY DEF Calls
<1>1. CASE SearchStart(c)
    BY <1>0, <1>1, CallTyped
       DEF SearchStart, FallBack, Go, Moves, ServerStep, Keeps, Holds, Holding, Places, Ended
<1>2. CASE MatchLine(c) \/ ScanFile(c)
  <2>1. UNCHANGED fileVars
      BY <1>2 DEF MatchLine, ScanFile
  <2> QED BY <1>0, <2>1, CallTyped DEF fileVars, Moves, ServerStep, Keeps
<1>3. CASE NotJson(c)
    BY <1>0, <1>3, CallTyped
       DEF NotJson, FallBack, Go, Moves, ServerStep, Keeps, Holds, Holding, Places, Ended
<1>4. CASE RipgrepCloses(c)
  <2>1. /\ UNCHANGED <<conn, epoch, fs, cache, hand, todo>>
        /\ Go(c, "ok") \/ Go(c, "scan") \/ Go(c, "failed")
      BY <1>4 DEF RipgrepCloses, FallBack
  <2> QED BY <1>0, <2>1, CallTyped
          DEF Go, Moves, ServerStep, Keeps, Holds, Holding, Places, Ended
<1>5. CASE ScanEnds(c)
    BY <1>0, <1>5, CallTyped
       DEF ScanEnds, Go, Moves, ServerStep, Keeps, Holds, Holding, Places, Ended
<1> QED BY <1>1, <1>2, <1>3, <1>4, <1>5 DEF Search

LEMMA PreviewMoves == ASSUME TypeInv, NEW c \in Previews, Preview(c) PROVE Moves(c) /\ UNCHANGED <<fs, cache, todo>>
<1>0. c \in Calls /\ Target[c] \in Names
    BY KindsDiffer, FilesAssumption, PathsDiffer DEF Calls
<1>1. CASE PreviewStat(c)
  <2>1. /\ UNCHANGED <<conn, epoch, fs, cache, hand, todo>>
        /\ Go(c, "ok") \/ Go(c, "open") \/ Go(c, "failed")
      BY <1>1 DEF PreviewStat
  <2> QED BY <1>0, <2>1, CallTyped
          DEF Go, Moves, ServerStep, Keeps, Holds, Holding, Places, Ended
<1>2. CASE PreviewOpen(c)
    BY <1>0, <1>2, CallTyped
       DEF PreviewOpen, Has, Go, Moves, ServerStep, Keeps, Holds, Holding, Places, Ended
<1>3. CASE PreviewChunk(c)
    BY <1>0, <1>3, CallTyped
       DEF PreviewChunk, Go, Moves, ServerStep, Keeps, Holds, Holding, Places, Ended
<1>4. CASE PreviewEnds(c)
    BY <1>0, <1>4, CallTyped
       DEF PreviewEnds, Go, Moves, ServerStep, Keeps, Holds, Holding, Places, Ended
<1> QED BY <1>1, <1>2, <1>3, <1>4 DEF Preview

-----------------------------------------------------------------------------
(* What one transfer does.                                                  *)

HoldsLocal(t) == lhand'[t] \in {None, lhand[t]}

DiskStep(t) ==
    \/ disk' = disk /\ HoldsLocal(t)
    \/ /\ disk' = disk /\ pc[t] = "open" /\ pc'[t] = "stream" /\ Has(disk, Part_(t))
       /\ lhand'[t] = disk.entry[Part_(t)]
    \/ /\ CanOpen(disk, lhand, Part_(t)) /\ pc[t] = "open" /\ pc'[t] = "stream"
       /\ disk' = Opened(disk, lhand, Part_(t)) /\ lhand'[t] = disk'.entry[Part_(t)]
    \/ \E n \in Names : CanOpen(disk, lhand, Final(n)) /\ disk' = Opened(disk, lhand, Final(n)) /\ HoldsLocal(t)
    \/ \E i \in Inodes, bytes \in Seq(Bytes) :
          /\ i = lhand[t] \/ \E n \in Names : i = disk.entry[Final(n)]
          /\ disk' = Filled(disk, i, bytes) /\ HoldsLocal(t)
    \/ \E n \in Names : disk' = Removed(disk, Final(n)) /\ HoldsLocal(t)
    \/ /\ pc[t] = "rename" /\ Has(disk, Part_(t))
       /\ disk' = Moved(disk, Part_(t), Final_(t)) /\ HoldsLocal(t)

Turns(t) ==
    /\ source' = source
    /\ sftp' = [sftp EXCEPT ![t] = sftp'[t]] /\ sftp'[t] \in 0..MaxConnects
    /\ cur' = [cur EXCEPT ![t] = cur'[t]] /\ cur'[t] \in Names \cup {None}
    /\ left' = [left EXCEPT ![t] = left'[t]] /\ left'[t] \in SUBSET Names
    /\ at' = [at EXCEPT ![t] = at'[t]] /\ at'[t] \in Nat
    /\ lhand' = [lhand EXCEPT ![t] = lhand'[t]]
    /\ canceled' = [canceled EXCEPT ![t] = canceled'[t]] /\ canceled'[t] \in BOOLEAN
    /\ pc'[t] \in AtFile => cur'[t] \in Names
    /\ t \in Downloads /\ pc'[t] = "stream" => lhand'[t] # None

Local(t) ==
    /\ DiskStep(t)
    /\ t \in Uploads => disk' = disk /\ HoldsLocal(t)
    /\ t \in Downloads => fs' = fs

LEMMA TransferTyped ==
    ASSUME TypeInv, NEW t \in Transfers
    PROVE  /\ t \in Calls /\ epoch \in 0..MaxConnects /\ epoch \in 1..MaxConnects
           /\ source \in [Names -> Versions] /\ disk \in Trees
           /\ sftp \in [Transfers -> 0..MaxConnects] /\ FilesOf[t] \in SUBSET Names
           /\ cur \in [Transfers -> Names \cup {None}] /\ left \in [Transfers -> SUBSET Names]
           /\ at \in [Transfers -> Nat] /\ lhand \in [Transfers -> Inodes \cup {None}]
           /\ canceled \in [Transfers -> BOOLEAN]
           /\ pc[t] \in AtFile => cur[t] \in Names
           /\ t \in Downloads /\ pc[t] = "stream" => lhand[t] \in Inodes
           /\ t \in Uploads <=> t \notin Downloads
           /\ cur[t] \in Names => /\ Final_(t) \in Paths /\ Part_(t) \in Paths
                                  /\ Final_(t) \in Finds(t) /\ Final_(t) \in Makes(t) 
                                  /\ t \in Uploads => Part_(t) \in Finds(t) /\ Part_(t) \in Makes(t)
                                  /\ Part_(t) # Final_(t)
BY KindsDiffer, PathsDiffer, FilesAssumption, TransfersAssumption, SMTT(60)
   DEF TypeInv, TypeOK, Calls, Transfers, Final_, Part_, Finds, Makes

LEMMA Ends == ASSUME NEW t \in Transfers PROVE Stop(t) \in {"failed", "canceled"}
BY DEF Stop

LEMMA UnturnedTurns ==
    ASSUME TypeInv, NEW t \in Transfers, UNCHANGED transferVars,
           pc'[t] \in AtFile => pc[t] \in AtFile,
           t \in Downloads /\ pc'[t] = "stream" => pc[t] = "stream"
    PROVE  Turns(t)
BY TransferTyped, FilesAssumption DEF Turns, transferVars

\* A step that is no request leaves the server alone.
LEMMA GoMoves ==
    ASSUME TypeInv, NEW t \in Calls, NEW place \in Places, Go(t, place),
           ~Holds(t, place), UNCHANGED <<conn, epoch, fs, cache, todo>>,
           hand' = hand \/ hand' = [hand EXCEPT ![t] = None]
    PROVE  Moves(t) /\ pc'[t] = place
BY CallTyped DEF Go, Moves, ServerStep, Keeps

LEMMA BothWaysMove ==
    ASSUME TypeInv, NEW t \in Transfers,
           Begin(t) \/ NextFile(t) \/ NoMoreFiles(t) \/ CancelFileOperation(t) \/ StreamFails(t)
    PROVE  Moves(t) /\ Turns(t) /\ Local(t) /\ fs' = fs
<1>0. t \in Calls
    BY TransferTyped
<1>1. CASE Begin(t)
  <2>1. PICK place \in {"conflict", "next", "failed"} : Go(t, place)
      BY <1>1 DEF Begin
  <2>2. place \in Places /\ ~Holds(t, place)
      BY DEF Places, Ended, Holds, Holding
  <2>3. Moves(t) /\ pc'[t] = place
      BY <1>0, <1>1, <2>1, <2>2, GoMoves DEF Begin
  <2>a. /\ sftp' = [sftp EXCEPT ![t] = sftp'[t]] /\ sftp'[t] \in 0..MaxConnects
        /\ left' = [left EXCEPT ![t] = left'[t]] /\ left'[t] \in SUBSET Names
    <3>1. sftp' = sftp \/ sftp' = [sftp EXCEPT ![t] = epoch] \/ sftp' = [sftp EXCEPT ![t] = 0]
        BY <1>1 DEF Begin
    <3>2. left' = left \/ left' = [left EXCEPT ![t] = FilesOf[t]]
        BY <1>1 DEF Begin
    <3> QED BY <3>1, <3>2, TransferTyped, FilesAssumption
  <2>b. UNCHANGED <<source, cur, at, lhand, canceled>>
      BY <1>1 DEF Begin
  <2>4. Turns(t)
      BY <2>3, <2>a, <2>b, TransferTyped DEF Turns, AtFile
  <2> QED BY <1>1, <2>3, <2>4 DEF Begin, Local, DiskStep, HoldsLocal
<1>2. CASE NextFile(t)
  <2>1. PICK place \in {"next", "ensure"} : Go(t, place)
    <3>1. pc[t] = "next" => Go(t, "next") \/ ~UNCHANGED pc
        BY <1>0, CallTyped DEF Go
    <3> QED BY <1>2, <3>1 DEF NextFile
  <2>2. place \in Places /\ ~Holds(t, place)
      BY DEF Places, Ended, Holds, Holding
  <2>3. Moves(t) /\ pc'[t] = place
      BY <1>0, <1>2, <2>1, <2>2, GoMoves DEF NextFile
  <2>4. PICK n \in left[t] :
              \/ left' = [left EXCEPT ![t] = @ \ {n}] /\ UNCHANGED <<pc, cur>>
              \/ cur' = [cur EXCEPT ![t] = n] /\ UNCHANGED left
      BY <1>2 DEF NextFile
  <2>5. /\ cur' = [cur EXCEPT ![t] = cur'[t]] /\ cur'[t] \in Names \cup {None}
        /\ left' = [left EXCEPT ![t] = left'[t]] /\ left'[t] \in SUBSET Names
        /\ pc'[t] \in AtFile => cur'[t] \in Names
      BY <1>2, <2>4, TransferTyped DEF NextFile, AtFile
  <2>6. Turns(t)
      BY <1>2, <2>3, <2>5, TransferTyped DEF NextFile, Turns
  <2> QED BY <1>2, <2>3, <2>6 DEF NextFile, Local, DiskStep, HoldsLocal
<1>3. CASE NoMoreFiles(t)
  <2>1. PICK place \in {"applied", "ok"} : Go(t, place)
      BY <1>3 DEF NoMoreFiles
  <2>2. place \in Places /\ ~Holds(t, place)
      BY DEF Places, Ended, Holds, Holding
  <2>3. Moves(t) /\ pc'[t] = place
      BY <1>0, <1>3, <2>1, <2>2, GoMoves DEF NoMoreFiles
  <2>4. Turns(t)
      BY <1>3, <2>3, UnturnedTurns DEF NoMoreFiles, AtFile
  <2> QED BY <1>3, <2>3, <2>4 DEF NoMoreFiles, Local, DiskStep, HoldsLocal, transferVars
<1>4. CASE CancelFileOperation(t)
  <2>1. Moves(t)
      BY <1>0, <1>4, CallTyped DEF CancelFileOperation, fileVars, Moves, ServerStep, Keeps
  <2>2. Turns(t)
      BY <1>0, <1>4, TransferTyped, FilesAssumption DEF CancelFileOperation, fileVars, Turns
  <2> QED BY <1>4, <2>1, <2>2 DEF CancelFileOperation, fileVars, Local, DiskStep, HoldsLocal
<1>5. CASE StreamFails(t)
  <2>1. Stop(t) \in Places /\ ~Holds(t, Stop(t)) /\ Stop(t) \notin AtFile /\ Stop(t) # "stream"
      BY Ends DEF Places, Ended, Holds, Holding, AtFile
  <2>2. Moves(t) /\ pc'[t] = Stop(t)
      BY <1>0, <1>5, <2>1, GoMoves DEF StreamFails
  <2>3. Turns(t)
      BY <1>5, <2>1, <2>2, TransferTyped DEF StreamFails, Turns
  <2> QED BY <1>5, <2>2, <2>3, TransferTyped DEF StreamFails, Local, DiskStep, HoldsLocal
<1> QED BY <1>1, <1>2, <1>3, <1>4, <1>5

\* u is the bytes of kept, of which there are n, and b.
AppendedAs(kept, n, b, u) ==
    /\ u \in Seq(Bytes) /\ Len(u) = n + 1
    /\ \A i \in 1..n : u[i] = kept[i]
    /\ u[n + 1] = b

LEMMA WriteAtEnd ==
    ASSUME NEW kept \in Seq(Bytes), NEW n \in Nat, NEW b \in Bytes, Len(kept) = n
    PROVE  AppendedAs(kept, n, b, WriteAt(kept, n, b))
<1>1. n = Len(kept)
    OBVIOUS
<1> QED BY <1>1, WriteAtIsSeq, ZenonT(60) DEF AppendedAs

LEMMA AppendAtEnd ==
    ASSUME NEW kept \in Seq(Bytes), NEW n \in Nat, NEW b \in Bytes, Len(kept) = n
    PROVE  AppendedAs(kept, n, b, Append(kept, b))
BY DEF AppendedAs

LEMMA UploadShellMoves ==
    ASSUME TypeInv, NEW t \in Uploads, UploadWithShell(t)
    PROVE  Moves(t) /\ Turns(t) /\ Local(t) /\ Puts(t)
<1>0. t \in Transfers /\ t \in Calls /\ t \notin Downloads
    BY TransferTyped DEF Transfers
<1>a. ASSUME UNCHANGED <<disk, lhand>> PROVE Local(t)
    BY <1>0, <1>a DEF Local, DiskStep, HoldsLocal
<1>b. Stop(t) \in {"failed", "canceled"}
    BY <1>0, Ends
<1>1. cur[t] \in Names /\ source[cur[t]] \in Versions /\ Final_(t) \in Makes(t)
    BY <1>0, TransferTyped DEF UploadWithShell, AtFile
<1>2. Whole(source[cur[t]]) \in Seq(Bytes)
    BY <1>1, WholeIsSeq
<1>3. /\ "shellWrite" \in Places /\ "next" \in Places /\ Stop(t) \in Places
      /\ ~Holds(t, Stop(t)) /\ ~Holds(t, "next") /\ Stop(t) # "shellWrite" /\ Holds(t, "shellWrite")
    BY <1>b DEF Places, Ended, Holds, Holding
<1>4. CASE pc[t] = "shellOpen" /\ OpenWrite(t, Final_(t), "shellWrite", Stop(t)) /\ UNCHANGED transferVars
  <2>1. Moves(t) /\ Puts(t) /\ pc'[t] \in {"shellWrite", Stop(t)}
      BY <1>0, <1>1, <1>3, <1>4, OpenWriteMoves, Zenon
  <2>2. Turns(t)
      BY <1>0, <1>b, <1>4, <2>1, UnturnedTurns DEF AtFile
  <2> QED BY <1>a, <1>4, <2>1, <2>2 DEF transferVars
<1>5. CASE pc[t] = "shellWrite" /\ WriteByte(t, Whole(source[cur[t]])) /\ UNCHANGED transferVars
  <2>1. Moves(t) /\ Puts(t) /\ UNCHANGED <<pc, hand>>
      BY <1>0, <1>2, <1>3, <1>5, WriteByteMoves
  <2>2. Turns(t)
      BY <1>0, <1>5, <2>1, UnturnedTurns DEF AtFile
  <2> QED BY <1>a, <1>5, <2>1, <2>2 DEF transferVars
<1>6. CASE /\ pc[t] = "shellWrite"
           /\ WriteEnds(t, Whole(source[cur[t]]), "next", Stop(t))
           /\ left' = [left EXCEPT ![t] = @ \ {cur[t]}]
           /\ UNCHANGED <<source, disk, sftp, cur, at, lhand, canceled>>
  <2>1. Moves(t) /\ Puts(t) /\ pc'[t] \in {"next", Stop(t)}
      BY <1>0, <1>2, <1>3, <1>6, WriteEndsMoves, Zenon
  <2>2. Turns(t)
      BY <1>0, <1>1, <1>b, <1>6, <2>1, TransferTyped DEF Turns, AtFile
  <2> QED BY <1>a, <1>6, <2>1, <2>2
<1> QED BY <1>4, <1>5, <1>6 DEF UploadWithShell

LEMMA UploadMoves ==
    ASSUME TypeInv, NEW t \in Uploads, Upload(t)
    PROVE  Moves(t) /\ Turns(t) /\ Local(t)
<1>0. t \in Transfers /\ t \in Calls /\ t \notin Downloads
    BY TransferTyped DEF Transfers
<1>a. ASSUME UNCHANGED <<disk, lhand>> PROVE Local(t)
    BY <1>0, <1>a DEF Local, DiskStep, HoldsLocal
<1>b. Stop(t) \in {"failed", "canceled"}
    BY <1>0, Ends
<1>1. CASE UploadEnsure(t)
  <2>1. Moves(t)
      BY <1>0, <1>1, <1>b, CallTyped, ZenonT(60)
         DEF UploadEnsure, AskUp, Ask, Request, Go, Moves, ServerStep, Keeps, Holds, Holding, Places, Ended
  <2>2. Turns(t)
      BY <1>0, <1>1, <1>b, UnturnedTurns DEF UploadEnsure, AskUp, Ask, Request, Go, AtFile
  <2> QED BY <1>1, <1>a, <2>1, <2>2 DEF UploadEnsure, AskUp, transferVars
<1>2. CASE UploadStat(t)
  <2>1. "open" \in Places /\ ~Holds(t, "open") /\ "open" \in AtFile /\ "stat" \in AtFile
      BY DEF Places, Holds, Holding, AtFile
  <2>2. Moves(t) /\ pc'[t] = "open"
      BY <1>0, <1>2, <2>1, GoMoves DEF UploadStat
  <2>3. cur[t] \in Names /\ source[cur[t]] \in Versions /\ Part_(t) \in Paths
      BY <1>0, <1>2, <2>1, TransferTyped DEF UploadStat
  <2>4. \A size \in {0, PartSize(fs, Part_(t))} : ResumeOffset(size, Size[source[cur[t]]]) \in Nat
      BY <1>0, <2>3, SizesAreNat, CallTyped, FilesAssumption DEF ResumeOffset
  <2>5. at' = [at EXCEPT ![t] = at'[t]] /\ at'[t] \in Nat
      BY <1>0, <1>2, <2>4, TransferTyped DEF UploadStat
  <2>6. Turns(t)
      BY <1>0, <1>2, <2>2, <2>3, <2>5, TransferTyped DEF UploadStat, Turns
  <2> QED BY <1>2, <1>a, <2>2, <2>6 DEF UploadStat
<1>3. CASE UploadOpen(t)
  <2>1. cur[t] \in Names /\ Part_(t) \in Paths /\ Part_(t) \in Finds(t) /\ Part_(t) \in Makes(t)
      BY <1>0, <1>3, TransferTyped DEF UploadOpen, AtFile
  <2>2. ASSUME Request(t, Live(t) /\ Has(fs, Part_(t)), fs, "stream", Stop(t)) PROVE Moves(t)
    <3>1. fs' = fs
        BY <2>2 DEF Request
    <3>2. hand'[t] = None \/ hand'[t] = fs.entry[Part_(t)]
        BY <1>0, <1>3, <3>1, CallTyped DEF UploadOpen
    <3>3. pc'[t] = "stream" => hand'[t] # None
        BY <1>0, <1>3, <1>b, <2>2, <3>1, CallTyped DEF UploadOpen, Request, Go, Has
    <3>4. ServerStep(t)
        BY <2>1, <3>1, <3>2 DEF ServerStep, Keeps
    <3>5. /\ pc' = [pc EXCEPT ![t] = pc'[t]] /\ pc'[t] \in {"stream", Stop(t)}
          /\ conn' \in {"none", "shell", "sftp"} /\ cache' \in {cache, None}
        BY <1>0, <2>2, CallTyped DEF Request, Go
    <3>6. hand' = [hand EXCEPT ![t] = hand'[t]] /\ UNCHANGED <<epoch, todo>>
        BY <1>0, <1>3, CallTyped DEF UploadOpen
    <3>7. pc'[t] \in Places /\ (Holds(t, pc'[t]) => hand'[t] # None)
        BY <1>b, <3>3, <3>5 DEF Holds, Holding, Places, Ended
    <3>8. todo' = [todo EXCEPT ![t] = todo'[t]] /\ todo'[t] \in SUBSET Paths
        BY <1>0, <3>6, CallTyped
    <3> QED BY <3>4, <3>5, <3>6, <3>7, <3>8 DEF Moves
  <2>3. ASSUME Request(t, Live(t) /\ CanOpen(fs, hand, Part_(t)), Opened(fs, hand, Part_(t)), "stream", Stop(t))
        PROVE  Moves(t)
    <3>1. "stream" \in Places /\ Stop(t) \in Places /\ ~Holds(t, Stop(t)) /\ "stream" # Stop(t)
        BY <1>b DEF Places, Ended, Holds, Holding
    <3>2. Request(t, CanOpen(fs, hand, Part_(t)), Opened(fs, hand, Part_(t)), "stream", Stop(t))
        BY <2>3 DEF Request
    <3>3. /\ hand' = [hand EXCEPT ![t] = IF pc'[t] = "stream" THEN fs'.entry[Part_(t)] ELSE None]
          /\ UNCHANGED <<epoch, todo>>
        BY <1>3 DEF UploadOpen
    <3> QED BY <1>0, <2>1, <3>1, <3>2, <3>3, OpenMoves, Zenon
  <2>4. Moves(t)
      BY <1>3, <2>2, <2>3 DEF UploadOpen
  <2>5. Turns(t)
      BY <1>0, <1>3, <2>1, TransferTyped, FilesAssumption DEF UploadOpen, Turns
  <2> QED BY <1>3, <1>a, <2>4, <2>5 DEF UploadOpen
<1>4. CASE UploadChunk(t)
  <2>1. cur[t] \in Names /\ source[cur[t]] \in Versions /\ source[cur[t]] \in Bytes /\ hand[t] \in Inodes
      BY <1>0, <1>4, TransferTyped, CallTyped DEF UploadChunk, Streams, AtFile, Holds, Holding, Bytes
  <2>2. WriteAt(fs.data[hand[t]], at[t], source[cur[t]]) \in Seq(Bytes)
      BY <1>0, <2>1, CallTyped, TransferTyped, SizesAreNat, WriteAtIsSeq
  <2>3. Moves(t)
      BY <1>0, <1>4, <2>1, <2>2, CallTyped DEF UploadChunk, Streams, Moves, ServerStep, Keeps
  <2>4. at' = [at EXCEPT ![t] = at'[t]] /\ at'[t] \in Nat
    <3>1. at \in [Transfers -> Nat]
        BY TransferTyped, <1>0
    <3>2. at' = [at EXCEPT ![t] = at[t] + 1]
        BY <1>4 DEF UploadChunk
    <3> QED BY <1>0, <3>1, <3>2
  <2>5. Turns(t)
      BY <1>0, <1>4, <2>1, <2>4, TransferTyped DEF UploadChunk, Turns
  <2> QED BY <1>4, <1>a, <2>3, <2>5 DEF UploadChunk
<1>5. CASE UploadStreamed(t) \/ UploadInto(t)
  <2>1. PICK place \in {"into", "clear", "swap"} : Go(t, place)
      BY <1>5 DEF UploadStreamed, UploadInto
  <2>2. place \in Places /\ ~Holds(t, place)
      BY DEF Places, Holds, Holding
  <2>3. Moves(t) /\ pc'[t] = place
      BY <1>0, <1>5, <2>1, <2>2, GoMoves DEF UploadStreamed, UploadInto
  <2>4. UNCHANGED transferVars /\ pc[t] \in AtFile
      BY <1>5 DEF UploadStreamed, UploadInto, Streams, AtFile
  <2> QED BY <1>0, <1>a, <2>3, <2>4, UnturnedTurns DEF transferVars
<1>6. CASE UploadClear(t)
  <2>1. Final_(t) \in Paths
      BY <1>0, <1>6, TransferTyped DEF UploadClear, AtFile
  <2>2. Moves(t)
      BY <1>0, <1>6, <1>b, <2>1, CallTyped
         DEF UploadClear, AskUp, Ask, Request, Go, Moves, ServerStep, Keeps, Holds, Holding, Places, Ended
  <2>3. Turns(t)
      BY <1>0, <1>6, <1>b, UnturnedTurns DEF UploadClear, AskUp, Ask, Request, Go, AtFile
  <2> QED BY <1>6, <1>a, <2>2, <2>3 DEF UploadClear, AskUp, transferVars
<1>7. CASE UploadSwap(t)
  <2>1. cur[t] \in Names /\ Part_(t) \in Makes(t) /\ Part_(t) # Final_(t)
      BY <1>0, <1>7, TransferTyped DEF UploadSwap, AtFile
  <2>2. Moves(t)
      BY <1>0, <1>7, <1>b, <2>1, CallTyped
         DEF UploadSwap, Ask, Request, Go, Moves, ServerStep, Keeps, Holds, Holding, Places, Ended, Final_
  <2>3. Turns(t)
      BY <1>0, <1>7, <2>1, TransferTyped DEF UploadSwap, Turns
  <2> QED BY <1>7, <1>a, <2>2, <2>3 DEF UploadSwap
<1>8. CASE UploadWithShell(t)
    BY <1>8, UploadShellMoves
<1> QED BY <1>1, <1>2, <1>3, <1>4, <1>5, <1>6, <1>7, <1>8 DEF Upload

LEMMA DownloadMoves ==
    ASSUME TypeInv, NEW t \in Downloads, Download(t)
    PROVE  Moves(t) /\ Turns(t) /\ Local(t) /\ fs' = fs
<1>0. t \in Transfers /\ t \in Calls /\ t \notin Uploads
    BY TransferTyped DEF Transfers
<1>a. ASSUME fs' = fs, DiskStep(t) PROVE Local(t)
    BY <1>0, <1>a DEF Local
<1>1. CASE DownloadFails(t)
  <2>1. Stop(t) \in Places /\ ~Holds(t, Stop(t)) /\ Stop(t) \notin AtFile /\ Stop(t) # "stream"
      BY <1>0, Ends DEF Places, Ended, Holds, Holding, AtFile
  <2>2. Moves(t) /\ pc'[t] = Stop(t)
      BY <1>0, <1>1, <2>1, GoMoves DEF DownloadFails
  <2>3. Turns(t)
      BY <1>0, <1>1, <2>1, <2>2, TransferTyped DEF DownloadFails, Turns
  <2>4. DiskStep(t)
      BY <1>0, <1>1, TransferTyped DEF DownloadFails, DiskStep, HoldsLocal
  <2> QED BY <1>1, <1>a, <2>2, <2>3, <2>4 DEF DownloadFails
<1>2. CASE DownloadEnsure(t)
  <2>1. PICK place \in {"shellOpen", "canceled", "stat"} : Go(t, place)
      BY <1>2 DEF DownloadEnsure
  <2>2. place \in Places /\ ~Holds(t, place) /\ "ensure" \in AtFile
      BY DEF Places, Ended, Holds, Holding, AtFile
  <2>3. Moves(t) /\ pc'[t] = place
      BY <1>0, <1>2, <2>1, <2>2, GoMoves DEF DownloadEnsure
  <2>4. Turns(t)
      BY <1>0, <1>2, <2>2, <2>3, UnturnedTurns DEF DownloadEnsure
  <2>5. DiskStep(t)
      BY <1>2 DEF DownloadEnsure, DiskStep, HoldsLocal, transferVars
  <2> QED BY <1>2, <1>a, <2>3, <2>4, <2>5 DEF DownloadEnsure
<1>3. CASE DownloadStat(t)
  <2>1. "open" \in Places /\ ~Holds(t, "open") /\ "open" # "stream"
      BY <1>0 DEF Places, Holds, Holding
  <2>2. Moves(t) /\ pc'[t] = "open"
      BY <1>0, <1>3, <2>1, GoMoves DEF DownloadStat
  <2>3. cur[t] \in Names /\ Part_(t) \in Paths /\ Final_(t) \in Paths
      BY <1>0, <1>3, TransferTyped DEF DownloadStat, AtFile
  <2>4. ResumeOffset(PartSize(disk, Part_(t)), PartSize(fs, Final_(t))) \in Nat
      BY <1>0, <2>3, SizesAreNat, CallTyped, TransferTyped DEF ResumeOffset
  <2>5. at' = [at EXCEPT ![t] = at'[t]] /\ at'[t] \in Nat
      BY <1>0, <1>3, <2>4, TransferTyped DEF DownloadStat
  <2>6. Turns(t)
      BY <1>0, <1>3, <2>1, <2>2, <2>3, <2>5, TransferTyped DEF DownloadStat, Turns
  <2>7. DiskStep(t)
      BY <1>3 DEF DownloadStat, DiskStep, HoldsLocal
  <2> QED BY <1>3, <1>a, <2>2, <2>6, <2>7 DEF DownloadStat
<1>4. CASE DownloadOpen(t)
  <2>1. /\ cur[t] \in Names /\ Part_(t) \in Paths /\ Final_(t) \in Paths /\ Final_(t) \in Finds(t)
        /\ disk \in Trees /\ fs \in Trees /\ fs.entry[Final_(t)] \in Inodes /\ None \notin Inodes
      BY <1>0, <1>4, TransferTyped, CallTyped, SizesAreNat DEF DownloadOpen, AtFile
  <2>2. /\ hand' = [hand EXCEPT ![t] = hand'[t]] /\ hand'[t] = fs.entry[Final_(t)]
        /\ pc' = [pc EXCEPT ![t] = pc'[t]] /\ pc'[t] = "stream" /\ pc[t] = "open"
        /\ UNCHANGED <<conn, epoch, fs, cache, todo>>
      BY <1>0, <1>4, CallTyped DEF DownloadOpen, Go
  <2>3. ServerStep(t)
      BY <2>1, <2>2 DEF ServerStep
  <2>4. Moves(t)
      BY <1>0, <2>1, <2>2, <2>3, CallTyped DEF Moves, Places
  <2>5. PICK opened :
              /\ opened = IF at[t] > 0 /\ Has(disk, Part_(t)) THEN disk ELSE Opened(disk, lhand, Part_(t))
              /\ disk' = opened /\ lhand' = [lhand EXCEPT ![t] = opened.entry[Part_(t)]]
      BY <1>4 DEF DownloadOpen
  <2>6. lhand' = [lhand EXCEPT ![t] = lhand'[t]] /\ lhand'[t] = opened.entry[Part_(t)] /\ disk' = opened
      BY <1>0, <2>5, TransferTyped
  <2>7. CASE at[t] > 0 /\ Has(disk, Part_(t))
    <3>1. opened = disk
        BY <2>5, <2>7
    <3>2. lhand'[t] # None
        BY <2>1, <2>6, <2>7, <3>1 DEF Has
    <3>3. DiskStep(t)
        BY <2>2, <2>6, <2>7, <3>1 DEF DiskStep
    <3>4. Turns(t)
        BY <1>0, <1>4, <2>1, <2>6, <3>2, TransferTyped DEF DownloadOpen, Turns
    <3> QED BY <1>a, <2>2, <2>4, <3>3, <3>4
  <2>8. CASE ~(at[t] > 0 /\ Has(disk, Part_(t)))
    <3>0. CanOpen(disk, lhand, Part_(t))
        BY <1>4 DEF DownloadOpen
    <3>1. opened = Opened(disk, lhand, Part_(t))
        BY <2>5, <2>8
    <3>2. PICK i \in Inodes : OpenedAs(disk, lhand, Part_(t), i, opened)
        BY <2>1, <3>0, <3>1, OpenedIs, Zenon
    <3>3. opened.entry[Part_(t)] = i
        BY <2>1, <3>2, TreeIsDir DEF OpenedAs, Dirs
    <3>4. DiskStep(t)
        BY <2>2, <2>6, <3>0, <3>1 DEF DiskStep
    <3>5. Turns(t)
        BY <1>0, <1>4, <2>1, <2>6, <3>3, TransferTyped DEF DownloadOpen, Turns
    <3> QED BY <1>a, <2>2, <2>4, <3>4, <3>5
  <2> QED BY <2>7, <2>8
<1>5. CASE DownloadChunk(t)
  <2>1. hand[t] \in Inodes /\ lhand[t] \in Inodes /\ cur[t] \in Names /\ disk \in Trees /\ fs \in Trees
      BY <1>0, <1>5, TransferTyped, CallTyped DEF DownloadChunk, Streams, AtFile, Holds, Holding
  <2>2. fs.data[hand[t]][at[t] + 1] \in Bytes
    <3>1. fs.data[hand[t]] \in Seq(Bytes) /\ at[t] \in Nat /\ at[t] < Len(fs.data[hand[t]])
        BY <1>0, <1>5, <2>1, SizesAreNat, TransferTyped DEF DownloadChunk
    <3> QED BY <3>1
  <2>3. /\ disk' = Filled(disk, lhand[t], Append(disk.data[lhand[t]], fs.data[hand[t]][at[t] + 1]))
        /\ Append(disk.data[lhand[t]], fs.data[hand[t]][at[t] + 1]) \in Seq(Bytes)
    <3>1. PICK b \in Bytes : b = fs.data[hand[t]][at[t] + 1]
        BY <2>2
    <3>2. disk' = [disk EXCEPT !.data[lhand[t]] = Append(@, b)]
        BY <1>5, <3>1, Zenon DEF DownloadChunk
    <3>3. PICK i \in Inodes : i = lhand[t]
        BY <2>1
    <3>4. disk' = [disk EXCEPT !.data[i] = Append(@, b)]
        BY <3>2, <3>3, Zenon
    <3>5. disk' = Filled(disk, i, Append(disk.data[i], b))
        BY <3>4, Zenon DEF Filled
    <3>6. disk.data[i] \in Seq(Bytes)
        BY <2>1, SizesAreNat
    <3>7. Append(disk.data[i], b) \in Seq(Bytes)
        BY <3>6, SMTT(60)
    <3> QED BY <3>1, <3>3, <3>5, <3>7, Zenon
  <2>4. DiskStep(t)
      BY <1>0, <1>5, <2>1, <2>3 DEF DownloadChunk, DiskStep, HoldsLocal
  <2>5. Moves(t)
      BY <1>0, <1>5, <2>1, CallTyped DEF DownloadChunk, fileVars, Moves, ServerStep, Keeps
  <2>6. at' = [at EXCEPT ![t] = at'[t]] /\ at'[t] \in Nat
    <3>1. at' = [at EXCEPT ![t] = at[t] + 1]
        BY <1>5 DEF DownloadChunk
    <3>2. at \in [Transfers -> Nat]
        BY <1>0, TransferTyped
    <3> QED BY <1>0, <3>1, <3>2
  <2>7. Turns(t)
      BY <1>0, <1>5, <2>1, <2>6, TransferTyped, FilesAssumption DEF DownloadChunk, fileVars, Turns
  <2> QED BY <1>5, <1>a, <2>4, <2>5, <2>7 DEF DownloadChunk, fileVars
<1>6. CASE DownloadStreamed(t)
  <2>1. "rm" \in Places /\ ~Holds(t, "rm")
      BY <1>0 DEF Places, Holds, Holding
  <2>2. Moves(t) /\ pc'[t] = "rm"
      BY <1>0, <1>6, <2>1, GoMoves DEF DownloadStreamed
  <2>3. cur[t] \in Names
      BY <1>0, <1>6, TransferTyped DEF DownloadStreamed, Streams, AtFile
  <2>4. Turns(t)
      BY <1>0, <1>6, <2>2, <2>3, TransferTyped DEF DownloadStreamed, Turns
  <2>5. DiskStep(t)
      BY <1>0, <1>6, TransferTyped DEF DownloadStreamed, DiskStep, HoldsLocal
  <2> QED BY <1>6, <1>a, <2>2, <2>4, <2>5 DEF DownloadStreamed
<1>7. CASE DownloadSwap(t) \/ DownloadWithShell(t)
  <2>0. cur[t] \in Names /\ pc[t] \in AtFile
      BY <1>0, <1>7, TransferTyped DEF DownloadSwap, DownloadWithShell, AtFile
  <2>1. PICK place \in {"rename", "next", "shellWrite", "failed", "canceled"} : Go(t, place)
      BY <1>0, <1>7, Ends DEF DownloadSwap, DownloadWithShell
  <2>2. place \in Places /\ ~Holds(t, place) /\ place # "stream"
      BY <1>0 DEF Places, Ended, Holds, Holding
  <2>3. UNCHANGED <<conn, epoch, fs, cache, hand, todo, source, sftp, cur, at, lhand, canceled>>
      BY <1>7 DEF DownloadSwap, DownloadWithShell
  <2>4. Moves(t) /\ pc'[t] = place
      BY <1>0, <2>1, <2>2, <2>3, GoMoves
  <2>5. left' = [left EXCEPT ![t] = left'[t]] /\ left'[t] \in SUBSET Names
    <3>1. left' = left \/ left' = [left EXCEPT ![t] = left[t] \ {cur[t]}]
        BY <1>7 DEF DownloadSwap, DownloadWithShell
    <3> QED BY <1>0, <3>1, TransferTyped
  <2>6. Turns(t)
      BY <1>0, <2>0, <2>2, <2>3, <2>4, <2>5, TransferTyped DEF Turns
  <2>7. HoldsLocal(t)
      BY <2>3 DEF HoldsLocal
  <2>8. ASSUME DownloadSwap(t) PROVE DiskStep(t)
    <3>1. \/ disk' = Removed(disk, Final_(t))
          \/ pc[t] = "rename" /\ Has(disk, Part_(t)) /\ disk' = Moved(disk, Part_(t), Final_(t))
        BY <2>8 DEF DownloadSwap
    <3>2. \/ \E n \in Names : disk' = Removed(disk, Final(n)) /\ HoldsLocal(t)
          \/ /\ pc[t] = "rename" /\ Has(disk, Part_(t))
             /\ disk' = Moved(disk, Part_(t), Final_(t)) /\ HoldsLocal(t)
        BY <2>0, <2>7, <3>1, Zenon DEF Final_
    <3> QED BY <3>2, Zenon DEF DiskStep
  <2>9. ASSUME DownloadWithShell(t) PROVE DiskStep(t)
    <3>1. CASE CanOpen(disk, lhand, Final_(t)) /\ disk' = Opened(disk, lhand, Final_(t))
      <4>1. \E n \in Names : CanOpen(disk, lhand, Final(n)) /\ disk' = Opened(disk, lhand, Final(n)) /\ HoldsLocal(t)
          BY <2>0, <2>7, <3>1, Zenon DEF Final_
      <4> QED BY <4>1, Zenon DEF DiskStep
    <3>2. ASSUME Has(fs, Final_(t)), Has(disk, Final_(t)), NEW bytes \in Seq(Bytes),
                 disk' = Filled(disk, disk.entry[Final_(t)], bytes)
          PROVE  DiskStep(t)
      <4>1. disk.entry[Final_(t)] \in Inodes
          BY <1>0, <2>0, <3>2, TransferTyped, SizesAreNat
      <4>2. \E i \in Inodes, b \in Seq(Bytes) :
              /\ i = lhand[t] \/ \E n \in Names : i = disk.entry[Final(n)]
              /\ disk' = Filled(disk, i, b) /\ HoldsLocal(t)
          BY <2>0, <2>7, <3>2, <4>1, Zenon DEF Final_
      <4> QED BY <4>2, Zenon DEF DiskStep
    <3>3. CASE /\ Has(fs, Final_(t)) /\ Has(disk, Final_(t))
               /\ \/ disk' = Filled(disk, disk.entry[Final_(t)], Content(fs, Final_(t)))
                  \/ \E came \in 1..Len(Content(fs, Final_(t))) :
                        disk' = Filled(disk, disk.entry[Final_(t)], SubSeq(Content(fs, Final_(t)), 1, came))
      <4>1. PICK all \in Seq(Bytes) : all = Content(fs, Final_(t))
          BY <1>0, <2>0, <3>3, TransferTyped, CallTyped, SizesAreNat
      <4>2. \A came \in 1..Len(all) : SubSeq(all, 1, came) \in Seq(Bytes)
          OBVIOUS
      <4> QED BY <3>2, <3>3, <4>1, <4>2
    <3> QED BY <2>9, <3>1, <3>3 DEF DownloadWithShell
  <2> QED BY <1>7, <1>a, <2>3, <2>4, <2>6, <2>8, <2>9
<1> QED BY <1>1, <1>2, <1>3, <1>4, <1>5, <1>6, <1>7 DEF Download

-----------------------------------------------------------------------------
(* What a step leaves of the names other than the final ones.               *)

\* Which steps of a call leave the writes alone, and what the others do.
LEMMA CallsPut ==
    ASSUME TypeInv, NEW c \in Calls,
           RenameEntry(c) \/ DeleteEntry(c) \/ Invalidate(c) \/ List(c) \/ Search(c) \/ Preview(c)
    PROVE  Puts(c)
<1>1. out' = out
  <2>1. RenameEntry(c) \/ DeleteEntry(c) \/ Invalidate(c) \/ List(c) => out' = out
      BY DEF RenameEntry, DeleteEntry, DeleteList, DeleteEach, DeleteLast, Invalidate, List, Ask
  <2>2. Search(c) => out' = out
      BY DEF Search, SearchStart, MatchLine, NotJson, RipgrepCloses, ScanFile, ScanEnds, fileVars
  <2>3. Preview(c) => out' = out
      BY DEF Preview, PreviewStat, PreviewOpen, PreviewChunk, PreviewEnds
  <2> QED BY <2>1, <2>2, <2>3
<1> QED BY <1>1, OutTyped

LEMMA TransfersPut ==
    ASSUME TypeInv, NEW t \in Transfers,
           \/ Begin(t) \/ NextFile(t) \/ NoMoreFiles(t) \/ CancelFileOperation(t) \/ StreamFails(t)
           \/ (t \in Uploads /\ Upload(t)) \/ Download(t)
    PROVE  Puts(t)
<1>0. t \in Calls
    BY TransferTyped
<1>1. CASE Begin(t) \/ NextFile(t) \/ NoMoreFiles(t) \/ CancelFileOperation(t) \/ StreamFails(t)
  <2>1. out' = out
      BY <1>1 DEF Begin, NextFile, NoMoreFiles, CancelFileOperation, StreamFails, fileVars
  <2> QED BY <1>0, <2>1, OutTyped
<1>2. CASE t \in Uploads /\ Upload(t)
  <2>1. out' = out \/ UploadWithShell(t)
      BY <1>2 DEF Upload, UploadEnsure, UploadStat, UploadOpen, UploadChunk, UploadStreamed, UploadInto,
                  UploadClear, UploadSwap, AskUp, Ask
  <2>2. UploadWithShell(t) => Puts(t)
      BY <1>2, UploadShellMoves
  <2> QED BY <1>0, <2>1, <2>2, OutTyped
<1>3. CASE Download(t)
  <2>1. out' = out
      BY <1>3 DEF Download, DownloadFails, DownloadEnsure, DownloadStat, DownloadOpen, DownloadChunk,
                  DownloadStreamed, DownloadSwap, DownloadWithShell, fileVars
  <2> QED BY <1>0, <2>1, OutTyped
<1> QED BY <1>1, <1>2, <1>3

LEMMA ServerFrame ==
    ASSUME TypeInv, NEW c \in Calls, ServerStep(c)
    PROVE  /\ fs' \in Trees /\ hand'[c] \in Inodes \cup {None}
           /\ \A p \in Paths : (\A n \in Names : p # Final(n)) =>
                 /\ Has(fs, p) /\ Has(fs', p) => fs'.entry[p] = fs.entry[p]
                 /\ p \notin Makes(c) /\ Has(fs', p) =>
                       /\ Has(fs, p)
                       /\ hand[c] # fs.entry[p] => Content(fs', p) = Content(fs, p)
                       /\ hand'[c] = fs.entry[p] => hand[c] = fs.entry[p]
<1>0. /\ fs \in Trees /\ fs \in Dirs /\ Unshared(fs.entry) /\ Makes(c) \subseteq Paths
      /\ hand[c] \in Inodes \cup {None} /\ None \notin Inodes /\ hand \in [Calls -> Inodes \cup {None}]
    BY CallTyped, TreeIsDir
<1>f. Finds(c) \subseteq Makes(c)
    BY DEF Makes
<1>1. CASE fs' = fs /\ Keeps(c)
    BY <1>0, <1>1 DEF Keeps, Has
<1>2. CASE fs' = fs /\ \E p \in Finds(c) : hand'[c] = fs.entry[p]
    BY <1>0, <1>f, <1>2 DEF Has, Dirs, Unshared
<1>3. CASE \E p \in Makes(c) :
          /\ CanOpen(fs, hand, p) /\ fs' = Opened(fs, hand, p)
          /\ hand'[c] \in {None, fs'.entry[p]}
  <2>1. PICK p \in Makes(c) : /\ CanOpen(fs, hand, p) /\ fs' = Opened(fs, hand, p)
                              /\ hand'[c] \in {None, fs'.entry[p]}
      BY <1>3
  <2>2. fs' \in Trees /\ p \in Paths
      BY <1>0, <2>1, OpenedIs, Zenon
  <2>3. PICK i \in Inodes : OpenedAs(fs, hand, p, i, fs')
      BY <1>0, <2>1, OpenedIs, Zenon
  <2>4. /\ fs'.entry[p] = i /\ hand'[c] \in {None, i}
        /\ \A q \in Paths : q # p => fs'.entry[q] = fs.entry[q] /\ fs.entry[q] # i
        /\ \A j \in Inodes : j # i => fs'.data[j] = fs.data[j]
        /\ fs.entry[p] \in {None, i}
      BY <1>0, <2>1, <2>2, <2>3 DEF OpenedAs, Dirs, Has
  <2> QED BY <1>0, <2>1, <2>2, <2>4 DEF Has, Dirs, Content
<1>4. CASE \E bytes \in Seq(Bytes) : fs' = Filled(fs, hand[c], bytes) /\ Keeps(c)
  <2>1. PICK bytes \in Seq(Bytes) : fs' = Filled(fs, hand[c], bytes) /\ Keeps(c)
      BY <1>4
  <2>a. FilledAs(fs, hand[c], bytes, fs')
      BY <1>0, <2>1, FilledIs, Zenon
  <2>2. fs' \in Trees /\ fs'.entry = fs.entry /\ fs'.data = [fs.data EXCEPT ![hand[c]] = bytes]
      BY <2>a DEF FilledAs
  <2> QED BY <1>0, <2>1, <2>2 DEF Keeps, Has, Dirs, Content
<1>5. CASE \E p \in Paths : fs' = Removed(fs, p) /\ Keeps(c)
  <2>1. PICK p \in Paths : fs' = Removed(fs, p) /\ Keeps(c)
      BY <1>5
  <2>2. fs' \in Trees /\ fs'.entry = [fs.entry EXCEPT ![p] = None] /\ fs'.data = fs.data
      BY <1>0, <2>1, RemovedIs
  <2> QED BY <1>0, <2>1, <2>2 DEF Keeps, Has, Dirs, Content
<1>6. CASE \E p \in Makes(c), n \in Names :
          p # Final(n) /\ Has(fs, p) /\ fs' = Moved(fs, p, Final(n)) /\ Keeps(c)
  <2>1. PICK p \in Makes(c), n \in Names :
          p # Final(n) /\ Has(fs, p) /\ fs' = Moved(fs, p, Final(n)) /\ Keeps(c)
      BY <1>6
  <2>2. /\ fs' \in Trees /\ fs'.entry = [fs.entry EXCEPT ![Final(n)] = fs.entry[p], ![p] = None]
        /\ fs'.data = fs.data
      BY <1>0, <2>1, MovedIs, PathsDiffer
  <2> QED BY <1>0, <2>1, <2>2, PathsDiffer DEF Keeps, Has, Dirs, Content
<1>7. CASE \E b \in BOOLEAN : fs' = [fs EXCEPT !.dir = b] /\ Keeps(c)
  <2>1. PICK b \in BOOLEAN : fs' = [fs EXCEPT !.dir = b] /\ Keeps(c)
      BY <1>7
  <2>2. fs' \in Trees /\ fs'.entry = fs.entry /\ fs'.data = fs.data
      BY <1>0, <2>1, DirIs, Zenon
  <2> QED BY <1>0, <2>1, <2>2 DEF Keeps, Has, Dirs, Content
<1> QED BY <1>1, <1>2, <1>3, <1>4, <1>5, <1>6, <1>7 DEF ServerStep

LEMMA DiskFrame ==
    ASSUME TypeInv, NEW t \in Transfers, DiskStep(t)
    PROVE  /\ disk' \in Trees /\ lhand'[t] \in Inodes \cup {None}
           /\ \A p \in Paths : (\A n \in Names : p # Final(n)) =>
                 /\ Has(disk, p) /\ Has(disk', p) => disk'.entry[p] = disk.entry[p]
                 /\ Has(disk', p) /\ ~Has(disk, p) =>
                       p = Part_(t) /\ pc[t] = "open" /\ pc'[t] = "stream"
                 /\ p # Part_(t) /\ Has(disk', p) =>
                       /\ lhand[t] # disk.entry[p] => Content(disk', p) = Content(disk, p)
                       /\ lhand'[t] = disk.entry[p] => lhand[t] = disk.entry[p]
<1>0. /\ disk \in Trees /\ disk \in Dirs /\ Unshared(disk.entry)
      /\ lhand[t] \in Inodes \cup {None} /\ None \notin Inodes /\ lhand \in [Transfers -> Inodes \cup {None}]
      /\ pc[t] \in {"open", "rename"} => Part_(t) \in Paths /\ Final_(t) \in Paths /\ Part_(t) # Final_(t)
      /\ pc[t] = "rename" => \E n \in Names : Final_(t) = Final(n)
      /\ \A n \in Names : Final(n) \in Paths
    BY TransferTyped, TreeIsDir, FilesAssumption, PathsDiffer DEF AtFile, Final_
<1>1. CASE disk' = disk /\ HoldsLocal(t)
    BY <1>0, <1>1 DEF HoldsLocal, Has
<1>2. CASE /\ disk' = disk /\ pc[t] = "open" /\ pc'[t] = "stream" /\ Has(disk, Part_(t))
           /\ lhand'[t] = disk.entry[Part_(t)]
    BY <1>0, <1>2 DEF Has, Dirs, Unshared
<1>3. CASE /\ CanOpen(disk, lhand, Part_(t)) /\ pc[t] = "open" /\ pc'[t] = "stream"
           /\ disk' = Opened(disk, lhand, Part_(t)) /\ lhand'[t] = disk'.entry[Part_(t)]
  <2> DEFINE p == Part_(t)
  <2>2. disk' \in Trees
      BY <1>0, <1>3, OpenedIs, Zenon
  <2>3. PICK i \in Inodes : OpenedAs(disk, lhand, p, i, disk')
      BY <1>0, <1>3, OpenedIs, Zenon
  <2>4. /\ disk'.entry[p] = i /\ lhand'[t] = i
        /\ \A q \in Paths : q # p => disk'.entry[q] = disk.entry[q] /\ disk.entry[q] # i
        /\ \A j \in Inodes : j # i => disk'.data[j] = disk.data[j]
        /\ disk.entry[p] \in {None, i}
      BY <1>0, <1>3, <2>2, <2>3 DEF OpenedAs, Dirs, Has
  <2> QED BY <1>0, <1>3, <2>2, <2>4 DEF Has, Dirs, Content
<1>4. CASE \E n \in Names : CanOpen(disk, lhand, Final(n)) /\ disk' = Opened(disk, lhand, Final(n)) /\ HoldsLocal(t)
  <2>1. PICK n \in Names : CanOpen(disk, lhand, Final(n)) /\ disk' = Opened(disk, lhand, Final(n)) /\ HoldsLocal(t)
      BY <1>4
  <2> DEFINE p == Final(n)
  <2>2. disk' \in Trees
      BY <1>0, <2>1, OpenedIs, Zenon
  <2>3. PICK i \in Inodes : OpenedAs(disk, lhand, p, i, disk')
      BY <1>0, <2>1, OpenedIs, Zenon
  <2>4. /\ \A q \in Paths : q # p => disk'.entry[q] = disk.entry[q] /\ disk.entry[q] # i
        /\ \A j \in Inodes : j # i => disk'.data[j] = disk.data[j]
      BY <1>0, <2>2, <2>3 DEF OpenedAs, Dirs, Has
  <2> QED BY <1>0, <2>1, <2>2, <2>4 DEF Has, Dirs, Content, HoldsLocal
<1>5. CASE \E i \in Inodes, bytes \in Seq(Bytes) :
          /\ i = lhand[t] \/ \E n \in Names : i = disk.entry[Final(n)]
          /\ disk' = Filled(disk, i, bytes) /\ HoldsLocal(t)
  <2>1. PICK i \in Inodes, bytes \in Seq(Bytes) :
          /\ i = lhand[t] \/ \E n \in Names : i = disk.entry[Final(n)]
          /\ disk' = Filled(disk, i, bytes) /\ HoldsLocal(t)
      BY <1>5
  <2>a. FilledAs(disk, i, bytes, disk')
      BY <1>0, <2>1, FilledIs, Zenon
  <2>2. disk' \in Trees /\ disk'.entry = disk.entry /\ disk'.data = [disk.data EXCEPT ![i] = bytes]
      BY <2>a DEF FilledAs
  <2>3. \A p \in Paths : (\A n \in Names : p # Final(n)) /\ disk.entry[p] = i => i = lhand[t]
      BY <1>0, <2>1 DEF Unshared
  <2> QED BY <1>0, <2>1, <2>2, <2>3 DEF HoldsLocal, Has, Dirs, Content
<1>6. CASE \E n \in Names : disk' = Removed(disk, Final(n)) /\ HoldsLocal(t)
  <2>1. PICK n \in Names : disk' = Removed(disk, Final(n)) /\ HoldsLocal(t)
      BY <1>6
  <2>2. disk' \in Trees /\ disk'.entry = [disk.entry EXCEPT ![Final(n)] = None] /\ disk'.data = disk.data
      BY <1>0, <2>1, RemovedIs
  <2> QED BY <1>0, <2>1, <2>2 DEF HoldsLocal, Has, Dirs, Content
<1>7. CASE /\ pc[t] = "rename" /\ Has(disk, Part_(t))
           /\ disk' = Moved(disk, Part_(t), Final_(t)) /\ HoldsLocal(t)
  <2>2. /\ disk' \in Trees /\ disk'.entry = [disk.entry EXCEPT ![Final_(t)] = disk.entry[Part_(t)], ![Part_(t)] = None]
        /\ disk'.data = disk.data
      BY <1>0, <1>7, MovedIs
  <2> QED BY <1>0, <1>7, <2>2 DEF HoldsLocal, Has, Dirs, Content
<1> QED BY <1>1, <1>2, <1>3, <1>4, <1>5, <1>6, <1>7 DEF DiskStep

-----------------------------------------------------------------------------
(* Type correctness                                                         *)

Idles ==
    /\ UNCHANGED <<fs, pc, hand, todo, out, disk, sftp, cur, left, at, lhand, canceled>>
    /\ conn' \in {"none", "shell", "sftp"} /\ epoch' \in 1..MaxConnects
    /\ cache' \in {cache, None} /\ source' \in [Names -> Versions]

CallActs(c) ==
    \/ c \in Saves /\ Save(c)
    \/ c \in Creates /\ CreateEntry(c)
    \/ c \in Renames /\ RenameEntry(c)
    \/ c \in Deletes /\ DeleteEntry(c)
    \/ c \notin Saves /\ Invalidate(c)
    \/ c \in Lists /\ List(c)
    \/ c \in Searches \cup Previews /\ pc[c] \notin Ended /\ UNCHANGED <<cache, todo>> /\ fs' = fs

TransferActs(t) ==
    \/ fs' = fs /\ (Begin(t) \/ NextFile(t) \/ NoMoreFiles(t) \/ CancelFileOperation(t) \/ StreamFails(t))
    \/ fs' = fs /\ Invalidate(t) /\ UNCHANGED transferVars
    \/ t \in Uploads /\ Upload(t)
    \/ t \in Downloads /\ Download(t) /\ fs' = fs

CallSteps(c) ==
    /\ c \in Calls \ Transfers /\ Moves(c) /\ Puts(c) /\ UNCHANGED transferVars
    /\ c \in Saves => pc'[c] # "applied"
    /\ CallActs(c)
TransferSteps(t) == t \in Transfers /\ Moves(t) /\ Puts(t) /\ Turns(t) /\ Local(t) /\ TransferActs(t)

LEMMA StepMoves ==
    ASSUME TypeInv, Step
    PROVE  Idles \/ (\E c \in Calls : CallSteps(c)) \/ (\E t \in Transfers : TransferSteps(t))
<1>1. CASE EntryNext /\ UNCHANGED <<readVars, transferVars>>
  <2>1. CASE Connect \/ SftpReady \/ Disconnect \/ CacheExpires
    <3>1. UNCHANGED <<fs, pc, hand, todo, out, disk, sftp, cur, left, at, lhand, canceled, source>>
        BY <1>1, <2>1 DEF Connect, SftpReady, Disconnect, CacheExpires, transferVars
    <3>2. conn' \in {"none", "shell", "sftp"} /\ cache' \in {cache, None}
        BY <2>1 DEF Connect, SftpReady, Disconnect, CacheExpires, TypeInv, TypeOK
    <3>3. epoch' = epoch \/ (epoch < MaxConnects /\ epoch' = epoch + 1)
        BY <2>1 DEF Connect, SftpReady, Disconnect, CacheExpires
    <3>4. epoch' \in 1..MaxConnects
        BY <3>3, FilesAssumption DEF TypeInv, TypeOK
    <3> QED BY <3>1, <3>2, <3>4 DEF Idles, TypeInv, TypeOK
  <2>2. ASSUME NEW s \in Saves, Save(s) PROVE CallSteps(s)
      BY <1>1, <2>2, SaveMoves, KindsDiffer DEF CallSteps, CallActs, Calls, Transfers
  <2>3. ASSUME NEW c \in Creates, CreateEntry(c) PROVE CallSteps(c)
      BY <1>1, <2>3, CreateMoves, KindsDiffer DEF CallSteps, CallActs, Calls, Transfers
  <2>4. ASSUME NEW c \in Renames, RenameEntry(c) PROVE CallSteps(c)
      BY <1>1, <2>4, RenameMoves, CallsPut, KindsDiffer DEF CallSteps, CallActs, Calls, Transfers
  <2>5. ASSUME NEW c \in Deletes, DeleteEntry(c) PROVE CallSteps(c)
      BY <1>1, <2>5, DeleteMoves, CallsPut, KindsDiffer DEF CallSteps, CallActs, Calls, Transfers
  <2>6. ASSUME NEW c \in Calls, Invalidate(c) PROVE CallSteps(c) \/ (c \in Transfers /\ TransferSteps(c))
    <3>1. Moves(c) /\ Puts(c) /\ pc[c] = "applied" /\ pc'[c] \in {"ok", "failed"} /\ fs' = fs
        BY <2>6, InvalidateMoves, CallsPut, CallTyped DEF Invalidate, Go
    <3>2. CASE c \notin Transfers
        BY <1>1, <2>6, <3>1, <3>2 DEF CallSteps, CallActs, TypeInv
    <3>3. CASE c \in Transfers
      <4>1. Turns(c)
          BY <1>1, <3>1, <3>3, UnturnedTurns DEF AtFile
      <4>2. Local(c)
          BY <1>1, <3>1 DEF Local, DiskStep, HoldsLocal, transferVars
      <4> QED BY <1>1, <2>6, <3>1, <3>3, <4>1, <4>2 DEF TransferSteps, TransferActs
    <3> QED BY <3>2, <3>3
  <2>7. ASSUME NEW c \in Lists, List(c) PROVE CallSteps(c)
      BY <1>1, <2>7, ListMoves, CallsPut, KindsDiffer DEF CallSteps, CallActs, Calls, Transfers
  <2> QED BY <1>1, <2>1, <2>2, <2>3, <2>4, <2>5, <2>6, <2>7 DEF EntryNext, Calls
<1>2. CASE ReadsNext /\ UNCHANGED transferVars
  <2>1. ASSUME NEW c \in Searches, Search(c) PROVE CallSteps(c)
    <3>1. pc[c] \notin Ended
        BY <2>1 DEF Search, SearchStart, MatchLine, NotJson, RipgrepCloses, ScanFile, ScanEnds, Ended
    <3> QED BY <1>2, <2>1, <3>1, SearchMoves, CallsPut, KindsDiffer DEF CallSteps, CallActs, Calls, Transfers
  <2>2. ASSUME NEW c \in Previews, Preview(c) PROVE CallSteps(c)
    <3>1. pc[c] \notin Ended
        BY <2>2 DEF Preview, PreviewStat, PreviewOpen, PreviewChunk, PreviewEnds, Ended
    <3> QED BY <1>2, <2>2, <3>1, PreviewMoves, CallsPut, KindsDiffer DEF CallSteps, CallActs, Calls, Transfers
  <2> QED BY <1>2, <2>1, <2>2 DEF ReadsNext, Calls
<1>3. CASE TransfersNext /\ UNCHANGED readVars
  <2>1. ASSUME NEW t \in Transfers,
               Begin(t) \/ NextFile(t) \/ NoMoreFiles(t) \/ CancelFileOperation(t) \/ StreamFails(t)
        PROVE TransferSteps(t)
      BY <2>1, BothWaysMove, TransfersPut DEF TransferSteps, TransferActs
  <2>2. ASSUME NEW t \in Uploads, Upload(t) PROVE TransferSteps(t)
      BY <2>2, UploadMoves, TransfersPut DEF TransferSteps, TransferActs, Transfers
  <2>3. ASSUME NEW t \in Downloads, Download(t) PROVE TransferSteps(t)
      BY <2>3, DownloadMoves, TransfersPut DEF TransferSteps, TransferActs, Transfers
  <2>4. ASSUME NEW n \in Names, EditSource(n) PROVE Idles
      BY <2>4 DEF EditSource, Idles, fileVars, TypeInv, TypeOK
  <2> QED BY <1>3, <2>1, <2>2, <2>3, <2>4 DEF TransfersNext, Transfers
<1> QED BY <1>1, <1>2, <1>3 DEF Step

LEMMA PutsTyped ==
    ASSUME TypeInv, NEW c \in Calls, Puts(c)
    PROVE  /\ out' \in [Calls -> [via : 0..MaxConnects, sent : Nat]]
           /\ \A d \in Calls : d # c => out'[d] = out[d]
<1>1. out \in [Calls -> Outs] /\ out'[c] \in Outs /\ out' = [out EXCEPT ![c] = out'[c]]
    BY OutTyped DEF Puts
<1>2. out' \in [Calls -> Outs] /\ \A d \in Calls : d # c => out'[d] = out[d]
    BY <1>1
<1> QED BY <1>2 DEF Outs

LEMMA MovesTyped ==
    ASSUME TypeInv, NEW c \in Calls, Moves(c)
    PROVE  /\ conn' \in {"none", "shell", "sftp"} /\ epoch' \in 1..MaxConnects
           /\ fs' \in Trees /\ cache' \in {None} \cup SUBSET Paths
           /\ pc' \in [Calls -> Places] /\ hand' \in [Calls -> Inodes \cup {None}]
           /\ todo' \in [Calls -> SUBSET Paths]
           /\ \A d \in Calls : d # c => pc'[d] = pc[d] /\ hand'[d] = hand[d] /\ todo'[d] = todo[d]
           /\ \A d \in Calls : Holds(d, pc'[d]) => hand'[d] \in Inodes
<1>1. fs' \in Trees /\ hand'[c] \in Inodes \cup {None}
    BY ServerFrame DEF Moves
<1>2. \A d \in Calls : d # c => pc'[d] = pc[d] /\ hand'[d] = hand[d] /\ todo'[d] = todo[d]
    BY CallTyped DEF Moves
<1>3. /\ pc' \in [Calls -> Places] /\ hand' \in [Calls -> Inodes \cup {None}]
      /\ todo' \in [Calls -> SUBSET Paths]
    BY <1>1, CallTyped DEF Moves
<1>4. epoch' \in 1..MaxConnects /\ cache' \in {None} \cup SUBSET Paths
    BY CallTyped DEF Moves, TypeInv, TypeOK
<1>5. \A d \in Calls : Holds(d, pc'[d]) => hand'[d] \in Inodes
    BY <1>1, <1>2 DEF Moves, TypeInv
<1> QED BY <1>1, <1>2, <1>3, <1>4, <1>5 DEF Moves

LEMMA TurnsTyped ==
    ASSUME TypeInv, NEW t \in Transfers, Turns(t), Local(t), 
           \A d \in Calls : d # t => pc'[d] = pc[d]
    PROVE  /\ disk' \in Trees /\ source' \in [Names -> Versions]
           /\ sftp' \in [Transfers -> 0..MaxConnects]
           /\ cur' \in [Transfers -> Names \cup {None}] /\ left' \in [Transfers -> SUBSET Names]
           /\ at' \in [Transfers -> Nat] /\ lhand' \in [Transfers -> Inodes \cup {None}]
           /\ canceled' \in [Transfers -> BOOLEAN]
           /\ \A u \in Downloads : pc'[u] = "stream" => lhand'[u] \in Inodes
           /\ \A u \in Transfers : pc'[u] \in AtFile => cur'[u] \in Names
           /\ \A u \in Transfers : u # t => /\ cur'[u] = cur[u] /\ at'[u] = at[u] /\ lhand'[u] = lhand[u]
<1>1. disk' \in Trees /\ lhand'[t] \in Inodes \cup {None}
    BY DiskFrame DEF Local
<1>2. \A u \in Transfers : u # t => /\ cur'[u] = cur[u] /\ at'[u] = at[u] /\ lhand'[u] = lhand[u]
                                    /\ pc'[u] = pc[u]
    BY TransferTyped DEF Turns, Transfers, Calls
<1>3. /\ sftp' \in [Transfers -> 0..MaxConnects] /\ source' \in [Names -> Versions]
      /\ cur' \in [Transfers -> Names \cup {None}] /\ left' \in [Transfers -> SUBSET Names]
      /\ canceled' \in [Transfers -> BOOLEAN]
    BY TransferTyped DEF Turns
<1>4. at' \in [Transfers -> Nat] /\ lhand' \in [Transfers -> Inodes \cup {None}]
    BY <1>1, TransferTyped DEF Turns
<1>5. \A u \in Downloads : pc'[u] = "stream" => lhand'[u] \in Inodes
    BY <1>1, <1>2 DEF Turns, TypeInv, Transfers
<1>6. \A u \in Transfers : pc'[u] \in AtFile => cur'[u] \in Names
    BY <1>1, <1>2 DEF Turns, TypeInv, Transfers
<1> QED BY <1>1, <1>2, <1>3, <1>4, <1>5, <1>6

LEMMA HistoryTyped ==
    ASSUME TypeInv, OwnAfter, RacedAfter PROVE own' \in [Transfers -> BOOLEAN] /\ raced' \in BOOLEAN
<1>1. own \in [Transfers -> BOOLEAN] /\ raced \in BOOLEAN
    BY DEF TypeInv, TypeOK
<1>2. raced' \in BOOLEAN
    BY <1>1 DEF RacedAfter
<1>3. own' \in [Transfers -> BOOLEAN]
    BY <1>1 DEF OwnAfter
<1> QED BY <1>2, <1>3

LEMMA InitTyped == Init => TypeInv
<1> SUFFICES ASSUME Init PROVE TypeInv
    OBVIOUS
<1>1. <<>> \in Seq(Bytes) /\ Whole(OldVersion) \in Seq(Bytes)
    BY WholeIsSeq, FilesAssumption
<1>2. fs \in Trees
  <2>1. PICK old \in Names :
          fs = [dir |-> TRUE, data |-> [i \in Inodes |-> IF i = FirstInode THEN Whole(OldVersion) ELSE <<>>],
                entry |-> [p \in Paths |-> IF p = Final(old) THEN FirstInode ELSE None]]
      BY DEF Init, FilesInit
  <2>2. fs \in Dirs
      BY <1>1, <2>1, FilesAssumption DEF Dirs
  <2>3. Unshared(fs.entry)
      BY <2>1 DEF Unshared
  <2> QED BY <2>2, <2>3, TreeIsDir
<1>3. disk \in Trees
  <2>1. disk \in Dirs
      BY <1>1 DEF Init, TransfersInit, Dirs
  <2>2. Unshared(disk.entry)
      BY DEF Init, TransfersInit, Unshared
  <2> QED BY <2>1, <2>2, TreeIsDir
<1>4. \A c \in Calls : pc[c] \in {"idle", "off"}
    BY DEF Init, FilesInit
<1>5. pc \in [Calls -> Places]
    BY DEF Init, FilesInit, Places, Ended
<1>6a. conn = "sftp" /\ epoch \in 1..MaxConnects /\ 0 \in 0..MaxConnects /\ cache = None
    BY FilesAssumption DEF Init, FilesInit
<1>6b. /\ hand \in [Calls -> Inodes \cup {None}] /\ todo \in [Calls -> SUBSET Paths]
       /\ out \in [Calls -> [via : 0..MaxConnects, sent : Nat]]
    BY FilesAssumption DEF Init, FilesInit, NoWrite
<1>6c. /\ source \in [Names -> Versions] /\ sftp \in [Transfers -> 0..MaxConnects]
       /\ cur \in [Transfers -> Names \cup {None}] /\ left \in [Transfers -> SUBSET Names]
       /\ at \in [Transfers -> Nat] /\ lhand \in [Transfers -> Inodes \cup {None}]
       /\ canceled \in [Transfers -> BOOLEAN] /\ own \in [Transfers -> BOOLEAN] /\ raced \in BOOLEAN
    BY <1>6a, FilesAssumption DEF Init, TransfersInit
<1>6. TypeOK
    BY <1>2, <1>3, <1>5, <1>6a, <1>6b, <1>6c DEF TypeOK
<1> QED BY <1>4, <1>6 DEF TypeInv, Holds, Holding, AtFile, Calls, Transfers

LEMMA TypeInvNext == TypeInv /\ [Next]_vars => TypeInv'
<1> SUFFICES ASSUME TypeInv, [Next]_vars PROVE TypeInv'
    OBVIOUS
<1>1. CASE UNCHANGED vars
    BY <1>1 DEF vars, fileVars, transferVars, TypeInv, TypeOK, Holds, Trees
<1>2. CASE Next
  <2>0. own' \in [Transfers -> BOOLEAN] /\ raced' \in BOOLEAN
      BY <1>2, HistoryTyped DEF Next
  <2>1. CASE Idles
      BY <2>0, <2>1 DEF Idles, TypeInv, TypeOK, Holds
  <2>2. ASSUME NEW c \in Calls, CallSteps(c) PROVE TypeInv'
    <3>1. TypeOK'
        BY <2>0, <2>2, MovesTyped, PutsTyped DEF CallSteps, transferVars, TypeOK, TypeInv
    <3>2. \A d \in Calls : d # c => pc'[d] = pc[d]
        BY <2>2, MovesTyped DEF CallSteps
    <3>3. \A t \in Transfers : pc'[t] = pc[t] /\ t # c
        BY <2>2, <3>2 DEF CallSteps, Transfers, Calls
    <3>4. \A s \in Saves : pc'[s] # "applied"
        BY <2>2, <3>2 DEF CallSteps, TypeInv, Calls
    <3>5. UNCHANGED <<cur, lhand>> /\ \A t \in Downloads : t \in Transfers
        BY <2>2 DEF CallSteps, transferVars, Transfers
    <3>6. \A d \in Calls : Holds(d, pc'[d]) => hand'[d] \in Inodes
        BY <2>2, MovesTyped DEF CallSteps
    <3> QED BY <3>1, <3>3, <3>4, <3>5, <3>6 DEF TypeInv, Holds
  <2>3. ASSUME NEW t \in Transfers, TransferSteps(t) PROVE TypeInv'
    <3>0. t \in Calls
        BY TransferTyped
    <3>1. \A d \in Calls : d # t => pc'[d] = pc[d]
        BY <2>3, <3>0, MovesTyped DEF TransferSteps
    <3>2. TypeOK'
        BY <2>0, <2>3, <3>0, <3>1, MovesTyped, PutsTyped, TurnsTyped DEF TransferSteps, TypeOK
    <3>3. \A s \in Saves : pc'[s] # "applied"
        BY <2>3, <3>1, KindsDiffer DEF TypeInv, Calls, Transfers
    <3>4. \A d \in Calls : Holds(d, pc'[d]) => hand'[d] \in Inodes
        BY <2>3, <3>0, MovesTyped DEF TransferSteps
    <3>5. /\ \A u \in Downloads : pc'[u] = "stream" => lhand'[u] \in Inodes
          /\ \A u \in Transfers : pc'[u] \in AtFile => cur'[u] \in Names
        BY <2>3, <3>1, TurnsTyped DEF TransferSteps
    <3> QED BY <3>2, <3>3, <3>4, <3>5 DEF TypeInv, Holds
  <2> QED BY <1>2, <2>1, <2>2, <2>3, StepMoves DEF Next
<1> QED BY <1>1, <1>2

(* TypeOK for any names, contents and calls: no two names of the server, or *)
(* of the local directory, ever share a file.                               *)
THEOREM FilesTyped == Spec => []TypeOK
<1>1. TypeInv => TypeOK
    BY DEF TypeInv
<1> QED BY InitTyped, TypeInvNext, <1>1, PTL DEF Spec

-----------------------------------------------------------------------------
(* Temporary files.  That of a save is the file the save has written, which *)
(* no other call has open, for as long as it has its name, and holds what   *)
(* the save has sent by then; and the file a save writes has no other name. *)

\* The file i of d has no name but p.
OnlyAs(d, p, i) == \A q \in Paths : q # p => d.entry[q] # i

TempOf(s) ==
    /\ Has(fs, Temp(s)) =>
          /\ pc[s] \notin {"idle", "off", "ok", "conflict"}
          /\ pc[s] = "tempWrite" => /\ hand[s] = fs.entry[Temp(s)]
                                    /\ Content(fs, Temp(s)) = SubSeq(Whole(Data[s]), 1, out[s].sent)
          /\ pc[s] \in {"swap", "unlink", "rename"} => Content(fs, Temp(s)) = Whole(Data[s])
          /\ \A c \in Calls : hand[c] = fs.entry[Temp(s)] => c = s /\ pc[s] = "tempWrite"
    /\ pc[s] = "tempWrite" => OnlyAs(fs, Temp(s), hand[s])
    /\ pc[s] \in {"tempWrite", "directWrite"} => out[s].sent <= Size[Data[s]]

TempInv == \A s \in Saves : TempOf(s)

LEMMA NamelessFrame ==
    ASSUME TypeInv, NEW c \in Calls, ServerStep(c), NEW i \in Inodes, NEW p \in Paths,
           p \notin Makes(c), OnlyAs(fs, p, i), NEW d \in Calls, hand[d] = i
    PROVE  OnlyAs(fs', p, i)
<1>0. /\ fs \in Trees /\ fs \in Dirs /\ Makes(c) \subseteq Paths
      /\ None \notin Inodes /\ hand \in [Calls -> Inodes \cup {None}]
    BY CallTyped, TreeIsDir
<1>3. CASE \E q \in Makes(c) :
          /\ CanOpen(fs, hand, q) /\ fs' = Opened(fs, hand, q)
          /\ hand'[c] \in {None, fs'.entry[q]}
  <2>1. PICK q \in Makes(c) : CanOpen(fs, hand, q) /\ fs' = Opened(fs, hand, q)
      BY <1>3
  <2>2. q \in Paths /\ q # p
      BY <1>0, <2>1
  <2>3. PICK j \in Inodes : OpenedAs(fs, hand, q, j, fs')
      BY <1>0, <2>1, <2>2, OpenedIs, Zenon
  <2>4. /\ fs'.entry = [fs.entry EXCEPT ![q] = j]
        /\ Has(fs, q) => fs.entry[q] = j
        /\ ~Has(fs, q) => hand[d] # j
      BY <1>0, <2>3 DEF OpenedAs
  <2>5. j # i
      BY <2>2, <2>4 DEF OnlyAs
  <2> QED BY <1>0, <2>2, <2>4, <2>5 DEF OnlyAs, Dirs
<1>4. CASE \E bytes \in Seq(Bytes) : fs' = Filled(fs, hand[c], bytes) /\ Keeps(c)
  <2>1. PICK bytes \in Seq(Bytes) : fs' = Filled(fs, hand[c], bytes)
      BY <1>4
  <2>2. FilledAs(fs, hand[c], bytes, fs')
      BY <1>0, <2>1, FilledIs, Zenon
  <2> QED BY <2>2 DEF OnlyAs, FilledAs
<1>5. CASE \E q \in Paths : fs' = Removed(fs, q) /\ Keeps(c)
  <2>1. PICK q \in Paths : fs' = Removed(fs, q)
      BY <1>5
  <2>2. fs'.entry = [fs.entry EXCEPT ![q] = None]
      BY <1>0, <2>1, RemovedIs
  <2> QED BY <1>0, <2>2 DEF OnlyAs, Dirs
<1>6. CASE \E q \in Makes(c), n \in Names :
          q # Final(n) /\ Has(fs, q) /\ fs' = Moved(fs, q, Final(n)) /\ Keeps(c)
  <2>1. PICK q \in Makes(c), n \in Names : q # Final(n) /\ fs' = Moved(fs, q, Final(n))
      BY <1>6
  <2>2. q \in Paths /\ q # p /\ Final(n) \in Paths
      BY <1>0, <2>1, PathsDiffer
  <2>3. fs'.entry = [fs.entry EXCEPT ![Final(n)] = fs.entry[q], ![q] = None]
      BY <1>0, <2>1, <2>2, MovedIs
  <2> QED BY <1>0, <2>2, <2>3 DEF OnlyAs, Dirs
<1>7. CASE \E b \in BOOLEAN : fs' = [fs EXCEPT !.dir = b] /\ Keeps(c)
  <2>1. PICK b \in BOOLEAN : fs' = [fs EXCEPT !.dir = b]
      BY <1>7
  <2>2. fs'.entry = fs.entry
      BY <1>0, <2>1, DirIs, Zenon
  <2> QED BY <2>2 DEF OnlyAs
<1> QED BY <1>3, <1>4, <1>5, <1>6, <1>7 DEF ServerStep, OnlyAs

LEMMA OthersTemp ==
    ASSUME TypeInv, NEW s \in Saves, TempOf(s), NEW c \in Calls, c # s, Moves(c), Puts(c)
    PROVE  TempOf(s)'
<1>o. out'[s] = out[s]
    BY PutsTyped DEF Calls
<1>0. /\ s \in Calls /\ pc'[s] = pc[s] /\ hand'[s] = hand[s] /\ ServerStep(c)
      /\ \A d \in Calls : d # c => hand'[d] = hand[d]
    BY MovesTyped DEF Calls, Moves
<1>1. Temp(s) \in Paths /\ Temp(s) \notin Makes(c) /\ \A n \in Names : Temp(s) # Final(n)
    BY PathsDiffer DEF Makes, Finds
<1>2. ASSUME Has(fs', Temp(s))
      PROVE  /\ Has(fs, Temp(s)) /\ fs'.entry[Temp(s)] = fs.entry[Temp(s)]
             /\ Content(fs', Temp(s)) = Content(fs, Temp(s))
             /\ hand'[c] # fs.entry[Temp(s)]
  <2>1. Has(fs, Temp(s)) /\ fs'.entry[Temp(s)] = fs.entry[Temp(s)]
      BY <1>0, <1>1, <1>2, ServerFrame
  <2>2. hand[c] # fs.entry[Temp(s)]
      BY <2>1 DEF TempOf
  <2> QED BY <1>0, <1>1, <1>2, <2>1, <2>2, ServerFrame
<1>3. ASSUME Has(fs', Temp(s))
      PROVE  /\ pc'[s] \notin {"idle", "off", "ok", "conflict"}
             /\ pc'[s] = "tempWrite" => /\ hand'[s] = fs'.entry[Temp(s)]
                                        /\ Content(fs', Temp(s)) = SubSeq(Whole(Data[s]), 1, out'[s].sent)
             /\ pc'[s] \in {"swap", "unlink", "rename"} => Content(fs', Temp(s)) = Whole(Data[s])
             /\ \A d \in Calls : hand'[d] = fs'.entry[Temp(s)] => d = s /\ pc'[s] = "tempWrite"
    BY <1>0, <1>o, <1>2, <1>3 DEF TempOf
<1>4. ASSUME pc'[s] = "tempWrite" PROVE OnlyAs(fs', Temp(s), hand'[s])
  <2>1. hand[s] \in Inodes
      BY <1>0, <1>4, CallTyped DEF Holds, Holding
  <2> QED BY <1>0, <1>1, <1>4, <2>1, NamelessFrame DEF TempOf
<1>5. pc'[s] \in {"tempWrite", "directWrite"} => out'[s].sent <= Size[Data[s]]
    BY <1>0, <1>o DEF TempOf
<1> QED BY <1>3, <1>4, <1>5 DEF TempOf

LEMMA OwnTemp ==
    ASSUME TypeInv, NEW s \in Saves, TempOf(s), Save(s), Moves(s), Puts(s)
    PROVE  TempOf(s)'
<1>0. /\ s \in Calls /\ fs \in Trees /\ fs \in Dirs /\ Unshared(fs.entry) /\ fs' \in Trees
      /\ hand \in [Calls -> Inodes \cup {None}] /\ pc \in [Calls -> Places] /\ None \notin Inodes
      /\ Temp(s) \in Paths /\ Final(Target[s]) \in Paths /\ Temp(s) # Final(Target[s])
      /\ Data[s] \in Versions /\ Whole(Data[s]) \in Seq(Bytes)
      /\ Len(Whole(Data[s])) = Size[Data[s]] /\ Size[Data[s]] \in Nat
      /\ out[s].sent \in Nat /\ out' = [out EXCEPT ![s] = out'[s]]
      /\ \A d \in Calls : d # s => hand'[d] = hand[d]
  <2>1. s \in Calls /\ Data[s] \in Versions
      BY FilesAssumption DEF Calls
  <2> QED BY <2>1, CallTyped, MovesTyped, OutTyped, PathsDiffer, TreeIsDir, WholeIsSeq DEF Puts
<1>o. ASSUME NEW done \in {"tempWrite", "directWrite"}, NEW p \in {Temp(s), Final(Target[s])},
             OpenWrite(s, p, done, "cleanup")
      PROVE  pc'[s] = done => out'[s].sent = 0 /\ out'[s].sent <= Size[Data[s]]
  <2>1. p \in Makes(s) /\ done \in Places /\ "cleanup" \in Places /\ ~Holds(s, "cleanup")
      BY KindsDiffer, PathsDiffer DEF Makes, Finds, Places, Holds, Holding
  <2>2. pc'[s] = done => out'[s].sent = 0
      BY <1>0, <1>o, <2>1, OpenWriteMoves
  <2> QED BY <1>0, <2>2
<1>k. ASSUME pc'[s] \notin {"idle", "off", "ok", "conflict", "tempWrite", "swap", "unlink", "rename"},
             pc'[s] = "directWrite" => out'[s].sent <= Size[Data[s]],
             \A d \in Calls : hand'[d] # None => hand'[d] # fs'.entry[Temp(s)]
      PROVE  TempOf(s)'
    BY <1>k DEF TempOf, Has
<1>1. CASE SaveTemp(s)
  <2>1. ~Has(fs, Temp(s))
      BY <1>1 DEF SaveTemp, TempOf
  <2>2. CASE fs' = fs /\ pc' = [pc EXCEPT ![s] = "cleanup"]
      BY <1>0, <2>1, <2>2 DEF TempOf, Has
  <2>3. CASE CanOpen(fs, hand, Temp(s)) /\ fs' = Opened(fs, hand, Temp(s))
    <3>1. PICK i \in Inodes : OpenedAs(fs, hand, Temp(s), i, fs')
        BY <1>0, <2>3, OpenedIs, Zenon
    <3>2. /\ fs'.entry[Temp(s)] = i /\ OnlyAs(fs', Temp(s), i) /\ fs'.data[i] = <<>>
          /\ \A d \in Calls : hand[d] # i
        BY <1>0, <2>1, <3>1 DEF OpenedAs, Dirs, OnlyAs
    <3>3. /\ pc'[s] \in {"tempWrite", "cleanup"}
          /\ hand'[s] = IF pc'[s] = "tempWrite" THEN i ELSE None
        BY <1>0, <1>1, <3>2 DEF SaveTemp, OpenWrite, Request, Go
    <3>4. pc'[s] = "tempWrite" => /\ Content(fs', Temp(s)) = SubSeq(Whole(Data[s]), 1, out'[s].sent)
                                  /\ out'[s].sent <= Size[Data[s]]
      <4>1. pc'[s] = "tempWrite" => out'[s].sent = 0 /\ out'[s].sent <= Size[Data[s]]
          BY <1>1, <1>o DEF SaveTemp
      <4> QED BY <1>0, <3>2, <4>1, BegunIs DEF Content
    <3> QED BY <1>0, <3>2, <3>3, <3>4 DEF TempOf
  <2> QED BY <1>1, <2>2, <2>3 DEF SaveTemp, OpenWrite, Request, Go
<1>2. CASE SaveTempWrite(s)
  <2>0. pc[s] = "tempWrite" /\ Holds(s, pc[s]) /\ out[s].sent <= Size[Data[s]]
      BY <1>2 DEF SaveTempWrite, Holds, Holding, TempOf
  <2>1. CASE WriteByte(s, Whole(Data[s]))
    <3>1. /\ UNCHANGED <<pc, hand>> /\ FilledAs(fs, hand[s], ByteIn(s, Whole(Data[s])), fs')
          /\ out[s].sent < Size[Data[s]] /\ out'[s].sent = out[s].sent + 1
        BY <1>0, <2>0, <2>1, WriteByteMoves
    <3>2. out'[s].sent <= Size[Data[s]]
        BY <1>0, <3>1
    <3>3. fs'.entry = fs.entry /\ hand[s] \in Inodes
        BY <1>0, <2>0, <3>1, CallTyped DEF FilledAs
    <3>4. ASSUME Has(fs, Temp(s)) PROVE Content(fs', Temp(s)) = SubSeq(Whole(Data[s]), 1, out'[s].sent)
      <4>1. hand[s] = fs.entry[Temp(s)] /\ fs.data[hand[s]] = SubSeq(Whole(Data[s]), 1, out[s].sent)
          BY <2>0, <3>4 DEF TempOf, Content
      <4>2. Content(fs', Temp(s)) = ByteIn(s, Whole(Data[s]))
          BY <1>0, <3>1, <3>3, <4>1 DEF FilledAs, Content, Dirs
      <4> QED BY <1>0, <3>1, <4>1, <4>2, BegunIs DEF ByteIn
    <3> QED BY <2>0, <3>1, <3>2, <3>3, <3>4 DEF TempOf, OnlyAs, Has
  <2>2. CASE WriteEnds(s, Whole(Data[s]), "swap", "cleanup")
    <3>0. /\ "swap" \in Places /\ "cleanup" \in Places /\ ~Holds(s, "swap") /\ ~Holds(s, "cleanup")
        BY KindsDiffer DEF Places, Holds, Holding
    <3>1. /\ fs' = fs /\ hand' = [hand EXCEPT ![s] = None] /\ pc'[s] \in {"swap", "cleanup"}
          /\ pc'[s] = "swap" => out[s].sent >= Size[Data[s]]
        BY <1>0, <2>2, <3>0, WriteEndsMoves
    <3>2. ASSUME Has(fs, Temp(s)), pc'[s] = "swap" PROVE Content(fs', Temp(s)) = Whole(Data[s])
      <4>1. out[s].sent = Size[Data[s]]
          BY <1>0, <2>0, <3>1, <3>2
      <4> QED BY <1>0, <2>0, <3>1, <3>2, <4>1, BegunIs DEF TempOf
    <3>3. \A d \in Calls : Has(fs, Temp(s)) => hand'[d] # fs.entry[Temp(s)]
        BY <1>0, <3>1 DEF TempOf, Has
    <3> QED BY <3>1, <3>2, <3>3 DEF TempOf
  <2> QED BY <1>2, <2>1, <2>2 DEF SaveTempWrite, Write
<1>3. CASE SaveSwap(s) \/ SaveRename(s)
  <2>1. /\ pc[s] \in {"swap", "rename"} /\ hand' = hand
        /\ pc'[s] \in {"ok", "unlink", "direct"}
        /\ \/ fs' = fs /\ pc'[s] # "ok"
           \/ Has(fs, Temp(s)) /\ fs' = Moved(fs, Temp(s), Final(Target[s]))
      BY <1>0, <1>3 DEF SaveSwap, SaveRename, Ask, Request, Go, CanReplace, CanRename
  <2>2. CASE fs' = fs /\ pc'[s] # "ok"
      BY <2>1, <2>2 DEF TempOf
  <2>3. CASE Has(fs, Temp(s)) /\ fs' = Moved(fs, Temp(s), Final(Target[s]))
    <3>1. fs'.entry = [fs.entry EXCEPT ![Final(Target[s])] = fs.entry[Temp(s)], ![Temp(s)] = None]
        BY <1>0, <2>3, MovedIs, SMTT(60)
    <3>2. ~Has(fs', Temp(s))
        BY <1>0, <3>1 DEF Has, Dirs
    <3> QED BY <2>1, <3>2 DEF TempOf
  <2> QED BY <2>1, <2>2, <2>3
<1>4. CASE SaveUnlink(s)
  <2>1. /\ pc[s] = "unlink" /\ hand' = hand /\ pc'[s] \in {"rename", "direct"}
        /\ fs' = fs \/ fs' = Removed(fs, Final(Target[s]))
      BY <1>0, <1>4 DEF SaveUnlink, Ask, Request, Go
  <2>2. fs'.entry[Temp(s)] = fs.entry[Temp(s)] /\ fs'.data = fs.data
    <3>1. /\ Removed(fs, Final(Target[s])).entry = [fs.entry EXCEPT ![Final(Target[s])] = None]
          /\ Removed(fs, Final(Target[s])).data = fs.data
        BY <1>0, RemovedIs
    <3> QED BY <1>0, <2>1, <3>1 DEF Dirs
  <2> QED BY <2>1, <2>2 DEF TempOf, Has, Content
<1>5. CASE SaveDirect(s)
  <2>1. /\ pc[s] = "direct" /\ pc'[s] \in {"directWrite", "cleanup"}
        /\ \/ fs' = fs /\ pc'[s] = "cleanup"
           \/ CanOpen(fs, hand, Final(Target[s])) /\ fs' = Opened(fs, hand, Final(Target[s]))
        /\ hand'[s] \in {None, fs'.entry[Final(Target[s])]}
        /\ pc'[s] = "cleanup" => hand'[s] = None
      BY <1>0, <1>5 DEF SaveDirect, OpenWrite, Request, Go
  <2>2. CASE fs' = fs /\ pc'[s] = "cleanup"
      BY <1>0, <1>k, <2>1, <2>2 DEF TempOf, Has
  <2>3. CASE CanOpen(fs, hand, Final(Target[s])) /\ fs' = Opened(fs, hand, Final(Target[s]))
    <3>1. PICK i \in Inodes : OpenedAs(fs, hand, Final(Target[s]), i, fs')
        BY <1>0, <2>3, OpenedIs, Zenon
    <3>2. fs'.entry[Final(Target[s])] = i /\ fs'.entry[Temp(s)] = fs.entry[Temp(s)] /\ fs.entry[Temp(s)] # i
        BY <1>0, <3>1 DEF OpenedAs, Dirs
    <3>3. pc'[s] = "directWrite" => out'[s].sent <= Size[Data[s]]
        BY <1>5, <1>o DEF SaveDirect
    <3> QED BY <1>0, <1>k, <2>1, <3>2, <3>3 DEF TempOf, Has
  <2> QED BY <2>1, <2>2, <2>3
<1>6. CASE SaveDirectWrite(s)
  <2>0. pc[s] = "directWrite" /\ Holds(s, pc[s]) /\ out[s].sent <= Size[Data[s]]
      BY <1>6 DEF SaveDirectWrite, Holds, Holding, TempOf
  <2>1. CASE WriteByte(s, Whole(Data[s]))
    <3>0. /\ UNCHANGED <<pc, hand>> /\ FilledAs(fs, hand[s], ByteIn(s, Whole(Data[s])), fs')
          /\ out[s].sent < Size[Data[s]] /\ out'[s].sent = out[s].sent + 1
        BY <1>0, <2>0, <2>1, WriteByteMoves
    <3>1. /\ UNCHANGED <<pc, hand>> /\ fs'.entry = fs.entry
          /\ out[s].sent < Size[Data[s]] /\ out'[s].sent = out[s].sent + 1
        BY <3>0 DEF FilledAs
    <3>2. out'[s].sent <= Size[Data[s]]
        BY <1>0, <3>1
    <3> QED BY <1>0, <1>k, <2>0, <3>1, <3>2 DEF TempOf, Has
  <2>2. CASE WriteEnds(s, Whole(Data[s]), "dropTemp", "cleanup")
    <3>0. /\ "dropTemp" \in Places /\ "cleanup" \in Places /\ ~Holds(s, "dropTemp") /\ ~Holds(s, "cleanup")
        BY KindsDiffer DEF Places, Holds, Holding
    <3>1. fs' = fs /\ hand' = [hand EXCEPT ![s] = None] /\ pc'[s] \in {"dropTemp", "cleanup"}
        BY <1>0, <2>2, <3>0, WriteEndsMoves
    <3> QED BY <1>0, <1>k, <2>0, <3>1 DEF TempOf, Has
  <2> QED BY <1>6, <2>1, <2>2 DEF SaveDirectWrite, Write
<1>7. CASE SaveDropTemp(s) \/ SaveCleanup(s)
  <2>1. /\ pc[s] \in {"dropTemp", "cleanup"} /\ hand' = hand /\ pc'[s] \in {"ok", "cleanup", "failed"}
        /\ \/ fs' = fs /\ pc'[s] # "ok"
           \/ fs' = Removed(fs, Temp(s))
      BY <1>0, <1>7 DEF SaveDropTemp, SaveCleanup, Ask, Request, Go
  <2>2. CASE fs' = fs /\ pc'[s] # "ok"
      BY <1>0, <1>k, <2>1, <2>2 DEF TempOf, Has
  <2>3. CASE fs' = Removed(fs, Temp(s))
    <3>0. fs'.entry = [fs.entry EXCEPT ![Temp(s)] = None]
        BY <1>0, <2>3, RemovedIs
    <3>1. ~Has(fs', Temp(s))
        BY <1>0, <3>0 DEF Has, Dirs
    <3> QED BY <2>1, <3>1 DEF TempOf
  <2> QED BY <2>1, <2>2, <2>3
<1> QED BY <1>1, <1>2, <1>3, <1>4, <1>5, <1>6, <1>7 DEF Save

LEMMA TempInvInit == Init => TempInv
<1> SUFFICES ASSUME Init, NEW s \in Saves PROVE TempOf(s)
    BY DEF TempInv
<1>1. PICK old \in Names : fs.entry = [p \in Paths |-> IF p = Final(old) THEN FirstInode ELSE None]
    BY DEF Init, FilesInit
<1>2. ~Has(fs, Temp(s))
    BY <1>1, PathsDiffer DEF Has
<1>3. pc[s] \notin {"tempWrite", "directWrite"}
    BY DEF Init, FilesInit, Calls
<1> QED BY <1>2, <1>3 DEF TempOf

LEMMA TempInvNext == TypeInv /\ TempInv /\ [Next]_vars => TempInv'
<1> SUFFICES ASSUME TypeInv, TempInv, [Next]_vars, NEW s \in Saves PROVE TempOf(s)'
    BY DEF TempInv
<1>0. TempOf(s)
    BY DEF TempInv
<1>1. CASE UNCHANGED vars \/ Idles
    BY <1>0, <1>1 DEF vars, fileVars, Idles, TempOf, OnlyAs
<1>2. CASE Next
  <2>1. ASSUME NEW c \in Calls, CallSteps(c) PROVE TempOf(s)'
    <3>1. CASE c = s
        BY <1>0, <2>1, <3>1, OwnTemp, KindsDiffer DEF CallSteps, CallActs
    <3>2. CASE c # s
        BY <1>0, <2>1, <3>2, OthersTemp DEF CallSteps
    <3> QED BY <3>1, <3>2
  <2>2. ASSUME NEW t \in Transfers, TransferSteps(t) PROVE TempOf(s)'
      BY <1>0, <2>2, OthersTemp, KindsDiffer DEF TransferSteps, Calls, Transfers
  <2> QED BY <1>1, <1>2, <2>1, <2>2, StepMoves DEF Next
<1> QED BY <1>1, <1>2

(* Whatever other calls do meanwhile, a save that has unlinked its target,  *)
(* or is about to, still has all of the new content under its temporary     *)
(* name, unless somebody removed that name; for any contents and calls.     *)
THEOREM TempStaysWhole == Spec => []TempIsWhole
<1>1. TempInv => TempIsWhole
    BY DEF TempInv, TempOf, TempIsWhole
<1> QED BY InitTyped, TypeInvNext, TempInvInit, TempInvNext, <1>1, PTL DEF Spec

-----------------------------------------------------------------------------
(* The saves of a file implement AtomicSave.                                *)

LEMMA ActsWhileActive ==
    /\ \A c \in Calls : CallSteps(c) => pc[c] \notin Ended
    /\ \A t \in Transfers : TransferSteps(t) => pc[t] \notin Ended
<1>1. ASSUME NEW c \in Calls, CallActs(c) PROVE pc[c] \notin Ended
  <2>1. Save(c) => pc[c] \notin Ended
      BY DEF Save, SaveTemp, SaveTempWrite, SaveSwap, SaveUnlink, SaveRename, SaveDirect,
             SaveDirectWrite, SaveDropTemp, SaveCleanup, Ended
  <2>2. CreateEntry(c) \/ RenameEntry(c) \/ DeleteEntry(c) \/ Invalidate(c) \/ List(c) => pc[c] \notin Ended
      BY DEF CreateEntry, RenameEntry, DeleteEntry, DeleteList, DeleteEach, DeleteLast, Invalidate,
             List, ReadDir, ReadDirReply, Ended
  <2> QED BY <1>1, <2>1, <2>2 DEF CallActs
<1>2. ASSUME NEW t \in Transfers, TransferActs(t) PROVE pc[t] \notin Ended
  <2>1. Begin(t) \/ NextFile(t) \/ NoMoreFiles(t) \/ CancelFileOperation(t) \/ StreamFails(t) \/ Invalidate(t)
           => pc[t] \notin Ended
      BY DEF Begin, NextFile, NoMoreFiles, CancelFileOperation, Registered, StreamFails, Streams,
             Invalidate, Ended
  <2>2. Upload(t) => pc[t] \notin Ended
      BY DEF Upload, UploadEnsure, UploadStat, UploadOpen, UploadChunk, UploadStreamed, UploadInto,
             UploadClear, UploadSwap, UploadWithShell, Streams, Ended
  <2>3. Download(t) => pc[t] \notin Ended
      BY DEF Download, DownloadFails, DownloadEnsure, DownloadStat, DownloadOpen, DownloadChunk,
             DownloadStreamed, DownloadSwap, DownloadWithShell, Streams, Ended
  <2> QED BY <1>2, <2>1, <2>2, <2>3 DEF TransferActs
<1> QED BY <1>1, <1>2 DEF CallSteps, TransferSteps

LEMMA EditedIs ==
    /\ EditedSaves \subseteq Saves /\ EditedSaves \subseteq Calls
    /\ Final(Edited) \in Paths
    /\ \A s \in EditedSaves : /\ Target[s] = Edited /\ EditedContents[s] = Whole(Data[s])
                              /\ Whole(Data[s]) \in Seq(Bytes)
                              /\ Temp(s) \in Paths /\ Temp(s) # Final(Edited)
BY FilesAssumption, TransfersAssumption, PathsDiffer, WholeIsSeq
   DEF EditedSaves, EditedContents, Calls

LEMMA FileIsContent == TypeInv => EditedFile \in Seq(Bytes) \cup {None}
BY SizesAreNat, EditedIs DEF EditedFile, TypeInv, TypeOK

\* A call that is no save of the file meddles.
LEMMA Meddles ==
    ASSUME TypeInv, TypeInv', NEW c \in Calls \ EditedSaves, Moves(c), pc[c] \notin Ended
    PROVE  Promise!Meddle
<1>1. \A r \in EditedSaves : pc'[r] = pc[r]
    BY MovesTyped, EditedIs
<1>2. EditedStates' = EditedStates
    BY <1>1 DEF EditedStates, SaveState
<1>3. Disturbed' \subseteq {r \in EditedSaves : EditedStates[r] = "fallback"}
    BY <1>1 DEF Disturbed, EditedStates, SaveState
<1>4. Meddling = TRUE
    BY DEF Meddling
<1>5. Meddling' \in BOOLEAN
    BY DEF Meddling
<1>6. EditedFile' \in Seq(Bytes) \cup {None}
    BY SizesAreNat, EditedIs DEF EditedFile, TypeInv, TypeOK
<1> QED BY <1>2, <1>3, <1>4, <1>5, <1>6 DEF Promise!Meddle

\* What a step of one of the saves leaves of the others.
LEMMA SaveFrame ==
    ASSUME TypeInv, NEW s \in EditedSaves, Moves(s), Puts(s)
    PROVE  /\ Meddling' = Meddling
           /\ EditedStates' = [EditedStates EXCEPT ![s] = SaveState(s)']
           /\ SaveState(s)' = SaveState(s) => EditedStates' = EditedStates
           /\ EditedStates[s] = SaveState(s)
           /\ pc'[s] # "directWrite" \/ s \notin Disturbed' \/ s \in Disturbed => Promise!Disturbs(s)
           /\ pc'[s] # "directWrite" /\ EditedFile' = EditedFile
              /\ fs'.entry[Final(Edited)] = fs.entry[Final(Edited)]
              => Disturbed' = Disturbed \ {s}
           /\ pc[s] # "directWrite" => s \notin Disturbed
<1>1. \A c \in Calls : c # s => pc'[c] = pc[c] /\ hand'[c] = hand[c] /\ out'[c] = out[c]
    BY MovesTyped, PutsTyped, EditedIs
<1>2. \A r \in EditedSaves : r # s => pc'[r] = pc[r] /\ hand'[r] = hand[r] /\ out'[r] = out[r]
    BY <1>1, EditedIs
<1>3. Meddling' = Meddling
    BY <1>1 DEF Meddling
<1>4. \A r \in EditedSaves : r # s => SaveState(r)' = SaveState(r)
    BY <1>2 DEF SaveState
<1>5. EditedStates' = [EditedStates EXCEPT ![s] = SaveState(s)']
    BY <1>4 DEF EditedStates
<1>6. SaveState(s)' = SaveState(s) => EditedStates' = EditedStates
    BY <1>4 DEF EditedStates
<1>7. Disturbed' \ {s} \subseteq {r \in EditedSaves : EditedStates[r] = "fallback"}
    BY <1>2 DEF Disturbed, EditedStates, SaveState
<1>8. (pc'[s] # "directWrite" => s \notin Disturbed') /\ (pc[s] # "directWrite" => s \notin Disturbed)
    BY DEF Disturbed
<1>9. ASSUME pc'[s] # "directWrite", EditedFile' = EditedFile,
             fs'.entry[Final(Edited)] = fs.entry[Final(Edited)]
      PROVE  Disturbed' = Disturbed \ {s}
  <2>1. ASSUME NEW r \in EditedSaves, r # s PROVE r \in Disturbed' <=> r \in Disturbed
    <3>1. pc[r] = "directWrite" => hand[r] \in Inodes /\ hand[r] # None
        BY EditedIs, CallTyped DEF Holds, Holding
    <3>2. pc[r] = "directWrite" /\ hand[r] = fs.entry[Final(Edited)] => fs'.data[hand[r]] = fs.data[hand[r]]
        BY <1>9, <3>1 DEF EditedFile, Has, Content
    <3> QED BY <1>2, <1>9, <2>1, <3>2 DEF Disturbed
  <2> QED BY <1>8, <1>9, <2>1 DEF Disturbed
<1> QED BY <1>3, <1>5, <1>6, <1>7, <1>8, <1>9 DEF Promise!Disturbs, EditedStates

LEMMA SaveImplements ==
    ASSUME TypeInv, NEW s \in EditedSaves, TempOf(s), Save(s), Moves(s), Puts(s)
    PROVE  \/ Promise!Begin(s) \/ Promise!Replace(s) \/ Promise!Refuse(s) \/ Promise!Tear(s)
           \/ Promise!Land(s) \/ Promise!Overtaken(s) \/ Promise!Saved(s) \/ Promise!Fail(s)
           \/ UNCHANGED Promise!vars
<1>0. /\ s \in Calls /\ s \in Saves /\ fs \in Trees /\ fs \in Dirs /\ Unshared(fs.entry) /\ fs' \in Trees
      /\ hand \in [Calls -> Inodes \cup {None}] /\ pc \in [Calls -> Places] /\ None \notin Inodes
      /\ Temp(s) \in Paths /\ Final(Edited) \in Paths /\ Temp(s) # Final(Edited) /\ Target[s] = Edited
      /\ Whole(Data[s]) \in Seq(Bytes) /\ EditedContents[s] = Whole(Data[s]) /\ Data[s] \in Versions
      /\ Len(Whole(Data[s])) = Size[Data[s]] /\ Size[Data[s]] \in Nat /\ out[s].sent \in Nat
  <2>1. s \in Saves /\ s \in Calls /\ Data[s] \in Versions
      BY EditedIs, FilesAssumption
  <2> QED BY <2>1, EditedIs, CallTyped, MovesTyped, OutTyped, TreeIsDir, WholeIsSeq
<1>f. /\ Meddling' = Meddling /\ EditedStates[s] = SaveState(s)
      /\ EditedStates' = [EditedStates EXCEPT ![s] = SaveState(s)']
      /\ SaveState(s)' = SaveState(s) => EditedStates' = EditedStates
      /\ pc'[s] # "directWrite" \/ s \notin Disturbed' \/ s \in Disturbed => Promise!Disturbs(s)
    BY SaveFrame
<1>g. ASSUME pc[s] # "directWrite", pc'[s] # "directWrite", EditedFile' = EditedFile,
             fs'.entry[Final(Edited)] = fs.entry[Final(Edited)]
      PROVE  Disturbed' = Disturbed
    BY <1>g, SaveFrame
<1>t. ASSUME \/ EditedFile' \in {EditedFile, None} \/ s \in Disturbed
             \/ \E n \in 0..Size[Data[s]] : EditedFile' = SubSeq(Whole(Data[s]), 1, n)
      PROVE  EditedFile' \in Promise!Torn(s)
  <2>1. EditedFile' \in Seq(Bytes) \cup {None}
      BY <1>0, SizesAreNat DEF EditedFile
  <2> QED BY <1>0, <1>t, <2>1 DEF Promise!Torn, Promise!Begun
<1>h. ASSUME fs'.entry[Final(Edited)] = fs.entry[Final(Edited)],
             Has(fs, Final(Edited)) => Content(fs', Final(Edited)) = Content(fs, Final(Edited))
      PROVE  EditedFile' = EditedFile
    BY <1>h DEF EditedFile, Has
<1>1. CASE SaveTemp(s)
  <2>1. /\ pc[s] = "idle" /\ pc'[s] \in {"tempWrite", "cleanup"}
        /\ fs' = fs \/ (CanOpen(fs, hand, Temp(s)) /\ fs' = Opened(fs, hand, Temp(s)))
      BY <1>0, <1>1 DEF SaveTemp, OpenWrite, Request, Go
  <2>2. /\ fs'.entry[Final(Edited)] = fs.entry[Final(Edited)]
        /\ Has(fs, Final(Edited)) => Content(fs', Final(Edited)) = Content(fs, Final(Edited))
    <3>1. CASE fs' = fs
        BY <3>1
    <3>2. CASE CanOpen(fs, hand, Temp(s)) /\ fs' = Opened(fs, hand, Temp(s))
      <4>1. PICK i \in Inodes : OpenedAs(fs, hand, Temp(s), i, fs')
          BY <1>0, <3>2, OpenedIs, Zenon
      <4> QED BY <1>0, <4>1 DEF OpenedAs, Dirs, Content, Has
    <3> QED BY <2>1, <3>1, <3>2
  <2>3. EditedFile' = EditedFile /\ Disturbed' = Disturbed
      BY <1>g, <1>h, <2>1, <2>2
  <2>4. SaveState(s) = "idle" /\ SaveState(s)' \in {"writing", "failed"} /\ pc'[s] # "directWrite"
      BY <2>1 DEF SaveState
  <2> QED BY <1>f, <2>3, <2>4 DEF Promise!Begin, Promise!Fail, Promise!Becomes
<1>2. CASE SaveTempWrite(s)
  <2>1. pc[s] = "tempWrite" /\ Holds(s, pc[s]) /\ hand[s] # fs.entry[Final(Edited)]
      BY <1>0, <1>2 DEF SaveTempWrite, Holds, Holding, TempOf, OnlyAs
  <2>2. CASE WriteByte(s, Whole(Data[s]))
    <3>1. UNCHANGED <<pc, hand>> /\ FilledAs(fs, hand[s], ByteIn(s, Whole(Data[s])), fs')
        BY <1>0, <2>1, <2>2, WriteByteMoves
    <3>2. /\ fs'.entry[Final(Edited)] = fs.entry[Final(Edited)]
          /\ Has(fs, Final(Edited)) => Content(fs', Final(Edited)) = Content(fs, Final(Edited))
        BY <1>0, <2>1, <3>1 DEF FilledAs, Dirs, Content, Has
    <3>3. EditedFile' = EditedFile /\ Disturbed' = Disturbed
        BY <1>g, <1>h, <2>1, <3>1, <3>2
    <3>4. SaveState(s)' = SaveState(s)
        BY <3>1 DEF SaveState
    <3> QED BY <1>f, <3>3, <3>4 DEF Promise!vars
  <2>3. CASE WriteEnds(s, Whole(Data[s]), "swap", "cleanup")
    <3>0. /\ "swap" \in Places /\ "cleanup" \in Places /\ ~Holds(s, "swap") /\ ~Holds(s, "cleanup")
        BY <1>0, KindsDiffer DEF Places, Holds, Holding
    <3>1. fs' = fs /\ pc'[s] \in {"swap", "cleanup"}
        BY <1>0, <2>3, <3>0, WriteEndsMoves
    <3>2. EditedFile' = EditedFile
        BY <3>1 DEF EditedFile
    <3>3. Disturbed' = Disturbed
        BY <1>g, <2>1, <3>1, <3>2
    <3>4. SaveState(s) = "writing" /\ SaveState(s)' \in {"writing", "failed"}
        BY <2>1, <3>1 DEF SaveState
    <3> QED BY <1>f, <3>1, <3>2, <3>3, <3>4 DEF Promise!vars, Promise!Fail, Promise!Becomes
  <2> QED BY <1>2, <2>2, <2>3 DEF SaveTempWrite, Write
<1>m. ASSUME Has(fs, Temp(s)), pc[s] \in {"swap", "rename"}, fs' = Moved(fs, Temp(s), Final(Edited))
      PROVE  EditedFile' = EditedContents[s]
  <2>1. /\ fs'.entry = [fs.entry EXCEPT ![Final(Edited)] = fs.entry[Temp(s)], ![Temp(s)] = None]
        /\ fs'.data = fs.data
      BY <1>0, <1>m, MovedIs, SMTT(60)
  <2>2. Content(fs, Temp(s)) = Whole(Data[s])
      BY <1>m DEF TempOf
  <2>3. fs'.entry[Final(Edited)] = fs.entry[Temp(s)]
      BY <1>0, <2>1 DEF Dirs
  <2> QED BY <1>0, <1>m, <2>1, <2>2, <2>3 DEF EditedFile, Has, Content
<1>3. CASE SaveSwap(s)
  <2>1. /\ pc[s] = "swap"
        /\ \/ fs' = fs /\ pc'[s] = "unlink"
           \/ /\ Has(fs, Temp(s)) /\ fs' = Moved(fs, Temp(s), Final(Edited))
              /\ pc'[s] \in {"ok", "unlink"}
      BY <1>0, <1>3 DEF SaveSwap, Ask, Request, Go, CanReplace
  <2>2. EditedFile' = EditedContents[s] \/ (EditedFile' = EditedFile /\ pc'[s] = "unlink")
      BY <1>m, <2>1 DEF EditedFile
  <2>3. /\ SaveState(s) = "writing" /\ SaveState(s)' \in {"saved", "fallback"}
        /\ SaveState(s)' = "saved" => pc'[s] = "ok"
        /\ pc'[s] # "directWrite"
      BY <2>1 DEF SaveState
  <2> QED BY <1>f, <2>2, <2>3 DEF Promise!Replace, Promise!Refuse, Promise!Becomes
<1>4. CASE SaveUnlink(s)
  <2>1. /\ pc[s] = "unlink" /\ pc'[s] \in {"rename", "direct"}
        /\ fs' = fs \/ fs' = Removed(fs, Final(Edited))
      BY <1>0, <1>4 DEF SaveUnlink, Ask, Request, Go
  <2>2. EditedFile' \in {EditedFile, None}
    <3>1. Removed(fs, Final(Edited)).entry = [fs.entry EXCEPT ![Final(Edited)] = None]
        BY <1>0, RemovedIs
    <3> QED BY <1>0, <2>1, <3>1 DEF EditedFile, Has, Dirs
  <2>3. SaveState(s) = "fallback" /\ SaveState(s)' = SaveState(s) /\ pc'[s] # "directWrite"
      BY <2>1 DEF SaveState
  <2>4. EditedFile' \in Promise!Torn(s)
      BY <1>t, <2>2
  <2> QED BY <1>f, <2>3, <2>4 DEF Promise!Tear
<1>5. CASE SaveRename(s)
  <2>1. /\ pc[s] = "rename"
        /\ \/ fs' = fs /\ pc'[s] = "direct"
           \/ /\ Has(fs, Temp(s)) /\ fs' = Moved(fs, Temp(s), Final(Edited))
              /\ pc'[s] \in {"ok", "direct"}
      BY <1>0, <1>5 DEF SaveRename, Ask, Request, Go, CanRename
  <2>2. EditedFile' = EditedContents[s] \/ (EditedFile' = EditedFile /\ pc'[s] = "direct")
      BY <1>m, <2>1 DEF EditedFile
  <2>3. /\ SaveState(s) = "fallback" /\ SaveState(s)' \in {"saved", "fallback"}
        /\ SaveState(s)' = "saved" => pc'[s] = "ok"
        /\ pc'[s] # "directWrite"
      BY <2>1 DEF SaveState
  <2>4. SubSeq(Whole(Data[s]), 1, Size[Data[s]]) = Whole(Data[s]) /\ Size[Data[s]] \in 0..Size[Data[s]]
      BY <1>0, BegunIs
  <2>5. EditedFile' \in Promise!Torn(s)
      BY <1>0, <1>t, <2>2, <2>4
  <2> QED BY <1>f, <2>2, <2>3, <2>5 DEF Promise!Replace, Promise!Tear, Promise!Becomes
<1>6. CASE SaveDirect(s)
  <2>1. /\ pc[s] = "direct" /\ pc'[s] \in {"directWrite", "cleanup"}
        /\ fs' = fs \/ (CanOpen(fs, hand, Final(Edited)) /\ fs' = Opened(fs, hand, Final(Edited)))
      BY <1>0, <1>6 DEF SaveDirect, OpenWrite, Request, Go
  <2>0. "directWrite" \in Places /\ "cleanup" \in Places /\ ~Holds(s, "cleanup") /\ Final(Edited) \in Makes(s)
      BY <1>0, CallTyped, KindsDiffer, TransfersAssumption DEF Places, Holds, Holding
  <2>2. pc'[s] = "directWrite" => hand'[s] = fs'.entry[Final(Edited)] /\ out'[s].sent = 0
      BY <1>0, <1>6, <2>0, OpenWriteMoves DEF SaveDirect
  <2>3. CASE fs' = fs /\ pc'[s] = "cleanup"
    <3>1. EditedFile' = EditedFile /\ SaveState(s) = "fallback" /\ SaveState(s)' = "failed"
        BY <2>1, <2>3 DEF EditedFile, SaveState
    <3>2. EditedFile' \in Promise!Torn(s)
        BY <1>t, <3>1
    <3> QED BY <1>f, <2>3, <3>1, <3>2 DEF Promise!Fail, Promise!Becomes
  <2>4. CASE CanOpen(fs, hand, Final(Edited)) /\ fs' = Opened(fs, hand, Final(Edited))
    <3>1. PICK i \in Inodes : OpenedAs(fs, hand, Final(Edited), i, fs')
        BY <1>0, <2>4, OpenedIs, Zenon
    <3>2. fs'.entry[Final(Edited)] = i /\ fs'.data[i] = <<>> /\ <<>> = SubSeq(Whole(Data[s]), 1, 0)
        BY <1>0, <3>1, BegunIs DEF OpenedAs, Dirs
    <3>3. EditedFile' = SubSeq(Whole(Data[s]), 1, 0) /\ 0 \in 0..Size[Data[s]]
        BY <1>0, <3>2 DEF EditedFile, Has, Content
    <3>4. EditedFile' \in Promise!Torn(s)
        BY <1>t, <3>3
    <3>5. pc'[s] # "directWrite" \/ s \notin Disturbed'
        BY <2>2, <3>2 DEF Disturbed
    <3>6. SaveState(s) = "fallback" /\ SaveState(s)' \in {"fallback", "failed"}
        BY <2>1 DEF SaveState
    <3> QED BY <1>f, <3>4, <3>5, <3>6 DEF Promise!Tear, Promise!Fail, Promise!Becomes
  <2> QED BY <1>0, <1>6, <2>3, <2>4 DEF SaveDirect, OpenWrite, Request, Go
<1>7. CASE SaveDirectWrite(s)
  <2>1. /\ pc[s] = "directWrite" /\ Holds(s, pc[s]) /\ hand[s] \in Inodes
        /\ SaveState(s) = "fallback" /\ out[s].sent <= Size[Data[s]]
      BY <1>0, <1>7, CallTyped DEF SaveDirectWrite, Holds, Holding, SaveState, TempOf
  <2>a. ASSUME s \notin Disturbed
        PROVE  /\ hand[s] = fs.entry[Final(Edited)]
               /\ fs.data[hand[s]] = SubSeq(Whole(Data[s]), 1, out[s].sent)
      BY <2>1, <2>a DEF Disturbed
  <2>2. CASE WriteByte(s, Whole(Data[s]))
    <3>1. /\ UNCHANGED <<pc, hand>> /\ FilledAs(fs, hand[s], ByteIn(s, Whole(Data[s])), fs')
          /\ out[s].sent < Size[Data[s]] /\ out'[s].sent = out[s].sent + 1
        BY <1>0, <2>1, <2>2, WriteByteMoves
    <3>2. EditedStates' = EditedStates
        BY <1>f, <3>1 DEF SaveState
    <3>3. CASE s \in Disturbed
        BY <1>f, <1>t, <2>1, <3>2, <3>3 DEF Promise!Tear
    <3>4. CASE s \notin Disturbed
      <4>1. ByteIn(s, Whole(Data[s])) = SubSeq(Whole(Data[s]), 1, out[s].sent + 1)
          BY <1>0, <2>a, <3>1, <3>4, BegunIs DEF ByteIn
      <4>2. /\ fs'.entry[Final(Edited)] = hand[s] /\ hand'[s] = hand[s]
            /\ fs'.data[hand[s]] = SubSeq(Whole(Data[s]), 1, out'[s].sent)
          BY <1>0, <2>1, <2>a, <3>1, <3>4, <4>1 DEF FilledAs, Dirs
      <4>3. s \notin Disturbed'
          BY <4>2 DEF Disturbed
      <4>4. EditedFile' = SubSeq(Whole(Data[s]), 1, out'[s].sent) /\ out'[s].sent \in 0..Size[Data[s]]
          BY <1>0, <2>1, <3>1, <4>2 DEF EditedFile, Has, Content
      <4>5. EditedFile' \in Promise!Torn(s)
          BY <1>t, <4>4
      <4> QED BY <1>f, <2>1, <3>2, <4>3, <4>5 DEF Promise!Tear
    <3> QED BY <3>3, <3>4
  <2>3. CASE WriteEnds(s, Whole(Data[s]), "dropTemp", "cleanup")
    <3>0. /\ "dropTemp" \in Places /\ "cleanup" \in Places /\ ~Holds(s, "dropTemp") /\ ~Holds(s, "cleanup")
        BY <1>0, KindsDiffer DEF Places, Holds, Holding
    <3>1. /\ fs' = fs /\ pc'[s] \in {"dropTemp", "cleanup"}
          /\ pc'[s] = "dropTemp" => out[s].sent >= Size[Data[s]]
        BY <1>0, <2>3, <3>0, WriteEndsMoves
    <3>2. EditedFile' = EditedFile
        BY <3>1 DEF EditedFile
    <3>3. Disturbed' = Disturbed \ {s}
        BY <3>1, <3>2, SaveFrame
    <3>4. CASE pc'[s] = "cleanup"
      <4>1. SaveState(s)' = "failed" /\ EditedFile' \in Promise!Torn(s)
          BY <1>t, <3>2, <3>4 DEF SaveState
      <4> QED BY <1>f, <2>1, <3>4, <4>1 DEF Promise!Fail, Promise!Becomes
    <3>5. CASE pc'[s] = "dropTemp" /\ s \in Disturbed
      <4>1. SaveState(s)' = "landed"
          BY <3>5 DEF SaveState
      <4> QED BY <1>f, <2>1, <3>2, <3>3, <3>5, <4>1 DEF Promise!Overtaken, Promise!Becomes
    <3>6. CASE pc'[s] = "dropTemp" /\ s \notin Disturbed
      <4>1. SaveState(s)' = "landed" /\ Disturbed' = Disturbed
          BY <3>3, <3>6 DEF SaveState
      <4>2. out[s].sent = Size[Data[s]]
          BY <1>0, <2>1, <3>1, <3>6
      <4>3. EditedFile = EditedContents[s]
          BY <1>0, <2>1, <2>a, <3>6, <4>2, BegunIs DEF EditedFile, Has, Content
      <4> QED BY <1>f, <2>1, <3>2, <3>6, <4>1, <4>3 DEF Promise!Land, Promise!Becomes
    <3> QED BY <3>1, <3>4, <3>5, <3>6
  <2> QED BY <1>7, <2>2, <2>3 DEF SaveDirectWrite, Write
<1>8. CASE SaveDropTemp(s) \/ SaveCleanup(s)
  <2>1. /\ \/ pc[s] = "dropTemp" /\ pc'[s] \in {"ok", "cleanup"}
           \/ pc[s] = "cleanup" /\ pc'[s] = "failed"
        /\ fs' = fs \/ fs' = Removed(fs, Temp(s))
      BY <1>0, <1>8 DEF SaveDropTemp, SaveCleanup, Ask, Request, Go
  <2>2. /\ fs'.entry[Final(Edited)] = fs.entry[Final(Edited)] /\ fs'.data = fs.data
    <3>1. /\ Removed(fs, Temp(s)).entry = [fs.entry EXCEPT ![Temp(s)] = None]
          /\ Removed(fs, Temp(s)).data = fs.data
        BY <1>0, RemovedIs
    <3> QED BY <1>0, <2>1, <3>1 DEF Dirs
  <2>3. EditedFile' = EditedFile /\ Disturbed' = Disturbed
    <3>1. Content(fs', Final(Edited)) = Content(fs, Final(Edited))
        BY <2>2 DEF Content
    <3> QED BY <1>g, <1>h, <2>1, <2>2, <3>1
  <2>4. /\ \/ SaveState(s) = "landed" /\ SaveState(s)' \in {"saved", "failed"}
           \/ SaveState(s) = "failed" /\ SaveState(s)' = "failed"
        /\ pc'[s] # "directWrite"
      BY <2>1 DEF SaveState
  <2> QED BY <1>f, <2>3, <2>4 DEF Promise!Saved, Promise!Fail, Promise!Becomes, Promise!vars
<1> QED BY <1>1, <1>2, <1>3, <1>4, <1>5, <1>6, <1>7, <1>8 DEF Save

LEMMA PromiseInit == Init => Promise!Init
<1> SUFFICES ASSUME Init PROVE Promise!Init
    OBVIOUS
<1>1. EditedFile \in Seq(Bytes) \cup {None}
    BY InitTyped, FileIsContent
<1>2. \A s \in EditedSaves : pc[s] \in {"idle", "off"}
    BY EditedIs DEF Init, FilesInit
<1>3. EditedStates \in [EditedSaves -> {"idle", "saved"}]
    BY <1>2 DEF EditedStates, SaveState
<1>4. Disturbed = {}
    BY <1>2 DEF Disturbed
<1>5. Meddling \in BOOLEAN
    BY DEF Meddling
<1> QED BY <1>1, <1>3, <1>4, <1>5 DEF Promise!Init

LEMMA PromiseNext ==
    TypeInv /\ TypeInv' /\ TempInv /\ [Next]_vars => [Promise!Next]_(Promise!vars)
<1> SUFFICES ASSUME TypeInv, TypeInv', TempInv, [Next]_vars
             PROVE  Promise!Next \/ UNCHANGED Promise!vars
    OBVIOUS
<1>1. ASSUME UNCHANGED <<fs, pc, hand, out>> PROVE UNCHANGED Promise!vars
    BY <1>1 DEF Promise!vars, EditedFile, EditedStates, SaveState, Disturbed, Meddling
<1>2. CASE UNCHANGED vars \/ Idles
    BY <1>1, <1>2 DEF vars, fileVars, Idles
<1>3. CASE Next
  <2>1. ASSUME NEW c \in Calls, CallSteps(c) PROVE Promise!Next \/ UNCHANGED Promise!vars
    <3>1. CASE c \in EditedSaves
      <4>1. Save(c) /\ TempOf(c) /\ Moves(c) /\ Puts(c)
          BY <2>1, <3>1, EditedIs, KindsDiffer DEF CallSteps, CallActs, TempInv
      <4> QED BY <3>1, <4>1, SaveImplements DEF Promise!Next
    <3>2. CASE c \notin EditedSaves
        BY <2>1, <3>2, Meddles, ActsWhileActive DEF CallSteps, Promise!Next
    <3> QED BY <3>1, <3>2
  <2>2. ASSUME NEW t \in Transfers, TransferSteps(t) PROVE Promise!Next
    <3>1. t \in Calls \ EditedSaves
        BY EditedIs, KindsDiffer DEF Transfers, Calls
    <3> QED BY <2>2, <3>1, Meddles, ActsWhileActive DEF TransferSteps, Promise!Next
  <2> QED BY <1>2, <1>3, <2>1, <2>2, StepMoves DEF Next
<1> QED BY <1>2, <1>3

(* The saves of a file implement AtomicSave, for any contents, whatever     *)
(* uploads, downloads, renames and deletions run beside them, and wherever  *)
(* the connection is lost, a write of the file itself in mid-content        *)
(* included.  A save that is reported as saved had all of its data under    *)
(* the name at one moment, except one that another call overtook while it   *)
(* was writing over the file itself (AtomicSave's Overtaken).               *)
THEOREM SavesAreAtomic == Spec => SavePromise
<1>1. TypeInv /\ TypeInv' /\ TempInv /\ [Next]_vars => [Promise!Next]_(Promise!vars)
    BY PromiseNext
<1> QED BY InitTyped, TypeInvNext, TempInvInit, TempInvNext, PromiseInit, <1>1, PTL
        DEF Spec, SavePromise, Promise!Spec

-----------------------------------------------------------------------------
(* Part files.  One that is there belongs to a transfer that is at its file,*)
(* or that did not end well; and there is no temporary file but a save's.   *)

Keeping(t, n) ==
    \/ cur[t] = n /\ pc[t] \in {"stream", "into", "clear", "swap", "rm", "rename"}
    \/ pc[t] \in {"failed", "canceled"}

PartInv ==
    /\ \A n \in Names : Has(fs, Part(n)) => \E t \in Uploads : Keeping(t, n)
    /\ \A n \in Names : Has(disk, Part(n)) => \E t \in Downloads : Keeping(t, n)
    /\ \A n \in Names, s \in Saves : /\ Has(fs, <<n, s>>) => n = Target[s]
                                     /\ ~Has(disk, <<n, s>>)

LEMMA UploadParts ==
    ASSUME TypeInv, NEW t \in Uploads, Upload(t), Moves(t), NEW n \in Names, Has(fs', Part(n)),
           Has(fs, Part(n)) => Keeping(t, n)
    PROVE  Keeping(t, n)'
<1>0. /\ t \in Transfers /\ t \in Calls /\ fs \in Trees /\ fs \in Dirs /\ hand \in [Calls -> Inodes \cup {None}]
      /\ pc \in [Calls -> Places] /\ Part(n) \in Paths /\ \A m \in Names : Final(m) # Part(n)
      /\ Stop(t) \in {"failed", "canceled"} /\ None \notin Inodes
      /\ \A m \in Names : Final(m) \in Paths /\ Part(m) \in Paths /\ (Part(m) = Part(n) => m = n)
    BY PathsDiffer, CallTyped, TransferTyped, TreeIsDir, Ends DEF Transfers
<1>1. CASE UploadEnsure(t)
  <2>1. /\ pc[t] = "ensure"
        /\ fs' = fs \/ fs' = [fs EXCEPT !.dir = TRUE]
      BY <1>1 DEF UploadEnsure, AskUp, Ask, Request
  <2>2. fs'.entry = fs.entry
      BY <1>0, <2>1, DirIs
  <2> QED BY <2>1, <2>2 DEF Has, Keeping
<1>2. CASE UploadStat(t)
    BY <1>2 DEF UploadStat, Keeping
<1>3. CASE UploadOpen(t)
  <2>1. /\ pc[t] = "open" /\ cur' = cur /\ pc'[t] \in {"stream", Stop(t)}
        /\ fs' = fs \/ (CanOpen(fs, hand, Part_(t)) /\ fs' = Opened(fs, hand, Part_(t)))
      BY <1>0, <1>3 DEF UploadOpen, Request, Go
  <2>2. cur[t] \in Names /\ Part_(t) = Part(cur[t])
      BY <1>0, <2>1, TransferTyped DEF AtFile, Part_
  <2>3. ~Has(fs, Part(n))
      BY <2>1 DEF Keeping
  <2>4. CanOpen(fs, hand, Part_(t)) /\ fs' = Opened(fs, hand, Part_(t))
      BY <2>1, <2>3
  <2>5. PICK i \in Inodes : OpenedAs(fs, hand, Part_(t), i, fs')
      BY <1>0, <2>2, <2>4, OpenedIs, Zenon
  <2>6. cur[t] = n
      BY <1>0, <2>2, <2>3, <2>5 DEF OpenedAs, Has, Dirs
  <2> QED BY <1>0, <2>1, <2>6 DEF Keeping
<1>4. CASE UploadChunk(t)
  <2>1. /\ pc' = pc /\ cur' = cur /\ \E i, bytes : fs' = Filled(fs, i, bytes)
      BY <1>4 DEF UploadChunk
  <2>2. fs'.entry = fs.entry
      BY <1>0, <2>1, DirChanges
  <2> QED BY <2>1, <2>2 DEF Has, Keeping
<1>5. CASE UploadStreamed(t) \/ UploadInto(t)
  <2>1. /\ fs' = fs /\ cur' = cur /\ pc[t] \in {"stream", "into"} /\ pc'[t] \in {"into", "clear", "swap"}
      BY <1>0, <1>5 DEF UploadStreamed, Streams, UploadInto, Go, transferVars
  <2> QED BY <2>1 DEF Keeping
<1>6. CASE UploadClear(t)
  <2>1. /\ pc[t] = "clear" /\ cur' = cur /\ pc'[t] \in {"swap", Stop(t)}
        /\ fs' = fs \/ fs' = Removed(fs, Final_(t))
      BY <1>0, <1>6 DEF UploadClear, AskUp, Ask, Request, Go, transferVars
  <2>2. cur[t] \in Names /\ Final_(t) = Final(cur[t])
      BY <1>0, <2>1, TransferTyped DEF AtFile, Final_
  <2>3. Removed(fs, Final_(t)).entry = [fs.entry EXCEPT ![Final_(t)] = None]
      BY <1>0, <2>2, RemovedIs
  <2>4. Has(fs, Part(n))
      BY <1>0, <2>1, <2>2, <2>3 DEF Has, Dirs
  <2> QED BY <1>0, <2>1, <2>4 DEF Keeping
<1>7. CASE UploadSwap(t)
  <2>1. /\ pc[t] = "swap" /\ cur' = cur
        /\ \/ fs' = fs /\ pc'[t] = Stop(t)
           \/ fs' = Moved(fs, Part_(t), Final_(t))
        /\ pc'[t] \in {"next", Stop(t)}
      BY <1>0, <1>7 DEF UploadSwap, Ask, Request, Go
  <2>2. cur[t] \in Names /\ Final_(t) = Final(cur[t]) /\ Part_(t) = Part(cur[t])
      BY <1>0, <2>1, TransferTyped DEF AtFile, Final_, Part_
  <2>3. Moved(fs, Part_(t), Final_(t)).entry = [fs.entry EXCEPT ![Final_(t)] = fs.entry[Part_(t)], ![Part_(t)] = None]
      BY <1>0, <2>2, MovedIs, PathsDiffer, SMTT(60)
  <2>4. CASE fs' = fs /\ pc'[t] = Stop(t)
      BY <1>0, <2>1, <2>4 DEF Keeping
  <2>5. CASE fs' = Moved(fs, Part_(t), Final_(t))
    <3>1. Has(fs, Part(n)) /\ n # cur[t]
        BY <1>0, <2>2, <2>3, <2>5 DEF Has, Dirs
    <3> QED BY <2>1, <3>1 DEF Keeping
  <2> QED BY <2>1, <2>4, <2>5
<1>8. CASE UploadWithShell(t)
  <2>1. /\ pc[t] \in {"shellOpen", "shellWrite"}
      BY <1>8 DEF UploadWithShell
  <2>2. CASE CanOpen(fs, hand, Final_(t)) /\ fs' = Opened(fs, hand, Final_(t))
    <3>1. cur[t] \in Names /\ Final_(t) = Final(cur[t])
        BY <1>0, <2>1, TransferTyped DEF AtFile, Final_
    <3>2. PICK i \in Inodes : OpenedAs(fs, hand, Final_(t), i, fs')
        BY <1>0, <2>2, <3>1, OpenedIs, Zenon
    <3>3. fs'.entry[Part(n)] = fs.entry[Part(n)]
        BY <1>0, <3>1, <3>2 DEF OpenedAs, Dirs
    <3> QED BY <2>1, <3>3 DEF Has, Keeping
  <2>3. CASE fs' = fs \/ \E bytes : fs' = Filled(fs, hand[t], bytes)
    <3>1. fs'.entry = fs.entry
        BY <1>0, <2>3, DirChanges
    <3> QED BY <2>1, <3>1 DEF Has, Keeping
  <2> QED BY <1>8, <2>2, <2>3 DEF UploadWithShell, OpenWrite, WriteByte, WriteEnds, Request
<1> QED BY <1>1, <1>2, <1>3, <1>4, <1>5, <1>6, <1>7, <1>8 DEF Upload

LEMMA BothWaysKeep ==
    ASSUME TypeInv, NEW t \in Transfers, NEW n \in Names, Keeping(t, n),
           \/ Begin(t) \/ NextFile(t) \/ NoMoreFiles(t) \/ CancelFileOperation(t) \/ StreamFails(t)
           \/ Invalidate(t)
    PROVE  Keeping(t, n)'
<1>0. t \in Calls /\ pc \in [Calls -> Places] /\ Stop(t) \in {"failed", "canceled"}
    BY CallTyped, TransferTyped, Ends
<1>1. CASE CancelFileOperation(t)
    BY <1>1 DEF CancelFileOperation, fileVars, Keeping
<1>2. CASE StreamFails(t)
    BY <1>0, <1>2 DEF StreamFails, Go, Keeping
<1>3. Begin(t) \/ NextFile(t) \/ NoMoreFiles(t) \/ Invalidate(t) => FALSE
    BY DEF Begin, NextFile, NoMoreFiles, Invalidate, Keeping
<1> QED BY <1>1, <1>2, <1>3

LEMMA DownloadParts ==
    ASSUME TypeInv, NEW t \in Downloads, Download(t), NEW n \in Names, Has(disk', Part(n))
    PROVE  /\ Keeping(t, n) => Keeping(t, n)'
           /\ cur' = cur
<1>0. /\ t \in Transfers /\ t \in Calls /\ pc \in [Calls -> Places] /\ disk \in Dirs /\ disk \in Trees
      /\ Stop(t) \in {"failed", "canceled"} /\ Part(n) \in Paths
      /\ \A m \in Names : Final(m) # Part(n) /\ Final(m) \in Paths /\ Part(m) \in Paths
      /\ \A m \in Names : Part(m) = Part(n) => m = n
    BY CallTyped, TransferTyped, Ends, TreeIsDir, PathsDiffer DEF Transfers
<1>1. CASE DownloadFails(t)
    BY <1>0, <1>1 DEF DownloadFails, Go, Keeping
<1>2. CASE DownloadEnsure(t) \/ DownloadStat(t) \/ DownloadOpen(t) \/ DownloadWithShell(t)
  <2>1. cur' = cur /\ pc[t] \in {"ensure", "stat", "open", "shellOpen", "shellWrite"}
      BY <1>2 DEF DownloadEnsure, DownloadStat, DownloadOpen, DownloadWithShell, transferVars
  <2> QED BY <2>1 DEF Keeping
<1>3. CASE DownloadChunk(t)
    BY <1>3 DEF DownloadChunk, fileVars, Keeping
<1>4. CASE DownloadStreamed(t)
    BY <1>0, <1>4 DEF DownloadStreamed, Streams, Go, Keeping
<1>5. CASE DownloadSwap(t)
  <2>1. /\ cur' = cur
        /\ \/ pc[t] = "rm" /\ pc'[t] = "rename"
           \/ pc[t] = "rename" /\ disk' = Moved(disk, Part_(t), Final_(t))
      BY <1>0, <1>5 DEF DownloadSwap, Go
  <2>2. CASE pc[t] = "rm" /\ pc'[t] = "rename"
      BY <2>1, <2>2 DEF Keeping
  <2>3. CASE pc[t] = "rename" /\ disk' = Moved(disk, Part_(t), Final_(t))
    <3>1. cur[t] \in Names /\ Final_(t) = Final(cur[t]) /\ Part_(t) = Part(cur[t])
        BY <1>0, <2>3, TransferTyped DEF AtFile, Final_, Part_
    <3>a. disk \in Trees /\ Part_(t) \in Paths /\ Final_(t) \in Paths /\ Part_(t) # Final_(t)
        BY <1>0, <3>1, PathsDiffer
    <3>2. Moved(disk, Part_(t), Final_(t)).entry
            = [disk.entry EXCEPT ![Final_(t)] = disk.entry[Part_(t)], ![Part_(t)] = None]
        BY <3>a, MovedIs
    <3>3. n # cur[t]
        BY <1>0, <2>3, <3>1, <3>2 DEF Has, Dirs
    <3> QED BY <2>1, <2>3, <3>3 DEF Keeping
  <2> QED BY <2>1, <2>2, <2>3
<1> QED BY <1>1, <1>2, <1>3, <1>4, <1>5 DEF Download

LEMMA PartInvInit == Init => PartInv
<1> SUFFICES ASSUME Init PROVE PartInv
    OBVIOUS
<1>1. PICK old \in Names : fs.entry = [p \in Paths |-> IF p = Final(old) THEN FirstInode ELSE None]
    BY DEF Init, FilesInit
<1>2. disk.entry = [p \in Paths |-> None]
    BY DEF Init, TransfersInit
<1>3. \A n \in Names, s \in Saves : <<n, s>> \in Paths /\ <<n, s>> # Final(old)
    BY FilesAssumption DEF Paths, Final
<1> QED BY <1>1, <1>2, <1>3, PathsDiffer DEF PartInv, Has

LEMMA PartInvNext == TypeInv /\ PartInv /\ [Next]_vars => PartInv'
<1> SUFFICES ASSUME TypeInv, PartInv, [Next]_vars PROVE PartInv'
    OBVIOUS
<1>0. \A n \in Names : /\ Part(n) \in Paths /\ (\A m \in Names : Part(n) # Final(m))
                       /\ \A c \in Calls \ Uploads : Part(n) \notin Makes(c)
    BY PathsDiffer DEF Makes, Finds
<1>s. \A n \in Names, s \in Saves :
            /\ <<n, s>> \in Paths /\ (\A m \in Names : <<n, s>> # Final(m) /\ <<n, s>> # Part(m))
            /\ n # Target[s] => \A c \in Calls : <<n, s>> \notin Makes(c)
    BY FilesAssumption DEF Paths, Final, Part, Makes, Finds, Temp
<1>1. CASE UNCHANGED vars \/ Idles
    BY <1>1 DEF vars, fileVars, transferVars, Idles, PartInv, Keeping
<1>2. CASE Next
  <2>1. ASSUME NEW c \in Calls, Moves(c), NEW n \in Names, NEW s \in Saves, Has(fs', <<n, s>>)
        PROVE  n = Target[s]
    <3>1. ServerStep(c)
        BY <2>1 DEF Moves
    <3> QED BY <1>s, <2>1, <3>1, ServerFrame DEF PartInv
  <2>2. ASSUME NEW c \in Calls, c \notin Uploads, Moves(c), NEW n \in Names, Has(fs', Part(n)),
               c \notin Transfers \/ TransferSteps(c), c \in Transfers \/ UNCHANGED transferVars
        PROVE  \E t \in Uploads : Keeping(t, n)'
    <3>1. Has(fs, Part(n))
      <4>1. ServerStep(c)
          BY <2>2 DEF Moves
      <4> QED BY <1>0, <2>2, <4>1, ServerFrame
    <3>2. PICK t \in Uploads : Keeping(t, n)
        BY <3>1 DEF PartInv
    <3>3. \A d \in Calls : d # c => pc'[d] = pc[d]
        BY <2>2, MovesTyped
    <3>4. t \in Transfers /\ t \in Calls /\ t # c /\ pc'[t] = pc[t]
        BY <2>2, <3>3 DEF Transfers, Calls
    <3>5. cur'[t] = cur[t]
        BY <2>2, <3>3, <3>4, TurnsTyped DEF TransferSteps, transferVars
    <3> QED BY <3>2, <3>4, <3>5 DEF Keeping
  <2>3. ASSUME NEW u \in Uploads, TransferSteps(u), NEW n \in Names, Has(fs', Part(n))
        PROVE  \E t \in Uploads : Keeping(t, n)'
    <3>0. u \in Transfers /\ u \in Calls /\ u \notin Downloads
        BY KindsDiffer DEF Transfers, Calls
    <3>1. CASE Has(fs, Part(n)) /\ ~Keeping(u, n)
      <4>2. PICK t \in Uploads : Keeping(t, n)
          BY <3>1 DEF PartInv
      <4>3. \A d \in Calls : d # u => pc'[d] = pc[d]
          BY <2>3, <3>0, MovesTyped DEF TransferSteps
      <4>4. t \in Transfers /\ t \in Calls /\ t # u /\ pc'[t] = pc[t]
          BY <3>1, <4>2, <4>3 DEF Transfers, Calls
      <4>5. cur'[t] = cur[t]
          BY <2>3, <3>0, <4>3, <4>4, TurnsTyped DEF TransferSteps
      <4> QED BY <4>2, <4>4, <4>5 DEF Keeping
    <3>2. CASE Has(fs, Part(n)) => Keeping(u, n)
      <4>1. CASE Upload(u)
        <5>1. Keeping(u, n)'
            BY <2>3, <3>2, <4>1, UploadParts DEF TransferSteps
        <5> QED BY <5>1
      <4>2. CASE ~Upload(u)
        <5>1. /\ fs' = fs
              /\ \/ Begin(u) \/ NextFile(u) \/ NoMoreFiles(u) \/ CancelFileOperation(u) \/ StreamFails(u)
                 \/ Invalidate(u)
            BY <2>3, <3>0, <4>2 DEF TransferSteps, TransferActs
        <5>2. Keeping(u, n)
            BY <2>3, <3>2, <5>1
        <5>3. Keeping(u, n)'
            BY <3>0, <5>1, <5>2, BothWaysKeep
        <5> QED BY <5>3
      <4> QED BY <4>1, <4>2
    <3> QED BY <3>1, <3>2
  <2>4. ASSUME NEW u \in Downloads, TransferSteps(u), NEW n \in Names, Has(disk', Part(n))
        PROVE  \E t \in Downloads : Keeping(t, n)'
    <3>0. u \in Transfers /\ u \in Calls /\ u \notin Uploads /\ DiskStep(u)
        BY <2>4, KindsDiffer DEF Transfers, Calls, TransferSteps, Local
    <3>1. \A d \in Calls : d # u => pc'[d] = pc[d]
        BY <2>4, <3>0, MovesTyped DEF TransferSteps
    <3>2. CASE Has(disk, Part(n))
      <4>1. PICK t \in Downloads : Keeping(t, n)
          BY <3>2 DEF PartInv
      <4>2. CASE t = u
        <5>1. Keeping(u, n)'
          <6>1. CASE Download(u)
              BY <2>4, <4>1, <4>2, <6>1, DownloadParts
          <6>2. CASE ~Download(u)
              BY <2>4, <3>0, <4>1, <4>2, <6>2, BothWaysKeep DEF TransferSteps, TransferActs
          <6> QED BY <6>1, <6>2
        <5> QED BY <5>1
      <4>3. CASE t # u
        <5>1. t \in Transfers /\ pc'[t] = pc[t]
            BY <3>1, <4>3 DEF Transfers, Calls
        <5>2. cur'[t] = cur[t]
            BY <2>4, <3>0, <3>1, <4>3, <5>1, TurnsTyped DEF TransferSteps
        <5>3. Keeping(t, n)'
            BY <4>1, <5>1, <5>2 DEF Keeping
        <5> QED BY <5>3
      <4> QED BY <4>2, <4>3
    <3>3. CASE ~Has(disk, Part(n))
      <4>1. Part(n) = Part_(u) /\ pc[u] = "open" /\ pc'[u] = "stream"
          BY <1>0, <2>4, <3>0, <3>3, DiskFrame
      <4>2. cur[u] = n
          BY <3>0, <4>1, TransferTyped, PathsDiffer DEF AtFile, Part_
      <4>3. Download(u)
          BY <2>4, <3>0, <4>1, CallTyped DEF TransferSteps, TransferActs, Begin, NextFile, NoMoreFiles, CancelFileOperation,
             fileVars, StreamFails, Streams, Invalidate
      <4>4. cur' = cur
          BY <2>4, <4>3, DownloadParts
      <4>5. Keeping(u, n)'
          BY <4>1, <4>2, <4>4 DEF Keeping
      <4> QED BY <4>5
    <3> QED BY <3>2, <3>3
  <2>5. ASSUME NEW c \in Calls, CallSteps(c) PROVE PartInv'
    <3>1. c \notin Uploads /\ c \notin Transfers /\ Moves(c) /\ UNCHANGED transferVars
        BY <2>5 DEF CallSteps, Transfers
    <3>2. \A t \in Downloads : pc'[t] = pc[t]
        BY <2>5, <3>1, MovesTyped DEF Transfers, Calls
    <3>3. disk' = disk /\ cur' = cur
        BY <3>1 DEF transferVars
    <3>4. \A n \in Names : Has(disk', Part(n)) => \E t \in Downloads : Keeping(t, n)'
        BY <3>2, <3>3 DEF PartInv, Keeping
    <3> QED BY <2>1, <2>2, <3>1, <3>3, <3>4 DEF PartInv
  <2>6. ASSUME NEW t \in Transfers, TransferSteps(t) PROVE PartInv'
    <3>0. t \in Calls /\ Moves(t) /\ DiskStep(t)
        BY <2>6, TransferTyped DEF TransferSteps, Local
    <3>1. ASSUME NEW n \in Names, NEW s \in Saves, Has(disk', <<n, s>>) PROVE FALSE
      <4>1. ~Has(disk, <<n, s>>)
          BY DEF PartInv
      <4>2. <<n, s>> = Part_(t) /\ pc[t] = "open"
          BY <1>s, <3>0, <3>1, <4>1, DiskFrame
      <4> QED BY <1>s, <4>2, TransferTyped DEF AtFile, Part_
    <3>1a. \A n \in Names, s \in Saves : ~Has(disk', <<n, s>>)
        BY <3>1, Zenon
    <3>2. CASE t \in Uploads
      <4>1. disk' = disk
          BY <2>6, <3>2 DEF TransferSteps, Local
      <4>2. \A n \in Names : Has(disk', Part(n)) => \E u \in Downloads : Keeping(u, n)'
        <5> SUFFICES ASSUME NEW n \in Names, Has(disk', Part(n)) PROVE \E u \in Downloads : Keeping(u, n)'
            OBVIOUS
        <5>1. PICK u \in Downloads : Keeping(u, n)
            BY <4>1 DEF PartInv
        <5>2. \A d \in Calls : d # t => pc'[d] = pc[d]
            BY <3>0, MovesTyped
        <5>3. u \in Transfers /\ u # t /\ pc'[u] = pc[u]
            BY <3>2, <5>2, KindsDiffer DEF Transfers, Calls
        <5>4. cur'[u] = cur[u]
            BY <2>6, <5>2, <5>3, TurnsTyped DEF TransferSteps
        <5> QED BY <5>1, <5>3, <5>4 DEF Keeping
      <4> QED BY <2>1, <2>3, <2>6, <3>0, <3>1a, <3>2, <4>2 DEF PartInv
    <3>3. CASE t \in Downloads
      <4>1. t \notin Uploads
          BY <3>3, KindsDiffer
      <4> QED BY <2>1, <2>2, <2>4, <2>6, <3>0, <3>1a, <3>3, <4>1 DEF PartInv
    <3> QED BY <3>2, <3>3 DEF Transfers
  <2> QED BY <1>1, <1>2, <2>5, <2>6, StepMoves DEF Next
<1> QED BY <1>1, <1>2

(* Calls that all went well leave nothing but final names, on the server    *)
(* and on the local disk, for any calls and contents, in any order, over    *)
(* any losses of the connection.                                            *)
THEOREM NothingIsLittered == Spec => []NoLitter
<1>1. TempInv /\ PartInv => NoLitter
  <2> SUFFICES ASSUME TempInv, PartInv, \A c \in Calls : pc[c] \in Settled,
                      NEW p \in Paths, Has(fs, p) \/ Has(disk, p)
               PROVE  p[2] = "final"
      BY DEF NoLitter
  <2>0. p = <<p[1], p[2]>> /\ p[1] \in Names /\ p[2] \in {"final", "part"} \cup Saves
      BY DEF Paths
  <2>1. PICK n \in Names, k \in {"final", "part"} \cup Saves : p = <<n, k>>
      BY <2>0
  <2>2. ASSUME k \in Saves PROVE FALSE
    <3>1. Has(fs, p) /\ p = Temp(k)
        BY <2>1, <2>2 DEF PartInv, Temp
    <3> QED BY <2>2, <3>1 DEF TempInv, TempOf, Settled, Calls
  <2>3. ASSUME k = "part" PROVE FALSE
    <3>1. p = Part(n)
        BY <2>1, <2>3 DEF Part
    <3>2. \E t \in Transfers : Keeping(t, n)
        BY <3>1 DEF PartInv, Transfers
    <3> QED BY <3>2 DEF Keeping, Settled, Calls, Transfers
  <2> QED BY <2>1, <2>2, <2>3
<1> QED BY InitTyped, TypeInvNext, TempInvInit, TempInvNext, PartInvInit, PartInvNext, <1>1, PTL DEF Spec

-----------------------------------------------------------------------------
(* The cached listing.  While nothing failed, it is what the server holds,  *)
(* or a call that changes the directory is on its way and will drop it.     *)

Changing == Creates \cup Renames \cup Deletes \cup Uploads
Active(c) == pc[c] \notin Ended \cup {"idle"}

Quiet ==
    /\ \A s \in Saves : pc[s] = "off"
    /\ \A c \in Calls : pc[c] \notin {"failed", "canceled"}
    /\ raced = FALSE

CacheInv ==
    Quiet =>
      /\ cache = None \/ cache = Visible(fs) \/ \E c \in Changing : Active(c)
      /\ \A c \in Lists : pc[c] = "listed" => todo[c] = Visible(fs)

\* A call that changes the directory is active until it drops the listing, or fails.
Drops(c) ==
    \/ c \in Changing /\ Active(c)'
    \/ pc'[c] \in {"failed", "canceled"}
    \/ cache' = None
    \/ fs' = fs /\ cache' = cache /\ (c \in Changing => pc[c] = "idle")

LEMMA EntriesDrop ==
    ASSUME TypeInv, NEW c \in Calls,
           \/ c \in Creates /\ CreateEntry(c)
           \/ c \in Renames /\ RenameEntry(c)
           \/ c \in Deletes /\ DeleteEntry(c)
           \/ Invalidate(c)
    PROVE  Drops(c)
<1>0. pc \in [Calls -> Places]
    BY CallTyped
<1>1. CASE c \in Creates /\ CreateEntry(c)
  <2>1. pc'[c] \in {"createWrite", "applied", "failed"}
      BY <1>0, <1>1 DEF CreateEntry, OpenWrite, WriteEnds, Request, Go
  <2> QED BY <1>1, <2>1 DEF Drops, Changing, Active, Ended
<1>2. CASE c \in Renames /\ RenameEntry(c)
  <2>1. pc'[c] \in {"renamePath", "applied", "failed"}
      BY <1>0, <1>2 DEF RenameEntry, Ask, Request, Go
  <2> QED BY <1>2, <2>1 DEF Drops, Changing, Active, Ended
<1>3. CASE c \in Deletes /\ DeleteEntry(c)
  <2>1. pc'[c] \in {"each", "applied", "failed"}
    <3>1. CASE DeleteList(c)
        BY <1>0, <3>1 DEF DeleteList, Go
    <3>2. CASE DeleteEach(c)
        BY <1>0, <3>2 DEF DeleteEach, Request, Go
    <3>3. CASE DeleteLast(c)
        BY <1>0, <3>3 DEF DeleteLast, Ask, Request, Go
    <3> QED BY <1>3, <3>1, <3>2, <3>3 DEF DeleteEntry
  <2> QED BY <1>3, <2>1 DEF Drops, Changing, Active, Ended
<1>4. CASE Invalidate(c)
    BY <1>4 DEF Invalidate, Drops
<1> QED BY <1>1, <1>2, <1>3, <1>4

LEMMA TransfersDrop ==
    ASSUME TypeInv, NEW t \in Transfers, TransferSteps(t)
    PROVE  Drops(t)
<1>0. /\ t \in Calls /\ pc \in [Calls -> Places] /\ Stop(t) \in {"failed", "canceled"}
      /\ t \in Uploads \/ (t \notin Changing /\ t \in Downloads)
      /\ t \in Uploads => t \in Changing
  <2>1. t \notin Creates \cup Renames \cup Deletes
      BY KindsDiffer
  <2>2. t \in Uploads \/ t \in Downloads
      BY DEF Transfers
  <2>3. t \in Calls /\ (t \in Uploads <=> t \notin Downloads)
      BY TransferTyped
  <2> QED BY <2>1, <2>2, <2>3, CallTyped, Ends DEF Changing
<1>1. CASE Invalidate(t)
    BY <1>0, <1>1, EntriesDrop
<1>2. CASE fs' = fs /\ (Begin(t) \/ NextFile(t) \/ NoMoreFiles(t) \/ CancelFileOperation(t) \/ StreamFails(t))
  <2>1. cache' = cache
      BY <1>2 DEF Begin, NextFile, NoMoreFiles, CancelFileOperation, StreamFails, fileVars
  <2>2. CASE t \in Uploads
    <3>1. CASE Begin(t)
        BY <1>0, <1>2, <2>1, <2>2, <3>1 DEF Begin, Go, Drops
    <3>2. CASE NextFile(t)
      <4>1. pc'[t] \in {"next", "ensure"}
          BY <1>0, <3>2 DEF NextFile, Go
      <4> QED BY <1>0, <2>2, <4>1 DEF Drops, Active, Ended
    <3>3. CASE NoMoreFiles(t)
        BY <1>0, <2>2, <3>3 DEF NoMoreFiles, Go, Drops, Active, Ended
    <3>4. CASE CancelFileOperation(t)
        BY <1>0, <2>2, <3>4 DEF CancelFileOperation, Registered, fileVars, Drops, Active
    <3>5. CASE StreamFails(t)
        BY <1>0, <3>5 DEF StreamFails, Go, Drops
    <3> QED BY <1>2, <3>1, <3>2, <3>3, <3>4, <3>5
  <2>3. CASE t \notin Uploads
      BY <1>0, <1>2, <2>1, <2>3 DEF Drops
  <2> QED BY <2>2, <2>3
<1>3. CASE t \in Uploads /\ Upload(t)
  <2>1. pc'[t] \in {"canceled", "failed", "shellOpen", "stat", "open", "stream", "into", "clear", "swap", "next",
                    "shellWrite"}
    <3>1. CASE UploadEnsure(t) \/ UploadStat(t)
        BY <1>0, <3>1 DEF UploadEnsure, UploadStat, AskUp, Ask, Request, Go
    <3>2. CASE UploadOpen(t) \/ UploadChunk(t) \/ UploadStreamed(t)
        BY <1>0, <3>2 DEF UploadOpen, UploadChunk, UploadStreamed, Streams, Request, Go
    <3>3. CASE UploadInto(t) \/ UploadClear(t) \/ UploadSwap(t)
        BY <1>0, <3>3 DEF UploadInto, UploadClear, UploadSwap, AskUp, Ask, Request, Go
    <3>4. CASE UploadWithShell(t)
        BY <1>0, <3>4 DEF UploadWithShell, OpenWrite, WriteByte, WriteEnds, Request, Go
    <3> QED BY <1>3, <3>1, <3>2, <3>3, <3>4 DEF Upload
  <2> QED BY <1>0, <1>3, <2>1 DEF Drops, Active, Ended
<1>4. CASE t \in Downloads /\ Download(t) /\ fs' = fs
  <2>1. cache' = cache
      BY <1>4 DEF Download, DownloadFails, DownloadEnsure, DownloadStat, DownloadOpen, DownloadChunk,
         DownloadStreamed, DownloadSwap, DownloadWithShell, fileVars
  <2>2. t \notin Uploads
      BY <1>4, KindsDiffer
  <2> QED BY <1>0, <1>4, <2>1, <2>2 DEF Drops
<1> QED BY <1>1, <1>2, <1>3, <1>4 DEF TransferSteps, TransferActs

LEMMA ListSteps ==
    ASSUME TypeInv, NEW c \in Lists, List(c)
    PROVE  /\ fs' = fs
           /\ cache' = cache \/ (pc[c] = "listed" /\ cache' = todo[c])
           /\ pc'[c] = "listed" => todo'[c] = Visible(fs)
<1>1. c \in Calls /\ pc \in [Calls -> Places] /\ todo \in [Calls -> SUBSET Paths]
    BY CallTyped DEF Calls
<1> QED BY <1>1 DEF List, ReadDir, ReadDirReply, Go

LEMMA SavesGoOn ==
    ASSUME TypeInv, NEW s \in Saves, Save(s)
    PROVE  pc'[s] # "off"
<1>1. s \in Calls /\ pc \in [Calls -> Places]
    BY CallTyped DEF Calls
<1>2. CASE SaveTemp(s) \/ SaveTempWrite(s) \/ SaveDirect(s) \/ SaveDirectWrite(s)
    BY <1>1, <1>2 DEF SaveTemp, SaveTempWrite, SaveDirect, SaveDirectWrite, OpenWrite, Write, WriteByte, WriteEnds,
                       Request, Go
<1>3. CASE SaveSwap(s) \/ SaveUnlink(s) \/ SaveRename(s) \/ SaveDropTemp(s) \/ SaveCleanup(s)
    BY <1>1, <1>3 DEF SaveSwap, SaveUnlink, SaveRename, SaveDropTemp, SaveCleanup, Ask, Request, Go
<1> QED BY <1>2, <1>3 DEF Save

LEMMA CacheInvInit == Init => CacheInv
<1>1. Init => cache = None /\ \A c \in Calls : pc[c] # "listed"
    BY DEF Init, FilesInit
<1> QED BY <1>1 DEF CacheInv, Calls

\* What was quiet after a step was quiet before it, and no save took it.
LEMMA QuietBefore ==
    ASSUME TypeInv, Quiet', RacedAfter, NEW c \in Calls, CallSteps(c) \/ TransferSteps(c)
    PROVE  Quiet /\ c \notin Saves /\ pc'[c] \notin {"failed", "canceled"}
<1>0. /\ Moves(c) /\ pc[c] \notin Ended
      /\ \A d \in Calls : d # c => pc'[d] = pc[d]
    BY ActsWhileActive, MovesTyped DEF CallSteps, TransferSteps
<1>1. raced = FALSE
    BY DEF RacedAfter, Quiet, TypeInv, TypeOK
<1>2. c \notin Saves
  <2> SUFFICES ASSUME c \in Saves PROVE FALSE
      OBVIOUS
  <2>0. c \notin Transfers /\ c \notin Creates \cup Renames \cup Deletes \cup Lists \cup Searches \cup Previews
      BY KindsDiffer DEF Transfers
  <2>1. Save(c)
      BY <2>0 DEF CallSteps, CallActs, TransferSteps
  <2> QED BY <2>1, SavesGoOn DEF Quiet
<1>3. \A d \in Calls : pc[d] \notin {"failed", "canceled"}
    BY <1>0 DEF Quiet, Ended
<1>4. \A s \in Saves : pc[s] = "off"
    BY <1>0, <1>2 DEF Quiet, Calls
<1> QED BY <1>1, <1>2, <1>3, <1>4 DEF Quiet

LEMMA CacheInvNext == TypeInv /\ CacheInv /\ [Next]_vars => CacheInv'
<1> SUFFICES ASSUME TypeInv, CacheInv, [Next]_vars, Quiet'
             PROVE  /\ cache' = None \/ cache' = Visible(fs)' \/ \E c \in Changing : Active(c)'
                    /\ \A c \in Lists : pc'[c] = "listed" => todo'[c] = Visible(fs)'
    BY DEF CacheInv
<1>1. CASE UNCHANGED vars
    BY <1>1 DEF vars, fileVars, CacheInv, Quiet, Visible, Active
<1>2. CASE Next
  <2>0. RacedAfter
      BY <1>2 DEF Next
  <2>1. CASE Idles
    <3>1. Quiet
        BY <2>0, <2>1 DEF Idles, Quiet, RacedAfter, TypeInv, TypeOK
    <3> QED BY <2>1, <3>1 DEF Idles, CacheInv, Visible, Active
  <2>2. ASSUME NEW c \in Calls, CallSteps(c) \/ TransferSteps(c)
        PROVE  /\ cache' = None \/ cache' = Visible(fs)' \/ \E d \in Changing : Active(d)'
               /\ \A d \in Lists : pc'[d] = "listed" => todo'[d] = Visible(fs)'
    <3>1. Quiet /\ c \notin Saves /\ pc'[c] \notin {"failed", "canceled"}
        BY <2>0, <2>2, QuietBefore
    <3>2. \A d \in Calls : d # c => pc'[d] = pc[d] /\ todo'[d] = todo[d]
        BY <2>2, MovesTyped DEF CallSteps, TransferSteps
    <3>3. /\ cache = None \/ cache = Visible(fs) \/ \E d \in Changing : Active(d)
          /\ \A d \in Lists : pc[d] = "listed" => todo[d] = Visible(fs)
        BY <3>1 DEF CacheInv
    <3>4. \A d \in Changing : d # c /\ Active(d) => Active(d)'
        BY <3>2 DEF Active, Changing, Calls
    <3>5. CASE Drops(c) /\ (c \in Lists => pc'[c] # "listed")
      <4>1. cache' = None \/ cache' = Visible(fs)' \/ \E d \in Changing : Active(d)'
          BY <3>1, <3>3, <3>4, <3>5 DEF Drops, Active, Visible
      <4>2. ASSUME NEW d \in Lists, pc'[d] = "listed" PROVE todo'[d] = Visible(fs)'
        <5>1. CASE d # c
            BY <2>0, <3>2, <3>3, <4>2, <5>1 DEF RacedAfter, Quiet, Calls
        <5>2. CASE d = c
            BY <3>5, <4>2, <5>2
        <5> QED BY <5>1, <5>2
      <4> QED BY <4>1, <4>2
    <3>6. CASE c \in Lists /\ List(c)
      <4>1. /\ fs' = fs
            /\ cache' = cache \/ (pc[c] = "listed" /\ cache' = todo[c])
            /\ pc'[c] = "listed" => todo'[c] = Visible(fs)
          BY <3>6, ListSteps
      <4>2. c \notin Changing
          BY <3>6, KindsDiffer DEF Changing
      <4> QED BY <3>2, <3>3, <3>4, <3>6, <4>1, <4>2 DEF Visible, Calls
    <3>7. CASE c \in Searches \cup Previews /\ UNCHANGED <<cache, todo>> /\ fs' = fs
      <4>1. c \notin Changing /\ c \notin Lists
          BY <3>7, KindsDiffer DEF Changing
      <4> QED BY <3>2, <3>3, <3>4, <3>7, <4>1 DEF Visible, Calls
    <3>8. \/ Drops(c) /\ (c \in Lists => pc'[c] # "listed")
          \/ c \in Lists /\ List(c)
          \/ c \in Searches \cup Previews /\ UNCHANGED <<cache, todo>> /\ fs' = fs
      <4>1. Invalidate(c) => pc'[c] # "listed"
          BY CallTyped DEF Invalidate, Go
      <4>2. c \in Transfers \cup Changing => c \notin Lists
          BY KindsDiffer DEF Transfers, Changing
      <4> QED BY <2>2, <3>1, <4>1, <4>2, EntriesDrop, TransfersDrop
              DEF CallSteps, CallActs, TransferSteps, Changing
    <3> QED BY <3>5, <3>6, <3>7, <3>8
  <2> QED BY <1>2, <2>1, <2>2, StepMoves DEF Next, TransferSteps, Transfers, Calls
<1> QED BY <1>1, <1>2

(* The listing the explorer is shown is what the server holds, once calls   *)
(* that are no saves all went well and none changed the directory while a   *)
(* listing was on its way; for any calls.                                   *)
THEOREM ListingIsCurrent == Spec => []CacheIsCurrent
<1>1. CacheInv => CacheIsCurrent
  <2>1. Settled \subseteq Ended /\ Settled \cap {"failed", "canceled"} = {}
      BY DEF Settled, Ended
  <2>2. TypeOK => raced \in BOOLEAN
      BY DEF TypeOK
  <2> QED BY <2>1 DEF CacheInv, CacheIsCurrent, Quiet, Active, Changing, Calls
<1> QED BY InitTyped, TypeInvNext, CacheInvInit, CacheInvNext, <1>1, PTL DEF Spec

-----------------------------------------------------------------------------
(* Parts.  What a transfer has sent is in the file it has open, which is its *)
(* part, for as long as nothing else touched that part or the source.       *)

LEMMA PrefixIs ==
    ASSUME NEW s \in Seq(Bytes), NEW w \in Seq(Bytes)
    PROVE  IsPrefix(s, w) <=> Len(s) <= Len(w) /\ \A i \in 1..Len(s) : s[i] = w[i]
<1>1. SubSeq(s, 1, Len(s)) = s
    OBVIOUS
<1>2. ASSUME Len(s) <= Len(w)
      PROVE  /\ SubSeq(w, 1, Len(s)) \in Seq(Bytes) /\ Len(SubSeq(w, 1, Len(s))) = Len(s)
             /\ \A i \in 1..Len(s) : SubSeq(w, 1, Len(s))[i] = w[i]
    BY <1>2
<1>3. ASSUME NEW u \in Seq(Bytes), Len(u) = Len(s)
      PROVE  s = u <=> \A i \in 1..Len(s) : s[i] = u[i]
  <2>1. ASSUME \A i \in 1..Len(s) : s[i] = u[i] PROVE s = u
    <3>1. s = [i \in 1..Len(s) |-> s[i]] /\ u = [i \in 1..Len(u) |-> u[i]]
        OBVIOUS
    <3>2. [i \in 1..Len(s) |-> s[i]] = [i \in 1..Len(u) |-> u[i]]
        BY <1>3, <2>1
    <3> QED BY <3>1, <3>2, Zenon
  <2> QED BY <2>1
<1> QED BY <1>1, <1>2, <1>3 DEF IsPrefix

Sent(kept, n, whole) == Len(kept) = n /\ IsPrefix(kept, whole)

LEMMA NothingSent == ASSUME NEW w \in Seq(Bytes) PROVE Sent(<<>>, 0, w)
<1>1. <<>> \in Seq(Bytes) /\ Len(<<>>) = 0 /\ Len(w) \in Nat
    OBVIOUS
<1>2. IsPrefix(<<>>, w) <=> Len(<<>>) <= Len(w) /\ \A i \in 1..Len(<<>>) : <<>>[i] = w[i]
    BY <1>1, PrefixIs, Zenon
<1>3. \A i \in 1..0 : FALSE
    OBVIOUS
<1>4. IsPrefix(<<>>, w)
    BY <1>1, <1>2, <1>3
<1> QED BY <1>1, <1>4 DEF Sent

LEMMA OneMoreSent ==
    ASSUME NEW s \in Seq(Bytes), NEW w \in Seq(Bytes), NEW n \in Nat, Sent(s, n, w), n < Len(w),
           NEW u \in Seq(Bytes), Len(u) = n + 1, \A i \in 1..n : u[i] = s[i], u[n + 1] = w[n + 1]
    PROVE  Sent(u, n + 1, w)
<1>1. Len(s) = n /\ \A i \in 1..n : s[i] = w[i]
    BY PrefixIs DEF Sent
<1> QED BY <1>1, PrefixIs DEF Sent

LEMMA AllSent ==
    ASSUME NEW s \in Seq(Bytes), NEW w \in Seq(Bytes), NEW n \in Nat, Sent(s, n, w), n >= Len(w)
    PROVE  s = w
<1>1. Len(s) = n /\ Len(s) <= Len(w) /\ \A i \in 1..n : s[i] = w[i]
    BY PrefixIs DEF Sent
<1> QED BY <1>1
Swapping == {"into", "clear", "swap"}

UpWhole(t) ==
    own[t] = TRUE =>
       /\ pc[t] = "stream" => /\ hand[t] = fs.entry[Part_(t)]
                              /\ Sent(PartBytes(fs, t), at[t], Whole(source[cur[t]]))
       /\ pc[t] \in Swapping => PartBytes(fs, t) = Whole(source[cur[t]])

DownWhole(t) ==
    own[t] = TRUE /\ pc[t] = "stream" =>
       /\ lhand[t] = disk.entry[Part_(t)]
       /\ Sent(PartBytes(disk, t), at[t], fs.data[hand[t]])

OwnInv == (\A t \in Uploads : UpWhole(t)) /\ (\A t \in Downloads : DownWhole(t))

\* The files of d whose names are no final ones are not taken for others.
EntriesKept(d, e) ==
    \A p \in Paths : (\A n \in Names : p # Final(n)) /\ Has(d, p) /\ Has(e, p) => e.entry[p] = d.entry[p]

LEMMA OwnIs ==
    ASSUME OwnAfter, NEW t \in Transfers, own \in [Transfers -> BOOLEAN], own'[t] = TRUE
    PROVE  /\ pc'[t] = "stream" /\ pc[t] # "stream" =>
                 \/ at[t] = 0
                 \/ t \in Uploads /\ Sent(PartBytes(fs, t)', at[t], Streamed(t)')
                 \/ t \notin Uploads /\ Sent(PartBytes(disk, t)', at[t], Streamed(t)')
           /\ pc'[t] # "stream" \/ pc[t] = "stream" => own[t] = TRUE
           /\ pc'[t] = pc[t] /\ pc[t] \in Swapping \cup {"stream"} /\ at'[t] = at[t] => Sees(t)' = Sees(t)
<1>1. own'[t] =
        (IF pc'[t] = "stream" /\ ~Streams(t)
         THEN at[t] = 0 \/ LET kept == IF t \in Uploads THEN PartBytes(fs, t)' ELSE PartBytes(disk, t)'
                           IN  Len(kept) = at[t] /\ IsPrefix(kept, Streamed(t)')
         ELSE own[t] /\ (/\ pc[t] \in {"stream", "into", "clear", "swap", "rm", "rename"}
                         /\ pc'[t] = pc[t] /\ at'[t] = at[t]
                         => Sees(t)' = Sees(t)))
    BY DEF OwnAfter
<1>2. CASE pc'[t] = "stream" /\ ~Streams(t)
    BY <1>1, <1>2 DEF Sent, Streams
<1>3. CASE ~(pc'[t] = "stream" /\ ~Streams(t))
  <2>1. own[t] /\ (/\ pc[t] \in {"stream", "into", "clear", "swap", "rm", "rename"}
                   /\ pc'[t] = pc[t] /\ at'[t] = at[t]
                   => Sees(t)' = Sees(t))
      BY <1>1, <1>3, Zenon
  <2>2. own[t] \in BOOLEAN
      OBVIOUS
  <2> QED BY <1>3, <2>1, <2>2 DEF Swapping, Streams
<1> QED BY <1>2, <1>3

LEMMA PartBytesAre ==
    ASSUME NEW d \in Trees, NEW t \in Transfers, Part_(t) \in Paths
    PROVE  /\ d.entry[Part_(t)] \in Inodes =>
                 /\ Has(d, Part_(t)) /\ PartBytes(d, t) = d.data[d.entry[Part_(t)]]
                 /\ PartBytes(d, t) \in Seq(Bytes)
           /\ PartBytes(d, t) \in Seq(Bytes) => Has(d, Part_(t)) /\ d.entry[Part_(t)] \in Inodes
<1>1. None \notin Seq(Bytes) /\ None \notin Inodes
    BY FilesAssumption DEF Bytes
<1>2. /\ d.entry[Part_(t)] \in Inodes \cup {None}
      /\ \A i \in Inodes : d.data[i] \in Seq(Bytes)
    BY SizesAreNat
<1> QED BY <1>1, <1>2 DEF PartBytes, Has, Content

LEMMA UpStays ==
    ASSUME TypeInv, TypeInv', NEW t \in Uploads, UpWhole(t), OwnAfter, EntriesKept(fs, fs'),
           pc'[t] = pc[t], at'[t] = at[t], cur'[t] = cur[t], hand'[t] = hand[t]
    PROVE  UpWhole(t)'
<1> SUFFICES ASSUME own'[t] = TRUE, pc[t] \in Swapping \cup {"stream"} PROVE UpWhole(t)'
    BY DEF UpWhole
<1>0. /\ t \in Transfers /\ t \in Calls /\ own \in [Transfers -> BOOLEAN] /\ fs \in Trees /\ fs' \in Trees
      /\ cur[t] \in Names /\ Part_(t) \in Paths /\ \A n \in Names : Part_(t) # Final(n)
  <2>1. t \in Transfers /\ t \in Calls
      BY TransferTyped DEF Transfers
  <2>2. cur[t] \in Names
      BY <2>1, TransferTyped DEF AtFile, Swapping
  <2> QED BY <2>1, <2>2, PathsDiffer DEF TypeInv, TypeOK, Part_
<1>1. own[t] = TRUE /\ Sees(t)' = Sees(t)
    BY <1>0, OwnIs DEF Swapping
<1>2. /\ source'[cur[t]] = source[cur[t]] /\ PartBytes(fs, t)' = PartBytes(fs, t)
      /\ Part_(t)' = Part_(t)
    BY <1>1 DEF Sees, Part_
<1>3. CASE pc[t] = "stream"
  <2>1. /\ hand[t] = fs.entry[Part_(t)] /\ hand[t] \in Inodes
        /\ Sent(PartBytes(fs, t), at[t], Whole(source[cur[t]]))
      BY <1>0, <1>1, <1>3, CallTyped DEF UpWhole, Holds, Holding
  <2>2. PartBytes(fs, t) \in Seq(Bytes) /\ Has(fs, Part_(t))
      BY <1>0, <2>1, PartBytesAre
  <2>3. Has(fs', Part_(t))
    <3>1. PartBytes(fs', t) = PartBytes(fs, t)
        BY <1>2 DEF PartBytes, Part_
    <3> QED BY <1>0, <2>2, <3>1, PartBytesAre
  <2>4. fs'.entry[Part_(t)] = fs.entry[Part_(t)]
      BY <1>0, <2>2, <2>3 DEF EntriesKept
  <2> QED BY <1>2, <1>3, <2>1, <2>4 DEF UpWhole, Swapping
<1>4. CASE pc[t] \in Swapping
    BY <1>1, <1>2, <1>4 DEF UpWhole, Swapping
<1> QED BY <1>3, <1>4

LEMMA DownStays ==
    ASSUME TypeInv, TypeInv', NEW t \in Downloads, DownWhole(t), OwnAfter, EntriesKept(disk, disk'),
           pc'[t] = pc[t], at'[t] = at[t], cur'[t] = cur[t], hand'[t] = hand[t], lhand'[t] = lhand[t]
    PROVE  DownWhole(t)'
<1> SUFFICES ASSUME own'[t] = TRUE, pc[t] = "stream" PROVE DownWhole(t)'
    BY DEF DownWhole
<1>0. /\ t \in Transfers /\ t \in Calls /\ own \in [Transfers -> BOOLEAN] /\ disk \in Trees /\ disk' \in Trees
      /\ cur[t] \in Names /\ Part_(t) \in Paths /\ \A n \in Names : Part_(t) # Final(n)
      /\ t \notin Uploads /\ lhand[t] \in Inodes /\ hand[t] # None
  <2>1. t \in Transfers /\ t \in Calls /\ t \notin Uploads
      BY TransferTyped DEF Transfers
  <2>2. cur[t] \in Names /\ lhand[t] \in Inodes /\ hand[t] # None
      BY <2>1, TransferTyped, CallTyped DEF AtFile, Holds, Holding
  <2> QED BY <2>1, <2>2, PathsDiffer DEF TypeInv, TypeOK, Part_
<1>1. own[t] = TRUE /\ Sees(t)' = Sees(t)
    BY <1>0, OwnIs
<1>2. /\ PartBytes(disk, t)' = PartBytes(disk, t) /\ fs'.data[hand[t]] = fs.data[hand[t]]
      /\ Part_(t)' = Part_(t)
    BY <1>0, <1>1 DEF Sees, Part_
<1>3. lhand[t] = disk.entry[Part_(t)] /\ Sent(PartBytes(disk, t), at[t], fs.data[hand[t]])
    BY <1>1 DEF DownWhole
<1>4. PartBytes(disk, t) \in Seq(Bytes) /\ Has(disk, Part_(t))
    BY <1>0, <1>3, PartBytesAre
<1>5. Has(disk', Part_(t))
  <2>1. PartBytes(disk', t) = PartBytes(disk, t)
      BY <1>2 DEF PartBytes, Part_
  <2> QED BY <1>0, <1>4, <2>1, PartBytesAre
<1>6. disk'.entry[Part_(t)] = disk.entry[Part_(t)]
    BY <1>0, <1>4, <1>5 DEF EntriesKept
<1> QED BY <1>2, <1>3, <1>6 DEF DownWhole

\* What an upload itself does to the part it sends.
LEMMA UpOwn ==
    ASSUME TypeInv, TypeInv', NEW t \in Uploads, UpWhole(t), OwnAfter, Upload(t), Moves(t)
    PROVE  UpWhole(t)'
<1>0. /\ t \in Transfers /\ t \in Calls /\ own \in [Transfers -> BOOLEAN] /\ fs \in Trees /\ fs' \in Trees
      /\ fs \in Dirs /\ fs' \in Dirs /\ Unshared(fs.entry)
      /\ pc \in [Calls -> Places] /\ hand \in [Calls -> Inodes \cup {None}] /\ at \in [Transfers -> Nat]
      /\ Stop(t) \in {"failed", "canceled"} /\ None \notin Inodes
  <2>1. t \in Transfers /\ t \in Calls
      BY TransferTyped DEF Transfers
  <2> QED BY <2>1, Ends, TreeIsDir, FilesAssumption DEF TypeInv, TypeOK
<1>n. ASSUME pc[t] \in AtFile
      PROVE  /\ cur[t] \in Names /\ Part_(t) \in Paths /\ Final_(t) \in Paths /\ Part_(t) # Final_(t)
             /\ source[cur[t]] \in Versions /\ Whole(source[cur[t]]) \in Seq(Bytes)
             /\ Len(Whole(source[cur[t]])) = Size[source[cur[t]]]
             /\ \A i \in 1..Size[source[cur[t]]] : Whole(source[cur[t]])[i] = source[cur[t]]
             /\ Size[source[cur[t]]] \in Nat
  <2>1. cur[t] \in Names /\ source[cur[t]] \in Versions
      BY <1>0, <1>n, TransferTyped
  <2> QED BY <2>1, <1>0, TransferTyped, WholeIsSeq
<1>o. own'[t] = TRUE /\ (pc'[t] # "stream" \/ pc[t] = "stream") => own[t] = TRUE
    BY <1>0, OwnIs
<1>k. ASSUME pc'[t] \notin Swapping \cup {"stream"} PROVE UpWhole(t)'
    BY <1>k DEF UpWhole
<1>1. CASE UploadEnsure(t) \/ UploadStat(t) \/ UploadSwap(t) \/ UploadWithShell(t)
  <2>1. pc'[t] \notin Swapping \cup {"stream"}
    <3>1. UploadEnsure(t) => pc'[t] \in {"canceled", "failed", "shellOpen", "stat"}
        BY <1>0 DEF UploadEnsure, AskUp, Ask, Request, Go
    <3>2. UploadStat(t) => pc'[t] = "open"
        BY <1>0 DEF UploadStat, Go
    <3>3. UploadSwap(t) => pc'[t] \in {"canceled", "failed", "next"}
        BY <1>0 DEF UploadSwap, Ask, Request, Go
    <3>4. UploadWithShell(t) => pc'[t] \in {"canceled", "failed", "shellWrite", "next"}
        BY <1>0 DEF UploadWithShell, OpenWrite, WriteByte, WriteEnds, Request, Go
    <3> QED BY <1>1, <3>1, <3>2, <3>3, <3>4 DEF Swapping
  <2> QED BY <1>k, <2>1
<1>2. CASE UploadOpen(t)
  <2> SUFFICES ASSUME pc'[t] = "stream", own'[t] = TRUE PROVE UpWhole(t)'
    <3>1. pc'[t] \in {"stream", "failed", "canceled"}
        BY <1>0, <1>2 DEF UploadOpen, Request, Go
    <3> QED BY <3>1 DEF UpWhole, Swapping
  <2>1. /\ pc[t] = "open" /\ hand'[t] = fs'.entry[Part_(t)] /\ UNCHANGED <<source, cur, at>>
        /\ at[t] = 0 => CanOpen(fs, hand, Part_(t)) /\ fs' = Opened(fs, hand, Part_(t))
      BY <1>0, <1>2 DEF UploadOpen, Request, Go
  <2>2. CASE at[t] = 0
    <3>1. Part_(t) \in Paths /\ Whole(source[cur[t]]) \in Seq(Bytes)
        BY <1>n, <2>1 DEF AtFile
    <3>a. CanOpen(fs, hand, Part_(t)) /\ fs' = Opened(fs, hand, Part_(t))
        BY <2>1, <2>2
    <3>2. PICK i \in Inodes : OpenedAs(fs, hand, Part_(t), i, fs')
        BY <1>0, <3>a, <3>1, OpenedIs, Zenon
    <3>3. fs'.entry[Part_(t)] = i /\ fs'.data[i] = <<>>
        BY <1>0, <3>1, <3>2 DEF OpenedAs, Dirs
    <3>4. PartBytes(fs', t) = <<>>
        BY <1>0, <3>1, <3>3, PartBytesAre
    <3>5. PartBytes(fs, t)' = <<>> /\ Part_(t)' = Part_(t)
        BY <2>1, <3>4 DEF PartBytes, Part_
    <3>6. Sent(<<>>, 0, Whole(source[cur[t]]))
        BY <3>1, NothingSent
    <3> QED BY <2>1, <2>2, <3>5, <3>6 DEF UpWhole, Swapping
  <2>3. CASE at[t] # 0
    <3>1. Sent(PartBytes(fs, t)', at[t], Streamed(t)')
        BY <1>0, <2>1, <2>3, OwnIs
    <3>2. Streamed(t)' = Whole(source[cur[t]]) /\ Part_(t)' = Part_(t)
        BY <2>1 DEF Streamed, Whole, Part_
    <3> QED BY <2>1, <3>1, <3>2 DEF UpWhole, Swapping, Whole
  <2> QED BY <2>2, <2>3
<1>3. CASE UploadChunk(t)
  <2> SUFFICES ASSUME own'[t] = TRUE PROVE UpWhole(t)'
      BY DEF UpWhole
  <2>1. /\ pc[t] = "stream" /\ UNCHANGED <<pc, hand, source, cur>> /\ at'[t] = at[t] + 1
        /\ at[t] < Size[source[cur[t]]]
        /\ fs' = Filled(fs, hand[t], WriteAt(fs.data[hand[t]], at[t], source[cur[t]]))
      BY <1>0, <1>3 DEF UploadChunk, Streams
  <2>2. /\ hand[t] = fs.entry[Part_(t)] /\ hand[t] \in Inodes
        /\ Sent(PartBytes(fs, t), at[t], Whole(source[cur[t]]))
      BY <1>0, <1>o, <2>1, CallTyped DEF UpWhole, Holds, Holding
  <2>a. /\ Part_(t) \in Paths /\ source[cur[t]] \in Bytes /\ at[t] \in Nat
        /\ Whole(source[cur[t]]) \in Seq(Bytes) /\ Len(Whole(source[cur[t]])) = Size[source[cur[t]]]
        /\ Size[source[cur[t]]] \in Nat
        /\ \A i \in 1..Size[source[cur[t]]] : Whole(source[cur[t]])[i] = source[cur[t]]
    <3>1. pc[t] \in AtFile
        BY <2>1 DEF AtFile
    <3> QED BY <1>0, <1>n, <3>1 DEF Bytes
  <2>3. PartBytes(fs, t) = fs.data[hand[t]] /\ fs.data[hand[t]] \in Seq(Bytes)
      BY <1>0, <2>a, <2>2, PartBytesAre
  <2> DEFINE bytes == WriteAt(fs.data[hand[t]], at[t], source[cur[t]])
  <2>4. /\ bytes \in Seq(Bytes) /\ Len(bytes) = at[t] + 1
        /\ \A i \in 1..at[t] : bytes[i] = fs.data[hand[t]][i]
        /\ bytes[at[t] + 1] = source[cur[t]]
    <3>1. Len(fs.data[hand[t]]) = at[t]
        BY <2>2, <2>3 DEF Sent
    <3>2. at[t] \in Nat /\ source[cur[t]] \in Bytes
        BY <2>a
    <3>3. AppendedAs(fs.data[hand[t]], at[t], source[cur[t]], bytes)
        BY <2>3, <3>1, <3>2, WriteAtEnd, Zenon
    <3> HIDE DEF bytes
    <3> QED BY <3>3 DEF AppendedAs
  <2> HIDE DEF bytes
  <2>5. FilledAs(fs, hand[t], bytes, fs')
      BY <1>0, <2>1, <2>4, FilledIs, Zenon DEF bytes
  <2>6. fs'.entry = fs.entry /\ fs'.data[hand[t]] = bytes
      BY <1>0, <2>2, <2>5 DEF FilledAs, Dirs
  <2>7. Sent(bytes, at[t] + 1, Whole(source[cur[t]]))
    <3>1. /\ Whole(source[cur[t]]) \in Seq(Bytes) /\ at[t] \in Nat /\ at[t] < Len(Whole(source[cur[t]]))
          /\ Whole(source[cur[t]])[at[t] + 1] = source[cur[t]]
        BY <2>1, <2>a
    <3> QED BY <2>2, <2>3, <2>4, <3>1, OneMoreSent
  <2>8. PartBytes(fs', t) = bytes
      BY <1>0, <2>2, <2>a, <2>6, PartBytesAre
  <2>9. PartBytes(fs, t)' = bytes /\ Part_(t)' = Part_(t)
      BY <2>1, <2>8 DEF PartBytes, Part_
  <2> QED BY <2>1, <2>2, <2>6, <2>7, <2>9 DEF UpWhole, Swapping, Whole
<1>4. CASE UploadStreamed(t)
  <2> SUFFICES ASSUME own'[t] = TRUE PROVE UpWhole(t)'
      BY DEF UpWhole
  <2>1. /\ pc[t] = "stream" /\ pc'[t] = "into" /\ UNCHANGED <<fs, source, cur>>
        /\ at[t] >= Size[source[cur[t]]]
      BY <1>0, <1>4 DEF UploadStreamed, Streams, Go, transferVars
  <2>2. /\ hand[t] = fs.entry[Part_(t)] /\ hand[t] \in Inodes
        /\ Sent(PartBytes(fs, t), at[t], Whole(source[cur[t]]))
      BY <1>0, <1>o, <2>1, CallTyped DEF UpWhole, Holds, Holding
  <2>3. PartBytes(fs, t) \in Seq(Bytes)
      BY <1>0, <1>n, <2>1, <2>2, PartBytesAre DEF AtFile
  <2>4. PartBytes(fs, t) = Whole(source[cur[t]])
      BY <1>0, <1>n, <2>1, <2>2, <2>3, AllSent DEF AtFile
  <2>5. PartBytes(fs, t)' = PartBytes(fs, t)
      BY <2>1 DEF PartBytes, Part_
  <2> QED BY <2>1, <2>4, <2>5 DEF UpWhole, Swapping, Whole
<1>5. CASE UploadInto(t) \/ UploadClear(t)
  <2> SUFFICES ASSUME own'[t] = TRUE, pc'[t] \in {"clear", "swap"} PROVE UpWhole(t)'
    <3>1. pc'[t] \in {"clear", "swap", "failed", "canceled"}
        BY <1>0, <1>5 DEF UploadInto, UploadClear, AskUp, Ask, Request, Go
    <3> QED BY <3>1 DEF UpWhole, Swapping
  <2>1. /\ pc[t] \in Swapping /\ pc[t] # "stream" /\ UNCHANGED <<source, cur>>
        /\ fs' = fs \/ fs' = Removed(fs, Final_(t))
      BY <1>0, <1>5 DEF UploadInto, UploadClear, AskUp, Ask, Request, Go, transferVars, Swapping
  <2>2. Part_(t) \in Paths /\ Final_(t) \in Paths /\ Part_(t) # Final_(t)
      BY <1>n, <2>1 DEF AtFile, Swapping
  <2>3. fs'.entry[Part_(t)] = fs.entry[Part_(t)] /\ fs'.data = fs.data
    <3>1. /\ Removed(fs, Final_(t)).entry = [fs.entry EXCEPT ![Final_(t)] = None]
          /\ Removed(fs, Final_(t)).data = fs.data
        BY <1>0, <2>2, RemovedIs
    <3> QED BY <1>0, <2>1, <2>2, <3>1 DEF Dirs
  <2>4. PartBytes(fs, t) = Whole(source[cur[t]])
      BY <1>o, <2>1 DEF UpWhole
  <2>5. PartBytes(fs, t)' = PartBytes(fs, t)
      BY <2>1, <2>3 DEF PartBytes, Part_, Has, Content
  <2> QED BY <2>1, <2>4, <2>5 DEF UpWhole, Whole
<1> QED BY <1>1, <1>2, <1>3, <1>4, <1>5 DEF Upload

\* What a download itself does to the part it fills.
LEMMA DownOwn ==
    ASSUME TypeInv, TypeInv', NEW t \in Downloads, DownWhole(t), OwnAfter, Download(t), fs' = fs
    PROVE  DownWhole(t)'
<1>0. /\ t \in Transfers /\ t \in Calls /\ t \notin Uploads /\ own \in [Transfers -> BOOLEAN]
      /\ disk \in Trees /\ disk' \in Trees /\ disk \in Dirs /\ disk' \in Dirs /\ fs \in Trees /\ fs \in Dirs
      /\ pc \in [Calls -> Places] /\ at \in [Transfers -> Nat]
      /\ hand \in [Calls -> Inodes \cup {None}] /\ lhand \in [Transfers -> Inodes \cup {None}]
      /\ Stop(t) \in {"failed", "canceled"} /\ None \notin Inodes
  <2>1. t \in Transfers /\ t \in Calls /\ t \notin Uploads
      BY TransferTyped DEF Transfers
  <2> QED BY <2>1, Ends, TreeIsDir, FilesAssumption DEF TypeInv, TypeOK
<1>k. ASSUME pc'[t] # "stream" PROVE DownWhole(t)'
    BY <1>k DEF DownWhole
<1>1. CASE DownloadFails(t) \/ DownloadEnsure(t) \/ DownloadStat(t) \/ DownloadStreamed(t)
           \/ DownloadSwap(t) \/ DownloadWithShell(t)
  <2>1. pc'[t] # "stream"
    <3>1. DownloadFails(t) => pc'[t] \in {"canceled", "failed"}
        BY <1>0 DEF DownloadFails, Go
    <3>2. DownloadEnsure(t) \/ DownloadStat(t) => pc'[t] \in {"shellOpen", "canceled", "stat", "open"}
        BY <1>0 DEF DownloadEnsure, DownloadStat, Go
    <3>3. DownloadStreamed(t) \/ DownloadSwap(t) => pc'[t] \in {"rm", "rename", "next"}
        BY <1>0 DEF DownloadStreamed, DownloadSwap, Go
    <3>4. DownloadWithShell(t) => pc'[t] \in {"shellWrite", "next", "canceled", "failed"}
        BY <1>0 DEF DownloadWithShell, Go
    <3> QED BY <1>1, <3>1, <3>2, <3>3, <3>4
  <2> QED BY <1>k, <2>1
<1>2. CASE DownloadOpen(t)
  <2> SUFFICES ASSUME own'[t] = TRUE PROVE DownWhole(t)'
      BY DEF DownWhole
  <2>1. /\ pc[t] = "open" /\ pc'[t] = "stream" /\ UNCHANGED <<cur, at>>
        /\ hand'[t] = fs.entry[Final_(t)] /\ Has(fs, Final_(t))
        /\ lhand'[t] = disk'.entry[Part_(t)]
        /\ at[t] = 0 => CanOpen(disk, lhand, Part_(t)) /\ disk' = Opened(disk, lhand, Part_(t))
    <3>1. /\ pc[t] = "open" /\ Go(t, "stream") /\ UNCHANGED <<cur, at>> /\ Has(fs, Final_(t))
          /\ CanOpen(disk, lhand, Part_(t))
          /\ disk' = IF at[t] > 0 /\ Has(disk, Part_(t)) THEN disk ELSE Opened(disk, lhand, Part_(t))
          /\ lhand' = [lhand EXCEPT ![t] = disk'.entry[Part_(t)]]
          /\ hand' = [hand EXCEPT ![t] = fs.entry[Final_(t)]]
        BY <1>2 DEF DownloadOpen
    <3>2. at[t] = 0 => ~(at[t] > 0)
        BY <1>0
    <3> QED BY <1>0, <3>1, <3>2 DEF Go
  <2>n. cur[t] \in Names /\ Part_(t) \in Paths /\ Final_(t) \in Paths /\ Part_(t)' = Part_(t)
      BY <1>0, <2>1, TransferTyped DEF AtFile, Part_
  <2>s. /\ fs'.data[hand'[t]] \in Seq(Bytes) /\ fs'.data[hand'[t]] = Streamed(t)'
    <3>1. hand'[t] \in Inodes
        BY <1>0, <2>1, <2>n, SizesAreNat
    <3> QED BY <1>0, <3>1, SizesAreNat DEF Streamed
  <2>2. CASE at[t] = 0
    <3>a. CanOpen(disk, lhand, Part_(t)) /\ disk' = Opened(disk, lhand, Part_(t))
        BY <2>1, <2>2
    <3>2. PICK i \in Inodes : OpenedAs(disk, lhand, Part_(t), i, disk')
        BY <1>0, <2>n, <3>a, OpenedIs, Zenon
    <3>3. disk'.entry[Part_(t)] = i /\ disk'.data[i] = <<>>
        BY <1>0, <2>n, <3>2 DEF OpenedAs, Dirs
    <3>4. PartBytes(disk', t) = <<>>
        BY <1>0, <2>n, <3>3, PartBytesAre
    <3>5. PartBytes(disk, t)' = <<>>
        BY <2>n, <3>4 DEF PartBytes
    <3>6. Sent(<<>>, 0, fs'.data[hand'[t]])
        BY <2>s, NothingSent
    <3>7. at'[t] = 0
        BY <2>1, <2>2
    <3>8. lhand'[t] = disk'.entry[Part_(t)']
        BY <2>1, <2>n
    <3> QED BY <3>5, <3>6, <3>7, <3>8 DEF DownWhole
  <2>3. CASE at[t] # 0
    <3>1. Sent(PartBytes(disk, t)', at[t], Streamed(t)')
        BY <1>0, <2>1, <2>3, OwnIs
    <3> QED BY <2>1, <2>n, <2>s, <3>1 DEF DownWhole
  <2> QED BY <2>2, <2>3
<1>3. CASE DownloadChunk(t)
  <2> SUFFICES ASSUME own'[t] = TRUE PROVE DownWhole(t)'
      BY DEF DownWhole
  <2> DEFINE whole == fs.data[hand[t]]
             kept == disk.data[lhand[t]]
             bytes == Append(kept, whole[at[t] + 1])
  <2>1. /\ pc[t] = "stream" /\ UNCHANGED <<pc, hand, lhand, cur>> /\ at'[t] = at[t] + 1
        /\ at[t] < Len(whole)
        /\ disk' = [disk EXCEPT !.data[lhand[t]] = bytes]
      BY <1>0, <1>3 DEF DownloadChunk, Streams, fileVars
  <2>2. own[t] = TRUE
      BY <1>0, <2>1, OwnIs
  <2>3. lhand[t] = disk.entry[Part_(t)] /\ Sent(PartBytes(disk, t), at[t], whole)
      BY <2>1, <2>2 DEF DownWhole
  <2>n. cur[t] \in Names /\ Part_(t) \in Paths /\ Part_(t)' = Part_(t) /\ lhand[t] \in Inodes /\ hand[t] \in Inodes
      BY <1>0, <2>1, TransferTyped, CallTyped DEF AtFile, Part_, Holds, Holding
  <2>4. PartBytes(disk, t) = kept /\ kept \in Seq(Bytes)
      BY <1>0, <2>n, <2>3, PartBytesAre
  <2>5. whole \in Seq(Bytes) /\ at[t] \in Nat /\ whole[at[t] + 1] \in Bytes
    <3>1. whole \in Seq(Bytes) /\ at[t] \in Nat
        BY <1>0, <2>n, SizesAreNat
    <3> HIDE DEF whole
    <3> QED BY <2>1, <3>1
  <2>6. AppendedAs(kept, at[t], whole[at[t] + 1], bytes)
    <3>1. Len(kept) = at[t]
        BY <2>3, <2>4 DEF Sent
    <3> QED BY <2>4, <2>5, <3>1, AppendAtEnd, Zenon
  <2>7. disk' = Filled(disk, lhand[t], bytes)
      BY <2>1 DEF Filled
  <2> HIDE DEF whole, kept, bytes
  <2>8. FilledAs(disk, lhand[t], bytes, disk')
    <3>1. bytes \in Seq(Bytes)
        BY <2>6 DEF AppendedAs
    <3> QED BY <1>0, <2>7, <3>1, FilledIs, Zenon
  <2>9. disk'.entry = disk.entry /\ disk'.data[lhand[t]] = bytes
      BY <1>0, <2>n, <2>8 DEF FilledAs, Dirs
  <2>10. Sent(bytes, at[t] + 1, whole)
    <3>1. Sent(kept, at[t], whole)
        BY <2>3, <2>4
    <3> QED BY <2>1, <2>4, <2>5, <2>6, <3>1, OneMoreSent DEF AppendedAs
  <2>11. PartBytes(disk', t) = bytes
      BY <1>0, <2>n, <2>3, <2>9, PartBytesAre
  <2>12. PartBytes(disk, t)' = bytes
      BY <2>n, <2>11 DEF PartBytes
  <2>13. whole = fs'.data[hand'[t]]
      BY <2>1 DEF whole
  <2> QED BY <2>1, <2>n, <2>3, <2>9, <2>10, <2>12, <2>13 DEF DownWhole
<1> QED BY <1>1, <1>2, <1>3 DEF Download

LEMMA OwnInvInit == Init => OwnInv
<1>1. Init => \A t \in Calls : pc[t] \in {"idle", "off"}
    BY DEF Init, FilesInit
<1> QED BY <1>1 DEF OwnInv, UpWhole, DownWhole, Swapping, Calls

LEMMA OwnInvNext == TypeInv /\ TypeInv' /\ OwnInv /\ [Next]_vars => OwnInv'
<1> SUFFICES ASSUME TypeInv, TypeInv', OwnInv, [Next]_vars PROVE OwnInv'
    OBVIOUS
<1>1. CASE UNCHANGED vars
    BY <1>1 DEF vars, fileVars, transferVars, OwnInv, UpWhole, DownWhole, PartBytes, Part_, Whole
<1>2. CASE Next
  <2>0. OwnAfter
      BY <1>2 DEF Next
  <2>1. CASE Idles
    <3>1. EntriesKept(fs, fs') /\ EntriesKept(disk, disk')
        BY <2>1 DEF Idles, EntriesKept
    <3>2. UNCHANGED <<pc, at, cur, hand, lhand>>
        BY <2>1 DEF Idles
    <3> QED BY <2>0, <3>1, <3>2, UpStays, DownStays DEF OwnInv
  <2>2. ASSUME NEW c \in Calls, CallSteps(c) \/ TransferSteps(c) PROVE OwnInv'
    <3>0. /\ Moves(c) /\ ServerStep(c)
          /\ \A d \in Calls : d # c => pc'[d] = pc[d] /\ hand'[d] = hand[d]
        BY <2>2, MovesTyped DEF CallSteps, TransferSteps, Moves
    <3>1. EntriesKept(fs, fs')
        BY <3>0, ServerFrame DEF EntriesKept
    <3>2. EntriesKept(disk, disk')
      <4>1. CASE CallSteps(c)
          BY <4>1 DEF CallSteps, transferVars, EntriesKept
      <4>2. CASE TransferSteps(c)
          BY <4>2, DiskFrame DEF TransferSteps, Local, EntriesKept
      <4> QED BY <2>2, <4>1, <4>2
    <3>3. \A t \in Transfers : t # c =>
              /\ pc'[t] = pc[t] /\ hand'[t] = hand[t]
              /\ at'[t] = at[t] /\ cur'[t] = cur[t] /\ lhand'[t] = lhand[t]
      <4>1. \A t \in Transfers : t \in Calls
          BY TransferTyped
      <4>2. CASE CallSteps(c)
          BY <3>0, <4>1, <4>2 DEF CallSteps, transferVars
      <4>3. CASE TransferSteps(c)
          BY <3>0, <4>1, <4>3, TurnsTyped DEF TransferSteps
      <4> QED BY <2>2, <4>2, <4>3
    <3>4. ASSUME NEW t \in Uploads, t # c PROVE UpWhole(t)'
      <4>1. t \in Transfers /\ UpWhole(t)
          BY DEF Transfers, OwnInv
      <4> QED BY <2>0, <3>1, <3>3, <3>4, <4>1, UpStays
    <3>5. ASSUME NEW t \in Downloads, t # c PROVE DownWhole(t)'
      <4>1. t \in Transfers /\ DownWhole(t)
          BY DEF Transfers, OwnInv
      <4> QED BY <2>0, <3>2, <3>3, <3>5, <4>1, DownStays
    <3>6. ASSUME c \in Transfers, Invalidate(c) \/ Begin(c) \/ NextFile(c) \/ NoMoreFiles(c) \/ StreamFails(c)
          PROVE  UpWhole(c)' /\ DownWhole(c)'
      <4>1. pc'[c] \notin Swapping \cup {"stream"}
        <5>1. Invalidate(c) => pc'[c] \in {"ok", "failed"}
            BY CallTyped DEF Invalidate, Go
        <5>2. Begin(c) => pc'[c] \in {"conflict", "next", "failed"}
            BY CallTyped DEF Begin, Go
        <5>3. NextFile(c) => pc'[c] \in {"next", "ensure"}
            BY CallTyped DEF NextFile, Go
        <5>4. NoMoreFiles(c) => pc'[c] \in {"applied", "ok"}
            BY CallTyped DEF NoMoreFiles, Go
        <5>5. StreamFails(c) => pc'[c] \in {"failed", "canceled"}
            BY <3>6, CallTyped, Ends DEF StreamFails, Go
        <5> QED BY <3>6, <5>1, <5>2, <5>3, <5>4, <5>5 DEF Swapping
      <4> QED BY <4>1 DEF UpWhole, DownWhole
    <3>7. ASSUME c \in Transfers, CancelFileOperation(c)
          PROVE  /\ pc'[c] = pc[c] /\ hand'[c] = hand[c]
                 /\ at'[c] = at[c] /\ cur'[c] = cur[c] /\ lhand'[c] = lhand[c]
        BY <3>7 DEF CancelFileOperation, fileVars
    <3>8. ASSUME c \in Uploads PROVE UpWhole(c)'
      <4>1. TransferSteps(c) /\ UpWhole(c) /\ c \notin Downloads /\ c \in Transfers
          BY <2>2, <3>8, KindsDiffer DEF CallSteps, Transfers, OwnInv
      <4>2. CASE Upload(c)
          BY <2>0, <3>0, <3>8, <4>1, <4>2, UpOwn
      <4>3. CASE CancelFileOperation(c)
          BY <2>0, <3>1, <3>7, <3>8, <4>1, <4>3, UpStays
      <4> QED BY <3>6, <4>1, <4>2, <4>3 DEF TransferSteps, TransferActs
    <3>9. ASSUME c \in Downloads PROVE DownWhole(c)'
      <4>1. TransferSteps(c) /\ DownWhole(c) /\ c \notin Uploads /\ c \in Transfers /\ fs' = fs
          BY <2>2, <3>9, KindsDiffer DEF CallSteps, Transfers, OwnInv, TransferSteps, Local
      <4>2. CASE Download(c)
          BY <2>0, <3>9, <4>1, <4>2, DownOwn
      <4>3. CASE CancelFileOperation(c)
          BY <2>0, <3>2, <3>7, <3>9, <4>1, <4>3, DownStays
      <4> QED BY <3>6, <4>1, <4>2, <4>3 DEF TransferSteps, TransferActs
    <3> QED BY <3>4, <3>5, <3>8, <3>9 DEF OwnInv
  <2> QED BY <1>2, <2>1, <2>2, StepMoves DEF Next, TransferSteps, Transfers, Calls
<1> QED BY <1>1, <1>2

(* What a transfer swaps into place is whole: from the first byte to the    *)
(* swap its part holds what was sent, for any contents and any losses,      *)
(* cancellations and resumptions before, unless the source changed or       *)
(* another call wrote the same part.                                        *)
THEOREM PartsStayWhole == Spec => []PartsAreWhole
<1>1. TypeInv /\ OwnInv => PartsAreWhole
  <2> SUFFICES ASSUME TypeInv, OwnInv PROVE PartsAreWhole
      OBVIOUS
  <2>0. own \in [Transfers -> BOOLEAN]
      BY DEF TypeInv, TypeOK
  <2>1. ASSUME NEW t \in Transfers, Streams(t), own[t]
        PROVE  LET kept == IF t \in Uploads THEN PartBytes(fs, t) ELSE PartBytes(disk, t)
               IN  Len(kept) = at[t] /\ IsPrefix(kept, Streamed(t))
    <3>1. CASE t \in Uploads
      <4>1. Sent(PartBytes(fs, t), at[t], Whole(source[cur[t]]))
          BY <2>0, <2>1, <3>1 DEF OwnInv, UpWhole, Streams
      <4> QED BY <3>1, <4>1 DEF Sent, Streamed
    <3>2. CASE t \notin Uploads
      <4>1. Sent(PartBytes(disk, t), at[t], fs.data[hand[t]])
          BY <2>0, <2>1, <3>2 DEF OwnInv, DownWhole, Streams, Transfers
      <4> QED BY <3>2, <4>1 DEF Sent, Streamed
    <3> QED BY <3>1, <3>2
  <2>2. ASSUME NEW t \in Uploads, pc[t] \in {"into", "clear", "swap"}, own[t]
        PROVE  PartBytes(fs, t) = Whole(source[cur[t]])
      BY <2>0, <2>2 DEF OwnInv, UpWhole, Swapping, Transfers
  <2> QED BY <2>1, <2>2 DEF PartsAreWhole
<1> QED BY InitTyped, TypeInvNext, OwnInvInit, OwnInvNext, <1>1, PTL DEF Spec

-----------------------------------------------------------------------------
(* Searches and previews.  The matches of a scan are those of the files it  *)
(* has read.                                                                *)

LEMMA MatchesFinite ==
    ASSUME NEW S \in SUBSET Names
    PROVE  IsFiniteSet(MatchesIn(S)) /\ Cardinality(MatchesIn(S)) \in Nat
<1> DEFINE M == [n \in S |-> {n} \X (1..HitsIn[n])]
           Images == {{n} \X (1..HitsIn[n]) : n \in S}
<1>1. IsFiniteSet(S)
    BY ReadsAssumption, FS_Subset
<1>2. M \in Surjection(S, Images)
  <2>1. M \in [S -> Images]
      OBVIOUS
  <2>2. \A m \in Images : \E n \in S : M[n] = m
      OBVIOUS
  <2> QED BY <2>1, <2>2 DEF Surjection
<1>3. IsFiniteSet(Images)
  <2> HIDE DEF M, Images
  <2> QED BY <1>1, <1>2, FS_Surjection
<1>4. \A T \in Images : IsFiniteSet(T)
  <2> SUFFICES ASSUME NEW n \in S PROVE IsFiniteSet({n} \X (1..HitsIn[n]))
      OBVIOUS
  <2>1. HitsIn[n] \in Nat
      BY ReadsAssumption
  <2>2. IsFiniteSet(1..HitsIn[n])
      BY <2>1, FS_Interval
  <2>3. IsFiniteSet({n})
      BY FS_Singleton, Zenon
  <2> QED BY <2>2, <2>3, FS_Product
<1>5. IsFiniteSet(UNION Images)
  <2> HIDE DEF Images
  <2> QED BY <1>3, <1>4, FS_UNION
<1> QED BY <1>5, FS_CardinalityType DEF MatchesIn

LEMMA OneMoreFile ==
    ASSUME NEW S \in SUBSET Names, NEW n \in Names \ S
    PROVE  Cardinality(MatchesIn(S \cup {n})) = Cardinality(MatchesIn(S)) + HitsIn[n]
<1> DEFINE new == {n} \X (1..HitsIn[n])
<1>1. MatchesIn(S \cup {n}) = MatchesIn(S) \cup new
    BY DEF MatchesIn
<1>2. MatchesIn(S) \cap new = {}
    BY DEF MatchesIn
<1>3. HitsIn[n] \in Nat
    BY ReadsAssumption
<1>4. IsFiniteSet(new) /\ Cardinality(new) = HitsIn[n]
  <2>1. IsFiniteSet({n}) /\ Cardinality({n}) = 1
      BY FS_Singleton, Zenon
  <2>2. IsFiniteSet(1..HitsIn[n]) /\ Cardinality(1..HitsIn[n]) = HitsIn[n]
      BY <1>3, FS_Interval
  <2>3. IsFiniteSet(new) /\ Cardinality(new) = Cardinality({n}) * Cardinality(1..HitsIn[n])
      BY <2>1, <2>2, FS_Product
  <2> QED BY <1>3, <2>1, <2>2, <2>3
<1> HIDE DEF new
<1>5. IsFiniteSet(MatchesIn(S)) /\ Cardinality(MatchesIn(S)) \in Nat
    BY MatchesFinite
<1>6. Cardinality(MatchesIn(S) \cup new)
        = Cardinality(MatchesIn(S)) + Cardinality(new) - Cardinality(MatchesIn(S) \cap new)
    BY <1>4, <1>5, FS_Union
<1>7. Cardinality(MatchesIn(S) \cap new) = 0
    BY <1>2, FS_EmptySet
<1>8. Cardinality(MatchesIn(S) \cup new) = Cardinality(MatchesIn(S)) + HitsIn[n]
    BY <1>3, <1>4, <1>5, <1>6, <1>7
<1> QED BY <1>1, <1>8

Codes == {"0", "1", "2", "127", "lost", "scanned", None}

ReadsTyped ==
    /\ read \in [Searches \cup Previews -> Nat] /\ found \in [Searches -> Nat]
    /\ cut \in [Searches -> BOOLEAN] /\ unscanned \in [Searches -> SUBSET Names]
    /\ exit \in [Searches -> Codes]

\* What ripgrep has sent is counted, and what a scan has read is.
SearchIs(c) ==
    /\ pc[c] \in {"off", "idle", "ripgrep", "scan", "ok", "failed"}
    /\ found[c] <= MaxResults[c]
    /\ pc[c] \in {"idle", "ripgrep"} =>
          exit[c] = None /\ read[c] <= Hits /\ (~cut[c] => found[c] = read[c])
    /\ pc[c] = "scan" => exit[c] \notin {"0", "1"} /\ (exit[c] # "scanned" => unscanned[c] = Names)
    /\ exit[c] = "scanned" /\ ~cut[c] => found[c] = Cardinality(MatchesIn(Names \ unscanned[c]))
    /\ pc[c] = "ok" /\ ~cut[c] => /\ exit[c] = "scanned" => unscanned[c] = {}
                                  /\ exit[c] \in {"0", "1"} => found[c] = Hits

PreviewIs(c) ==
    /\ pc[c] \in {"off", "idle", "open", "preview", "ok", "failed"}
    /\ pc[c] = "idle" => read[c] = 0
    /\ read[c] <= MaxBytes

ReadInv == ReadsTyped /\ (\A c \in Searches : SearchIs(c)) /\ (\A c \in Previews : PreviewIs(c))

\* Only c was read for.
OnlyReads(c) ==
    /\ \A d \in Calls : d # c => pc'[d] = pc[d]
    /\ \A d \in Searches : d # c => /\ found'[d] = found[d] /\ cut'[d] = cut[d]
                                    /\ unscanned'[d] = unscanned[d] /\ exit'[d] = exit[d]
    /\ \A d \in Searches \cup Previews : d # c => read'[d] = read[d]

LEMMA HitsIsNat ==
    /\ Hits \in Nat
    /\ \A c \in Searches : MaxResults[c] \in Nat \ {0}
    /\ \A n \in Names : HitsIn[n] \in Nat
    /\ Cardinality(MatchesIn(Names \ Names)) = 0
<1>1. Hits \in Nat
    BY MatchesFinite DEF Hits
<1>2. MatchesIn(Names \ Names) = {}
    BY DEF MatchesIn
<1> QED BY <1>1, <1>2, FS_EmptySet, ReadsAssumption

LEMMA LeastIs == \A x, y \in Nat : /\ Least(x, y) \in Nat /\ Least(x, y) <= y
                                   /\ x <= y => Least(x, y) = x
BY DEF Least

LEMMA SearchReads ==
    ASSUME TypeInv, ReadInv, NEW c \in Searches, Search(c)
    PROVE  ReadsTyped' /\ SearchIs(c)' /\ OnlyReads(c)
<1>0. /\ c \in Calls /\ pc \in [Calls -> Places] /\ Searches \subseteq Calls /\ Previews \subseteq Calls
      /\ ReadsTyped /\ SearchIs(c) /\ c \in Searches \cup Previews
    BY CallTyped DEF Calls, ReadInv
<1>1. CASE SearchStart(c)
  <2>1. UNCHANGED <<read, found, cut, exit>> /\ pc[c] = "idle"
      BY <1>1 DEF SearchStart
  <2>2. \/ Go(c, "ripgrep") /\ UNCHANGED unscanned
        \/ Go(c, "failed") /\ UNCHANGED unscanned
        \/ Go(c, "scan") /\ unscanned' = [unscanned EXCEPT ![c] = Names]
      BY <1>1 DEF SearchStart, FallBack
  <2>3. ReadsTyped' /\ OnlyReads(c)
      BY <1>0, <2>1, <2>2 DEF Go, OnlyReads, ReadsTyped
  <2>4. SearchIs(c)'
      BY <1>0, <2>1, <2>2, ReadsAssumption DEF Go, SearchIs, ReadsTyped
  <2> QED BY <2>3, <2>4
<1>2. CASE MatchLine(c)
  <2>1. PICK k \in 1..(Hits - read[c]) :
          /\ read' = [read EXCEPT ![c] = @ + k]
          /\ found' = [found EXCEPT ![c] = Least(@ + k, MaxResults[c])]
          /\ cut' = [cut EXCEPT ![c] = @ \/ found[c] + k > MaxResults[c]]
      BY <1>2 DEF MatchLine
  <2>2. pc[c] = "ripgrep" /\ pc' = pc /\ UNCHANGED <<unscanned, exit>>
      BY <1>2 DEF MatchLine, fileVars
  <2>3. /\ k \in Nat /\ read[c] \in Nat /\ found[c] \in Nat /\ MaxResults[c] \in Nat /\ Hits \in Nat
        /\ read[c] + k <= Hits
      BY <1>0, HitsIsNat DEF ReadsTyped
  <2>4. /\ read'[c] = read[c] + k /\ found'[c] = Least(found[c] + k, MaxResults[c])
        /\ cut'[c] = (cut[c] \/ found[c] + k > MaxResults[c])
      BY <1>0, <2>1 DEF ReadsTyped
  <2>5. found'[c] \in Nat /\ found'[c] <= MaxResults[c]
        /\ (found[c] + k <= MaxResults[c] => found'[c] = found[c] + k)
      BY <2>3, <2>4, LeastIs
  <2>6. OnlyReads(c)
      BY <1>0, <2>1, <2>2 DEF OnlyReads, ReadsTyped
  <2>7. ReadsTyped'
    <3>1. read' \in [Searches \cup Previews -> Nat] /\ found' \in [Searches -> Nat]
        BY <1>0, <2>1, <2>3, <2>4, <2>5 DEF ReadsTyped
    <3>2. cut' \in [Searches -> BOOLEAN]
        BY <1>0, <2>1 DEF ReadsTyped
    <3> QED BY <1>0, <2>2, <3>1, <3>2 DEF ReadsTyped
  <2>8. ~cut'[c] => found'[c] = read'[c]
    <3>1. cut[c] \in BOOLEAN /\ (~cut[c] => found[c] = read[c])
        BY <1>0, <2>2 DEF SearchIs, ReadsTyped
    <3>2. ~cut'[c] => ~cut[c] /\ ~(found[c] + k > MaxResults[c])
        BY <2>4, Zenon
    <3>3. ~(found[c] + k > MaxResults[c]) => found'[c] = found[c] + k
        BY <2>3, <2>5
    <3>4. read'[c] = read[c] + k
        BY <2>4
    <3> QED BY <3>1, <3>2, <3>3, <3>4, Zenon
  <2>9. exit[c] = None /\ exit[c] # "scanned"
      BY <1>0, <2>2, ReadsAssumption DEF SearchIs
  <2>10. SearchIs(c)'
      BY <2>2, <2>3, <2>4, <2>5, <2>8, <2>9 DEF SearchIs
  <2> QED BY <2>6, <2>7, <2>10
<1>3. CASE NotJson(c)
  <2>1. /\ UNCHANGED <<read, found, cut, exit>> /\ pc[c] = "ripgrep"
        /\ Go(c, "scan") /\ unscanned' = [unscanned EXCEPT ![c] = Names]
      BY <1>3 DEF NotJson, FallBack
  <2>2. ReadsTyped' /\ OnlyReads(c)
      BY <1>0, <2>1 DEF Go, OnlyReads, ReadsTyped
  <2>3. SearchIs(c)'
      BY <1>0, <2>1, ReadsAssumption DEF Go, SearchIs, ReadsTyped
  <2> QED BY <2>2, <2>3
<1>4. CASE RipgrepCloses(c)
  <2>1. PICK code \in {"0", "1", "2", "127", "lost"}, complains \in BOOLEAN :
          /\ code = "0" => read[c] = Hits /\ Hits > 0
          /\ code = "1" => Hits = 0
          /\ exit' = [exit EXCEPT ![c] = code]
          /\ IF cut[c] \/ code \in {"0", "1"} \/ (found[c] > 0 /\ ~complains)
             THEN Go(c, "ok") /\ UNCHANGED unscanned
             ELSE \/ (code = "127" \/ complains) /\ FallBack(c)
                  \/ code # "127" /\ Go(c, "failed") /\ UNCHANGED unscanned
      BY <1>4 DEF RipgrepCloses
  <2>2. UNCHANGED <<read, found, cut>> /\ pc[c] = "ripgrep"
      BY <1>4 DEF RipgrepCloses
  <2>3. \/ Go(c, "ok") /\ UNCHANGED unscanned
        \/ code \notin {"0", "1"} /\ Go(c, "failed") /\ UNCHANGED unscanned
        \/ code \notin {"0", "1"} /\ Go(c, "scan") /\ unscanned' = [unscanned EXCEPT ![c] = Names]
      BY <2>1 DEF FallBack
  <2>4. exit'[c] = code /\ code # "scanned" /\ code \in Codes
      BY <1>0, <2>1 DEF ReadsTyped, Codes
  <2>5. ReadsTyped' /\ OnlyReads(c)
      BY <1>0, <2>1, <2>2, <2>3, <2>4 DEF Go, OnlyReads, ReadsTyped
  <2>6. ~cut[c] /\ code \in {"0", "1"} => found[c] = Hits
      BY <1>0, <2>1, <2>2, HitsIsNat DEF SearchIs, ReadsTyped
  <2>7. SearchIs(c)'
      BY <1>0, <2>2, <2>3, <2>4, <2>6 DEF Go, SearchIs, ReadsTyped
  <2> QED BY <2>5, <2>7
<1>5. CASE ScanFile(c)
  <2> DEFINE before == IF exit[c] = "scanned" THEN found[c] ELSE 0
  <2>1. PICK n \in unscanned[c] :
          /\ found' = [found EXCEPT ![c] = Least(before + HitsIn[n], MaxResults[c])]
          /\ cut' = [cut EXCEPT ![c] = before + HitsIn[n] >= MaxResults[c]]
          /\ unscanned' = [unscanned EXCEPT ![c] = @ \ {n}]
      BY <1>5 DEF ScanFile
  <2>2. /\ pc[c] = "scan" /\ pc' = pc /\ read' = read /\ exit' = [exit EXCEPT ![c] = "scanned"]
        /\ exit[c] = "scanned" => ~cut[c]
      BY <1>5 DEF ScanFile, fileVars
  <2>3. /\ before \in Nat /\ n \in Names /\ unscanned[c] \in SUBSET Names
        /\ HitsIn[n] \in Nat /\ MaxResults[c] \in Nat /\ "scanned" \in Codes
      BY <1>0, <2>1, HitsIsNat DEF ReadsTyped, Codes
  <2>4. before = Cardinality(MatchesIn(Names \ unscanned[c]))
    <3>1. CASE exit[c] = "scanned"
        BY <1>0, <2>2, <3>1 DEF SearchIs
    <3>2. CASE exit[c] # "scanned"
        BY <1>0, <2>2, <3>2, HitsIsNat DEF SearchIs
    <3> QED BY <3>1, <3>2
  <2>5. Names \ (unscanned[c] \ {n}) = (Names \ unscanned[c]) \cup {n}
      BY <2>1, <2>3
  <2>6. before + HitsIn[n] = Cardinality(MatchesIn(Names \ (unscanned[c] \ {n})))
    <3>1. n \in Names \ (Names \ unscanned[c]) /\ (Names \ unscanned[c]) \in SUBSET Names
        BY <2>1, <2>3
    <3>2. Cardinality(MatchesIn((Names \ unscanned[c]) \cup {n}))
            = Cardinality(MatchesIn(Names \ unscanned[c])) + HitsIn[n]
        BY <3>1, OneMoreFile
    <3> QED BY <2>4, <2>5, <3>2
  <2> HIDE DEF before
  <2>7. /\ found'[c] = Least(before + HitsIn[n], MaxResults[c])
        /\ cut'[c] = (before + HitsIn[n] >= MaxResults[c])
        /\ unscanned'[c] = unscanned[c] \ {n} /\ exit'[c] = "scanned"
      BY <1>0, <2>1, <2>2 DEF ReadsTyped
  <2>8. /\ found'[c] \in Nat /\ found'[c] <= MaxResults[c]
        /\ before + HitsIn[n] <= MaxResults[c] => found'[c] = before + HitsIn[n]
    <3>1. before + HitsIn[n] \in Nat /\ MaxResults[c] \in Nat
        BY <2>3
    <3>2. found'[c] = Least(before + HitsIn[n], MaxResults[c])
        BY <2>7
    <3> QED BY <3>1, <3>2, LeastIs
  <2>9. OnlyReads(c)
      BY <1>0, <2>1, <2>2 DEF OnlyReads, ReadsTyped
  <2>10. ReadsTyped'
    <3>1. found' \in [Searches -> Nat] /\ unscanned' \in [Searches -> SUBSET Names]
        BY <1>0, <2>1, <2>3, <2>7, <2>8 DEF ReadsTyped
    <3>2. cut' \in [Searches -> BOOLEAN]
        BY <1>0, <2>1 DEF ReadsTyped
    <3> QED BY <1>0, <2>2, <2>3, <3>1, <3>2 DEF ReadsTyped
  <2>11. ~cut'[c] => found'[c] = Cardinality(MatchesIn(Names \ unscanned'[c]))
    <3>1. ~cut'[c] => before + HitsIn[n] <= MaxResults[c]
      <4>1. ~(before + HitsIn[n] >= MaxResults[c]) => before + HitsIn[n] <= MaxResults[c]
          BY <2>3
      <4> QED BY <2>7, <4>1, Zenon
    <3>2. unscanned'[c] = unscanned[c] \ {n}
        BY <2>7
    <3> QED BY <2>6, <2>8, <3>1, <3>2, Zenon
  <2>12. SearchIs(c)'
      BY <2>2, <2>7, <2>8, <2>11 DEF SearchIs
  <2> QED BY <2>9, <2>10, <2>12
<1>6. CASE ScanEnds(c)
  <2>1. UNCHANGED <<read, found, cut, unscanned, exit>> /\ pc[c] = "scan"
      BY <1>6 DEF ScanEnds, readVars
  <2>2. Go(c, "failed") \/ (Go(c, "ok") /\ (cut[c] \/ unscanned[c] = {}))
      BY <1>6 DEF ScanEnds
  <2>3. ReadsTyped' /\ OnlyReads(c)
      BY <1>0, <2>1, <2>2 DEF Go, OnlyReads, ReadsTyped
  <2>4. SearchIs(c)'
      BY <1>0, <2>1, <2>2 DEF Go, SearchIs, ReadsTyped
  <2> QED BY <2>3, <2>4
<1> QED BY <1>1, <1>2, <1>3, <1>4, <1>5, <1>6 DEF Search

LEMMA PreviewReads ==
    ASSUME TypeInv, ReadInv, NEW c \in Previews, Preview(c)
    PROVE  ReadsTyped' /\ PreviewIs(c)' /\ OnlyReads(c)
<1>0. /\ c \in Calls /\ pc \in [Calls -> Places] /\ Searches \subseteq Calls /\ Previews \subseteq Calls
      /\ ReadsTyped /\ PreviewIs(c) /\ c \in Searches \cup Previews /\ MaxBytes \in Nat
      /\ Target[c] \in Names /\ fs \in Dirs
    BY CallTyped, KindsDiffer, FilesAssumption, PathsDiffer, ReadsAssumption, TreeIsDir DEF Calls, ReadInv
<1>1. CASE PreviewStat(c)
  <2> DEFINE size == Len(Content(fs, Final(Target[c])))
  <2>1. /\ UNCHANGED <<found, cut, unscanned, exit>> /\ pc[c] = "idle"
        /\ \/ UNCHANGED read /\ (Go(c, "open") \/ Go(c, "failed"))
           \/ /\ Has(fs, Final(Target[c])) /\ size <= MaxBytes
              /\ Go(c, "ok") /\ read' = [read EXCEPT ![c] = size]
      BY <1>1 DEF PreviewStat
  <2>2. Has(fs, Final(Target[c])) => size \in Nat
      BY <1>0, PathsDiffer DEF Has, Content, Dirs
  <2> HIDE DEF size
  <2>3. ReadsTyped' /\ OnlyReads(c)
      BY <1>0, <2>1, <2>2 DEF Go, OnlyReads, ReadsTyped
  <2>4. PreviewIs(c)'
      BY <1>0, <2>1, <2>2 DEF Go, PreviewIs, ReadsTyped
  <2> QED BY <2>3, <2>4
<1>2. CASE PreviewOpen(c) \/ PreviewEnds(c)
  <2>1. /\ UNCHANGED readVars /\ pc[c] \in {"open", "preview"}
        /\ Go(c, "preview") \/ Go(c, "failed") \/ Go(c, "ok")
      BY <1>2 DEF PreviewOpen, PreviewEnds
  <2> QED BY <1>0, <2>1 DEF Go, PreviewIs, ReadsTyped, OnlyReads, readVars
<1>3. CASE PreviewChunk(c)
  <2>1. /\ UNCHANGED <<found, cut, unscanned, exit>> /\ pc[c] = "preview"
        /\ \/ UNCHANGED read /\ Go(c, "failed")
           \/ read[c] + 1 <= MaxBytes /\ read' = [read EXCEPT ![c] = @ + 1] /\ UNCHANGED pc
      BY <1>0, <1>3 DEF PreviewChunk, ReadsTyped
  <2>2. read[c] \in Nat
      BY <1>0 DEF ReadsTyped
  <2> QED BY <1>0, <2>1, <2>2 DEF Go, PreviewIs, ReadsTyped, OnlyReads
<1> QED BY <1>1, <1>2, <1>3 DEF Preview

LEMMA ReadInvInit == Init => ReadInv
<1> SUFFICES ASSUME Init PROVE ReadInv
    OBVIOUS
<1>1. \A c \in Searches \cup Previews : c \in Calls /\ pc[c] \in {"idle", "off"}
    BY DEF Init, FilesInit, Calls
<1>2. ReadsTyped
    BY DEF Init, ReadsInit, ReadsTyped, Codes
<1>3. \A c \in Searches : SearchIs(c)
    BY <1>1, HitsIsNat, ReadsAssumption DEF Init, ReadsInit, SearchIs
<1>4. \A c \in Previews : PreviewIs(c)
    BY <1>1, ReadsAssumption DEF Init, ReadsInit, PreviewIs
<1> QED BY <1>2, <1>3, <1>4 DEF ReadInv

\* What is no search and no preview leaves them alone.
LEMMA OthersRead ==
    ASSUME TypeInv, ReadInv, UNCHANGED readVars,
           \A c \in Searches \cup Previews : pc'[c] = pc[c]
    PROVE  ReadInv'
BY DEF ReadInv, ReadsTyped, SearchIs, PreviewIs, readVars

LEMMA ReadInvNext == TypeInv /\ ReadInv /\ [Next]_vars => ReadInv'
<1> SUFFICES ASSUME TypeInv, ReadInv, [Next]_vars PROVE ReadInv'
    OBVIOUS
<1>0. pc \in [Calls -> Places] /\ \A c \in Searches \cup Previews : c \in Calls /\ pc[c] # "applied"
  <2>1. \A c \in Searches : pc[c] # "applied"
      BY DEF ReadInv, SearchIs
  <2>2. \A c \in Previews : pc[c] # "applied"
      BY DEF ReadInv, PreviewIs
  <2> QED BY <2>1, <2>2 DEF TypeInv, TypeOK, Calls
<1>1. CASE UNCHANGED vars
    BY <1>1, OthersRead DEF vars, fileVars
<1>2. ASSUME EntryNext, UNCHANGED readVars PROVE ReadInv'
  <2>1. CASE Connect \/ SftpReady \/ Disconnect \/ CacheExpires
      BY <1>2, <2>1, OthersRead DEF Connect, SftpReady, Disconnect, CacheExpires
  <2>2. ASSUME NEW c \in Calls, Moves(c), c \notin Searches \cup Previews PROVE ReadInv'
    <3>1. \A d \in Searches \cup Previews : pc'[d] = pc[d]
        BY <1>0, <2>2, MovesTyped
    <3> QED BY <1>2, <3>1, OthersRead
  <2>3. ASSUME NEW c \in Saves, Save(c) PROVE ReadInv'
      BY <2>2, <2>3, SaveMoves, KindsDiffer DEF Calls
  <2>4. ASSUME NEW c \in Creates, CreateEntry(c) PROVE ReadInv'
      BY <2>2, <2>4, CreateMoves, KindsDiffer DEF Calls
  <2>5. ASSUME NEW c \in Renames, RenameEntry(c) PROVE ReadInv'
      BY <2>2, <2>5, RenameMoves, KindsDiffer DEF Calls
  <2>6. ASSUME NEW c \in Deletes, DeleteEntry(c) PROVE ReadInv'
      BY <2>2, <2>6, DeleteMoves, KindsDiffer DEF Calls
  <2>7. ASSUME NEW c \in Lists, List(c) PROVE ReadInv'
      BY <2>2, <2>7, ListMoves, KindsDiffer DEF Calls
  <2>8. ASSUME NEW c \in Calls, Invalidate(c) PROVE ReadInv'
      BY <1>0, <2>2, <2>8, InvalidateMoves DEF Invalidate
  <2> QED BY <1>2, <2>1, <2>3, <2>4, <2>5, <2>6, <2>7, <2>8 DEF EntryNext
<1>3. ASSUME ReadsNext PROVE ReadInv'
  <2>1. ASSUME NEW c \in Searches, Search(c) PROVE ReadInv'
    <3>1. ReadsTyped' /\ SearchIs(c)' /\ OnlyReads(c)
        BY <2>1, SearchReads
    <3>2. ASSUME NEW d \in Searches PROVE SearchIs(d)'
      <4>1. SearchIs(d) /\ d \in Calls /\ d \in Searches \cup Previews
          BY <1>0 DEF ReadInv
      <4>2. CASE d # c
          BY <3>1, <4>1, <4>2 DEF OnlyReads, SearchIs
      <4> QED BY <3>1, <4>2
    <3>3. ASSUME NEW d \in Previews PROVE PreviewIs(d)'
      <4>1. PreviewIs(d) /\ d \in Calls /\ d \in Searches \cup Previews /\ d # c
          BY <1>0, KindsDiffer DEF ReadInv
      <4> QED BY <3>1, <4>1 DEF OnlyReads, PreviewIs
    <3> QED BY <3>1, <3>2, <3>3 DEF ReadInv
  <2>2. ASSUME NEW c \in Previews, Preview(c) PROVE ReadInv'
    <3>1. ReadsTyped' /\ PreviewIs(c)' /\ OnlyReads(c)
        BY <2>2, PreviewReads
    <3>2. ASSUME NEW d \in Searches PROVE SearchIs(d)'
      <4>1. SearchIs(d) /\ d \in Calls /\ d \in Searches \cup Previews /\ d # c
          BY <1>0, KindsDiffer DEF ReadInv
      <4> QED BY <3>1, <4>1 DEF OnlyReads, SearchIs
    <3>3. ASSUME NEW d \in Previews PROVE PreviewIs(d)'
      <4>1. PreviewIs(d) /\ d \in Calls /\ d \in Searches \cup Previews
          BY <1>0 DEF ReadInv
      <4>2. CASE d # c
          BY <3>1, <4>1, <4>2 DEF OnlyReads, PreviewIs
      <4> QED BY <3>1, <4>2
    <3> QED BY <3>1, <3>2, <3>3 DEF ReadInv
  <2> QED BY <1>3, <2>1, <2>2 DEF ReadsNext
<1>4. ASSUME TransfersNext, UNCHANGED readVars PROVE ReadInv'
  <2>2. ASSUME NEW t \in Transfers, Moves(t) PROVE ReadInv'
    <3>1. t \in Calls /\ t \notin Searches \cup Previews
        BY KindsDiffer DEF Calls, Transfers
    <3>2. \A d \in Searches \cup Previews : pc'[d] = pc[d]
        BY <1>0, <2>2, <3>1, MovesTyped
    <3> QED BY <1>4, <3>2, OthersRead
  <2>3. ASSUME NEW t \in Transfers,
               Begin(t) \/ NextFile(t) \/ NoMoreFiles(t) \/ CancelFileOperation(t) \/ StreamFails(t)
        PROVE ReadInv'
      BY <2>2, <2>3, BothWaysMove
  <2>4. ASSUME NEW t \in Uploads, Upload(t) PROVE ReadInv'
      BY <2>2, <2>4, UploadMoves DEF Transfers
  <2>5. ASSUME NEW t \in Downloads, Download(t) PROVE ReadInv'
      BY <2>2, <2>5, DownloadMoves DEF Transfers
  <2>6. ASSUME NEW n \in Names, EditSource(n) PROVE ReadInv'
      BY <1>4, <2>6, OthersRead DEF EditSource, fileVars
  <2> QED BY <1>4, <2>3, <2>4, <2>5, <2>6 DEF TransfersNext
<1> QED BY <1>1, <1>2, <1>3, <1>4 DEF Next, Step

(* A search that ended well never reports more than it was asked for, and,  *)
(* unless it says it was cut short, reports every match there is; a preview *)
(* stays within its limit.  For any files, limits and calls.                *)
THEOREM ReadsStayHonest == Spec => []ReadsAreHonest
<1>1. ReadInv => ReadsAreHonest
  <2> SUFFICES ASSUME ReadInv PROVE ReadsAreHonest
      OBVIOUS
  <2>1. ASSUME NEW c \in Searches, pc[c] = "ok", ~cut[c], exit[c] = "scanned" PROVE found[c] = Hits
    <3>1. unscanned[c] = {} /\ found[c] = Cardinality(MatchesIn(Names \ unscanned[c]))
        BY <2>1 DEF ReadInv, SearchIs
    <3>2. Names \ unscanned[c] = Names
        BY <3>1
    <3> QED BY <3>1, <3>2 DEF Hits
  <2> QED BY <2>1 DEF ReadInv, SearchIs, PreviewIs, ReadsAreHonest
<1> QED BY InitTyped, TypeInvNext, ReadInvInit, ReadInvNext, <1>1, PTL DEF Spec
=============================================================================
