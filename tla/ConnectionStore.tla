--------------------------- MODULE ConnectionStore ---------------------------
(***************************************************************************)
(* SavedConnectionStore (saved-connections.ts): the saved connections and  *)
(* their tunnels, in one file all windows share.  Every mutation waits for *)
(* the one before it, reads the file, and writes it whole when it changed  *)
(* something.  A write truncates the file first: between its two steps the *)
(* file is torn, and it stays torn when the write fails or the program     *)
(* ends there.  Entries are kept by recency, most recent first.            *)
(***************************************************************************)
EXTENDS Integers, Sequences, FiniteSets, SequencesExt

CONSTANTS
    Mutations,     \* calls that change the store
    Op,            \* what each does
    StoreMixes,    \* bound: the calls of one behaviour
    Crashes,       \* bound: ends of the program in one behaviour
    MaxSaved       \* MAX_SAVED_CONNECTIONS

ASSUME StoreAssumption == Crashes \in Nat /\ MaxSaved \in Nat /\ StoreMixes \subseteq SUBSET Mutations

VARIABLES
    disk,      \* the file's connections
    torn,      \* the file is half written
    step,      \* each call: "off", "new", "queued", "read", "writing", "ok", "failed"
    queue,     \* mutationQueue: the calls that have not settled, in order
    held,      \* what each call has read
    crashes,   \* what is left of them
    ideal      \* history: the calls that wrote, each applied to the one before

storeVars == <<disk, torn, step, queue, held, crashes, ideal>>

-----------------------------------------------------------------------------
(* Entries and what the mutations make of them.                             *)
HasHost(data, h) == \E n \in DOMAIN data : data[n].id = h

EntryOf(data, h) == data[CHOOSE n \in DOMAIN data : data[n].id = h]

Without(data, h) == SelectSeq(data, LAMBDA e : e.id # h)

FirstSaved(data) == SubSeq(data, 1, IF Len(data) < MaxSaved THEN Len(data) ELSE MaxSaved)

\* createStoredConnection: a known host keeps its name, workspaces, tunnels.
Fresh(h) == [id |-> h, name |-> h, paths |-> <<>>, tunnels |-> {}]

Stored(data, h) == IF HasHost(data, h) THEN EntryOf(data, h) ELSE Fresh(h)

Each(data, h, Change(_)) == [n \in DOMAIN data |-> IF data[n].id = h THEN Change(data[n]) ELSE data[n]]

\* Of the workspace paths the latest comes first and none is there twice.
Visited(e, w) == [e EXCEPT !.paths = <<w>> \o SelectSeq(@, LAMBDA x : x # w)]

Imported(data, hs) ==
    LET new == SelectSeq(hs, LAMBDA h : ~HasHost(data, h)) IN
    [n \in DOMAIN new |-> Fresh(new[n])] \o data

\* What mutation o makes of the connections it read.
Effect(o, data) ==
    CASE o.op = "save" -> FirstSaved(<<Stored(data, o.host)>> \o Without(data, o.host))
      [] o.op = "import" -> Imported(data, o.hosts)
      [] o.op = "visit" -> Each(data, o.host, LAMBDA e : Visited(e, o.path))
      [] o.op = "rename" -> Each(data, o.host, LAMBDA e : [e EXCEPT !.name = o.name])
      [] o.op = "saveTunnel" -> Each(data, o.host, LAMBDA e : [e EXCEPT !.tunnels = @ \cup {o.tunnel}])
      [] o.op = "removeTunnel" -> Each(data, o.host, LAMBDA e : [e EXCEPT !.tunnels = @ \ {o.tunnel}])
      [] o.op = "remove" -> Without(data, o.host)

\* A tunnel of a connection that is not there is an error.
Refused(o, data) == o.op \in {"saveTunnel", "removeTunnel"} /\ ~HasHost(data, o.host)

\* Some mutations write even when they change nothing.
Writes(o, data) ==
    o.op \in {"save", "saveTunnel", "removeTunnel"} \/ Effect(o, data) # data

\* readData: a file that does not parse counts as empty, a long one is cut.
Contents(d, broken) == IF broken THEN <<>> ELSE FirstSaved(d)

-----------------------------------------------------------------------------
StoreInit ==
    /\ disk = <<>> /\ torn = FALSE
    /\ step \in {[c \in Mutations |-> IF c \in m THEN "new" ELSE "off"] : m \in StoreMixes}
    /\ queue = <<>>
    /\ held = [c \in Mutations |-> <<>>]
    /\ crashes = Crashes
    /\ ideal = <<>>

At(c, s) == step' = [step EXCEPT ![c] = s]

\* runMutation chains the call behind the queue.
Queue(c) ==
    /\ step[c] = "new"
    /\ At(c, "queued") /\ queue' = Append(queue, c)
    /\ UNCHANGED <<disk, torn, held, crashes, ideal>>

\* As runMutation would be if a call did not wait for its turn.
Anyone(c) == c \in ToSet(queue)

\* The promise the call was chained to has settled.
Turn(c) == queue # <<>> /\ Head(queue) = c

ReadData(c) ==
    /\ step[c] = "queued" /\ Turn(c)
    /\ held' = [held EXCEPT ![c] = Contents(disk, torn)]
    /\ At(c, "read")
    /\ UNCHANGED <<disk, torn, queue, crashes, ideal>>

Leaves == queue' = Tail(queue)

\* The call ends without a write: refused, nothing to change, or no folder.
Ends(c) ==
    /\ step[c] = "read" /\ Turn(c)
    /\ \/ Refused(Op[c], held[c]) /\ At(c, "failed")
       \/ ~Refused(Op[c], held[c]) /\ ~Writes(Op[c], held[c]) /\ At(c, "ok")
       \/ ~Refused(Op[c], held[c]) /\ Writes(Op[c], held[c]) /\ At(c, "failed")
    /\ Leaves
    /\ UNCHANGED <<disk, torn, held, crashes, ideal>>

WriteBegins(c) ==
    /\ step[c] = "read" /\ Turn(c)
    /\ ~Refused(Op[c], held[c]) /\ Writes(Op[c], held[c])
    /\ torn' = TRUE /\ At(c, "writing")
    /\ UNCHANGED <<disk, queue, held, crashes, ideal>>

WriteEnds(c) ==
    /\ step[c] = "writing" /\ Turn(c)
    /\ torn' = FALSE
    /\ disk' = Effect(Op[c], held[c])
    /\ ideal' = Effect(Op[c], FirstSaved(ideal))
    /\ At(c, "ok") /\ Leaves
    /\ UNCHANGED <<held, crashes>>

\* The disk is full, or the program ends, and the file stays as it is; every
\* later reader takes it for empty.
WriteFails(c) ==
    /\ step[c] = "writing" /\ Turn(c)
    /\ At(c, "failed") /\ Leaves
    /\ ideal' = <<>>
    /\ UNCHANGED <<disk, torn, held, crashes>>

\* The program ends and is started again; its calls are gone.
StoreCrash ==
    /\ crashes > 0 /\ crashes' = crashes - 1
    /\ queue # <<>>     \* without calls it would change nothing
    /\ step' = [c \in Mutations |-> IF step[c] \in {"queued", "read", "writing"} THEN "failed" ELSE step[c]]
    /\ queue' = <<>>
    /\ ideal' = IF torn THEN <<>> ELSE ideal
    /\ UNCHANGED <<disk, torn, held>>

StoreNext ==
    \/ \E c \in Mutations : Queue(c) \/ ReadData(c) \/ Ends(c) \/ WriteBegins(c) \/ WriteEnds(c) \/ WriteFails(c)
    \/ StoreCrash

StoreSpec == StoreInit /\ [][StoreNext]_storeVars

-----------------------------------------------------------------------------
StoreTypeOK ==
    /\ torn \in BOOLEAN /\ crashes \in 0..Crashes
    /\ step \in [Mutations -> {"off", "new", "queued", "read", "writing", "ok", "failed"}]
    /\ queue \in Seq(Mutations) /\ DOMAIN held = Mutations

(* The file holds what the mutations that wrote would have made of it one   *)
(* after the other, in the order their writes ended: none works on          *)
(* connections another has changed since, from whichever windows they came, *)
(* across failures and restarts.  A write cut short loses all before it.    *)
StoreIsSerial == ~torn => disk = ideal
==============================================================================
