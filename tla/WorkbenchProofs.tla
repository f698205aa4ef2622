--------------------------- MODULE WorkbenchProofs ---------------------------
(***************************************************************************)
(* For every set of mutations, whatever each makes of the connections, and *)
(* every number of restarts: the store's file holds what its writers would *)
(* have made one after the other.  Effect stays unexpanded: the argument   *)
(* is about the turns, not about what is written.  The window's tabs,      *)
(* documents and terminals beside the store change nothing of it.          *)
(* Of the tabs, for any files, versions and connections: what one shows as *)
(* saved is what was last stored at its path (SavedIsStored).              *)
(* Of the terminals, for any number of them and any length of the log: a   *)
(* pane shows its output without a gap, and none is lost (TerminalsShown). *)
(* Of the documents, for any paths, connections and restarts: the language *)
(* server gets what the window has of each (EditsReachServer).             *)
(***************************************************************************)
EXTENDS Workbench, SequenceTheorems, FiniteSetTheorems, WellFoundedInduction, TLAPS

\* Only the call whose turn it is has read anything.
OnlyHeadActs ==
    \A c \in Mutations : step[c] \in {"read", "writing"} => queue # <<>> /\ Head(queue) = c

\* What a call read is still what the file holds, or held before its write.
HeldIsFresh ==
    \A c \in Mutations :
        /\ step[c] = "read" => held[c] = Contents(disk, torn)
        /\ step[c] = "writing" => torn /\ held[c] = FirstSaved(ideal)

\* A half written file nobody is writing has lost everything.
TornIsLost == torn /\ (\A c \in Mutations : step[c] # "writing") => ideal = <<>>

StoreInv == StoreTypeOK /\ OnlyHeadActs /\ HeldIsFresh /\ TornIsLost /\ StoreIsSerial

\* A file without connections has none left out when it is read.
LEMMA NothingSaved == FirstSaved(<<>>) = <<>>
  BY StoreAssumption, SMT DEF FirstSaved

\* When the call whose turn it is ends, no call has read anything.
LEMMA NobodyActs ==
  ASSUME StoreInv, NEW c \in Mutations, Turn(c), NEW s \in {"ok", "failed"}, At(c, s)
  PROVE  /\ step' \in [Mutations -> {"off", "new", "queued", "read", "writing", "ok", "failed"}]
         /\ \A d \in Mutations : step'[d] \notin {"read", "writing"}
  BY DEF StoreInv, StoreTypeOK, OnlyHeadActs, Turn, At

\* The queue stays a sequence of calls.
LEMMA TailOfQueue ==
  ASSUME StoreInv, NEW c \in Mutations, Turn(c), Leaves
  PROVE  queue' \in Seq(Mutations)
  BY DEF StoreInv, StoreTypeOK, Turn, Leaves

LEMMA StoreInvInit == StoreInit => StoreInv
  <1>1. SUFFICES ASSUME StoreInit PROVE StoreInv
    OBVIOUS
  <1>2. PICK m \in StoreMixes : step = [c \in Mutations |-> IF c \in m THEN "new" ELSE "off"]
    BY <1>1 DEF StoreInit
  <1>3. StoreTypeOK
    <2>1. step \in [Mutations -> {"off", "new", "queued", "read", "writing", "ok", "failed"}]
      BY <1>2
    <2>2. crashes \in 0..Crashes
      BY <1>1, StoreAssumption DEF StoreInit
    <2>3. queue \in Seq(Mutations) /\ torn \in BOOLEAN
      <3>1. queue = <<>> /\ torn = FALSE
        BY <1>1 DEF StoreInit
      <3>2. <<>> \in Seq(Mutations)
        OBVIOUS
      <3>3. QED
        BY <3>1, <3>2
    <2>4. DOMAIN held = Mutations
      <3>1. held = [c \in Mutations |-> <<>>]
        BY <1>1 DEF StoreInit
      <3>2. QED
        BY <3>1
    <2>5. QED
      BY <2>1, <2>2, <2>3, <2>4 DEF StoreTypeOK
  <1>4. OnlyHeadActs /\ HeldIsFresh
    BY <1>2 DEF OnlyHeadActs, HeldIsFresh
  <1>5. QED
    BY <1>1, <1>3, <1>4 DEF StoreInv, StoreInit, TornIsLost, StoreIsSerial

LEMMA StoreInvNext == StoreInv /\ [StoreNext]_storeVars => StoreInv'
  <1> SUFFICES ASSUME StoreInv, [StoreNext]_storeVars PROVE StoreInv'
    OBVIOUS
  <1>1. ASSUME NEW c \in Mutations, Queue(c) PROVE StoreInv'
    <2>1. StoreTypeOK'
      BY <1>1 DEF Queue, At, StoreInv, StoreTypeOK
    <2>2. OnlyHeadActs'
      <3>1. SUFFICES ASSUME NEW d \in Mutations, step'[d] \in {"read", "writing"}
                     PROVE  queue' # <<>> /\ Head(queue') = d
        BY DEF OnlyHeadActs
      <3>2. queue # <<>> /\ Head(queue) = d
        BY <1>1, <3>1 DEF Queue, At, StoreInv, StoreTypeOK, OnlyHeadActs
      <3>3. QED
        BY <1>1, <3>2, SMT DEF Queue, StoreInv, StoreTypeOK
    <2>3. HeldIsFresh' /\ TornIsLost' /\ StoreIsSerial'
      BY <1>1 DEF Queue, At, StoreInv, StoreTypeOK, HeldIsFresh, TornIsLost, StoreIsSerial, Contents, FirstSaved
    <2>4. QED
      BY <2>1, <2>2, <2>3 DEF StoreInv
  <1>2. ASSUME NEW c \in Mutations, ReadData(c) PROVE StoreInv'
    <2>1. StoreTypeOK'
      BY <1>2 DEF ReadData, At, StoreInv, StoreTypeOK
    <2>2. OnlyHeadActs'
      BY <1>2 DEF ReadData, Turn, At, StoreInv, StoreTypeOK, OnlyHeadActs
    <2>3. HeldIsFresh'
      <3>1. SUFFICES ASSUME NEW d \in Mutations
                     PROVE  /\ step'[d] = "read" => held'[d] = Contents(disk, torn)
                            /\ step'[d] = "writing" => torn /\ held'[d] = FirstSaved(ideal)
        BY <1>2 DEF ReadData, HeldIsFresh, Contents, FirstSaved
      <3>2. CASE d = c
        BY <1>2, <3>2 DEF ReadData, At, StoreInv, StoreTypeOK
      <3>3. CASE d # c
        BY <1>2, <3>3 DEF ReadData, At, StoreInv, StoreTypeOK, HeldIsFresh
      <3>4. QED
        BY <3>2, <3>3
    <2>4. TornIsLost' /\ StoreIsSerial'
      BY <1>2 DEF ReadData, At, StoreInv, StoreTypeOK, TornIsLost, StoreIsSerial
    <2>5. QED
      BY <2>1, <2>2, <2>3, <2>4 DEF StoreInv
  <1>3. ASSUME NEW c \in Mutations, Ends(c) PROVE StoreInv'
    <2>1. PICK s \in {"ok", "failed"} : At(c, s)
      BY <1>3 DEF Ends
    <2>2. /\ step' \in [Mutations -> {"off", "new", "queued", "read", "writing", "ok", "failed"}]
          /\ \A d \in Mutations : step'[d] \notin {"read", "writing"}
      BY <1>3, <2>1, NobodyActs DEF Ends
    <2>3. queue' \in Seq(Mutations)
      BY <1>3, TailOfQueue DEF Ends
    <2>4. \A d \in Mutations : step[d] # "writing"
      BY <1>3 DEF Ends, Turn, StoreInv, OnlyHeadActs
    <2>5. QED
      BY <1>3, <2>2, <2>3, <2>4
      DEF Ends, StoreInv, StoreTypeOK, OnlyHeadActs, HeldIsFresh, TornIsLost, StoreIsSerial
  <1>4. ASSUME NEW c \in Mutations, WriteBegins(c) PROVE StoreInv'
    <2>1. StoreTypeOK' /\ OnlyHeadActs'
      BY <1>4 DEF WriteBegins, Turn, At, StoreInv, StoreTypeOK, OnlyHeadActs
    <2>2. \A d \in Mutations : d # c => step[d] \notin {"read", "writing"}
      BY <1>4 DEF WriteBegins, Turn, StoreInv, OnlyHeadActs
    <2>3. step[c] = "read" /\ held[c] = Contents(disk, torn)
      BY <1>4 DEF WriteBegins, StoreInv, HeldIsFresh
    <2>4. held[c] = FirstSaved(ideal)
      <3>1. CASE torn
        BY <2>2, <2>3, <3>1, NothingSaved DEF Contents, StoreInv, TornIsLost
      <3>2. CASE ~torn
        BY <2>3, <3>2 DEF Contents, StoreInv, StoreIsSerial
      <3>3. QED
        BY <3>1, <3>2
    <2>5. HeldIsFresh'
      <3>1. SUFFICES ASSUME NEW d \in Mutations
                     PROVE  /\ step'[d] # "read"
                            /\ step'[d] = "writing" => held[d] = FirstSaved(ideal)
        BY <1>4 DEF WriteBegins, HeldIsFresh, FirstSaved
      <3>2. QED
        BY <1>4, <2>2, <2>4 DEF WriteBegins, At, StoreInv, StoreTypeOK
    <2>6. TornIsLost' /\ StoreIsSerial'
      <3>1. step'[c] = "writing"
        BY <1>4 DEF WriteBegins, At, StoreInv, StoreTypeOK
      <3>2. QED
        BY <1>4, <3>1 DEF WriteBegins, TornIsLost, StoreIsSerial
    <2>7. QED
      BY <2>1, <2>5, <2>6 DEF StoreInv
  <1>5. ASSUME NEW c \in Mutations, WriteEnds(c) PROVE StoreInv'
    <2>1. /\ step' \in [Mutations -> {"off", "new", "queued", "read", "writing", "ok", "failed"}]
          /\ \A d \in Mutations : step'[d] \notin {"read", "writing"}
      BY <1>5, NobodyActs DEF WriteEnds
    <2>2. queue' \in Seq(Mutations)
      BY <1>5, TailOfQueue DEF WriteEnds
    <2>3. disk' = ideal'
      BY <1>5 DEF WriteEnds, StoreInv, HeldIsFresh
    <2>4. QED
      BY <1>5, <2>1, <2>2, <2>3
      DEF WriteEnds, StoreInv, StoreTypeOK, OnlyHeadActs, HeldIsFresh, TornIsLost, StoreIsSerial
  <1>6. ASSUME NEW c \in Mutations, WriteFails(c) PROVE StoreInv'
    <2>1. /\ step' \in [Mutations -> {"off", "new", "queued", "read", "writing", "ok", "failed"}]
          /\ \A d \in Mutations : step'[d] \notin {"read", "writing"}
      BY <1>6, NobodyActs DEF WriteFails
    <2>2. queue' \in Seq(Mutations)
      BY <1>6, TailOfQueue DEF WriteFails
    <2>3. torn
      BY <1>6 DEF WriteFails, StoreInv, HeldIsFresh
    <2>4. QED
      BY <1>6, <2>1, <2>2, <2>3
      DEF WriteFails, StoreInv, StoreTypeOK, OnlyHeadActs, HeldIsFresh, TornIsLost, StoreIsSerial
  <1>7. ASSUME StoreCrash PROVE StoreInv'
    <2>1. /\ step' \in [Mutations -> {"off", "new", "queued", "read", "writing", "ok", "failed"}]
          /\ \A d \in Mutations : step'[d] \notin {"read", "writing"}
      BY <1>7 DEF StoreCrash, StoreInv, StoreTypeOK
    <2>2. queue' \in Seq(Mutations) /\ crashes' \in 0..Crashes
      BY <1>7, StoreAssumption DEF StoreCrash, StoreInv, StoreTypeOK
    <2>3. QED
      BY <1>7, <2>1, <2>2
      DEF StoreCrash, StoreInv, StoreTypeOK, OnlyHeadActs, HeldIsFresh, TornIsLost, StoreIsSerial
  <1>8. CASE UNCHANGED storeVars
    BY <1>8 DEF storeVars, StoreInv, StoreTypeOK, OnlyHeadActs, HeldIsFresh, TornIsLost, StoreIsSerial,
       Contents, FirstSaved
  <1>9. QED
    BY <1>1, <1>2, <1>3, <1>4, <1>5, <1>6, <1>7, <1>8 DEF StoreNext

(* The step and the queue of every call are of their types in every state.  *)
THEOREM StoreTypes == StoreSpec => []StoreTypeOK
  <1>1. StoreInv => StoreTypeOK
    BY DEF StoreInv
  <1>2. QED
    BY <1>1, StoreInvInit, StoreInvNext, PTL DEF StoreSpec

(* runMutation makes the mutations serial: whatever is in the queue, fails  *)
(* or is cut short, a file that is whole holds what the calls that wrote    *)
(* make of each other's connections in the order they wrote.                *)
THEOREM StoreSerial == StoreSpec => []StoreIsSerial
  <1>1. StoreInv => StoreIsSerial
    BY DEF StoreInv
  <1>2. QED
    BY <1>1, StoreInvInit, StoreInvNext, PTL DEF StoreSpec

-----------------------------------------------------------------------------
(* The window beside the store.                                            *)

\* The workbench implements the store.
THEOREM WorkbenchImplementsStore == Spec => StoreSpec
<1>1. Init => StoreInit
    BY DEF Init
<1>2. [Next]_vars => [StoreNext]_storeVars
    <2> SUFFICES ASSUME [Next]_vars
                 PROVE  [StoreNext]_storeVars
        OBVIOUS
    <2>1. CASE UNCHANGED vars
        BY <2>1 DEF vars, storeVars
    <2>2. CASE Next
        BY <2>2 DEF Next
    <2> QED BY <2>1, <2>2
<1> QED BY <1>1, <1>2, PTL DEF Spec, StoreSpec

(* Whatever the windows do, the store's file holds what its mutations would *)
(* have made of it in turn (StoreIsSerial): a connect that awaits it, and   *)
(* gestures that fall between its steps, included.                          *)
THEOREM WorkbenchStoreSerial == Spec => []StoreIsSerial
    BY WorkbenchImplementsStore, StoreSerial, PTL

-----------------------------------------------------------------------------
(* The tabs at some places: each is the tab of one of the places.           *)

Ascending(f) == \A m, n \in DOMAIN f : m < n => f[m] < f[n]

Ordered(S) == \E f \in [1..Cardinality(S) -> S] : Ascending(f)

LEMMA OneMorePlace ==
    ASSUME NEW k \in Nat, NEW S \in SUBSET (1..k), Ordered(S)
    PROVE  Ordered(S \cup {k + 1})
<1> DEFINE T == S \cup {k + 1}
<1>1. PICK f \in [1..Cardinality(S) -> S] : Ascending(f)
    BY DEF Ordered
<1>2. IsFiniteSet(1..k)
    BY FS_Interval
<1>3. IsFiniteSet(S)
    BY <1>2, FS_Subset
<1>4. Cardinality(S) \in Nat
    BY <1>3, FS_CardinalityType
<1>5. Cardinality(T) = Cardinality(S) + 1
    BY <1>3, FS_AddElement
<1> DEFINE g == [n \in 1..Cardinality(T) |-> IF n = Cardinality(T) THEN k + 1 ELSE f[n]]
<1>6. ASSUME NEW n \in 1..Cardinality(T), n # Cardinality(T) PROVE f[n] \in S /\ f[n] < k + 1
  <2>1. n \in 1..Cardinality(S)
      BY <1>4, <1>5, <1>6
  <2>2. f[n] \in S
      BY <1>1, <2>1
  <2>3. \A x \in S : x < k + 1
      OBVIOUS
  <2> QED BY <2>2, <2>3
<1>7. g \in [1..Cardinality(T) -> T]
    BY <1>6
<1>8. Ascending(g)
    BY <1>1, <1>4, <1>5, <1>6, SMTT(60) DEF Ascending
<1> QED BY <1>7, <1>8 DEF Ordered

LEMMA PlacesOrdered ==
    ASSUME NEW k \in Nat, NEW S \in SUBSET (1..k)
    PROVE  Ordered(S)
<1> DEFINE Bad == {n \in Nat : ~Ordered(S \cap (1..n))}
<1>1. ASSUME NEW n \in Nat PROVE n \notin Bad
  <2>1. ASSUME Bad # {} PROVE FALSE
    <3>1. Bad \subseteq Nat
        OBVIOUS
    <3>2. PICK x \in Bad : \A y \in Bad : ~(<<y, x>> \in OpToRel(<, Nat))
      <4> HIDE DEF Bad
      <4> QED BY <2>1, <3>1, NatLessThanWellFounded, WFMin
    <3>3. \A y \in Bad : ~(y < x)
        BY <3>2 DEF OpToRel
    <3>4. x # 0
      <4>1. S \cap (1..0) = {} /\ Cardinality({}) = 0
          BY FS_EmptySet
      <4>2. [n1 \in {} |-> n1] \in [1..0 -> {}] /\ Ascending([n1 \in {} |-> n1])
          BY DEF Ascending
      <4>3. Ordered(S \cap (1..0))
          BY <4>1, <4>2 DEF Ordered
      <4> QED BY <4>3
    <3>5. x \in Nat /\ x - 1 \in Nat /\ ~(x - 1 \in Bad)
        BY <3>3, <3>4
    <3>6. Ordered(S \cap (1..(x - 1)))
        BY <3>5
    <3>7. CASE x \in S
      <4>1. S \cap (1..x) = (S \cap (1..(x - 1))) \cup {(x - 1) + 1}
          BY <3>5, <3>7
      <4>2. Ordered((S \cap (1..(x - 1))) \cup {(x - 1) + 1})
          BY <3>5, <3>6, OneMorePlace
      <4> QED BY <4>1, <4>2
    <3>8. CASE x \notin S
      <4>1. S \cap (1..x) = S \cap (1..(x - 1))
          BY <3>5, <3>8
      <4> QED BY <3>6, <4>1
    <3> QED BY <3>7, <3>8
  <2> QED BY <2>1
<1>2. S \cap (1..k) = S
    OBVIOUS
<1> QED BY <1>1, <1>2

LEMMA TabsAtAre ==
    ASSUME NEW S, tabs \in Seq(S), NEW places \in SUBSET DOMAIN tabs
    PROVE  /\ TabsAt(places) \in Seq(S)
           /\ \A t \in ToSet(TabsAt(places)) : \E j \in places : t = tabs[j]
<1>1. Len(tabs) \in Nat /\ DOMAIN tabs = 1..Len(tabs) /\ \A j \in DOMAIN tabs : tabs[j] \in S
    OBVIOUS
<1>2. Ordered(places)
    BY <1>1, PlacesOrdered
<1>3. InOrder(places) \in [1..Cardinality(places) -> places]
    BY <1>2 DEF Ordered, Ascending, InOrder
<1>4. Cardinality(places) \in Nat
  <2>1. IsFiniteSet(1..Len(tabs))
      BY <1>1, FS_Interval
  <2>2. IsFiniteSet(places)
      BY <1>1, <2>1, FS_Subset
  <2> QED BY <2>2, FS_CardinalityType
<1>5. \A n \in 1..Cardinality(places) : tabs[InOrder(places)[n]] \in S
    BY <1>1, <1>3
<1> QED BY <1>3, <1>4, <1>5 DEF TabsAt, Picked, ToSet

-----------------------------------------------------------------------------
(* Notes.  What steps do to the sequences of them.                          *)

FileKinds == {"read", "write", "rename", "renamed", "delete", "deleted"}
OtherKinds ==
    {"connect", "dial", "record", "connected", "disconnected", "error", "disconnect", "terminal", "hang",
     "data", "exit"}

Notes ==
    [kind : FileKinds \cup OtherKinds, of : Paths \cup Nat \cup {None},
     to : Paths \cup {None, "new", "split"}, num : Nat, conn : Nat, ok : BOOLEAN]

\* Of which path or paths a note is, and that contents are no missing file.
Sound(n) ==
    /\ n.kind \in FileKinds => n.of \in Paths
    /\ n.kind \in {"rename", "renamed"} => n.to \in Paths /\ n.to # n.of
    /\ n.kind \in {"read", "write", "delete", "deleted"} => n.to = None
    /\ n.kind = "write" => n.num # 0

SoundAnswer(n) ==
    /\ Sound(n)
    /\ n.kind = "read" /\ n.ok => n.num # 0
    /\ n.kind \in {"renamed", "deleted"} => n.ok
    /\ n.kind = "connected" => n.conn \in 0..MaxLinks

MailOK ==
    /\ asks \in Seq(Notes) /\ \A n \in ToSet(asks) : Sound(n)
    /\ inbox \in Seq(Notes) /\ \A n \in ToSet(inbox) : SoundAnswer(n)

LEMMA InSet ==
    ASSUME NEW S, NEW s \in Seq(S)
    PROVE  /\ \A i \in 1..Len(s) : s[i] \in ToSet(s) /\ s[i] \in S
           /\ \A x \in ToSet(s) : \E i \in 1..Len(s) : x = s[i]
BY DEF ToSet

LEMMA AppendSet ==
    ASSUME NEW S, NEW s \in Seq(S), NEW e \in S
    PROVE  Append(s, e) \in Seq(S) /\ ToSet(Append(s, e)) = ToSet(s) \cup {e}
BY AppendProperties DEF ToSet

LEMMA ConcatSet ==
    ASSUME NEW S, NEW s \in Seq(S), NEW t \in Seq(S)
    PROVE  s \o t \in Seq(S) /\ ToSet(s \o t) = ToSet(s) \cup ToSet(t)
<1>1. /\ s \o t \in Seq(S) /\ Len(s \o t) = Len(s) + Len(t)
      /\ \A i \in 1..Len(s) : (s \o t)[i] = s[i]
      /\ \A i \in 1..Len(t) : (s \o t)[Len(s) + i] = t[i]
    OBVIOUS
<1>2. Len(s) \in Nat /\ Len(t) \in Nat
    OBVIOUS
<1>3. \A x \in ToSet(s \o t) : x \in ToSet(s) \cup ToSet(t)
  <2> SUFFICES ASSUME NEW i \in 1..(Len(s) + Len(t)) PROVE (s \o t)[i] \in ToSet(s) \cup ToSet(t)
      BY <1>1 DEF ToSet
  <2>1. CASE i <= Len(s)
      BY <1>1, <1>2, <2>1 DEF ToSet
  <2>2. CASE i > Len(s)
    <3>1. i - Len(s) \in 1..Len(t) /\ i = Len(s) + (i - Len(s))
        BY <1>2, <2>2
    <3>2. (s \o t)[i] = t[i - Len(s)]
        BY <1>1, <3>1
    <3> QED BY <3>1, <3>2 DEF ToSet
  <2> QED BY <1>2, <2>1, <2>2
<1>4. \A i \in 1..Len(s) : s[i] \in ToSet(s \o t)
    BY <1>1, <1>2 DEF ToSet
<1>5. \A i \in 1..Len(t) : t[i] \in ToSet(s \o t)
  <2> SUFFICES ASSUME NEW i \in 1..Len(t) PROVE t[i] \in ToSet(s \o t)
      OBVIOUS
  <2>1. Len(s) + i \in 1..Len(s \o t)
      BY <1>1, <1>2
  <2>2. (s \o t)[Len(s) + i] = t[i]
      BY <1>1
  <2> QED BY <1>1, <2>1, <2>2, InSet
<1>6. \A x \in ToSet(s) : \E i \in 1..Len(s) : x = s[i]
    BY InSet
<1>7. \A x \in ToSet(t) : \E i \in 1..Len(t) : x = t[i]
    BY InSet
<1>8. \A x \in ToSet(s) \cup ToSet(t) : x \in ToSet(s \o t)
    BY <1>4, <1>5, <1>6, <1>7, Zenon
<1> QED BY <1>1, <1>3, <1>8

LEMMA TailSet ==
    ASSUME NEW S, NEW s \in Seq(S), s # <<>>
    PROVE  /\ Tail(s) \in Seq(S) /\ Head(s) \in S /\ Head(s) \in ToSet(s) /\ Head(s) = s[1]
           /\ Len(s) \in Nat \ {0} /\ Len(Tail(s)) = Len(s) - 1
           /\ \A i \in 1..(Len(s) - 1) : Tail(s)[i] = s[i + 1]
           /\ ToSet(s) = ToSet(Tail(s)) \cup {Head(s)}
           /\ \A x \in ToSet(Tail(s)) : \E j \in 2..Len(s) : x = s[j]
<1>1. /\ Tail(s) \in Seq(S) /\ Head(s) \in S /\ Head(s) = s[1] /\ Len(s) \in Nat \ {0}
      /\ Len(Tail(s)) = Len(s) - 1 /\ \A i \in 1..(Len(s) - 1) : Tail(s)[i] = s[i + 1]
    BY HeadTailProperties
<1>2. Head(s) \in ToSet(s)
    BY <1>1 DEF ToSet
<1>3. ToSet(Tail(s)) \subseteq ToSet(s)
  <2>1. \A i \in 1..(Len(s) - 1) : i + 1 \in 1..Len(s)
      BY <1>1
  <2> QED BY <1>1, <2>1 DEF ToSet
<1>4. ToSet(s) \subseteq ToSet(Tail(s)) \cup {Head(s)}
  <2> SUFFICES ASSUME NEW i \in 1..Len(s) PROVE s[i] \in ToSet(Tail(s)) \cup {Head(s)}
      BY DEF ToSet
  <2>1. CASE i = 1
      BY <1>1, <2>1
  <2>2. CASE i # 1
    <3>1. i - 1 \in 1..(Len(s) - 1) /\ i = (i - 1) + 1
        BY <1>1, <2>2
    <3>2. Tail(s)[i - 1] = s[i]
        BY <1>1, <3>1
    <3>3. Tail(s)[i - 1] \in ToSet(Tail(s))
        BY <1>1, <3>1, InSet
    <3> QED BY <3>2, <3>3
  <2> QED BY <2>1, <2>2
<1>5. ASSUME NEW x \in ToSet(Tail(s)) PROVE \E j \in 2..Len(s) : x = s[j]
  <2>1. PICK i \in 1..Len(Tail(s)) : x = Tail(s)[i]
      BY <1>1, InSet
  <2>2. i + 1 \in 2..Len(s) /\ x = s[i + 1]
      BY <1>1, <2>1
  <2> QED BY <2>2
<1> QED BY <1>1, <1>2, <1>3, <1>4, <1>5

LEMMA RemoveSet ==
    ASSUME NEW S, NEW s \in Seq(S), NEW i \in DOMAIN s
    PROVE  /\ RemoveAt(s, i) \in Seq(S) /\ s[i] \in S /\ s[i] \in ToSet(s)
           /\ ToSet(s) = ToSet(RemoveAt(s, i)) \cup {s[i]}
           /\ \A x \in ToSet(RemoveAt(s, i)) : \E j \in 1..Len(s) : j # i /\ x = s[j]
<1> DEFINE a == SubSeq(s, 1, i - 1)
           b == SubSeq(s, i + 1, Len(s))
<1>1. Len(s) \in Nat /\ i \in 1..Len(s) /\ \A j \in 1..Len(s) : s[j] \in S
    OBVIOUS
<1>2. /\ a \in Seq(S) /\ Len(a) = i - 1 /\ \A j \in 1..(i - 1) : a[j] = s[j]
    <2>1. \A j \in 1..(i - 1) : s[j] \in S
        BY <1>1
    <2>2. /\ a \in Seq(S) /\ Len(a) = IF 1 <= i - 1 THEN (i - 1) - 1 + 1 ELSE 0
          /\ \A j \in 1..((i - 1) - 1 + 1) : a[j] = s[1 + j - 1]
        BY <1>1, <2>1, SubSeqProperties
    <2> QED BY <1>1, <2>2
<1>3. /\ b \in Seq(S) /\ Len(b) = Len(s) - i /\ \A j \in 1..(Len(s) - i) : b[j] = s[i + j]
    <2>1. \A j \in (i + 1)..Len(s) : s[j] \in S
        BY <1>1
    <2>2. /\ b \in Seq(S) /\ Len(b) = IF i + 1 <= Len(s) THEN Len(s) - (i + 1) + 1 ELSE 0
          /\ \A j \in 1..(Len(s) - (i + 1) + 1) : b[j] = s[(i + 1) + j - 1]
        BY <1>1, <2>1, SubSeqProperties
    <2> QED BY <1>1, <2>2
<1> HIDE DEF a, b
<1>4. a \o b \in Seq(S) /\ ToSet(a \o b) = ToSet(a) \cup ToSet(b)
    BY <1>2, <1>3, ConcatSet
<1>5. ToSet(a) = {s[j] : j \in 1..(i - 1)}
    BY <1>2 DEF ToSet
<1>6. ToSet(b) = {s[j] : j \in (i + 1)..Len(s)}
  <2>1. \A x \in ToSet(b) : x \in {s[j] : j \in (i + 1)..Len(s)}
    <3>1. \A x \in ToSet(b) : \E j \in 1..Len(b) : x = b[j]
        BY <1>3, InSet
    <3>2. ASSUME NEW j \in 1..Len(b) PROVE b[j] \in {s[k] : k \in (i + 1)..Len(s)}
      <4>1. i + j \in (i + 1)..Len(s) /\ b[j] = s[i + j]
          BY <1>1, <1>3
      <4> QED BY <4>1, Zenon
    <3> QED BY <3>1, <3>2, Zenon
  <2>2. ASSUME NEW j \in (i + 1)..Len(s) PROVE s[j] \in ToSet(b)
    <3>1. j - i \in 1..(Len(s) - i) /\ j = i + (j - i)
        BY <1>1
    <3>2. b[j - i] = s[j]
        BY <1>3, <3>1
    <3> QED BY <1>3, <3>1, <3>2 DEF ToSet
  <2> QED BY <2>1, <2>2
<1>7. ToSet(s) = ToSet(a \o b) \cup {s[i]}
  <2>1. \A j \in 1..Len(s) : j \in 1..(i - 1) \/ j = i \/ j \in (i + 1)..Len(s)
      BY <1>1
  <2>2. \A j \in 1..(i - 1) : j \in 1..Len(s)
      BY <1>1
  <2>3. \A j \in (i + 1)..Len(s) : j \in 1..Len(s)
      BY <1>1
  <2>4. ToSet(s) = {s[j] : j \in 1..Len(s)}
      BY DEF ToSet
  <2> QED BY <1>1, <1>4, <1>5, <1>6, <2>1, <2>2, <2>3, <2>4
<1>8. RemoveAt(s, i) = a \o b
    BY DEF RemoveAt, a, b
<1>9. ASSUME NEW x \in ToSet(RemoveAt(s, i)) PROVE \E j \in 1..Len(s) : j # i /\ x = s[j]
  <2>1. x \in ToSet(a) \cup ToSet(b)
      BY <1>4, <1>8, <1>9
  <2>2. CASE x \in ToSet(a)
    <3>1. PICK j \in 1..(i - 1) : x = s[j]
        BY <1>5, <2>2
    <3> QED BY <1>1, <3>1
  <2>3. CASE x \in ToSet(b)
    <3>1. PICK j \in (i + 1)..Len(s) : x = s[j]
        BY <1>6, <2>3
    <3> QED BY <1>1, <3>1
  <2> QED BY <2>1, <2>2, <2>3
<1>10. s[i] \in S /\ s[i] \in ToSet(s)
    BY <1>1, InSet
<1>11. RemoveAt(s, i) \in Seq(S) /\ ToSet(s) = ToSet(RemoveAt(s, i)) \cup {s[i]}
    BY <1>4, <1>7, <1>8
<1> QED BY <1>9, <1>10, <1>11
-----------------------------------------------------------------------------
(* What a tab of a path that nothing crossed holds.                         *)

TabSet == [conn : Nat, path : Paths, text : Nat \ {0}, saved : Nat \ {0}, saving : BOOLEAN]

MainTypes ==
    /\ up \in Nat /\ up <= MaxLinks /\ made \in Nat
    /\ current \in Nat /\ status.conn \in Nat /\ target \in Nat \cup {None}
    /\ printed \in [Terminals -> Nat] /\ created \in Seq(Nat)
    /\ running \in SUBSET Nat /\ IsFiniteSet(running)

TabTypes == tabs \in Seq(TabSet) /\ file \in [Paths -> Nat] /\ edits \in Nat \ {0}

LinkInv == MailOK /\ MainTypes /\ TabTypes /\ crossed \in SUBSET Paths

\* A path is crossed as soon as its notes cross, and with the path it is renamed to.
CrossInv ==
    /\ \A p \in Paths : Crossing(p) => p \in crossed
    /\ \A n \in ToSet(asks) \cup ToSet(inbox) :
          n.kind \in {"rename", "renamed"} => (n.of \in crossed <=> n.to \in crossed)

\* What was renamed, and to what, or deleted (to None), and the tabs were not told yet.
Renames == {n \in ToSet(inbox) : n.kind \in {"rename", "renamed", "delete", "deleted"} /\ n.ok}
           \cup {n \in ToSet(asks) : n.kind \in {"renamed", "deleted"}}
Done == {<<n.of, n.to>> : n \in Renames}

\* A save that took effect and the window has not heard of.
Landed(n, p) == n.kind = "write" /\ n.ok /\ n.of = p

\* A file that was read is as it was read.
ReadsAre(p) == \A n \in ToSet(inbox) : n.kind = "read" /\ n.ok /\ n.of = p => n.num = file[p]

\* A file holds what the last save wrote.
WritesAre(p) ==
    \A i \in DOMAIN inbox :
       Landed(inbox[i], p) /\ (\A j \in DOMAIN inbox : Landed(inbox[j], p) => j <= i) => inbox[i].num = file[p]

\* A tab holds what the file does, or did until a save, a rename or a delete it has not heard of.
TabsAre(p) ==
    \A t \in ToSet(tabs) :
       t.path = p =>
          /\ (\A n \in ToSet(inbox) : ~Landed(n, p)) /\ (\A d \in Done : p \notin {d[1], d[2]})
             => t.saved = file[p]
          /\ \A d \in Done : d[1] = p /\ d[2] # None => file[d[2]] = t.saved
          /\ \A d \in Done : d[2] # p

PathIs(p) == ReadsAre(p) /\ WritesAre(p) /\ TabsAre(p)

TabsInv == LinkInv /\ CrossInv /\ \A p \in Paths \ crossed : PathIs(p)

\* Where a note on its way is.
LEMMA Placed ==
    ASSUME MailOK
    PROVE  /\ Len(asks) \in Nat /\ Len(inbox) \in Nat
           /\ DOMAIN (asks \o inbox) = 1..(Len(asks) + Len(inbox))
           /\ \A i \in 1..Len(asks) : i \in DOMAIN (asks \o inbox) /\ (asks \o inbox)[i] = asks[i]
           /\ \A i \in 1..Len(inbox) : /\ Len(asks) + i \in DOMAIN (asks \o inbox)
                                       /\ (asks \o inbox)[Len(asks) + i] = inbox[i]
BY DEF MailOK

LEMMA TwoCross ==
    ASSUME CrossInv, NEW p \in Paths \ crossed, NEW m \in DOMAIN (asks \o inbox), NEW n \in DOMAIN (asks \o inbox),
           m # n, About((asks \o inbox)[m], p), About((asks \o inbox)[n], p)
    PROVE  (asks \o inbox)[m].kind = "write" /\ (asks \o inbox)[n].kind = "write"
<1>1. ~Crossing(p)
    BY DEF CrossInv
<1>2. m \in OnTheWay(p) /\ n \in OnTheWay(p)
    BY DEF OnTheWay
<1> QED BY <1>1, <1>2, Zenon DEF Crossing

\* A call that is no save is alone with a path nothing crossed, and saves are among themselves.
LEMMA AloneAsked ==
    ASSUME MailOK, CrossInv, NEW p \in Paths \ crossed, NEW i \in DOMAIN asks, About(asks[i], p)
    PROVE  /\ asks[i].kind # "write" => \A n \in ToSet(RemoveAt(asks, i)) \cup ToSet(inbox) : ~About(n, p)
           /\ \A n \in ToSet(asks) \cup ToSet(inbox) : About(n, p) => n = asks[i] \/ n.kind = "write"
<1> DEFINE all == asks \o inbox
<1>1. /\ Len(asks) \in Nat /\ Len(inbox) \in Nat
      /\ \A j \in 1..Len(asks) : j \in DOMAIN all /\ all[j] = asks[j]
      /\ \A j \in 1..Len(inbox) : Len(asks) + j \in DOMAIN all /\ all[Len(asks) + j] = inbox[j]
    BY Placed
<1>2. i \in 1..Len(asks) /\ asks \in Seq(Notes) /\ inbox \in Seq(Notes)
    BY DEF MailOK
<1>3. \A m \in DOMAIN all : m # i /\ About(all[m], p) => all[m].kind = "write" /\ asks[i].kind = "write"
    BY <1>1, <1>2, TwoCross
<1> HIDE DEF all
<1>4. ASSUME NEW j \in 1..Len(asks), j # i, About(asks[j], p)
      PROVE  asks[j].kind = "write" /\ asks[i].kind = "write"
    BY <1>1, <1>3, <1>4
<1>5. ASSUME NEW j \in 1..Len(inbox), About(inbox[j], p)
      PROVE  inbox[j].kind = "write" /\ asks[i].kind = "write"
  <2>1. Len(asks) + j # i
      BY <1>1, <1>2
  <2> QED BY <1>1, <1>3, <1>5, <2>1
<1>6. \A n \in ToSet(inbox) : About(n, p) => n.kind = "write" /\ asks[i].kind = "write"
    BY <1>2, <1>5, InSet
<1>7. \A n \in ToSet(RemoveAt(asks, i)) : About(n, p) => n.kind = "write" /\ asks[i].kind = "write"
  <2>1. \A n \in ToSet(RemoveAt(asks, i)) : \E j \in 1..Len(asks) : j # i /\ n = asks[j]
      BY <1>2, RemoveSet
  <2> QED BY <1>4, <2>1
<1>8. \A n \in ToSet(asks) : n \in ToSet(RemoveAt(asks, i)) \/ n = asks[i]
    BY <1>2, RemoveSet
<1> QED BY <1>6, <1>7, <1>8

LEMMA AloneHeard ==
    ASSUME MailOK, CrossInv, NEW p \in Paths \ crossed, inbox # <<>>, About(Head(inbox), p)
    PROVE  /\ Head(inbox).kind # "write" => \A n \in ToSet(asks) \cup ToSet(Tail(inbox)) : ~About(n, p)
           /\ \A n \in ToSet(asks) \cup ToSet(inbox) : About(n, p) => n = Head(inbox) \/ n.kind = "write"
<1> DEFINE all == asks \o inbox
<1>1. /\ Len(asks) \in Nat /\ Len(inbox) \in Nat
      /\ \A j \in 1..Len(asks) : j \in DOMAIN all /\ all[j] = asks[j]
      /\ \A j \in 1..Len(inbox) : Len(asks) + j \in DOMAIN all /\ all[Len(asks) + j] = inbox[j]
    BY Placed
<1>2. asks \in Seq(Notes) /\ inbox \in Seq(Notes)
    BY DEF MailOK
<1>3. Head(inbox) = inbox[1] /\ Len(inbox) \in Nat \ {0}
    BY <1>2, TailSet
<1>4. /\ Len(asks) + 1 \in DOMAIN all /\ all[Len(asks) + 1] = Head(inbox)
      /\ \A m \in DOMAIN all :
            m # Len(asks) + 1 /\ About(all[m], p) => all[m].kind = "write" /\ Head(inbox).kind = "write"
  <2>1. Len(asks) + 1 \in DOMAIN all /\ all[Len(asks) + 1] = Head(inbox)
      BY <1>1, <1>3
  <2> QED BY <2>1, TwoCross
<1> HIDE DEF all
<1>5. ASSUME NEW j \in 1..Len(asks), About(asks[j], p)
      PROVE  asks[j].kind = "write" /\ Head(inbox).kind = "write"
  <2>1. Len(asks) + 1 # j
      BY <1>1
  <2> QED BY <1>1, <1>4, <1>5, <2>1
<1>6. ASSUME NEW j \in 2..Len(inbox), About(inbox[j], p)
      PROVE  inbox[j].kind = "write" /\ Head(inbox).kind = "write"
  <2>1. Len(asks) + j # Len(asks) + 1 /\ j \in 1..Len(inbox)
      BY <1>1
  <2> QED BY <1>1, <1>4, <1>6, <2>1
<1>7. \A n \in ToSet(asks) : About(n, p) => n.kind = "write" /\ Head(inbox).kind = "write"
    BY <1>2, <1>5, InSet
<1>8. \A n \in ToSet(Tail(inbox)) : About(n, p) => n.kind = "write" /\ Head(inbox).kind = "write"
  <2>1. \A n \in ToSet(Tail(inbox)) : \E j \in 2..Len(inbox) : n = inbox[j]
      BY <1>2, TailSet
  <2> QED BY <1>6, <2>1
<1>9. \A n \in ToSet(inbox) : n \in ToSet(Tail(inbox)) \/ n = Head(inbox)
    BY <1>2, TailSet
<1> QED BY <1>7, <1>8, <1>9

\* And it is for the connection of the path's tabs.
LEMMA OneConnection ==
    ASSUME MailOK, CrossInv, NEW p \in Paths \ crossed, NEW n \in ToSet(asks) \cup ToSet(inbox), About(n, p),
           NEW t \in ToSet(tabs), t.path = p
    PROVE  n.conn = t.conn
<1> DEFINE all == asks \o inbox
<1>1. asks \in Seq(Notes) /\ inbox \in Seq(Notes)
    BY DEF MailOK
<1>2. /\ \A j \in 1..Len(asks) : j \in DOMAIN all /\ all[j] = asks[j]
      /\ \A j \in 1..Len(inbox) : Len(asks) + j \in DOMAIN all /\ all[Len(asks) + j] = inbox[j]
    BY Placed
<1> HIDE DEF all
<1>3. \E k \in DOMAIN all : all[k] = n
  <2>1. CASE n \in ToSet(asks)
    <3>1. PICK j \in 1..Len(asks) : n = asks[j]
        BY <1>1, <2>1, InSet
    <3> QED BY <1>2, <3>1
  <2>2. CASE n \in ToSet(inbox)
    <3>1. PICK j \in 1..Len(inbox) : n = inbox[j]
        BY <1>1, <2>2, InSet
    <3> QED BY <1>2, <3>1
  <2> QED BY <2>1, <2>2
<1>4. PICK k \in DOMAIN all : all[k] = n
    BY <1>3
<1>5. ~Crossing(p)
    BY DEF CrossInv
<1>6. k \in OnTheWay(p)
    BY <1>4 DEF OnTheWay, all
<1> QED BY <1>4, <1>5, <1>6, Zenon DEF Crossing, all

\* What CrossedAfter is for.
LEMMA CrossInvNext ==
    ASSUME MailOK', CrossedAfter, crossed \in SUBSET Paths
    PROVE  CrossInv' /\ crossed' \in SUBSET Paths /\ crossed \subseteq crossed'
<1> DEFINE all == asks' \o inbox'
           on(p) == {k \in DOMAIN all : About(all[k], p)}
           met == crossed \cup {p \in Paths : Crossing(p)'}
<1>1. \A p : OnTheWay(p)' = on(p)
    BY DEF OnTheWay
<1>2. crossed' = met \cup {p \in Paths : \E q \in met : (OnTheWay(p) \cap OnTheWay(q))' # {}}
    BY DEF CrossedAfter
<1>3. crossed' \in SUBSET Paths /\ crossed \subseteq crossed' /\ met \subseteq crossed'
    BY <1>2
<1>4. ASSUME NEW p \in Paths, Crossing(p)' PROVE p \in crossed'
    BY <1>2, <1>4
<1>5. ASSUME NEW p \in Paths, NEW k \in on(p), NEW l \in on(p), k # l, all[k].kind # "write"
      PROVE  p \in met
  <2>1. Crossing(p)'
      BY <1>5, <1>1, Zenon DEF Crossing
  <2> QED BY <2>1
<1>6. ASSUME NEW p \in Paths, NEW q \in Paths, NEW k \in on(p), k \in on(q), all[k].kind \in {"rename", "renamed"},
             {p, q} = {all[k].of, all[k].to}, p \in crossed'
      PROVE  q \in crossed'
  <2>1. ASSUME NEW r \in met, r = p \/ r = q PROVE q \in crossed'
    <3>1. r = q => q \in crossed'
        BY <1>3, <2>1
    <3>2. (OnTheWay(q) \cap OnTheWay(p))' # {}
        BY <1>1, <1>6
    <3> QED BY <1>2, <2>1, <3>1, <3>2, Zenon
  <2>2. CASE p \in met
      BY <2>1, <2>2
  <2>3. CASE p \notin met
    <3>1. PICK r \in met : (OnTheWay(p) \cap OnTheWay(r))' # {}
        BY <1>2, <1>6, <2>3
    <3>2. PICK l \in on(p) : l \in on(r)
        BY <1>1, <3>1
    <3>3. l = k
        BY <1>5, <1>6, <2>3, <3>2
    <3>4. r \in {all[k].of, all[k].to}
        BY <3>2, <3>3 DEF About
    <3> QED BY <1>6, <2>1, <3>1, <3>4
  <2> QED BY <2>2, <2>3
<1>7. ASSUME NEW n \in ToSet(asks') \cup ToSet(inbox'), n.kind \in {"rename", "renamed"}
      PROVE  n.of \in crossed' <=> n.to \in crossed'
  <2>1. asks' \in Seq(Notes) /\ inbox' \in Seq(Notes)
      BY DEF MailOK
  <2>2. PICK k \in DOMAIN all : all[k] = n
    <3>1. n \in ToSet(all)
        BY <2>1, ConcatSet
    <3>2. all \in Seq(Notes)
        BY <2>1
    <3>3. \E k \in 1..Len(all) : n = all[k]
      <4> HIDE DEF all
      <4> QED BY <3>1, <3>2, InSet
    <3> QED BY <3>2, <3>3
  <2>3. n.of \in Paths /\ n.to \in Paths
      BY <1>7 DEF MailOK, Sound, SoundAnswer, FileKinds
  <2>4. k \in on(n.of) /\ k \in on(n.to)
      BY <1>7, <2>2 DEF About
  <2> QED BY <1>6, <1>7, <2>2, <2>3, <2>4
<1>8. CrossInv'
    BY <1>4, <1>7 DEF CrossInv
<1> QED BY <1>3, <1>8

-----------------------------------------------------------------------------
(* What steps do to the notes on their way.                                 *)

\* A note that says nothing happened to a file.
Inert(n) == n.kind \in FileKinds => ~n.ok

AsksAside ==
    /\ \A n \in ToSet(asks') : n.kind \in {"renamed", "deleted"} => n \in ToSet(asks)
    /\ \A n \in ToSet(asks) : n.kind \in {"renamed", "deleted"} => n \in ToSet(asks')

InboxAside ==
    \/ inbox' = inbox
    \/ \E notes \in Seq(Notes) : inbox' = inbox \o notes /\ \A n \in ToSet(notes) : Inert(n)
    \/ inbox # <<>> /\ inbox' = Tail(inbox) /\ Inert(Head(inbox))

MailAside == MailOK' /\ AsksAside /\ InboxAside

LEMMA AskedAside ==
    ASSUME MailOK, NEW c \in Notes, Sound(c), c.kind \notin {"renamed", "deleted"}, Ask(c), inbox' = inbox
    PROVE  MailAside
<1>1. asks' \in Seq(Notes) /\ ToSet(asks') = ToSet(asks) \cup {c}
    BY AppendSet DEF MailOK, Ask
<1>2. MailOK'
    BY <1>1 DEF MailOK
<1> QED BY <1>1, <1>2 DEF MailAside, AsksAside, InboxAside

LEMMA SentAside ==
    ASSUME MailOK, asks' = asks, NEW notes \in Seq(Notes), inbox' = inbox \o notes,
           \A n \in ToSet(notes) : SoundAnswer(n) /\ Inert(n)
    PROVE  MailAside
<1>1. inbox' \in Seq(Notes) /\ ToSet(inbox') = ToSet(inbox) \cup ToSet(notes)
    BY ConcatSet DEF MailOK
<1>2. MailOK'
    BY <1>1 DEF MailOK
<1> QED BY <1>2 DEF MailAside, AsksAside, InboxAside

LEMMA SettledMail ==
    ASSUME MailOK, NEW i \in DOMAIN asks, NEW notes \in Seq(Notes), Settle(i, notes),
           \A n \in ToSet(notes) : SoundAnswer(n)
    PROVE  /\ MailOK'
           /\ ToSet(asks) = ToSet(asks') \cup {asks[i]} /\ asks' = RemoveAt(asks, i)
           /\ ToSet(inbox') = ToSet(inbox) \cup ToSet(notes)
<1>1. /\ asks' \in Seq(Notes) /\ ToSet(asks) = ToSet(asks') \cup {asks[i]}
      /\ asks' = RemoveAt(asks, i)
    BY RemoveSet DEF MailOK, Settle
<1>2. inbox' \in Seq(Notes) /\ ToSet(inbox') = ToSet(inbox) \cup ToSet(notes)
    BY ConcatSet DEF MailOK, Settle
<1>3. MailOK'
    BY <1>1, <1>2 DEF MailOK
<1> QED BY <1>1, <1>2, <1>3

LEMMA SettledAside ==
    ASSUME MailOK, NEW i \in DOMAIN asks, asks[i].kind \notin {"renamed", "deleted"}, NEW notes \in Seq(Notes),
           Settle(i, notes), \A n \in ToSet(notes) : SoundAnswer(n) /\ Inert(n)
    PROVE  MailAside
<1>1. MailOK' /\ ToSet(asks) = ToSet(asks') \cup {asks[i]}
    BY SettledMail
<1>2. inbox' = inbox \o notes
    BY DEF Settle
<1> QED BY <1>1, <1>2 DEF MailAside, AsksAside, InboxAside

LEMMA HeardMail ==
    ASSUME MailOK, inbox # <<>>, inbox' = Tail(inbox), asks' = asks
    PROVE  /\ MailOK' /\ Head(inbox) \in Notes /\ SoundAnswer(Head(inbox)) /\ Head(inbox) \in ToSet(inbox)
           /\ ToSet(inbox) = ToSet(inbox') \cup {Head(inbox)}
<1>1. /\ inbox' \in Seq(Notes) /\ Head(inbox) \in Notes /\ Head(inbox) \in ToSet(inbox)
      /\ ToSet(inbox) = ToSet(inbox') \cup {Head(inbox)}
    BY TailSet DEF MailOK
<1>2. MailOK'
    BY <1>1 DEF MailOK
<1> QED BY <1>1, <1>2 DEF MailOK

LEMMA HeardAside ==
    ASSUME MailOK, inbox # <<>>, inbox' = Tail(inbox), asks' = asks, Inert(Head(inbox))
    PROVE  MailAside
BY HeardMail DEF MailAside, AsksAside, InboxAside

LEMMA HeardAskedAside ==
    ASSUME MailOK, inbox # <<>>, inbox' = Tail(inbox), Inert(Head(inbox)),
           NEW c \in Notes, Sound(c), c.kind \notin {"renamed", "deleted"}, Ask(c)
    PROVE  MailAside
<1>1. asks' \in Seq(Notes) /\ ToSet(asks') = ToSet(asks) \cup {c}
    BY AppendSet DEF MailOK, Ask
<1>2. inbox' \in Seq(Notes) /\ ToSet(inbox) = ToSet(inbox') \cup {Head(inbox)}
    BY TailSet DEF MailOK
<1>3. MailOK'
    BY <1>1, <1>2 DEF MailOK
<1> QED BY <1>1, <1>3 DEF MailAside, AsksAside, InboxAside

\* A call that goes on under another name.
LEMMA RenamedCallAside ==
    ASSUME MailOK, NEW i \in DOMAIN asks, NEW c \in Notes, asks[i].kind \in OtherKinds, c.kind \in OtherKinds,
           asks' = [asks EXCEPT ![i] = c], NEW n \in Notes, SoundAnswer(n), n.kind \in OtherKinds,
           inbox' = Append(inbox, n)
    PROVE  MailAside
<1>1. asks \in Seq(Notes)
    BY DEF MailOK
<1>2. asks' \in Seq(Notes) /\ DOMAIN asks' = DOMAIN asks /\ Len(asks) \in Nat /\ DOMAIN asks = 1..Len(asks)
    BY <1>1
<1>3. \A x \in ToSet(asks') : x \in ToSet(asks) \/ x = c
  <2>1. \A x \in ToSet(asks') : \E j \in DOMAIN asks' : x = asks'[j]
      BY DEF ToSet
  <2>2. \A j \in DOMAIN asks' : asks'[j] = asks[j] \/ asks'[j] = c
      BY <1>1, <1>2
  <2>3. \A j \in DOMAIN asks : asks[j] \in ToSet(asks)
      BY DEF ToSet
  <2> QED BY <1>2, <2>1, <2>2, <2>3
<1>4. \A x \in ToSet(asks) : x \in ToSet(asks') \/ x = asks[i]
  <2>1. \A x \in ToSet(asks) : \E j \in DOMAIN asks : x = asks[j]
      BY DEF ToSet
  <2>2. \A j \in DOMAIN asks : j # i => asks[j] = asks'[j]
      BY <1>1, <1>2
  <2>3. \A j \in DOMAIN asks' : asks'[j] \in ToSet(asks')
      BY DEF ToSet
  <2> QED BY <1>2, <2>1, <2>2, <2>3, ZenonT(60)
<1>5. <<n>> \in Seq(Notes) /\ ToSet(<<n>>) = {n} /\ inbox' = inbox \o <<n>>
    BY DEF MailOK, ToSet
<1>6. inbox' \in Seq(Notes) /\ ToSet(inbox') = ToSet(inbox) \cup {n}
    BY AppendSet DEF MailOK
<1>7. Sound(c) /\ Inert(n)
    BY DEF Sound, Inert, FileKinds, OtherKinds
<1>8. MailOK'
    BY <1>2, <1>3, <1>6, <1>7 DEF MailOK
<1>9. AsksAside
    BY <1>3, <1>4 DEF AsksAside, OtherKinds
<1>10. InboxAside
    BY <1>5, <1>7 DEF InboxAside
<1> QED BY <1>8, <1>9, <1>10 DEF MailAside

-----------------------------------------------------------------------------
(* What that means for what is known of the files.                          *)

Unheard(p) == \E n \in ToSet(inbox) : Landed(n, p)

\* More notes, none of a save of the file and none of a reading that is not as the file.
LEMMA InboxGrows ==
    ASSUME MailOK, NEW p \in Paths, ReadsAre(p), WritesAre(p), file'[p] = file[p],
           NEW notes \in Seq(Notes), inbox' = inbox \o notes,
           \A n \in ToSet(notes) : /\ ~Landed(n, p)
                                   /\ n.kind = "read" /\ n.ok /\ n.of = p => n.num = file[p]
    PROVE  ReadsAre(p)' /\ WritesAre(p)' /\ (Unheard(p)' <=> Unheard(p))
<1>1. inbox \in Seq(Notes)
    BY DEF MailOK
<1>2. ToSet(inbox') = ToSet(inbox) \cup ToSet(notes)
    BY <1>1, ConcatSet
<1>3. ReadsAre(p)'
    BY <1>2 DEF ReadsAre
<1>4. Unheard(p)' <=> Unheard(p)
    BY <1>2 DEF Unheard
<1>5. /\ Len(inbox) \in Nat /\ Len(notes) \in Nat /\ DOMAIN inbox = 1..Len(inbox)
      /\ DOMAIN inbox' = 1..(Len(inbox) + Len(notes))
      /\ \A j \in DOMAIN inbox : j \in DOMAIN inbox' /\ inbox'[j] = inbox[j]
    BY <1>1
<1>6. ASSUME NEW i \in DOMAIN inbox', Landed(inbox'[i], p) PROVE i \in DOMAIN inbox
  <2>1. CASE i > Len(inbox)
    <3>1. i - Len(inbox) \in 1..Len(notes) /\ inbox'[i] = notes[i - Len(inbox)]
        BY <1>1, <1>5, <2>1
    <3>2. notes[i - Len(inbox)] \in ToSet(notes)
        BY <3>1, InSet
    <3> QED BY <1>6, <3>1, <3>2
  <2> QED BY <1>5, <2>1
<1>7. WritesAre(p)'
  <2> SUFFICES ASSUME NEW i \in DOMAIN inbox', Landed(inbox'[i], p),
                      \A j \in DOMAIN inbox' : Landed(inbox'[j], p) => j <= i
               PROVE  inbox'[i].num = file'[p]
      BY DEF WritesAre
  <2>1. i \in DOMAIN inbox /\ inbox'[i] = inbox[i]
      BY <1>5, <1>6
  <2>2. \A j \in DOMAIN inbox : Landed(inbox[j], p) => j <= i
      BY <1>5
  <2> QED BY <2>1, <2>2 DEF WritesAre
<1> QED BY <1>3, <1>4, <1>7

\* The next note is heard; of a save, others may follow.
LEMMA InboxShrinks ==
    ASSUME MailOK, NEW p \in Paths, ReadsAre(p), WritesAre(p), file'[p] = file[p],
           inbox # <<>>, inbox' = Tail(inbox)
    PROVE  /\ ReadsAre(p)' /\ WritesAre(p)'
           /\ Unheard(p)' => Unheard(p)
           /\ Unheard(p) => Unheard(p)' \/ Landed(Head(inbox), p)
           /\ Landed(Head(inbox), p) => Unheard(p)' \/ Head(inbox).num = file[p]
<1>1. inbox \in Seq(Notes)
    BY DEF MailOK
<1>2. /\ inbox' \in Seq(Notes) /\ Head(inbox) = inbox[1] /\ Len(inbox) \in Nat \ {0}
      /\ Len(inbox') = Len(inbox) - 1
      /\ \A i \in 1..(Len(inbox) - 1) : inbox'[i] = inbox[i + 1]
      /\ ToSet(inbox) = ToSet(inbox') \cup {Head(inbox)}
    BY <1>1, TailSet
<1>3. ReadsAre(p)'
    BY <1>2 DEF ReadsAre
<1>4. /\ Unheard(p)' => Unheard(p)
      /\ Unheard(p) => Unheard(p)' \/ Landed(Head(inbox), p)
    BY <1>2 DEF Unheard
<1>5. DOMAIN inbox = 1..Len(inbox) /\ DOMAIN inbox' = 1..(Len(inbox) - 1)
    BY <1>1, <1>2
<1>6. WritesAre(p)'
  <2> SUFFICES ASSUME NEW i \in DOMAIN inbox', Landed(inbox'[i], p),
                      \A j \in DOMAIN inbox' : Landed(inbox'[j], p) => j <= i
               PROVE  inbox'[i].num = file'[p]
      BY DEF WritesAre
  <2>1. i + 1 \in DOMAIN inbox /\ inbox'[i] = inbox[i + 1]
      BY <1>2, <1>5
  <2>2. ASSUME NEW j \in DOMAIN inbox, Landed(inbox[j], p) PROVE j <= i + 1
    <3>1. CASE j = 1
        BY <1>5, <3>1
    <3>2. CASE j # 1
      <4>1. j - 1 \in DOMAIN inbox' /\ inbox'[j - 1] = inbox[j]
          BY <1>2, <1>5, <3>2
      <4>2. j - 1 <= i
          BY <2>2, <4>1
      <4> QED BY <1>5, <4>2
    <3> QED BY <3>1, <3>2
  <2> QED BY <2>1, <2>2 DEF WritesAre
<1>7. ASSUME Landed(Head(inbox), p), ~Unheard(p)' PROVE Head(inbox).num = file[p]
  <2>1. ASSUME NEW j \in DOMAIN inbox, Landed(inbox[j], p) PROVE j <= 1
    <3>1. CASE j # 1
      <4>1. j - 1 \in 1..Len(inbox') /\ inbox'[j - 1] = inbox[j]
          BY <1>2, <1>5, <3>1
      <4>2. inbox[j] \in ToSet(inbox')
          BY <1>2, <4>1, InSet
      <4> QED BY <1>7, <2>1, <4>2 DEF Unheard
    <3> QED BY <3>1
  <2>2. 1 \in DOMAIN inbox /\ Landed(inbox[1], p)
      BY <1>2, <1>5, <1>7
  <2> QED BY <1>2, <2>1, <2>2 DEF WritesAre
<1> QED BY <1>3, <1>4, <1>6, <1>7

\* Every tab there is now was there with what it holds.
TabsKept == \A t \in ToSet(tabs') : \E u \in ToSet(tabs) : u.path = t.path /\ u.saved = t.saved

LEMMA TabsSpared ==
    ASSUME NEW p \in Paths, TabsAre(p), file'[p] = file[p], Unheard(p) => Unheard(p)',
           \A t \in ToSet(tabs') : t.path = p => \E u \in ToSet(tabs) : u.path = p /\ u.saved = t.saved,
           \A d \in Done' : p \in {d[1], d[2]} => d \in Done,
           \A d \in Done : p \in {d[1], d[2]} => d \in Done',
           \A d \in Done : d[1] = p /\ d[2] # None => file'[d[2]] = file[d[2]]
    PROVE  TabsAre(p)'
<1> SUFFICES ASSUME NEW t \in ToSet(tabs'), t.path = p
             PROVE  /\ (\A n \in ToSet(inbox') : ~Landed(n, p)) /\ (\A d \in Done' : p \notin {d[1], d[2]})
                       => t.saved = file'[p]
                    /\ \A d \in Done' : d[1] = p /\ d[2] # None => file'[d[2]] = t.saved
                    /\ \A d \in Done' : d[2] # p
    BY DEF TabsAre
<1>1. PICK u \in ToSet(tabs) : u.path = p /\ u.saved = t.saved
    OBVIOUS
<1>2. /\ (\A n \in ToSet(inbox) : ~Landed(n, p)) /\ (\A d \in Done : p \notin {d[1], d[2]})
         => t.saved = file[p]
      /\ \A d \in Done : d[1] = p /\ d[2] # None => file[d[2]] = t.saved
      /\ \A d \in Done : d[2] # p
    BY <1>1 DEF TabsAre
<1>3. (\A n \in ToSet(inbox') : ~Landed(n, p)) => \A n \in ToSet(inbox) : ~Landed(n, p)
    BY DEF Unheard
<1> QED BY <1>2, <1>3

LEMMA DoneIs ==
    ASSUME \A n \in ToSet(asks') : n.kind \in {"renamed", "deleted"} => n \in ToSet(asks),
           \A n \in ToSet(asks) : n.kind \in {"renamed", "deleted"} => n \in ToSet(asks'),
           \A n \in ToSet(inbox') : n.kind \in {"rename", "renamed", "delete", "deleted"} /\ n.ok => n \in ToSet(inbox),
           \A n \in ToSet(inbox) : n.kind \in {"rename", "renamed", "delete", "deleted"} /\ n.ok => n \in ToSet(inbox')
    PROVE  Done' = Done
<1>1. \A n : n \in Renames' <=> n \in Renames
    BY DEF Renames
<1> QED BY <1>1 DEF Done

\* A step about no file leaves what is known of the files.
LEMMA PathsAside ==
    ASSUME MailOK, MailAside, file' = file, TabsKept, NEW p \in Paths, PathIs(p)
    PROVE  PathIs(p)'
<1>1. /\ ReadsAre(p)' /\ WritesAre(p)' /\ (Unheard(p) => Unheard(p)')
      /\ \A n \in ToSet(inbox') : n.kind \in FileKinds /\ n.ok => n \in ToSet(inbox)
      /\ \A n \in ToSet(inbox) : n.kind \in FileKinds /\ n.ok => n \in ToSet(inbox')
  <2>1. CASE inbox' = inbox
      BY <2>1 DEF PathIs, ReadsAre, WritesAre, Unheard
  <2>2. ASSUME NEW notes \in Seq(Notes), inbox' = inbox \o notes, \A n \in ToSet(notes) : Inert(n)
        PROVE  /\ ReadsAre(p)' /\ WritesAre(p)' /\ (Unheard(p) => Unheard(p)')
               /\ \A n \in ToSet(inbox') : n.kind \in FileKinds /\ n.ok => n \in ToSet(inbox)
               /\ \A n \in ToSet(inbox) : n.kind \in FileKinds /\ n.ok => n \in ToSet(inbox')
    <3>1. \A n \in ToSet(notes) : ~Landed(n, p) /\ ~(n.kind = "read" /\ n.ok)
        BY <2>2 DEF Inert, Landed, FileKinds
    <3>2. ReadsAre(p)' /\ WritesAre(p)' /\ (Unheard(p)' <=> Unheard(p))
        BY <2>2, <3>1, InboxGrows DEF PathIs
    <3>3. ToSet(inbox') = ToSet(inbox) \cup ToSet(notes)
        BY <2>2, ConcatSet DEF MailOK
    <3> QED BY <2>2, <3>2, <3>3 DEF Inert
  <2>3. ASSUME inbox # <<>>, inbox' = Tail(inbox), Inert(Head(inbox))
        PROVE  /\ ReadsAre(p)' /\ WritesAre(p)' /\ (Unheard(p) => Unheard(p)')
               /\ \A n \in ToSet(inbox') : n.kind \in FileKinds /\ n.ok => n \in ToSet(inbox)
               /\ \A n \in ToSet(inbox) : n.kind \in FileKinds /\ n.ok => n \in ToSet(inbox')
    <3>1. ~Landed(Head(inbox), p)
        BY <2>3 DEF Inert, Landed, FileKinds
    <3>2. ReadsAre(p)' /\ WritesAre(p)' /\ (Unheard(p) => Unheard(p)')
        BY <2>3, <3>1, InboxShrinks DEF PathIs
    <3>3. ToSet(inbox) = ToSet(inbox') \cup {Head(inbox)}
        BY <2>3, TailSet DEF MailOK
    <3> QED BY <2>3, <3>2, <3>3 DEF Inert
  <2> QED BY <2>1, <2>2, <2>3 DEF MailAside, InboxAside
<1>2. Done' = Done
    BY <1>1, DoneIs DEF MailAside, AsksAside, FileKinds
<1>3. TabsAre(p)'
    BY <1>1, <1>2, TabsSpared DEF PathIs, TabsKept
<1> QED BY <1>1, <1>3 DEF PathIs

-----------------------------------------------------------------------------
(* The steps about no file.                                                 *)

LEMMA AsideStep ==
    ASSUME TabsInv, CrossedAfter, MailAside, MainTypes', TabTypes', file' = file, TabsKept
    PROVE  TabsInv'
<1>1. MailOK /\ MailOK' /\ crossed \in SUBSET Paths
    BY DEF TabsInv, LinkInv, MailAside
<1>2. CrossInv' /\ crossed' \in SUBSET Paths /\ crossed \subseteq crossed'
    BY <1>1, CrossInvNext
<1>3. ASSUME NEW p \in Paths \ crossed' PROVE PathIs(p)'
    BY <1>1, <1>2, PathsAside DEF TabsInv
<1> QED BY <1>1, <1>2, <1>3 DEF TabsInv, LinkInv

LEMMA OtherNote ==
    ASSUME NEW n \in Notes, n.kind \in OtherKinds
    PROVE  Sound(n) /\ (n.kind # "connected" => SoundAnswer(n)) /\ Inert(n) /\ n.kind \notin {"renamed", "deleted"}
BY DEF Sound, SoundAnswer, Inert, FileKinds, OtherKinds

LEMMA NewNote ==
    ASSUME NEW k \in FileKinds \cup OtherKinds
    PROVE  /\ Note(k) \in Notes /\ Note(k).kind = k
           /\ \A c \in Nat : [Note(k) EXCEPT !.conn = c] \in Notes /\ [Note(k) EXCEPT !.conn = c].kind = k
           /\ \A x \in Nat : [Note(k) EXCEPT !.of = x] \in Notes /\ [Note(k) EXCEPT !.of = x].kind = k
           /\ \A x \in Nat, c \in Nat : /\ [Note(k) EXCEPT !.of = x, !.num = c] \in Notes
                                        /\ [Note(k) EXCEPT !.of = x, !.num = c].kind = k
           /\ \A x \in {"new", "split"}, c \in Nat : /\ [Note(k) EXCEPT !.to = x, !.conn = c] \in Notes
                                                     /\ [Note(k) EXCEPT !.to = x, !.conn = c].kind = k
BY DEF Note, Notes

LEMMA NoteOf ==
    ASSUME NEW n \in Notes
    PROVE  /\ n.kind \in FileKinds \cup OtherKinds /\ n.num \in Nat /\ n.conn \in Nat /\ n.ok \in BOOLEAN
           /\ n.of \in Paths \cup Nat \cup {None} /\ n.to \in Paths \cup {None, "new", "split"}
           /\ \A b \in BOOLEAN : /\ [n EXCEPT !.ok = b] \in Notes /\ [n EXCEPT !.ok = b].ok = b
                                 /\ [n EXCEPT !.ok = b].kind = n.kind /\ [n EXCEPT !.ok = b].of = n.of
                                 /\ [n EXCEPT !.ok = b].to = n.to /\ [n EXCEPT !.ok = b].num = n.num
                                 /\ [n EXCEPT !.ok = b].conn = n.conn
           /\ \A k \in FileKinds \cup OtherKinds :
                 /\ [n EXCEPT !.kind = k] \in Notes /\ [n EXCEPT !.kind = k].kind = k
                 /\ [n EXCEPT !.kind = k].of = n.of /\ [n EXCEPT !.kind = k].to = n.to
                 /\ [n EXCEPT !.kind = k].num = n.num /\ [n EXCEPT !.kind = k].conn = n.conn
                 /\ [n EXCEPT !.kind = k].ok = n.ok
           /\ \A x \in Nat : [n EXCEPT !.of = x] \in Notes /\ [n EXCEPT !.of = x].kind = n.kind
BY DEF Notes

LEMMA OneNote == ASSUME NEW n \in Notes PROVE <<n>> \in Seq(Notes) /\ \A x \in ToSet(<<n>>) : x = n
BY DEF ToSet

LEMMA TwoNotes ==
    ASSUME NEW m \in Notes, NEW n \in Notes
    PROVE  <<m, n>> \in Seq(Notes) /\ \A x \in ToSet(<<m, n>>) : x = m \/ x = n
<1>1. /\ <<m, n>> \in Seq(Notes) /\ DOMAIN <<m, n>> = 1..2 /\ <<m, n>>[1] = m /\ <<m, n>>[2] = n
    OBVIOUS
<1>2. \A x \in ToSet(<<m, n>>) : \E i \in 1..2 : x = <<m, n>>[i]
    BY <1>1 DEF ToSet
<1>3. \A i \in 1..2 : i = 1 \/ i = 2
    OBVIOUS
<1> QED BY <1>1, <1>2, <1>3, Zenon

\* A session's end tells of each terminal that ran.
LEMMA ExitsAre ==
    ASSUME NEW S \in SUBSET Nat, IsFiniteSet(S)
    PROVE  ExitsOf(S) \in Seq(Notes) /\ \A n \in ToSet(ExitsOf(S)) : n \in Notes /\ n.kind = "exit"
<1>1. PICK b : b \in Bijection(1..Cardinality(S), S)
  <2>1. ExistsBijection(1..Cardinality(S), S) /\ Cardinality(S) \in Nat
      BY FS_CardinalityType, FS_NatBijection, FS_CountingElements
  <2> QED BY <2>1 DEF ExistsBijection
<1>2. Cardinality(S) \in Nat
    BY FS_CardinalityType
<1>3. SetToSeq(S) \in [1..Cardinality(S) -> S]
  <2>1. b \in [1..Cardinality(S) -> S] /\ IsInjective(b)
      BY <1>1 DEF Bijection, Injection
  <2> QED BY <2>1 DEF SetToSeq
<1>4. ExitsOf(S) = [k \in 1..Cardinality(S) |-> Exit(SetToSeq(S)[k])]
    BY <1>3 DEF ExitsOf
<1>5. \A k \in 1..Cardinality(S) : SetToSeq(S)[k] \in S
    BY <1>3
<1>6. \A x \in Nat : Exit(x) \in Notes /\ Exit(x).kind = "exit"
    BY NewNote DEF Exit, OtherKinds
<1> DEFINE exits == [k \in 1..Cardinality(S) |-> Exit(SetToSeq(S)[k])]
<1>7. \A k \in 1..Cardinality(S) : exits[k] \in Notes /\ exits[k].kind = "exit"
    BY <1>5, <1>6
<1>8. DOMAIN exits = 1..Cardinality(S)
    OBVIOUS
<1>9. exits \in [1..Cardinality(S) -> Notes]
    BY <1>7
<1> HIDE DEF exits
<1>10. exits \in Seq(Notes)
    BY <1>2, <1>9
<1>11. \A n \in ToSet(exits) : \E k \in 1..Cardinality(S) : n = exits[k]
    BY <1>8 DEF ToSet
<1>12. ExitsOf(S) = exits
    BY <1>4 DEF exits
<1> QED BY <1>7, <1>10, <1>11, <1>12

LEMMA ConnectionMail ==
    ASSUME MailOK, MainTypes, ConnectionSteps
    PROVE  MailAside /\ MainTypes'
<1>1. asks \in Seq(Notes) /\ inbox \in Seq(Notes)
    BY DEF MailOK
<1>2. CASE Connect /\ UNCHANGED <<tabVars, docVars, viewVars>>
  <2> DEFINE c == [Note("connect") EXCEPT !.conn = IF target \in {None, 0} THEN current ELSE target]
  <2>1. (IF target \in {None, 0} THEN current ELSE target) \in Nat
      BY DEF MainTypes
  <2>2. c \in Notes /\ c.kind = "connect"
      BY <2>1, NewNote DEF OtherKinds
  <2>3. Ask(c) /\ inbox' = inbox
      BY <1>2 DEF Connect
  <2>4. Sound(c) /\ c.kind \notin {"renamed", "deleted"}
      BY <2>2, OtherNote DEF OtherKinds
  <2>5. MailAside
      BY <2>2, <2>3, <2>4, AskedAside
  <2> QED BY <1>2, <2>5 DEF Connect, MainTypes, mainVars, viewVars
<1>3. CASE Disconnect /\ paused' = TRUE /\ UNCHANGED <<file, tabs, edits, docVars, viewVars>>
  <2>2. Note("disconnect") \in Notes /\ Note("disconnect").kind = "disconnect"
      BY NewNote DEF OtherKinds
  <2>3. Ask(Note("disconnect")) /\ inbox' = inbox
      BY <1>3 DEF Disconnect
  <2>4. Sound(Note("disconnect")) /\ Note("disconnect").kind \notin {"renamed", "deleted"}
      BY <2>2, OtherNote DEF OtherKinds
  <2>5. MailAside
      BY <2>2, <2>3, <2>4, AskedAside
  <2> QED BY <1>3, <2>5 DEF Disconnect, MainTypes, mainVars, viewVars
<1>4. ASSUME NEW i \in DOMAIN asks, ConnectSweeps(i)
      PROVE  MailAside /\ up' = 0 /\ UNCHANGED <<made, current, status, target>>
  <2>1. asks[i] \in Notes /\ asks[i].kind = "connect"
      BY <1>1, <1>4 DEF ConnectSweeps, Asked
  <2> DEFINE c == [asks[i] EXCEPT !.kind = "dial"]
  <2>2. c \in Notes /\ c.kind = "dial"
      BY <2>1, NoteOf DEF OtherKinds
  <2>3. asks' = [asks EXCEPT ![i] = c] /\ inbox' = Append(inbox, Note("disconnected"))
      BY <1>4 DEF ConnectSweeps
  <2>4. /\ Note("disconnected") \in Notes /\ Note("disconnected").kind \in OtherKinds
        /\ SoundAnswer(Note("disconnected"))
    <3>1. Note("disconnected") \in Notes /\ Note("disconnected").kind = "disconnected"
        BY NewNote DEF OtherKinds
    <3> QED BY <3>1, OtherNote DEF OtherKinds
  <2>5. MailAside
    <3> HIDE DEF c
    <3> QED BY <2>1, <2>2, <2>3, <2>4, RenamedCallAside DEF OtherKinds
  <2> QED BY <1>4, <2>5 DEF ConnectSweeps, appVars
<1>5. ASSUME NEW i \in DOMAIN asks, Connected(i), MainTypes
      PROVE  MailAside /\ up' \in Nat /\ up' <= MaxLinks /\ made' \in Nat /\ UNCHANGED <<current, status, target>>
  <2>1. asks[i] \in Notes /\ asks[i].kind = "dial" /\ made + 1 \in Nat
      BY <1>1, <1>5 DEF Connected, Asked, MainTypes
  <2> DEFINE c == [asks[i] EXCEPT !.kind = "record", !.num = made + 1]
  <2>2. c \in Notes /\ c.kind = "record"
      BY <2>1 DEF Notes, OtherKinds
  <2>3. asks' = [asks EXCEPT ![i] = c] /\ inbox' = Append(inbox, [Note("connected") EXCEPT !.conn = made + 1])
      BY <1>5, <1>1 DEF Connected
  <2> DEFINE n == [Note("connected") EXCEPT !.conn = made + 1]
  <2>4. n \in Notes /\ n.kind = "connected" /\ n.conn = made + 1
      BY <2>1 DEF Note, Notes, OtherKinds
  <2>5. MailAside
    <3>0. n.conn \in 0..MaxLinks
        BY <1>5, <2>4, LinksAssumption DEF Connected, MainTypes
    <3> HIDE DEF c, n
    <3>1. SoundAnswer(n) /\ n.kind \in OtherKinds
        BY <2>4, <3>0 DEF Sound, SoundAnswer, FileKinds, OtherKinds
    <3>2. inbox' = Append(inbox, n)
        BY <2>3 DEF n
    <3> QED BY <2>1, <2>2, <2>3, <2>4, <3>1, <3>2, RenamedCallAside DEF OtherKinds
  <2>6. up' = made + 1 /\ made' = made + 1 /\ made + 1 <= MaxLinks
      BY <1>5, LinksAssumption DEF Connected, MainTypes
  <2> QED BY <1>5, <2>1, <2>5, <2>6 DEF Connected, appVars
<1>6. ASSUME NEW i \in DOMAIN asks, ConnectFails(i)
      PROVE  MailAside /\ up' = 0 /\ UNCHANGED <<made, current, status, target>>
  <2>1. asks[i] \in Notes /\ asks[i].kind = "dial"
      BY <1>1, <1>6 DEF ConnectFails, Asked
  <2> DEFINE c == [asks[i] EXCEPT !.ok = FALSE]
  <2>2. c \in Notes /\ c.kind = "dial"
      BY <2>1, NoteOf
  <2>3. Note("error") \in Notes /\ Note("error").kind = "error"
      BY NewNote DEF OtherKinds
  <2>4. Settle(i, <<Note("error"), c>>)
      BY <1>6 DEF ConnectFails
  <2> HIDE DEF c
  <2>5. <<Note("error"), c>> \in Seq(Notes) /\ \A n \in ToSet(<<Note("error"), c>>) : SoundAnswer(n) /\ Inert(n)
      BY <2>2, <2>3, TwoNotes, OtherNote DEF OtherKinds
  <2>6. MailAside
      BY <2>1, <2>4, <2>5, SettledAside
  <2> QED BY <1>6, <2>6 DEF ConnectFails, appVars
<1>7. ASSUME NEW i \in DOMAIN asks, ConnectRecorded(i)
      PROVE  MailAside /\ UNCHANGED <<up, made, current, status, target>>
  <2>1. asks[i] \in Notes /\ asks[i].kind = "record"
      BY <1>1, <1>7 DEF ConnectRecorded, Asked
  <2>2. PICK good \in BOOLEAN : Answer(i, good)
      BY <1>7 DEF ConnectRecorded
  <2> DEFINE c == [asks[i] EXCEPT !.ok = good]
  <2>3. c \in Notes /\ c.kind = "record"
      BY <2>1, NoteOf
  <2>4. Settle(i, <<c>>)
      BY <2>2 DEF Answer
  <2> HIDE DEF c
  <2>5. <<c>> \in Seq(Notes) /\ \A n \in ToSet(<<c>>) : SoundAnswer(n) /\ Inert(n)
      BY <2>3, OneNote, OtherNote DEF OtherKinds
  <2>6. MailAside
      BY <2>1, <2>4, <2>5, SettledAside
  <2> QED BY <1>7, <2>6 DEF ConnectRecorded, appVars, mainVars
<1>8. ASSUME NEW i \in DOMAIN asks, Disconnected(i)
      PROVE  MailAside /\ up' = 0 /\ UNCHANGED <<made, current, status, target>>
  <2>1. asks[i] \in Notes /\ asks[i].kind = "disconnect"
      BY <1>1, <1>8 DEF Disconnected, Asked
  <2>3. Note("disconnected") \in Notes /\ Note("disconnected").kind = "disconnected"
      BY NewNote DEF OtherKinds
  <2>4. Settle(i, <<Note("disconnected"), asks[i]>>)
      BY <1>8 DEF Disconnected
  <2>5. /\ <<Note("disconnected"), asks[i]>> \in Seq(Notes)
        /\ \A n \in ToSet(<<Note("disconnected"), asks[i]>>) : SoundAnswer(n) /\ Inert(n)
      BY <2>1, <2>3, TwoNotes, OtherNote DEF OtherKinds
  <2>6. MailAside
      BY <2>1, <2>4, <2>5, SettledAside
  <2> QED BY <1>8, <2>6 DEF Disconnected, appVars
<1>9. ASSUME Lost(ExitsOf(running)), MainTypes PROVE MailAside /\ up' = 0 /\ UNCHANGED <<made, current, status, target>>
  <2> DEFINE d == [Note("disconnected") EXCEPT !.conn = up]
  <2>1. d \in Notes /\ d.kind = "disconnected"
      BY <1>9, NewNote DEF OtherKinds, MainTypes
  <2>2. ExitsOf(running) \in Seq(Notes) /\ \A n \in ToSet(ExitsOf(running)) : n \in Notes /\ n.kind = "exit"
      BY <1>9, ExitsAre DEF MainTypes
  <2>3. inbox' = Append(inbox, d) \o ExitsOf(running) /\ asks' = asks
      BY <1>9 DEF Lost
  <2> HIDE DEF d
  <2>4. <<d>> \in Seq(Notes) /\ \A n \in ToSet(<<d>>) : n = d
      BY <2>1, OneNote
  <2>5. /\ <<d>> \o ExitsOf(running) \in Seq(Notes)
        /\ ToSet(<<d>> \o ExitsOf(running)) = ToSet(<<d>>) \cup ToSet(ExitsOf(running))
      BY <2>2, <2>4, ConcatSet, ZenonT(60)
  <2>6. \A n \in ToSet(<<d>> \o ExitsOf(running)) : SoundAnswer(n) /\ Inert(n)
      BY <2>1, <2>2, <2>4, <2>5, OtherNote DEF OtherKinds
  <2>7. inbox' = inbox \o (<<d>> \o ExitsOf(running))
    <3> HIDE DEF ExitsOf
    <3> QED BY <1>1, <2>2, <2>3, <2>4
  <2>8. MailAside
      BY <2>3, <2>5, <2>6, <2>7, SentAside
  <2> QED BY <1>9, <2>8 DEF Lost, appVars
<1>10. ASSUME inbox # <<>>, inbox' = Tail(inbox), asks' = asks, Head(inbox).kind \in OtherKinds
       PROVE  MailAside /\ Head(inbox).conn \in Nat /\ Head(inbox).num \in Nat
  <2>1. Head(inbox) \in Notes
      BY <1>10, HeardMail
  <2>2. Inert(Head(inbox)) /\ Head(inbox).conn \in Nat /\ Head(inbox).num \in Nat
      BY <1>10, <2>1, OtherNote, NoteOf
  <2> QED BY <1>10, <2>2, HeardAside
<1>11. ASSUME SessionEnds, MailAside, up' = 0, UNCHANGED <<made, current, status, target>>, MainTypes
       PROVE  MainTypes'
    BY <1>11, FS_EmptySet, LinksAssumption DEF SessionEnds, TerminalsEnd, MainTypes
<1>12. CASE \E i \in DOMAIN asks : (ConnectSweeps(i) \/ Disconnected(i)) /\ SessionEnds
    BY <1>4, <1>8, <1>11, <1>12
<1>13. CASE \E i \in DOMAIN asks :
               (Connected(i) \/ ConnectFails(i) \/ ConnectRecorded(i)) /\ UNCHANGED <<tabVars, docVars, viewVars>>
    BY <1>5, <1>6, <1>7, <1>13, LinksAssumption DEF MainTypes, viewVars
<1>14. CASE Lost(ExitsOf(running)) /\ SessionEnds
    BY <1>9, <1>11, <1>14
<1>15. CASE (OnConnected \/ OnDisconnected \/ OnError) /\ UNCHANGED <<file, tabs, edits>> /\ Rendered
  <2>1. MailAside /\ Head(inbox).conn \in Nat
      BY <1>10, <1>15 DEF OnConnected, OnDisconnected, OnError, Heard, OtherKinds
  <2>2. current' \in Nat /\ target' \in Nat \cup {None} /\ UNCHANGED <<up, made>>
      BY <1>15, <2>1 DEF OnConnected, OnDisconnected, OnError, Previous, mainVars, MainTypes
  <2>3. UNCHANGED <<running, created, printed>>
      BY <1>15 DEF Rendered, PanelRendered
  <2>4. status'.conn \in Nat
    <3>1. current' = Head(inbox).conn \/ ~OnConnected
        BY DEF OnConnected
    <3> QED BY <1>15, <2>1, <3>1 DEF OnConnected, OnDisconnected, OnError, State
  <2> QED BY <2>1, <2>2, <2>3, <2>4 DEF MainTypes
<1>16. CASE OnDisconnectAnswer /\ UNCHANGED <<tabVars, docVars, viewVars>>
  <2>1. MailAside
      BY <1>10, <1>16 DEF OnDisconnectAnswer, Heard, OtherKinds
  <2> QED BY <1>16, <2>1 DEF OnDisconnectAnswer, mainVars, viewVars, MainTypes
<1>18. CASE ((\E c \in loading : FilesReady(c)) \/ SocketError) /\ UNCHANGED <<tabVars, docVars, viewVars>>
  <2>1. PICK kind \in {"connected", "error"} :
               asks' = asks /\ inbox' = Append(inbox, [Note(kind) EXCEPT !.conn = up])
      BY <1>18 DEF FilesReady, SocketError
  <2> DEFINE n == [Note(kind) EXCEPT !.conn = up]
  <2>2. n \in Notes /\ n.kind = kind /\ n.conn = up
      BY DEF Note, Notes, OtherKinds, MainTypes
  <2>3. inbox' = Append(inbox, n) /\ up \in 0..MaxLinks
      BY <2>1, LinksAssumption DEF MainTypes
  <2> HIDE DEF n
  <2>4. SoundAnswer(n) /\ Inert(n)
      BY <2>2, <2>3 DEF Sound, SoundAnswer, FileKinds, Inert
  <2>5. <<n>> \in Seq(Notes) /\ (\A x \in ToSet(<<n>>) : x = n) /\ inbox' = inbox \o <<n>>
      BY <1>1, <2>2, <2>3, OneNote
  <2>6. MailAside
      BY <2>1, <2>4, <2>5, SentAside
  <2> QED BY <1>18, <2>6 DEF FilesReady, SocketError, viewVars, appVars, MainTypes
<1>17. CASE OnConnectAnswer /\ Remapped(Head(inbox)) /\ UNCHANGED <<file, edits>> /\ Rendered
  <2>1. MailAside /\ Head(inbox).num \in Nat
      BY <1>10, <1>17 DEF OnConnectAnswer, Heard, OtherKinds
  <2>2. target' \in Nat \cup {None} /\ UNCHANGED <<up, made, current, status>>
      BY <1>17, <2>1 DEF OnConnectAnswer, mainVars, MainTypes
  <2>3. UNCHANGED <<running, created, printed>>
      BY <1>17 DEF Rendered, PanelRendered
  <2> QED BY <2>1, <2>2, <2>3 DEF MainTypes
<1> QED BY <1>2, <1>3, <1>12, <1>13, <1>14, <1>15, <1>16, <1>17, <1>18 DEF ConnectionSteps

LEMMA TerminalMail ==
    ASSUME MailOK, MainTypes, TerminalSteps
    PROVE  MailAside /\ MainTypes'
<1>1. asks \in Seq(Notes) /\ inbox \in Seq(Notes)
    BY DEF MailOK
<1>2. ASSUME inbox' = inbox, asks' = asks PROVE MailAside
    BY <1>2 DEF MailAside, AsksAside, InboxAside, MailOK
<1>3. ASSUME NEW mode \in {"new", "split"}, OpenTerminal(mode) PROVE MailAside /\ MainTypes'
  <2> DEFINE c == [Note("terminal") EXCEPT !.to = mode, !.conn = status.conn]
  <2>0. status.conn \in Nat
      BY DEF MainTypes
  <2>1. c \in Notes /\ c.kind = "terminal"
      BY <2>0, NewNote DEF OtherKinds
  <2>2. Ask(c) /\ inbox' = inbox
      BY <1>3 DEF OpenTerminal
  <2> HIDE DEF c
  <2>3. Sound(c) /\ c.kind \notin {"renamed", "deleted"}
      BY <2>1, OtherNote DEF OtherKinds
  <2>4. MailAside
      BY <2>1, <2>2, <2>3, AskedAside
  <2> QED BY <1>3, <2>4 DEF OpenTerminal, MainTypes, mainVars, appVars, viewVars
<1>4. ASSUME NEW n \in Terminals, CloseTerminal(n), n \in Nat PROVE MailAside /\ MainTypes'
  <2> DEFINE c == [Note("hang") EXCEPT !.of = n]
  <2>1. c \in Notes /\ c.kind = "hang"
      BY <1>4, NewNote DEF OtherKinds
  <2>2. Ask(c) /\ inbox' = inbox
      BY <1>4 DEF CloseTerminal
  <2> HIDE DEF c
  <2>3. Sound(c) /\ c.kind \notin {"renamed", "deleted"}
      BY <2>1, OtherNote DEF OtherKinds
  <2>4. MailAside
      BY <2>1, <2>2, <2>3, AskedAside
  <2> QED BY <1>4, <2>4 DEF CloseTerminal, MainTypes, mainVars, appVars
<1>5. ASSUME NEW n \in Terminals, RevealTerminal(n) \/ Frame(n) PROVE MailAside /\ MainTypes'
  <2>1. MailAside
      BY <1>2, <1>5 DEF RevealTerminal, Frame, linkVars
  <2> QED BY <1>5, <2>1 DEF RevealTerminal, Frame, linkVars, MainTypes, mainVars, appVars
<1>6. ASSUME NEW n \in Terminals, Output(n), n \in Nat PROVE MailAside /\ MainTypes'
  <2> DEFINE c == [Note("data") EXCEPT !.of = n, !.num = printed[n] + 1]
  <2>1. printed[n] + 1 \in Nat
      BY DEF MainTypes
  <2>2. c \in Notes /\ c.kind = "data"
      BY <1>6, <2>1 DEF Note, Notes, OtherKinds
  <2>3. inbox' = Append(inbox, c) /\ asks' = asks
      BY <1>6 DEF Output
  <2> HIDE DEF c
  <2>4. <<c>> \in Seq(Notes) /\ \A x \in ToSet(<<c>>) : SoundAnswer(x) /\ Inert(x)
      BY <2>2, OneNote, OtherNote DEF OtherKinds
  <2>5. inbox' = inbox \o <<c>>
      BY <1>1, <2>2, <2>3
  <2>6. MailAside
      BY <2>3, <2>4, <2>5, SentAside
  <2>7. printed' \in [Terminals -> Nat]
      BY <1>6, <2>1 DEF Output, MainTypes
  <2> QED BY <1>6, <2>6, <2>7 DEF Output, MainTypes, mainVars, appVars
<1>7. ASSUME NEW n \in Terminals, TerminalExits(n), n \in Nat PROVE MailAside /\ MainTypes'
  <2>1. Exit(n) \in Notes /\ Exit(n).kind = "exit"
      BY <1>7, NewNote DEF Exit, OtherKinds
  <2>2. inbox' = Append(inbox, Exit(n)) /\ asks' = asks
      BY <1>7 DEF TerminalExits
  <2>3. <<Exit(n)>> \in Seq(Notes) /\ \A x \in ToSet(<<Exit(n)>>) : SoundAnswer(x) /\ Inert(x)
      BY <2>1, OneNote, OtherNote DEF OtherKinds
  <2>4. inbox' = inbox \o <<Exit(n)>>
      BY <1>1, <2>1, <2>2
  <2>5. MailAside
      BY <2>2, <2>3, <2>4, SentAside
  <2>6. running' \in SUBSET Nat /\ IsFiniteSet(running')
      BY <1>7, FS_Subset DEF TerminalExits, MainTypes
  <2> QED BY <1>7, <2>5, <2>6 DEF TerminalExits, MainTypes, mainVars, appVars
<1>8. ASSUME NEW i \in DOMAIN asks, CreateTerminal(i) PROVE MailAside /\ MainTypes'
  <2>1. asks[i] \in Notes /\ asks[i].kind = "terminal" /\ Len(created) + 1 \in Nat
      BY <1>1, <1>8 DEF CreateTerminal, Asked, MainTypes
  <2>2. ASSUME NEW c \in Notes, c.kind = "terminal", Settle(i, <<c>>) PROVE MailAside
    <3>1. <<c>> \in Seq(Notes) /\ \A x \in ToSet(<<c>>) : SoundAnswer(x) /\ Inert(x)
        BY <2>2, OneNote, OtherNote DEF OtherKinds
    <3> QED BY <2>1, <2>2, <3>1, SettledAside
  <2>3. MailAside
    <3>1. CASE Answer(i, FALSE)
      <4>1. [asks[i] EXCEPT !.ok = FALSE] \in Notes /\ [asks[i] EXCEPT !.ok = FALSE].kind = "terminal"
          BY <2>1, NoteOf
      <4> QED BY <2>2, <3>1, <4>1 DEF Answer
    <3>2. CASE Settle(i, <<[asks[i] EXCEPT !.of = Len(created) + 1]>>)
      <4>1. [asks[i] EXCEPT !.of = Len(created) + 1] \in Notes /\ [asks[i] EXCEPT !.of = Len(created) + 1].kind = "terminal"
          BY <2>1, NoteOf
      <4> QED BY <2>2, <3>2, <4>1
    <3> QED BY <1>8, <3>1, <3>2 DEF CreateTerminal
  <2>4. created' \in Seq(Nat) /\ running' \in SUBSET Nat /\ IsFiniteSet(running')
    <3>1. IsFiniteSet(running) /\ running \in SUBSET Nat /\ created \in Seq(Nat) /\ up \in Nat
        BY DEF MainTypes
    <3>2. IsFiniteSet(running \cup {Len(created) + 1})
        BY <3>1, FS_AddElement
    <3>3. \/ created' = Append(created, up) /\ running' = running \cup {Len(created) + 1}
          \/ created' = created /\ running' = running
        BY <1>8 DEF CreateTerminal
    <3>4. Append(created, up) \in Seq(Nat)
        BY <3>1
    <3> QED BY <2>1, <3>1, <3>2, <3>3, <3>4
  <2> QED BY <1>8, <2>3, <2>4 DEF CreateTerminal, MainTypes, mainVars, appVars
<1>9. ASSUME NEW i \in DOMAIN asks, HangUp(i) PROVE MailAside /\ MainTypes'
  <2>1. asks[i] \in Notes /\ asks[i].kind = "hang"
      BY <1>1, <1>9 DEF HangUp, Asked
  <2>2. ASSUME asks[i].of \in running PROVE MailAside
    <3>1. Exit(asks[i].of) \in Notes /\ Exit(asks[i].of).kind = "exit"
        BY <2>2, NewNote DEF Exit, OtherKinds, MainTypes
    <3>2. Settle(i, <<Exit(asks[i].of), asks[i]>>)
        BY <1>9, <2>2 DEF HangUp
    <3>3. /\ <<Exit(asks[i].of), asks[i]>> \in Seq(Notes)
          /\ \A x \in ToSet(<<Exit(asks[i].of), asks[i]>>) : SoundAnswer(x) /\ Inert(x)
        BY <2>1, <3>1, TwoNotes, OtherNote DEF OtherKinds
    <3> QED BY <2>1, <3>2, <3>3, SettledAside
  <2>3. ASSUME asks[i].of \notin running PROVE MailAside
    <3>1. Settle(i, <<asks[i]>>)
        BY <1>9, <2>3 DEF HangUp
    <3>2. <<asks[i]>> \in Seq(Notes) /\ \A x \in ToSet(<<asks[i]>>) : SoundAnswer(x) /\ Inert(x)
        BY <2>1, OneNote, OtherNote DEF OtherKinds
    <3> QED BY <2>1, <3>1, <3>2, SettledAside
  <2>4. running' \in SUBSET Nat /\ IsFiniteSet(running')
      BY <1>9, FS_Subset DEF HangUp, MainTypes
  <2>5. MailAside
      BY <2>2, <2>3
  <2> QED BY <1>9, <2>4, <2>5 DEF HangUp, MainTypes, mainVars, appVars
<1>10. ASSUME inbox # <<>>, inbox' = Tail(inbox), Head(inbox).kind \in OtherKinds
       PROVE  Head(inbox) \in Notes /\ Inert(Head(inbox))
  <2>1. Head(inbox) \in Notes
      BY <1>1, <1>10, TailSet
  <2> QED BY <1>10, <2>1, OtherNote
<1>11. ASSUME OnTerminal PROVE MailAside /\ MainTypes'
  <2>1. Head(inbox) \in Notes /\ Inert(Head(inbox)) /\ inbox # <<>> /\ inbox' = Tail(inbox)
      BY <1>10, <1>11 DEF OnTerminal, Heard, OtherKinds
  <2> DEFINE c == [Note("hang") EXCEPT !.of = Head(inbox).of]
  <2>2. asks' = asks \/ Ask(c)
      BY <1>11 DEF OnTerminal
  <2>3. c \in Notes /\ c.kind = "hang"
      BY <2>1, NoteOf DEF Note, Notes, OtherKinds
  <2> HIDE DEF c
  <2>4. Sound(c) /\ c.kind \notin {"renamed", "deleted"}
      BY <2>3, OtherNote DEF OtherKinds
  <2>5. MailAside
      BY <2>1, <2>2, <2>3, <2>4, HeardAside, HeardAskedAside
  <2> QED BY <1>11, <2>5 DEF OnTerminal, MainTypes, mainVars, appVars
<1>12. ASSUME OnHungUp \/ OnTerminalEvent PROVE MailAside /\ MainTypes'
  <2>1. Inert(Head(inbox)) /\ inbox # <<>> /\ inbox' = Tail(inbox) /\ asks' = asks
      BY <1>10, <1>12 DEF OnHungUp, OnTerminalEvent, Heard, OtherKinds
  <2>2. MailAside
      BY <2>1, HeardAside
  <2> QED BY <1>12, <2>2 DEF OnHungUp, OnTerminalEvent, MainTypes, mainVars, appVars, viewVars
<1>13. \A n \in Terminals : n \in Nat
    BY DEF Terminals
<1> QED BY <1>3, <1>4, <1>5, <1>6, <1>7, <1>8, <1>9, <1>11, <1>12, <1>13 DEF TerminalSteps

-----------------------------------------------------------------------------
(* The steps about files that change none, nor what a tab holds of it.      *)

LEMMA TabsMapped ==
    ASSUME TabTypes, NEW f, f = [j \in DOMAIN tabs |-> f[j]], \A j \in DOMAIN tabs : f[j] \in TabSet
    PROVE  f \in Seq(TabSet) /\ \A t \in ToSet(f) : \E j \in DOMAIN tabs : t = f[j] /\ tabs[j] \in ToSet(tabs)
<1>1. tabs \in Seq(TabSet)
    BY DEF TabTypes
<1>2. DOMAIN tabs = 1..Len(tabs) /\ Len(tabs) \in Nat /\ \A j \in DOMAIN tabs : tabs[j] \in ToSet(tabs)
    BY <1>1, InSet
<1>3. DOMAIN f = DOMAIN tabs
    OBVIOUS
<1>4. f \in [1..Len(tabs) -> TabSet]
    BY <1>2
<1>5. f \in Seq(TabSet)
    BY <1>2, <1>4
<1>6. \A t \in ToSet(f) : \E j \in DOMAIN tabs : t = f[j]
    BY <1>3 DEF ToSet
<1> QED BY <1>2, <1>5, <1>6

LEMMA TabsSame == ASSUME TabTypes, tabs' = tabs PROVE TabsKept
BY DEF TabsKept

LEMMA TabIs ==
    ASSUME NEW t \in TabSet
    PROVE  /\ t.conn \in Nat /\ t.path \in Paths /\ t.text \in Nat \ {0} /\ t.saved \in Nat \ {0} /\ t.saving \in BOOLEAN
           /\ \A x \in Nat \ {0} : /\ [t EXCEPT !.text = x] \in TabSet /\ [t EXCEPT !.text = x].path = t.path
                                   /\ [t EXCEPT !.text = x].saved = t.saved
           /\ \A b \in BOOLEAN : /\ [t EXCEPT !.saving = b] \in TabSet /\ [t EXCEPT !.saving = b].path = t.path
                                 /\ [t EXCEPT !.saving = b].saved = t.saved
           /\ \A c \in Nat : /\ [t EXCEPT !.conn = c] \in TabSet /\ [t EXCEPT !.conn = c].path = t.path
                             /\ [t EXCEPT !.conn = c].saved = t.saved
           /\ \A p \in Paths : /\ [t EXCEPT !.path = p] \in TabSet /\ [t EXCEPT !.path = p].path = p
                               /\ [t EXCEPT !.path = p].saved = t.saved
           /\ \A x \in Nat \ {0} : /\ SavedState(t, x) \in TabSet /\ SavedState(t, x).path = t.path
                                   /\ SavedState(t, x).saved = x
BY DEF TabSet, SavedState

LEMMA CallNotes ==
    ASSUME NEW p \in Paths, NEW c \in Nat
    PROVE  /\ \A k \in {"read", "delete"} :
                 /\ [Note(k) EXCEPT !.of = p, !.conn = c] \in Notes
                 /\ Sound([Note(k) EXCEPT !.of = p, !.conn = c])
                 /\ [Note(k) EXCEPT !.of = p, !.conn = c].kind = k
           /\ \A q \in Paths : p # q =>
                 /\ [Note("rename") EXCEPT !.of = p, !.to = q, !.conn = c] \in Notes
                 /\ Sound([Note("rename") EXCEPT !.of = p, !.to = q, !.conn = c])
                 /\ [Note("rename") EXCEPT !.of = p, !.to = q, !.conn = c].kind = "rename"
           /\ \A x \in Nat \ {0} :
                 /\ [Note("write") EXCEPT !.of = p, !.num = x, !.conn = c] \in Notes
                 /\ Sound([Note("write") EXCEPT !.of = p, !.num = x, !.conn = c])
                 /\ [Note("write") EXCEPT !.of = p, !.num = x, !.conn = c].kind = "write"
BY ZenonT(60) DEF Note, Notes, Sound, FileKinds, OtherKinds

\* Calls about files.
LEMMA FileCalls ==
    ASSUME LinkInv, NEW p \in Paths, OpenFile(p) \/ DeleteEntry(p) \/ \E q \in Paths : RenameEntry(p, q)
    PROVE  MailAside /\ TabTypes' /\ file' = file /\ TabsKept /\ UNCHANGED <<up, made, current, target>>
<1>1. MailOK /\ current \in Nat /\ TabTypes
    BY DEF LinkInv, MainTypes
<1>2. UNCHANGED <<inbox, mainVars, appVars, tabVars>>
    BY DEF OpenFile, DeleteEntry, RenameEntry
<1>3. TabTypes' /\ TabsKept
    BY <1>1, <1>2, TabsSame DEF TabTypes, tabVars
<1>4. ASSUME OpenFile(p) PROVE MailAside
    BY <1>1, <1>2, <1>4, CallNotes, AskedAside, ZenonT(60) DEF OpenFile
<1>5. ASSUME DeleteEntry(p) PROVE MailAside
    BY <1>1, <1>2, <1>5, CallNotes, AskedAside, ZenonT(60) DEF DeleteEntry
<1>6. ASSUME NEW q \in Paths, RenameEntry(p, q) PROVE MailAside
  <2> DEFINE c == [Note("rename") EXCEPT !.of = p, !.to = q, !.conn = current]
  <2>1. c \in Notes /\ Sound(c) /\ c.kind = "rename"
      BY <1>1, <1>6, CallNotes DEF RenameEntry
  <2>2. Ask(c)
      BY <1>6 DEF RenameEntry
  <2> HIDE DEF c
  <2> QED BY <1>1, <1>2, <2>1, <2>2, AskedAside
<1> QED BY <1>2, <1>3, <1>4, <1>5, <1>6 DEF mainVars, appVars, tabVars

LEMMA TabGestures ==
    ASSUME LinkInv, NEW i \in DOMAIN tabs, CloseTab(i) \/ SaveNow(i) \/ AutoSave(i) \/ EditTab(i)
    PROVE  MailAside /\ TabTypes' /\ file' = file /\ TabsKept /\ UNCHANGED <<up, made, current, target>>
<1>1. /\ MailOK /\ current \in Nat /\ TabTypes /\ tabs \in Seq(TabSet) /\ edits \in Nat \ {0}
      /\ file \in [Paths -> Nat]
    BY DEF LinkInv, MainTypes, TabTypes
<1>2. \A j \in DOMAIN tabs : tabs[j] \in TabSet /\ tabs[j] \in ToSet(tabs)
    BY <1>1, InSet
<1>3. ASSUME inbox' = inbox, asks' = asks PROVE MailAside
    BY <1>1, <1>3 DEF MailAside, AsksAside, InboxAside, MailOK
<1>4. CASE CloseTab(i)
  <2>1. MailAside /\ file' = file /\ edits' = edits /\ UNCHANGED <<up, made, current, target>>
      BY <1>3, <1>4 DEF CloseTab, mainVars, appVars
  <2>2. DOMAIN tabs \ Like(i) \in SUBSET DOMAIN tabs /\ tabs' = TabsAt(DOMAIN tabs \ Like(i))
      BY <1>4 DEF CloseTab
  <2>3. tabs' \in Seq(TabSet) /\ \A t \in ToSet(tabs') : \E j \in DOMAIN tabs \ Like(i) : t = tabs[j]
      BY <1>1, <2>2, TabsAtAre
  <2>4. TabsKept
      BY <1>2, <2>3 DEF TabsKept
  <2> QED BY <1>1, <2>1, <2>3, <2>4 DEF TabTypes
<1>5. ASSUME SaveTab(i) PROVE MailAside /\ TabTypes' /\ file' = file /\ TabsKept /\ UNCHANGED <<up, made, current, target>>
  <2> DEFINE c == [Note("write") EXCEPT !.of = tabs[i].path, !.num = tabs[i].text, !.conn = current]
  <2>1. file' = file /\ edits' = edits /\ inbox' = inbox /\ UNCHANGED <<up, made, current, target>> /\ Ask(c)
      BY <1>5 DEF SaveTab, mainVars, appVars
  <2>2. tabs[i].path \in Paths /\ tabs[i].text \in Nat \ {0}
      BY <1>2, TabIs
  <2>3. c \in Notes /\ Sound(c) /\ c.kind = "write"
      BY <1>1, <2>2 DEF Note, Notes, Sound, FileKinds, OtherKinds
  <2> HIDE DEF c
  <2>4. MailAside
      BY <1>1, <2>1, <2>3, AskedAside
  <2>5. tabs' = [j \in DOMAIN tabs |-> IF j \in Like(i) THEN [tabs[j] EXCEPT !.saving = TRUE] ELSE tabs[j]]
      BY <1>5 DEF SaveTab
  <2>6. ASSUME NEW j \in DOMAIN tabs
        PROVE  tabs'[j] \in TabSet /\ tabs'[j].path = tabs[j].path /\ tabs'[j].saved = tabs[j].saved
    <3>1. PICK t \in TabSet : t = tabs[j]
        BY <1>2
    <3>2. tabs'[j] = [t EXCEPT !.saving = TRUE] \/ tabs'[j] = t
        BY <2>5, <3>1
    <3>3. /\ [t EXCEPT !.saving = TRUE] \in TabSet /\ [t EXCEPT !.saving = TRUE].path = t.path
          /\ [t EXCEPT !.saving = TRUE].saved = t.saved
        BY DEF TabSet
    <3> QED BY <3>1, <3>2, <3>3
  <2>7. tabs' = [j \in DOMAIN tabs |-> tabs'[j]]
      BY <2>5
  <2>8. tabs' \in Seq(TabSet) /\ \A t \in ToSet(tabs') : \E j \in DOMAIN tabs : t = tabs'[j] /\ tabs[j] \in ToSet(tabs)
      BY <1>1, <2>6, <2>7, TabsMapped
  <2>9. TabsKept
      BY <2>6, <2>8 DEF TabsKept
  <2> QED BY <1>1, <2>1, <2>4, <2>8, <2>9 DEF TabTypes
<1>6. CASE EditTab(i)
  <2>1. MailAside /\ file' = file /\ edits' \in Nat \ {0} /\ UNCHANGED <<up, made, current, target>>
      BY <1>1, <1>3, <1>6 DEF EditTab, mainVars, appVars
  <2>5. tabs' = [j \in DOMAIN tabs |-> IF j \in Like(i) THEN [tabs[j] EXCEPT !.text = edits'] ELSE tabs[j]]
      BY <1>6 DEF EditTab
  <2>6. ASSUME NEW j \in DOMAIN tabs
        PROVE  tabs'[j] \in TabSet /\ tabs'[j].path = tabs[j].path /\ tabs'[j].saved = tabs[j].saved
    <3>1. PICK t \in TabSet : t = tabs[j]
        BY <1>2
    <3>2. tabs'[j] = [t EXCEPT !.text = edits'] \/ tabs'[j] = t
        BY <2>5, <3>1
    <3>3. /\ [t EXCEPT !.text = edits'] \in TabSet /\ [t EXCEPT !.text = edits'].path = t.path
          /\ [t EXCEPT !.text = edits'].saved = t.saved
        BY <2>1 DEF TabSet
    <3> QED BY <3>1, <3>2, <3>3
  <2>7. tabs' = [j \in DOMAIN tabs |-> tabs'[j]]
      BY <2>5
  <2>8. tabs' \in Seq(TabSet) /\ \A t \in ToSet(tabs') : \E j \in DOMAIN tabs : t = tabs'[j] /\ tabs[j] \in ToSet(tabs)
      BY <1>1, <2>6, <2>7, TabsMapped
  <2>9. TabsKept
      BY <2>6, <2>8 DEF TabsKept
  <2> QED BY <1>1, <2>1, <2>8, <2>9 DEF TabTypes
<1> QED BY <1>4, <1>5, <1>6 DEF SaveNow, AutoSave

\* A connect is answered.
LEMMA RemapKeeps ==
    ASSUME LinkInv, NEW m \in Notes, Remapped(m), UNCHANGED <<file, edits>>
    PROVE  TabTypes' /\ TabsKept
<1>1. TabTypes /\ tabs \in Seq(TabSet) /\ edits \in Nat \ {0} /\ file \in [Paths -> Nat]
    BY DEF LinkInv, TabTypes
<1>2. \A j \in DOMAIN tabs : tabs[j] \in TabSet /\ tabs[j] \in ToSet(tabs)
    BY <1>1, InSet
<1>3. tabs' = [j \in DOMAIN tabs |-> IF m.ok /\ m.conn # 0 /\ tabs[j].conn = m.conn
                                     THEN [tabs[j] EXCEPT !.conn = m.num] ELSE tabs[j]]
    BY DEF Remapped
<1>4. ASSUME NEW j \in DOMAIN tabs
      PROVE  tabs'[j] \in TabSet /\ tabs'[j].path = tabs[j].path /\ tabs'[j].saved = tabs[j].saved
  <2>1. PICK t \in TabSet : t = tabs[j]
      BY <1>2
  <2>2. m.num \in Nat
      BY NoteOf
  <2>3. tabs'[j] = [t EXCEPT !.conn = m.num] \/ tabs'[j] = t
      BY <1>3, <2>1
  <2>4. [t EXCEPT !.conn = m.num] \in TabSet /\ [t EXCEPT !.conn = m.num].path = t.path
        /\ [t EXCEPT !.conn = m.num].saved = t.saved
      BY <2>2 DEF TabSet
  <2> QED BY <2>1, <2>3, <2>4
<1>5. tabs' = [j \in DOMAIN tabs |-> tabs'[j]]
    BY <1>3
<1>6. tabs' \in Seq(TabSet) /\ \A t \in ToSet(tabs') : \E j \in DOMAIN tabs : t = tabs'[j] /\ tabs[j] \in ToSet(tabs)
    BY <1>1, <1>4, <1>5, TabsMapped
<1> QED BY <1>1, <1>4, <1>6 DEF TabTypes, TabsKept

-----------------------------------------------------------------------------
(* What the main process does with a file.                                  *)

\* What is done and not told is told by a note.
LEMMA DoneByNote ==
    ASSUME MailOK, NEW p \in Paths, NEW d \in Done, p \in {d[1], d[2]}
    PROVE  \E r \in ToSet(asks) \cup ToSet(inbox) :
              /\ r \in Renames /\ About(r, p) /\ d = <<r.of, r.to>>
              /\ r.kind \in {"rename", "renamed", "delete", "deleted"}
              /\ d[2] # None => r.kind \in {"rename", "renamed"}
<1>1. PICK r \in Renames : d = <<r.of, r.to>>
    BY DEF Done
<1>2. r \in ToSet(asks) \cup ToSet(inbox) /\ r.kind \in {"rename", "renamed", "delete", "deleted"}
    BY DEF Renames
<1>3. Sound(r)
    BY <1>2 DEF MailOK, SoundAnswer
<1>4. d[1] = r.of /\ d[2] = r.to
    BY <1>1
<1>5. d[2] # None => r.kind \in {"rename", "renamed"}
    BY <1>2, <1>3, <1>4 DEF Sound
<1>6. About(r, p)
    BY <1>2, <1>4 DEF About
<1> QED BY <1>1, <1>2, <1>5, <1>6

\* A path that a rename joins to one on which something else is on its way is crossed.
LEMMA JoinedElsewhere ==
    ASSUME MailOK, CrossInv, NEW p \in Paths \ crossed, NEW d \in Done, d[1] = p, d[2] # None,
           NEW n \in ToSet(asks) \cup ToSet(inbox), ~About(n, p), About(n, d[2]),
           (\E i \in DOMAIN asks : n = asks[i]) \/ (inbox # <<>> /\ n = Head(inbox))
    PROVE  FALSE
<1>1. PICK r \in ToSet(asks) \cup ToSet(inbox) :
              r \in Renames /\ About(r, p) /\ d = <<r.of, r.to>> /\ r.kind \in {"rename", "renamed"}
    BY DoneByNote
<1>2. r.of = p /\ r.to = d[2] /\ About(r, d[2])
    BY <1>1 DEF About
<1>3. d[2] \in Paths
    BY <1>1, <1>2 DEF MailOK, Sound, SoundAnswer
<1>4. d[2] \in Paths \ crossed
    BY <1>1, <1>2, <1>3 DEF CrossInv
<1>5. r = n \/ r.kind = "write"
    BY <1>1, <1>2, <1>4, AloneAsked, AloneHeard
<1> QED BY <1>1, <1>5

\* The answer to a call about another file.
LEMMA Bystander ==
    ASSUME MailOK, CrossInv, NEW p \in Paths \ crossed, PathIs(p), NEW i \in DOMAIN asks, NEW c \in Notes,
           SoundAnswer(c), Settle(i, <<c>>), asks[i].kind \in FileKinds, c.kind = asks[i].kind,
           c.of = asks[i].of, c.to = asks[i].to, ~About(asks[i], p), tabs' = tabs,
           \A q \in Paths : ~About(asks[i], q) => file'[q] = file[q]
    PROVE  PathIs(p)'
<1>1. ~About(c, p)
    BY DEF About, FileKinds
<1>2. <<c>> \in Seq(Notes) /\ ToSet(<<c>>) = {c}
    BY DEF ToSet
<1>3. /\ ToSet(asks) = ToSet(asks') \cup {asks[i]}
      /\ ToSet(inbox') = ToSet(inbox) \cup {c}
  <2>1. \A n \in ToSet(<<c>>) : SoundAnswer(n)
      BY <1>2
  <2>2. ToSet(inbox') = ToSet(inbox) \cup ToSet(<<c>>) /\ ToSet(asks) = ToSet(asks') \cup {asks[i]}
      BY <1>2, <2>1, SettledMail
  <2> QED BY <1>2, <2>2
<1>4. file'[p] = file[p] /\ inbox' = inbox \o <<c>>
    BY DEF Settle
<1>5. ~Landed(c, p) /\ ~(c.kind = "read" /\ c.ok /\ c.of = p)
    BY <1>1 DEF About, Landed
<1>6. ReadsAre(p)' /\ WritesAre(p)' /\ (Unheard(p)' <=> Unheard(p))
    BY <1>2, <1>4, <1>5, InboxGrows DEF PathIs
<1>7. \A d \in Done' : p \in {d[1], d[2]} => d \in Done
  <2> SUFFICES ASSUME NEW r \in Renames', p \in {r.of, r.to} PROVE r \in Renames
      BY DEF Done
  <2>1. r # c
      BY <1>1 DEF About, Renames
  <2> QED BY <1>3, <2>1 DEF Renames
<1>8. \A d \in Done : p \in {d[1], d[2]} => d \in Done'
  <2> SUFFICES ASSUME NEW r \in Renames, p \in {r.of, r.to} PROVE r \in Renames'
      BY DEF Done
  <2>1. r # asks[i]
      BY DEF About, Renames
  <2> QED BY <1>3, <2>1 DEF Renames
<1>9. \A d \in Done : d[1] = p /\ d[2] # None => file'[d[2]] = file[d[2]]
  <2> SUFFICES ASSUME NEW d \in Done, d[1] = p, d[2] # None PROVE file'[d[2]] = file[d[2]]
      OBVIOUS
  <2>1. ~About(asks[i], d[2])
      BY <1>3, JoinedElsewhere
  <2>2. d[2] \in Paths
    <3>1. PICK r \in ToSet(asks) \cup ToSet(inbox) : d = <<r.of, r.to>> /\ r.kind \in {"rename", "renamed"}
        BY DoneByNote
    <3> QED BY <3>1 DEF MailOK, Sound, SoundAnswer
  <2> QED BY <2>1, <2>2
<1>10. TabsAre(p)'
  <2>1. \A t \in ToSet(tabs') : t.path = p => \E u \in ToSet(tabs) : u.path = p /\ u.saved = t.saved
      OBVIOUS
  <2> QED BY <1>4, <1>6, <1>7, <1>8, <1>9, <2>1, TabsSpared DEF PathIs
<1> QED BY <1>6, <1>10 DEF PathIs

LEMMA ReadStep ==
    ASSUME LinkInv, CrossInv, NEW i \in DOMAIN asks, Read(i)
    PROVE  MailOK' /\ \A p \in Paths \ crossed : PathIs(p) => PathIs(p)'
<1>1. MailOK /\ asks \in Seq(Notes) /\ file \in [Paths -> Nat] /\ asks[i] \in Notes /\ Sound(asks[i])
  <2>1. MailOK /\ asks \in Seq(Notes) /\ file \in [Paths -> Nat]
      BY DEF LinkInv, MailOK, TabTypes
  <2>2. asks[i] \in Notes /\ asks[i] \in ToSet(asks)
      BY <2>1, RemoveSet
  <2> QED BY <2>1, <2>2 DEF MailOK
<1>2. PICK a \in Notes : a = asks[i]
    BY <1>1
<1>3. a.kind = "read" /\ a.of \in Paths /\ a.to = None
    BY <1>1, <1>2 DEF Read, Asked, Sound, FileKinds
<1> DEFINE now == file[a.of]
           luck == up # 0 /\ now # 0
           c == [a EXCEPT !.num = now, !.ok = luck]
<1>4. now \in Nat
    BY <1>1, <1>3
<1>5. /\ c \in Notes /\ c.kind = "read" /\ c.of = a.of /\ c.to = None /\ c.num = now /\ c.conn = a.conn
      /\ c.ok = luck
    BY <1>3, <1>4 DEF Notes, FileKinds
<1>6. Settle(i, <<c>>) /\ tabs' = tabs /\ file' = file
    BY <1>2 DEF Read, tabVars
<1>7. SoundAnswer(c)
    BY <1>3, <1>5 DEF SoundAnswer, Sound
<1> HIDE DEF c
<1>8. <<c>> \in Seq(Notes) /\ ToSet(<<c>>) = {c}
    BY <1>5 DEF ToSet
<1>9. /\ MailOK' /\ ToSet(asks) = ToSet(asks') \cup {asks[i]} /\ ToSet(inbox') = ToSet(inbox) \cup {c}
    BY <1>1, <1>6, <1>7, <1>8, SettledMail
<1>10. Done' = Done
    BY <1>2, <1>3, <1>5, <1>9, DoneIs
<1>11. ASSUME NEW p \in Paths \ crossed, PathIs(p) PROVE PathIs(p)'
  <2>1. ReadsAre(p)' /\ WritesAre(p)' /\ (Unheard(p)' <=> Unheard(p))
    <3>1. inbox' = inbox \o <<c>>
        BY <1>6 DEF Settle
    <3>2. ~Landed(c, p) /\ (c.kind = "read" /\ c.ok /\ c.of = p => c.num = file[p])
        BY <1>5 DEF Landed
    <3>3. file'[p] = file[p]
        BY <1>6
    <3> QED BY <1>1, <1>8, <1>11, <3>1, <3>2, <3>3, InboxGrows DEF PathIs
  <2>2. TabsAre(p)'
    <3>1. \A t \in ToSet(tabs') : t.path = p => \E u \in ToSet(tabs) : u.path = p /\ u.saved = t.saved
        BY <1>6
    <3> QED BY <1>6, <1>10, <1>11, <2>1, <3>1, TabsSpared DEF PathIs
  <2> QED BY <2>1, <2>2 DEF PathIs
<1> QED BY <1>9, <1>11

LEMMA CallIs ==
    ASSUME MailOK, NEW i \in DOMAIN asks
    PROVE  asks[i] \in Notes /\ Sound(asks[i]) /\ asks[i] \in ToSet(asks)
<1>1. asks[i] \in Notes /\ asks[i] \in ToSet(asks)
    BY RemoveSet DEF MailOK
<1> QED BY <1>1 DEF MailOK

LEMMA AnswerIs ==
    ASSUME MailOK, NEW i \in DOMAIN asks, asks[i].kind \in FileKinds, NEW good \in BOOLEAN, Answer(i, good),
           asks[i].kind = "read" => asks[i].num # 0, asks[i].kind \in {"renamed", "deleted"} => good
    PROVE  \E c \in Notes :
              /\ Settle(i, <<c>>) /\ SoundAnswer(c) /\ c.ok = good /\ c.kind = asks[i].kind /\ c.of = asks[i].of
              /\ c.to = asks[i].to /\ c.num = asks[i].num /\ c.conn = asks[i].conn
              /\ <<c>> \in Seq(Notes) /\ ToSet(<<c>>) = {c} /\ inbox' = inbox \o <<c>>
              /\ MailOK' /\ asks' = RemoveAt(asks, i) /\ ToSet(asks) = ToSet(asks') \cup {asks[i]}
              /\ ToSet(inbox') = ToSet(inbox) \cup {c}
<1>1. asks[i] \in Notes /\ Sound(asks[i])
    BY CallIs
<1> DEFINE c == [asks[i] EXCEPT !.ok = good]
<1>2. /\ c \in Notes /\ c.ok = good /\ c.kind = asks[i].kind /\ c.of = asks[i].of
      /\ c.to = asks[i].to /\ c.num = asks[i].num /\ c.conn = asks[i].conn
    BY <1>1, NoteOf
<1>3. Settle(i, <<c>>)
    BY DEF Answer
<1> HIDE DEF c
<1>4. SoundAnswer(c)
    BY <1>1, <1>2 DEF Sound, SoundAnswer, FileKinds
<1>5. <<c>> \in Seq(Notes) /\ ToSet(<<c>>) = {c}
    BY <1>2 DEF ToSet
<1>6. \A n \in ToSet(<<c>>) : SoundAnswer(n)
    BY <1>4, <1>5
<1>7. /\ MailOK' /\ asks' = RemoveAt(asks, i) /\ ToSet(asks) = ToSet(asks') \cup {asks[i]}
      /\ ToSet(inbox') = ToSet(inbox) \cup ToSet(<<c>>)
    BY <1>3, <1>5, <1>6, SettledMail
<1>8. inbox' = inbox \o <<c>>
    BY <1>3 DEF Settle
<1> QED BY <1>2, <1>3, <1>4, <1>5, <1>7, <1>8

\* The path whose save took effect holds what its note says.
LEMMA WrittenPath ==
    ASSUME MailOK, CrossInv, NEW i \in DOMAIN asks, asks[i].kind = "write", NEW p \in Paths \ crossed, p = asks[i].of,
           NEW c \in Notes, c.kind = "write", c.of = p, c.num = asks[i].num, c.ok,
           inbox' = inbox \o <<c>>, ToSet(inbox') = ToSet(inbox) \cup {c}, ToSet(asks) = ToSet(asks') \cup {asks[i]},
           file'[p] = c.num
    PROVE  PathIs(p)'
<1>1. About(asks[i], p)
    BY DEF About
<1>2. \A n \in ToSet(asks) \cup ToSet(inbox) : About(n, p) => n.kind = "write"
    BY <1>1, AloneAsked
<1>3. ReadsAre(p)'
    BY <1>2 DEF ReadsAre, About
<1>4. Landed(c, p) /\ inbox \in Seq(Notes)
    BY DEF Landed, MailOK
<1>5. /\ Len(inbox) \in Nat /\ DOMAIN inbox' = 1..(Len(inbox) + 1)
      /\ Len(inbox) + 1 \in DOMAIN inbox' /\ inbox'[Len(inbox) + 1] = c
    BY <1>4
<1>6. WritesAre(p)'
  <2> SUFFICES ASSUME NEW k \in DOMAIN inbox', \A j \in DOMAIN inbox' : Landed(inbox'[j], p) => j <= k
               PROVE  inbox'[k].num = file'[p]
      BY DEF WritesAre
  <2>1. Len(inbox) + 1 <= k
      BY <1>4, <1>5
  <2>2. k = Len(inbox) + 1
      BY <1>5, <2>1
  <2> QED BY <1>5, <2>2
<1>7. \A d \in Done' : p \notin {d[1], d[2]}
  <2> SUFFICES ASSUME NEW r \in Renames', p \in {r.of, r.to} PROVE FALSE
      BY DEF Done
  <2>1. r.kind \in {"rename", "renamed", "delete", "deleted"} /\ r \in ToSet(asks) \cup ToSet(inbox)
      BY DEF Renames
  <2> QED BY <1>2, <2>1 DEF About
<1>8. TabsAre(p)'
  <2>1. ~(\A n \in ToSet(inbox') : ~Landed(n, p))
      BY <1>4
  <2> QED BY <1>7, <2>1 DEF TabsAre
<1> QED BY <1>3, <1>6, <1>8 DEF PathIs

LEMMA WriteStep ==
    ASSUME LinkInv, CrossInv, CrossedAfter, NEW i \in DOMAIN asks, Write(i) \/ WriteUnheard(i)
    PROVE  /\ MailOK' /\ file' \in [Paths -> Nat]
           /\ \A p \in Paths \ crossed' : PathIs(p) => PathIs(p)'
<1>1. MailOK /\ crossed \in SUBSET Paths /\ file \in [Paths -> Nat]
    BY DEF LinkInv, TabTypes
<1>2. asks[i] \in Notes /\ Sound(asks[i]) /\ asks[i].kind = "write"
    BY <1>1, CallIs DEF Write, WriteUnheard, Asked
<1>3. asks[i].of \in Paths /\ asks[i].to = None /\ asks[i].num \in Nat \ {0} /\ asks[i].kind \in FileKinds
    BY <1>2, NoteOf DEF Sound, FileKinds
<1>4. tabs' = tabs
    BY DEF Write, WriteUnheard
<1>5. PICK good \in BOOLEAN : Answer(i, good) /\ ((file' = file /\ ~good) \/ Written(i))
    BY DEF Write, WriteUnheard
<1>6. PICK c \in Notes :
         /\ Settle(i, <<c>>) /\ SoundAnswer(c) /\ c.ok = good /\ c.kind = asks[i].kind /\ c.of = asks[i].of
         /\ c.to = asks[i].to /\ c.num = asks[i].num /\ c.conn = asks[i].conn
         /\ <<c>> \in Seq(Notes) /\ ToSet(<<c>>) = {c} /\ inbox' = inbox \o <<c>>
         /\ MailOK' /\ asks' = RemoveAt(asks, i) /\ ToSet(asks) = ToSet(asks') \cup {asks[i]}
         /\ ToSet(inbox') = ToSet(inbox) \cup {c}
    BY <1>1, <1>2, <1>3, <1>5, AnswerIs
<1>7. CrossInv' /\ crossed \subseteq crossed'
    BY <1>1, <1>6, CrossInvNext
<1>8. \A q \in Paths : q # asks[i].of => file'[q] = file[q]
    BY <1>1, <1>3, <1>5 DEF Written
<1>9. file' \in [Paths -> Nat]
    BY <1>1, <1>3, <1>5 DEF Written
<1>10. ASSUME NEW p \in Paths \ crossed', PathIs(p) PROVE PathIs(p)'
  <2>1. p \in Paths \ crossed
      BY <1>7
  <2>2. CASE p # asks[i].of
    <3>1. \A q \in Paths : ~About(asks[i], q) => q # asks[i].of
        BY <1>2 DEF About
    <3>2. ~About(asks[i], p)
        BY <1>3, <2>2, PathsAssumption DEF About
    <3> QED BY <1>1, <1>2, <1>3, <1>4, <1>6, <1>8, <1>10, <2>1, <3>1, <3>2, Bystander
  <2>3. CASE p = asks[i].of /\ Written(i) /\ good
    <3>1. file'[p] = c.num
        BY <1>1, <1>6, <2>3 DEF Written
    <3> QED BY <1>1, <1>2, <1>6, <2>1, <2>3, <3>1, WrittenPath
  <2>4. CASE p = asks[i].of /\ Written(i) /\ ~good
    <3>1. file'[p] = c.num
        BY <1>1, <1>6, <2>4 DEF Written
    <3>2. asks' \in Seq(Notes) /\ inbox' \in Seq(Notes)
        BY <1>6 DEF MailOK
    <3>3. PICK k \in DOMAIN (asks' \o inbox') : (asks' \o inbox')[k] = c
      <4>1. PICK j \in 1..Len(inbox') : inbox'[j] = c
          BY <1>6, <3>2, InSet
      <4>2. Len(asks') + j \in DOMAIN (asks' \o inbox') /\ (asks' \o inbox')[Len(asks') + j] = inbox'[j]
          BY <3>2
      <4> QED BY <4>1, <4>2
    <3>4. k \in OnTheWay(p)'
        BY <1>2, <1>6, <2>4, <3>3 DEF OnTheWay, About
    <3>5. Crossing(p)'
        BY <1>2, <1>6, <2>4, <3>1, <3>3, <3>4, Zenon DEF Crossing
    <3> QED BY <1>7, <3>5 DEF CrossInv
  <2>5. CASE file' = file /\ ~good
    <3>1. Inert(c) /\ asks[i].kind \notin {"renamed", "deleted"}
        BY <1>2, <1>6, <2>5 DEF Inert
    <3>2. MailAside
        BY <1>1, <1>6, <3>1, SettledAside
    <3>3. TabsKept
        BY <1>4 DEF TabsKept
    <3> QED BY <1>1, <1>10, <2>5, <3>2, <3>3, PathsAside
  <2> QED BY <1>5, <2>2, <2>3, <2>4, <2>5
<1> QED BY <1>6, <1>9, <1>10

\* Before a call that is no save is answered, a tab of its path holds what the file does.
LEMMA AlonePath ==
    ASSUME MailOK, CrossInv, NEW i \in DOMAIN asks, NEW p \in Paths \ crossed, About(asks[i], p), PathIs(p),
           asks[i].kind \in {"rename", "delete"},
           NEW c \in Notes, c.kind = asks[i].kind, asks' = RemoveAt(asks, i),
           ToSet(asks) = ToSet(asks') \cup {asks[i]}, ToSet(inbox') = ToSet(inbox) \cup {c}, inbox' \in Seq(Notes)
    PROVE  /\ ReadsAre(p)' /\ WritesAre(p)'
           /\ \A t \in ToSet(tabs) : t.path = p => t.saved = file[p]
           /\ \A d \in Done' : p \in {d[1], d[2]} => d = <<c.of, c.to>>
<1>1. \A n \in ToSet(asks') \cup ToSet(inbox) : ~About(n, p)
    BY AloneAsked
<1>2. \A n \in ToSet(inbox') : ~Landed(n, p) /\ ~(n.kind = "read" /\ n.of = p)
    BY <1>1 DEF About, Landed
<1>3. ReadsAre(p)'
    BY <1>2 DEF ReadsAre
<1>4. WritesAre(p)'
  <2>1. \A k \in DOMAIN inbox' : ~Landed(inbox'[k], p)
      BY <1>2 DEF ToSet
  <2> QED BY <2>1 DEF WritesAre
<1>5. \A d \in Done : p \notin {d[1], d[2]}
  <2> SUFFICES ASSUME NEW r \in Renames, p \in {r.of, r.to} PROVE FALSE
      BY DEF Done
  <2>1. r \in ToSet(asks') \cup ToSet(inbox)
      BY DEF Renames
  <2>2. r.kind \in {"rename", "renamed", "delete", "deleted"}
      BY DEF Renames
  <2> QED BY <1>1, <2>1, <2>2 DEF About
<1>6. \A n \in ToSet(inbox) : ~Landed(n, p)
    BY <1>2
<1>7. \A t \in ToSet(tabs) : t.path = p => t.saved = file[p]
    BY <1>5, <1>6 DEF PathIs, TabsAre
<1>8. \A d \in Done' : p \in {d[1], d[2]} => d = <<c.of, c.to>>
  <2> SUFFICES ASSUME NEW r \in Renames', p \in {r.of, r.to} PROVE r = c
      BY DEF Done
  <2>1. r \in ToSet(asks') \cup ToSet(inbox) \/ r = c
      BY DEF Renames
  <2>2. r.kind \in {"rename", "renamed", "delete", "deleted"}
      BY DEF Renames
  <2> QED BY <1>1, <2>1, <2>2 DEF About
<1> QED BY <1>3, <1>4, <1>7, <1>8

LEMMA MoveStep ==
    ASSUME LinkInv, CrossInv, NEW i \in DOMAIN asks, Rename(i) \/ Delete(i)
    PROVE  /\ MailOK' /\ file' \in [Paths -> Nat]
           /\ \A p \in Paths \ crossed : PathIs(p) => PathIs(p)'
<1>1. MailOK /\ file \in [Paths -> Nat] /\ tabs \in Seq(TabSet)
    BY DEF LinkInv, TabTypes
<1>2. asks[i] \in Notes /\ Sound(asks[i]) /\ asks[i].kind \in {"rename", "delete"}
    BY <1>1, CallIs DEF Rename, Delete, Asked
<1>3. /\ asks[i].of \in Paths /\ asks[i].kind \in FileKinds
      /\ asks[i].kind = "rename" => asks[i].to \in Paths /\ asks[i].to # asks[i].of
      /\ asks[i].kind = "delete" => asks[i].to = None
    BY <1>2 DEF Sound, FileKinds
<1>4. tabs' = tabs
    BY DEF Rename, Delete
<1> DEFINE moved == [file EXCEPT ![asks[i].of] = 0, ![asks[i].to] = file[asks[i].of]]
           gone == [file EXCEPT ![asks[i].of] = 0]
<1>5. PICK good \in BOOLEAN :
         /\ Answer(i, good) /\ (~good => file' = file)
         /\ good /\ asks[i].kind = "rename" => file' = moved /\ file[asks[i].to] = 0
         /\ good /\ asks[i].kind = "delete" => file' = gone
  <2>1. CASE Rename(i)
    <3> DEFINE luck == up # 0 /\ file[asks[i].of] # 0 /\ file[asks[i].to] = 0
    <3>1. /\ luck \in BOOLEAN /\ Answer(i, luck) /\ asks[i].kind = "rename"
          /\ file' = IF luck THEN moved ELSE file
        BY <2>1 DEF Rename, Asked
    <3>2. luck => file[asks[i].to] = 0
        OBVIOUS
    <3> HIDE DEF luck
    <3> QED BY <3>1, <3>2
  <2>2. CASE Delete(i)
    <3> DEFINE luck == up # 0 /\ file[asks[i].of] # 0
    <3>1. /\ luck \in BOOLEAN /\ Answer(i, luck) /\ asks[i].kind = "delete"
          /\ file' = IF luck THEN gone ELSE file
        BY <2>2 DEF Delete, Asked
    <3> HIDE DEF luck
    <3> QED BY <3>1
  <2> QED BY <2>1, <2>2
<1>6. PICK c \in Notes :
         /\ Settle(i, <<c>>) /\ SoundAnswer(c) /\ c.ok = good /\ c.kind = asks[i].kind /\ c.of = asks[i].of
         /\ c.to = asks[i].to /\ c.num = asks[i].num /\ c.conn = asks[i].conn
         /\ <<c>> \in Seq(Notes) /\ ToSet(<<c>>) = {c} /\ inbox' = inbox \o <<c>>
         /\ MailOK' /\ asks' = RemoveAt(asks, i) /\ ToSet(asks) = ToSet(asks') \cup {asks[i]}
         /\ ToSet(inbox') = ToSet(inbox) \cup {c}
    BY <1>1, <1>2, <1>3, <1>5, AnswerIs
<1>7. /\ \A q \in Paths : About(asks[i], q) <=> q = asks[i].of \/ (asks[i].kind = "rename" /\ q = asks[i].to)
      /\ \A q \in Paths : ~About(asks[i], q) => file'[q] = file[q]
  <2>1. \A q \in Paths : About(asks[i], q) <=> q = asks[i].of \/ (asks[i].kind = "rename" /\ q = asks[i].to)
      BY <1>2, <1>3, PathsAssumption DEF About
  <2>2. CASE good /\ asks[i].kind = "rename"
      BY <1>1, <1>3, <1>5, <2>1, <2>2
  <2>3. CASE good /\ asks[i].kind = "delete"
      BY <1>1, <1>3, <1>5, <2>1, <2>3
  <2> QED BY <1>2, <1>5, <2>1, <2>2, <2>3
<1>8. file' \in [Paths -> Nat]
  <2>1. CASE good /\ asks[i].kind = "rename"
      BY <1>1, <1>3, <1>5, <2>1
  <2>2. CASE good /\ asks[i].kind = "delete"
      BY <1>1, <1>3, <1>5, <2>2
  <2> QED BY <1>1, <1>2, <1>5, <2>1, <2>2
<1>9. ASSUME NEW p \in Paths \ crossed, PathIs(p) PROVE PathIs(p)'
  <2>1. CASE ~About(asks[i], p)
      BY <1>1, <1>3, <1>4, <1>6, <1>7, <1>9, <2>1, Bystander
  <2>2. CASE ~good
    <3>1. Inert(c) /\ asks[i].kind \notin {"renamed", "deleted"}
        BY <1>2, <1>6, <2>2 DEF Inert
    <3>2. MailAside
        BY <1>1, <1>6, <3>1, SettledAside
    <3>3. TabsKept
        BY <1>4 DEF TabsKept
    <3> QED BY <1>1, <1>5, <1>9, <2>2, <3>2, <3>3, PathsAside
  <2>3. CASE good /\ About(asks[i], p)
    <3>1. inbox' \in Seq(Notes)
        BY <1>6 DEF MailOK
    <3>2. /\ ReadsAre(p)' /\ WritesAre(p)'
          /\ \A t \in ToSet(tabs) : t.path = p => t.saved = file[p]
          /\ \A d \in Done' : p \in {d[1], d[2]} => d = <<c.of, c.to>>
        BY <1>1, <1>2, <1>6, <1>9, <2>3, <3>1, AlonePath
    <3>3. <<c.of, c.to>> \in Done'
      <4>1. c \in Renames'
          BY <1>2, <1>6, <2>3 DEF Renames
      <4> QED BY <4>1 DEF Done
    <3>4. TabsAre(p)'
      <4> SUFFICES ASSUME NEW t \in ToSet(tabs'), t.path = p
                   PROVE  /\ ~(\A d \in Done' : p \notin {d[1], d[2]})
                          /\ \A d \in Done' : d[1] = p /\ d[2] # None => file'[d[2]] = t.saved
                          /\ \A d \in Done' : d[2] # p
          BY DEF TabsAre
      <4>1. t \in ToSet(tabs) /\ t.saved = file[p]
          BY <1>4, <3>2
      <4>2. t.saved # 0
        <5>1. t \in TabSet
            BY <1>1, <4>1, InSet
        <5> QED BY <5>1, TabIs
      <4>3. p = asks[i].of
        <5>1. file[asks[i].to] = 0 \/ asks[i].kind # "rename"
            BY <1>5, <2>3
        <5> QED BY <1>7, <2>3, <4>1, <4>2, <5>1
      <4>4. <<c.of, c.to>>[1] = p /\ <<c.of, c.to>>[2] = asks[i].to
          BY <1>6, <4>3
      <4>5. asks[i].to # p
          BY <1>2, <1>3, <4>3, PathsAssumption
      <4>6. asks[i].to # None => file'[asks[i].to] = file[p]
          BY <1>1, <1>2, <1>3, <1>5, <2>3, <4>3
      <4> QED BY <3>2, <3>3, <4>1, <4>4, <4>5, <4>6
    <3> QED BY <3>2, <3>4 DEF PathIs
  <2> QED BY <2>1, <2>2, <2>3
<1> QED BY <1>6, <1>8, <1>9

LEMMA ListStep ==
    ASSUME LinkInv, CrossInv, NEW i \in DOMAIN asks, List(i)
    PROVE  MailOK' /\ \A p \in Paths \ crossed : PathIs(p) => PathIs(p)'
<1>1. MailOK
    BY DEF LinkInv
<1>2. asks[i] \in Notes /\ Sound(asks[i]) /\ asks[i].kind \in {"renamed", "deleted"}
    BY <1>1, CallIs DEF List, Asked
<1>3. Answer(i, TRUE) /\ tabs' = tabs /\ file' = file
    BY DEF List, tabVars
<1>4. PICK c \in Notes :
         /\ Settle(i, <<c>>) /\ SoundAnswer(c) /\ c.ok = TRUE /\ c.kind = asks[i].kind /\ c.of = asks[i].of
         /\ c.to = asks[i].to /\ c.num = asks[i].num /\ c.conn = asks[i].conn
         /\ <<c>> \in Seq(Notes) /\ ToSet(<<c>>) = {c} /\ inbox' = inbox \o <<c>>
         /\ MailOK' /\ asks' = RemoveAt(asks, i) /\ ToSet(asks) = ToSet(asks') \cup {asks[i]}
         /\ ToSet(inbox') = ToSet(inbox) \cup {c}
  <2>1. asks[i].kind \in FileKinds /\ asks[i].kind # "read"
      BY <1>2 DEF FileKinds
  <2> QED BY <1>1, <1>3, <2>1, AnswerIs
<1>5. \A d : d \in Done' <=> d \in Done
  <2>1. \A d \in Done : d \in Done'
    <3> SUFFICES ASSUME NEW r \in Renames PROVE <<r.of, r.to>> \in Done'
        BY DEF Done
    <3>1. r \in Renames' \/ r = asks[i]
        BY <1>4 DEF Renames
    <3>2. c \in Renames'
        BY <1>2, <1>4 DEF Renames
    <3> QED BY <1>4, <3>1, <3>2 DEF Done
  <2>2. \A d \in Done' : d \in Done
    <3> SUFFICES ASSUME NEW r \in Renames' PROVE <<r.of, r.to>> \in Done
        BY DEF Done
    <3>1. r \in Renames \/ r = c
        BY <1>4 DEF Renames
    <3>2. asks[i] \in Renames
        BY <1>1, <1>2, CallIs DEF Renames
    <3> QED BY <1>4, <3>1, <3>2 DEF Done
  <2> QED BY <2>1, <2>2
<1>6. ASSUME NEW p \in Paths \ crossed, PathIs(p) PROVE PathIs(p)'
  <2>1. ReadsAre(p)' /\ WritesAre(p)' /\ (Unheard(p)' <=> Unheard(p))
    <3>1. ~Landed(c, p) /\ c.kind # "read"
        BY <1>2, <1>4 DEF Landed
    <3> QED BY <1>1, <1>3, <1>4, <1>6, <3>1, InboxGrows DEF PathIs
  <2>2. TabsAre(p)'
    <3>1. \A t \in ToSet(tabs') : t.path = p => \E u \in ToSet(tabs) : u.path = p /\ u.saved = t.saved
        BY <1>3
    <3> QED BY <1>3, <1>5, <1>6, <2>1, <3>1, TabsSpared DEF PathIs
  <2> QED BY <2>1, <2>2 DEF PathIs
<1> QED BY <1>4, <1>6

-----------------------------------------------------------------------------
(* What the window does when it hears of a file.                            *)

LEMMA ReadHeard ==
    ASSUME LinkInv, CrossInv, OnRead
    PROVE  MailOK' /\ TabTypes' /\ \A p \in Paths \ crossed : PathIs(p) => PathIs(p)'
<1>1. /\ MailOK /\ TabTypes /\ tabs \in Seq(TabSet) /\ file \in [Paths -> Nat] /\ edits \in Nat \ {0}
      /\ inbox # <<>> /\ inbox' = Tail(inbox) /\ asks' = asks /\ file' = file /\ edits' = edits
    BY DEF LinkInv, TabTypes, OnRead, Heard
<1>2. /\ MailOK' /\ Head(inbox) \in Notes /\ SoundAnswer(Head(inbox)) /\ Head(inbox) \in ToSet(inbox)
      /\ ToSet(inbox) = ToSet(inbox') \cup {Head(inbox)}
    BY <1>1, HeardMail
<1>3. PICK m \in Notes : m = Head(inbox)
    BY <1>2
<1>4. m.kind = "read" /\ m.of \in Paths /\ m.to = None /\ m.num \in Nat /\ m.conn \in Nat /\ m.ok \in BOOLEAN
  <2>1. m.kind = "read"
      BY <1>3 DEF OnRead, Heard
  <2>2. m.of \in Paths /\ m.to = None
      BY <1>2, <1>3, <2>1 DEF SoundAnswer, Sound, FileKinds
  <2> QED BY <2>1, <2>2, NoteOf
<1>5. CASE ~m.ok
  <2>1. MailAside
      BY <1>1, <1>3, <1>5, HeardAside DEF Inert
  <2>2. tabs' = tabs
      BY <1>3, <1>5 DEF OnRead
  <2> QED BY <1>1, <2>1, <2>2, PathsAside DEF TabsKept, TabTypes, MailAside
<1>6. CASE m.ok
  <2> DEFINE new == [conn |-> m.conn, path |-> m.of, text |-> m.num, saved |-> m.num, saving |-> FALSE]
  <2>1. m.num \in Nat \ {0}
      BY <1>2, <1>3, <1>4, <1>6 DEF SoundAnswer
  <2>2. new \in TabSet /\ new.path = m.of /\ new.saved = m.num
      BY <1>4, <2>1 DEF TabSet
  <2>3. tabs' = Append(tabs, new)
      BY <1>3, <1>6 DEF OnRead
  <2> HIDE DEF new
  <2>4. tabs' \in Seq(TabSet) /\ ToSet(tabs') = ToSet(tabs) \cup {new}
      BY <1>1, <2>2, <2>3, AppendSet
  <2>5. Done' = Done
      BY <1>1, <1>2, <1>3, <1>4, DoneIs
  <2>6. ASSUME NEW p \in Paths \ crossed, PathIs(p) PROVE PathIs(p)'
    <3>1. /\ ReadsAre(p)' /\ WritesAre(p)' /\ (Unheard(p)' <=> Unheard(p))
      <4>1. ~Landed(Head(inbox), p)
          BY <1>3, <1>4 DEF Landed
      <4> QED BY <1>1, <2>6, <4>1, InboxShrinks DEF PathIs
    <3>2. TabsAre(p)'
      <4>1. CASE p # m.of
        <5>1. \A t \in ToSet(tabs') : t.path = p => \E u \in ToSet(tabs) : u.path = p /\ u.saved = t.saved
            BY <2>2, <2>4, <4>1
        <5> QED BY <1>1, <2>5, <2>6, <3>1, <5>1, TabsSpared DEF PathIs
      <4>2. CASE p = m.of
        <5>1. About(Head(inbox), p)
            BY <1>3, <1>4, <4>2 DEF About
        <5>2. \A n \in ToSet(asks) \cup ToSet(inbox') : ~About(n, p)
            BY <1>1, <1>3, <1>4, <5>1, AloneHeard
        <5>3. \A d \in Done : p \notin {d[1], d[2]}
          <6> SUFFICES ASSUME NEW r \in Renames, p \in {r.of, r.to} PROVE FALSE
              BY DEF Done
          <6>1. r \in ToSet(asks) \cup ToSet(inbox') /\ r.kind \in {"rename", "renamed", "delete", "deleted"}
              BY <1>2, <1>3, <1>4 DEF Renames
          <6> QED BY <5>2, <6>1 DEF About
        <5>4. \A n \in ToSet(inbox) : ~Landed(n, p)
            BY <1>2, <1>3, <1>4, <5>2 DEF About, Landed
        <5>5. \A t \in ToSet(tabs) : t.path = p => t.saved = file[p]
            BY <2>6, <5>3, <5>4 DEF PathIs, TabsAre
        <5>6. new.saved = file[p]
            BY <1>2, <1>3, <1>4, <1>6, <2>2, <2>6, <4>2 DEF PathIs, ReadsAre
        <5>7. \A t \in ToSet(tabs') : t.path = p => t.saved = file'[p]
            BY <1>1, <2>4, <5>5, <5>6
        <5> QED BY <2>5, <5>3, <5>7 DEF TabsAre
      <4> QED BY <4>1, <4>2
    <3> QED BY <3>1, <3>2 DEF PathIs
  <2> QED BY <1>1, <1>2, <2>4, <2>6 DEF TabTypes
<1> QED BY <1>4, <1>5, <1>6

LEMMA WriteHeard ==
    ASSUME LinkInv, CrossInv, OnWrite
    PROVE  MailOK' /\ TabTypes' /\ \A p \in Paths \ crossed : PathIs(p) => PathIs(p)'
<1>1. /\ MailOK /\ TabTypes /\ tabs \in Seq(TabSet) /\ file \in [Paths -> Nat] /\ edits \in Nat \ {0}
      /\ inbox # <<>> /\ inbox' = Tail(inbox) /\ asks' = asks /\ file' = file /\ edits' = edits
    BY DEF LinkInv, TabTypes, OnWrite, Heard
<1>2. /\ MailOK' /\ Head(inbox) \in Notes /\ SoundAnswer(Head(inbox)) /\ Head(inbox) \in ToSet(inbox)
      /\ ToSet(inbox) = ToSet(inbox') \cup {Head(inbox)}
    BY <1>1, HeardMail
<1>3. PICK m \in Notes : m = Head(inbox)
    BY <1>2
<1>4. m.kind = "write" /\ m.of \in Paths /\ m.to = None /\ m.num \in Nat \ {0} /\ m.ok \in BOOLEAN
  <2>1. m.kind = "write"
      BY <1>3 DEF OnWrite, Heard
  <2>2. m.of \in Paths /\ m.to = None /\ m.num # 0
      BY <1>2, <1>3, <2>1 DEF SoundAnswer, Sound, FileKinds
  <2> QED BY <2>1, <2>2, NoteOf
<1>5. tabs' = [j \in DOMAIN tabs |->
                   IF Id(tabs[j]) # <<m.conn, m.of>> THEN tabs[j]
                   ELSE IF m.ok THEN SavedState(tabs[j], m.num) ELSE [tabs[j] EXCEPT !.saving = FALSE]]
    BY <1>3 DEF OnWrite
<1>6. ASSUME NEW j \in DOMAIN tabs
      PROVE  /\ tabs'[j] \in TabSet /\ tabs'[j].path = tabs[j].path
             /\ Id(tabs[j]) # <<m.conn, m.of>> \/ ~m.ok => tabs'[j].saved = tabs[j].saved
             /\ Id(tabs[j]) = <<m.conn, m.of>> /\ m.ok => tabs'[j].saved = m.num
  <2>1. PICK t \in TabSet : t = tabs[j]
      BY <1>1
  <2>2. /\ [t EXCEPT !.saving = FALSE] \in TabSet /\ [t EXCEPT !.saving = FALSE].path = t.path
        /\ [t EXCEPT !.saving = FALSE].saved = t.saved
      BY DEF TabSet
  <2>3. SavedState(t, m.num) \in TabSet /\ SavedState(t, m.num).path = t.path /\ SavedState(t, m.num).saved = m.num
      BY <1>4, TabIs
  <2>4. tabs'[j] = IF Id(t) # <<m.conn, m.of>> THEN t
                   ELSE IF m.ok THEN SavedState(t, m.num) ELSE [t EXCEPT !.saving = FALSE]
      BY <1>5, <2>1
  <2> QED BY <2>1, <2>2, <2>3, <2>4
<1>7. tabs' = [j \in DOMAIN tabs |-> tabs'[j]]
    BY <1>5
<1>8. tabs' \in Seq(TabSet) /\ \A t \in ToSet(tabs') : \E j \in DOMAIN tabs : t = tabs'[j] /\ tabs[j] \in ToSet(tabs)
    BY <1>1, <1>6, <1>7, TabsMapped
<1>9. TabTypes'
    BY <1>1, <1>8 DEF TabTypes
<1>10. CASE ~m.ok
  <2>1. MailAside
      BY <1>1, <1>3, <1>10, HeardAside DEF Inert
  <2>2. TabsKept
      BY <1>6, <1>8, <1>10 DEF TabsKept
  <2> QED BY <1>1, <1>2, <1>9, <2>1, <2>2, PathsAside
<1>11. CASE m.ok
  <2>1. Done' = Done
      BY <1>1, <1>2, <1>3, <1>4, DoneIs
  <2>2. ASSUME NEW p \in Paths \ crossed, PathIs(p) PROVE PathIs(p)'
    <3>1. /\ ReadsAre(p)' /\ WritesAre(p)'
          /\ Unheard(p) => Unheard(p)' \/ Landed(Head(inbox), p)
          /\ Landed(Head(inbox), p) => Unheard(p)' \/ Head(inbox).num = file[p]
        BY <1>1, <2>2, InboxShrinks DEF PathIs
    <3>2. CASE p # m.of
      <4>1. ~Landed(Head(inbox), p)
          BY <1>3, <3>2 DEF Landed
      <4>2. \A t \in ToSet(tabs') : t.path = p => \E u \in ToSet(tabs) : u.path = p /\ u.saved = t.saved
        <5> SUFFICES ASSUME NEW t \in ToSet(tabs'), t.path = p
                     PROVE  \E u \in ToSet(tabs) : u.path = p /\ u.saved = t.saved
            OBVIOUS
        <5>1. PICK j \in DOMAIN tabs : t = tabs'[j] /\ tabs[j] \in ToSet(tabs)
            BY <1>8
        <5>2. tabs[j].path = p /\ Id(tabs[j]) # <<m.conn, m.of>>
            BY <1>6, <3>2, <5>1 DEF Id
        <5> QED BY <1>6, <5>1, <5>2
      <4>3. TabsAre(p)'
          BY <1>1, <2>1, <2>2, <3>1, <4>1, <4>2, TabsSpared DEF PathIs
      <4> QED BY <3>1, <4>3 DEF PathIs
    <3>3. CASE p = m.of
      <4>1. About(Head(inbox), p) /\ Landed(Head(inbox), p)
          BY <1>3, <1>4, <1>11, <3>3 DEF About, Landed
      <4>2. \A n \in ToSet(asks) \cup ToSet(inbox) : About(n, p) => n.kind = "write"
          BY <1>1, <1>3, <1>4, <4>1, AloneHeard
      <4>3. \A d \in Done : p \notin {d[1], d[2]}
        <5> SUFFICES ASSUME NEW r \in Renames, p \in {r.of, r.to} PROVE FALSE
            BY DEF Done
        <5>1. r \in ToSet(asks) \cup ToSet(inbox) /\ r.kind \in {"rename", "renamed", "delete", "deleted"}
            BY DEF Renames
        <5> QED BY <4>2, <5>1 DEF About
      <4>4. ASSUME NEW t \in ToSet(tabs'), t.path = p PROVE t.saved = m.num
        <5>1. PICK j \in DOMAIN tabs : t = tabs'[j] /\ tabs[j] \in ToSet(tabs)
            BY <1>8
        <5>2. tabs[j].path = p
            BY <1>6, <4>4, <5>1
        <5>3. m.conn = tabs[j].conn
            BY <1>1, <1>2, <1>3, <4>1, <5>1, <5>2, OneConnection
        <5> QED BY <1>6, <1>11, <3>3, <5>1, <5>2, <5>3 DEF Id
      <4>5. TabsAre(p)'
        <5>1. Unheard(p)' \/ m.num = file'[p]
            BY <1>1, <1>3, <3>1, <4>1
        <5> QED BY <2>1, <4>3, <4>4, <5>1 DEF TabsAre, Unheard
      <4> QED BY <3>1, <4>5 DEF PathIs
    <3> QED BY <3>2, <3>3
  <2> QED BY <1>2, <1>9, <2>2
<1> QED BY <1>4, <1>10, <1>11

LEMMA ChangeHeard ==
    ASSUME LinkInv, CrossInv, OnChanged
    PROVE  MailOK' /\ TabTypes' /\ \A p \in Paths \ crossed : PathIs(p) => PathIs(p)'
<1>1. /\ MailOK /\ TabTypes /\ inbox # <<>> /\ inbox' = Tail(inbox) /\ file' = file /\ tabs' = tabs /\ edits' = edits
    BY DEF LinkInv, OnChanged, Heard, tabVars
<1>2. inbox \in Seq(Notes) /\ inbox' \in Seq(Notes) /\ asks \in Seq(Notes)
    BY <1>1, TailSet DEF MailOK
<1>3. /\ Head(inbox) \in Notes /\ SoundAnswer(Head(inbox)) /\ Head(inbox) \in ToSet(inbox)
      /\ ToSet(inbox) = ToSet(inbox') \cup {Head(inbox)}
  <2>1. Head(inbox) \in Notes /\ Head(inbox) \in ToSet(inbox) /\ ToSet(inbox) = ToSet(inbox') \cup {Head(inbox)}
      BY <1>1, <1>2, TailSet
  <2> QED BY <1>1, <2>1 DEF MailOK
<1>4. PICK m \in Notes : m = Head(inbox)
    BY <1>3
<1>5. TabTypes'
    BY <1>1 DEF TabTypes
<1>6. m.kind \in {"rename", "delete"} /\ m.ok \in BOOLEAN
    BY <1>4, NoteOf DEF OnChanged, Heard
<1>7. CASE ~m.ok
  <2>1. asks' = asks
      BY <1>4, <1>7 DEF OnChanged
  <2>2. MailAside
      BY <1>1, <1>4, <1>7, <2>1, HeardAside DEF Inert
  <2>3. TabsKept
      BY <1>1 DEF TabsKept
  <2> QED BY <1>1, <1>5, <2>2, <2>3, PathsAside DEF MailAside
<1>8. CASE m.ok
  <2> DEFINE c == [m EXCEPT !.kind = IF m.kind = "rename" THEN "renamed" ELSE "deleted"]
  <2>1. (IF m.kind = "rename" THEN "renamed" ELSE "deleted") \in FileKinds \cup OtherKinds
      BY DEF FileKinds
  <2>2. /\ c \in Notes /\ c.kind = (IF m.kind = "rename" THEN "renamed" ELSE "deleted")
        /\ c.of = m.of /\ c.to = m.to
      BY <2>1, NoteOf
  <2>3. Ask(c)
      BY <1>4, <1>8 DEF OnChanged
  <2> HIDE DEF c
  <2>4. Sound(c)
      BY <1>3, <1>4, <1>6, <2>2 DEF Sound, SoundAnswer, FileKinds
  <2>5. asks' \in Seq(Notes) /\ ToSet(asks') = ToSet(asks) \cup {c}
      BY <1>2, <2>2, <2>3, AppendSet DEF Ask
  <2>6. MailOK'
      BY <1>1, <1>2, <1>3, <2>4, <2>5 DEF MailOK
  <2>7. \A d : d \in Done' <=> d \in Done
    <3>1. \A d \in Done : d \in Done'
      <4> SUFFICES ASSUME NEW r \in Renames PROVE <<r.of, r.to>> \in Done'
          BY DEF Done
      <4>1. r \in Renames' \/ r = m
          BY <1>3, <1>4, <2>5 DEF Renames
      <4>2. c \in Renames'
          BY <2>2, <2>5 DEF Renames
      <4> QED BY <2>2, <4>1, <4>2 DEF Done
    <3>2. \A d \in Done' : d \in Done
      <4> SUFFICES ASSUME NEW r \in Renames' PROVE <<r.of, r.to>> \in Done
          BY DEF Done
      <4>1. r \in Renames \/ r = c
          BY <1>3, <2>5 DEF Renames
      <4>2. m \in Renames
          BY <1>3, <1>4, <1>6, <1>8 DEF Renames
      <4> QED BY <2>2, <4>1, <4>2 DEF Done
    <3> QED BY <3>1, <3>2
  <2>8. ASSUME NEW p \in Paths \ crossed, PathIs(p) PROVE PathIs(p)'
    <3>1. /\ ReadsAre(p)' /\ WritesAre(p)' /\ (Unheard(p) => Unheard(p)')
      <4>1. ~Landed(Head(inbox), p)
          BY <1>4, <1>6 DEF Landed
      <4> QED BY <1>1, <2>8, <4>1, InboxShrinks DEF PathIs
    <3>2. TabsAre(p)'
      <4>1. \A t \in ToSet(tabs') : t.path = p => \E u \in ToSet(tabs) : u.path = p /\ u.saved = t.saved
          BY <1>1
      <4> QED BY <1>1, <2>7, <2>8, <3>1, <4>1, TabsSpared DEF PathIs
    <3> QED BY <3>1, <3>2 DEF PathIs
  <2> QED BY <1>5, <2>6, <2>8
<1> QED BY <1>6, <1>7, <1>8

LEMMA ListHeard ==
    ASSUME LinkInv, CrossInv, OnListed, \A p \in Paths \ crossed : PathIs(p)
    PROVE  MailOK' /\ TabTypes' /\ \A p \in Paths \ crossed : PathIs(p)'
<1>1. /\ MailOK /\ TabTypes /\ tabs \in Seq(TabSet) /\ file \in [Paths -> Nat] /\ edits \in Nat \ {0}
      /\ inbox # <<>> /\ inbox' = Tail(inbox) /\ asks' = asks /\ file' = file /\ edits' = edits
    BY DEF LinkInv, TabTypes, OnListed, Heard
<1>2. /\ MailOK' /\ Head(inbox) \in Notes /\ SoundAnswer(Head(inbox)) /\ Head(inbox) \in ToSet(inbox)
      /\ ToSet(inbox) = ToSet(inbox') \cup {Head(inbox)}
    BY <1>1, HeardMail
<1>3. PICK m \in Notes : m = Head(inbox)
    BY <1>2
<1>4. /\ m.kind \in {"renamed", "deleted"} /\ m.of \in Paths /\ m.ok
      /\ m.kind = "renamed" => m.to \in Paths /\ m.to # m.of
      /\ m.kind = "deleted" => m.to = None
  <2>1. m.kind \in {"renamed", "deleted"}
      BY <1>3 DEF OnListed, Heard
  <2> QED BY <1>2, <1>3, <2>1 DEF SoundAnswer, Sound, FileKinds
<1>5. \A j \in DOMAIN tabs : tabs[j] \in TabSet /\ tabs[j] \in ToSet(tabs)
    BY <1>1, InSet
<1>6. \A q \in Paths : About(m, q) <=> q = m.of \/ (m.kind = "renamed" /\ q = m.to)
    BY <1>4, PathsAssumption DEF About
<1>7. m \in Renames /\ <<m.of, m.to>> \in Done
  <2>1. m \in Renames
      BY <1>2, <1>3, <1>4 DEF Renames
  <2> QED BY <2>1 DEF Done
<1>8. /\ tabs' \in Seq(TabSet)
      /\ \A t \in ToSet(tabs') :
            \E u \in ToSet(tabs) :
               /\ t.saved = u.saved
               /\ \/ t.path = u.path /\ (u.path = m.of => m.kind = "renamed" /\ u.conn # m.conn)
                  \/ u.path = m.of /\ m.kind = "renamed" /\ t.path = m.to
  <2>1. CASE m.kind = "renamed"
    <3>1. tabs' = [j \in DOMAIN tabs |-> IF Id(tabs[j]) = <<m.conn, m.of>> THEN [tabs[j] EXCEPT !.path = m.to]
                                         ELSE tabs[j]]
        BY <1>3, <2>1 DEF OnListed, Heard
    <3>2. ASSUME NEW j \in DOMAIN tabs
          PROVE  /\ tabs'[j] \in TabSet /\ tabs'[j].saved = tabs[j].saved
                 /\ \/ tabs'[j].path = tabs[j].path /\ (tabs[j].path = m.of => tabs[j].conn # m.conn)
                    \/ tabs[j].path = m.of /\ tabs'[j].path = m.to
      <4>1. PICK t \in TabSet : t = tabs[j]
          BY <1>5
      <4>2. /\ [t EXCEPT !.path = m.to] \in TabSet /\ [t EXCEPT !.path = m.to].path = m.to
            /\ [t EXCEPT !.path = m.to].saved = t.saved
          BY <1>4, <2>1 DEF TabSet
      <4>3. tabs'[j] = IF t.conn = m.conn /\ t.path = m.of THEN [t EXCEPT !.path = m.to] ELSE t
          BY <3>1, <4>1 DEF Id
      <4> QED BY <4>1, <4>2, <4>3
    <3>3. tabs' = [j \in DOMAIN tabs |-> tabs'[j]]
        BY <3>1
    <3>4. /\ tabs' \in Seq(TabSet)
          /\ \A t \in ToSet(tabs') : \E j \in DOMAIN tabs : t = tabs'[j] /\ tabs[j] \in ToSet(tabs)
        BY <1>1, <3>2, <3>3, TabsMapped
    <3> QED BY <2>1, <3>2, <3>4
  <2>2. CASE m.kind = "deleted"
    <3> DEFINE places == {j \in DOMAIN tabs : tabs[j].path # m.of}
    <3>1. tabs' = TabsAt(places)
        BY <1>3, <2>2 DEF OnListed, Heard
    <3>2. tabs' \in Seq(TabSet) /\ \A t \in ToSet(tabs') : \E j \in places : t = tabs[j]
        BY <1>1, <3>1, TabsAtAre
    <3> QED BY <1>5, <3>2
  <2> QED BY <1>4, <2>1, <2>2
<1>9. TabTypes'
    BY <1>1, <1>8 DEF TabTypes
<1>10. ASSUME NEW p \in Paths \ crossed PROVE PathIs(p)'
  <2>1. PathIs(p)
      OBVIOUS
  <2>2. /\ ReadsAre(p)' /\ WritesAre(p)' /\ (Unheard(p) => Unheard(p)')
    <3>1. ~Landed(Head(inbox), p)
        BY <1>3, <1>4 DEF Landed
    <3> QED BY <1>1, <2>1, <3>1, InboxShrinks DEF PathIs
  <2>3. CASE ~About(m, p)
    <3>1. \A t \in ToSet(tabs') : t.path = p => \E u \in ToSet(tabs) : u.path = p /\ u.saved = t.saved
        BY <1>4, <1>6, <1>8, <2>3
    <3>2. \A d \in Done' : p \in {d[1], d[2]} => d \in Done
      <4> SUFFICES ASSUME NEW r \in Renames' PROVE r \in Renames
          BY DEF Done
      <4> QED BY <1>1, <1>2 DEF Renames
    <3>3. \A d \in Done : p \in {d[1], d[2]} => d \in Done'
      <4> SUFFICES ASSUME NEW r \in Renames, p \in {r.of, r.to} PROVE r \in Renames'
          BY DEF Done
      <4>1. r # m
          BY <1>4, <2>3 DEF About
      <4> QED BY <1>1, <1>2, <1>3, <4>1 DEF Renames
    <3>4. TabsAre(p)'
        BY <1>1, <2>1, <2>2, <3>1, <3>2, <3>3, TabsSpared DEF PathIs
    <3> QED BY <2>2, <3>4 DEF PathIs
  <2>4. CASE About(m, p)
    <3>1. \A n \in ToSet(asks) \cup ToSet(inbox') : ~About(n, p)
        BY <1>1, <1>3, <1>4, <2>4, AloneHeard
    <3>2. \A d \in Done' : p \notin {d[1], d[2]}
      <4> SUFFICES ASSUME NEW r \in Renames', p \in {r.of, r.to} PROVE FALSE
          BY DEF Done
      <4>1. r \in ToSet(asks) \cup ToSet(inbox') /\ r.kind \in {"rename", "renamed", "delete", "deleted"}
          BY <1>1 DEF Renames
      <4> QED BY <3>1, <4>1 DEF About
    <3>3. ASSUME NEW u \in ToSet(tabs), u.path = p PROVE u.conn = m.conn
        BY <1>1, <1>2, <1>3, <2>4, <3>3, OneConnection
    <3>4. ASSUME NEW t \in ToSet(tabs'), t.path = p PROVE t.saved = file[p]
      <4>1. PICK u \in ToSet(tabs) :
               /\ t.saved = u.saved
               /\ \/ t.path = u.path /\ (u.path = m.of => m.kind = "renamed" /\ u.conn # m.conn)
                  \/ u.path = m.of /\ m.kind = "renamed" /\ t.path = m.to
          BY <1>8, <3>4
      <4>2. CASE u.path = m.of /\ m.kind = "renamed" /\ t.path = m.to
        <5>1. m.of \in Paths \ crossed
            BY <1>2, <1>3, <1>4, <3>4, <4>2 DEF CrossInv
        <5>2. PathIs(m.of)
            BY <5>1
        <5>3. <<m.of, m.to>>[1] = m.of /\ <<m.of, m.to>>[2] = m.to /\ m.to # None
            BY <1>4, <4>2, PathsAssumption
        <5> QED BY <1>7, <3>4, <4>1, <4>2, <5>2, <5>3 DEF PathIs, TabsAre
      <4>3. CASE u.path = p /\ (u.path = m.of => m.kind = "renamed" /\ u.conn # m.conn)
        <5>1. p # m.of
            BY <3>3, <4>3
        <5>2. p = m.to
            BY <1>6, <2>4, <5>1
        <5>3. <<m.of, m.to>>[2] = p
            BY <5>2
        <5> QED BY <1>7, <2>1, <4>3, <5>3 DEF PathIs, TabsAre
      <4> QED BY <3>4, <4>1, <4>2, <4>3
    <3>5. TabsAre(p)'
        BY <1>1, <3>2, <3>4 DEF TabsAre
    <3> QED BY <2>2, <3>5 DEF PathIs
  <2> QED BY <2>3, <2>4
<1> QED BY <1>2, <1>9, <1>10

-----------------------------------------------------------------------------
(* All steps together.                                                      *)

LEMMA TabsInvInit == Init => TabsInv
<1> SUFFICES ASSUME Init PROVE TabsInv
    OBVIOUS
<1>1. /\ asks = <<>> /\ inbox = <<>> /\ up = 0 /\ made = 0 /\ current = 0 /\ target = None
      /\ file = [p \in Paths |-> 1] /\ tabs = <<>> /\ edits = 1 /\ crossed = {}
      /\ running = {} /\ created = <<>> /\ printed = [n \in Terminals |-> 0] /\ status.conn = 0
    BY DEF Init, LinkInit, TabsInit, ViewsInit, State
<1>2. ToSet(<<>>) = {} /\ \A S : <<>> \in Seq(S)
    BY DEF ToSet
<1>3. MailOK
    BY <1>1, <1>2 DEF MailOK
<1>4. MainTypes /\ TabTypes
    BY <1>1, <1>2, FS_EmptySet, LinksAssumption DEF MainTypes, TabTypes
<1>5. \A p : OnTheWay(p) = {}
  <2>1. DOMAIN (asks \o inbox) = {}
      BY <1>1
  <2> QED BY <2>1 DEF OnTheWay
<1>6. CrossInv
  <2>1. \A p : ~Crossing(p)
      BY <1>5 DEF Crossing
  <2> QED BY <1>1, <1>2, <2>1 DEF CrossInv
<1>7. \A p : PathIs(p)
    BY <1>1, <1>2 DEF PathIs, ReadsAre, WritesAre, TabsAre
<1> QED BY <1>1, <1>3, <1>4, <1>6, <1>7 DEF TabsInv, LinkInv

\* What is left of a step about files.
LEMMA FileStepDone ==
    ASSUME TabsInv, CrossedAfter, MailOK', MainTypes', TabTypes', \A p \in Paths \ crossed' : PathIs(p) => PathIs(p)'
    PROVE  TabsInv'
<1>1. CrossInv' /\ crossed' \in SUBSET Paths /\ crossed \subseteq crossed'
    BY CrossInvNext DEF TabsInv, LinkInv
<1> QED BY <1>1 DEF TabsInv, LinkInv

LEMMA FileStepsKeep ==
    ASSUME TabsInv, CrossedAfter, FileSteps
    PROVE  TabsInv'
<1>1. LinkInv /\ CrossInv /\ MainTypes /\ TabTypes /\ MailOK /\ file \in [Paths -> Nat]
    BY DEF TabsInv, LinkInv, TabTypes
<1>2. MainTypes'
  <2>1. UNCHANGED <<up, made, current, status, target>>
    <3>1. CASE \E p \in Paths : OpenFile(p) \/ DeleteEntry(p) \/ \E q \in Paths : RenameEntry(p, q)
        BY <3>1 DEF OpenFile, DeleteEntry, RenameEntry, mainVars, appVars
    <3>2. CASE \E i \in DOMAIN asks : Read(i) \/ Write(i) \/ WriteUnheard(i) \/ Rename(i) \/ Delete(i) \/ List(i)
        BY <3>2 DEF Read, Write, WriteUnheard, Rename, Delete, List, mainVars, appVars
    <3>3. CASE OnChanged \/ OnRead \/ OnWrite \/ OnListed
        BY <3>3 DEF OnChanged, OnRead, OnWrite, OnListed, mainVars, appVars
    <3>4. CASE \E i \in DOMAIN tabs : CloseTab(i) \/ SaveNow(i) \/ AutoSave(i) \/ EditTab(i)
        BY <3>4 DEF CloseTab, SaveNow, AutoSave, SaveTab, EditTab, mainVars, appVars
    <3> QED BY <3>1, <3>2, <3>3, <3>4 DEF FileSteps
  <2>2. UNCHANGED <<running, created, printed>>
      BY DEF FileSteps, Rendered, PanelRendered, viewVars
  <2> QED BY <1>1, <2>1, <2>2 DEF MainTypes
<1>3. CASE \E p \in Paths : OpenFile(p) \/ DeleteEntry(p) \/ \E q \in Paths : RenameEntry(p, q)
  <2>1. MailAside /\ TabTypes' /\ file' = file /\ TabsKept
      BY <1>1, <1>3, FileCalls
  <2> QED BY <1>2, <2>1, AsideStep
<1>4. CASE \E i \in DOMAIN tabs : CloseTab(i) \/ SaveNow(i) \/ AutoSave(i) \/ EditTab(i)
  <2>1. MailAside /\ TabTypes' /\ file' = file /\ TabsKept
      BY <1>1, <1>4, TabGestures
  <2> QED BY <1>2, <2>1, AsideStep
<1>5. ASSUME MailOK', TabTypes', \A p \in Paths \ crossed : PathIs(p) => PathIs(p)' PROVE TabsInv'
  <2>1. crossed \subseteq crossed'
      BY <1>5, CrossInvNext DEF TabsInv, LinkInv
  <2>2. \A p \in Paths \ crossed' : PathIs(p) => PathIs(p)'
      BY <1>5, <2>1
  <2> QED BY <1>2, <1>5, <2>2, FileStepDone
<1>6. ASSUME NEW i \in DOMAIN asks, Read(i) \/ List(i) PROVE TabsInv'
  <2>1. MailOK' /\ \A p \in Paths \ crossed : PathIs(p) => PathIs(p)'
      BY <1>1, <1>6, ReadStep, ListStep
  <2>2. TabTypes'
      BY <1>1, <1>6 DEF Read, List, tabVars, TabTypes
  <2> QED BY <1>5, <2>1, <2>2
<1>7. ASSUME NEW i \in DOMAIN asks, Rename(i) \/ Delete(i) PROVE TabsInv'
  <2>1. MailOK' /\ file' \in [Paths -> Nat] /\ \A p \in Paths \ crossed : PathIs(p) => PathIs(p)'
      BY <1>1, <1>7, MoveStep
  <2>2. TabTypes'
      BY <1>1, <1>7, <2>1 DEF Rename, Delete, TabTypes
  <2> QED BY <1>5, <2>1, <2>2
<1>8. ASSUME NEW i \in DOMAIN asks, Write(i) \/ WriteUnheard(i) PROVE TabsInv'
  <2>1. MailOK' /\ file' \in [Paths -> Nat] /\ \A p \in Paths \ crossed' : PathIs(p) => PathIs(p)'
      BY <1>1, <1>8, WriteStep
  <2>2. TabTypes'
      BY <1>1, <1>8, <2>1 DEF Write, WriteUnheard, TabTypes
  <2> QED BY <1>2, <2>1, <2>2, FileStepDone
<1>9. CASE OnRead \/ OnWrite \/ OnChanged
  <2>1. MailOK' /\ TabTypes' /\ \A p \in Paths \ crossed : PathIs(p) => PathIs(p)'
      BY <1>1, <1>9, ReadHeard, WriteHeard, ChangeHeard
  <2> QED BY <1>5, <2>1
<1>10. CASE OnListed
  <2>1. MailOK' /\ TabTypes' /\ \A p \in Paths \ crossed : PathIs(p)'
      BY <1>1, <1>10, ListHeard DEF TabsInv
  <2> QED BY <1>5, <2>1
<1> QED BY <1>3, <1>4, <1>6, <1>7, <1>8, <1>9, <1>10 DEF FileSteps

LEMMA TabsInvNext == TabsInv /\ [Next]_vars => TabsInv'
<1> SUFFICES ASSUME TabsInv, [Next]_vars PROVE TabsInv'
    OBVIOUS
<1>1. MailOK /\ MainTypes /\ TabTypes /\ LinkInv
    BY DEF TabsInv, LinkInv
<1>2. ASSUME UNCHANGED <<linkVars, tabVars, crossed, docVars, viewVars>> PROVE TabsInv'
  <2>1. UNCHANGED <<asks, inbox, up, made, current, status, target, file, tabs, edits, crossed, running, created,
                    printed>>
      BY <1>2 DEF linkVars, mainVars, appVars, tabVars, viewVars
  <2>2. MailOK' /\ MainTypes' /\ TabTypes' /\ CrossInv'
      BY <2>1 DEF MailOK, MainTypes, TabTypes, CrossInv, Crossing, OnTheWay, TabsInv, LinkInv
  <2>3. \A p \in Paths \ crossed' : PathIs(p)'
      BY <2>1 DEF PathIs, ReadsAre, WritesAre, TabsAre, Done, Renames, TabsInv
  <2>4. crossed' \in SUBSET Paths
      BY <2>1 DEF TabsInv, LinkInv
  <2> QED BY <2>2, <2>3, <2>4 DEF TabsInv, LinkInv
<1>3. ASSUME ConnectionSteps, CrossedAfter PROVE TabsInv'
  <2>1. MailAside /\ MainTypes'
      BY <1>1, <1>3, ConnectionMail
  <2>2. file' = file /\ TabTypes' /\ TabsKept
    <3>1. CASE OnConnectAnswer /\ Remapped(Head(inbox)) /\ UNCHANGED <<file, edits>> /\ Rendered
      <4>1. Head(inbox) \in Notes
          BY <1>1, <3>1, TailSet DEF MailOK, OnConnectAnswer, Heard
      <4> QED BY <1>1, <3>1, <4>1, RemapKeeps
    <3>2. CASE UNCHANGED <<file, tabs, edits>>
        BY <1>1, <3>2, TabsSame DEF TabTypes
    <3> QED BY <1>3, <3>1, <3>2 DEF ConnectionSteps, SessionEnds, tabVars
  <2> QED BY <1>3, <2>1, <2>2, AsideStep
<1>4. ASSUME TerminalSteps, CrossedAfter PROVE TabsInv'
  <2>1. MailAside /\ MainTypes'
      BY <1>1, <1>4, TerminalMail
  <2>2. UNCHANGED tabVars
      BY <1>4 DEF TerminalSteps
  <2>3. file' = file /\ TabTypes' /\ TabsKept
      BY <1>1, <2>2, TabsSame DEF TabTypes, tabVars
  <2> QED BY <1>4, <2>1, <2>3, AsideStep
<1>5. ASSUME DocumentSteps, CrossedAfter PROVE TabsInv'
  <2>1. UNCHANGED <<asks, inbox, mainVars, appVars, tabVars, viewVars>>
      BY <1>5 DEF DocumentSteps
  <2>2. MailAside /\ MainTypes'
      BY <1>1, <2>1 DEF MailAside, AsksAside, InboxAside, MailOK, MainTypes, mainVars, appVars, viewVars
  <2>3. file' = file /\ TabTypes' /\ TabsKept
      BY <1>1, <2>1, TabsSame DEF TabTypes, tabVars
  <2> QED BY <1>5, <2>2, <2>3, AsideStep
<1>6. CASE UNCHANGED vars
    BY <1>2, <1>6 DEF vars
<1> QED BY <1>2, <1>3, <1>4, <1>5, <1>6, FileStepsKeep DEF Next

(* A tab that shows no unsaved change shows what the remote file holds      *)
(* (SavedIsStored), whatever edits, overlapping saves, closings, renames,   *)
(* deletes, failures and reconnects there were, in any number and order:    *)
(* saveTab, applySavedState, remapTabsToConnection and the path changes.    *)
THEOREM SavedStaysStored == Spec => []SavedIsStored
<1>1. TabsInv => SavedIsStored
  <2> SUFFICES ASSUME TabsInv, NEW t \in ToSet(tabs), ~Dirty(t), OnTheWay(t.path) = {}, t.path \notin crossed
               PROVE  file[t.path] = t.text
      BY DEF SavedIsStored
  <2>1. MailOK /\ tabs \in Seq(TabSet)
      BY DEF TabsInv, LinkInv, TabTypes
  <2>2. t.path \in Paths /\ t.text = t.saved
    <3>1. t \in TabSet
        BY <2>1, InSet
    <3> QED BY <3>1, TabIs DEF Dirty
  <2>3. PathIs(t.path)
      BY <2>2 DEF TabsInv
  <2>4. ASSUME NEW n \in ToSet(asks) \cup ToSet(inbox), About(n, t.path) PROVE FALSE
    <3>1. \A k \in DOMAIN (asks \o inbox) : ~About((asks \o inbox)[k], t.path)
        BY DEF OnTheWay
    <3>2. n \in ToSet(asks \o inbox) /\ asks \o inbox \in Seq(Notes)
        BY <2>1, ConcatSet DEF MailOK
    <3>3. \E k \in DOMAIN (asks \o inbox) : n = (asks \o inbox)[k]
        BY <3>2 DEF ToSet
    <3> QED BY <2>4, <3>1, <3>3
  <2>5. \A n \in ToSet(inbox) : ~Landed(n, t.path)
      BY <2>4 DEF About, Landed
  <2>6. \A d \in Done : t.path \notin {d[1], d[2]}
      BY <2>1, <2>2, <2>4, DoneByNote
  <2> QED BY <2>2, <2>3, <2>5, <2>6 DEF PathIs, TabsAre
<1>2. QED
    BY <1>1, TabsInvInit, TabsInvNext, PTL DEF Spec

-----------------------------------------------------------------------------
(* The terminal panel: what the window was told of each terminal, and what  *)
(* is still on its way to it.                                               *)

\* The note that terminal n was created; its chunks; its end; all these events.
Born(i, n) == i \in DOMAIN inbox /\ inbox[i].kind = "terminal" /\ inbox[i].ok /\ inbox[i].of = n
Chunk(i, n) == i \in DOMAIN inbox /\ inbox[i].kind = "data" /\ inbox[i].of = n
Ended(i, n) == i \in DOMAIN inbox /\ inbox[i].kind = "exit" /\ inbox[i].of = n
Tells(i, n) == Chunk(i, n) \/ Ended(i, n)

\* The window is told of another connection, or of none.
Turns(i) == i \in DOMAIN inbox /\ inbox[i].kind \in {"connected", "disconnected", "error"}
Back(i) == Turns(i) /\ inbox[i].kind = "connected" /\ inbox[i].conn = up

Pane == [on : BOOLEAN, shown : Seq(Nat), waiting : Seq(Nat)]

ViewTypes ==
    /\ list \in Seq(Terminals) /\ visible \in Seq(Terminals) /\ ToSet(visible) \subseteq ToSet(list)
    /\ log \in [Terminals -> Seq(Nat)] /\ last \in [Terminals -> Nat] /\ view \in [Terminals -> Pane]
    /\ \A n \in Terminals : IF view[n].on THEN n \in ToSet(visible) ELSE view[n].waiting = <<>>

\* What there is about terminals is about those that were created.
CreatedOnes ==
    /\ Len(created) <= MaxTerminals /\ up <= made
    /\ \A n \in DOMAIN created : created[n] \in 1..made
    /\ running \subseteq DOMAIN created /\ ToSet(list) \subseteq DOMAIN created /\ ignored \subseteq DOMAIN created
    /\ \A i, n : Born(i, n) \/ Tells(i, n) => n \in DOMAIN created
    /\ \A n \in Terminals \ DOMAIN created : printed[n] = 0 /\ last[n] = 0 /\ log[n] = <<>>
    /\ \A c \in ToSet(asks) : c.kind = "terminal" => c.ok
    /\ \A i, n : Ended(i, n) => inbox[i].num = 0

\* A terminal is announced once, before anything it says, and is no more in the list then.
BornFirst(n) ==
    \A i : Born(i, n) =>
       /\ n \notin ToSet(list) /\ n \notin ignored /\ last[n] = 0 /\ log[n] = <<>>
       /\ \A j : Born(j, n) => j = i
       /\ \A j : Tells(j, n) => i < j

\* Its end is the last it says.
EndsLast(n) == \A i : Ended(i, n) => n \notin running /\ \A j : Tells(j, n) => j <= i

\* What it printed and the panel has not taken is on its way, in order.
Streams(n) ==
    n \in ToSet(list) \/ (\E i : Born(i, n)) =>
       /\ last[n] <= printed[n]
       /\ \A i : Chunk(i, n) => inbox[i].num \in (last[n] + 1)..printed[n]
       /\ \A i, j : Chunk(i, n) /\ Chunk(j, n) /\ i < j => inbox[i].num < inbox[j].num
       /\ \A v \in (last[n] + 1)..printed[n] : \E i : Chunk(i, n) /\ inbox[i].num = v

\* The log of a terminal in the list: the last chunks, then its end if that came.
LogHas(n, z) ==
    LET len == Len(log[n]) IN
    /\ len = IF last[n] + z < MaxReplay THEN last[n] + z ELSE MaxReplay
    /\ \A k \in 1..(len - z) : log[n][k] = last[n] - (len - z) + k
    /\ z = 1 => log[n][len] = 0 /\ n \notin running /\ \A i : ~Tells(i, n)

Logs(n) == n \in ToSet(list) => n \notin ignored /\ (LogHas(n, 0) \/ LogHas(n, 1))

\* What is on a screen and waits for it is the output up to chunk l, from far enough back.
Shows(has, l) ==
    /\ \A k \in DOMAIN has : has[k] = l - Len(has) + k
    /\ Len(has) >= IF l < MaxReplay THEN l ELSE MaxReplay - 1

PaneShows(n) == view[n].on => Shows(view[n].shown \o view[n].waiting, last[n])

\* The window is on the connection the main process has and stays there.
Here == status = State("connected", up) /\ \A i : Turns(i) => Back(i)

\* It comes to that connection with note k, for good.
Comes(k) == Back(k) /\ \A j : Turns(j) /\ ~Back(j) => j < k

\* One or the other holds as long as the client reported no error.
ComesUp == up # 0 /\ erred # up => Here \/ \E k : Comes(k)

\* A terminal of that connection is in the list, about to be, or about to be closed.
ComesIn(n) ==
    n \in running /\ created[n] = up /\ erred # up =>
       \/ n \in ToSet(list) /\ Here
       \/ \E i : Born(i, n) /\ (Here \/ \E k : k < i /\ Comes(k))
       \/ \E c \in ToSet(asks) : c.kind = "hang" /\ c.of = n

ShownInv ==
    /\ ViewTypes /\ CreatedOnes /\ ComesUp
    /\ \A n \in Terminals : BornFirst(n) /\ EndsLast(n) /\ Streams(n) /\ Logs(n) /\ PaneShows(n) /\ ComesIn(n)
-----------------------------------------------------------------------------
(* Picked, in the whole: every place comes, and a beginning stays as it is. *)

LEMMA OrderedOnto ==
    ASSUME NEW k \in Nat, NEW places \in SUBSET (1..k)
    PROVE  /\ Cardinality(places) \in Nat
           /\ InOrder(places) \in [1..Cardinality(places) -> places] /\ Ascending(InOrder(places))
           /\ \A x \in places : \E n \in 1..Cardinality(places) : InOrder(places)[n] = x
<1> DEFINE c == Cardinality(places)
           f == InOrder(places)
<1>1. IsFiniteSet(places) /\ c \in Nat
  <2>1. IsFiniteSet(1..k)
      BY FS_Interval
  <2> QED BY <2>1, FS_Subset, FS_CardinalityType
<1>2. Ordered(places)
    BY PlacesOrdered
<1>3. f \in [1..c -> places] /\ Ascending(f)
    BY <1>2 DEF Ordered, Ascending, InOrder
<1>4. ASSUME NEW m \in 1..c, NEW n \in 1..c, f[m] = f[n] PROVE m = n
  <2>1. f[m] \in Nat /\ f[n] \in Nat
    <3>1. \A x \in places : x \in Nat
        OBVIOUS
    <3> HIDE DEF f
    <3> QED BY <1>3, <3>1
  <2>2. m < n => f[m] < f[n]
      BY <1>3 DEF Ascending
  <2>3. n < m => f[n] < f[m]
      BY <1>3 DEF Ascending
  <2> HIDE DEF f
  <2> QED BY <1>1, <1>4, <2>1, <2>2, <2>3
<1>5. f \in Injection(1..c, places)
    BY <1>3, <1>4 DEF Injection, IsInjective
<1>6. Cardinality(1..c) = c
    BY <1>1, FS_Interval
<1>7. f \in Surjection(1..c, places)
  <2> HIDE DEF f
  <2> QED BY <1>1, <1>5, <1>6, FS_Injection
<1>8. \A x \in places : \E n \in 1..c : f[n] = x
    BY <1>7 DEF Surjection
<1> QED BY <1>1, <1>3, <1>8

LEMMA PickedAre ==
    ASSUME NEW S, NEW s \in Seq(S), NEW places \in SUBSET DOMAIN s
    PROVE  Picked(s, places) \in Seq(S) /\ ToSet(Picked(s, places)) = {s[k] : k \in places}
<1> DEFINE c == Cardinality(places)
           f == InOrder(places)
<1>1. /\ c \in Nat /\ f \in [1..c -> places]
      /\ \A x \in places : \E n \in 1..c : f[n] = x
  <2>1. Len(s) \in Nat /\ places \in SUBSET (1..Len(s))
      OBVIOUS
  <2> QED BY <2>1, OrderedOnto
<1> HIDE DEF f, c
<1>2. Picked(s, places) = [n \in 1..c |-> s[f[n]]]
    BY DEF Picked, f, c
<1>3. \A n \in 1..c : s[f[n]] \in S
    BY <1>1
<1>4. Picked(s, places) \in Seq(S) /\ DOMAIN Picked(s, places) = 1..c
    BY <1>1, <1>2, <1>3
<1>5. ToSet(Picked(s, places)) = {s[f[n]] : n \in 1..c}
    BY <1>2 DEF ToSet
<1>6. {s[f[n]] : n \in 1..c} = {s[k] : k \in places}
    BY <1>1
<1> QED BY <1>4, <1>5, <1>6

LEMMA AllButIs ==
    ASSUME NEW S, NEW s \in Seq(S), NEW x
    PROVE  AllBut(s, x) \in Seq(S) /\ ToSet(AllBut(s, x)) = ToSet(s) \ {x}
<1> DEFINE places == {k \in DOMAIN s : s[k] # x}
<1>1. AllBut(s, x) \in Seq(S) /\ ToSet(AllBut(s, x)) = {s[k] : k \in places}
    BY PickedAre DEF AllBut
<1>2. {s[k] : k \in places} = ToSet(s) \ {x}
    BY DEF ToSet
<1> QED BY <1>1, <1>2

LEMMA BeginningInOrder ==
    ASSUME NEW m \in Nat, NEW k \in 1..m
    PROVE  InOrder(1..m)[k] = k /\ Cardinality(1..m) = m
<1> DEFINE f == InOrder(1..m)
           Bad == {n \in Nat : n \in 1..m /\ f[n] # n}
<1>1. Cardinality(1..m) = m
    BY FS_Interval
<1>2. f \in [1..m -> 1..m] /\ Ascending(f) /\ \A x \in 1..m : \E n \in 1..m : f[n] = x
    BY <1>1, OrderedOnto
<1> HIDE DEF f
<1>3. ASSUME Bad # {} PROVE FALSE
  <2>1. PICK x \in Bad : \A y \in Bad : ~(<<y, x>> \in OpToRel(<, Nat))
    <3>1. Bad \subseteq Nat
        OBVIOUS
    <3> HIDE DEF Bad
    <3> QED BY <1>3, <3>1, NatLessThanWellFounded, WFMin
  <2>2. \A y \in Bad : ~(y < x)
      BY <2>1 DEF OpToRel
  <2>3. x \in 1..m /\ f[x] # x /\ f[x] \in 1..m
      BY <1>2
  <2>4. \A y \in 1..m : y < x => f[y] = y
      BY <2>2
  <2>5. PICK n \in 1..m : f[n] = x
      BY <1>2, <2>3
  <2>6. ~(n < x) /\ n # x
      BY <2>3, <2>4, <2>5
  <2>7. x < n
      BY <2>3, <2>6
  <2>8. f[x] < x
      BY <1>2, <2>3, <2>5, <2>7 DEF Ascending
  <2>9. f[f[x]] = f[x]
      BY <2>3, <2>4, <2>8
  <2>10. f[f[x]] < f[x]
      BY <1>2, <2>3, <2>8 DEF Ascending
  <2> QED BY <2>3, <2>9, <2>10
<1> QED BY <1>1, <1>3 DEF f

LEMMA PickedBeginning ==
    ASSUME NEW S, NEW s \in Seq(S), NEW m \in 0..Len(s)
    PROVE  Picked(s, 1..m) = [k \in 1..m |-> s[k]]
<1>1. m \in Nat
    OBVIOUS
<1>2. Cardinality(1..m) = m
    BY <1>1, FS_Interval
<1>3. \A k \in 1..m : InOrder(1..m)[k] = k
    BY <1>1, BeginningInOrder
<1> QED BY <1>2, <1>3 DEF Picked
-----------------------------------------------------------------------------
(* What is on its way, after a step.                                        *)

\* What is on its way about terminal n is as it was, d places further on.
Moved(n, d) ==
    \A i \in Int :
       /\ (Born(i, n))' <=> Born(i + d, n)
       /\ (Chunk(i, n))' <=> Chunk(i + d, n)
       /\ (Ended(i, n))' <=> Ended(i + d, n)
       /\ Tells(i + d, n) => inbox'[i] = inbox[i + d]

TurnsMoved(d) ==
    \A i \in Int : ((Turns(i))' <=> Turns(i + d)) /\ (Turns(i + d) => inbox'[i] = inbox[i + d])

\* The same, but for more notes of the connection there is.
TurnsKept(d) ==
    \A i \in Int :
       /\ Turns(i + d) => (Turns(i))' /\ inbox'[i] = inbox[i + d]
       /\ (Turns(i))' => (Back(i))' \/ (Turns(i + d) /\ inbox'[i] = inbox[i + d])

\* A note that is not about terminal n; one that tells of no connection.
Foreign(m, n) == m.kind \in {"terminal", "data", "exit"} => m.of # n \/ (m.kind = "terminal" /\ ~m.ok)
Level(m) == m.kind \notin {"connected", "disconnected", "error"}

LEMMA BoxGrows ==
    ASSUME MailOK, NEW notes \in Seq(Notes), inbox' = inbox \o notes
    PROVE  /\ Len(inbox) \in Nat /\ Len(notes) \in Nat /\ DOMAIN inbox = 1..Len(inbox)
           /\ DOMAIN inbox' = 1..(Len(inbox) + Len(notes))
           /\ \A i \in 1..Len(inbox) : inbox'[i] = inbox[i]
           /\ \A i \in (Len(inbox) + 1)..(Len(inbox) + Len(notes)) :
                 i - Len(inbox) \in DOMAIN notes /\ inbox'[i] = notes[i - Len(inbox)] /\ inbox'[i] \in ToSet(notes)
<1>1. inbox \in Seq(Notes)
    BY DEF MailOK
<1>2. /\ Len(inbox) \in Nat /\ Len(notes) \in Nat /\ DOMAIN inbox = 1..Len(inbox) /\ DOMAIN notes = 1..Len(notes)
      /\ inbox' \in Seq(Notes) /\ Len(inbox') = Len(inbox) + Len(notes)
      /\ \A i \in 1..Len(inbox) : inbox'[i] = inbox[i]
      /\ \A i \in 1..Len(notes) : inbox'[Len(inbox) + i] = notes[i]
    BY <1>1
<1>3. ASSUME NEW i \in (Len(inbox) + 1)..(Len(inbox) + Len(notes))
      PROVE  i - Len(inbox) \in DOMAIN notes /\ inbox'[i] = notes[i - Len(inbox)] /\ inbox'[i] \in ToSet(notes)
  <2>1. i - Len(inbox) \in 1..Len(notes) /\ i = Len(inbox) + (i - Len(inbox))
      BY <1>2
  <2>2. inbox'[i] = notes[i - Len(inbox)]
      BY <1>2, <2>1
  <2> QED BY <1>2, <2>1, <2>2, InSet
<1> QED BY <1>2, <1>3

LEMMA BoxShrinks ==
    ASSUME MailOK, inbox # <<>>, inbox' = Tail(inbox)
    PROVE  /\ Len(inbox) \in Nat \ {0} /\ DOMAIN inbox = 1..Len(inbox) /\ DOMAIN inbox' = 1..(Len(inbox) - 1)
           /\ \A i \in 1..(Len(inbox) - 1) : inbox'[i] = inbox[i + 1]
           /\ Head(inbox) = inbox[1] /\ Head(inbox) \in Notes
<1>1. inbox \in Seq(Notes)
    BY DEF MailOK
<1>2. /\ Len(inbox) \in Nat \ {0} /\ Head(inbox) = inbox[1] /\ Len(inbox') = Len(inbox) - 1 /\ inbox' \in Seq(Notes)
      /\ \A i \in 1..(Len(inbox) - 1) : inbox'[i] = inbox[i + 1]
      /\ Head(inbox) \in Notes
    BY <1>1, TailSet
<1> QED BY <1>1, <1>2

LEMMA SentMoves ==
    ASSUME MailOK, NEW notes \in Seq(Notes), inbox' = inbox \o notes
    PROVE  /\ \A n : (\A m \in ToSet(notes) : Foreign(m, n)) => Moved(n, 0)
           /\ (\A m \in ToSet(notes) : Level(m)) => TurnsMoved(0)
<1> DEFINE N == Len(inbox)
           M == Len(notes)
<1>1. /\ N \in Nat /\ M \in Nat /\ DOMAIN inbox = 1..N /\ DOMAIN inbox' = 1..(N + M)
      /\ \A i \in 1..N : inbox'[i] = inbox[i]
      /\ \A i \in (N + 1)..(N + M) : inbox'[i] \in ToSet(notes)
    BY BoxGrows
<1> HIDE DEF N, M
<1>2. \A i \in Int : i + 0 = i /\ (i \in DOMAIN inbox' <=> i \in DOMAIN inbox \/ i \in (N + 1)..(N + M))
    BY <1>1
<1>3. \A i \in (N + 1)..(N + M) : i \notin DOMAIN inbox
    BY <1>1
<1>4. ASSUME NEW n, \A m \in ToSet(notes) : Foreign(m, n) PROVE Moved(n, 0)
    BY <1>1, <1>2, <1>3, <1>4 DEF Moved, Foreign, Born, Chunk, Ended, Tells
<1>5. ASSUME \A m \in ToSet(notes) : Level(m) PROVE TurnsMoved(0)
    BY <1>1, <1>2, <1>3, <1>5 DEF TurnsMoved, Level, Turns
<1> QED BY <1>4, <1>5

LEMMA TakenMoves ==
    ASSUME MailOK, inbox # <<>>, inbox' = Tail(inbox)
    PROVE  /\ \A n : Foreign(Head(inbox), n) => Moved(n, 1)
           /\ Level(Head(inbox)) => TurnsMoved(1)
<1> DEFINE N == Len(inbox)
<1>1. /\ N \in Nat \ {0} /\ DOMAIN inbox = 1..N /\ DOMAIN inbox' = 1..(N - 1)
      /\ \A i \in 1..(N - 1) : inbox'[i] = inbox[i + 1]
      /\ Head(inbox) = inbox[1]
    BY BoxShrinks
<1> HIDE DEF N
<1>2. \A i \in Int : i + 1 \in DOMAIN inbox <=> i \in DOMAIN inbox' \/ i + 1 = 1
    BY <1>1
<1>3. \A i \in DOMAIN inbox' : i \in Int /\ inbox'[i] = inbox[i + 1] /\ i + 1 # 1
    BY <1>1
<1>4. ASSUME NEW n, Foreign(Head(inbox), n) PROVE Moved(n, 1)
    BY <1>1, <1>2, <1>3, <1>4 DEF Moved, Foreign, Born, Chunk, Ended, Tells
<1>5. ASSUME Level(Head(inbox)) PROVE TurnsMoved(1)
    BY <1>1, <1>2, <1>3, <1>5 DEF TurnsMoved, Level, Turns
<1> QED BY <1>4, <1>5

LEMMA StillMoves ==
    ASSUME MailOK, inbox' = inbox
    PROVE  (\A n : Moved(n, 0)) /\ TurnsMoved(0)
<1>1. \A i \in Int : i + 0 = i
    OBVIOUS
<1> QED BY <1>1 DEF Moved, TurnsMoved, Born, Chunk, Ended, Tells, Turns
-----------------------------------------------------------------------------
(* A terminal that a step leaves alone, and a step that leaves all alone.   *)

Told(n) == BornFirst(n) /\ EndsLast(n) /\ Streams(n) /\ Logs(n)

\* The panel and its session have of terminal n what they had; it may end.
LeftAlone(n) ==
    /\ n \in ToSet(list)' <=> n \in ToSet(list)
    /\ n \in ignored' <=> n \in ignored
    /\ n \in running' => n \in running
    /\ last'[n] = last[n] /\ log'[n] = log[n] /\ printed'[n] = printed[n]

LEMMA InInbox ==
    ASSUME MailOK, NEW i, NEW n, Born(i, n) \/ Tells(i, n) \/ Turns(i)
    PROVE  i \in Int /\ i >= 1 /\ i \in DOMAIN inbox /\ inbox[i] \in Notes /\ inbox[i].num \in Nat
<1>1. inbox \in Seq(Notes) /\ DOMAIN inbox = 1..Len(inbox) /\ Len(inbox) \in Nat
    BY DEF MailOK
<1>2. i \in DOMAIN inbox
    BY DEF Born, Tells, Chunk, Ended, Turns
<1>3. inbox[i] \in Notes
    BY <1>1, <1>2
<1>4. i \in Int /\ i >= 1
    BY <1>1, <1>2
<1> QED BY <1>2, <1>3, <1>4, NoteOf

LEMMA InNextInbox ==
    ASSUME MailOK', NEW i, NEW n, (Born(i, n))' \/ (Tells(i, n))' \/ (Turns(i))'
    PROVE  i \in Int /\ i >= 1
<1>1. inbox' \in Seq(Notes) /\ DOMAIN inbox' = 1..Len(inbox') /\ Len(inbox') \in Nat
    BY DEF MailOK
<1>2. i \in DOMAIN inbox'
    BY DEF Born, Tells, Chunk, Ended, Turns
<1> QED BY <1>1, <1>2

LEMMA Shifts ==
    ASSUME NEW i \in Int, NEW d \in {0, 1}
    PROVE  i - d \in Int /\ (i - d) + d = i
OBVIOUS

LEMMA OtherTerminal ==
    ASSUME MailOK, MailOK', NEW n, NEW d \in {0, 1}, Moved(n, d), LeftAlone(n), Told(n), last[n] \in Nat, printed[n] \in Nat
    PROVE  Told(n)'
<1>1. \A i : (Born(i, n))' \/ (Tells(i, n))' => i \in Int
    BY InNextInbox
<1>2. \A i : Born(i, n) \/ Tells(i, n) => i \in Int /\ i - d \in Int /\ (i - d) + d = i
    BY InInbox, Shifts
<1>3. \A i \in Int : /\ (Born(i, n))' <=> Born(i + d, n)
                     /\ (Chunk(i, n))' <=> Chunk(i + d, n)
                     /\ (Ended(i, n))' <=> Ended(i + d, n)
                     /\ (Tells(i, n))' <=> Tells(i + d, n)
                     /\ (Tells(i, n))' => inbox'[i] = inbox[i + d]
    BY DEF Moved, Tells
<1>4. \A i, j \in Int : /\ i + d < j + d <=> i < j
                        /\ i + d <= j + d <=> i <= j
                        /\ i + d = j + d <=> i = j
                        /\ i + d \in Int
    OBVIOUS
<1>5. BornFirst(n)'
  <2> SUFFICES ASSUME NEW i, (Born(i, n))'
               PROVE  /\ n \notin ToSet(list)' /\ n \notin ignored' /\ last'[n] = 0 /\ log'[n] = <<>>
                      /\ \A j : (Born(j, n))' => j = i
                      /\ \A j : (Tells(j, n))' => i < j
      BY DEF BornFirst
  <2>1. i \in Int /\ Born(i + d, n)
      BY <1>1, <1>3
  <2> QED BY <1>1, <1>3, <1>4, <2>1 DEF LeftAlone, Told, BornFirst
<1>6. EndsLast(n)'
  <2> SUFFICES ASSUME NEW i, (Ended(i, n))', NEW j PROVE n \notin running' /\ ((Tells(j, n))' => j <= i)
      BY DEF EndsLast
  <2>1. i \in Int /\ Ended(i + d, n)
      BY <1>1, <1>3 DEF Tells
  <2> QED BY <1>1, <1>3, <1>4, <2>1 DEF LeftAlone, Told, EndsLast
<1>7. Streams(n)'
  <2> SUFFICES ASSUME n \in ToSet(list)' \/ \E i : (Born(i, n))'
               PROVE  /\ last'[n] <= printed'[n]
                      /\ \A i : (Chunk(i, n))' => inbox'[i].num \in (last'[n] + 1)..printed'[n]
                      /\ \A i, j : (Chunk(i, n))' /\ (Chunk(j, n))' /\ i < j => inbox'[i].num < inbox'[j].num
                      /\ \A v \in (last'[n] + 1)..printed'[n] : \E i : (Chunk(i, n))' /\ inbox'[i].num = v
      BY DEF Streams
  <2>1. n \in ToSet(list) \/ \E i : Born(i, n)
      BY <1>1, <1>3 DEF LeftAlone
  <2>2. /\ last[n] <= printed[n]
        /\ \A i : Chunk(i, n) => inbox[i].num \in (last[n] + 1)..printed[n]
        /\ \A i, j : Chunk(i, n) /\ Chunk(j, n) /\ i < j => inbox[i].num < inbox[j].num
        /\ \A v \in (last[n] + 1)..printed[n] : \E i : Chunk(i, n) /\ inbox[i].num = v
      BY <2>1 DEF Told, Streams
  <2>3. \A i : (Chunk(i, n))' => i \in Int /\ Chunk(i + d, n) /\ inbox'[i].num = inbox[i + d].num
      BY <1>1, <1>3 DEF Tells
  <2>4. \A i : Chunk(i, n) => (Chunk(i - d, n))' /\ inbox'[i - d].num = inbox[i].num
      BY <1>2, <1>3 DEF Tells
  <2>5. \A i : (Chunk(i, n))' => inbox'[i].num \in (last'[n] + 1)..printed'[n]
      BY <2>2, <2>3 DEF LeftAlone
  <2>6. \A i, j : (Chunk(i, n))' /\ (Chunk(j, n))' /\ i < j => inbox'[i].num < inbox'[j].num
      BY <1>4, <2>2, <2>3
  <2>7. \A v \in (last'[n] + 1)..printed'[n] : \E i : (Chunk(i, n))' /\ inbox'[i].num = v
    <3> SUFFICES ASSUME NEW v \in (last'[n] + 1)..printed'[n] PROVE \E i : (Chunk(i, n))' /\ inbox'[i].num = v
        OBVIOUS
    <3>1. PICK i : Chunk(i, n) /\ inbox[i].num = v
        BY <2>2 DEF LeftAlone
    <3> QED BY <2>4, <3>1
  <2> QED BY <2>2, <2>5, <2>6, <2>7 DEF LeftAlone
<1>8. Logs(n)'
  <2>1. (\A i : ~Tells(i, n)) => \A i : ~(Tells(i, n))'
      BY <1>1, <1>3
  <2>2. \A z : LogHas(n, z) => LogHas(n, z)'
      BY <2>1 DEF LogHas, LeftAlone
  <2> QED BY <2>2 DEF Logs, LeftAlone, Told
<1> QED BY <1>5, <1>6, <1>7, <1>8 DEF Told

BornMoved(n, d) == \A i \in Int : (Born(i, n))' <=> Born(i + d, n)

LEMMA HereStays ==
    ASSUME MailOK, MailOK', NEW d \in {0, 1}, TurnsKept(d), up' = up, status' = status
    PROVE  /\ Here => Here'
           /\ \A k : Comes(k) => k \in Int /\ k - d \in Int /\ (Comes(k - d))'
<1>1. \A i : (Turns(i))' => i \in Int
    BY InNextInbox
<1>2. \A i : Turns(i) => i \in Int /\ i - d \in Int /\ (i - d) + d = i
    BY InInbox, Shifts
<1>3. \A i \in Int : /\ Turns(i + d) => (Turns(i))' /\ inbox'[i] = inbox[i + d]
                     /\ (Turns(i))' => (Back(i))' \/ (Turns(i + d) /\ inbox'[i] = inbox[i + d])
    BY DEF TurnsKept
<1>4. ASSUME NEW i, (Turns(i))', ~(Back(i))' PROVE i \in Int /\ Turns(i + d) /\ ~Back(i + d)
  <2>1. i \in Int /\ Turns(i + d) /\ inbox'[i] = inbox[i + d]
      BY <1>1, <1>3, <1>4
  <2> QED BY <1>4, <2>1 DEF Back
<1>5. Here => Here'
    BY <1>4 DEF Here
<1>6. ASSUME NEW k, Comes(k) PROVE k \in Int /\ k - d \in Int /\ (Comes(k - d))'
  <2>1. Back(k) /\ Turns(k) /\ \A j : Turns(j) /\ ~Back(j) => j < k
      BY <1>6 DEF Comes, Back
  <2>2. k \in Int /\ k - d \in Int /\ (k - d) + d = k
      BY <1>2, <2>1
  <2>3. (Turns(k - d))' /\ inbox'[k - d] = inbox[k]
      BY <1>3, <2>1, <2>2
  <2>4. (Back(k - d))'
      BY <2>1, <2>3 DEF Back
  <2>5. ASSUME NEW j, (Turns(j))', ~(Back(j))' PROVE j < k - d
    <3>1. j \in Int /\ j + d < k
        BY <1>4, <2>1, <2>5
    <3> QED BY <2>2, <3>1
  <2> QED BY <2>2, <2>4, <2>5 DEF Comes
<1> QED BY <1>5, <1>6

LEMMA MovedTurns == ASSUME NEW d \in {0, 1}, TurnsMoved(d) PROVE TurnsKept(d)
BY DEF TurnsMoved, TurnsKept

LEMMA ComesInKept ==
    ASSUME MailOK, MailOK', NEW n, NEW d \in {0, 1}, BornMoved(n, d), TurnsKept(d), ComesIn(n),
           n \in ToSet(list) => n \in ToSet(list)', n \in running' => n \in running /\ created'[n] = created[n],
           UNCHANGED <<up, status, erred>>,
           \A c \in ToSet(asks) : c.kind = "hang" /\ c.of = n /\ n \in running' => c \in ToSet(asks')
    PROVE  ComesIn(n)'
<1>1. (Here => Here') /\ \A k : Comes(k) => k \in Int /\ k - d \in Int /\ (Comes(k - d))'
    BY HereStays
<1> SUFFICES ASSUME n \in running', created'[n] = up', erred' # up'
             PROVE  \/ n \in ToSet(list)' /\ Here'
                    \/ \E i : (Born(i, n))' /\ (Here' \/ \E k : k < i /\ (Comes(k))')
                    \/ \E c \in ToSet(asks') : c.kind = "hang" /\ c.of = n
    BY DEF ComesIn
<1>2. CASE n \in ToSet(list) /\ Here
    BY <1>1, <1>2
<1>3. CASE \E i : Born(i, n) /\ (Here \/ \E k : k < i /\ Comes(k))
  <2>1. PICK i : Born(i, n) /\ (Here \/ \E k : k < i /\ Comes(k))
      BY <1>3
  <2>2. i \in Int /\ i - d \in Int /\ (i - d) + d = i
      BY <2>1, InInbox, Shifts
  <2>3. (Born(i - d, n))'
      BY <2>1, <2>2 DEF BornMoved
  <2>4. ASSUME NEW k, k < i, Comes(k) PROVE k - d < i - d /\ (Comes(k - d))'
      BY <1>1, <2>2, <2>4
  <2> QED BY <1>1, <2>1, <2>3, <2>4
<1>4. CASE \E c \in ToSet(asks) : c.kind = "hang" /\ c.of = n
    BY <1>4
<1> QED BY <1>2, <1>3, <1>4 DEF ComesIn

LEMMA ComesUpKept ==
    ASSUME MailOK, MailOK', NEW d \in {0, 1}, TurnsKept(d), ComesUp, UNCHANGED <<up, status, erred>>
    PROVE  ComesUp'
<1>1. (Here => Here') /\ \A k : Comes(k) => k \in Int /\ k - d \in Int /\ (Comes(k - d))'
    BY HereStays
<1> QED BY <1>1 DEF ComesUp

LEMMA ComesInStays ==
    ASSUME MailOK, MailOK', NEW n, NEW d \in {0, 1}, BornMoved(n, d), TurnsMoved(d), ComesIn(n),
           n \in ToSet(list) => n \in ToSet(list)', n \in running' => n \in running /\ created'[n] = created[n],
           UNCHANGED <<up, status, erred>>,
           \A c \in ToSet(asks) : c.kind = "hang" /\ c.of = n /\ n \in running' => c \in ToSet(asks')
    PROVE  ComesIn(n)'
BY MovedTurns, ComesInKept

LEMMA ComesUpStays ==
    ASSUME MailOK, MailOK', NEW d \in {0, 1}, TurnsMoved(d), ComesUp, UNCHANGED <<up, status, erred>>
    PROVE  ComesUp'
BY MovedTurns, ComesUpKept

LEMMA PaneStays ==
    ASSUME NEW n, PaneShows(n), view'[n] = view[n], last'[n] = last[n]
    PROVE  PaneShows(n)'
BY DEF PaneShows
\* A note about neither a terminal nor a connection.
Mute(m) == m.kind \notin {"terminal", "data", "exit", "connected", "disconnected", "error"}

BoxKept(d) == (\A n : Moved(n, d)) /\ TurnsMoved(d)

AsksKept ==
    /\ \A c \in ToSet(asks') : c.kind = "terminal" => c.ok
    /\ \A c \in ToSet(asks) : c.kind = "hang" /\ c.of \in running' => c \in ToSet(asks')

LEMMA AskKept ==
    ASSUME MailOK, CreatedOnes, NEW c \in Notes, c.kind = "terminal" => c.ok, Ask(c)
    PROVE  AsksKept
<1>1. ToSet(asks') = ToSet(asks) \cup {c}
    BY AppendSet DEF MailOK, Ask
<1> QED BY <1>1 DEF AsksKept, CreatedOnes

LEMMA AnswerKept ==
    ASSUME MailOK, CreatedOnes, NEW i \in DOMAIN asks, asks[i].kind # "hang", asks' = RemoveAt(asks, i)
    PROVE  AsksKept
<1>1. ToSet(asks) = ToSet(asks') \cup {asks[i]}
    BY RemoveSet DEF MailOK
<1> QED BY <1>1 DEF AsksKept, CreatedOnes

LEMMA MuteIs == ASSUME NEW m, Mute(m) PROVE Level(m) /\ \A n : Foreign(m, n)
BY DEF Mute, Level, Foreign

LEMMA SentKept ==
    ASSUME MailOK, NEW notes \in Seq(Notes), inbox' = inbox \o notes, \A m \in ToSet(notes) : Mute(m)
    PROVE  BoxKept(0)
BY MuteIs, SentMoves DEF BoxKept

LEMMA TakenKept ==
    ASSUME MailOK, inbox # <<>>, inbox' = Tail(inbox), Mute(Head(inbox))
    PROVE  BoxKept(1)
BY MuteIs, TakenMoves DEF BoxKept

LEMMA StillKept ==
    ASSUME MailOK, inbox' = inbox
    PROVE  BoxKept(0)
BY StillMoves DEF BoxKept

\* What is known of what is created, when nothing new is told.
LEMMA CreatedKept ==
    ASSUME MailOK, MailOK', CreatedOnes, NEW d \in {0, 1}, \A n : Moved(n, d)
    PROVE  /\ \A i, n : (Born(i, n))' \/ (Tells(i, n))' => n \in DOMAIN created
           /\ \A i, n : (Ended(i, n))' => inbox'[i].num = 0
<1>1. ASSUME NEW i, NEW n, (Born(i, n))' \/ (Tells(i, n))' PROVE n \in DOMAIN created
  <2>1. i \in Int
      BY <1>1, InNextInbox
  <2>2. Born(i + d, n) \/ Tells(i + d, n)
      BY <1>1, <2>1 DEF Moved, Tells
  <2> QED BY <2>2 DEF CreatedOnes
<1>2. ASSUME NEW i, NEW n, (Ended(i, n))' PROVE inbox'[i].num = 0
  <2>1. i \in Int
      BY <1>2, InNextInbox DEF Tells
  <2>2. Ended(i + d, n) /\ inbox'[i] = inbox[i + d]
      BY <1>2, <2>1 DEF Moved, Tells
  <2> QED BY <2>2 DEF CreatedOnes
<1> QED BY <1>1, <1>2

LEMMA TerminalHas ==
    ASSUME ShownInv, MainTypes, NEW n \in Terminals
    PROVE  Told(n) /\ ComesIn(n) /\ PaneShows(n) /\ last[n] \in Nat /\ printed[n] \in Nat
BY DEF ShownInv, MainTypes, ViewTypes, Told

LEMMA ToldStep ==
    ASSUME MailOK, MailOK', MainTypes, ShownInv, NEW d \in {0, 1}, \A n : Moved(n, d), AsksKept,
           UNCHANGED <<up, made, status, viewVars>>, up = 0 \/ erred' = up \/ (TurnsKept(d) /\ erred' = erred)
    PROVE  ShownInv'
<1>1. UNCHANGED <<running, created, printed, list, visible, log, last, view, ignored>>
    BY DEF viewVars
<1>2. ViewTypes'
    BY <1>1 DEF ViewTypes, ShownInv
<1>3. CreatedOnes' /\ CreatedOnes
  <2>1. CreatedOnes
      BY DEF ShownInv
  <2>2. /\ \A i, n : (Born(i, n))' \/ (Tells(i, n))' => n \in DOMAIN created
        /\ \A i, n : (Ended(i, n))' => inbox'[i].num = 0
      BY <2>1, CreatedKept
  <2> QED BY <1>1, <2>1, <2>2 DEF CreatedOnes, AsksKept
<1>4. ComesUp'
  <2>1. CASE up = 0 \/ erred' = up
      BY <2>1 DEF ComesUp
  <2>2. CASE TurnsKept(d) /\ erred' = erred
      BY <2>2, ComesUpKept DEF ShownInv
  <2> QED BY <2>1, <2>2
<1>5. ASSUME NEW n \in Terminals PROVE Told(n)' /\ ComesIn(n)' /\ PaneShows(n)'
  <2>1. Told(n) /\ ComesIn(n) /\ PaneShows(n) /\ last[n] \in Nat /\ printed[n] \in Nat
      BY TerminalHas
  <2>2. LeftAlone(n)
      BY <1>1 DEF LeftAlone
  <2>3. ComesIn(n)'
    <3>1. CASE up = 0 \/ erred' = up
      <4>1. n \in running => created[n] # 0
          BY <1>3 DEF CreatedOnes, MainTypes
      <4> QED BY <1>1, <3>1, <4>1 DEF ComesIn
    <3>2. CASE TurnsKept(d) /\ erred' = erred
      <4>1. BornMoved(n, d)
          BY DEF Moved, BornMoved
      <4> QED BY <1>1, <2>1, <3>2, <4>1, ComesInKept DEF AsksKept
    <3> QED BY <3>1, <3>2
  <2>4. PaneShows(n)'
      BY <1>1, <2>1, PaneStays
  <2>5. Told(n)'
      BY <2>1, <2>2, OtherTerminal
  <2> QED BY <2>3, <2>4, <2>5
<1> QED BY <1>2, <1>3, <1>4, <1>5 DEF ShownInv, Told

LEMMA QuietStep ==
    ASSUME MailOK, MailOK', MainTypes, ShownInv, NEW d \in {0, 1}, BoxKept(d), AsksKept,
           UNCHANGED <<up, made, status, erred, viewVars>>
    PROVE  ShownInv'
<1>1. (\A n : Moved(n, d)) /\ TurnsKept(d)
    BY MovedTurns DEF BoxKept
<1> QED BY <1>1, ToldStep

-----------------------------------------------------------------------------
(* The steps about files and documents.                                     *)

LEMMA FilesShown ==
    ASSUME MailOK, MailOK', MainTypes, ShownInv, FileSteps
    PROVE  ShownInv'
<1>0. CreatedOnes /\ asks \in Seq(Notes) /\ inbox \in Seq(Notes)
    BY DEF ShownInv, MailOK
<1>1. ASSUME NEW d \in {0, 1}, BoxKept(d), AsksKept, UNCHANGED <<up, made, status, erred, viewVars>> PROVE ShownInv'
    BY <1>1, QuietStep
<1>2. UNCHANGED <<up, made, status, erred>>
  <2>1. CASE \E p \in Paths : OpenFile(p) \/ DeleteEntry(p) \/ \E q \in Paths : RenameEntry(p, q)
      BY <2>1 DEF OpenFile, DeleteEntry, RenameEntry, mainVars, appVars
  <2>2. CASE \E i \in DOMAIN asks : Read(i) \/ Write(i) \/ WriteUnheard(i) \/ Rename(i) \/ Delete(i) \/ List(i)
      BY <2>2 DEF Read, Write, WriteUnheard, Rename, Delete, List, mainVars, appVars
  <2>3. CASE OnChanged \/ OnRead \/ OnWrite \/ OnListed
      BY <2>3 DEF OnChanged, OnRead, OnWrite, OnListed, mainVars, appVars
  <2>4. CASE \E i \in DOMAIN tabs : CloseTab(i) \/ SaveNow(i) \/ AutoSave(i) \/ EditTab(i)
      BY <2>4 DEF CloseTab, SaveNow, AutoSave, SaveTab, EditTab, mainVars, appVars
  <2> QED BY <2>1, <2>2, <2>3, <2>4 DEF FileSteps
<1>3. UNCHANGED viewVars
    BY <1>2 DEF FileSteps, Rendered, PanelRendered, viewVars, panelVars
<1>4. ASSUME AsksKept, inbox' = inbox PROVE ShownInv'
    BY <1>1, <1>2, <1>3, <1>4, StillKept
<1>5. ASSUME NEW i \in DOMAIN asks, asks[i].kind \in FileKinds, NEW c \in Notes, c.kind \in FileKinds, Settle(i, <<c>>)
      PROVE  ShownInv'
  <2>1. asks' = RemoveAt(asks, i) /\ inbox' = inbox \o <<c>>
      BY <1>5 DEF Settle
  <2>2. AsksKept
      BY <1>0, <1>5, <2>1, AnswerKept DEF FileKinds
  <2>3. <<c>> \in Seq(Notes) /\ \A x \in ToSet(<<c>>) : Mute(x)
      BY <1>5, OneNote DEF Mute, FileKinds
  <2>4. BoxKept(0)
      BY <2>1, <2>3, SentKept
  <2> QED BY <1>1, <1>2, <1>3, <2>2, <2>4
<1>6. ASSUME inbox # <<>>, inbox' = Tail(inbox), Head(inbox).kind \in FileKinds, AsksKept PROVE ShownInv'
  <2>1. BoxKept(1)
      BY <1>6, TakenKept DEF Mute, FileKinds
  <2> QED BY <1>1, <1>2, <1>3, <1>6, <2>1
<1>7. AsksKept \/ asks' # asks
    BY <1>0 DEF AsksKept, CreatedOnes
<1>8. ASSUME NEW c, Ask(c), c.kind \in FileKinds, asks' \in Seq(Notes) PROVE AsksKept
  <2>1. c \in Notes
    <3>1. asks' = Append(asks, c) /\ Len(asks) \in Nat
        BY <1>0, <1>8 DEF Ask
    <3>2. asks'[Len(asks) + 1] = c /\ Len(asks) + 1 \in 1..Len(asks') /\ DOMAIN asks' = 1..Len(asks')
        BY <1>0, <1>8, <3>1
    <3> QED BY <1>8, <3>2, InSet
  <2> QED BY <1>0, <1>8, <2>1, AskKept DEF FileKinds
<1>9. CASE \E p \in Paths : OpenFile(p) \/ DeleteEntry(p) \/ \E q \in Paths : RenameEntry(p, q)
  <2>1. \E c : Ask(c) /\ c.kind \in FileKinds /\ inbox' = inbox
      BY <1>9 DEF OpenFile, DeleteEntry, RenameEntry, Note, FileKinds
  <2> QED BY <1>4, <1>8, <2>1 DEF MailOK
<1>10. CASE \E i \in DOMAIN tabs : CloseTab(i) \/ SaveNow(i) \/ AutoSave(i) \/ EditTab(i)
  <2>1. CASE \E i \in DOMAIN tabs : CloseTab(i) \/ EditTab(i)
      BY <1>4, <1>7, <2>1 DEF CloseTab, EditTab
  <2>2. CASE \E i \in DOMAIN tabs : SaveTab(i)
    <3>1. \E c : Ask(c) /\ c.kind \in FileKinds /\ inbox' = inbox
        BY <2>2 DEF SaveTab, Note, FileKinds
    <3> QED BY <1>4, <1>8, <3>1 DEF MailOK
  <2> QED BY <1>10, <2>1, <2>2 DEF SaveNow, AutoSave
<1>11. CASE \E i \in DOMAIN asks : Read(i) \/ Write(i) \/ WriteUnheard(i) \/ Rename(i) \/ Delete(i) \/ List(i)
  <2>1. PICK i \in DOMAIN asks : Read(i) \/ Write(i) \/ WriteUnheard(i) \/ Rename(i) \/ Delete(i) \/ List(i)
      BY <1>11
  <2>2. asks[i] \in Notes /\ asks[i].kind \in FileKinds
    <3>1. asks[i].kind \in FileKinds
        BY <2>1, Zenon DEF Read, Write, WriteUnheard, Rename, Delete, List, Asked, FileKinds
    <3> QED BY <1>0, <3>1
  <2>3. ASSUME NEW b \in BOOLEAN, Answer(i, b) PROVE ShownInv'
    <3>1. [asks[i] EXCEPT !.ok = b] \in Notes /\ [asks[i] EXCEPT !.ok = b].kind = asks[i].kind
        BY <2>2, NoteOf
    <3> QED BY <1>5, <2>2, <2>3, <3>1 DEF Answer
  <2>4. CASE Read(i)
    <3> DEFINE c == [asks[i] EXCEPT !.num = file[asks[i].of], !.ok = up # 0 /\ file[asks[i].of] # 0]
    <3>1. Settle(i, <<c>>)
        BY <2>4 DEF Read
    <3>2. c.kind \in FileKinds
        BY <2>2 DEF Notes
    <3>3. c \in Notes
      <4>1. inbox' \in Seq(Notes) /\ inbox' = inbox \o <<c>>
          BY <3>1 DEF MailOK, Settle
      <4> HIDE DEF c
      <4>2. Len(inbox') = Len(inbox) + 1 /\ inbox'[Len(inbox) + 1] = c /\ Len(inbox) \in Nat
          BY <1>0, <4>1
      <4> QED BY <4>1, <4>2
    <3> HIDE DEF c
    <3> QED BY <1>5, <2>2, <3>1, <3>2, <3>3
  <2>5. CASE ~Read(i)
    <3>1. \E b \in BOOLEAN : Answer(i, b)
        BY <2>1, <2>5 DEF Write, WriteUnheard, Rename, Delete, List
    <3> QED BY <2>3, <3>1
  <2> QED BY <2>4, <2>5
<1>12. CASE OnRead \/ OnWrite \/ OnListed
    BY <1>6, <1>7, <1>12 DEF OnRead, OnWrite, OnListed, Heard, FileKinds
<1>13. CASE OnChanged
  <2>1. asks' = asks \/ \E c : Ask(c) /\ c.kind \in FileKinds
    <3>1. Head(inbox) \in Notes
        BY <1>13, TailSet, <1>0 DEF OnChanged, Heard
    <3>2. \A k \in {"renamed", "deleted"} : [Head(inbox) EXCEPT !.kind = k].kind \in FileKinds
        BY <3>1, NoteOf DEF FileKinds
    <3> QED BY <1>13, <3>2 DEF OnChanged
  <2>2. AsksKept
      BY <1>7, <1>8, <2>1 DEF MailOK
  <2> QED BY <1>6, <1>13, <2>2 DEF OnChanged, Heard, FileKinds
<1> QED BY <1>9, <1>10, <1>11, <1>12, <1>13 DEF FileSteps
-----------------------------------------------------------------------------
(* A terminal that ends, and one the panel drops.                           *)

\* The end of terminal n is the last that is on its way, at place p.
EndComes(n, p) ==
    /\ p \in Int /\ \A i : Born(i, n) \/ Tells(i, n) => i < p
    /\ \A i \in Int : /\ (Born(i, n))' <=> Born(i, n)
                      /\ (Chunk(i, n))' <=> Chunk(i, n)
                      /\ (Ended(i, n))' <=> Ended(i, n) \/ i = p
                      /\ Tells(i, n) => inbox'[i] = inbox[i]
    /\ inbox'[p].num = 0

LEMMA SentEnd ==
    ASSUME MailOK, NEW notes \in Seq(Notes), inbox' = inbox \o notes, NEW n, NEW k \in DOMAIN notes,
           notes[k].kind = "exit", notes[k].of = n, notes[k].num = 0, \A l \in DOMAIN notes : l # k => Foreign(notes[l], n)
    PROVE  EndComes(n, Len(inbox) + k)
<1> DEFINE N == Len(inbox)
           M == Len(notes)
           p == N + k
<1>1. /\ N \in Nat /\ M \in Nat /\ DOMAIN inbox = 1..N /\ DOMAIN inbox' = 1..(N + M)
      /\ \A i \in 1..N : inbox'[i] = inbox[i]
      /\ \A i \in (N + 1)..(N + M) : i - N \in DOMAIN notes /\ inbox'[i] = notes[i - N]
    BY BoxGrows
<1>2. k \in 1..M
    OBVIOUS
<1> HIDE DEF N, M
<1>3. p \in (N + 1)..(N + M) /\ p - N = k /\ p \in Int
    BY <1>1, <1>2
<1>4. ASSUME NEW i \in (N + 1)..(N + M), i # p PROVE Foreign(inbox'[i], n)
  <2>1. i - N # k
      BY <1>1, <1>2, <1>4
  <2> QED BY <1>1, <2>1
<1>5. \A i \in Int : i \in DOMAIN inbox' <=> i \in DOMAIN inbox \/ i \in (N + 1)..(N + M)
    BY <1>1
<1>6. \A i \in (N + 1)..(N + M) : i \notin DOMAIN inbox
    BY <1>1
<1>7. inbox'[p] = notes[k]
    BY <1>1, <1>3
<1>8. \A i \in DOMAIN inbox : i < p
    BY <1>1, <1>3
<1> HIDE DEF p
<1>9. \A i : Born(i, n) \/ Tells(i, n) => i < p
    BY <1>8 DEF Born, Tells, Chunk, Ended
<1>10. ASSUME NEW i \in Int
       PROVE  /\ (Born(i, n))' <=> Born(i, n)
              /\ (Chunk(i, n))' <=> Chunk(i, n)
              /\ (Ended(i, n))' <=> Ended(i, n) \/ i = p
              /\ Tells(i, n) => inbox'[i] = inbox[i]
  <2>1. CASE i \in DOMAIN inbox
      BY <1>1, <1>3, <1>5, <1>6, <2>1 DEF Born, Tells, Chunk, Ended
  <2>2. CASE i \notin DOMAIN inbox
    <3>1. CASE i = p
        BY <1>3, <1>5, <1>7, <2>2, <3>1 DEF Born, Tells, Chunk, Ended
    <3>2. CASE i # p
        BY <1>4, <1>5, <2>2, <3>2 DEF Born, Tells, Chunk, Ended, Foreign
    <3> QED BY <3>1, <3>2
  <2> QED BY <2>1, <2>2
<1>11. EndComes(n, p)
    BY <1>3, <1>7, <1>9, <1>10 DEF EndComes
<1> QED BY <1>11 DEF p, N

LEMMA EndingTerminal ==
    ASSUME MailOK, MailOK', NEW n, NEW p, EndComes(n, p), LeftAlone(n), n \in running, n \notin running', Told(n)
    PROVE  Told(n)'
<1>1. \A i : (Born(i, n))' \/ (Tells(i, n))' => i \in Int
    BY InNextInbox
<1>2. \A i : Born(i, n) \/ Tells(i, n) => i \in Int /\ i < p
    BY InInbox DEF EndComes
<1>3. \A i \in Int : /\ (Born(i, n))' <=> Born(i, n)
                     /\ (Chunk(i, n))' <=> Chunk(i, n)
                     /\ (Ended(i, n))' <=> Ended(i, n) \/ i = p
                     /\ (Tells(i, n))' <=> Tells(i, n) \/ i = p
                     /\ Tells(i, n) => inbox'[i] = inbox[i]
    BY DEF EndComes, Tells
<1>4. p \in Int /\ \A i : ~Ended(i, n)
    BY DEF EndComes, Told, EndsLast
<1>5. BornFirst(n)'
  <2> SUFFICES ASSUME NEW i, (Born(i, n))'
               PROVE  /\ n \notin ToSet(list)' /\ n \notin ignored' /\ last'[n] = 0 /\ log'[n] = <<>>
                      /\ \A j : (Born(j, n))' => j = i
                      /\ \A j : (Tells(j, n))' => i < j
      BY DEF BornFirst
  <2>1. Born(i, n) /\ i < p
      BY <1>1, <1>2, <1>3
  <2> QED BY <1>1, <1>3, <2>1 DEF LeftAlone, Told, BornFirst
<1>6. EndsLast(n)'
  <2> SUFFICES ASSUME NEW i, (Ended(i, n))', NEW j PROVE (Tells(j, n))' => j <= i
      BY DEF EndsLast
  <2>1. i = p
      BY <1>1, <1>3, <1>4 DEF Tells
  <2>2. ASSUME (Tells(j, n))' PROVE j <= p
    <3>1. j \in Int /\ (Tells(j, n) \/ j = p)
        BY <1>1, <1>3, <2>2
    <3> QED BY <1>2, <1>4, <3>1
  <2> QED BY <2>1, <2>2
<1>7. Streams(n)'
  <2> SUFFICES ASSUME n \in ToSet(list)' \/ \E i : (Born(i, n))'
               PROVE  /\ last'[n] <= printed'[n]
                      /\ \A i : (Chunk(i, n))' => inbox'[i].num \in (last'[n] + 1)..printed'[n]
                      /\ \A i, j : (Chunk(i, n))' /\ (Chunk(j, n))' /\ i < j => inbox'[i].num < inbox'[j].num
                      /\ \A v \in (last'[n] + 1)..printed'[n] : \E i : (Chunk(i, n))' /\ inbox'[i].num = v
      BY DEF Streams
  <2>1. n \in ToSet(list) \/ \E i : Born(i, n)
      BY <1>1, <1>3 DEF LeftAlone
  <2>2. /\ last[n] <= printed[n]
        /\ \A i : Chunk(i, n) => inbox[i].num \in (last[n] + 1)..printed[n]
        /\ \A i, j : Chunk(i, n) /\ Chunk(j, n) /\ i < j => inbox[i].num < inbox[j].num
        /\ \A v \in (last[n] + 1)..printed[n] : \E i : Chunk(i, n) /\ inbox[i].num = v
      BY <2>1 DEF Told, Streams
  <2>3. \A i : (Chunk(i, n))' => Chunk(i, n) /\ inbox'[i].num = inbox[i].num
      BY <1>1, <1>3 DEF Tells
  <2>4. \A i : Chunk(i, n) => (Chunk(i, n))' /\ inbox'[i].num = inbox[i].num
      BY <1>2, <1>3 DEF Tells
  <2> QED BY <2>2, <2>3, <2>4 DEF LeftAlone
<1>8. Logs(n)'
  <2>1. LogHas(n, 0) => LogHas(n, 0)'
      BY DEF LogHas, LeftAlone
  <2>2. ~LogHas(n, 1)
      BY DEF LogHas
  <2> QED BY <2>1, <2>2 DEF Logs, LeftAlone, Told
<1> QED BY <1>5, <1>6, <1>7, <1>8 DEF Told

LEMMA DroppedTerminal ==
    ASSUME MailOK, MailOK', NEW n, NEW d \in {0, 1}, Moved(n, d), Told(n), last[n] \in Nat, printed[n] \in Nat,
           n \in running' => n \in running, printed'[n] = printed[n],
           n \notin ToSet(list)', n \notin ignored', last'[n] = 0, log'[n] = <<>>
    PROVE  Told(n)'
<1>1. \A i : (Born(i, n))' \/ (Tells(i, n))' => i \in Int
    BY InNextInbox
<1>2. \A i : Born(i, n) \/ Tells(i, n) => i \in Int /\ i - d \in Int /\ (i - d) + d = i
    BY InInbox, Shifts
<1>3. \A i \in Int : /\ (Born(i, n))' <=> Born(i + d, n)
                     /\ (Chunk(i, n))' <=> Chunk(i + d, n)
                     /\ (Ended(i, n))' <=> Ended(i + d, n)
                     /\ (Tells(i, n))' <=> Tells(i + d, n)
                     /\ (Tells(i, n))' => inbox'[i] = inbox[i + d]
    BY DEF Moved, Tells
<1>4. \A i, j \in Int : /\ i + d < j + d <=> i < j
                        /\ i + d <= j + d <=> i <= j
                        /\ i + d = j + d <=> i = j
                        /\ i + d \in Int
    OBVIOUS
<1>5. BornFirst(n)'
  <2> SUFFICES ASSUME NEW i, (Born(i, n))'
               PROVE  /\ \A j : (Born(j, n))' => j = i
                      /\ \A j : (Tells(j, n))' => i < j
      BY DEF BornFirst
  <2>1. i \in Int /\ Born(i + d, n)
      BY <1>1, <1>3
  <2> QED BY <1>1, <1>3, <1>4, <2>1 DEF Told, BornFirst
<1>6. EndsLast(n)'
  <2> SUFFICES ASSUME NEW i, (Ended(i, n))', NEW j PROVE n \notin running' /\ ((Tells(j, n))' => j <= i)
      BY DEF EndsLast
  <2>1. i \in Int /\ Ended(i + d, n)
      BY <1>1, <1>3 DEF Tells
  <2> QED BY <1>1, <1>3, <1>4, <2>1 DEF Told, EndsLast
<1>7. Streams(n)'
  <2> SUFFICES ASSUME NEW b, (Born(b, n))'
               PROVE  /\ last'[n] <= printed'[n]
                      /\ \A i : (Chunk(i, n))' => inbox'[i].num \in (last'[n] + 1)..printed'[n]
                      /\ \A i, j : (Chunk(i, n))' /\ (Chunk(j, n))' /\ i < j => inbox'[i].num < inbox'[j].num
                      /\ \A v \in (last'[n] + 1)..printed'[n] : \E i : (Chunk(i, n))' /\ inbox'[i].num = v
      BY DEF Streams
  <2>1. Born(b + d, n)
      BY <1>1, <1>3
  <2>2. last'[n] = last[n]
      BY <2>1 DEF Told, BornFirst
  <2>3. /\ last[n] <= printed[n]
        /\ \A i : Chunk(i, n) => inbox[i].num \in (last[n] + 1)..printed[n]
        /\ \A i, j : Chunk(i, n) /\ Chunk(j, n) /\ i < j => inbox[i].num < inbox[j].num
        /\ \A v \in (last[n] + 1)..printed[n] : \E i : Chunk(i, n) /\ inbox[i].num = v
      BY <2>1 DEF Told, Streams
  <2>4. \A i : (Chunk(i, n))' => i \in Int /\ Chunk(i + d, n) /\ inbox'[i].num = inbox[i + d].num
      BY <1>1, <1>3 DEF Tells
  <2>5. \A i : Chunk(i, n) => (Chunk(i - d, n))' /\ inbox'[i - d].num = inbox[i].num
      BY <1>2, <1>3 DEF Tells
  <2>6. \A i : (Chunk(i, n))' => inbox'[i].num \in (last'[n] + 1)..printed'[n]
      BY <2>2, <2>3, <2>4
  <2>7. ASSUME NEW i, NEW j, (Chunk(i, n))', (Chunk(j, n))', i < j PROVE inbox'[i].num < inbox'[j].num
    <3>1. i + d < j + d
        BY <1>4, <2>4, <2>7
    <3>2. /\ Chunk(i + d, n) /\ inbox'[i].num = inbox[i + d].num
          /\ Chunk(j + d, n) /\ inbox'[j].num = inbox[j + d].num
        BY <2>4, <2>7
    <3>3. inbox[i + d].num < inbox[j + d].num
        BY <2>3, <3>1, <3>2
    <3> QED BY <3>2, <3>3
  <2>8. \A v \in (last'[n] + 1)..printed'[n] : \E i : (Chunk(i, n))' /\ inbox'[i].num = v
    <3> SUFFICES ASSUME NEW v \in (last'[n] + 1)..printed'[n] PROVE \E i : (Chunk(i, n))' /\ inbox'[i].num = v
        OBVIOUS
    <3>1. PICK i : Chunk(i, n) /\ inbox[i].num = v
        BY <2>2, <2>3
    <3> QED BY <2>5, <3>1
  <2> QED BY <2>2, <2>3, <2>6, <2>7, <2>8
<1>8. Logs(n)'
    BY DEF Logs
<1> QED BY <1>5, <1>6, <1>7, <1>8 DEF Told
-----------------------------------------------------------------------------
(* The steps about connections.                                             *)

\* A session's end tells of each terminal that ran once.
LEMMA ExitsEach ==
    ASSUME NEW S \in SUBSET Nat, IsFiniteSet(S)
    PROVE  /\ \A k \in DOMAIN ExitsOf(S) : /\ ExitsOf(S)[k].kind = "exit" /\ ExitsOf(S)[k].num = 0
                                           /\ ExitsOf(S)[k].of \in S
           /\ \A k, l \in DOMAIN ExitsOf(S) : ExitsOf(S)[k].of = ExitsOf(S)[l].of => k = l
           /\ \A x \in S : \E k \in DOMAIN ExitsOf(S) : ExitsOf(S)[k].of = x
<1> DEFINE f == SetToSeq(S)
           c == Cardinality(S)
<1>1. PICK b : b \in Bijection(1..c, S)
  <2>1. ExistsBijection(1..c, S) /\ c \in Nat
      BY FS_CardinalityType, FS_NatBijection, FS_CountingElements
  <2> QED BY <2>1 DEF ExistsBijection
<1>2. f \in [1..c -> S] /\ IsInjective(f)
  <2>1. b \in [1..c -> S] /\ IsInjective(b)
      BY <1>1 DEF Bijection, Injection
  <2> QED BY <2>1 DEF SetToSeq
<1>3. f \in Injection(1..c, S)
    BY <1>2 DEF Injection
<1>4. IsFiniteSet(S) /\ c \in Nat /\ Cardinality(1..c) = c
    BY FS_CardinalityType, FS_Interval
<1>5. f \in Surjection(1..c, S)
  <2> HIDE DEF f
  <2> QED BY <1>3, <1>4, FS_Injection
<1>6. /\ \A k, l \in 1..c : f[k] = f[l] => k = l
      /\ \A x \in S : \E k \in 1..c : f[k] = x
    BY <1>2, <1>5 DEF IsInjective, Surjection
<1>7. ExitsOf(S) = [k \in 1..c |-> Exit(f[k])]
    BY <1>2 DEF ExitsOf
<1>8. \A x : Exit(x).kind = "exit" /\ Exit(x).num = 0 /\ Exit(x).of = x
    BY DEF Exit, Note
<1> HIDE DEF f, c
<1>9. DOMAIN ExitsOf(S) = 1..c /\ \A k \in 1..c : ExitsOf(S)[k] = Exit(f[k])
    BY <1>7
<1> QED BY <1>2, <1>6, <1>8, <1>9

LEMMA RenamedKept ==
    ASSUME MailOK, CreatedOnes, NEW i \in DOMAIN asks, asks[i].kind # "hang", NEW c \in Notes, c.kind # "terminal",
           asks' = [asks EXCEPT ![i] = c]
    PROVE  AsksKept
<1>1. asks \in Seq(Notes) /\ DOMAIN asks' = DOMAIN asks
    BY DEF MailOK
<1>2. \A j \in DOMAIN asks : asks'[j] = IF j = i THEN c ELSE asks[j]
    BY <1>1
<1>3. ASSUME NEW x \in ToSet(asks'), x.kind = "terminal" PROVE x.ok
  <2>1. PICK j \in DOMAIN asks : x = asks'[j]
      BY <1>1 DEF ToSet
  <2>2. x = asks[j] /\ asks[j] \in ToSet(asks)
      BY <1>2, <1>3, <2>1 DEF ToSet
  <2> QED BY <1>3, <2>2 DEF CreatedOnes
<1>4. ASSUME NEW x \in ToSet(asks), x.kind = "hang" PROVE x \in ToSet(asks')
  <2>1. PICK j \in DOMAIN asks : x = asks[j]
      BY DEF ToSet
  <2>2. x = asks'[j]
      BY <1>2, <1>4, <2>1
  <2> QED BY <1>1, <2>2 DEF ToSet
<1> QED BY <1>3, <1>4 DEF AsksKept

\* What a step tells is of terminals that were created.
NewTold ==
    /\ \A i, n : (Born(i, n))' \/ (Tells(i, n))' => n \in DOMAIN created
    /\ \A i, n : (Ended(i, n))' => inbox'[i].num = 0

\* The main process is on no connection any more.
LEMMA DownStep ==
    ASSUME MainTypes, ShownInv, up' = 0, UNCHANGED <<made, created, printed, panelVars>>, running' \in SUBSET running,
           \A c \in ToSet(asks') : c.kind = "terminal" => c.ok, NewTold, \A n \in Terminals : Told(n)'
    PROVE  ShownInv'
<1>1. UNCHANGED <<created, printed, list, visible, log, last, view, ignored>>
    BY DEF panelVars
<1>2. ViewTypes'
    BY <1>1 DEF ViewTypes, ShownInv
<1>3. CreatedOnes' /\ ComesUp'
    BY <1>1 DEF CreatedOnes, ShownInv, NewTold, MainTypes, ComesUp
<1>4. ASSUME NEW n \in Terminals PROVE ComesIn(n)'
  <2>1. \A m \in DOMAIN created : created[m] # 0
      BY DEF ShownInv, CreatedOnes, MainTypes
  <2> QED BY <2>1 DEF ComesIn, ShownInv, CreatedOnes
<1>5. ASSUME NEW n \in Terminals PROVE PaneShows(n)'
    BY <1>1, TerminalHas, PaneStays
<1> QED BY <1>2, <1>3, <1>4, <1>5 DEF ShownInv, Told

LEMMA DownMute ==
    ASSUME MailOK, MailOK', MainTypes, ShownInv, up' = 0, UNCHANGED <<made, created, printed, panelVars>>,
           running' \in SUBSET running, AsksKept,
           NEW notes \in Seq(Notes), inbox' = inbox \o notes,
           \A m \in ToSet(notes) : m.kind \notin {"terminal", "data", "exit"}
    PROVE  ShownInv'
<1>1. \A n : Moved(n, 0)
    BY SentMoves DEF Foreign
<1>2. NewTold
    BY <1>1, CreatedKept DEF NewTold, ShownInv
<1>3. ASSUME NEW n \in Terminals PROVE Told(n)'
  <2>1. LeftAlone(n)
      BY DEF LeftAlone, panelVars
  <2> QED BY <1>1, <2>1, TerminalHas, OtherTerminal
<1> QED BY <1>2, <1>3, DownStep DEF AsksKept

LEMMA LossShown ==
    ASSUME MailOK, MailOK', MainTypes, ShownInv, Lost(ExitsOf(running)), SessionEnds
    PROVE  ShownInv'
<1> DEFINE E == ExitsOf(running)
           d == [Note("disconnected") EXCEPT !.conn = up]
           notes == <<d>> \o E
<1>1. /\ running \in SUBSET Nat /\ IsFiniteSet(running) /\ inbox \in Seq(Notes)
      /\ UNCHANGED <<made, created, printed, panelVars>> /\ running' = {} /\ up' = 0 /\ asks' = asks
    BY DEF MainTypes, MailOK, SessionEnds, TerminalsEnd, Lost
<1>2. E \in Seq(Notes) /\ d \in Notes /\ d.kind = "disconnected"
    BY <1>1, ExitsAre, NewNote DEF OtherKinds, MainTypes
<1>3. /\ \A k \in DOMAIN E : E[k].kind = "exit" /\ E[k].num = 0 /\ E[k].of \in running
      /\ \A k, l \in DOMAIN E : E[k].of = E[l].of => k = l
      /\ \A x \in running : \E k \in DOMAIN E : E[k].of = x
    BY <1>1, ExitsEach
<1>4. inbox' = Append(inbox, d) \o E
    BY DEF Lost
<1> HIDE DEF E, d
<1>5. /\ notes \in Seq(Notes) /\ inbox' = inbox \o notes /\ Len(E) \in Nat /\ DOMAIN E = 1..Len(E)
      /\ DOMAIN notes = 1..(Len(E) + 1) /\ notes[1] = d /\ \A k \in DOMAIN E : notes[k + 1] = E[k]
    BY <1>1, <1>2, <1>4
<1> HIDE DEF notes
<1>6. \A l \in DOMAIN notes : l # 1 => l - 1 \in DOMAIN E /\ notes[l] = E[l - 1]
  <2> SUFFICES ASSUME NEW l \in DOMAIN notes, l # 1 PROVE l - 1 \in DOMAIN E /\ notes[l] = E[l - 1]
      OBVIOUS
  <2>1. l - 1 \in DOMAIN E /\ (l - 1) + 1 = l
      BY <1>5
  <2> QED BY <1>5, <2>1
<1>7. /\ \A n : n \notin running => \A m \in ToSet(notes) : Foreign(m, n)
      /\ \A m \in ToSet(notes) : m.kind \in {"disconnected", "exit"} /\ (m.kind = "exit" => m.of \in running /\ m.num = 0)
  <2>1. \A l \in DOMAIN notes : notes[l] = d \/ \E k \in DOMAIN E : notes[l] = E[k]
      BY <1>5, <1>6
  <2>2. \A m \in ToSet(notes) : m = d \/ \E k \in DOMAIN E : m = E[k]
      BY <2>1 DEF ToSet
  <2> QED BY <1>2, <1>3, <2>2 DEF Foreign
<1>8. ASSUME NEW n \in Terminals PROVE Told(n)'
  <2>1. LeftAlone(n)
      BY <1>1 DEF LeftAlone, panelVars
  <2>2. Told(n) /\ last[n] \in Nat /\ printed[n] \in Nat
      BY TerminalHas
  <2>3. CASE n \notin running
    <3>1. Moved(n, 0)
        BY <1>5, <1>7, <2>3, SentMoves
    <3> QED BY <2>1, <2>2, <3>1, OtherTerminal
  <2>4. CASE n \in running
    <3>1. PICK k \in DOMAIN E : E[k].of = n
        BY <1>3, <2>4
    <3>2. k + 1 \in DOMAIN notes /\ notes[k + 1] = E[k]
        BY <1>5
    <3>3. ASSUME NEW l \in DOMAIN notes, l # k + 1 PROVE Foreign(notes[l], n)
      <4>1. CASE l = 1
          BY <1>2, <1>5, <4>1 DEF Foreign
      <4>2. CASE l # 1
        <5>1. l - 1 \in DOMAIN E /\ notes[l] = E[l - 1] /\ l - 1 # k
            BY <1>5, <1>6, <3>3, <4>2
        <5> QED BY <1>3, <3>1, <5>1 DEF Foreign
      <4> QED BY <4>1, <4>2
    <3>4. EndComes(n, Len(inbox) + (k + 1))
        BY <1>3, <1>5, <3>1, <3>2, <3>3, SentEnd
    <3>5. n \notin running'
        BY <1>1
    <3> QED BY <2>1, <2>2, <2>4, <3>4, <3>5, EndingTerminal
  <2> QED BY <2>3, <2>4
<1>9. NewTold
  <2>1. CreatedOnes /\ running \subseteq DOMAIN created
      BY DEF ShownInv, CreatedOnes
  <2>2. /\ Len(inbox) \in Nat /\ Len(notes) \in Nat /\ DOMAIN inbox = 1..Len(inbox)
        /\ DOMAIN inbox' = 1..(Len(inbox) + Len(notes))
        /\ \A i \in 1..Len(inbox) : inbox'[i] = inbox[i]
        /\ \A i \in (Len(inbox) + 1)..(Len(inbox) + Len(notes)) : inbox'[i] \in ToSet(notes)
      BY <1>5, BoxGrows
  <2>3. \A i \in DOMAIN inbox' : (i \in DOMAIN inbox /\ inbox'[i] = inbox[i]) \/ inbox'[i] \in ToSet(notes)
      BY <2>2
  <2>4. ASSUME NEW i, NEW n, (Born(i, n))' \/ (Tells(i, n))' PROVE n \in DOMAIN created
    <3>1. Born(i, n) \/ Tells(i, n) \/ n \in running
        BY <1>7, <2>3, <2>4 DEF Born, Tells, Chunk, Ended
    <3> QED BY <2>1, <3>1 DEF CreatedOnes
  <2>5. ASSUME NEW i, NEW n, (Ended(i, n))' PROVE inbox'[i].num = 0
    <3>1. (Ended(i, n) /\ inbox'[i] = inbox[i]) \/ inbox'[i].num = 0
        BY <1>7, <2>3, <2>5 DEF Ended
    <3> QED BY <2>1, <3>1 DEF CreatedOnes
  <2> QED BY <2>4, <2>5 DEF NewTold
<1>10. \A c \in ToSet(asks') : c.kind = "terminal" => c.ok
    BY <1>1 DEF ShownInv, CreatedOnes
<1> QED BY <1>1, <1>8, <1>9, <1>10, DownStep

-----------------------------------------------------------------------------
(* The window learns of a connection, or of its end.                        *)

LEMMA TurnShown ==
    ASSUME MailOK, MailOK', MainTypes, ShownInv, OnConnected \/ OnDisconnected \/ OnError, PanelRendered
    PROVE  ShownInv'
<1>1. /\ inbox # <<>> /\ inbox' = Tail(inbox) /\ UNCHANGED <<asks, up, made, erred, running, created, printed>>
      /\ Head(inbox).kind \in {"connected", "disconnected", "error"}
      /\ status' = State(Head(inbox).kind, Head(inbox).conn)
    BY DEF OnConnected, OnDisconnected, OnError, Heard, State, mainVars, PanelRendered
<1>2. \A n : Moved(n, 1)
    BY <1>1, TakenMoves DEF Foreign
<1>3. CreatedOnes /\ ViewTypes /\ ComesUp /\ NewTold
    BY <1>2, CreatedKept DEF ShownInv, NewTold
<1>4. ViewTypes' /\ CreatedOnes'
  <2>1. CASE UNCHANGED panelVars
      BY <1>1, <1>3, <2>1 DEF panelVars, ViewTypes, CreatedOnes, NewTold
  <2>2. CASE ~UNCHANGED panelVars
    <3>1. /\ list' = <<>> /\ visible' = <<>> /\ ignored' = {}
          /\ log' = [n \in Terminals |-> <<>>] /\ last' = [n \in Terminals |-> 0]
          /\ view' = [n \in Terminals |-> Unmounted]
        BY <2>2 DEF PanelRendered
    <3>2. \A S : <<>> \in Seq(S) /\ ToSet(<<>>) = {}
        BY DEF ToSet
    <3>3. ViewTypes'
        BY <3>1, <3>2 DEF ViewTypes, Unmounted, Pane
    <3> QED BY <1>1, <1>3, <3>1, <3>2, <3>3 DEF CreatedOnes, NewTold
  <2> QED BY <2>1, <2>2
<1>5. /\ Len(inbox) \in Nat \ {0} /\ DOMAIN inbox = 1..Len(inbox) /\ DOMAIN inbox' = 1..(Len(inbox) - 1)
      /\ \A i \in 1..(Len(inbox) - 1) : inbox'[i] = inbox[i + 1]
      /\ Head(inbox) = inbox[1]
    BY <1>1, BoxShrinks
<1>6. Turns(1)
    BY <1>1, <1>5 DEF Turns
<1>7. \A i : (Turns(i))' => i \in Int /\ i >= 1 /\ Turns(i + 1) /\ inbox'[i] = inbox[i + 1]
  <2> SUFFICES ASSUME NEW i, (Turns(i))' PROVE i \in Int /\ i >= 1 /\ Turns(i + 1) /\ inbox'[i] = inbox[i + 1]
      OBVIOUS
  <2>1. i \in 1..(Len(inbox) - 1) /\ i + 1 \in DOMAIN inbox /\ inbox'[i] = inbox[i + 1]
      BY <1>5 DEF Turns
  <2> QED BY <2>1 DEF Turns
<1>8. \A i : Turns(i) /\ i # 1 => i \in Int /\ i - 1 \in Int /\ (Turns(i - 1))' /\ inbox'[i - 1] = inbox[i]
  <2> SUFFICES ASSUME NEW i, Turns(i), i # 1
               PROVE  i \in Int /\ i - 1 \in Int /\ (Turns(i - 1))' /\ inbox'[i - 1] = inbox[i]
      OBVIOUS
  <2>1. i \in 1..Len(inbox)
      BY <1>5 DEF Turns
  <2>2. i - 1 \in DOMAIN inbox' /\ inbox'[i - 1] = inbox[i]
      BY <1>5, <2>1
  <2> QED BY <2>1, <2>2 DEF Turns
<1>9. /\ Back(1) => status' = State("connected", up)
      /\ \A i : (Turns(i))' /\ ~(Back(i))' => i \in Int /\ i >= 1 /\ Turns(i + 1) /\ ~Back(i + 1)
    BY <1>1, <1>5, <1>7 DEF Back
<1>12. Here => Here' /\ UNCHANGED panelVars
    BY <1>1, <1>6, <1>9 DEF Here, PanelRendered
<1>13. Comes(1) => Here'
  <2> SUFFICES ASSUME Comes(1), NEW i, (Turns(i))', ~(Back(i))' PROVE FALSE
      BY <1>1, <1>9 DEF Here, Comes
  <2>1. i \in Int /\ i >= 1 /\ i + 1 < 1
      BY <1>9 DEF Comes
  <2> QED BY <2>1
<1>14. ASSUME NEW k, Comes(k), k # 1 PROVE k \in Int /\ k - 1 \in Int /\ (Comes(k - 1))'
  <2>1. Back(k) /\ Turns(k) /\ \A j : Turns(j) /\ ~Back(j) => j < k
      BY <1>14 DEF Comes, Back
  <2>2. k \in Int /\ k - 1 \in Int /\ (Turns(k - 1))' /\ inbox'[k - 1] = inbox[k]
      BY <1>8, <1>14, <2>1
  <2>3. (Back(k - 1))'
      BY <1>1, <2>1, <2>2 DEF Back
  <2>4. ASSUME NEW j, (Turns(j))', ~(Back(j))' PROVE j < k - 1
    <3>1. j \in Int /\ j + 1 < k
        BY <1>9, <2>1, <2>4
    <3> QED BY <2>2, <3>1
  <2> QED BY <2>2, <2>3, <2>4 DEF Comes
<1>15. ComesUp'
    BY <1>1, <1>3, <1>12, <1>13, <1>14 DEF ComesUp
<1>10. ASSUME NEW n \in Terminals PROVE Told(n)' /\ PaneShows(n)'
  <2>1. Told(n) /\ PaneShows(n) /\ last[n] \in Nat /\ printed[n] \in Nat
      BY TerminalHas
  <2>2. CASE UNCHANGED panelVars
    <3>1. LeftAlone(n)
        BY <1>1, <2>2 DEF LeftAlone, panelVars
    <3>2. PaneShows(n)'
        BY <2>1, <2>2, PaneStays DEF panelVars
    <3> QED BY <1>2, <2>1, <3>1, <3>2, OtherTerminal
  <2>3. CASE ~UNCHANGED panelVars
    <3>1. /\ list' = <<>> /\ ignored' = {}
          /\ log' = [m \in Terminals |-> <<>>] /\ last' = [m \in Terminals |-> 0]
          /\ view' = [m \in Terminals |-> Unmounted]
        BY <2>3 DEF PanelRendered
    <3>2. n \notin ToSet(list)' /\ n \notin ignored' /\ last'[n] = 0 /\ log'[n] = <<>> /\ ~view'[n].on
        BY <3>1 DEF ToSet, Unmounted
    <3>3. PaneShows(n)'
        BY <3>2 DEF PaneShows
    <3> QED BY <1>1, <1>2, <2>1, <3>2, <3>3, DroppedTerminal
  <2> QED BY <2>2, <2>3
<1>11. ASSUME NEW n \in Terminals PROVE ComesIn(n)'
  <2> SUFFICES ASSUME n \in running, created[n] = up, erred # up
               PROVE  \/ n \in ToSet(list)' /\ Here'
                      \/ \E i : (Born(i, n))' /\ (Here' \/ \E k : k < i /\ (Comes(k))')
                      \/ \E c \in ToSet(asks') : c.kind = "hang" /\ c.of = n
      BY <1>1 DEF ComesIn
  <2>1. \/ n \in ToSet(list) /\ Here
        \/ \E i : Born(i, n) /\ (Here \/ \E k : k < i /\ Comes(k))
        \/ \E c \in ToSet(asks) : c.kind = "hang" /\ c.of = n
      BY TerminalHas DEF ComesIn
  <2>2. CASE n \in ToSet(list) /\ Here
      BY <1>12, <2>2 DEF panelVars
  <2>3. CASE \E i : Born(i, n) /\ (Here \/ \E k : k < i /\ Comes(k))
    <3>1. PICK i : Born(i, n) /\ (Here \/ \E k : k < i /\ Comes(k))
        BY <2>3
    <3>2. i \in Int
        BY <3>1, InInbox
    <3>3. (Born(i - 1, n))'
      <4>1. i - 1 \in Int /\ (i - 1) + 1 = i
          BY <3>2
      <4> QED BY <1>2, <3>1, <4>1 DEF Moved
    <3>4. ASSUME NEW k, k < i, Comes(k), k # 1 PROVE k - 1 < i - 1 /\ (Comes(k - 1))'
        BY <1>14, <3>2, <3>4
    <3> QED BY <1>12, <1>13, <3>1, <3>3, <3>4
  <2> QED BY <1>1, <2>1, <2>2, <2>3
<1> QED BY <1>4, <1>10, <1>11, <1>15 DEF ShownInv, Told

LEMMA ConnectedShown ==
    ASSUME MailOK, MailOK', MainTypes, ShownInv, NEW i \in DOMAIN asks, Connected(i), UNCHANGED viewVars
    PROVE  ShownInv'
<1>1. /\ UNCHANGED <<running, created, printed, list, visible, log, last, view, ignored>>
      /\ up' = made + 1 /\ made' = made + 1 /\ made \in Nat
      /\ asks \in Seq(Notes) /\ inbox \in Seq(Notes)
    BY DEF viewVars, Connected, appVars, MainTypes, MailOK
<1> DEFINE m == [Note("connected") EXCEPT !.conn = made + 1]
<1>2. inbox' = Append(inbox, m)
    BY DEF Connected
<1>3. m \in Notes /\ m.kind = "connected" /\ m.conn = made + 1
  <2>1. made + 1 \in Nat
      BY <1>1
  <2> QED BY <2>1, NewNote DEF OtherKinds, Note
<1>4. AsksKept
  <2> DEFINE c == [asks[i] EXCEPT !.kind = "record", !.num = made + 1]
  <2>1. asks[i] \in Notes /\ asks[i].kind = "dial" /\ made + 1 \in Nat
      BY <1>1 DEF Connected, Asked
  <2>2. c \in Notes /\ c.kind = "record"
      BY <2>1 DEF Notes, OtherKinds
  <2>3. asks' = [asks EXCEPT ![i] = c]
      BY <1>1 DEF Connected
  <2> HIDE DEF c
  <2> QED BY <2>1, <2>2, <2>3, RenamedKept DEF ShownInv
<1> HIDE DEF m
<1>5. <<m>> \in Seq(Notes) /\ inbox' = inbox \o <<m>> /\ \A x \in ToSet(<<m>>) : x = m
  <2>1. inbox' = inbox \o <<m>>
      BY <1>1, <1>2, <1>3
  <2> QED BY <1>3, <2>1, OneNote
<1>6. \A n : Moved(n, 0)
    BY <1>3, <1>5, SentMoves DEF Foreign
<1>7. /\ Len(inbox) \in Nat /\ DOMAIN inbox' = 1..(Len(inbox) + 1) /\ inbox'[Len(inbox) + 1] = m
      /\ Len(inbox) + 1 \in DOMAIN inbox'
    BY <1>1, <1>2
<1>8. ComesUp'
  <2>0. PICK k : k = Len(inbox) + 1
      OBVIOUS
  <2>1. (Back(k))'
      BY <1>1, <1>3, <1>7, <2>0 DEF Back, Turns
  <2>2. ASSUME NEW j, (Turns(j))', ~(Back(j))' PROVE j < k
    <3>1. j \in 1..(Len(inbox) + 1) /\ j # Len(inbox) + 1
        BY <1>7, <2>0, <2>1, <2>2 DEF Turns
    <3> QED BY <1>7, <2>0, <3>1
  <2> QED BY <2>1, <2>2 DEF ComesUp, Comes
<1>9. CreatedOnes /\ NewTold
    BY <1>6, CreatedKept DEF ShownInv, NewTold
<1>10. ViewTypes' /\ CreatedOnes'
    BY <1>1, <1>4, <1>9 DEF ShownInv, ViewTypes, CreatedOnes, NewTold, AsksKept
<1>11. ASSUME NEW n \in Terminals PROVE Told(n)' /\ ComesIn(n)' /\ PaneShows(n)'
  <2>1. LeftAlone(n) /\ PaneShows(n)'
      BY <1>1, TerminalHas, PaneStays DEF LeftAlone
  <2>2. n \in running => created[n] \in 1..made /\ created[n] # made + 1
      BY <1>1, <1>9 DEF CreatedOnes
  <2> QED BY <1>1, <1>6, <2>1, <2>2, TerminalHas, OtherTerminal DEF ComesIn
<1> QED BY <1>8, <1>10, <1>11 DEF ShownInv, Told

\* The main process says 'connected' once more, or that the client reported an error.
LEMMA NoticeShown ==
    ASSUME MailOK, MailOK', MainTypes, ShownInv, (\E c \in loading : FilesReady(c)) \/ SocketError, UNCHANGED viewVars
    PROVE  ShownInv'
<1>1. PICK kind \in {"connected", "error"} :
         /\ inbox' = Append(inbox, [Note(kind) EXCEPT !.conn = up])
         /\ UNCHANGED <<asks, up, made, status>>
         /\ IF kind = "error" THEN erred' = up ELSE erred' = erred
    BY DEF FilesReady, SocketError, appVars
<1> DEFINE m == [Note(kind) EXCEPT !.conn = up]
<1>2. m \in Notes /\ m.kind = kind /\ m.conn = up
    BY DEF Note, Notes, OtherKinds, MainTypes
<1>3. inbox' = Append(inbox, m) /\ inbox \in Seq(Notes)
    BY <1>1 DEF MailOK
<1> HIDE DEF m
<1>4. <<m>> \in Seq(Notes) /\ inbox' = inbox \o <<m>> /\ \A x \in ToSet(<<m>>) : x = m
    BY <1>2, <1>3, OneNote
<1>5. \A n : Moved(n, 0)
    BY <1>2, <1>4, SentMoves DEF Foreign
<1>6. AsksKept
    BY <1>1 DEF AsksKept, ShownInv, CreatedOnes
<1>7. kind = "connected" => TurnsKept(0)
  <2> DEFINE N == Len(inbox)
  <2>1. /\ N \in Nat /\ DOMAIN inbox = 1..N /\ DOMAIN inbox' = 1..(N + 1)
        /\ \A i \in 1..N : inbox'[i] = inbox[i]
        /\ inbox'[N + 1] = m
      BY <1>2, <1>3
  <2> HIDE DEF N
  <2>2. \A i \in Int : i + 0 = i /\ (i \in DOMAIN inbox' <=> i \in DOMAIN inbox \/ i = N + 1)
      BY <2>1
  <2>3. N + 1 \notin DOMAIN inbox
      BY <2>1
  <2> QED BY <1>1, <1>2, <2>1, <2>2, <2>3 DEF TurnsKept, Turns, Back
<1> QED BY <1>1, <1>5, <1>6, <1>7, ToldStep

LEMMA ConnectionsShown ==
    ASSUME MailOK, MailOK', MainTypes, ShownInv, ConnectionSteps
    PROVE  ShownInv'
<1>0. CreatedOnes /\ asks \in Seq(Notes) /\ inbox \in Seq(Notes)
    BY DEF ShownInv, MailOK
<1>1. CASE Connect /\ UNCHANGED <<tabVars, docVars, viewVars>>
  <2> DEFINE c == [Note("connect") EXCEPT !.conn = IF target \in {None, 0} THEN current ELSE target]
  <2>1. (IF target \in {None, 0} THEN current ELSE target) \in Nat
      BY DEF MainTypes
  <2>2. c \in Notes /\ c.kind = "connect"
      BY <2>1, NewNote DEF OtherKinds
  <2>3. Ask(c) /\ inbox' = inbox /\ UNCHANGED <<up, made, status, erred, viewVars>>
      BY <1>1 DEF Connect, mainVars
  <2> HIDE DEF c
  <2>4. AsksKept /\ BoxKept(0)
      BY <1>0, <2>2, <2>3, AskKept, StillKept
  <2> QED BY <2>3, <2>4, QuietStep
<1>2. CASE Disconnect /\ paused' = TRUE /\ UNCHANGED <<file, tabs, edits, docVars, viewVars>>
  <2>1. Note("disconnect") \in Notes /\ Note("disconnect").kind = "disconnect"
      BY NewNote DEF OtherKinds
  <2>2. Ask(Note("disconnect")) /\ inbox' = inbox /\ UNCHANGED <<up, made, status, erred, viewVars>>
      BY <1>2 DEF Disconnect, mainVars
  <2>3. AsksKept /\ BoxKept(0)
      BY <1>0, <2>1, <2>2, AskKept, StillKept
  <2> QED BY <2>2, <2>3, QuietStep
<1>3. ASSUME NEW i \in DOMAIN asks, ConnectSweeps(i), SessionEnds PROVE ShownInv'
  <2> DEFINE c == [asks[i] EXCEPT !.kind = "dial"]
  <2>1. asks[i] \in Notes /\ asks[i].kind = "connect"
      BY <1>0, <1>3 DEF ConnectSweeps, Asked
  <2>2. c \in Notes /\ c.kind = "dial"
      BY <2>1, NoteOf DEF OtherKinds
  <2>3. /\ asks' = [asks EXCEPT ![i] = c] /\ inbox' = Append(inbox, Note("disconnected"))
        /\ up' = 0 /\ made' = made
      BY <1>3 DEF ConnectSweeps
  <2> HIDE DEF c
  <2>4. AsksKept
      BY <1>0, <2>1, <2>2, <2>3, RenamedKept
  <2>5. Note("disconnected") \in Notes /\ Note("disconnected").kind = "disconnected"
      BY NewNote DEF OtherKinds
  <2>6. /\ <<Note("disconnected")>> \in Seq(Notes) /\ inbox' = inbox \o <<Note("disconnected")>>
        /\ \A x \in ToSet(<<Note("disconnected")>>) : x.kind \notin {"terminal", "data", "exit"}
      BY <1>0, <2>3, <2>5, OneNote
  <2> QED BY <1>3, <2>3, <2>4, <2>6, DownMute DEF SessionEnds, TerminalsEnd
<1>4. ASSUME NEW i \in DOMAIN asks, Disconnected(i), SessionEnds PROVE ShownInv'
  <2>1. asks[i] \in Notes /\ asks[i].kind = "disconnect"
      BY <1>0, <1>4 DEF Disconnected, Asked
  <2>2. /\ asks' = RemoveAt(asks, i) /\ inbox' = inbox \o <<Note("disconnected"), asks[i]>>
        /\ up' = 0 /\ made' = made
      BY <1>4 DEF Disconnected, Settle
  <2>3. Note("disconnected") \in Notes /\ Note("disconnected").kind = "disconnected"
      BY NewNote DEF OtherKinds
  <2>4. /\ <<Note("disconnected"), asks[i]>> \in Seq(Notes)
        /\ \A x \in ToSet(<<Note("disconnected"), asks[i]>>) : x.kind \notin {"terminal", "data", "exit"}
      BY <2>1, <2>3, TwoNotes
  <2>5. AsksKept
      BY <1>0, <2>1, <2>2, AnswerKept
  <2> QED BY <1>4, <2>2, <2>4, <2>5, DownMute DEF SessionEnds, TerminalsEnd
<1>5. ASSUME NEW i \in DOMAIN asks, ConnectFails(i), UNCHANGED viewVars PROVE ShownInv'
  <2> DEFINE c == [asks[i] EXCEPT !.ok = FALSE]
  <2>1. asks[i] \in Notes /\ asks[i].kind = "dial"
      BY <1>0, <1>5 DEF ConnectFails, Asked
  <2>2. c \in Notes /\ c.kind = "dial"
      BY <2>1, NoteOf
  <2>3. /\ asks' = RemoveAt(asks, i) /\ inbox' = inbox \o <<Note("error"), c>>
        /\ up' = 0 /\ made' = made
      BY <1>5 DEF ConnectFails, Settle
  <2>4. Note("error") \in Notes /\ Note("error").kind = "error"
      BY NewNote DEF OtherKinds
  <2> HIDE DEF c
  <2>5. /\ <<Note("error"), c>> \in Seq(Notes)
        /\ \A x \in ToSet(<<Note("error"), c>>) : x.kind \notin {"terminal", "data", "exit"}
      BY <2>2, <2>4, TwoNotes
  <2>6. AsksKept
      BY <1>0, <2>1, <2>3, AnswerKept
  <2> QED BY <1>5, <2>3, <2>5, <2>6, DownMute DEF viewVars, panelVars
<1>6. ASSUME NEW i \in DOMAIN asks, ConnectRecorded(i), UNCHANGED viewVars PROVE ShownInv'
  <2>1. asks[i] \in Notes /\ asks[i].kind = "record"
      BY <1>0, <1>6 DEF ConnectRecorded, Asked
  <2>2. PICK good \in BOOLEAN : Answer(i, good)
      BY <1>6 DEF ConnectRecorded
  <2> DEFINE c == [asks[i] EXCEPT !.ok = good]
  <2>3. c \in Notes /\ c.kind = "record"
      BY <2>1, NoteOf
  <2>4. asks' = RemoveAt(asks, i) /\ inbox' = inbox \o <<c>>
      BY <2>2 DEF Answer, Settle
  <2> HIDE DEF c
  <2>5. <<c>> \in Seq(Notes) /\ \A x \in ToSet(<<c>>) : Mute(x)
      BY <2>3, OneNote DEF Mute
  <2>6. AsksKept /\ BoxKept(0)
      BY <1>0, <2>1, <2>4, <2>5, AnswerKept, SentKept
  <2> QED BY <1>6, <2>6, QuietStep DEF ConnectRecorded, mainVars, appVars
<1>7. ASSUME inbox # <<>>, inbox' = Tail(inbox), asks' = asks, Mute(Head(inbox)),
             UNCHANGED <<up, made, status, erred, viewVars>>
      PROVE  ShownInv'
  <2>1. AsksKept
      BY <1>0, <1>7 DEF AsksKept, CreatedOnes
  <2> QED BY <1>7, <2>1, TakenKept, QuietStep
<1>8. CASE OnDisconnectAnswer /\ UNCHANGED <<tabVars, docVars, viewVars>>
    BY <1>7, <1>8 DEF OnDisconnectAnswer, Heard, Mute, mainVars
<1>9. CASE OnConnectAnswer /\ Remapped(Head(inbox)) /\ UNCHANGED <<file, edits>> /\ Rendered
    BY <1>7, <1>9 DEF OnConnectAnswer, Heard, Mute, mainVars, Rendered, PanelRendered, viewVars, panelVars
<1>10. CASE \E i \in DOMAIN asks : (ConnectSweeps(i) \/ Disconnected(i)) /\ SessionEnds
    BY <1>3, <1>4, <1>10
<1>11. CASE \E i \in DOMAIN asks :
               (Connected(i) \/ ConnectFails(i) \/ ConnectRecorded(i)) /\ UNCHANGED <<tabVars, docVars, viewVars>>
    BY <1>5, <1>6, <1>11, ConnectedShown
<1>12. CASE Lost(ExitsOf(running)) /\ SessionEnds
    BY <1>12, LossShown
<1>13. CASE (OnConnected \/ OnDisconnected \/ OnError) /\ UNCHANGED <<file, tabs, edits>> /\ Rendered
    BY <1>13, TurnShown DEF Rendered
<1>14. CASE ((\E c \in loading : FilesReady(c)) \/ SocketError) /\ UNCHANGED <<tabVars, docVars, viewVars>>
    BY <1>14, NoticeShown
<1> QED BY <1>1, <1>2, <1>8, <1>9, <1>10, <1>11, <1>12, <1>13, <1>14 DEF ConnectionSteps
-----------------------------------------------------------------------------
(* Panes that are shown, split, closed and drawn.                           *)

\* A pane that is mounted now shows what the log has.
LEMMA MountedShows ==
    ASSUME NEW events \in Seq(Nat), NEW l \in Nat, NEW z \in {0, 1},
           Len(events) = IF l + z < MaxReplay THEN l + z ELSE MaxReplay,
           \A k \in 1..(Len(events) - z) : events[k] = l - (Len(events) - z) + k,
           z = 1 => events[Len(events)] = 0
    PROVE  /\ Mounted(events) \in Pane /\ Mounted(events).on
           /\ Shows(Mounted(events).shown \o Mounted(events).waiting, l)
<1>1. MaxReplay \in Nat \ {0} /\ Len(events) \in Nat /\ DOMAIN events = 1..Len(events)
    BY ViewsAssumption
<1> DEFINE m == Len(events) - z
           has == Picked(events, 1..m)
<1>2. m \in 0..Len(events) /\ m <= l /\ m >= IF l < MaxReplay THEN l ELSE MaxReplay - 1
    BY <1>1
<1>3. {k \in DOMAIN events : events[k] # 0} = 1..m
  <2>1. ASSUME NEW k \in 1..m PROVE k \in DOMAIN events /\ events[k] # 0
      BY <1>1, <1>2
  <2>2. ASSUME NEW k \in DOMAIN events, events[k] # 0 PROVE k \in 1..m
    <3>1. z = 1 => k # Len(events)
        BY <2>2
    <3> QED BY <1>1, <3>1
  <2> QED BY <2>1, <2>2
<1>4. has = [k \in 1..m |-> events[k]]
    BY <1>2, PickedBeginning
<1>5. Mounted(events) = [on |-> TRUE, shown |-> <<>>, waiting |-> has]
    BY <1>3 DEF Mounted
<1>6. m \in Nat /\ \A k \in 1..m : events[k] \in Nat
    BY <1>1, <1>2
<1>7. has \in Seq(Nat) /\ Len(has) = m /\ \A k \in 1..m : has[k] = events[k]
  <2> HIDE DEF m
  <2> QED BY <1>4, <1>6
<1>8. <<>> \o has = has
  <2> HIDE DEF has
  <2> QED BY <1>7
<1>9. Shows(has, l)
  <2> HIDE DEF has
  <2>1. DOMAIN has = 1..m
      BY <1>7
  <2> QED BY <1>2, <1>7, <2>1 DEF Shows
<1> QED BY <1>5, <1>7, <1>8, <1>9 DEF Pane

LEMMA LogShows ==
    ASSUME ViewTypes, NEW n \in Terminals, LogHas(n, 0) \/ LogHas(n, 1)
    PROVE  /\ Mounted(log[n]) \in Pane /\ Mounted(log[n]).on
           /\ Shows(Mounted(log[n]).shown \o Mounted(log[n]).waiting, last[n])
<1>1. log[n] \in Seq(Nat) /\ last[n] \in Nat
    BY DEF ViewTypes
<1>2. ASSUME NEW z \in {0, 1}, LogHas(n, z)
      PROVE  /\ Mounted(log[n]) \in Pane /\ Mounted(log[n]).on
             /\ Shows(Mounted(log[n]).shown \o Mounted(log[n]).waiting, last[n])
    BY <1>1, <1>2, MountedShows DEF LogHas
<1> QED BY <1>2

\* What all panes show once some are to be seen.
LEMMA PanesShow ==
    ASSUME ViewTypes, NEW next, Panes(next, log),
           \A n \in Terminals : n \in ToSet(next) => (LogHas(n, 0) \/ LogHas(n, 1)) /\ PaneShows(n) /\ last'[n] = last[n]
    PROVE  /\ view' \in [Terminals -> Pane]
           /\ \A n \in Terminals : IF view'[n].on THEN n \in ToSet(next) ELSE view'[n].waiting = <<>>
           /\ \A n \in Terminals : PaneShows(n)'
<1>1. view \in [Terminals -> Pane]
    BY DEF ViewTypes
<1>2. ASSUME NEW n \in Terminals
      PROVE  /\ view'[n] \in Pane
             /\ IF view'[n].on THEN n \in ToSet(next) ELSE view'[n].waiting = <<>>
             /\ PaneShows(n)'
  <2>1. CASE n \notin ToSet(next)
    <3>1. view'[n] = Unmounted
        BY <2>1 DEF Panes
    <3>2. Unmounted \in Pane /\ ~Unmounted.on /\ Unmounted.waiting = <<>>
        BY DEF Unmounted, Pane
    <3> QED BY <3>1, <3>2 DEF PaneShows
  <2>2. CASE n \in ToSet(next)
    <3>1. (LogHas(n, 0) \/ LogHas(n, 1)) /\ PaneShows(n) /\ last'[n] = last[n]
        BY <2>2
    <3>2. (view'[n] = view[n] /\ view[n].on) \/ view'[n] = Mounted(log[n])
        BY <2>2 DEF Panes
    <3>3. CASE view'[n] = view[n] /\ view[n].on
        BY <1>1, <2>2, <3>1, <3>3, PaneStays
    <3>4. CASE view'[n] = Mounted(log[n])
      <4>1. /\ Mounted(log[n]) \in Pane /\ Mounted(log[n]).on
            /\ Shows(Mounted(log[n]).shown \o Mounted(log[n]).waiting, last[n])
          BY <3>1, LogShows
      <4> QED BY <2>2, <3>1, <3>4, <4>1 DEF PaneShows
    <3> QED BY <3>2, <3>3, <3>4
  <2> QED BY <2>1, <2>2
<1>3. view' = [n \in Terminals |-> view'[n]]
    BY DEF Panes
<1> QED BY <1>2, <1>3

LEMMA RevealShown ==
    ASSUME MailOK, MailOK', MainTypes, ShownInv, NEW t \in Terminals, RevealTerminal(t)
    PROVE  ShownInv'
<1>1. /\ UNCHANGED <<asks, inbox, up, made, status, erred, running, created, printed, list, log, last, ignored>>
      /\ t \in ToSet(list) /\ visible' = <<t>> /\ Panes(<<t>>, log)
    BY DEF RevealTerminal, mainVars, appVars
<1>2. ViewTypes /\ CreatedOnes /\ ComesUp
    BY DEF ShownInv
<1>3. <<t>> \in Seq(Terminals) /\ ToSet(<<t>>) = {t}
    BY DEF ToSet
<1>4. /\ view' \in [Terminals -> Pane]
      /\ \A n \in Terminals : IF view'[n].on THEN n \in ToSet(<<t>>) ELSE view'[n].waiting = <<>>
      /\ \A n \in Terminals : PaneShows(n)'
  <2>1. \A n \in Terminals : n \in ToSet(<<t>>) => (LogHas(n, 0) \/ LogHas(n, 1)) /\ PaneShows(n) /\ last'[n] = last[n]
      BY <1>1, <1>3, TerminalHas DEF Told, Logs
  <2> QED BY <1>1, <1>2, <2>1, PanesShow
<1>5. ViewTypes'
    BY <1>1, <1>2, <1>3, <1>4 DEF ViewTypes
<1>6. (\A n : Moved(n, 0)) /\ TurnsMoved(0)
    BY <1>1, StillMoves
<1>7. CreatedOnes' /\ ComesUp'
    BY <1>1, <1>2, <1>6, ComesUpStays DEF CreatedOnes, Born, Tells, Chunk, Ended
<1>8. ASSUME NEW n \in Terminals PROVE Told(n)' /\ ComesIn(n)'
  <2>1. LeftAlone(n) /\ BornMoved(n, 0)
      BY <1>1, <1>6 DEF LeftAlone, BornMoved, Moved
  <2>2. ComesIn(n)'
      BY <1>1, <1>6, <2>1, TerminalHas, ComesInStays
  <2> QED BY <1>6, <2>1, <2>2, TerminalHas, OtherTerminal
<1> QED BY <1>4, <1>5, <1>7, <1>8 DEF ShownInv, Told

LEMMA FrameShown ==
    ASSUME MailOK, MailOK', MainTypes, ShownInv, NEW t \in Terminals, Frame(t)
    PROVE  ShownInv'
<1>1. /\ UNCHANGED <<asks, inbox, up, made, status, erred, running, created, printed, list, visible, log, last,
                     ignored>>
      /\ view[t].waiting # <<>>
      /\ view' = [view EXCEPT ![t] = [on |-> TRUE, shown |-> view[t].shown \o view[t].waiting, waiting |-> <<>>]]
    BY DEF Frame, linkVars, mainVars, appVars
<1>2. ViewTypes /\ CreatedOnes /\ ComesUp /\ view \in [Terminals -> Pane]
    BY DEF ShownInv, ViewTypes
<1>3. view[t].shown \in Seq(Nat) /\ view[t].waiting \in Seq(Nat) /\ view[t].on /\ t \in ToSet(visible)
  <2>1. view[t] \in Pane
      BY <1>2
  <2> QED BY <1>1, <1>2, <2>1 DEF ViewTypes, Pane
<1> DEFINE has == view[t].shown \o view[t].waiting
<1>4. has \in Seq(Nat) /\ has \o <<>> = has
    BY <1>3
<1>5. /\ \A n \in Terminals : n # t => view'[n] = view[n]
      /\ view'[t] = [on |-> TRUE, shown |-> has, waiting |-> <<>>]
    BY <1>1, <1>2
<1> HIDE DEF has
<1>6. view' \in [Terminals -> Pane]
  <2>1. view'[t] \in Pane
      BY <1>4, <1>5 DEF Pane
  <2>2. \A n \in Terminals : view'[n] \in Pane
      BY <1>2, <1>5, <2>1
  <2>3. view' = [n \in Terminals |-> view'[n]]
      BY <1>1, <1>2
  <2> QED BY <2>2, <2>3
<1>7. ViewTypes'
    BY <1>1, <1>2, <1>3, <1>5, <1>6 DEF ViewTypes
<1>8. (\A n : Moved(n, 0)) /\ TurnsMoved(0)
    BY <1>1, StillMoves
<1>9. CreatedOnes' /\ ComesUp'
    BY <1>1, <1>2, <1>8, ComesUpStays DEF CreatedOnes, Born, Tells, Chunk, Ended
<1>10. ASSUME NEW n \in Terminals PROVE Told(n)' /\ ComesIn(n)'
  <2>1. LeftAlone(n) /\ BornMoved(n, 0)
      BY <1>1, <1>8 DEF LeftAlone, BornMoved, Moved
  <2>2. ComesIn(n)'
      BY <1>1, <1>8, <2>1, TerminalHas, ComesInStays
  <2> QED BY <1>8, <2>1, <2>2, TerminalHas, OtherTerminal
<1>11. ASSUME NEW n \in Terminals PROVE PaneShows(n)'
  <2>1. CASE n # t
      BY <1>1, <1>5, <2>1, TerminalHas, PaneStays
  <2>2. CASE n = t
    <3>1. Shows(has, last[t])
        BY <1>3, TerminalHas DEF PaneShows, has
    <3>2. view'[t].shown \o view'[t].waiting = has
        BY <1>4, <1>5
    <3>3. Shows(view'[t].shown \o view'[t].waiting, last'[t])
        BY <1>1, <3>1, <3>2, Zenon
    <3> QED BY <2>2, <3>3 DEF PaneShows
  <2> QED BY <2>1, <2>2
<1> QED BY <1>7, <1>9, <1>10, <1>11 DEF ShownInv, Told

LEMMA CloseShown ==
    ASSUME MailOK, MailOK', MainTypes, ShownInv, NEW t \in Terminals, CloseTerminal(t)
    PROVE  ShownInv'
<1> DEFINE others == AllBut(list, t)
           left == AllBut(visible, t)
           next == IF left # <<>> \/ others = <<>> THEN left ELSE <<Last(others)>>
           c == [Note("hang") EXCEPT !.of = t]
<1>1. /\ UNCHANGED <<inbox, up, made, status, erred, running, created, printed>>
      /\ t \in ToSet(list) /\ list' = others /\ visible' = next /\ Panes(next, log)
      /\ log' = [log EXCEPT ![t] = <<>>] /\ last' = [last EXCEPT ![t] = 0]
      /\ ignored' = ignored \cup {t} /\ Ask(c)
    BY DEF CloseTerminal, mainVars, appVars
<1>2. ViewTypes /\ CreatedOnes /\ ComesUp
    BY DEF ShownInv
<1>3. c \in Notes /\ c.kind = "hang" /\ c.of = t
  <2>1. t \in Nat
      BY DEF Terminals
  <2> QED BY <2>1, NewNote DEF OtherKinds, Note
<1>4. /\ others \in Seq(Terminals) /\ ToSet(others) = ToSet(list) \ {t}
      /\ left \in Seq(Terminals) /\ ToSet(left) = ToSet(visible) \ {t}
    BY <1>2, AllButIs DEF ViewTypes
<1>5. next \in Seq(Terminals) /\ ToSet(next) \subseteq ToSet(list) \ {t}
  <2> HIDE DEF others, left
  <2>1. CASE next = left
      BY <1>2, <1>4, <2>1 DEF ViewTypes
  <2>2. CASE next = <<Last(others)>> /\ others # <<>>
    <3>1. Len(others) \in DOMAIN others /\ Last(others) = others[Len(others)]
        BY <1>4, <2>2 DEF Last
    <3>2. Last(others) \in ToSet(others) /\ Last(others) \in Terminals
        BY <1>4, <3>1 DEF ToSet
    <3>3. <<Last(others)>> \in Seq(Terminals) /\ ToSet(<<Last(others)>>) = {Last(others)}
        BY <3>2 DEF ToSet
    <3> QED BY <1>4, <2>2, <3>2, <3>3
  <2> QED BY <2>1, <2>2
<1> HIDE DEF others, left, next, c
<1>6. \A n \in Terminals : n # t => log'[n] = log[n] /\ last'[n] = last[n]
    BY <1>1, <1>2 DEF ViewTypes
<1>7. /\ view' \in [Terminals -> Pane]
      /\ \A n \in Terminals : IF view'[n].on THEN n \in ToSet(next) ELSE view'[n].waiting = <<>>
      /\ \A n \in Terminals : PaneShows(n)'
  <2>1. \A n \in Terminals : n \in ToSet(next) => (LogHas(n, 0) \/ LogHas(n, 1)) /\ PaneShows(n) /\ last'[n] = last[n]
      BY <1>5, <1>6, TerminalHas DEF Told, Logs
  <2> QED BY <1>1, <1>2, <2>1, PanesShow
<1>8. ViewTypes'
  <2>1. <<>> \in Seq(Nat)
      OBVIOUS
  <2>2. log' \in [Terminals -> Seq(Nat)] /\ last' \in [Terminals -> Nat]
      BY <1>1, <1>2, <2>1 DEF ViewTypes
  <2>3. ToSet(next) \subseteq ToSet(others)
      BY <1>4, <1>5
  <2> QED BY <1>1, <1>4, <1>5, <1>7, <2>2, <2>3 DEF ViewTypes
<1>9. (\A n : Moved(n, 0)) /\ TurnsMoved(0)
    BY <1>1, StillMoves
<1>10. AsksKept /\ c \in ToSet(asks')
  <2>1. asks' = Append(asks, c) /\ ToSet(asks') = ToSet(asks) \cup {c}
      BY <1>1, <1>3, AppendSet DEF MailOK, Ask
  <2> QED BY <1>1, <1>2, <1>3, <2>1, AskKept
<1>11. CreatedOnes' /\ ComesUp'
  <2>1. NewTold
      BY <1>2, <1>9, CreatedKept DEF NewTold
  <2>2. \A n \in Terminals \ DOMAIN created : last'[n] = 0 /\ log'[n] = <<>>
      BY <1>1, <1>2 DEF ViewTypes, CreatedOnes
  <2>3. ToSet(list)' \subseteq DOMAIN created /\ ignored' \subseteq DOMAIN created
      BY <1>1, <1>2, <1>4 DEF CreatedOnes
  <2>4. ComesUp'
      BY <1>1, <1>2, <1>9, ComesUpStays
  <2> QED BY <1>1, <1>2, <1>10, <2>1, <2>2, <2>3, <2>4 DEF CreatedOnes, NewTold, AsksKept
<1>12. ASSUME NEW n \in Terminals PROVE Told(n)' /\ ComesIn(n)'
  <2>1. CASE n # t
    <3>1. LeftAlone(n) /\ BornMoved(n, 0) /\ (n \in ToSet(list) => n \in ToSet(list)')
        BY <1>1, <1>4, <1>6, <1>9, <2>1 DEF LeftAlone, BornMoved, Moved
    <3>2. ComesIn(n)'
        BY <1>1, <1>9, <1>10, <3>1, TerminalHas, ComesInStays DEF AsksKept
    <3> QED BY <1>9, <3>1, <3>2, TerminalHas, OtherTerminal
  <2>2. CASE n = t
    <3>1. Told(t) /\ \A i : ~Born(i, t)
        BY <1>1, TerminalHas DEF Told, BornFirst
    <3>2. BornFirst(t)' /\ EndsLast(t)'
        BY <1>1, <3>1 DEF Told, BornFirst, EndsLast, Born, Tells, Chunk, Ended
    <3>3. Streams(t)' /\ Logs(t)'
        BY <1>1, <1>4, <3>1 DEF Streams, Logs, Born
    <3>4. ComesIn(t)'
        BY <1>3, <1>10 DEF ComesIn
    <3> QED BY <2>2, <3>2, <3>3, <3>4 DEF Told
  <2> QED BY <2>1, <2>2
<1> QED BY <1>7, <1>8, <1>11, <1>12 DEF ShownInv, Told
-----------------------------------------------------------------------------
(* Terminals that are created, print and end.                               *)

LEMMA OpenShown ==
    ASSUME MailOK, MailOK', MainTypes, ShownInv, NEW mode \in {"new", "split"}, OpenTerminal(mode)
    PROVE  ShownInv'
<1> DEFINE c == [Note("terminal") EXCEPT !.to = mode, !.conn = status.conn]
<1>0. status.conn \in Nat
    BY DEF MainTypes
<1>1. c \in Notes /\ c.kind = "terminal" /\ c.ok
    BY <1>0, NewNote DEF OtherKinds, Note
<1>2. Ask(c) /\ inbox' = inbox /\ UNCHANGED <<up, made, status, erred, viewVars>>
    BY DEF OpenTerminal, mainVars, appVars
<1> HIDE DEF c
<1>3. AsksKept /\ BoxKept(0)
    BY <1>1, <1>2, AskKept, StillKept DEF ShownInv
<1> QED BY <1>2, <1>3, QuietStep

LEMMA CreateShown ==
    ASSUME MailOK, MailOK', MainTypes, ShownInv, NEW i \in DOMAIN asks, CreateTerminal(i)
    PROVE  ShownInv'
<1>0. asks \in Seq(Notes) /\ inbox \in Seq(Notes) /\ created \in Seq(Nat) /\ up \in Nat
    BY DEF MailOK, MainTypes
<1>1. /\ asks[i] \in Notes /\ asks[i].kind = "terminal"
      /\ UNCHANGED <<up, made, status, erred, printed, list, visible, log, last, view, ignored>>
    BY <1>0 DEF CreateTerminal, Asked, mainVars, appVars, panelVars
<1>2. ViewTypes /\ CreatedOnes /\ ComesUp
    BY DEF ShownInv
<1>3. asks[i].ok
    BY <1>0, <1>1, <1>2, InSet DEF CreatedOnes
<1>4. CASE Answer(i, FALSE) /\ UNCHANGED <<created, running>>
  <2> DEFINE c == [asks[i] EXCEPT !.ok = FALSE]
  <2>1. c \in Notes /\ c.kind = "terminal" /\ ~c.ok
      BY <1>1, NoteOf
  <2>2. asks' = RemoveAt(asks, i) /\ inbox' = inbox \o <<c>>
      BY <1>4 DEF Answer, Settle
  <2> HIDE DEF c
  <2>3. <<c>> \in Seq(Notes) /\ \A x \in ToSet(<<c>>) : Level(x) /\ \A n : Foreign(x, n)
      BY <2>1, OneNote DEF Level, Foreign
  <2>4. AsksKept /\ BoxKept(0)
      BY <1>1, <1>2, <2>2, <2>3, AnswerKept, SentMoves DEF BoxKept
  <2>5. UNCHANGED <<up, made, status, erred, viewVars>>
      BY <1>1, <1>4 DEF viewVars
  <2> QED BY <2>4, <2>5, QuietStep
<1>5. CASE /\ up # 0 /\ Len(created) < MaxTerminals
           /\ created' = Append(created, up) /\ running' = running \cup {Len(created) + 1}
           /\ Settle(i, <<[asks[i] EXCEPT !.of = Len(created) + 1]>>)
  <2>0. PICK t : t = Len(created) + 1
      OBVIOUS
  <2>1. /\ t \in Nat /\ t \in Terminals /\ t \notin DOMAIN created /\ created' \in Seq(Nat)
        /\ DOMAIN created' = DOMAIN created \cup {t} /\ Len(created') = t /\ t <= MaxTerminals
        /\ created'[t] = up /\ \A n \in DOMAIN created : created'[n] = created[n]
    <3>1. MaxTerminals \in Nat /\ Len(created) \in Nat /\ DOMAIN created = 1..Len(created)
        BY <1>0, ViewsAssumption
    <3> QED BY <1>0, <1>5, <2>0, <3>1 DEF Terminals
  <2> DEFINE c == [asks[i] EXCEPT !.of = t]
  <2>2. c \in Notes /\ c.kind = "terminal" /\ c.ok /\ c.of = t
      BY <1>1, <1>3, <2>1, NoteOf DEF Notes
  <2>3. asks' = RemoveAt(asks, i) /\ inbox' = inbox \o <<c>> /\ running' = running \cup {t}
      BY <1>5, <2>0 DEF Settle
  <2> HIDE DEF c
  <2>4. <<c>> \in Seq(Notes) /\ \A x \in ToSet(<<c>>) : x = c
      BY <2>2, OneNote
  <2>5. TurnsMoved(0) /\ \A n : n # t => Moved(n, 0)
      BY <2>2, <2>3, <2>4, SentMoves DEF Level, Foreign
  <2>6. PICK p : p = Len(inbox) + 1
      OBVIOUS
  <2>7. /\ p \in Int /\ DOMAIN inbox = 1..(p - 1) /\ DOMAIN inbox' = 1..p /\ inbox'[p] = c
        /\ \A j \in 1..(p - 1) : inbox'[j] = inbox[j]
      BY <1>0, <2>2, <2>3, <2>6
  <2>8. AsksKept
      BY <1>1, <1>2, <2>3, AnswerKept
  <2>9. \A j : ~Born(j, t) /\ ~Tells(j, t)
      BY <1>2, <2>1 DEF CreatedOnes
  <2>10. \A j : ((Born(j, t))' <=> j = p) /\ ~(Tells(j, t))'
    <3>0. p \in Nat \ {0} /\ \A j \in 1..p : j = p \/ j \in 1..(p - 1)
        BY <1>0, <2>6
    <3>1. \A j \in DOMAIN inbox' : j = p \/ (j \in DOMAIN inbox /\ inbox'[j] = inbox[j])
        BY <2>7, <3>0
    <3>2. p \in DOMAIN inbox'
        BY <2>7, <3>0
    <3>3. ASSUME NEW j PROVE ((Born(j, t))' <=> j = p) /\ ~(Tells(j, t))'
        BY <2>2, <2>7, <2>9, <3>1, <3>2 DEF Born, Tells, Chunk, Ended
    <3> QED BY <3>3
  <2>11. ASSUME NEW j, NEW n, (Born(j, n))' \/ (Tells(j, n))'
         PROVE  n \in DOMAIN created' /\ ((Ended(j, n))' => inbox'[j].num = 0)
    <3>1. CASE n = t
        BY <2>1, <2>10, <3>1 DEF Tells
    <3>2. CASE n # t
      <4>1. j \in Int /\ j + 0 = j
          BY <2>11, InNextInbox
      <4>2. Born(j, n) \/ Tells(j, n)
          BY <2>5, <2>11, <3>2, <4>1 DEF Moved, Tells
      <4>3. (Ended(j, n))' => Ended(j, n) /\ inbox'[j] = inbox[j]
          BY <2>5, <3>2, <4>1 DEF Moved, Tells
      <4> QED BY <1>2, <2>1, <4>2, <4>3 DEF CreatedOnes
    <3> QED BY <3>1, <3>2
  <2>12. ViewTypes'
      BY <1>1, <1>2 DEF ViewTypes
  <2>13. ComesUp'
      BY <1>1, <1>2, <2>5, ComesUpStays
  <2>14. CreatedOnes'
    <3>1. up \in 1..made /\ made' = made /\ up' = up
        BY <1>0, <1>1, <1>2, <1>5 DEF CreatedOnes, MainTypes
    <3>2. \A n \in DOMAIN created' : created'[n] \in 1..made
        BY <1>2, <2>1, <3>1 DEF CreatedOnes
    <3>3. running' \subseteq DOMAIN created' /\ ToSet(list)' \subseteq DOMAIN created' /\ ignored' \subseteq DOMAIN created'
        BY <1>1, <1>2, <2>1, <2>3 DEF CreatedOnes
    <3>4. \A n \in Terminals \ DOMAIN created' : printed'[n] = 0 /\ last'[n] = 0 /\ log'[n] = <<>>
        BY <1>1, <1>2, <2>1 DEF CreatedOnes
    <3>5. \A j, n : (Ended(j, n))' => inbox'[j].num = 0
        BY <2>11 DEF Tells
    <3>6. up' <= made'
        BY <1>1, <1>2 DEF CreatedOnes
    <3> QED BY <1>1, <2>1, <2>8, <2>11, <3>2, <3>3, <3>4, <3>5, <3>6 DEF CreatedOnes, AsksKept
  <2>15. ASSUME NEW n \in Terminals PROVE Told(n)' /\ ComesIn(n)' /\ PaneShows(n)'
    <3>0. Told(n) /\ ComesIn(n) /\ PaneShows(n)' /\ last[n] \in Nat /\ printed[n] \in Nat
        BY <1>1, TerminalHas, PaneStays
    <3>1. CASE n # t
      <4>1. LeftAlone(n) /\ BornMoved(n, 0)
          BY <1>1, <2>3, <2>5, <3>1 DEF LeftAlone, BornMoved, Moved
      <4>2. n \in running' => n \in running /\ created'[n] = created[n]
          BY <1>2, <2>1, <2>3, <3>1 DEF CreatedOnes
      <4>3. ComesIn(n)'
          BY <1>1, <2>5, <2>8, <3>0, <4>1, <4>2, ComesInStays DEF AsksKept
      <4> QED BY <2>5, <3>0, <3>1, <4>1, <4>3, OtherTerminal
    <3>2. CASE n = t
      <4>1. n \notin ToSet(list)' /\ n \notin ignored' /\ last'[n] = 0 /\ log'[n] = <<>> /\ printed'[n] = 0
          BY <1>1, <1>2, <2>1, <3>2 DEF CreatedOnes
      <4>2. BornFirst(n)' /\ EndsLast(n)'
          BY <2>10, <3>2, <4>1 DEF BornFirst, EndsLast, Tells
      <4>3. Streams(n)'
        <5>1. \A v \in 1..0 : FALSE
            OBVIOUS
        <5> QED BY <2>10, <3>2, <4>1, <5>1 DEF Streams, Tells
      <4>4. Logs(n)'
          BY <4>1 DEF Logs
      <4>5. ComesIn(n)'
        <5>1. \A j : (Turns(j))' => j < p
          <6>1. ~(Turns(p))'
              BY <2>2, <2>7 DEF Turns
          <6> QED BY <2>7, <6>1 DEF Turns
        <5>2. \A k : (Comes(k))' => k < p
            BY <5>1 DEF Comes, Back
        <5>3. erred' # up' => Here' \/ \E k : (Comes(k))'
            BY <1>1, <1>5, <2>13 DEF ComesUp
        <5> QED BY <2>10, <3>2, <5>2, <5>3 DEF ComesIn
      <4> QED BY <3>0, <4>2, <4>3, <4>4, <4>5 DEF Told
    <3> QED BY <3>1, <3>2
  <2> QED BY <2>12, <2>13, <2>14, <2>15 DEF ShownInv, Told
<1> QED BY <1>4, <1>5 DEF CreateTerminal

LEMMA OutputShown ==
    ASSUME MailOK, MailOK', MainTypes, ShownInv, NEW t \in Terminals, Output(t)
    PROVE  ShownInv'
<1> DEFINE v == printed[t] + 1
           c == [Note("data") EXCEPT !.of = t, !.num = v]
<1>1. /\ UNCHANGED <<asks, up, made, status, erred, running, created, list, visible, log, last, view, ignored>>
      /\ t \in running /\ printed' = [printed EXCEPT ![t] = v] /\ inbox' = Append(inbox, c)
      /\ printed \in [Terminals -> Nat] /\ inbox \in Seq(Notes)
    BY DEF Output, mainVars, appVars, panelVars, MainTypes, MailOK
<1>2. ViewTypes /\ CreatedOnes /\ ComesUp
    BY DEF ShownInv
<1>3. v \in Nat /\ t \in Nat /\ v = printed[t] + 1
    BY <1>1 DEF Terminals
<1>4. c \in Notes /\ c.kind = "data" /\ c.of = t /\ c.num = v
    BY <1>3, NewNote DEF OtherKinds, Note
<1>5. /\ \A n \in Terminals : n # t => printed'[n] = printed[n]
      /\ printed'[t] = v
    BY <1>1, <1>3
<1> HIDE DEF v, c
<1>6. <<c>> \in Seq(Notes) /\ inbox' = inbox \o <<c>> /\ \A x \in ToSet(<<c>>) : x = c
  <2>1. inbox' = inbox \o <<c>>
      BY <1>1, <1>4
  <2> QED BY <1>4, <2>1, OneNote
<1>7. TurnsMoved(0) /\ \A n : n # t => Moved(n, 0)
    BY <1>4, <1>6, SentMoves DEF Level, Foreign
<1>8. PICK p : p = Len(inbox) + 1
    OBVIOUS
<1>9. /\ p \in Int /\ DOMAIN inbox = 1..(p - 1) /\ DOMAIN inbox' = 1..p /\ inbox'[p] = c
      /\ \A j \in 1..(p - 1) : inbox'[j] = inbox[j]
    BY <1>1, <1>4, <1>8
<1>10. \A j : /\ (Born(j, t))' <=> Born(j, t)
              /\ (Chunk(j, t))' <=> Chunk(j, t) \/ j = p
              /\ (Ended(j, t))' <=> Ended(j, t)
              /\ (Tells(j, t))' <=> Tells(j, t) \/ j = p
              /\ Born(j, t) \/ Tells(j, t) => j \in Int /\ j < p /\ inbox'[j] = inbox[j]
  <2>0. p \in Nat \ {0} /\ \A j : j \in 1..p <=> j = p \/ j \in 1..(p - 1)
      BY <1>1, <1>8
  <2>1. \A j : j \in DOMAIN inbox' <=> j \in DOMAIN inbox \/ j = p
      BY <1>9, <2>0
  <2>2. \A j \in DOMAIN inbox : j \in Int /\ j < p /\ inbox'[j] = inbox[j]
      BY <1>9
  <2>3. p \notin DOMAIN inbox
      BY <1>9
  <2> QED BY <1>4, <1>9, <2>1, <2>2, <2>3 DEF Born, Chunk, Ended, Tells
<1>11. ASSUME NEW n \in Terminals, n # t PROVE Told(n)'
  <2>1. LeftAlone(n)
      BY <1>1, <1>5, <1>11 DEF LeftAlone
  <2> QED BY <1>7, <1>11, <2>1, TerminalHas, OtherTerminal
<1>12. Told(t)'
  <2>0. Told(t) /\ last[t] \in Nat /\ printed[t] \in Nat /\ \A j : ~Ended(j, t)
      BY <1>1, TerminalHas DEF Told, EndsLast
  <2>1. BornFirst(t)'
      BY <1>1, <1>9, <1>10, <2>0 DEF Told, BornFirst
  <2>2. EndsLast(t)'
      BY <1>10, <2>0 DEF EndsLast
  <2>3. Streams(t)'
    <3> SUFFICES ASSUME t \in ToSet(list)' \/ \E i : (Born(i, t))'
                 PROVE  /\ last'[t] <= printed'[t]
                        /\ \A i : (Chunk(i, t))' => inbox'[i].num \in (last'[t] + 1)..printed'[t]
                        /\ \A i, j : (Chunk(i, t))' /\ (Chunk(j, t))' /\ i < j => inbox'[i].num < inbox'[j].num
                        /\ \A w \in (last'[t] + 1)..printed'[t] : \E i : (Chunk(i, t))' /\ inbox'[i].num = w
        BY DEF Streams
    <3>1. t \in ToSet(list) \/ \E i : Born(i, t)
        BY <1>1, <1>10
    <3>2. /\ last[t] <= printed[t]
          /\ \A i : Chunk(i, t) => inbox[i].num \in (last[t] + 1)..printed[t]
          /\ \A i, j : Chunk(i, t) /\ Chunk(j, t) /\ i < j => inbox[i].num < inbox[j].num
          /\ \A w \in (last[t] + 1)..printed[t] : \E i : Chunk(i, t) /\ inbox[i].num = w
        BY <2>0, <3>1 DEF Told, Streams
    <3>3. last'[t] = last[t] /\ printed'[t] = printed[t] + 1
        BY <1>1, <1>3, <1>5
    <3>4. \A i : Chunk(i, t) => i \in Int /\ i < p /\ i # p /\ inbox'[i].num = inbox[i].num
        BY <1>9, <1>10 DEF Tells
    <3>5. inbox'[p].num = printed[t] + 1
        BY <1>3, <1>4, <1>9
    <3>6. ASSUME NEW i, (Chunk(i, t))' PROVE inbox'[i].num \in (last'[t] + 1)..printed'[t]
      <4>1. CASE i = p
          BY <2>0, <3>2, <3>3, <3>5, <4>1
      <4>2. CASE i # p
        <5>1. inbox'[i].num \in (last[t] + 1)..printed[t]
            BY <1>10, <3>2, <3>4, <3>6, <4>2
        <5> QED BY <2>0, <3>3, <5>1
      <4> QED BY <4>1, <4>2
    <3>7. ASSUME NEW i, NEW j, (Chunk(i, t))', (Chunk(j, t))', i < j PROVE inbox'[i].num < inbox'[j].num
      <4>1. i # p
          BY <1>9, <1>10, <3>4, <3>7
      <4>2. Chunk(i, t)
          BY <1>10, <3>7, <4>1
      <4>3. CASE j = p
          BY <2>0, <3>2, <3>4, <3>5, <4>2, <4>3
      <4>4. CASE j # p
          BY <1>10, <3>2, <3>4, <3>7, <4>2, <4>4
      <4> QED BY <4>3, <4>4
    <3>8. ASSUME NEW w \in (last'[t] + 1)..printed'[t] PROVE \E i : (Chunk(i, t))' /\ inbox'[i].num = w
      <4>1. CASE w = printed[t] + 1
          BY <1>10, <3>5, <4>1
      <4>2. CASE w # printed[t] + 1
        <5>1. w \in (last[t] + 1)..printed[t]
            BY <2>0, <3>3, <3>8, <4>2
        <5>2. PICK i : Chunk(i, t) /\ inbox[i].num = w
            BY <3>2, <5>1
        <5> QED BY <1>10, <3>4, <5>2
      <4> QED BY <4>1, <4>2
    <3>9. last'[t] <= printed'[t]
        BY <2>0, <3>2, <3>3
    <3> QED BY <3>6, <3>7, <3>8, <3>9
  <2>4. Logs(t)'
    <3>1. ~LogHas(t, 1)
        BY <1>1 DEF LogHas
    <3>2. LogHas(t, 0) => LogHas(t, 0)'
        BY <1>1 DEF LogHas
    <3> QED BY <1>1, <2>0, <3>1, <3>2 DEF Told, Logs
  <2> QED BY <2>1, <2>2, <2>3, <2>4 DEF Told
<1>13. ASSUME NEW n \in Terminals PROVE ComesIn(n)' /\ PaneShows(n)'
  <2>1. BornMoved(n, 0)
    <3>1. CASE n = t
      <4>1. \A j \in Int : j + 0 = j
          OBVIOUS
      <4> QED BY <1>10, <3>1, <4>1 DEF BornMoved
    <3>2. CASE n # t
        BY <1>7, <3>2 DEF BornMoved, Moved
    <3> QED BY <3>1, <3>2
  <2>2. ComesIn(n)'
      BY <1>1, <1>7, <2>1, TerminalHas, ComesInStays
  <2>3. PaneShows(n)'
      BY <1>1, TerminalHas, PaneStays
  <2> QED BY <2>2, <2>3
<1>14. ViewTypes'
    BY <1>1, <1>2 DEF ViewTypes
<1>15. CreatedOnes'
  <2>1. t \in DOMAIN created
      BY <1>1, <1>2 DEF CreatedOnes
  <2>2. ASSUME NEW j, NEW n, (Born(j, n))' \/ (Tells(j, n))'
        PROVE  n \in DOMAIN created /\ ((Ended(j, n))' => inbox'[j].num = 0)
    <3>1. CASE n = t
      <4>1. (Ended(j, n))' => Ended(j, n) /\ inbox'[j] = inbox[j]
          BY <1>10, <3>1 DEF Tells
      <4> QED BY <1>2, <2>1, <3>1, <4>1 DEF CreatedOnes
    <3>2. CASE n # t
      <4>1. j \in Int /\ j + 0 = j
          BY <2>2, InNextInbox
      <4>2. Born(j, n) \/ Tells(j, n)
          BY <1>7, <2>2, <3>2, <4>1 DEF Moved, Tells
      <4>3. (Ended(j, n))' => Ended(j, n) /\ inbox'[j] = inbox[j]
          BY <1>7, <3>2, <4>1 DEF Moved, Tells
      <4> QED BY <1>2, <4>2, <4>3 DEF CreatedOnes
    <3> QED BY <3>1, <3>2
  <2>3. \A j, n : (Ended(j, n))' => inbox'[j].num = 0
      BY <2>2 DEF Tells
  <2>4. \A n \in Terminals \ DOMAIN created : printed'[n] = 0
      BY <1>2, <1>5, <2>1 DEF CreatedOnes
  <2> QED BY <1>1, <1>2, <2>2, <2>3, <2>4 DEF CreatedOnes
<1>16. ComesUp'
    BY <1>1, <1>2, <1>7, ComesUpStays
<1> QED BY <1>11, <1>12, <1>13, <1>14, <1>15, <1>16 DEF ShownInv, Told
LEMMA HungAnswerKept ==
    ASSUME MailOK, CreatedOnes, NEW i \in DOMAIN asks, asks[i].of \notin running', asks' = RemoveAt(asks, i)
    PROVE  AsksKept
<1>1. ToSet(asks) = ToSet(asks') \cup {asks[i]}
    BY RemoveSet DEF MailOK
<1> QED BY <1>1 DEF AsksKept, CreatedOnes

\* A terminal ends and says so.
LEMMA EndShown ==
    ASSUME MailOK, MailOK', MainTypes, ShownInv, NEW t \in Terminals, t \in running, running' = running \ {t},
           NEW notes \in Seq(Notes), inbox' = inbox \o notes, 1 \in DOMAIN notes, notes[1] = Exit(t),
           \A l \in DOMAIN notes : l # 1 => Mute(notes[l]), AsksKept,
           UNCHANGED <<up, made, status, erred, created, printed, list, visible, log, last, view, ignored>>
    PROVE  ShownInv'
<1>1. Exit(t).kind = "exit" /\ Exit(t).of = t /\ Exit(t).num = 0
    BY DEF Exit, Note
<1>2. ViewTypes /\ CreatedOnes /\ ComesUp /\ t \in DOMAIN created
    BY DEF ShownInv, CreatedOnes
<1>3. \A l \in DOMAIN notes : Level(notes[l]) /\ \A n : n # t \/ l # 1 => Foreign(notes[l], n)
  <2> SUFFICES ASSUME NEW l \in DOMAIN notes PROVE Level(notes[l]) /\ \A n : n # t \/ l # 1 => Foreign(notes[l], n)
      OBVIOUS
  <2>1. CASE l = 1
      BY <1>1, <2>1 DEF Level, Foreign
  <2>2. CASE l # 1
      BY <2>2, MuteIs
  <2> QED BY <2>1, <2>2
<1>4. TurnsMoved(0) /\ \A n : n # t => Moved(n, 0)
  <2>1. \A m \in ToSet(notes) : Level(m) /\ \A n : n # t => Foreign(m, n)
      BY <1>3 DEF ToSet
  <2> QED BY <2>1, SentMoves
<1>5. PICK p : EndComes(t, p)
    BY <1>1, <1>3, SentEnd
<1>6. ASSUME NEW n \in Terminals PROVE Told(n)' /\ ComesIn(n)' /\ PaneShows(n)'
  <2>1. LeftAlone(n) /\ PaneShows(n)'
      BY TerminalHas, PaneStays DEF LeftAlone
  <2>2. Told(n)'
    <3>1. CASE n = t
        BY <1>5, <2>1, <3>1, TerminalHas, EndingTerminal
    <3>2. CASE n # t
        BY <1>4, <2>1, <3>2, TerminalHas, OtherTerminal
    <3> QED BY <3>1, <3>2
  <2>3. ComesIn(n)'
    <3>1. CASE n = t
        BY <3>1 DEF ComesIn
    <3>2. CASE n # t
      <4>1. BornMoved(n, 0)
          BY <1>4, <3>2 DEF BornMoved, Moved
      <4> QED BY <1>4, <4>1, TerminalHas, ComesInStays DEF AsksKept
    <3> QED BY <3>1, <3>2
  <2> QED BY <2>1, <2>2, <2>3
<1>7. ViewTypes'
    BY <1>2 DEF ViewTypes
<1>8. ComesUp'
    BY <1>2, <1>4, ComesUpStays
<1>9. CreatedOnes'
  <2>1. ASSUME NEW j, NEW n, (Born(j, n))' \/ (Tells(j, n))'
        PROVE  n \in DOMAIN created /\ ((Ended(j, n))' => inbox'[j].num = 0)
    <3>0. j \in Int /\ j + 0 = j
        BY <2>1, InNextInbox
    <3>1. CASE n = t
      <4>1. (Ended(j, n))' => j = p \/ (Ended(j, n) /\ inbox'[j] = inbox[j])
          BY <1>5, <3>0, <3>1 DEF EndComes, Tells
      <4> QED BY <1>2, <1>5, <3>1, <4>1 DEF CreatedOnes, EndComes
    <3>2. CASE n # t
      <4>1. Born(j, n) \/ Tells(j, n)
          BY <1>4, <2>1, <3>0, <3>2 DEF Moved, Tells
      <4>2. (Ended(j, n))' => Ended(j, n) /\ inbox'[j] = inbox[j]
          BY <1>4, <3>0, <3>2 DEF Moved, Tells
      <4> QED BY <1>2, <4>1, <4>2 DEF CreatedOnes
    <3> QED BY <3>1, <3>2
  <2>2. \A j, n : (Ended(j, n))' => inbox'[j].num = 0
      BY <2>1 DEF Tells
  <2> QED BY <1>2, <2>1, <2>2 DEF CreatedOnes, AsksKept
<1> QED BY <1>6, <1>7, <1>8, <1>9 DEF ShownInv, Told

LEMMA ExitShown ==
    ASSUME MailOK, MailOK', MainTypes, ShownInv, NEW t \in Terminals, TerminalExits(t)
    PROVE  ShownInv'
<1>1. /\ t \in running /\ running' = running \ {t} /\ inbox' = Append(inbox, Exit(t)) /\ asks' = asks
      /\ UNCHANGED <<up, made, status, erred, created, printed, list, visible, log, last, view, ignored>>
      /\ inbox \in Seq(Notes)
    BY DEF TerminalExits, mainVars, appVars, panelVars, MailOK
<1>2. Exit(t) \in Notes
  <2>1. t \in Nat
      BY DEF Terminals
  <2> QED BY <2>1, NewNote DEF Exit, OtherKinds
<1>3. /\ <<Exit(t)>> \in Seq(Notes) /\ inbox' = inbox \o <<Exit(t)>>
      /\ DOMAIN <<Exit(t)>> = {1} /\ <<Exit(t)>>[1] = Exit(t)
    BY <1>1, <1>2
<1>4. AsksKept
    BY <1>1 DEF AsksKept, ShownInv, CreatedOnes
<1> QED BY <1>1, <1>3, <1>4, EndShown

LEMMA HangUpShown ==
    ASSUME MailOK, MailOK', MainTypes, ShownInv, NEW i \in DOMAIN asks, HangUp(i)
    PROVE  ShownInv'
<1>1. /\ asks \in Seq(Notes) /\ inbox \in Seq(Notes) /\ asks[i].kind = "hang" /\ asks' = RemoveAt(asks, i)
      /\ UNCHANGED <<up, made, status, erred, created, printed, list, visible, log, last, view, ignored>>
      /\ running' = running \ {asks[i].of}
    BY DEF HangUp, Asked, Settle, mainVars, appVars, panelVars, MailOK
<1>2. asks[i] \in Notes /\ Mute(asks[i])
    BY <1>1 DEF Mute
<1>3. AsksKept
    BY <1>1, HungAnswerKept DEF ShownInv
<1>4. CASE asks[i].of \in running
  <2>0. PICK t : t = asks[i].of
      OBVIOUS
  <2>1. t \in Nat /\ t \in Terminals
    <3>1. t \in DOMAIN created /\ created \in Seq(Nat) /\ Len(created) <= MaxTerminals /\ MaxTerminals \in Nat
        BY <1>4, <2>0, ViewsAssumption DEF ShownInv, CreatedOnes, MainTypes
    <3> QED BY <3>1 DEF Terminals
  <2>2. inbox' = inbox \o <<Exit(t), asks[i]>>
      BY <1>4, <2>0 DEF HangUp, Settle
  <2>3. Exit(t) \in Notes
      BY <2>1, NewNote DEF Exit, OtherKinds
  <2> DEFINE notes == <<Exit(t), asks[i]>>
  <2>4. /\ notes \in Seq(Notes) /\ DOMAIN notes = {1, 2} /\ notes[1] = Exit(t) /\ notes[2] = asks[i]
    <3>1. 1..2 = {1, 2}
        OBVIOUS
    <3> QED BY <1>2, <2>3, <3>1
  <2> HIDE DEF notes
  <2>5. inbox' = inbox \o notes /\ t \in running /\ running' = running \ {t}
      BY <1>1, <1>4, <2>0, <2>2 DEF notes
  <2>6. 1 \in DOMAIN notes /\ \A l \in DOMAIN notes : l # 1 => Mute(notes[l])
      BY <1>2, <2>4
  <2> QED BY <1>1, <1>3, <2>1, <2>4, <2>5, <2>6, EndShown
<1>5. CASE asks[i].of \notin running
  <2>1. inbox' = inbox \o <<asks[i]>> /\ running' = running
      BY <1>1, <1>5 DEF HangUp, Settle
  <2>2. <<asks[i]>> \in Seq(Notes) /\ \A x \in ToSet(<<asks[i]>>) : Mute(x)
      BY <1>2, OneNote
  <2>3. BoxKept(0)
      BY <2>1, <2>2, SentKept
  <2>4. UNCHANGED <<up, made, status, erred, viewVars>>
      BY <1>1, <2>1 DEF viewVars
  <2> QED BY <1>3, <2>3, <2>4, QuietStep
<1> QED BY <1>4, <1>5

-----------------------------------------------------------------------------
(* The window hears of terminals.                                           *)

LEMMA HeardShown ==
    ASSUME MailOK, MailOK', MainTypes, ShownInv, OnTerminal
    PROVE  ShownInv'
<1> DEFINE m == Head(inbox)
           c == [Note("hang") EXCEPT !.of = m.of]
           next == IF m.to = "split" THEN Append(visible, m.of) ELSE <<m.of>>
<1>0. asks \in Seq(Notes) /\ inbox \in Seq(Notes)
    BY DEF MailOK
<1>1. /\ inbox # <<>> /\ inbox' = Tail(inbox) /\ m.kind = "terminal"
      /\ UNCHANGED <<up, made, status, erred, running, created, printed>>
      /\ \/ ~m.ok /\ UNCHANGED <<asks, list, visible, log, last, view, ignored>>
         \/ /\ m.ok /\ ignored' = ignored \cup {m.of} /\ Ask(c)
            /\ UNCHANGED <<list, visible, log, last, view>>
         \/ /\ m.ok /\ status.conn = m.conn /\ list' = Append(list, m.of) /\ visible' = next /\ Panes(next, log)
            /\ UNCHANGED <<asks, log, last, ignored>>
    BY DEF OnTerminal, Heard, mainVars, appVars, panelVars, Keeps
<1>2. ViewTypes /\ CreatedOnes /\ ComesUp
    BY DEF ShownInv
<1>3. /\ Len(inbox) \in Nat \ {0} /\ DOMAIN inbox = 1..Len(inbox) /\ m = inbox[1] /\ m \in Notes
    BY <1>1, BoxShrinks
<1> HIDE DEF m, c, next
<1>4. TurnsMoved(1) /\ \A n : n # m.of \/ ~m.ok => Moved(n, 1)
    BY <1>1, TakenMoves DEF Level, Foreign, m
<1>5. CASE ~m.ok /\ UNCHANGED <<asks, list, visible, log, last, view, ignored>>
  <2>1. BoxKept(1)
      BY <1>4, <1>5 DEF BoxKept
  <2>2. AsksKept
      BY <1>2, <1>5 DEF AsksKept, CreatedOnes
  <2>3. UNCHANGED <<up, made, status, erred, viewVars>>
      BY <1>1, <1>5 DEF viewVars
  <2> QED BY <2>1, <2>2, <2>3, QuietStep
<1>6. CASE m.ok
  <2>0. PICK t : t = m.of
      OBVIOUS
  <2>1. Born(1, t)
      BY <1>1, <1>3, <1>6, <2>0 DEF Born
  <2>2. t \in DOMAIN created /\ t \in Nat /\ t \in Terminals
    <3>1. t \in DOMAIN created /\ created \in Seq(Nat) /\ Len(created) <= MaxTerminals /\ MaxTerminals \in Nat
        BY <1>2, <2>1, ViewsAssumption DEF CreatedOnes, MainTypes
    <3> QED BY <3>1 DEF Terminals
  <2>3. Told(t) /\ ComesIn(t) /\ PaneShows(t) /\ last[t] \in Nat /\ printed[t] \in Nat
      BY <2>2, TerminalHas
  <2>4. /\ t \notin ToSet(list) /\ t \notin ignored /\ last[t] = 0 /\ log[t] = <<>>
        /\ \A j : Born(j, t) => j = 1
      BY <2>1, <2>3 DEF Told, BornFirst
  <2>5. /\ DOMAIN inbox' = 1..(Len(inbox) - 1) /\ \A j \in 1..(Len(inbox) - 1) : inbox'[j] = inbox[j + 1]
      BY <1>1, BoxShrinks
  <2>6. ASSUME NEW j
        PROVE  /\ ~(Born(j, t))'
               /\ (Tells(j, t))' => j \in Int /\ Tells(j + 1, t) /\ inbox'[j] = inbox[j + 1]
               /\ (Chunk(j, t))' => Chunk(j + 1, t)
               /\ (Ended(j, t))' => Ended(j + 1, t)
    <3>1. CASE j \in DOMAIN inbox'
      <4>1. j \in Int /\ j + 1 \in DOMAIN inbox /\ j + 1 # 1 /\ inbox'[j] = inbox[j + 1]
          BY <1>3, <2>5, <3>1
      <4> QED BY <2>4, <4>1 DEF Born, Chunk, Ended, Tells
    <3>2. CASE j \notin DOMAIN inbox'
        BY <3>2 DEF Born, Chunk, Ended, Tells
    <3> QED BY <3>1, <3>2
  <2>7. ASSUME NEW j, Tells(j, t) PROVE j - 1 \in Int /\ (j - 1) + 1 = j /\ inbox'[j - 1] = inbox[j]
                                        /\ (Chunk(j, t) => (Chunk(j - 1, t))')
    <3>1. j \in 1..Len(inbox) /\ j # 1
        BY <1>3, <2>3, <2>1, <2>7, InInbox DEF Told, BornFirst
    <3>2. j - 1 \in 1..(Len(inbox) - 1) /\ (j - 1) + 1 = j
        BY <1>3, <3>1
    <3>3. inbox'[j - 1] = inbox[j] /\ j - 1 \in DOMAIN inbox'
        BY <2>5, <3>2
    <3> QED BY <3>2, <3>3 DEF Chunk
  <2>8. EndsLast(t)'
    <3> SUFFICES ASSUME NEW k, (Ended(k, t))', NEW j PROVE t \notin running' /\ ((Tells(j, t))' => j <= k)
        BY DEF EndsLast
    <3>1. k \in Int /\ Ended(k + 1, t)
        BY <2>6 DEF Tells
    <3>2. t \notin running /\ \A j1 : Tells(j1, t) => j1 <= k + 1
        BY <2>3, <3>1 DEF Told, EndsLast
    <3>3. ASSUME (Tells(j, t))' PROVE j <= k
      <4>1. j \in Int /\ j + 1 <= k + 1
          BY <2>6, <3>2, <3>3
      <4> QED BY <3>1, <4>1
    <3> QED BY <1>1, <3>2, <3>3
  <2>9. BornFirst(t)'
      BY <2>6 DEF BornFirst
  <2>10. ASSUME NEW j, NEW n, (Born(j, n))' \/ (Tells(j, n))'
         PROVE  n \in DOMAIN created /\ ((Ended(j, n))' => inbox'[j].num = 0)
    <3>1. CASE n = t
      <4>1. (Ended(j, n))' => Ended(j + 1, n) /\ inbox'[j] = inbox[j + 1]
          BY <2>6, <3>1 DEF Tells
      <4> QED BY <1>2, <2>2, <3>1, <4>1 DEF CreatedOnes
    <3>2. CASE n # t
      <4>1. j \in Int
          BY <2>10, InNextInbox
      <4>2. Born(j + 1, n) \/ Tells(j + 1, n)
          BY <1>4, <2>0, <2>10, <3>2, <4>1 DEF Moved, Tells
      <4>3. (Ended(j, n))' => Ended(j + 1, n) /\ inbox'[j] = inbox[j + 1]
          BY <1>4, <2>0, <3>2, <4>1 DEF Moved, Tells
      <4> QED BY <1>2, <4>2, <4>3 DEF CreatedOnes
    <3> QED BY <3>1, <3>2
  <2>11. \A j, n : (Ended(j, n))' => inbox'[j].num = 0
      BY <2>10 DEF Tells
  <2>12. ComesUp'
      BY <1>1, <1>2, <1>4, ComesUpStays
  <2>13. CASE /\ ignored' = ignored \cup {t} /\ Ask(c) /\ UNCHANGED <<list, visible, log, last, view>>
    <3>1. c \in Notes /\ c.kind = "hang" /\ c.of = t
        BY <2>0, <2>2, NewNote DEF OtherKinds, Note, c
    <3>2. AsksKept /\ c \in ToSet(asks')
      <4>1. ToSet(asks') = ToSet(asks) \cup {c}
          BY <1>0, <2>13, <3>1, AppendSet DEF Ask
      <4> QED BY <1>2, <2>13, <3>1, <4>1, AskKept
    <3>3. ViewTypes'
        BY <1>2, <2>13 DEF ViewTypes
    <3>4. CreatedOnes'
      <4>1. ignored' \subseteq DOMAIN created
          BY <1>2, <2>2, <2>13 DEF CreatedOnes
      <4> QED BY <1>1, <1>2, <2>10, <2>11, <2>13, <3>2, <4>1 DEF CreatedOnes, AsksKept
    <3>5. ASSUME NEW n \in Terminals PROVE Told(n)' /\ ComesIn(n)' /\ PaneShows(n)'
      <4>0. PaneShows(n)'
          BY <2>13, TerminalHas, PaneStays
      <4>1. CASE n = t
        <5>1. Streams(t)' /\ Logs(t)'
            BY <2>4, <2>6, <2>13 DEF Streams, Logs
        <5>2. ComesIn(t)'
            BY <3>1, <3>2 DEF ComesIn
        <5> QED BY <2>8, <2>9, <4>0, <4>1, <5>1, <5>2 DEF Told
      <4>2. CASE n # t
        <5>1. LeftAlone(n) /\ Moved(n, 1) /\ BornMoved(n, 1)
            BY <1>1, <1>4, <2>0, <2>13, <4>2 DEF LeftAlone, Moved, BornMoved
        <5>2. ComesIn(n)'
            BY <1>1, <1>4, <2>13, <3>2, <5>1, TerminalHas, ComesInStays DEF AsksKept
        <5> QED BY <4>0, <5>1, <5>2, TerminalHas, OtherTerminal
      <4> QED BY <4>1, <4>2
    <3> QED BY <2>12, <3>3, <3>4, <3>5 DEF ShownInv, Told
  <2>14. CASE /\ status.conn = m.conn /\ list' = Append(list, t) /\ visible' = next /\ Panes(next, log)
              /\ UNCHANGED <<asks, log, last, ignored>>
    <3>1. /\ list' \in Seq(Terminals) /\ ToSet(list)' = ToSet(list) \cup {t}
        BY <1>2, <2>2, <2>14, AppendSet DEF ViewTypes
    <3>2. next \in Seq(Terminals) /\ ToSet(next) \subseteq ToSet(list) \cup {t}
      <4>1. Append(visible, t) \in Seq(Terminals) /\ ToSet(Append(visible, t)) = ToSet(visible) \cup {t}
          BY <1>2, <2>2, AppendSet DEF ViewTypes
      <4>2. <<t>> \in Seq(Terminals) /\ ToSet(<<t>>) = {t}
          BY <2>2 DEF ToSet
      <4> QED BY <1>2, <2>0, <4>1, <4>2 DEF next, ViewTypes
    <3>3. LogHas(t, 0)
      <4>1. Len(<<>>) = 0 /\ MaxReplay \in Nat \ {0} /\ \A k \in 1..(0 - 0) : FALSE
          BY ViewsAssumption
      <4> QED BY <2>4, <4>1 DEF LogHas
    <3>4. /\ view' \in [Terminals -> Pane]
          /\ \A n \in Terminals : IF view'[n].on THEN n \in ToSet(next) ELSE view'[n].waiting = <<>>
          /\ \A n \in Terminals : PaneShows(n)'
      <4>1. \A n \in Terminals : n \in ToSet(next) => (LogHas(n, 0) \/ LogHas(n, 1)) /\ PaneShows(n) /\ last'[n] = last[n]
          BY <2>14, <3>2, <3>3, TerminalHas DEF Told, Logs
      <4> QED BY <1>2, <2>14, <4>1, PanesShow
    <3>5. ViewTypes'
        BY <1>2, <2>14, <3>1, <3>2, <3>4 DEF ViewTypes
    <3>6. CreatedOnes' /\ AsksKept
      <4>1. ToSet(list)' \subseteq DOMAIN created
          BY <1>2, <2>2, <3>1 DEF CreatedOnes
      <4> QED BY <1>1, <1>2, <2>10, <2>11, <2>14, <4>1 DEF CreatedOnes, AsksKept
    <3>7. ASSUME NEW n \in Terminals PROVE Told(n)' /\ ComesIn(n)'
      <4>1. CASE n = t
        <5>1. Streams(t)'
          <6>1. /\ last[t] <= printed[t]
                /\ \A i : Chunk(i, t) => inbox[i].num \in (last[t] + 1)..printed[t]
                /\ \A i, j : Chunk(i, t) /\ Chunk(j, t) /\ i < j => inbox[i].num < inbox[j].num
                /\ \A v \in (last[t] + 1)..printed[t] : \E i : Chunk(i, t) /\ inbox[i].num = v
              BY <2>1, <2>3 DEF Told, Streams
          <6>2. \A i : (Chunk(i, t))' => i \in Int /\ Chunk(i + 1, t) /\ inbox'[i].num = inbox[i + 1].num
              BY <2>6 DEF Tells
          <6>3. \A i : Chunk(i, t) => (Chunk(i - 1, t))' /\ inbox'[i - 1].num = inbox[i].num
              BY <2>7 DEF Tells
          <6>4. ASSUME NEW i, NEW j, (Chunk(i, t))', (Chunk(j, t))', i < j PROVE inbox'[i].num < inbox'[j].num
            <7>1. i + 1 < j + 1
                BY <6>2, <6>4
            <7> QED BY <6>1, <6>2, <6>4, <7>1
          <6>5. ASSUME NEW v \in (last'[t] + 1)..printed'[t] PROVE \E i : (Chunk(i, t))' /\ inbox'[i].num = v
            <7>1. PICK i : Chunk(i, t) /\ inbox[i].num = v
                BY <1>1, <2>14, <6>1
            <7> QED BY <6>3, <7>1
          <6>6. \A i : (Chunk(i, t))' => inbox'[i].num \in (last'[t] + 1)..printed'[t]
              BY <1>1, <2>14, <6>1, <6>2
          <6> QED BY <1>1, <2>14, <6>1, <6>4, <6>5, <6>6 DEF Streams
        <5>2. Logs(t)'
          <6>1. LogHas(t, 0)'
            <7>1. log'[t] = <<>> /\ last'[t] = 0
                BY <2>4, <2>14
            <7>2. Len(<<>>) = 0 /\ MaxReplay \in Nat \ {0} /\ \A k \in 1..(0 - 0) : FALSE
                BY ViewsAssumption
            <7> QED BY <7>1, <7>2 DEF LogHas
          <6> QED BY <2>4, <2>14, <6>1 DEF Logs
        <5>3. ComesIn(t)'
          <6> SUFFICES ASSUME t \in running, created[t] = up, erred # up
                       PROVE  \/ t \in ToSet(list)' /\ Here'
                              \/ \E x \in ToSet(asks') : x.kind = "hang" /\ x.of = t
              BY <1>1 DEF ComesIn
          <6>1. \/ \E i : Born(i, t) /\ (Here \/ \E k : k < i /\ Comes(k))
                \/ \E x \in ToSet(asks) : x.kind = "hang" /\ x.of = t
              BY <2>3, <2>4 DEF ComesIn
          <6>2. ASSUME \E i : Born(i, t) /\ (Here \/ \E k : k < i /\ Comes(k)) PROVE Here'
            <7>1. ASSUME NEW k, k < 1, Comes(k) PROVE FALSE
              <8>1. k \in Int /\ k >= 1
                  BY <7>1, InInbox DEF Comes, Back
              <8> QED BY <7>1, <8>1
            <7>2. Here
                BY <2>4, <6>2, <7>1
            <7> QED BY <1>1, <1>4, <7>2, MovedTurns, HereStays
          <6> QED BY <2>14, <3>1, <6>1, <6>2
        <5> QED BY <2>8, <2>9, <4>1, <5>1, <5>2, <5>3 DEF Told
      <4>2. CASE n # t
        <5>1. LeftAlone(n) /\ Moved(n, 1) /\ BornMoved(n, 1)
            BY <1>1, <1>4, <2>0, <2>14, <3>1, <4>2 DEF LeftAlone, Moved, BornMoved
        <5>2. ComesIn(n)'
            BY <1>1, <1>4, <2>14, <3>6, <5>1, TerminalHas, ComesInStays DEF AsksKept, LeftAlone
        <5> QED BY <5>1, <5>2, TerminalHas, OtherTerminal
      <4> QED BY <4>1, <4>2
    <3> QED BY <2>12, <3>4, <3>5, <3>6, <3>7 DEF ShownInv, Told
  <2> QED BY <1>1, <1>6, <2>0, <2>13, <2>14
<1> QED BY <1>1, <1>5, <1>6

-----------------------------------------------------------------------------
(* The panel takes what a terminal says.                                    *)

\* What a terminal says is taken from the front: the rest moves up, and it was announced before.
LEMMA TakenTells ==
    ASSUME MailOK, MailOK', inbox # <<>>, inbox' = Tail(inbox), NEW t, Told(t), Tells(1, t), t \in running' => t \in running
    PROVE  /\ \A j : ~Born(j, t) /\ ~(Born(j, t))'
           /\ \A j : (Tells(j, t))' => j \in Int /\ j >= 1 /\ Tells(j + 1, t) /\ inbox'[j] = inbox[j + 1]
           /\ \A j : ((Chunk(j, t))' => Chunk(j + 1, t)) /\ ((Ended(j, t))' => Ended(j + 1, t))
           /\ \A j : Chunk(j, t) /\ j # 1 => j \in Int /\ 1 < j /\ (Chunk(j - 1, t))' /\ inbox'[j - 1] = inbox[j]
           /\ EndsLast(t)'
<1>1. /\ Len(inbox) \in Nat \ {0} /\ DOMAIN inbox = 1..Len(inbox) /\ DOMAIN inbox' = 1..(Len(inbox) - 1)
      /\ \A j \in 1..(Len(inbox) - 1) : inbox'[j] = inbox[j + 1]
    BY BoxShrinks
<1>2. \A j : ~Born(j, t)
  <2> SUFFICES ASSUME NEW j, Born(j, t) PROVE FALSE
      OBVIOUS
  <2>1. j < 1 /\ j \in Int /\ j >= 1
      BY InInbox DEF Told, BornFirst
  <2> QED BY <2>1
<1>3. ASSUME NEW j
      PROVE  /\ ~(Born(j, t))'
             /\ (Tells(j, t))' => j \in Int /\ j >= 1 /\ Tells(j + 1, t) /\ inbox'[j] = inbox[j + 1]
             /\ (Chunk(j, t))' => Chunk(j + 1, t)
             /\ (Ended(j, t))' => Ended(j + 1, t)
  <2>1. CASE j \in DOMAIN inbox'
    <3>1. j \in Int /\ j >= 1 /\ j + 1 \in DOMAIN inbox /\ inbox'[j] = inbox[j + 1]
        BY <1>1, <2>1
    <3> QED BY <1>2, <3>1 DEF Born, Chunk, Ended, Tells
  <2>2. CASE j \notin DOMAIN inbox'
      BY <2>2 DEF Born, Chunk, Ended, Tells
  <2> QED BY <2>1, <2>2
<1>4. ASSUME NEW j, Chunk(j, t), j # 1 PROVE j \in Int /\ 1 < j /\ (Chunk(j - 1, t))' /\ inbox'[j - 1] = inbox[j]
  <2>1. j \in 1..Len(inbox)
      BY <1>1, <1>4 DEF Chunk
  <2>2. j \in Int /\ 1 < j /\ j - 1 \in 1..(Len(inbox) - 1) /\ (j - 1) + 1 = j
      BY <1>1, <1>4, <2>1
  <2>3. inbox'[j - 1] = inbox[j] /\ j - 1 \in DOMAIN inbox'
      BY <1>1, <2>2
  <2> QED BY <1>4, <2>2, <2>3 DEF Chunk
<1>5. EndsLast(t)'
  <2> SUFFICES ASSUME NEW k, (Ended(k, t))', NEW j PROVE t \notin running' /\ ((Tells(j, t))' => j <= k)
      BY DEF EndsLast
  <2>1. k \in Int /\ Ended(k + 1, t)
      BY <1>3 DEF Tells
  <2>2. t \notin running /\ \A j1 : Tells(j1, t) => j1 <= k + 1
      BY <2>1 DEF Told, EndsLast
  <2>3. ASSUME (Tells(j, t))' PROVE j <= k
    <3>1. j \in Int /\ j + 1 <= k + 1
        BY <1>3, <2>2, <2>3
    <3> QED BY <2>1, <3>1
  <2> QED BY <2>2, <2>3
<1> QED BY <1>2, <1>3, <1>4, <1>5

\* The log after one more event: the last of the old ones, and that.
LEMMA LoggedIs ==
    ASSUME NEW events \in Seq(Nat), NEW l \in Nat, NEW e \in Nat,
           Len(events) = IF l < MaxReplay THEN l ELSE MaxReplay,
           \A k \in 1..Len(events) : events[k] = l - Len(events) + k
    PROVE  LET all == Logged(events, e)
               len == Len(all) IN
           /\ all \in Seq(Nat) /\ len \in Nat /\ len = IF l + 1 < MaxReplay THEN l + 1 ELSE MaxReplay
           /\ \A k \in 1..(len - 1) : all[k] = l - (len - 1) + k
           /\ all[len] = e
<1> DEFINE all == Append(events, e)
           n == Len(events)
<1>1. /\ all \in Seq(Nat) /\ Len(all) = n + 1 /\ n \in Nat /\ all[n + 1] = e
      /\ \A k \in 1..n : all[k] = l - n + k
      /\ MaxReplay \in Nat \ {0} /\ n <= MaxReplay
    BY ViewsAssumption
<1>2. CASE Len(all) > MaxReplay
  <2>1. Logged(events, e) = SubSeq(all, Len(all) - MaxReplay + 1, Len(all))
      BY <1>2 DEF Logged
  <2>2. n = MaxReplay /\ Len(all) - MaxReplay + 1 = 2 /\ ~(l < MaxReplay)
      BY <1>1, <1>2
  <2> HIDE DEF all
  <2>3. /\ SubSeq(all, 2, n + 1) \in Seq(Nat) /\ Len(SubSeq(all, 2, n + 1)) = n
        /\ \A k \in 1..n : SubSeq(all, 2, n + 1)[k] = all[k + 1]
      BY <1>1
  <2>4. Logged(events, e) = SubSeq(all, 2, n + 1)
      BY <1>1, <2>1, <2>2
  <2>5. \A k \in 1..(n - 1) : all[k + 1] = l - (n - 1) + k
    <3> SUFFICES ASSUME NEW k \in 1..(n - 1) PROVE all[k + 1] = l - (n - 1) + k
        OBVIOUS
    <3>1. k + 1 \in 1..n /\ l - n + (k + 1) = l - (n - 1) + k
        BY <1>1
    <3> QED BY <1>1, <3>1
  <2>6. n \in 1..n /\ n = IF l + 1 < MaxReplay THEN l + 1 ELSE MaxReplay
      BY <1>1, <2>2
  <2>7. \A k \in 1..(n - 1) : k \in 1..n
      BY <1>1
  <2> HIDE DEF n
  <2> QED BY <1>1, <2>3, <2>4, <2>5, <2>6, <2>7
<1>3. CASE ~(Len(all) > MaxReplay)
  <2>1. Logged(events, e) = all
      BY <1>3 DEF Logged
  <2>2. n = l /\ n + 1 = IF l + 1 < MaxReplay THEN l + 1 ELSE MaxReplay
      BY <1>1, <1>3
  <2> HIDE DEF all
  <2>3. (n + 1) - 1 = n
      BY <1>1
  <2> HIDE DEF n
  <2> QED BY <1>1, <2>1, <2>2, <2>3
<1> QED BY <1>2, <1>3

\* Output that continues what a pane has.
LEMMA ShowsMore ==
    ASSUME NEW s \in Seq(Nat), NEW w \in Seq(Nat), NEW l \in Nat, Shows(s \o w, l)
    PROVE  Shows(s \o Append(w, l + 1), l + 1)
<1> DEFINE has == s \o w
<1>1. has \in Seq(Nat) /\ s \o Append(w, l + 1) = Append(has, l + 1)
    OBVIOUS
<1>2. Shows(has, l)
    OBVIOUS
<1> HIDE DEF has
<1> DEFINE more == Append(has, l + 1)
<1>3. /\ Len(has) \in Nat /\ Len(more) = Len(has) + 1 /\ DOMAIN has = 1..Len(has) /\ DOMAIN more = 1..(Len(has) + 1)
      /\ \A k \in 1..Len(has) : more[k] = has[k]
      /\ more[Len(has) + 1] = l + 1
    BY <1>1
<1> HIDE DEF more
<1>4. \A k \in DOMAIN more : more[k] = (l + 1) - Len(more) + k
  <2> SUFFICES ASSUME NEW k \in 1..(Len(has) + 1) PROVE more[k] = (l + 1) - (Len(has) + 1) + k
      BY <1>3
  <2>1. CASE k \in 1..Len(has)
    <3>1. more[k] = l - Len(has) + k
        BY <1>2, <1>3, <2>1 DEF Shows
    <3> QED BY <1>3, <2>1, <3>1
  <2>2. CASE k = Len(has) + 1
      BY <1>3, <2>2
  <2> QED BY <1>3, <2>1, <2>2
<1>5. Len(more) >= IF l + 1 < MaxReplay THEN l + 1 ELSE MaxReplay - 1
  <2>1. Len(has) >= IF l < MaxReplay THEN l ELSE MaxReplay - 1
      BY <1>2 DEF Shows
  <2> QED BY <1>3, <2>1, ViewsAssumption
<1>6. Shows(more, l + 1)
    BY <1>4, <1>5 DEF Shows
<1> QED BY <1>1, <1>6 DEF more

LEMMA EventShown ==
    ASSUME MailOK, MailOK', MainTypes, ShownInv, OnTerminalEvent
    PROVE  ShownInv'
<1>0. ViewTypes /\ CreatedOnes /\ ComesUp
    BY DEF ShownInv
<1>1. /\ inbox # <<>> /\ inbox' = Tail(inbox) /\ Head(inbox).kind \in {"data", "exit"}
      /\ UNCHANGED <<asks, up, made, status, erred, running, created, printed, list, visible, ignored>>
    BY DEF OnTerminalEvent, Heard, mainVars, appVars
<1>2. /\ Len(inbox) \in Nat \ {0} /\ DOMAIN inbox = 1..Len(inbox) /\ Head(inbox) = inbox[1] /\ inbox[1] \in Notes
      /\ 1 \in DOMAIN inbox /\ inbox[1].num \in Nat
    BY <1>1, BoxShrinks, NoteOf
<1>3. PICK t : t = inbox[1].of
    OBVIOUS
<1>4. PICK e : e = inbox[1].num
    OBVIOUS
<1>5. Tells(1, t) /\ (Chunk(1, t) <=> inbox[1].kind = "data") /\ (Ended(1, t) <=> inbox[1].kind = "exit")
    BY <1>1, <1>2, <1>3 DEF Tells, Chunk, Ended
<1>6. t \in DOMAIN created /\ t \in Terminals
  <2>1. t \in DOMAIN created /\ created \in Seq(Nat) /\ Len(created) <= MaxTerminals /\ MaxTerminals \in Nat
      BY <1>0, <1>5, ViewsAssumption DEF CreatedOnes, MainTypes
  <2> QED BY <2>1 DEF Terminals
<1>7. Told(t) /\ ComesIn(t) /\ PaneShows(t) /\ last[t] \in Nat /\ printed[t] \in Nat
    BY <1>6, TerminalHas
<1>8. /\ \A j : ~Born(j, t) /\ ~(Born(j, t))'
      /\ \A j : (Tells(j, t))' => j \in Int /\ j >= 1 /\ Tells(j + 1, t) /\ inbox'[j] = inbox[j + 1]
      /\ \A j : ((Chunk(j, t))' => Chunk(j + 1, t)) /\ ((Ended(j, t))' => Ended(j + 1, t))
      /\ \A j : Chunk(j, t) /\ j # 1 => j \in Int /\ 1 < j /\ (Chunk(j - 1, t))' /\ inbox'[j - 1] = inbox[j]
      /\ EndsLast(t)'
    BY <1>1, <1>5, <1>7, TakenTells
<1>9. TurnsMoved(1) /\ \A n : n # t => Moved(n, 1)
    BY <1>1, <1>2, <1>3, TakenMoves DEF Level, Foreign
<1>10. \/ t \in ignored /\ UNCHANGED <<log, last, view>>
       \/ /\ t \notin ignored
          /\ log' = [log EXCEPT ![t] = Logged(@, e)]
          /\ last' = [last EXCEPT ![t] = IF inbox[1].kind = "data" THEN e ELSE @]
          /\ view' = IF inbox[1].kind = "data" /\ view[t].on THEN [view EXCEPT ![t].waiting = Append(@, e)] ELSE view
    BY <1>2, <1>3, <1>4 DEF OnTerminalEvent
<1>11. \A n \in Terminals : n # t => log'[n] = log[n] /\ last'[n] = last[n] /\ view'[n] = view[n]
    BY <1>0, <1>10 DEF ViewTypes
\* What is the same for every terminal.
<1>12. AsksKept /\ ComesUp'
    BY <1>0, <1>1, <1>9, ComesUpStays DEF AsksKept, CreatedOnes
<1>13. ASSUME NEW n \in Terminals PROVE ComesIn(n)'
  <2>1. BornMoved(n, 1)
    <3>1. CASE n = t
      <4> SUFFICES ASSUME NEW i PROVE ~(Born(i, t))' /\ ~Born(i + 1, t) /\ ~Born(i, t)
          BY <3>1 DEF BornMoved
      <4> QED BY <1>8
    <3>2. CASE n # t
        BY <1>9, <3>2 DEF BornMoved, Moved
    <3> QED BY <3>1, <3>2
  <2> QED BY <1>1, <1>9, <2>1, TerminalHas, ComesInStays
<1>14. ASSUME NEW n \in Terminals, n # t PROVE Told(n)' /\ PaneShows(n)'
  <2>1. LeftAlone(n)
      BY <1>1, <1>11, <1>14 DEF LeftAlone
  <2> QED BY <1>9, <1>11, <1>14, <2>1, TerminalHas, OtherTerminal, PaneStays
<1>15. ASSUME NEW j, NEW n, (Born(j, n))' \/ (Tells(j, n))'
       PROVE  n \in DOMAIN created /\ ((Ended(j, n))' => inbox'[j].num = 0)
  <2>1. CASE n = t
    <3>1. (Ended(j, t))' => Ended(j + 1, t) /\ inbox'[j] = inbox[j + 1]
        BY <1>8 DEF Tells
    <3> QED BY <1>0, <1>6, <2>1, <3>1 DEF CreatedOnes
  <2>2. CASE n # t
    <3>1. j \in Int
        BY <1>15, InNextInbox
    <3>2. Born(j + 1, n) \/ Tells(j + 1, n)
        BY <1>9, <1>15, <2>2, <3>1 DEF Moved, Tells
    <3>3. (Ended(j, n))' => Ended(j + 1, n) /\ inbox'[j] = inbox[j + 1]
        BY <1>9, <2>2, <3>1 DEF Moved, Tells
    <3> QED BY <1>0, <3>2, <3>3 DEF CreatedOnes
  <2> QED BY <2>1, <2>2
<1>16. \A j, n : (Ended(j, n))' => inbox'[j].num = 0
    BY <1>15 DEF Tells
<1>17. CreatedOnes'
  <2>1. \A n \in Terminals \ DOMAIN created : n # t
      BY <1>6
  <2> QED BY <1>0, <1>1, <1>11, <1>12, <1>15, <1>16, <2>1 DEF CreatedOnes, AsksKept
<1>18. ViewTypes' /\ Told(t)' /\ PaneShows(t)'
  <2>0. BornFirst(t)'
      BY <1>8 DEF BornFirst
  <2>1. CASE t \in ignored /\ UNCHANGED <<log, last, view>>
    <3>1. t \notin ToSet(list)
        BY <1>7, <2>1 DEF Told, Logs
    <3>2. Streams(t)' /\ Logs(t)'
        BY <1>1, <1>8, <3>1 DEF Streams, Logs
    <3>3. ViewTypes' /\ PaneShows(t)'
        BY <1>0, <1>1, <1>7, <2>1, PaneStays DEF ViewTypes
    <3> QED BY <1>8, <2>0, <3>2, <3>3 DEF Told
  <2>2. CASE /\ t \notin ignored
             /\ log' = [log EXCEPT ![t] = Logged(@, e)]
             /\ last' = [last EXCEPT ![t] = IF inbox[1].kind = "data" THEN e ELSE @]
             /\ view' = IF inbox[1].kind = "data" /\ view[t].on THEN [view EXCEPT ![t].waiting = Append(@, e)] ELSE view
    <3>0. /\ e \in Nat /\ log[t] \in Seq(Nat) /\ log'[t] = Logged(log[t], e)
          /\ last'[t] = IF inbox[1].kind = "data" THEN e ELSE last[t]
          /\ view[t] \in Pane
        BY <1>0, <1>2, <1>4, <1>6, <2>2 DEF ViewTypes
    <3>1. ViewTypes'
      <4>1. Logged(log[t], e) \in Seq(Nat)
        <5>1. log[t] \in Seq(Nat) /\ Append(log[t], e) \in Seq(Nat) /\ MaxReplay \in Nat \ {0}
            BY <3>0, ViewsAssumption
        <5> QED BY <5>1 DEF Logged
      <4>2. log' \in [Terminals -> Seq(Nat)] /\ last' \in [Terminals -> Nat]
          BY <1>0, <1>7, <2>2, <3>0, <4>1 DEF ViewTypes
      <4>3. CASE inbox[1].kind = "data" /\ view[t].on
        <5>1. view' = [view EXCEPT ![t].waiting = Append(@, e)]
            BY <2>2, <4>3
        <5>2. /\ Append(view[t].waiting, e) \in Seq(Nat) /\ view[t].on \in BOOLEAN /\ view[t].shown \in Seq(Nat)
            BY <3>0 DEF Pane
        <5>3. view'[t] \in Pane /\ view'[t].on = view[t].on
            BY <1>0, <1>6, <3>0, <5>1, <5>2 DEF Pane, ViewTypes
        <5>4. view' \in [Terminals -> Pane]
            BY <1>0, <1>11, <5>1, <5>3 DEF ViewTypes
        <5>5. ASSUME NEW n \in Terminals PROVE IF view'[n].on THEN n \in ToSet(visible)' ELSE view'[n].waiting = <<>>
          <6>1. CASE n = t
              BY <1>0, <1>1, <4>3, <5>3, <6>1 DEF ViewTypes
          <6>2. CASE n # t
              BY <1>0, <1>1, <1>11, <6>2 DEF ViewTypes
          <6> QED BY <6>1, <6>2
        <5> QED BY <1>0, <1>1, <4>2, <5>4, <5>5 DEF ViewTypes
      <4>4. CASE ~(inbox[1].kind = "data" /\ view[t].on)
          BY <1>0, <1>1, <2>2, <4>2, <4>4 DEF ViewTypes
      <4> QED BY <4>3, <4>4
    <3>2. CASE t \notin ToSet(list)
      <4>1. Streams(t)' /\ Logs(t)'
          BY <1>1, <1>8, <3>2 DEF Streams, Logs
      <4>2. ~view[t].on
          BY <1>0, <1>6, <3>2 DEF ViewTypes
      <4>3. view' = view
          BY <2>2, <4>2
      <4>4. PaneShows(t)'
          BY <4>2, <4>3 DEF PaneShows
      <4> QED BY <1>8, <2>0, <3>1, <4>1, <4>4 DEF Told
    <3>3. CASE t \in ToSet(list)
      <4>1. LogHas(t, 0) /\ t \notin ignored
          BY <1>5, <1>7, <3>3 DEF Told, Logs, LogHas
      <4>2. PICK l : l = last[t]
          OBVIOUS
      <4>3. /\ l \in Nat /\ Len(log[t]) = IF l < MaxReplay THEN l ELSE MaxReplay
            /\ \A k \in 1..Len(log[t]) : log[t][k] = l - Len(log[t]) + k
        <5>1. Len(log[t]) \in Nat /\ l + 0 = l /\ Len(log[t]) - 0 = Len(log[t])
            BY <1>7, <3>0, <4>2
        <5> QED BY <1>7, <4>1, <4>2, <5>1 DEF LogHas
      <4>4. /\ Len(log'[t]) \in Nat /\ Len(log'[t]) = IF l + 1 < MaxReplay THEN l + 1 ELSE MaxReplay
            /\ \A k \in 1..(Len(log'[t]) - 1) : log'[t][k] = l - (Len(log'[t]) - 1) + k
            /\ log'[t][Len(log'[t])] = e
        <5>1. PICK all : all = Logged(log[t], e)
            OBVIOUS
        <5>2. /\ all \in Seq(Nat) /\ Len(all) \in Nat /\ Len(all) = IF l + 1 < MaxReplay THEN l + 1 ELSE MaxReplay
              /\ \A k \in 1..(Len(all) - 1) : all[k] = l - (Len(all) - 1) + k
              /\ all[Len(all)] = e
            BY <3>0, <4>3, <5>1, LoggedIs
        <5> QED BY <3>0, <5>1, <5>2
      <4>5. /\ l <= printed[t]
            /\ \A i : Chunk(i, t) => inbox[i].num \in (l + 1)..printed[t]
            /\ \A i, j : Chunk(i, t) /\ Chunk(j, t) /\ i < j => inbox[i].num < inbox[j].num
            /\ \A v \in (l + 1)..printed[t] : \E i : Chunk(i, t) /\ inbox[i].num = v
          BY <1>7, <3>3, <4>2 DEF Told, Streams
      <4>6. CASE inbox[1].kind = "data"
        <5>1. e = l + 1 /\ e <= printed[t]
          <6>1. e \in (l + 1)..printed[t]
              BY <1>4, <1>5, <4>5, <4>6
          <6>2. PICK i : Chunk(i, t) /\ inbox[i].num = l + 1
              BY <1>7, <4>3, <4>5, <6>1
          <6>3. CASE i = 1
              BY <1>4, <1>7, <4>3, <6>1, <6>2, <6>3
          <6>4. CASE i # 1
            <7>1. 1 < i
                BY <1>8, <6>2, <6>4
            <7>2. e < l + 1
                BY <1>4, <1>5, <4>5, <4>6, <6>2, <7>1
            <7> QED BY <1>7, <4>3, <6>1, <7>2
          <6> QED BY <6>3, <6>4
        <5>2. last'[t] = l + 1
            BY <3>0, <4>6, <5>1
        <5>3. Streams(t)'
          <6>1. ASSUME NEW i, (Chunk(i, t))' PROVE inbox'[i].num \in (l + 2)..printed[t]
            <7>1. i \in Int /\ i >= 1 /\ Chunk(i + 1, t) /\ inbox'[i] = inbox[i + 1]
                BY <1>8, <6>1 DEF Tells
            <7>2. 1 < i + 1
                BY <7>1
            <7>3. inbox[i + 1].num \in (l + 1)..printed[t] /\ e < inbox[i + 1].num
                BY <1>4, <1>5, <4>5, <4>6, <7>1, <7>2
            <7> QED BY <1>7, <4>3, <5>1, <7>1, <7>3
          <6>2. ASSUME NEW i, NEW j, (Chunk(i, t))', (Chunk(j, t))', i < j PROVE inbox'[i].num < inbox'[j].num
            <7>1. /\ i \in Int /\ Chunk(i + 1, t) /\ inbox'[i] = inbox[i + 1]
                  /\ j \in Int /\ Chunk(j + 1, t) /\ inbox'[j] = inbox[j + 1]
                BY <1>8, <6>2 DEF Tells
            <7>2. i + 1 < j + 1
                BY <6>2, <7>1
            <7> QED BY <4>5, <7>1, <7>2
          <6>3. ASSUME NEW v \in (l + 2)..printed[t] PROVE \E i : (Chunk(i, t))' /\ inbox'[i].num = v
            <7>1. v \in (l + 1)..printed[t] /\ v # e
                BY <1>7, <4>3, <5>1
            <7>2. PICK i : Chunk(i, t) /\ inbox[i].num = v
                BY <4>5, <7>1
            <7>3. i # 1
                BY <1>4, <7>1, <7>2
            <7> QED BY <1>8, <7>2, <7>3
          <6>4. (l + 1) + 1 = l + 2
              BY <4>3
          <6> QED BY <1>1, <5>1, <5>2, <6>1, <6>2, <6>3, <6>4 DEF Streams
        <5>4. LogHas(t, 0)'
          <6>1. \A k \in 1..Len(log'[t]) : log'[t][k] = (l + 1) - Len(log'[t]) + k
            <7> SUFFICES ASSUME NEW k \in 1..Len(log'[t]) PROVE log'[t][k] = (l + 1) - Len(log'[t]) + k
                OBVIOUS
            <7>1. CASE k = Len(log'[t])
                BY <4>3, <4>4, <5>1, <7>1
            <7>2. CASE k # Len(log'[t])
              <8>1. k \in 1..(Len(log'[t]) - 1)
                  BY <4>4, <7>2
              <8>2. log'[t][k] = l - (Len(log'[t]) - 1) + k
                  BY <4>4, <8>1
              <8>3. PICK c : c = Len(log'[t])
                  OBVIOUS
              <8>4. k \in Nat /\ c \in Nat /\ l \in Nat
                  BY <4>3, <4>4, <8>3
              <8>5. l - (c - 1) + k = (l + 1) - c + k
                  BY <8>4
              <8> QED BY <8>2, <8>3, <8>5
            <7> QED BY <7>1, <7>2
          <6>2. (l + 1) + 0 = l + 1 /\ Len(log'[t]) - 0 = Len(log'[t])
              BY <4>3, <4>4
          <6> QED BY <4>4, <5>2, <6>1, <6>2 DEF LogHas
        <5>5. PaneShows(t)'
          <6>1. CASE view[t].on
            <7>1. /\ view'[t].waiting = Append(view[t].waiting, e) /\ view'[t].shown = view[t].shown
              <8>1. view' = [view EXCEPT ![t].waiting = Append(@, e)]
                  BY <2>2, <4>6, <6>1
              <8> QED BY <1>0, <1>6, <3>0, <8>1 DEF ViewTypes, Pane
            <7>2. view[t].waiting \in Seq(Nat) /\ view[t].shown \in Seq(Nat)
                BY <3>0 DEF Pane
            <7>3. Shows(view[t].shown \o view[t].waiting, l)
                BY <1>7, <4>2, <6>1 DEF PaneShows
            <7>4. Shows(view[t].shown \o Append(view[t].waiting, l + 1), l + 1)
                BY <4>3, <7>2, <7>3, ShowsMore
            <7> QED BY <5>1, <5>2, <7>1, <7>4 DEF PaneShows
          <6>2. CASE ~view[t].on
            <7>1. view' = view
                BY <2>2, <6>2
            <7> QED BY <6>2, <7>1 DEF PaneShows
          <6> QED BY <6>1, <6>2
        <5> QED BY <1>1, <1>8, <2>0, <3>1, <4>1, <5>3, <5>4, <5>5 DEF Told, Logs
      <4>7. CASE inbox[1].kind = "exit"
        <5>1. Ended(1, t) /\ ~Chunk(1, t)
            BY <1>5, <4>7
        <5>2. e = 0
            BY <1>0, <1>4, <5>1 DEF CreatedOnes
        <5>3. t \notin running /\ \A j : Tells(j, t) => j <= 1
            BY <1>7, <5>1 DEF Told, EndsLast
        <5>4. \A j : ~(Tells(j, t))'
          <6> SUFFICES ASSUME NEW j, (Tells(j, t))' PROVE FALSE
              OBVIOUS
          <6>1. j \in Int /\ j >= 1 /\ j + 1 <= 1
              BY <1>8, <5>3
          <6> QED BY <6>1
        <5>5. \A j : ~Chunk(j, t)
          <6> SUFFICES ASSUME NEW j, Chunk(j, t) PROVE FALSE
              OBVIOUS
          <6>1. j # 1
              BY <5>1
          <6>2. (Tells(j - 1, t))'
              BY <1>8, <6>1 DEF Tells
          <6> QED BY <5>4, <6>2
        <5>6. last'[t] = l
            BY <3>0, <4>2, <4>7
        <5>7. Streams(t)'
            BY <1>1, <4>5, <5>4, <5>5, <5>6 DEF Streams, Tells
        <5>8. LogHas(t, 1)'
            BY <1>1, <4>4, <5>2, <5>3, <5>4, <5>6 DEF LogHas
        <5>9. PaneShows(t)'
          <6>1. view' = view
              BY <2>2, <4>7
          <6> QED BY <1>7, <4>2, <5>6, <6>1 DEF PaneShows
        <5> QED BY <1>1, <1>8, <2>0, <3>1, <4>1, <5>7, <5>8, <5>9 DEF Told, Logs
      <4> QED BY <1>1, <1>2, <4>6, <4>7
    <3> QED BY <3>2, <3>3
  <2> QED BY <1>10, <2>1, <2>2
<1>19. \A n \in Terminals : Told(n)' /\ PaneShows(n)'
    BY <1>14, <1>18
<1> QED BY <1>12, <1>13, <1>17, <1>18, <1>19 DEF ShownInv, Told

-----------------------------------------------------------------------------
(* Every step.                                                              *)

\* The steps about terminals.
LEMMA TerminalsShowStep ==
    ASSUME MailOK, MailOK', MainTypes, ShownInv, TerminalSteps
    PROVE  ShownInv'
<1>1. CASE OnHungUp
  <2>1. inbox # <<>> /\ inbox' = Tail(inbox) /\ Head(inbox).kind = "hang"
        /\ UNCHANGED <<asks, up, made, status, erred, viewVars>>
      BY <1>1 DEF OnHungUp, Heard, mainVars, appVars
  <2>2. BoxKept(1)
      BY <2>1, TakenKept DEF Mute
  <2>3. AsksKept
      BY <2>1 DEF AsksKept, ShownInv, CreatedOnes
  <2> QED BY <2>1, <2>2, <2>3, QuietStep
<1>2. CASE \E mode \in {"new", "split"} : OpenTerminal(mode)
    BY <1>2, OpenShown
<1>3. CASE \E n \in Terminals : CloseTerminal(n) \/ RevealTerminal(n) \/ Output(n) \/ TerminalExits(n) \/ Frame(n)
    BY <1>3, CloseShown, RevealShown, OutputShown, ExitShown, FrameShown
<1>4. CASE \E i \in DOMAIN asks : CreateTerminal(i) \/ HangUp(i)
    BY <1>4, CreateShown, HangUpShown
<1>5. CASE OnTerminal \/ OnTerminalEvent
    BY <1>5, HeardShown, EventShown
<1> QED BY <1>1, <1>2, <1>3, <1>4, <1>5 DEF TerminalSteps

LEMMA ShownInvInit == Init => ShownInv
<1> SUFFICES ASSUME Init PROVE ShownInv
    OBVIOUS
<1>1. /\ asks = <<>> /\ inbox = <<>> /\ up = 0 /\ made = 0
      /\ running = {} /\ created = <<>> /\ printed = [n \in Terminals |-> 0] /\ list = <<>> /\ visible = <<>>
      /\ log = [n \in Terminals |-> <<>>] /\ last = [n \in Terminals |-> 0]
      /\ view = [n \in Terminals |-> Unmounted] /\ ignored = {}
    BY DEF Init, LinkInit, ViewsInit
<1>2. /\ ToSet(<<>>) = {} /\ DOMAIN <<>> = {} /\ Len(<<>>) = 0 /\ \A S : <<>> \in Seq(S)
    BY DEF ToSet
<1>3. \A i, n : ~Born(i, n) /\ ~Tells(i, n) /\ ~Turns(i) /\ ~Ended(i, n)
    BY <1>1, <1>2 DEF Born, Tells, Chunk, Ended, Turns
<1>4. ViewTypes
  <2>1. Unmounted \in Pane /\ ~Unmounted.on /\ Unmounted.waiting = <<>>
      BY <1>2 DEF Unmounted, Pane
  <2>2. view \in [Terminals -> Pane] /\ \A n \in Terminals : view[n] = Unmounted
      BY <1>1, <2>1
  <2>3. log \in [Terminals -> Seq(Nat)] /\ last \in [Terminals -> Nat]
      BY <1>1, <1>2
  <2> QED BY <1>1, <1>2, <2>1, <2>2, <2>3 DEF ViewTypes
<1>5. CreatedOnes
  <2>1. Len(created) <= MaxTerminals /\ up <= made
      BY <1>1, <1>2, ViewsAssumption
  <2> QED BY <1>1, <1>2, <1>3, <2>1 DEF CreatedOnes
<1>6. ComesUp
    BY <1>1 DEF ComesUp
<1>7. ASSUME NEW n \in Terminals
      PROVE  BornFirst(n) /\ EndsLast(n) /\ Streams(n) /\ Logs(n) /\ PaneShows(n) /\ ComesIn(n)
  <2>1. BornFirst(n) /\ EndsLast(n)
      BY <1>3 DEF BornFirst, EndsLast
  <2>2. Streams(n) /\ Logs(n)
      BY <1>1, <1>2, <1>3 DEF Streams, Logs
  <2>3. PaneShows(n)
      BY <1>1 DEF PaneShows, Unmounted
  <2>4. ComesIn(n)
      BY <1>1 DEF ComesIn
  <2> QED BY <2>1, <2>2, <2>3, <2>4
<1> QED BY <1>4, <1>5, <1>6, <1>7 DEF ShownInv

LEMMA ShownInvNext == TabsInv /\ TabsInv' /\ ShownInv /\ [Next]_vars => ShownInv'
<1> SUFFICES ASSUME TabsInv, TabsInv', ShownInv, [Next]_vars PROVE ShownInv'
    OBVIOUS
<1>1. MailOK /\ MailOK' /\ MainTypes
    BY DEF TabsInv, LinkInv
<1>2. ASSUME UNCHANGED <<asks, inbox, up, made, status, erred, viewVars>> PROVE ShownInv'
  <2>1. AsksKept
      BY <1>2 DEF AsksKept, ShownInv, CreatedOnes
  <2> QED BY <1>1, <1>2, <2>1, StillKept, QuietStep
<1>3. CASE UNCHANGED <<linkVars, tabVars, crossed, docVars, viewVars>>
    BY <1>2, <1>3 DEF linkVars, mainVars, appVars
<1>4. CASE DocumentSteps
    BY <1>2, <1>4 DEF DocumentSteps, mainVars, appVars
<1>5. CASE ConnectionSteps
    BY <1>1, <1>5, ConnectionsShown
<1>6. CASE FileSteps
    BY <1>1, <1>6, FilesShown
<1>7. CASE TerminalSteps
    BY <1>1, <1>7, TerminalsShowStep
<1> QED BY <1>3, <1>4, <1>5, <1>6, <1>7 DEF Next, vars

(* A pane holds its terminal's output without a gap, a repetition or a      *)
(* change of order, from as far back as the replay log goes, and no shell   *)
(* that runs on the window's connection is forgotten, unless the client of  *)
(* that connection reported an error (TerminalsShown): for every number of  *)
(* terminals, length of the log and interleaving of output, exits, splits,  *)
(* hidden and shown panes, reconnects and late states (TerminalPanel.tsx,   *)
(* its effect on connectionStatus, appendReplayEvent and registerSink).     *)
THEOREM TerminalsStayShown == Spec => []TerminalsShown
<1>1. TabsInv /\ ShownInv => TerminalsShown
  <2> SUFFICES ASSUME TabsInv, ShownInv PROVE TerminalsShown
      OBVIOUS
  <2>1. ASSUME NEW n \in Terminals, view[n].on
        PROVE  LET has == view[n].shown \o view[n].waiting IN
               /\ \A k \in DOMAIN has : has[k] = last[n] - Len(has) + k
               /\ Len(has) >= IF last[n] < MaxReplay THEN last[n] ELSE MaxReplay - 1
      BY <2>1 DEF ShownInv, PaneShows, Shows
  <2>2. ASSUME inbox = <<>>, asks = <<>>, erred # up, NEW n \in running, created[n] = up PROVE n \in ToSet(list)
    <3>1. n \in Terminals
      <4>1. n \in DOMAIN created /\ created \in Seq(Nat) /\ Len(created) <= MaxTerminals /\ MaxTerminals \in Nat
          BY ViewsAssumption DEF ShownInv, CreatedOnes, TabsInv, LinkInv, MainTypes
      <4> QED BY <4>1 DEF Terminals
    <3>2. ToSet(asks) = {} /\ \A i : ~Born(i, n)
        BY <2>2 DEF ToSet, Born
    <3> QED BY <2>2, <3>1, <3>2 DEF ShownInv, ComesIn
  <2> QED BY <2>1, <2>2 DEF TerminalsShown
<1>2. Init => TabsInv /\ ShownInv
    BY TabsInvInit, ShownInvInit
<1>3. TabsInv /\ ShownInv /\ [Next]_vars => TabsInv' /\ ShownInv'
    BY TabsInvNext, ShownInvNext
<1> QED
    BY <1>1, <1>2, <1>3, PTL DEF Spec

-----------------------------------------------------------------------------
(* The documents of the language server: what is on its way to it.          *)

Ops == [op : {"open", "change", "close"}, path : Paths, on : Nat, conn : Nat, from : Nat, num : Nat]
Starts == [conn : 1..MaxLinks, at : {"asked", "given", "over"}, got : Nat]

DocTypes ==
    /\ current \in 0..MaxLinks
    /\ models \in [(1..MaxLinks) \X Paths -> Nat]
    /\ session # None => session \in [id : DOMAIN docs, conn : 1..MaxLinks]
    /\ starts \in Seq(Starts) /\ wanted \in 0..Len(starts) /\ calls \in Seq(Int \ {0})
    /\ docs \in Seq([Paths -> Int]) /\ alive \in SUBSET DOMAIN docs
    /\ attached \in SUBSET Paths /\ IsFiniteSet(attached)
    /\ dq \in Seq(Ops) /\ \A i \in DOMAIN dq : dq[i].on \in DOMAIN docs

\* The starts on their way to the manager are the last ones, in order.
StartsCome ==
    /\ Len(docs) <= Len(starts)
    /\ \A i \in DOMAIN calls : calls[i] > 0 => calls[i] \in (Len(docs) + 1)..Len(starts)
    /\ \A i, j \in DOMAIN calls : calls[i] > 0 /\ calls[j] > 0 /\ i < j => calls[i] < calls[j]
    /\ \A v \in (Len(docs) + 1)..Len(starts) : \E i \in DOMAIN calls : calls[i] = v
    /\ \A n \in DOMAIN starts :
          /\ n > Len(docs) => starts[n].at = "asked"
          /\ starts[n].at = "given" => starts[n].got \in DOMAIN docs
    /\ session # None /\ wanted # 0 => starts[wanted].at = "over"

\* A session that was the active one: its server has a document, or an operation waits for it.
Used(s) == (\E i \in DOMAIN dq : dq[i].on = s) \/ \E p \in Paths : docs[s][p] # 0

\* It is stopped before the start that is wanted could be given it.
SessionsFresh ==
    /\ \A s \in alive :
          Used(s) => \/ session # None /\ session.id = s
                     \/ \E i \in DOMAIN calls : calls[i] = -s /\ \A j \in DOMAIN calls : calls[j] = wanted => i < j
    /\ wanted # 0 /\ starts[wanted].at = "given" /\ starts[wanted].got \in alive => ~Used(starts[wanted].got)

\* An operation that waits for the active session, on path p.
Waits(i, p) == i \in DOMAIN dq /\ dq[i].path = p /\ dq[i].on = session.id

\* Operation e of a path follows on operation d.
Follows(d, e) ==
    IF d.op = "close" THEN e.op = "open" ELSE e.op = "close" \/ (e.op = "change" /\ e.from = d.num)

Has(p) == docs[session.id][p]
Now(p) == models[<<session.conn, p>>]

Sane(p) == \A i : Waits(i, p) => dq[i].conn = session.conn /\ (dq[i].op # "close" => dq[i].num # 0)

\* Each follows on the one before it.
Chained(p) ==
    \A i, j : Waits(i, p) /\ Waits(j, p) /\ i < j /\ (\A k : Waits(k, p) => k <= i \/ j <= k) => Follows(dq[i], dq[j])

\* What the last one leaves is what the window has.
Results(p) ==
    \A i : Waits(i, p) /\ (\A k : Waits(k, p) => k <= i) =>
       IF p \in attached THEN dq[i].op # "close" /\ dq[i].num = Now(p) ELSE dq[i].op = "close"

\* The first one starts from what the server has; nothing if an opening came too late, and a closing follows.
Finds(p) ==
    \A i : Waits(i, p) /\ (\A k : Waits(k, p) => i <= k) =>
       IF Has(p) = 0 THEN dq[i].op = "open" \/ \E k : Waits(k, p) /\ dq[k].op = "close"
       ELSE dq[i].op # "open" /\ (dq[i].op = "change" /\ Has(p) # Ahead => dq[i].from = Has(p))

\* With none the server has what the window has.
Agrees(p) == (\A i : ~Waits(i, p)) => IF p \in attached THEN Has(p) \in {Ahead, Now(p)} ELSE Has(p) = 0

\* What is attached has a model, what is no more is closed.
Modelled(p) == p \in attached => Now(p) # 0
Closed(p) ==
    p \notin attached =>
       \A i : Waits(i, p) /\ dq[i].op # "close" => \E k : Waits(k, p) /\ dq[k].op = "close" /\ i < k

Synced(p) == Sane(p) /\ Chained(p) /\ Results(p) /\ Finds(p) /\ Agrees(p) /\ Modelled(p) /\ Closed(p)

Serving == session # None /\ session.id \in alive

DocsInv == DocTypes /\ StartsCome /\ SessionsFresh /\ (Serving => \A p \in Paths : Synced(p))

\* The elements of a finite set one after the other.
LEMMA OneAfterAnother ==
    ASSUME NEW S, IsFiniteSet(S)
    PROVE  /\ Cardinality(S) \in Nat /\ SetToSeq(S) \in [1..Cardinality(S) -> S]
           /\ \A k, l \in 1..Cardinality(S) : SetToSeq(S)[k] = SetToSeq(S)[l] => k = l
           /\ \A x \in S : \E k \in 1..Cardinality(S) : SetToSeq(S)[k] = x
<1> DEFINE f == SetToSeq(S)
           c == Cardinality(S)
<1>1. PICK b : b \in Bijection(1..c, S)
  <2>1. ExistsBijection(1..c, S) /\ c \in Nat
      BY FS_CardinalityType, FS_NatBijection, FS_CountingElements
  <2> QED BY <2>1 DEF ExistsBijection
<1>2. f \in [1..c -> S] /\ IsInjective(f)
  <2>1. b \in [1..c -> S] /\ IsInjective(b)
      BY <1>1 DEF Bijection, Injection
  <2> QED BY <2>1 DEF SetToSeq
<1>3. f \in Injection(1..c, S)
    BY <1>2 DEF Injection
<1>4. c \in Nat /\ Cardinality(1..c) = c
    BY FS_CardinalityType, FS_Interval
<1>5. f \in Surjection(1..c, S)
  <2> HIDE DEF f
  <2> QED BY <1>3, <1>4, FS_Injection
<1> QED BY <1>2, <1>4, <1>5 DEF IsInjective, Surjection

-----------------------------------------------------------------------------
(* What steps do to the operations that wait for the active session.        *)

\* On path p d operations left the front of the queue that are of other paths.
WaitMoved(p, d) ==
    \A i \in Int : /\ (Waits(i, p))' <=> Waits(i + d, p)
                   /\ (Waits(i, p))' => dq'[i] = dq[i + d]

\* Operation e joins at place q.
WaitComes(p, q, e) ==
    /\ q \in Int /\ dq'[q] = e
    /\ \A i : (Waits(i, p))' <=> Waits(i, p) \/ i = q
    /\ \A i : Waits(i, p) => i \in Int /\ i < q /\ dq'[i] = dq[i]

\* The operation in front is taken.
WaitTaken(p) ==
    /\ \A i : (Waits(i, p))' => i \in Int /\ i >= 1 /\ Waits(i + 1, p) /\ dq'[i] = dq[i + 1]
    /\ \A i : Waits(i, p) => i \in Int /\ (i = 1 \/ (1 < i /\ (i - 1) + 1 = i /\ (Waits(i - 1, p))'))

LEMMA QueueGrows ==
    ASSUME dq \in Seq(Ops), NEW ops \in Seq(Ops), dq' = dq \o ops, session' = session, NEW p
    PROVE  /\ (\A k \in DOMAIN ops : ~(ops[k].path = p /\ ops[k].on = session.id)) => WaitMoved(p, 0)
           /\ \A k \in DOMAIN ops :
                 /\ ops[k].path = p /\ ops[k].on = session.id
                 /\ \A l \in DOMAIN ops : l # k => ops[l].path # p
                 => WaitComes(p, Len(dq) + k, ops[k])
<1>0. PICK N, M : N = Len(dq) /\ M = Len(ops)
    OBVIOUS
<1>1. /\ N \in Nat /\ M \in Nat /\ DOMAIN dq = 1..N /\ DOMAIN ops = 1..M /\ DOMAIN dq' = 1..(N + M)
      /\ \A i \in 1..N : dq'[i] = dq[i]
      /\ \A k \in 1..M : dq'[N + k] = ops[k]
    BY <1>0
<1>2. \A i \in 1..(N + M) : i \in 1..N \/ (i - N \in 1..M /\ N + (i - N) = i)
    BY <1>1
<1>3. \A i \in 1..N : i \in Int /\ i + 0 = i /\ i \in 1..(N + M) /\ \A k \in 1..M : i < N + k
    BY <1>1
<1>4. \A k \in 1..M : N + k \in Int /\ N + k \in 1..(N + M)
    BY <1>1
<1>5. ASSUME \A k \in DOMAIN ops : ~(ops[k].path = p /\ ops[k].on = session.id) PROVE WaitMoved(p, 0)
  <2> SUFFICES ASSUME NEW i \in Int
               PROVE  ((Waits(i, p))' <=> Waits(i, p)) /\ ((Waits(i, p))' => dq'[i] = dq[i])
    <3>1. \A i \in Int : i + 0 = i
        OBVIOUS
    <3> QED BY <3>1 DEF WaitMoved
  <2>1. CASE i \in 1..N
      BY <1>1, <1>3, <2>1 DEF Waits
  <2>2. CASE i \notin 1..N
    <3>1. ~Waits(i, p)
        BY <1>1, <2>2 DEF Waits
    <3>2. ~(Waits(i, p))'
      <4> SUFFICES ASSUME (Waits(i, p))' PROVE FALSE
          OBVIOUS
      <4>1. i - N \in 1..M /\ N + (i - N) = i
          BY <1>1, <1>2, <2>2 DEF Waits
      <4>2. dq'[i] = ops[i - N]
          BY <1>1, <4>1
      <4> QED BY <1>1, <1>5, <4>1, <4>2 DEF Waits
    <3> QED BY <3>1, <3>2
  <2> QED BY <2>1, <2>2
<1>6. ASSUME NEW k \in DOMAIN ops, ops[k].path = p, ops[k].on = session.id,
             \A l \in DOMAIN ops : l # k => ops[l].path # p
      PROVE  WaitComes(p, N + k, ops[k])
  <2>1. ASSUME NEW i PROVE (Waits(i, p))' <=> Waits(i, p) \/ i = N + k
    <3>1. CASE i \in 1..N
        BY <1>1, <1>3, <1>6, <3>1 DEF Waits
    <3>2. CASE i \notin 1..N
      <4>1. ~Waits(i, p)
          BY <1>1, <3>2 DEF Waits
      <4>2. (Waits(i, p))' => i = N + k
        <5> SUFFICES ASSUME (Waits(i, p))' PROVE i = N + k
            OBVIOUS
        <5>1. i - N \in 1..M /\ N + (i - N) = i
            BY <1>1, <1>2, <3>2 DEF Waits
        <5>2. dq'[i] = ops[i - N]
            BY <1>1, <5>1
        <5>3. i - N = k
            BY <1>1, <1>6, <5>1, <5>2 DEF Waits
        <5> QED BY <5>1, <5>3
      <4>3. (Waits(N + k, p))'
          BY <1>1, <1>4, <1>6 DEF Waits
      <4> QED BY <4>1, <4>2, <4>3
    <3> QED BY <3>1, <3>2
  <2>2. ASSUME NEW i, Waits(i, p) PROVE i \in Int /\ i < N + k /\ dq'[i] = dq[i]
      BY <1>1, <1>3, <1>6, <2>2 DEF Waits
  <2> QED BY <1>1, <1>4, <1>6, <2>1, <2>2 DEF WaitComes
<1> QED BY <1>0, <1>5, <1>6

LEMMA QueueShrinks ==
    ASSUME dq \in Seq(Ops), dq # <<>>, dq' = Tail(dq), session' = session, NEW p
    PROVE  /\ ~Waits(1, p) => WaitMoved(p, 1)
           /\ Waits(1, p) => WaitTaken(p)
<1>0. PICK N : N = Len(dq)
    OBVIOUS
<1>1. /\ N \in Nat \ {0} /\ DOMAIN dq = 1..N /\ DOMAIN dq' = 1..(N - 1)
      /\ \A i \in 1..(N - 1) : dq'[i] = dq[i + 1]
    BY <1>0
<1>2. \A i \in Int : i + 1 \in 1..N <=> i = 0 \/ i \in 1..(N - 1)
    BY <1>1
<1>3. \A i \in 1..(N - 1) : i \in Int /\ i >= 1 /\ i # 0
    BY <1>1
<1>4. \A i \in 1..N : i \in Int /\ (i = 1 \/ (1 < i /\ (i - 1) + 1 = i /\ i - 1 \in 1..(N - 1)))
    BY <1>1
<1>5. ASSUME ~Waits(1, p) PROVE WaitMoved(p, 1)
  <2> SUFFICES ASSUME NEW i \in Int
               PROVE  ((Waits(i, p))' <=> Waits(i + 1, p)) /\ ((Waits(i, p))' => dq'[i] = dq[i + 1])
      BY DEF WaitMoved
  <2>1. CASE i = 0
      BY <1>1, <1>3, <1>5, <2>1 DEF Waits
  <2>2. CASE i # 0
      BY <1>1, <1>2, <2>2 DEF Waits
  <2> QED BY <2>1, <2>2
<1>6. ASSUME NEW i, (Waits(i, p))' PROVE i \in Int /\ i >= 1 /\ Waits(i + 1, p) /\ dq'[i] = dq[i + 1]
    BY <1>1, <1>2, <1>3, <1>6 DEF Waits
<1>7. ASSUME NEW i, Waits(i, p) PROVE i \in Int /\ (i = 1 \/ (1 < i /\ (i - 1) + 1 = i /\ (Waits(i - 1, p))'))
    BY <1>1, <1>4, <1>7 DEF Waits
<1> QED BY <1>5, <1>6, <1>7 DEF WaitTaken

-----------------------------------------------------------------------------
(* What becomes of a path.                                                  *)

LEMMA WaitsAt ==
    ASSUME NEW i, NEW p, dq \in Seq(Ops), Waits(i, p)
    PROVE  i \in Int /\ i >= 1 /\ dq[i] \in Ops
<1>1. DOMAIN dq = 1..Len(dq) /\ Len(dq) \in Nat
    OBVIOUS
<1> QED BY <1>1 DEF Waits

LEMMA NextWaitsAt ==
    ASSUME NEW i, NEW p, dq' \in Seq(Ops), (Waits(i, p))'
    PROVE  i \in Int
<1>1. DOMAIN dq' = 1..Len(dq') /\ Len(dq') \in Nat
    OBVIOUS
<1> QED BY <1>1 DEF Waits

\* Nothing about the path.
LEMMA SyncedStays ==
    ASSUME dq \in Seq(Ops), dq' \in Seq(Ops), NEW p, NEW d \in {0, 1}, WaitMoved(p, d), Synced(p), session' = session,
           Has(p)' = Has(p), p \in attached' <=> p \in attached, p \in attached => Now(p)' = Now(p)
    PROVE  Synced(p)'
<1>1. ASSUME NEW i, (Waits(i, p))' PROVE i \in Int /\ i + d \in Int /\ Waits(i + d, p) /\ dq'[i] = dq[i + d]
  <2>1. i \in Int /\ i + d \in Int
      BY <1>1, NextWaitsAt
  <2> QED BY <1>1, <2>1 DEF WaitMoved
<1>2. ASSUME NEW i, Waits(i, p)
      PROVE  i \in Int /\ i - d \in Int /\ (i - d) + d = i /\ (Waits(i - d, p))' /\ dq'[i - d] = dq[i]
  <2>1. i \in Int /\ i - d \in Int /\ (i - d) + d = i
      BY <1>2, WaitsAt
  <2>2. PICK j : j = i - d
      OBVIOUS
  <2>3. (Waits(j, p))' /\ dq'[j] = dq[j + d]
      BY <1>2, <2>1, <2>2 DEF WaitMoved
  <2> QED BY <2>1, <2>2, <2>3
<1>3. \A i, j \in Int : /\ i + d < j + d <=> i < j
                        /\ i + d <= j + d <=> i <= j
    OBVIOUS
<1>4. ASSUME NEW i \in Int, NEW j, Waits(j, p) PROVE (j <= i + d <=> j - d <= i) /\ (i + d <= j <=> i <= j - d) /\ (i + d < j <=> i < j - d)
    BY <1>2, <1>4
<1>5. Sane(p)'
    BY <1>1 DEF Synced, Sane
<1>6. Chained(p)'
  <2> SUFFICES ASSUME NEW i, NEW j, (Waits(i, p))', (Waits(j, p))', i < j, \A k : (Waits(k, p))' => k <= i \/ j <= k
               PROVE  Follows(dq'[i], dq'[j])
      BY DEF Chained, Follows
  <2>1. i + d < j + d
      BY <1>1, <1>3
  <2>2. ASSUME NEW k, Waits(k, p) PROVE k <= i + d \/ j + d <= k
    <3>1. k - d <= i \/ j <= k - d
        BY <1>2, <2>2
    <3> QED BY <1>1, <1>4, <2>2, <3>1
  <2>3. Follows(dq[i + d], dq[j + d])
      BY <1>1, <2>1, <2>2 DEF Synced, Chained
  <2> QED BY <1>1, <2>3
<1>7. Results(p)'
  <2> SUFFICES ASSUME NEW i, (Waits(i, p))', \A k : (Waits(k, p))' => k <= i
               PROVE  IF p \in attached' THEN dq'[i].op # "close" /\ dq'[i].num = Now(p)' ELSE dq'[i].op = "close"
      BY DEF Results
  <2>1. \A k : Waits(k, p) => k <= i + d
      BY <1>1, <1>2, <1>4
  <2>2. IF p \in attached THEN dq[i + d].op # "close" /\ dq[i + d].num = Now(p) ELSE dq[i + d].op = "close"
      BY <1>1, <2>1 DEF Synced, Results
  <2> QED BY <1>1, <2>2
<1>8. Finds(p)'
  <2> SUFFICES ASSUME NEW i, (Waits(i, p))', \A k : (Waits(k, p))' => i <= k
               PROVE  IF Has(p)' = 0 THEN dq'[i].op = "open" \/ \E k : (Waits(k, p))' /\ dq'[k].op = "close"
                      ELSE dq'[i].op # "open" /\ (dq'[i].op = "change" /\ Has(p)' # Ahead => dq'[i].from = Has(p)')
      BY DEF Finds
  <2>1. \A k : Waits(k, p) => i + d <= k
      BY <1>1, <1>2, <1>4
  <2>2. IF Has(p) = 0 THEN dq[i + d].op = "open" \/ \E k : Waits(k, p) /\ dq[k].op = "close"
        ELSE dq[i + d].op # "open" /\ (dq[i + d].op = "change" /\ Has(p) # Ahead => dq[i + d].from = Has(p))
      BY <1>1, <2>1 DEF Synced, Finds
  <2>3. (\E k : Waits(k, p) /\ dq[k].op = "close") => \E k : (Waits(k, p))' /\ dq'[k].op = "close"
      BY <1>2
  <2> QED BY <1>1, <2>2, <2>3
<1>9. Agrees(p)'
    BY <1>2 DEF Synced, Agrees
<1>10. Modelled(p)'
    BY DEF Synced, Modelled
<1>11. Closed(p)'
  <2> SUFFICES ASSUME p \notin attached, NEW i, (Waits(i, p))', dq'[i].op # "close"
               PROVE  \E k : (Waits(k, p))' /\ dq'[k].op = "close" /\ i < k
      BY DEF Closed
  <2>1. PICK k : Waits(k, p) /\ dq[k].op = "close" /\ i + d < k
      BY <1>1 DEF Synced, Closed
  <2>2. i < k - d
      BY <1>1, <1>4, <2>1
  <2> QED BY <1>2, <2>1, <2>2
<1> QED BY <1>5, <1>6, <1>7, <1>8, <1>9, <1>10, <1>11 DEF Synced

\* One more operation about the path: it is attached, changed or detached.
LEMMA SyncedComes ==
    ASSUME dq \in Seq(Ops), NEW p, NEW q, NEW e, WaitComes(p, q, e), Synced(p), session' = session, Has(p)' = Has(p),
           e.conn = session.conn, e.op # "close" => e.num # 0 /\ e.num = Now(p)',
           \/ e.op = "open" /\ p \notin attached /\ p \in attached'
           \/ e.op = "change" /\ p \in attached /\ p \in attached' /\ e.from = Now(p)
           \/ e.op = "close" /\ p \in attached /\ p \notin attached'
    PROVE  Synced(p)'
<1>1. /\ q \in Int /\ dq'[q] = e
      /\ \A i : (Waits(i, p))' <=> Waits(i, p) \/ i = q
      /\ \A i : Waits(i, p) => i \in Int /\ i < q /\ dq'[i] = dq[i]
    BY DEF WaitComes
<1>2. \A i \in Int : i < q => ~(q <= i) /\ ~(q < i) /\ i <= q /\ i # q
    BY <1>1
<1>3. Sane(p)'
    BY <1>1 DEF Synced, Sane
\* The last so far, and the new one.
<1>4. ASSUME NEW i, Waits(i, p), \A k : Waits(k, p) => k <= i PROVE Follows(dq[i], e)
    BY <1>4 DEF Synced, Results, Follows
<1>5. Chained(p)'
  <2> SUFFICES ASSUME NEW i, NEW j, (Waits(i, p))', (Waits(j, p))', i < j, \A k : (Waits(k, p))' => k <= i \/ j <= k
               PROVE  Follows(dq'[i], dq'[j])
      BY DEF Chained, Follows
  <2>1. Waits(i, p)
      BY <1>1, <1>2
  <2>2. CASE j = q
    <3>1. ASSUME NEW k, Waits(k, p) PROVE k <= i
        BY <1>1, <1>2, <2>2, <3>1
    <3> QED BY <1>1, <1>4, <2>1, <2>2, <3>1
  <2>3. CASE j # q
    <3>1. Waits(j, p) /\ \A k : Waits(k, p) => k <= i \/ j <= k
        BY <1>1, <2>3
    <3> QED BY <1>1, <2>1, <3>1 DEF Synced, Chained
  <2> QED BY <2>2, <2>3
<1>6. Results(p)'
  <2> SUFFICES ASSUME NEW i, (Waits(i, p))', \A k : (Waits(k, p))' => k <= i
               PROVE  IF p \in attached' THEN dq'[i].op # "close" /\ dq'[i].num = Now(p)' ELSE dq'[i].op = "close"
      BY DEF Results
  <2>1. q <= i
      BY <1>1
  <2>2. i = q
      BY <1>1, <1>2, <2>1
  <2> QED BY <1>1, <2>2
<1>7. (\A i : ~Waits(i, p)) => IF Has(p) = 0 THEN e.op = "open" ELSE e.op # "open" /\ (e.op = "change" /\ Has(p) # Ahead => e.from = Has(p))
  <2>1. Ahead # 0
      BY DEF Ahead
  <2> QED BY <2>1 DEF Synced, Agrees, Modelled
<1>8. Finds(p)'
  <2> SUFFICES ASSUME NEW i, (Waits(i, p))', \A k : (Waits(k, p))' => i <= k
               PROVE  IF Has(p)' = 0 THEN dq'[i].op = "open" \/ \E k : (Waits(k, p))' /\ dq'[k].op = "close"
                      ELSE dq'[i].op # "open" /\ (dq'[i].op = "change" /\ Has(p)' # Ahead => dq'[i].from = Has(p)')
      BY DEF Finds
  <2>1. CASE i = q
    <3>1. \A k : ~Waits(k, p)
        BY <1>1, <1>2, <2>1
    <3> QED BY <1>1, <1>7, <2>1, <3>1
  <2>2. CASE i # q
    <3>1. Waits(i, p) /\ \A k : Waits(k, p) => i <= k
        BY <1>1, <2>2
    <3>2. IF Has(p) = 0 THEN dq[i].op = "open" \/ \E k : Waits(k, p) /\ dq[k].op = "close"
          ELSE dq[i].op # "open" /\ (dq[i].op = "change" /\ Has(p) # Ahead => dq[i].from = Has(p))
        BY <3>1 DEF Synced, Finds
    <3>3. (\E k : Waits(k, p) /\ dq[k].op = "close") => \E k : (Waits(k, p))' /\ dq'[k].op = "close"
        BY <1>1
    <3> QED BY <1>1, <3>1, <3>2, <3>3
  <2> QED BY <2>1, <2>2
<1>9. Agrees(p)'
    BY <1>1 DEF Agrees
<1>10. Modelled(p)'
    BY DEF Modelled
<1>11. Closed(p)'
  <2> SUFFICES ASSUME p \notin attached', NEW i, (Waits(i, p))', dq'[i].op # "close"
               PROVE  \E k : (Waits(k, p))' /\ dq'[k].op = "close" /\ i < k
      BY DEF Closed
  <2>1. e.op = "close"
      OBVIOUS
  <2>2. Waits(i, p)
      BY <1>1, <2>1
  <2> QED BY <1>1, <2>1, <2>2
<1> QED BY <1>3, <1>5, <1>6, <1>8, <1>9, <1>10, <1>11 DEF Synced

\* The operation in front is about the path, and served.
LEMMA SyncedServed ==
    ASSUME dq \in Seq(Ops), NEW p, Waits(1, p), WaitTaken(p), Synced(p), UNCHANGED <<models, session, attached>>,
           dq[1].op \in {"open", "change", "close"},
           LET d == dq[1] IN
           Has(p)' = CASE d.op = "open" -> IF Now(p) = 0 THEN Has(p) ELSE IF Now(p) = d.num THEN Now(p) ELSE Ahead
                       [] d.op = "change" -> IF Has(p) \in {0, Ahead} THEN Has(p)
                                             ELSE IF Has(p) = d.from THEN d.num ELSE Garbled
                       [] OTHER -> 0
    PROVE  Synced(p)'
<1> DEFINE d == dq[1]
<1>0. Now(p)' = Now(p)
    BY DEF Now
<1>1. \A i : (Waits(i, p))' => i \in Int /\ i >= 1 /\ Waits(i + 1, p) /\ dq'[i] = dq[i + 1]
    BY DEF WaitTaken
<1>2. \A i : Waits(i, p) => i \in Int /\ 1 <= i /\ (i = 1 \/ (1 < i /\ (i - 1) + 1 = i /\ (Waits(i - 1, p))' /\ dq'[i - 1] = dq[i]))
  <2>1. ASSUME NEW i, Waits(i, p), i # 1 PROVE dq'[i - 1] = dq[i] /\ 1 < i /\ (i - 1) + 1 = i /\ (Waits(i - 1, p))'
    <3>1. 1 < i /\ (i - 1) + 1 = i /\ (Waits(i - 1, p))'
        BY <2>1 DEF WaitTaken
    <3>2. PICK j : j = i - 1
        OBVIOUS
    <3>3. (Waits(j, p))' /\ j + 1 = i
        BY <3>1, <3>2
    <3> QED BY <1>1, <3>1, <3>2, <3>3
  <2>2. \A i : Waits(i, p) => i \in Int /\ i >= 1
      BY WaitsAt
  <2>3. \A i \in Int : i >= 1 => 1 <= i
      OBVIOUS
  <2> QED BY <2>1, <2>2, <2>3
<1>3. /\ dq[1].conn = session.conn /\ (d.op # "close" => d.num # 0)
      /\ IF Has(p) = 0 THEN d.op = "open" \/ \E k : Waits(k, p) /\ dq[k].op = "close"
         ELSE d.op # "open" /\ (d.op = "change" /\ Has(p) # Ahead => d.from = Has(p))
      /\ p \in attached => Now(p) # 0
    BY <1>2 DEF Synced, Sane, Finds, Modelled
\* The next one, if there is one, follows on it; else it is the last.
<1>4. ASSUME NEW i, (Waits(i, p))', \A k : (Waits(k, p))' => i <= k PROVE Follows(d, dq'[i])
  <2>1. Waits(1, p) /\ Waits(i + 1, p) /\ i \in Int /\ 1 < i + 1 /\ dq'[i] = dq[i + 1]
      BY <1>1, <1>4
  <2>2. ASSUME NEW k, Waits(k, p) PROVE k <= 1 \/ i + 1 <= k
    <3>1. k = 1 \/ (k \in Int /\ i <= k - 1)
        BY <1>2, <1>4, <2>2
    <3> QED BY <2>1, <3>1
  <2> QED BY <2>1, <2>2 DEF Synced, Chained
<1>5. (\A k : ~(Waits(k, p))') => /\ \A k : Waits(k, p) => k = 1
                                 /\ IF p \in attached THEN d.op # "close" /\ d.num = Now(p) ELSE d.op = "close"
  <2> SUFFICES ASSUME \A k : ~(Waits(k, p))'
               PROVE  /\ \A k : Waits(k, p) => k = 1
                      /\ IF p \in attached THEN d.op # "close" /\ d.num = Now(p) ELSE d.op = "close"
      OBVIOUS
  <2>1. \A k : Waits(k, p) => k = 1
      BY <1>2
  <2>2. \A k : Waits(k, p) => k <= 1
      BY <2>1
  <2> QED BY <2>1, <2>2 DEF Synced, Results
<1>6. p \notin attached /\ d.op # "close" => \E k : (Waits(k, p))' /\ dq'[k].op = "close"
  <2> SUFFICES ASSUME p \notin attached, d.op # "close" PROVE \E k : (Waits(k, p))' /\ dq'[k].op = "close"
      OBVIOUS
  <2>1. PICK k : Waits(k, p) /\ dq[k].op = "close" /\ 1 < k
      BY DEF Synced, Closed
  <2> QED BY <1>2, <2>1
<1>7. Sane(p)'
    BY <1>1 DEF Synced, Sane
<1>8. Chained(p)'
  <2> SUFFICES ASSUME NEW i, NEW j, (Waits(i, p))', (Waits(j, p))', i < j, \A k : (Waits(k, p))' => k <= i \/ j <= k
               PROVE  Follows(dq'[i], dq'[j])
      BY DEF Chained, Follows
  <2>1. i \in Int /\ j \in Int /\ i >= 1 /\ i + 1 < j + 1
      BY <1>1
  <2>2. ASSUME NEW k, Waits(k, p) PROVE k <= i + 1 \/ j + 1 <= k
    <3>1. k = 1 \/ (k \in Int /\ (k - 1 <= i \/ j <= k - 1))
        BY <1>2, <2>2
    <3> QED BY <2>1, <3>1
  <2> QED BY <1>1, <2>1, <2>2 DEF Synced, Chained
<1>9. Results(p)'
  <2> SUFFICES ASSUME NEW i, (Waits(i, p))', \A k : (Waits(k, p))' => k <= i
               PROVE  IF p \in attached THEN dq'[i].op # "close" /\ dq'[i].num = Now(p) ELSE dq'[i].op = "close"
      BY <1>0 DEF Results
  <2>1. i \in Int /\ i >= 1
      BY <1>1
  <2>2. ASSUME NEW k, Waits(k, p) PROVE k <= i + 1
    <3>1. k = 1 \/ (k \in Int /\ k - 1 <= i)
        BY <1>2, <2>2
    <3> QED BY <2>1, <3>1
  <2> QED BY <1>1, <2>2 DEF Synced, Results
<1>10. Finds(p)' /\ Agrees(p)'
  <2>0. Ahead # 0
      BY DEF Ahead
  <2>2. CASE d.op = "open"
    <3>1. Has(p) = 0
        BY <1>3, <2>2
    <3>2. CASE Now(p) = 0
      <4>1. Has(p)' = 0 /\ p \notin attached
          BY <1>3, <2>2, <3>1, <3>2
      <4>2. \E k : (Waits(k, p))' /\ dq'[k].op = "close"
          BY <1>6, <2>2, <4>1
      <4> QED BY <4>1, <4>2 DEF Finds, Agrees
    <3>3. CASE Now(p) # 0
      <4>1. Has(p)' = (IF Now(p) = d.num THEN Now(p) ELSE Ahead) /\ Has(p)' # 0
          BY <2>0, <2>2, <3>3
      <4>2. Finds(p)'
          BY <1>4, <2>2, <4>1 DEF Finds, Follows
      <4>3. Agrees(p)'
          BY <1>0, <1>5, <2>2, <4>1 DEF Agrees
      <4> QED BY <4>2, <4>3
    <3> QED BY <3>2, <3>3
  <2>3. CASE d.op = "change"
    <3>1. CASE Has(p) = 0
      <4>1. Has(p)' = 0
          BY <2>3, <3>1
      <4>2. \E k : (Waits(k, p))' /\ dq'[k].op = "close"
          BY <1>2, <1>3, <2>3, <3>1
      <4> QED BY <4>1, <4>2 DEF Finds, Agrees
    <3>2. CASE Has(p) = Ahead
      <4>1. Has(p)' = Ahead
          BY <2>3, <3>2
      <4>2. Finds(p)'
          BY <1>4, <2>0, <2>3, <4>1 DEF Finds, Follows
      <4>3. Agrees(p)'
          BY <1>5, <2>3, <4>1 DEF Agrees
      <4> QED BY <4>2, <4>3
    <3>3. CASE Has(p) \notin {0, Ahead}
      <4>1. Has(p)' = d.num /\ Has(p)' # 0
          BY <1>3, <2>3, <3>3
      <4>2. Finds(p)'
          BY <1>4, <2>3, <4>1 DEF Finds, Follows
      <4>3. Agrees(p)'
          BY <1>0, <1>5, <2>3, <4>1 DEF Agrees
      <4> QED BY <4>2, <4>3
    <3> QED BY <3>1, <3>2, <3>3
  <2>4. CASE d.op = "close"
    <3>1. Has(p)' = 0
        BY <2>4
    <3>2. Finds(p)'
        BY <1>4, <2>4, <3>1 DEF Finds, Follows
    <3>3. Agrees(p)'
        BY <1>5, <2>4, <3>1 DEF Agrees
    <3> QED BY <3>2, <3>3
  <2> QED BY <2>2, <2>3, <2>4
<1>11. Modelled(p)'
    BY <1>0, <1>3 DEF Modelled
<1>12. Closed(p)'
  <2> SUFFICES ASSUME p \notin attached, NEW i, (Waits(i, p))', dq'[i].op # "close"
               PROVE  \E k : (Waits(k, p))' /\ dq'[k].op = "close" /\ i < k
      BY DEF Closed
  <2>1. i \in Int /\ i >= 1 /\ Waits(i + 1, p) /\ dq[i + 1].op # "close"
      BY <1>1
  <2>2. PICK k : Waits(k, p) /\ dq[k].op = "close" /\ i + 1 < k
      BY <2>1 DEF Synced, Closed
  <2>3. k # 1 /\ i < k - 1
      BY <1>2, <2>1, <2>2
  <2> QED BY <1>2, <2>2, <2>3
<1> QED BY <1>7, <1>8, <1>9, <1>10, <1>11, <1>12 DEF Synced

-----------------------------------------------------------------------------
(* Operations that join together.                                           *)

\* One operation for each path of S, on the active session.
OneFor(ops, S) ==
    /\ ops \in Seq(Ops)
    /\ \A k \in DOMAIN ops : ops[k].path \in S /\ ops[k].on = session.id
    /\ \A k, l \in DOMAIN ops : ops[k].path = ops[l].path => k = l
    /\ \A p \in S : \E k \in DOMAIN ops : ops[k].path = p

LEMMA NoneFor == OneFor(<<>>, {})
<1>1. <<>> \in Seq(Ops) /\ DOMAIN <<>> = {}
    OBVIOUS
<1> QED BY <1>1 DEF OneFor

LEMMA JustOne ==
    ASSUME NEW e \in Ops, e.on = session.id
    PROVE  OneFor(<<e>>, {e.path}) /\ <<e>>[1] = e /\ DOMAIN <<e>> = {1}
<1>1. <<e>> \in Seq(Ops) /\ DOMAIN <<e>> = {1} /\ <<e>>[1] = e
    OBVIOUS
<1> QED BY <1>1 DEF OneFor

LEMMA BothFor ==
    ASSUME NEW a, NEW b, NEW S, NEW T, OneFor(a, S), OneFor(b, T), S \cap T = {}
    PROVE  /\ OneFor(a \o b, S \cup T)
           /\ \A k \in DOMAIN (a \o b) : \/ (a \o b)[k].path \in S /\ \E l \in DOMAIN a : (a \o b)[k] = a[l]
                                         \/ (a \o b)[k].path \in T /\ \E l \in DOMAIN b : (a \o b)[k] = b[l]
<1>0. PICK c, M, N : c = a \o b /\ M = Len(a) /\ N = Len(b)
    OBVIOUS
<1>1. a \in Seq(Ops) /\ b \in Seq(Ops)
    BY DEF OneFor
<1>2. /\ M \in Nat /\ N \in Nat /\ DOMAIN a = 1..M /\ DOMAIN b = 1..N /\ c \in Seq(Ops) /\ DOMAIN c = 1..(M + N)
      /\ \A k \in 1..M : c[k] = a[k]
      /\ \A k \in 1..N : c[M + k] = b[k]
    BY <1>0, <1>1
<1>3. \A k \in 1..(M + N) : k \in 1..M \/ (k - M \in 1..N /\ M + (k - M) = k)
    BY <1>2
<1>4. \A k \in 1..M : k \in 1..(M + N)
    BY <1>2
<1>5. \A k \in 1..N : M + k \in 1..(M + N)
    BY <1>2
<1>6. ASSUME NEW k \in DOMAIN c
      PROVE  \/ k \in 1..M /\ c[k] = a[k] /\ c[k].path \in S /\ c[k].on = session.id
             \/ k - M \in 1..N /\ M + (k - M) = k /\ c[k] = b[k - M] /\ c[k].path \in T /\ c[k].on = session.id
  <2>1. CASE k \in 1..M
      BY <1>2, <2>1 DEF OneFor
  <2>2. CASE k - M \in 1..N /\ M + (k - M) = k
    <3>1. c[k] = b[k - M]
        BY <1>2, <2>2
    <3> QED BY <1>2, <2>2, <3>1 DEF OneFor
  <2> QED BY <1>2, <1>3, <1>6, <2>1, <2>2
<1>7. ASSUME NEW k \in DOMAIN c, NEW l \in DOMAIN c, c[k].path = c[l].path PROVE k = l
  <2>1. CASE k \in 1..M /\ c[k] = a[k] /\ c[k].path \in S
    <3>1. l \in 1..M /\ c[l] = a[l]
        BY <1>6, <1>7, <2>1
    <3> QED BY <1>2, <1>7, <2>1, <3>1 DEF OneFor
  <2>2. CASE k - M \in 1..N /\ M + (k - M) = k /\ c[k] = b[k - M] /\ c[k].path \in T
    <3>1. l - M \in 1..N /\ M + (l - M) = l /\ c[l] = b[l - M]
        BY <1>6, <1>7, <2>2
    <3>2. k - M = l - M
        BY <1>2, <1>7, <2>2, <3>1 DEF OneFor
    <3> QED BY <2>2, <3>1, <3>2
  <2> QED BY <1>6, <2>1, <2>2
<1>8. ASSUME NEW p \in S \cup T PROVE \E k \in DOMAIN c : c[k].path = p
  <2>1. CASE p \in S
    <3>1. PICK k \in DOMAIN a : a[k].path = p
        BY <2>1 DEF OneFor
    <3> QED BY <1>2, <1>4, <3>1
  <2>2. CASE p \in T
    <3>1. PICK k \in DOMAIN b : b[k].path = p
        BY <2>2 DEF OneFor
    <3> QED BY <1>2, <1>5, <3>1
  <2> QED BY <2>1, <2>2
<1>9. OneFor(c, S \cup T)
    BY <1>2, <1>6, <1>7, <1>8 DEF OneFor
<1> QED BY <1>0, <1>2, <1>6, <1>9

\* Each path of S is told of; the others are not.
LEMMA QueueGrowsFor ==
    ASSUME dq \in Seq(Ops), NEW ops, NEW S, OneFor(ops, S), dq' = dq \o ops, session' = session, NEW p
    PROVE  /\ p \notin S => WaitMoved(p, 0)
           /\ p \in S => \E k \in DOMAIN ops : ops[k].path = p /\ WaitComes(p, Len(dq) + k, ops[k])
<1>1. ops \in Seq(Ops)
    BY DEF OneFor
<1>2. ASSUME p \notin S PROVE WaitMoved(p, 0)
  <2>1. \A k \in DOMAIN ops : ~(ops[k].path = p /\ ops[k].on = session.id)
      BY <1>2 DEF OneFor
  <2> QED BY <1>1, <2>1, QueueGrows
<1>3. ASSUME p \in S PROVE \E k \in DOMAIN ops : ops[k].path = p /\ WaitComes(p, Len(dq) + k, ops[k])
  <2>1. PICK k \in DOMAIN ops : ops[k].path = p
      BY <1>3 DEF OneFor
  <2>2. ops[k].on = session.id /\ \A l \in DOMAIN ops : l # k => ops[l].path # p
      BY <2>1 DEF OneFor
  <2>3. WaitComes(p, Len(dq) + k, ops[k])
      BY <1>1, <2>1, <2>2, QueueGrows
  <2> QED BY <2>1, <2>3
<1> QED BY <1>2, <1>3

LEMMA ClosesFor ==
    ASSUME NEW S \in SUBSET Paths, IsFiniteSet(S), session # None, session \in [id : Nat, conn : Nat]
    PROVE  OneFor(Closes(S), S) /\ \A k \in DOMAIN Closes(S) : Closes(S)[k] = Doc("close", Closes(S)[k].path, 0, 0)
<1> DEFINE c == Closes(S)
           ps == SetToSeq(S)
<1>1. PICK n \in Nat : /\ ps \in [1..n -> S]
                       /\ \A k, l \in 1..n : ps[k] = ps[l] => k = l
                       /\ \A x \in S : \E k \in 1..n : ps[k] = x
    BY OneAfterAnother
<1>2. c = [k \in 1..n |-> Doc("close", ps[k], 0, 0)]
  <2>1. DOMAIN ps = 1..n
      BY <1>1
  <2> QED BY <2>1 DEF Closes
<1> HIDE DEF ps
<1>3. \A k \in 1..n : /\ c[k] = Doc("close", ps[k], 0, 0) /\ c[k].path = ps[k] /\ c[k] \in Ops
                      /\ c[k].on = session.id
    BY <1>1, <1>2 DEF Doc, Ops
<1>4. c \in Seq(Ops) /\ DOMAIN c = 1..n
    BY <1>2, <1>3
<1> QED BY <1>1, <1>3, <1>4 DEF OneFor

LEMMA OpensFor ==
    ASSUME NEW ms \in [(1..MaxLinks) \X Paths -> Nat], NEW ts, IsFiniteSet(Attachable(ms, ts, session)),
           session # None, session \in [id : Nat, conn : 1..MaxLinks]
    PROVE  /\ OneFor(Opens(ms, ts), Attachable(ms, ts, session))
           /\ \A k \in DOMAIN Opens(ms, ts) :
                 Opens(ms, ts)[k] = Doc("open", Opens(ms, ts)[k].path, 0, ms[<<session.conn, Opens(ms, ts)[k].path>>])
<1> DEFINE S == Attachable(ms, ts, session)
           c == Opens(ms, ts)
           ps == SetToSeq(S)
<1>1. PICK n \in Nat : /\ ps \in [1..n -> S]
                       /\ \A k, l \in 1..n : ps[k] = ps[l] => k = l
                       /\ \A x \in S : \E k \in 1..n : ps[k] = x
    BY OneAfterAnother
<1>2. c = [k \in 1..n |-> Doc("open", ps[k], 0, ms[<<session.conn, ps[k]>>])]
  <2>1. DOMAIN ps = 1..n
      BY <1>1
  <2> QED BY <2>1 DEF Opens
<1>0. S \subseteq Paths
    BY DEF Attachable
<1> HIDE DEF ps, S
<1>3. ASSUME NEW k \in 1..n
      PROVE  /\ c[k] = Doc("open", ps[k], 0, ms[<<session.conn, ps[k]>>]) /\ c[k].path = ps[k] /\ c[k] \in Ops
             /\ c[k].on = session.id
  <2>1. ps[k] \in Paths /\ ms[<<session.conn, ps[k]>>] \in Nat
      BY <1>0, <1>1
  <2>2. c[k] = Doc("open", ps[k], 0, ms[<<session.conn, ps[k]>>])
      BY <1>2
  <2>3. session.id \in Nat /\ session.conn \in Nat
    <3>1. MaxLinks \in Nat
        BY LinksAssumption
    <3> QED BY <3>1
  <2> QED BY <2>1, <2>2, <2>3 DEF Doc, Ops
<1>4. c \in Seq(Ops) /\ DOMAIN c = 1..n
    BY <1>2, <1>3
<1>5. OneFor(c, S)
  <2>0. \A k \in 1..n : c[k].path = ps[k] /\ c[k].on = session.id
      BY <1>3
  <2>1. \A k \in DOMAIN c : c[k].path \in S /\ c[k].on = session.id
      BY <1>1, <1>4, <2>0
  <2>2. \A k, l \in DOMAIN c : c[k].path = c[l].path => k = l
      BY <1>1, <1>4, <2>0
  <2>3. \A x \in S : \E k \in DOMAIN c : c[k].path = x
      BY <1>1, <1>4, <2>0
  <2> QED BY <1>4, <2>1, <2>2, <2>3 DEF OneFor
<1>6. \A k \in DOMAIN c : c[k] = Doc("open", c[k].path, 0, ms[<<session.conn, c[k].path>>])
    BY <1>3, <1>4
<1> QED BY <1>5, <1>6 DEF c, S

\* The tabs are finitely many, so what a session attaches is.
LEMMA AttachableFinite ==
    ASSUME NEW ts \in Seq(TabSet), NEW S, NEW c, \A p \in S : <<c, p>> \in Ids(ts)
    PROVE  IsFiniteSet(S)
<1>1. PICK n \in Nat : n = Len(ts) /\ DOMAIN ts = 1..n
    OBVIOUS
<1> DEFINE T == {ts[i].path : i \in 1..n}
           f == [i \in 1..n |-> ts[i].path]
<1>2. f \in Surjection(1..n, T)
    BY DEF Surjection
<1>3. IsFiniteSet(1..n)
    BY FS_Interval
<1>4. IsFiniteSet(T)
  <2> HIDE DEF f, T
  <2> QED BY <1>2, <1>3, FS_Surjection
<1>5. S \subseteq T
  <2> SUFFICES ASSUME NEW p \in S PROVE p \in T
      OBVIOUS
  <2>1. PICK t \in ToSet(ts) : Id(t) = <<c, p>>
      BY DEF Ids
  <2>2. PICK i \in DOMAIN ts : t = ts[i]
      BY DEF ToSet
  <2> QED BY <1>1, <2>1, <2>2 DEF Id
<1> HIDE DEF T
<1> QED BY <1>4, <1>5, FS_Subset

-----------------------------------------------------------------------------
(* The steps of the window.                                                 *)

\* A session that is used after operations joined was used before, or one of them is on it.
LEMMA UsedGrows ==
    ASSUME dq \in Seq(Ops), NEW ops \in Seq(Ops), dq' = dq \o ops, docs' = docs, NEW s
    PROVE  Used(s)' => Used(s) \/ \E k \in DOMAIN ops : ops[k].on = s
<1>0. PICK M, N : M = Len(dq) /\ N = Len(ops)
    OBVIOUS
<1>1. /\ M \in Nat /\ N \in Nat /\ DOMAIN dq = 1..M /\ DOMAIN ops = 1..N /\ DOMAIN dq' = 1..(M + N)
      /\ \A i \in 1..M : dq'[i] = dq[i]
      /\ \A k \in 1..N : dq'[M + k] = ops[k]
    BY <1>0
<1>2. SUFFICES ASSUME NEW i \in DOMAIN dq', dq'[i].on = s
               PROVE  (\E j \in DOMAIN dq : dq[j].on = s) \/ \E k \in DOMAIN ops : ops[k].on = s
    BY DEF Used
<1>3. i \in 1..M \/ (i - M \in 1..N /\ M + (i - M) = i)
    BY <1>1
<1>4. CASE i \in 1..M
    BY <1>1, <1>2, <1>4
<1>5. CASE i - M \in 1..N /\ M + (i - M) = i
  <2>1. dq'[i] = ops[i - M]
      BY <1>1, <1>5
  <2> QED BY <1>1, <1>2, <1>5, <2>1
<1> QED BY <1>3, <1>4, <1>5

\* What the window tells the active session does not disturb the order of starts and stops.
LEMMA QueuedKeeps ==
    ASSUME DocTypes, StartsCome, SessionsFresh, NEW ops \in Seq(Ops), dq' = dq \o ops,
           \A k \in DOMAIN ops : session # None /\ ops[k].on = session.id,
           attached' \in SUBSET Paths, IsFiniteSet(attached'), models' \in [(1..MaxLinks) \X Paths -> Nat],
           current' \in 0..MaxLinks, alive' \in SUBSET alive, UNCHANGED <<session, starts, wanted, calls, docs>>
    PROVE  DocTypes' /\ StartsCome' /\ SessionsFresh' /\ (Serving' => Serving)
<1>1. dq' \in Seq(Ops) /\ \A i \in DOMAIN dq' : dq'[i].on \in DOMAIN docs'
  <2>0. PICK M, N : M = Len(dq) /\ N = Len(ops)
      OBVIOUS
  <2>1. /\ M \in Nat /\ N \in Nat /\ DOMAIN dq = 1..M /\ DOMAIN ops = 1..N /\ DOMAIN dq' = 1..(M + N)
        /\ \A i \in 1..M : dq'[i] = dq[i]
        /\ \A k \in 1..N : dq'[M + k] = ops[k]
        /\ dq' \in Seq(Ops)
      BY <2>0 DEF DocTypes
  <2>2. ASSUME NEW i \in 1..(M + N) PROVE dq'[i].on \in DOMAIN docs
    <3>1. i \in 1..M \/ (i - M \in 1..N /\ M + (i - M) = i)
        BY <2>1
    <3>2. CASE i \in 1..M
        BY <2>1, <3>2 DEF DocTypes
    <3>3. CASE i - M \in 1..N /\ M + (i - M) = i
      <4>1. dq'[i] = ops[i - M]
          BY <2>1, <3>3
      <4>2. session # None /\ dq'[i].on = session.id
          BY <2>1, <3>3, <4>1
      <4> QED BY <4>2 DEF DocTypes
    <3> QED BY <3>1, <3>2, <3>3
  <2> QED BY <2>1, <2>2
<1>2. DocTypes'
    BY <1>1 DEF DocTypes
<1>3. StartsCome'
    BY DEF StartsCome
<1>4. ASSUME NEW s PROVE Used(s)' => Used(s) \/ (session # None /\ session.id = s)
  <2>1. Used(s)' => Used(s) \/ \E k \in DOMAIN ops : ops[k].on = s
      BY UsedGrows DEF DocTypes
  <2> QED BY <2>1
<1>5. SessionsFresh'
  <2>1. ASSUME NEW s \in alive', Used(s)'
        PROVE  \/ session' # None /\ session'.id = s
               \/ \E i \in DOMAIN calls' : calls'[i] = -s /\ \A j \in DOMAIN calls' : calls'[j] = wanted' => i < j
    <3>1. Used(s) \/ (session # None /\ session.id = s)
        BY <1>4, <2>1
    <3> QED BY <3>1 DEF SessionsFresh
  <2>2. ASSUME wanted' # 0, starts'[wanted'].at = "given", starts'[wanted'].got \in alive'
        PROVE  (~Used(starts[wanted].got))'
    <3>1. session = None /\ ~Used(starts[wanted].got)
        BY <2>2 DEF SessionsFresh, StartsCome
    <3>2. PICK g : g = starts[wanted].got
        OBVIOUS
    <3>3. ~Used(g)'
        BY <1>4, <3>1, <3>2
    <3> QED BY <3>2, <3>3 DEF Used
  <2> QED BY <2>1, <2>2 DEF SessionsFresh, Used
<1> QED BY <1>2, <1>3, <1>5 DEF Serving

\* Nothing is told.
LEMMA NothingQueued ==
    ASSUME DocTypes, dq' = dq, session' = session
    PROVE  dq' = dq \o <<>> /\ <<>> \in Seq(Ops) /\ DOMAIN <<>> = {} /\ \A p : WaitMoved(p, 0)
<1>1. dq' = dq \o <<>> /\ <<>> \in Seq(Ops) /\ DOMAIN <<>> = {}
    BY DEF DocTypes
<1>2. \A p : WaitMoved(p, 0)
    BY <1>1, QueueGrows DEF DocTypes
<1> QED BY <1>1, <1>2

\* The window tells the server nothing, nor changes what it has; sessions may end.
LEMMA UntoldKeeps ==
    ASSUME DocsInv, current' \in 0..MaxLinks, alive' \in SUBSET alive,
           UNCHANGED <<models, session, starts, wanted, calls, docs, attached, dq>>
    PROVE  DocsInv'
<1>1. DocTypes /\ StartsCome /\ SessionsFresh
    BY DEF DocsInv
<1>2. DocTypes' /\ StartsCome' /\ SessionsFresh' /\ (Serving' => Serving)
  <2>1. dq' = dq \o <<>> /\ <<>> \in Seq(Ops) /\ DOMAIN <<>> = {}
      BY <1>1, NothingQueued
  <2>2. attached' \in SUBSET Paths /\ IsFiniteSet(attached') /\ models' \in [(1..MaxLinks) \X Paths -> Nat]
      BY <1>1 DEF DocTypes
  <2> QED BY <1>1, <2>1, <2>2, QueuedKeeps
<1>3. ASSUME Serving, NEW p \in Paths PROVE Synced(p)'
  <2>1. Synced(p)
      BY <1>3 DEF DocsInv
  <2>2. dq \in Seq(Ops) /\ dq' \in Seq(Ops) /\ WaitMoved(p, 0) /\ Has(p)' = Has(p) /\ Now(p)' = Now(p)
      BY <1>1, NothingQueued DEF DocTypes, Has, Now
  <2> QED BY <2>1, <2>2, SyncedStays
<1> QED BY <1>2, <1>3 DEF DocsInv

\* Operations for some paths join, each about what becomes of its path.
LEMMA ToldKeeps ==
    ASSUME DocsInv, current' \in 0..MaxLinks, session # None, NEW S \in SUBSET Paths, NEW ops, OneFor(ops, S), dq' = dq \o ops,
           attached' \in SUBSET Paths, IsFiniteSet(attached'), models' \in [(1..MaxLinks) \X Paths -> Nat],
           UNCHANGED <<session, starts, wanted, calls, alive, docs>>,
           \A p \in Paths \ S : (p \in attached' <=> p \in attached) /\ (p \in attached => Now(p)' = Now(p)),
           \A k \in DOMAIN ops :
              LET e == ops[k]
                  p == ops[k].path IN
              /\ e.conn = session.conn /\ (e.op # "close" => e.num # 0 /\ e.num = models'[<<session.conn, p>>])
              /\ \/ e.op = "open" /\ p \notin attached /\ p \in attached'
                 \/ e.op = "change" /\ p \in attached /\ p \in attached' /\ e.from = Now(p)
                 \/ e.op = "close" /\ p \in attached /\ p \notin attached'
    PROVE  DocsInv'
<1>1. DocTypes /\ StartsCome /\ SessionsFresh
    BY DEF DocsInv
<1>2. ops \in Seq(Ops) /\ \A k \in DOMAIN ops : ops[k].on = session.id
    BY DEF OneFor
<1>3. DocTypes' /\ StartsCome' /\ SessionsFresh' /\ (Serving' => Serving)
    BY <1>1, <1>2, QueuedKeeps
<1>4. dq \in Seq(Ops) /\ dq' \in Seq(Ops)
    BY <1>1, <1>3 DEF DocTypes
<1>5. ASSUME Serving, NEW p \in Paths PROVE Synced(p)'
  <2>1. Synced(p) /\ Has(p)' = Has(p)
      BY <1>5 DEF DocsInv, Has
  <2>2. CASE p \notin S
    <3>1. WaitMoved(p, 0)
        BY <1>4, <2>2, QueueGrowsFor
    <3> QED BY <1>4, <2>1, <2>2, <3>1, SyncedStays
  <2>3. CASE p \in S
    <3>1. PICK k \in DOMAIN ops : ops[k].path = p /\ WaitComes(p, Len(dq) + k, ops[k])
        BY <1>4, <2>3, QueueGrowsFor
    <3>2. Now(p)' = models'[<<session.conn, p>>]
        BY DEF Now
    <3>3. PICK e, q : e = ops[k] /\ q = Len(dq) + k
        OBVIOUS
    <3>4. /\ e.conn = session.conn /\ (e.op # "close" => e.num # 0 /\ e.num = Now(p)')
          /\ \/ e.op = "open" /\ p \notin attached /\ p \in attached'
             \/ e.op = "change" /\ p \in attached /\ p \in attached' /\ e.from = Now(p)
             \/ e.op = "close" /\ p \in attached /\ p \notin attached'
        BY <3>1, <3>2, <3>3
    <3> QED BY <1>4, <2>1, <3>1, <3>3, <3>4, SyncedComes
  <2> QED BY <2>2, <2>3
<1> QED BY <1>3, <1>5 DEF DocsInv

\* The server is told nothing, of models that are not attached.
LEMMA SilentKeeps ==
    ASSUME DocsInv, current' \in 0..MaxLinks, models' \in [(1..MaxLinks) \X Paths -> Nat],
           session # None => \A p \in Paths : p \in attached => Now(p)' = Now(p),
           UNCHANGED <<session, starts, wanted, calls, alive, docs, attached, dq>>
    PROVE  DocsInv'
<1>1. DocTypes /\ StartsCome /\ SessionsFresh
    BY DEF DocsInv
<1>2. DocTypes' /\ StartsCome' /\ SessionsFresh' /\ (Serving' => Serving)
  <2>1. dq' = dq \o <<>> /\ <<>> \in Seq(Ops) /\ DOMAIN <<>> = {}
      BY <1>1, NothingQueued
  <2>2. attached' \in SUBSET Paths /\ IsFiniteSet(attached')
      BY <1>1 DEF DocTypes
  <2> QED BY <1>1, <2>1, <2>2, QueuedKeeps
<1>3. ASSUME Serving, NEW p \in Paths PROVE Synced(p)'
  <2>1. Synced(p) /\ session # None
      BY <1>3 DEF DocsInv, Serving
  <2>2. dq \in Seq(Ops) /\ dq' \in Seq(Ops) /\ WaitMoved(p, 0) /\ Has(p)' = Has(p) /\ (p \in attached => Now(p)' = Now(p))
      BY <1>1, <2>1, NothingQueued DEF DocTypes, Has
  <2> QED BY <2>1, <2>2, SyncedStays
<1> QED BY <1>2, <1>3 DEF DocsInv

LEMMA ModelBecomesKeeps ==
    ASSUME DocsInv, current' \in 0..MaxLinks, NEW c, NEW q \in Paths, NEW text \in Nat \ {0}, ModelBecomes(<<c, q>>, text)
    PROVE  DocsInv'
<1>1. DocTypes /\ MaxLinks \in Nat
    BY LinksAssumption DEF DocsInv
<1>2. models' = [models EXCEPT ![<<c, q>>] = text] /\ UNCHANGED <<session, starts, wanted, calls, alive, docs>>
    BY DEF ModelBecomes
<1>3. models' \in [(1..MaxLinks) \X Paths -> Nat] /\ attached \in SUBSET Paths /\ IsFiniteSet(attached)
    BY <1>1, <1>2 DEF DocTypes
<1>4. /\ session # None => /\ session.id \in Nat /\ session.conn \in 1..MaxLinks /\ session.conn \in Nat
                           /\ \A p \in Paths : p # q \/ session.conn # c => Now(p)' = Now(p)
      /\ session # None /\ session.conn = c => Now(q)' = text /\ models'[<<c, q>>] = text
  <2>1. ASSUME session # None
        PROVE  session.id \in Nat /\ session.conn \in 1..MaxLinks /\ session.conn \in Nat
      BY <1>1, <2>1 DEF DocTypes
  <2>2. \A x \in 1..MaxLinks, p \in Paths : models'[<<x, p>>] = IF x = c /\ p = q THEN text ELSE models[<<x, p>>]
      BY <1>1, <1>2 DEF DocTypes
  <2> QED BY <1>2, <2>1, <2>2 DEF Now
<1>5. CASE session # None /\ session.conn = c /\ q \in attached
  <2> DEFINE e == Doc("change", q, models[<<c, q>>], text)
  <2>1. attached' = attached /\ dq' = Append(dq, e)
      BY <1>5 DEF ModelBecomes
  <2>2. e \in Ops /\ e.path = q /\ e.on = session.id /\ e.op = "change" /\ e.num = text /\ e.conn = session.conn /\ e.from = Now(q)
    <3>1. models[<<c, q>>] \in Nat
        BY <1>1, <1>4, <1>5 DEF DocTypes
    <3> QED BY <1>4, <1>5, <3>1 DEF Doc, Ops, Now
  <2> HIDE DEF e
  <2>3. dq' = dq \o <<e>>
      BY <1>1, <2>1, <2>2 DEF DocTypes
  <2>4. OneFor(<<e>>, {q}) /\ DOMAIN <<e>> = {1} /\ <<e>>[1] = e
      BY <2>2, JustOne
  <2>5. models'[<<session.conn, q>>] = text
      BY <1>4, <1>5
  <2>6. PICK ops : ops = <<e>>
      OBVIOUS
  <2>7. \A k \in DOMAIN ops : ops[k] = e
      BY <2>4, <2>6
  <2>8. \A p \in Paths \ {q} : (p \in attached' <=> p \in attached) /\ (p \in attached => Now(p)' = Now(p))
      BY <1>4, <1>5, <2>1
  <2>9. OneFor(ops, {q}) /\ dq' = dq \o ops /\ {q} \in SUBSET Paths
      BY <2>3, <2>4, <2>6
  <2>10. \A k \in DOMAIN ops :
            LET d == ops[k]
                p == ops[k].path IN
            /\ d.conn = session.conn /\ (d.op # "close" => d.num # 0 /\ d.num = models'[<<session.conn, p>>])
            /\ \/ d.op = "open" /\ p \notin attached /\ p \in attached'
               \/ d.op = "change" /\ p \in attached /\ p \in attached' /\ d.from = Now(p)
               \/ d.op = "close" /\ p \in attached /\ p \notin attached'
      BY <1>5, <2>1, <2>2, <2>5, <2>7
  <2> QED BY <1>2, <1>3, <1>5, <2>1, <2>8, <2>9, <2>10, ToldKeeps
<1>6. CASE session # None /\ session.conn = c /\ q \notin attached /\ models[<<c, q>>] = 0 /\ <<c, q>> \in Ids(tabs)
  <2> DEFINE e == Doc("open", q, 0, text)
  <2>1. attached' = attached \cup {q} /\ dq' = Append(dq, e)
      BY <1>6 DEF ModelBecomes
  <2>2. e \in Ops /\ e.path = q /\ e.on = session.id /\ e.op = "open" /\ e.num = text /\ e.conn = session.conn
      BY <1>4, <1>6 DEF Doc, Ops
  <2> HIDE DEF e
  <2>3. dq' = dq \o <<e>>
      BY <1>1, <2>1, <2>2 DEF DocTypes
  <2>4. OneFor(<<e>>, {q}) /\ DOMAIN <<e>> = {1} /\ <<e>>[1] = e
      BY <2>2, JustOne
  <2>5. models'[<<session.conn, q>>] = text
      BY <1>4, <1>6
  <2>6. PICK ops : ops = <<e>>
      OBVIOUS
  <2>7. \A k \in DOMAIN ops : ops[k] = e
      BY <2>4, <2>6
  <2>8. \A p \in Paths \ {q} : (p \in attached' <=> p \in attached) /\ (p \in attached => Now(p)' = Now(p))
      BY <1>4, <1>6, <2>1
  <2>9. OneFor(ops, {q}) /\ dq' = dq \o ops /\ {q} \in SUBSET Paths
      BY <2>3, <2>4, <2>6
  <2>10. \A k \in DOMAIN ops :
            LET d == ops[k]
                p == ops[k].path IN
            /\ d.conn = session.conn /\ (d.op # "close" => d.num # 0 /\ d.num = models'[<<session.conn, p>>])
            /\ \/ d.op = "open" /\ p \notin attached /\ p \in attached'
               \/ d.op = "change" /\ p \in attached /\ p \in attached' /\ d.from = Now(p)
               \/ d.op = "close" /\ p \in attached /\ p \notin attached'
      BY <1>6, <2>1, <2>2, <2>5, <2>7
  <2>11. attached' \in SUBSET Paths /\ IsFiniteSet(attached')
      BY <1>3, <2>1, FS_AddElement
  <2> QED BY <1>2, <1>3, <1>6, <2>8, <2>9, <2>10, <2>11, ToldKeeps
<1>7. CASE dq' = dq /\ attached' = attached /\ ~(session # None /\ session.conn = c /\ q \in attached)
    BY <1>1, <1>2, <1>3, <1>4, <1>7, SilentKeeps
<1>8. \/ session # None /\ session.conn = c /\ q \in attached
      \/ session # None /\ session.conn = c /\ q \notin attached /\ models[<<c, q>>] = 0 /\ <<c, q>> \in Ids(tabs)
      \/ dq' = dq /\ attached' = attached /\ ~(session # None /\ session.conn = c /\ q \in attached)
    BY DEF ModelBecomes
<1> QED BY <1>5, <1>6, <1>7, <1>8

LEMMA DisposeKeeps ==
    ASSUME DocsInv, current' \in 0..MaxLinks, NEW c, NEW q \in Paths, Dispose(<<c, q>>)
    PROVE  DocsInv'
<1>1. DocTypes /\ MaxLinks \in Nat
    BY LinksAssumption DEF DocsInv
<1>2. models' = [models EXCEPT ![<<c, q>>] = 0] /\ UNCHANGED <<session, starts, wanted, calls, alive, docs>>
    BY DEF Dispose
<1>3. models' \in [(1..MaxLinks) \X Paths -> Nat] /\ attached \in SUBSET Paths /\ IsFiniteSet(attached)
    BY <1>1, <1>2 DEF DocTypes
<1>4. session # None => /\ session \in [id : Nat, conn : Nat]
                        /\ \A p \in Paths : p # q \/ session.conn # c => Now(p)' = Now(p)
  <2>1. ASSUME session # None
        PROVE  session \in [id : Nat, conn : Nat] /\ session.conn \in 1..MaxLinks
      BY <1>1, <2>1 DEF DocTypes
  <2>2. \A x \in 1..MaxLinks, p \in Paths : models'[<<x, p>>] = IF x = c /\ p = q THEN 0 ELSE models[<<x, p>>]
      BY <1>1, <1>2 DEF DocTypes
  <2> QED BY <1>2, <2>1, <2>2 DEF Now
<1>5. CASE session # None /\ session.conn = c /\ q \in attached
  <2>1. attached' = attached \ {q} /\ dq' = dq \o Closes({q})
      BY <1>5 DEF Dispose
  <2>2. IsFiniteSet({q}) /\ {q} \in SUBSET Paths /\ IsFiniteSet(attached')
      BY <1>3, <2>1, FS_Singleton, FS_RemoveElement
  <2>3. OneFor(Closes({q}), {q}) /\ \A k \in DOMAIN Closes({q}) : Closes({q})[k] = Doc("close", Closes({q})[k].path, 0, 0)
      BY <1>4, <1>5, <2>2, ClosesFor
  <2>4. PICK ops : ops = Closes({q})
      OBVIOUS
  <2>5. OneFor(ops, {q}) /\ dq' = dq \o ops
      BY <2>1, <2>3, <2>4
  <2>6. \A k \in DOMAIN ops : ops[k].path = q /\ ops[k].op = "close" /\ ops[k].conn = session.conn
    <3>1. \A k \in DOMAIN ops : ops[k].path \in {q}
        BY <2>5 DEF OneFor
    <3>2. \A k \in DOMAIN ops : ops[k] = Doc("close", ops[k].path, 0, 0)
        BY <2>3, <2>4
    <3>3. ASSUME NEW k \in DOMAIN ops PROVE ops[k].op = "close" /\ ops[k].conn = session.conn
      <4>1. PICK x : x = ops[k].path
          OBVIOUS
      <4>2. ops[k] = Doc("close", x, 0, 0)
          BY <3>2, <4>1
      <4> QED BY <4>2 DEF Doc
    <3> QED BY <3>1, <3>3
  <2>7. \A p \in Paths \ {q} : (p \in attached' <=> p \in attached) /\ (p \in attached => Now(p)' = Now(p))
      BY <1>4, <1>5, <2>1
  <2>8. \A k \in DOMAIN ops :
            LET d == ops[k]
                p == ops[k].path IN
            /\ d.conn = session.conn /\ (d.op # "close" => d.num # 0 /\ d.num = models'[<<session.conn, p>>])
            /\ \/ d.op = "open" /\ p \notin attached /\ p \in attached'
               \/ d.op = "change" /\ p \in attached /\ p \in attached' /\ d.from = Now(p)
               \/ d.op = "close" /\ p \in attached /\ p \notin attached'
      BY <1>5, <2>1, <2>6
  <2>9. attached' \in SUBSET Paths
      BY <1>3, <2>1
  <2> QED BY <1>2, <1>3, <1>5, <2>2, <2>5, <2>7, <2>8, <2>9, ToldKeeps
<1>6. CASE ~(session # None /\ session.conn = c /\ q \in attached)
  <2>1. dq' = dq /\ attached' = attached
      BY <1>6 DEF Dispose
  <2> QED BY <1>2, <1>3, <1>4, <1>6, <2>1, SilentKeeps
<1> QED BY <1>5, <1>6

\* The tabs effect.
LEMMA FollowKeeps ==
    ASSUME DocsInv, current' \in 0..MaxLinks, NEW ts \in Seq(TabSet), Follow(ts)
    PROVE  DocsInv'
<1>1. DocTypes /\ MaxLinks \in Nat
    BY LinksAssumption DEF DocsInv
<1>2. CASE session = None
  <2>1. UNCHANGED docVars
      BY <1>2 DEF Follow
  <2> QED BY <2>1, UntoldKeeps DEF docVars
<1>3. CASE session # None
  <2>1. PICK A, G : A = Attachable(models, ts, session) /\ G = {p \in attached : <<session.conn, p>> \notin Ids(ts)}
      OBVIOUS
  <2>2. /\ attached' = (attached \cup A) \ G
        /\ dq' = dq \o Opens(models, ts) \o Closes(G)
        /\ UNCHANGED <<models, session, starts, wanted, calls, alive, docs>>
      BY <1>3, <2>1 DEF Follow
  <2>3. /\ A \in SUBSET Paths /\ A \cap attached = {}
        /\ \A p \in A : models[<<session.conn, p>>] # 0 /\ <<session.conn, p>> \in Ids(ts)
      BY <2>1 DEF Attachable
  <2>4. /\ G \in SUBSET Paths /\ G \in SUBSET attached /\ A \cap G = {}
      BY <1>1, <2>1, <2>3 DEF DocTypes
  <2>5. IsFiniteSet(attached) /\ attached \in SUBSET Paths /\ IsFiniteSet(A) /\ IsFiniteSet(G)
    <3>1. IsFiniteSet(attached) /\ attached \in SUBSET Paths
        BY <1>1 DEF DocTypes
    <3>2. PICK c : c = session.conn
        OBVIOUS
    <3>3. \A p \in A : <<c, p>> \in Ids(ts)
        BY <2>3, <3>2
    <3>4. IsFiniteSet(A)
        BY <3>3, AttachableFinite
    <3> QED BY <2>4, <3>1, <3>4, FS_Subset
  <2>6. session \in [id : Nat, conn : 1..MaxLinks] /\ session \in [id : Nat, conn : Nat]
    <3>1. session \in [id : DOMAIN docs, conn : 1..MaxLinks]
        BY <1>1, <1>3 DEF DocTypes
    <3>2. DOMAIN docs \subseteq Nat /\ 1..MaxLinks \subseteq Nat
        BY <1>1 DEF DocTypes
    <3> QED BY <3>1, <3>2
  <2>7. PICK a, b : a = Opens(models, ts) /\ b = Closes(G)
      OBVIOUS
  <2>8. /\ OneFor(a, A)
        /\ \A k \in DOMAIN a : a[k] = Doc("open", a[k].path, 0, models[<<session.conn, a[k].path>>])
    <3>1. models \in [(1..MaxLinks) \X Paths -> Nat]
        BY <1>1 DEF DocTypes
    <3>2. IsFiniteSet(Attachable(models, ts, session))
        BY <2>1, <2>5
    <3>3. PICK ms : ms = models
        OBVIOUS
    <3>4. /\ OneFor(Opens(ms, ts), Attachable(ms, ts, session))
          /\ \A k \in DOMAIN Opens(ms, ts) :
                Opens(ms, ts)[k] = Doc("open", Opens(ms, ts)[k].path, 0, ms[<<session.conn, Opens(ms, ts)[k].path>>])
      <4>1. ms \in [(1..MaxLinks) \X Paths -> Nat] /\ IsFiniteSet(Attachable(ms, ts, session))
          BY <3>1, <3>2, <3>3
      <4> QED BY <1>3, <2>6, <4>1, OpensFor
    <3> QED BY <2>1, <2>7, <3>3, <3>4
  <2>9. OneFor(b, G) /\ \A k \in DOMAIN b : b[k] = Doc("close", b[k].path, 0, 0)
    <3>1. OneFor(Closes(G), G) /\ \A k \in DOMAIN Closes(G) : Closes(G)[k] = Doc("close", Closes(G)[k].path, 0, 0)
        BY <1>3, <2>4, <2>5, <2>6, ClosesFor
    <3> QED BY <2>7, <3>1
  <2>10. PICK ops, S : ops = a \o b /\ S = A \cup G
      OBVIOUS
  <2>11. /\ OneFor(ops, S)
         /\ \A k \in DOMAIN ops : \/ ops[k].path \in A /\ \E l \in DOMAIN a : ops[k] = a[l]
                                  \/ ops[k].path \in G /\ \E l \in DOMAIN b : ops[k] = b[l]
    <3>1. /\ OneFor(a \o b, A \cup G)
          /\ \A k \in DOMAIN (a \o b) : \/ (a \o b)[k].path \in A /\ \E l \in DOMAIN a : (a \o b)[k] = a[l]
                                        \/ (a \o b)[k].path \in G /\ \E l \in DOMAIN b : (a \o b)[k] = b[l]
      <4>1. OneFor(a, A) /\ OneFor(b, G) /\ A \cap G = {}
          BY <2>4, <2>8, <2>9
      <4> QED BY <4>1, BothFor
    <3> QED BY <2>10, <3>1
  <2>12. dq' = dq \o ops
    <3>1. a \in Seq(Ops) /\ b \in Seq(Ops) /\ dq \in Seq(Ops)
        BY <1>1, <2>8, <2>9 DEF OneFor, DocTypes
    <3>2. (dq \o a) \o b = dq \o (a \o b)
        BY <3>1, ConcatAssociative
    <3> QED BY <2>2, <2>7, <2>10, <3>2
  <2>13. attached' \in SUBSET Paths /\ IsFiniteSet(attached') /\ S \in SUBSET Paths
    <3>1. IsFiniteSet(attached \cup A)
        BY <2>5, FS_Union
    <3>2. attached' \in SUBSET (attached \cup A)
        BY <2>2
    <3>3. IsFiniteSet(attached')
        BY <3>1, <3>2, FS_Subset
    <3> QED BY <2>3, <2>4, <2>5, <2>10, <3>2, <3>3
  <2>14. \A p \in Paths \ S : (p \in attached' <=> p \in attached) /\ (p \in attached => Now(p)' = Now(p))
      BY <2>2, <2>10 DEF Now
  <2>15. ASSUME NEW k \in DOMAIN ops
         PROVE  LET d == ops[k]
                    p == ops[k].path IN
                /\ d.conn = session.conn /\ (d.op # "close" => d.num # 0 /\ d.num = models'[<<session.conn, p>>])
                /\ \/ d.op = "open" /\ p \notin attached /\ p \in attached'
                   \/ d.op = "change" /\ p \in attached /\ p \in attached' /\ d.from = Now(p)
                   \/ d.op = "close" /\ p \in attached /\ p \notin attached'
    <3>1. PICK d, p : d = ops[k] /\ p = ops[k].path
        OBVIOUS
    <3>2. CASE p \in A /\ \E l \in DOMAIN a : d = a[l]
      <4>1. d = Doc("open", p, 0, models[<<session.conn, p>>])
          BY <2>8, <3>1, <3>2
      <4>2. d.op = "open" /\ d.conn = session.conn /\ d.num = models[<<session.conn, p>>]
          BY <4>1 DEF Doc
      <4>3. p \notin attached /\ p \in attached' /\ d.num # 0 /\ d.num = models'[<<session.conn, p>>]
          BY <2>2, <2>3, <2>4, <3>2, <4>2
      <4> QED BY <3>1, <4>2, <4>3
    <3>3. CASE p \in G /\ \E l \in DOMAIN b : d = b[l]
      <4>1. d = Doc("close", p, 0, 0)
          BY <2>9, <3>1, <3>3
      <4>2. d.op = "close" /\ d.conn = session.conn
          BY <4>1 DEF Doc
      <4>3. p \in attached /\ p \notin attached'
          BY <2>2, <2>4, <3>3
      <4> QED BY <3>1, <4>2, <4>3
    <3> QED BY <2>11, <3>1, <3>2, <3>3
  <2>16. models' \in [(1..MaxLinks) \X Paths -> Nat]
      BY <1>1, <2>2 DEF DocTypes
  <2> QED BY <1>3, <2>2, <2>11, <2>12, <2>13, <2>14, <2>15, <2>16, ToldKeeps
<1> QED BY <1>2, <1>3

\* The session effect.
LEMMA RestartPlaces ==
    ASSUME NEW C \in Nat, NEW O \in {0, 1}, NEW N \in {0, 1}
    PROVE  /\ \A i \in 1..(C + O + N) : i \in 1..C \/ (O = 1 /\ i = C + 1) \/ (N = 1 /\ i = C + O + 1)
           /\ \A i \in 1..C : i < C + 1 /\ i < C + O + 1 /\ i \in 1..(C + O + N) /\ i \in 1..(C + O) /\ i \in Int
           /\ N = 1 => C + O + 1 \in 1..(C + O + N)
           /\ O = 1 => C + 1 \in 1..(C + O + N) /\ C + 1 \in 1..(C + O) /\ (N = 1 => C + 1 < C + O + 1)
           /\ C + O \in Nat /\ C + N \in Nat /\ C <= C + N
           /\ \A i \in 1..(C + N) : i \in 1..C \/ (N = 1 /\ i = C + 1)
           /\ \A d \in Nat : \A i \in (d + 1)..(C + N) : i \in (d + 1)..C \/ (N = 1 /\ i = C + 1)
<1>1. CASE O = 0 /\ N = 0
    BY <1>1
<1>2. CASE O = 0 /\ N = 1
    BY <1>2
<1>3. CASE O = 1 /\ N = 0
    BY <1>3
<1>4. CASE O = 1 /\ N = 1
    BY <1>4
<1> QED BY <1>1, <1>2, <1>3, <1>4

LEMMA RestartKeeps ==
    ASSUME DocsInv, current' \in 0..MaxLinks, NEW key \in 0..MaxLinks, Restart(key)
    PROVE  DocsInv'
<1>1. DocTypes /\ StartsCome /\ SessionsFresh /\ MaxLinks \in Nat
    BY LinksAssumption DEF DocsInv
<1>2. PICK C, S, D : C = Len(calls) /\ S = Len(starts) /\ D = Len(docs)
    OBVIOUS
<1>3. /\ C \in Nat /\ S \in Nat /\ D \in Nat /\ DOMAIN calls = 1..C /\ DOMAIN starts = 1..S /\ DOMAIN docs = 1..D
      /\ wanted \in 0..S /\ D <= S /\ starts \in Seq(Starts) /\ calls \in Seq(Int \ {0})
    BY <1>1, <1>2 DEF DocTypes, StartsCome
<1>4. PICK old : old = IF session = None THEN <<>> ELSE <<-session.id>>
    OBVIOUS
<1>5. PICK new : new = IF key = 0 THEN <<>> ELSE <<S + 1>>
    OBVIOUS
<1>6. /\ session' = None /\ attached' = {}
      /\ wanted' = IF key = 0 THEN 0 ELSE S + 1
      /\ starts' = IF key = 0 THEN starts ELSE Append(starts, [conn |-> key, at |-> "asked", got |-> 0])
      /\ calls' = calls \o old \o new
      /\ UNCHANGED <<models, alive, docs, dq>>
    BY <1>2, <1>4, <1>5 DEF Restart
<1>7. session # None => session.id \in Nat \ {0} /\ session.id \in DOMAIN docs
    BY <1>1, <1>3 DEF DocTypes
<1>8. \/ session = None /\ Len(old) = 0 /\ old \in Seq(Int \ {0})
      \/ session # None /\ Len(old) = 1 /\ old[1] = -session.id /\ old \in Seq(Int \ {0})
  <2>1. CASE session = None
      BY <1>4, <2>1
  <2>2. CASE session # None
    <3>1. PICK x \in Int \ {0} : x = -session.id
        BY <1>7, <2>2
    <3>2. old = <<x>>
        BY <1>4, <2>2, <3>1
    <3>3. Len(old) = 1 /\ old[1] = x /\ old \in Seq(Int \ {0})
        BY <3>2
    <3> QED BY <2>2, <3>1, <3>3
  <2> QED BY <2>1, <2>2
<1>9. \/ key = 0 /\ Len(new) = 0 /\ new \in Seq(Int \ {0})
      \/ key # 0 /\ Len(new) = 1 /\ new[1] = S + 1 /\ new \in Seq(Int \ {0})
  <2>1. CASE key = 0
      BY <1>5, <2>1
  <2>2. CASE key # 0
    <3>1. PICK x \in Int \ {0} : x = S + 1
        BY <1>3
    <3>2. new = <<x>>
        BY <1>5, <2>2, <3>1
    <3>3. Len(new) = 1 /\ new[1] = x /\ new \in Seq(Int \ {0})
        BY <3>2
    <3> QED BY <2>2, <3>1, <3>3
  <2> QED BY <2>1, <2>2
\* What is added to the calls.
<1>10. PICK O, N \in {0, 1} : O = Len(old) /\ N = Len(new)
    BY <1>8, <1>9
<1>11. /\ calls' \in Seq(Int \ {0}) /\ DOMAIN calls' = 1..(C + O + N)
       /\ \A i \in 1..C : calls'[i] = calls[i]
       /\ O = 1 => calls'[C + 1] = old[1]
       /\ N = 1 => calls'[C + O + 1] = new[1]
  <2>1. PICK m : m = calls \o old
      OBVIOUS
  <2>2. /\ m \in Seq(Int \ {0}) /\ Len(m) = C + O /\ \A i \in 1..C : m[i] = calls[i]
        /\ O = 1 => m[C + 1] = old[1]
      BY <1>2, <1>3, <1>8, <1>10, <2>1
  <2>3. calls' = m \o new
      BY <1>6, <2>1
  <2>4. m \in Seq(Int \ {0}) /\ new \in Seq(Int \ {0}) /\ Len(m) = C + O /\ Len(new) = N /\ C + O \in Nat
      BY <1>3, <1>9, <1>10, <2>2, RestartPlaces
  <2>5. /\ calls' \in Seq(Int \ {0}) /\ Len(calls') = C + O + N /\ (N = 1 => calls'[C + O + 1] = new[1])
        /\ \A i \in 1..(C + O) : calls'[i] = m[i]
      BY <2>3, <2>4
  <2>6. 1..C \subseteq 1..(C + O) /\ (O = 1 => C + 1 \in 1..(C + O))
      BY <1>3, RestartPlaces
  <2> QED BY <2>2, <2>5, <2>6
<1>12. \A i \in 1..(C + O + N) : i \in 1..C \/ (O = 1 /\ i = C + 1) \/ (N = 1 /\ i = C + O + 1)
    BY <1>3, RestartPlaces
<1>13. \A i \in 1..C : i < C + 1 /\ i < C + O + 1 /\ i \in 1..(C + O + N) /\ i \in Int
    BY <1>3, RestartPlaces
<1>14. (N = 1 <=> key # 0) /\ (O = 1 <=> session # None) /\ (N = 1 => C + O + 1 \in 1..(C + O + N)) /\ (O = 1 => C + 1 \in 1..(C + O + N) /\ (N = 1 => C + 1 < C + O + 1))
  <2>1. (N = 1 <=> key # 0) /\ (O = 1 <=> session # None)
      BY <1>8, <1>9, <1>10
  <2> QED BY <1>3, <2>1, RestartPlaces
<1>15. \A i \in 1..(C + O + N) :
          /\ calls'[i] > 0 => (i \in 1..C /\ calls'[i] = calls[i]) \/ (N = 1 /\ i = C + O + 1 /\ calls'[i] = S + 1)
          /\ calls'[i] = S + 1 => N = 1 /\ i = C + O + 1
  <2> SUFFICES ASSUME NEW i \in 1..(C + O + N)
               PROVE  /\ calls'[i] > 0 => (i \in 1..C /\ calls'[i] = calls[i]) \/ (N = 1 /\ i = C + O + 1 /\ calls'[i] = S + 1)
                      /\ calls'[i] = S + 1 => N = 1 /\ i = C + O + 1
      OBVIOUS
  <2>1. CASE i \in 1..C
    <3>1. calls'[i] = calls[i] /\ calls[i] \in Int
        BY <1>3, <1>11, <2>1
    <3>2. calls[i] > 0 => calls[i] \in (D + 1)..S
        BY <1>1, <1>2, <1>3, <2>1 DEF StartsCome
    <3>3. PICK v \in Int : v = calls[i]
        BY <3>1
    <3>4. v # S + 1
        BY <1>3, <3>2, <3>3
    <3> QED BY <2>1, <3>1, <3>3, <3>4
  <2>2. CASE O = 1 /\ i = C + 1
    <3>1. calls'[i] = -session.id /\ session.id \in Nat \ {0}
        BY <1>7, <1>8, <1>10, <1>11, <2>2
    <3>2. PICK x \in Nat \ {0} : x = session.id
        BY <3>1
    <3>3. calls'[i] = -x
        BY <3>1, <3>2
    <3>4. calls'[i] < 0 /\ calls'[i] \in Int
        BY <3>3
    <3> QED BY <1>3, <3>4
  <2>3. CASE N = 1 /\ i = C + O + 1
      BY <1>9, <1>10, <1>11, <2>3
  <2> QED BY <1>12, <2>1, <2>2, <2>3
<1>16. /\ starts' \in Seq(Starts) /\ DOMAIN starts' = 1..(S + N) /\ Len(starts') = S + N /\ \A n \in 1..S : starts'[n] = starts[n]
       /\ N = 1 => starts'[S + 1].at = "asked"
  <2>1. CASE key = 0
      BY <1>2, <1>3, <1>6, <1>9, <1>10, <2>1
  <2>2. CASE key # 0
    <3>1. PICK r : r = [conn |-> key, at |-> "asked", got |-> 0]
        OBVIOUS
    <3>2. r \in Starts /\ r.at = "asked"
        BY <1>1, <2>2, <3>1 DEF Starts
    <3>3. starts' = Append(starts, r)
        BY <1>6, <2>2, <3>1
    <3> QED BY <1>2, <1>3, <1>14, <2>2, <3>2, <3>3
  <2> QED BY <2>1, <2>2
<1>17. \A n \in 1..(S + N) : n \in 1..S \/ (N = 1 /\ n = S + 1)
    BY <1>3, RestartPlaces
<1>18. wanted' = IF N = 1 THEN S + 1 ELSE 0
    BY <1>6, <1>14
<1>19. DocTypes'
  <2>1. wanted' \in 0..Len(starts')
    <3>1. CASE N = 1
        BY <1>3, <1>16, <1>18, <3>1
    <3>2. CASE N = 0
        BY <1>3, <1>16, <1>18, <3>2
    <3> QED BY <1>10, <3>1, <3>2
  <2>2. IsFiniteSet({})
      BY FS_EmptySet
  <2> QED BY <1>1, <1>6, <1>11, <1>16, <2>1, <2>2 DEF DocTypes
<1>20. StartsCome'
  <2>1. Len(docs') <= Len(starts') /\ Len(docs') = D /\ Len(starts') = S + N /\ S + N \in Nat /\ S <= S + N
      BY <1>2, <1>3, <1>6, <1>16, RestartPlaces
  <2>2. ASSUME NEW i \in DOMAIN calls', calls'[i] > 0 PROVE calls'[i] \in (D + 1)..(S + N)
    <3>1. CASE i \in 1..C /\ calls'[i] = calls[i]
      <4>1. calls[i] \in (D + 1)..S
          BY <1>1, <1>2, <1>3, <2>2, <3>1 DEF StartsCome
      <4> QED BY <1>3, <2>1, <3>1, <4>1
    <3>2. CASE N = 1 /\ calls'[i] = S + 1
        BY <1>3, <3>2
    <3> QED BY <1>11, <1>15, <2>2, <3>1, <3>2
  <2>3. ASSUME NEW i \in DOMAIN calls', NEW j \in DOMAIN calls', calls'[i] > 0, calls'[j] > 0, i < j
        PROVE  calls'[i] < calls'[j]
    <3>1. CASE j \in 1..C /\ calls'[j] = calls[j]
      <4>1. i \in 1..C
        <5>1. ~(i = C + O + 1)
            BY <1>13, <1>3, <1>10, <2>3, <3>1
        <5> QED BY <1>11, <1>15, <2>3, <5>1
      <4> QED BY <1>1, <1>3, <1>11, <2>3, <3>1, <4>1 DEF StartsCome
    <3>2. CASE N = 1 /\ j = C + O + 1 /\ calls'[j] = S + 1
      <4>1. i # C + O + 1
          BY <1>3, <1>10, <2>3, <3>2
      <4>2. i \in 1..C /\ calls'[i] = calls[i]
          BY <1>11, <1>15, <2>3, <4>1
      <4>3. calls[i] \in (D + 1)..S
          BY <1>1, <1>2, <1>3, <2>3, <4>2 DEF StartsCome
      <4> QED BY <1>3, <3>2, <4>2, <4>3
    <3> QED BY <1>11, <1>15, <2>3, <3>1, <3>2
  <2>4. ASSUME NEW v \in (D + 1)..(S + N) PROVE \E i \in DOMAIN calls' : calls'[i] = v
    <3>1. v \in (D + 1)..S \/ (N = 1 /\ v = S + 1)
        BY <1>3, RestartPlaces
    <3>2. CASE v \in (D + 1)..S
      <4>1. PICK i \in DOMAIN calls : calls[i] = v
          BY <1>1, <1>2, <3>2 DEF StartsCome
      <4> QED BY <1>3, <1>11, <1>13, <4>1
    <3>3. CASE N = 1 /\ v = S + 1
        BY <1>9, <1>10, <1>11, <1>14, <3>3
    <3> QED BY <3>1, <3>2, <3>3
  <2>5. ASSUME NEW n \in DOMAIN starts'
        PROVE  /\ n > D => starts'[n].at = "asked"
               /\ starts'[n].at = "given" => starts'[n].got \in DOMAIN docs
    <3>1. CASE n \in 1..S
        BY <1>1, <1>2, <1>3, <1>16, <3>1 DEF StartsCome
    <3>2. CASE N = 1 /\ n = S + 1
        BY <1>16, <3>2
    <3> QED BY <1>16, <1>17, <3>1, <3>2
  <2> QED BY <1>6, <2>1, <2>2, <2>3, <2>4, <2>5 DEF StartsCome
<1>21. SessionsFresh'
  <2>1. ASSUME NEW s \in alive, Used(s)
        PROVE  \E i \in DOMAIN calls' : calls'[i] = -s /\ \A j \in DOMAIN calls' : calls'[j] = wanted' => i < j
    <3>0. \A j \in DOMAIN calls' : calls'[j] = wanted' => N = 1 /\ j = C + O + 1
      <4>1. \A j \in DOMAIN calls' : calls'[j] # 0
        <5>1. PICK f \in Seq(Int \ {0}) : f = calls'
            BY <1>11
        <5>2. \A j \in DOMAIN f : f[j] \in Int \ {0}
            OBVIOUS
        <5> QED BY <5>1, <5>2
      <4> QED BY <1>11, <1>15, <1>18, <4>1
    <3>1. CASE session # None /\ session.id = s
      <4>1. calls'[C + 1] = -s /\ C + 1 \in DOMAIN calls' /\ (N = 1 => C + 1 < C + O + 1)
          BY <1>8, <1>10, <1>11, <1>14, <3>1
      <4> QED BY <3>0, <4>1
    <3>2. CASE \E i \in DOMAIN calls : calls[i] = -s
      <4>1. PICK i \in DOMAIN calls : calls[i] = -s
          BY <3>2
      <4>2. calls'[i] = -s /\ i \in DOMAIN calls' /\ i < C + O + 1
          BY <1>3, <1>11, <1>13, <4>1
      <4> QED BY <3>0, <4>2
    <3> QED BY <1>1, <2>1, <3>1, <3>2 DEF SessionsFresh
  <2>2. wanted' # 0 => starts'[wanted'].at # "given"
      BY <1>16, <1>18
  <2>3. alive' = alive /\ \A s : Used(s)' <=> Used(s)
      BY <1>6 DEF Used
  <2> QED BY <2>1, <2>2, <2>3 DEF SessionsFresh
<1> QED BY <1>6, <1>19, <1>20, <1>21 DEF DocsInv, Serving

\* A session nobody used becomes the active one: every path's document is new.
LEMMA SyncedStarts ==
    ASSUME NEW p, Has(p)' = 0,
           \/ p \notin attached' /\ \A i : ~(Waits(i, p))'
           \/ /\ p \in attached' /\ Now(p)' # 0
              /\ \E q \in Int : /\ \A i : (Waits(i, p))' <=> i = q
                                /\ dq'[q].op = "open" /\ dq'[q].num = Now(p)' /\ dq'[q].conn = session'.conn
    PROVE  Synced(p)'
<1>1. CASE p \notin attached' /\ \A i : ~(Waits(i, p))'
  <2>1. Sane(p)' /\ Chained(p)' /\ Results(p)'
      BY <1>1 DEF Sane, Chained, Results
  <2>2. Finds(p)' /\ Agrees(p)' /\ Modelled(p)' /\ Closed(p)'
      BY <1>1 DEF Finds, Agrees, Modelled, Closed
  <2> QED BY <2>1, <2>2 DEF Synced
<1>2. CASE /\ p \in attached' /\ Now(p)' # 0
           /\ \E q \in Int : /\ \A i : (Waits(i, p))' <=> i = q
                             /\ dq'[q].op = "open" /\ dq'[q].num = Now(p)' /\ dq'[q].conn = session'.conn
  <2>1. PICK q \in Int : /\ \A i : (Waits(i, p))' <=> i = q
                         /\ dq'[q].op = "open" /\ dq'[q].num = Now(p)' /\ dq'[q].conn = session'.conn
      BY <1>2
  <2>2. ~(q < q)
      OBVIOUS
  <2>3. Sane(p)' /\ Results(p)'
      BY <1>2, <2>1 DEF Sane, Results
  <2>4. Chained(p)'
      BY <2>1, <2>2 DEF Chained
  <2>5. Finds(p)'
      BY <2>1 DEF Finds
  <2>6. Agrees(p)' /\ Modelled(p)' /\ Closed(p)'
      BY <1>2, <2>1 DEF Agrees, Modelled, Closed
  <2> QED BY <2>3, <2>4, <2>5, <2>6 DEF Synced
<1> QED BY <1>1, <1>2

\* What an answered start leaves of the order of starts and stops.
LEMMA AnsweredStart ==
    ASSUME DocTypes, StartsCome, NEW n, StartAnswered(n)
    PROVE  /\ n \in DOMAIN starts /\ starts[n].got \in DOMAIN docs /\ n <= Len(docs) /\ starts[n].conn \in 1..MaxLinks
           /\ starts' \in Seq(Starts) /\ DOMAIN starts' = DOMAIN starts /\ Len(starts') = Len(starts)
           /\ \A m \in DOMAIN starts : /\ m # n => starts'[m] = starts[m]
                                       /\ starts'[m].got = starts[m].got
           /\ starts'[n].at = "over"
           /\ \A m \in DOMAIN starts' :
                 /\ m > Len(docs) => starts'[m].at = "asked"
                 /\ starts'[m].at = "given" => starts'[m].got \in DOMAIN docs
<1>1. n \in DOMAIN starts /\ starts[n].at = "given" /\ starts' = [starts EXCEPT ![n].at = "over"]
    BY DEF StartAnswered
<1>2. starts \in Seq(Starts) /\ docs \in Seq([Paths -> Int])
    BY DEF DocTypes
<1>3. starts[n] \in Starts
    BY <1>1, <1>2
<1>4. PICK r : r = [starts[n] EXCEPT !.at = "over"]
    OBVIOUS
<1>5. r \in Starts /\ r.at = "over" /\ r.got = starts[n].got /\ r.conn = starts[n].conn
    BY <1>3, <1>4 DEF Starts
<1>6. starts' = [starts EXCEPT ![n] = r]
    BY <1>1, <1>4
<1>7. starts' \in Seq(Starts) /\ DOMAIN starts' = DOMAIN starts /\ Len(starts') = Len(starts)
      /\ starts'[n] = r /\ \A m \in DOMAIN starts : m # n => starts'[m] = starts[m]
    BY <1>1, <1>2, <1>5, <1>6
<1>8. n <= Len(docs) /\ starts[n].got \in DOMAIN docs
  <2>1. n > Len(docs) => starts[n].at = "asked"
      BY <1>1 DEF StartsCome
  <2>2. n \in Nat /\ Len(docs) \in Nat
      BY <1>1, <1>2
  <2> QED BY <1>1, <2>1, <2>2 DEF StartsCome
<1>9. ASSUME NEW m \in DOMAIN starts'
      PROVE  /\ m > Len(docs) => starts'[m].at = "asked"
             /\ starts'[m].at = "given" => starts'[m].got \in DOMAIN docs
  <2>1. CASE m = n
    <3>1. ~(n > Len(docs))
        BY <1>1, <1>2, <1>8
    <3> QED BY <1>5, <1>7, <2>1, <3>1
  <2>2. CASE m # n
      BY <1>7, <2>2 DEF StartsCome
  <2> QED BY <2>1, <2>2
<1>10. starts[n].conn \in 1..MaxLinks
    BY <1>3 DEF Starts
<1> QED BY <1>1, <1>5, <1>7, <1>8, <1>9, <1>10

LEMMA UnwantedStartKeeps ==
    ASSUME DocsInv, current' \in 0..MaxLinks, NEW n, StartAnswered(n), n # wanted
    PROVE  DocsInv'
<1>1. DocTypes /\ StartsCome /\ SessionsFresh
    BY DEF DocsInv
<1>2. calls' = Append(calls, -starts[n].got) /\ UNCHANGED <<session, attached, dq, models, wanted, alive, docs>>
    BY DEF StartAnswered
<1>3. /\ n \in DOMAIN starts /\ starts[n].got \in DOMAIN docs
      /\ starts' \in Seq(Starts) /\ DOMAIN starts' = DOMAIN starts /\ Len(starts') = Len(starts)
      /\ \A m \in DOMAIN starts : m # n => starts'[m] = starts[m]
      /\ starts'[n].at = "over"
      /\ \A m \in DOMAIN starts' :
            /\ m > Len(docs) => starts'[m].at = "asked"
            /\ starts'[m].at = "given" => starts'[m].got \in DOMAIN docs
    BY <1>1, AnsweredStart
<1>4. PICK C, x : C = Len(calls) /\ x = -starts[n].got
    OBVIOUS
<1>5. x \in Int \ {0} /\ ~(x > 0) /\ x < 0
  <2>1. PICK g \in Nat \ {0} : g = starts[n].got
      BY <1>1, <1>3 DEF DocTypes
  <2>2. x = -g
      BY <1>4, <2>1
  <2> QED BY <2>2
<1>6. /\ C \in Nat /\ calls' \in Seq(Int \ {0}) /\ DOMAIN calls' = 1..(C + 1) /\ DOMAIN calls = 1..C
      /\ calls'[C + 1] = x /\ \A i \in 1..C : calls'[i] = calls[i]
    BY <1>1, <1>2, <1>4, <1>5 DEF DocTypes
<1>7. \A i \in 1..(C + 1) : i \in 1..C \/ i = C + 1
    BY <1>6
<1>8. \A i \in 1..C : i \in 1..(C + 1)
    BY <1>6
<1>9. DocTypes'
    BY <1>1, <1>2, <1>3, <1>6 DEF DocTypes
<1>10. wanted \in Nat /\ (wanted # 0 => wanted \in DOMAIN starts /\ starts'[wanted] = starts[wanted])
  <2>1. starts \in Seq(Starts) /\ wanted \in 0..Len(starts)
      BY <1>1 DEF DocTypes
  <2> QED BY <1>3, <2>1
<1>11. StartsCome'
  <2>1. ASSUME NEW i \in DOMAIN calls', calls'[i] > 0 PROVE i \in DOMAIN calls /\ calls'[i] = calls[i]
      BY <1>5, <1>6, <1>7, <2>1
  <2>2. \A i \in DOMAIN calls' : calls'[i] > 0 => calls'[i] \in (Len(docs) + 1)..Len(starts)
      BY <1>1, <2>1 DEF StartsCome
  <2>3. \A i, j \in DOMAIN calls' : calls'[i] > 0 /\ calls'[j] > 0 /\ i < j => calls'[i] < calls'[j]
      BY <1>1, <2>1 DEF StartsCome
  <2>4. ASSUME NEW v \in (Len(docs) + 1)..Len(starts) PROVE \E i \in DOMAIN calls' : calls'[i] = v
    <3>1. PICK i \in DOMAIN calls : calls[i] = v
        BY <1>1 DEF StartsCome
    <3> QED BY <1>6, <1>8, <3>1
  <2>5. Len(docs) <= Len(starts) /\ (session # None /\ wanted # 0 => starts'[wanted].at = "over")
      BY <1>1, <1>10 DEF StartsCome
  <2> QED BY <1>2, <1>3, <2>2, <2>3, <2>4, <2>5 DEF StartsCome
<1>12. SessionsFresh'
  <2>1. \A s : Used(s)' <=> Used(s)
      BY <1>2 DEF Used
  <2>2. ASSUME NEW s \in alive, Used(s)
        PROVE  \/ session # None /\ session.id = s
               \/ \E i \in DOMAIN calls' : calls'[i] = -s /\ \A j \in DOMAIN calls' : calls'[j] = wanted => i < j
    <3>1. CASE session # None /\ session.id = s
        BY <3>1
    <3>2. CASE \E i \in DOMAIN calls : calls[i] = -s /\ \A j \in DOMAIN calls : calls[j] = wanted => i < j
      <4>1. PICK i \in DOMAIN calls : calls[i] = -s /\ \A j \in DOMAIN calls : calls[j] = wanted => i < j
          BY <3>2
      <4>2. ASSUME NEW j \in DOMAIN calls', calls'[j] = wanted PROVE j \in DOMAIN calls /\ calls[j] = wanted
        <5>1. x # wanted
            BY <1>5, <1>10
        <5> QED BY <1>6, <1>7, <4>2, <5>1
      <4> QED BY <1>6, <1>8, <4>1, <4>2
    <3> QED BY <1>1, <2>2, <3>1, <3>2 DEF SessionsFresh
  <2>3. wanted # 0 /\ starts'[wanted].at = "given" /\ starts'[wanted].got \in alive => ~Used(starts[wanted].got)
      BY <1>1, <1>10 DEF SessionsFresh
  <2>4. PICK g : g = starts[wanted].got
      OBVIOUS
  <2>5. wanted # 0 => starts'[wanted].got = g
      BY <1>10, <2>4
  <2>6. wanted # 0 /\ starts'[wanted].at = "given" /\ g \in alive => ~Used(g)'
      BY <2>1, <2>3, <2>4, <2>5
  <2>7. wanted # 0 /\ starts'[wanted].at = "given" /\ starts'[wanted].got \in alive => (~Used(starts[wanted].got))'
    <3> SUFFICES ASSUME wanted # 0, starts'[wanted].at = "given", starts'[wanted].got \in alive PROVE ~Used(g)'
        BY <1>2, <2>5 DEF Used
    <3> QED BY <2>5, <2>6
  <2> QED BY <1>2, <2>1, <2>2, <2>7 DEF SessionsFresh, Used
<1>13. ASSUME Serving, NEW p \in Paths PROVE Synced(p)'
  <2>1. Synced(p)
      BY <1>13 DEF DocsInv
  <2>2. dq \in Seq(Ops) /\ dq' \in Seq(Ops) /\ WaitMoved(p, 0) /\ Has(p)' = Has(p) /\ Now(p)' = Now(p)
      BY <1>1, <1>2, NothingQueued DEF DocTypes, Has, Now
  <2> QED BY <1>2, <2>1, <2>2, SyncedStays
<1> QED BY <1>2, <1>9, <1>11, <1>12, <1>13 DEF DocsInv, Serving

LEMMA WantedStartKeeps ==
    ASSUME DocsInv, tabs \in Seq(TabSet), current' \in 0..MaxLinks, NEW n, StartAnswered(n), n = wanted
    PROVE  DocsInv'
<1>1. DocTypes /\ StartsCome /\ SessionsFresh /\ MaxLinks \in Nat
    BY LinksAssumption DEF DocsInv
<1>2. /\ n \in DOMAIN starts /\ starts[n].got \in DOMAIN docs /\ starts[n].conn \in 1..MaxLinks
      /\ starts' \in Seq(Starts) /\ DOMAIN starts' = DOMAIN starts /\ Len(starts') = Len(starts)
      /\ starts'[n].at = "over"
      /\ \A m \in DOMAIN starts' :
            /\ m > Len(docs) => starts'[m].at = "asked"
            /\ starts'[m].at = "given" => starts'[m].got \in DOMAIN docs
    BY <1>1, AnsweredStart
<1>3. starts[n].at = "given" /\ n # 0
  <2>1. starts \in Seq(Starts)
      BY <1>1 DEF DocTypes
  <2>2. n # 0
      BY <1>2, <2>1
  <2> QED BY <2>2 DEF StartAnswered
<1>4. session = None
    BY <1>3 DEF DocsInv, StartsCome
<1>5. PICK s : s = [id |-> starts[n].got, conn |-> starts[n].conn]
    OBVIOUS
<1>6. PICK S : S = {p \in Paths : models[<<s.conn, p>>] # 0 /\ <<s.conn, p>> \in Ids(tabs)}
    OBVIOUS
<1>7. PICK ps : ps = SetToSeq(S)
    OBVIOUS
<1>8. PICK ops : ops = [k \in DOMAIN ps |-> [op |-> "open", path |-> ps[k], on |-> s.id, conn |-> s.conn,
                                             from |-> 0, num |-> models[<<s.conn, ps[k]>>]]]
    OBVIOUS
<1>9. session' = s /\ attached' = ToSet(ps) /\ dq' = dq \o ops /\ UNCHANGED <<calls, models, wanted, alive, docs>>
    BY <1>5, <1>6, <1>7, <1>8 DEF StartAnswered
<1>10. s.id \in DOMAIN docs /\ s.conn \in 1..MaxLinks /\ s \in [id : DOMAIN docs, conn : 1..MaxLinks]
       /\ s.id \in Nat /\ s.conn \in Nat /\ s # None
  <2>1. s.id \in DOMAIN docs /\ s.conn \in 1..MaxLinks /\ s \in [id : DOMAIN docs, conn : 1..MaxLinks]
      BY <1>2, <1>5
  <2>2. s \in [id : Nat, conn : Nat] /\ s.id \in Nat /\ s.conn \in Nat
    <3>1. DOMAIN docs \subseteq Nat /\ 1..MaxLinks \subseteq Nat
        BY <1>1 DEF DocTypes
    <3> QED BY <2>1, <3>1
  <2> QED BY <2>1, <2>2, DocsAssumption
<1>11. IsFiniteSet(S) /\ S \in SUBSET Paths
  <2>1. PICK c : c = s.conn
      OBVIOUS
  <2>2. \A p \in S : <<c, p>> \in Ids(tabs)
      BY <1>6, <2>1
  <2>3. PICK ts \in Seq(TabSet) : ts = tabs
      OBVIOUS
  <2>4. \A p \in S : <<c, p>> \in Ids(ts)
      BY <2>2, <2>3
  <2>5. IsFiniteSet(S)
      BY <2>4, AttachableFinite
  <2> QED BY <1>6, <2>5
<1>12. PICK N \in Nat : /\ ps \in [1..N -> S]
                        /\ \A k, l \in 1..N : ps[k] = ps[l] => k = l
                        /\ \A x \in S : \E k \in 1..N : ps[k] = x
  <2>1. /\ SetToSeq(S) \in [1..Cardinality(S) -> S] /\ Cardinality(S) \in Nat
        /\ \A k, l \in 1..Cardinality(S) : SetToSeq(S)[k] = SetToSeq(S)[l] => k = l
        /\ \A x \in S : \E k \in 1..Cardinality(S) : SetToSeq(S)[k] = x
      BY <1>11, OneAfterAnother
  <2> QED BY <1>7, <2>1
<1>13. attached' = S
  <2>1. DOMAIN ps = 1..N
      BY <1>12
  <2> QED BY <1>9, <1>12, <2>1 DEF ToSet
<1>14. \A k \in 1..N : /\ ops[k] \in Ops /\ ops[k].op = "open" /\ ops[k].path = ps[k] /\ ops[k].on = s.id /\ ops[k].conn = s.conn
                       /\ ops[k].num = models[<<s.conn, ps[k]>>]
  <2> SUFFICES ASSUME NEW k \in 1..N
               PROVE  /\ ops[k] \in Ops /\ ops[k].op = "open" /\ ops[k].path = ps[k] /\ ops[k].on = s.id /\ ops[k].conn = s.conn
                      /\ ops[k].num = models[<<s.conn, ps[k]>>]
      OBVIOUS
  <2>1. PICK q, m : q = ps[k] /\ m = models[<<s.conn, q>>]
      OBVIOUS
  <2>2. q \in Paths /\ m \in Nat
      BY <1>1, <1>10, <1>11, <1>12, <2>1 DEF DocTypes
  <2>3. ops[k] = [op |-> "open", path |-> q, on |-> s.id, conn |-> s.conn, from |-> 0, num |-> m]
      BY <1>8, <1>12, <2>1
  <2> QED BY <1>10, <2>1, <2>2, <2>3 DEF Ops
<1>15. ops \in Seq(Ops) /\ DOMAIN ops = 1..N /\ Len(ops) = N
  <2>1. DOMAIN ops = 1..N
      BY <1>8, <1>12
  <2>2. ops = [k \in 1..N |-> ops[k]]
      BY <1>8, <1>12
  <2>3. \A k \in 1..N : ops[k] \in Ops
      BY <1>14
  <2>4. ops \in [1..N -> Ops]
      BY <2>1, <2>2, <2>3
  <2> QED BY <2>4
<1>16. PICK M \in Nat : M = Len(dq)
    BY <1>1 DEF DocTypes
<1>17. /\ dq' \in Seq(Ops) /\ DOMAIN dq = 1..M /\ DOMAIN dq' = 1..(M + N)
       /\ \A i \in 1..M : dq'[i] = dq[i]
       /\ \A k \in 1..N : dq'[M + k] = ops[k]
  <2>1. dq \in Seq(Ops)
      BY <1>1 DEF DocTypes
  <2>2. dq' = dq \o ops
      BY <1>9
  <2>3. ops \in Seq(Ops) /\ Len(ops) = N /\ Len(dq) = M
      BY <1>15, <1>16
  <2>4. dq' \in Seq(Ops) /\ Len(dq') = M + N
    <3>1. dq \o ops \in Seq(Ops) /\ Len(dq \o ops) = Len(dq) + Len(ops)
        BY <2>1, <2>3, ConcatProperties
    <3> QED BY <2>2, <2>3, <3>1
  <2>5. DOMAIN dq = 1..M /\ DOMAIN dq' = 1..(M + N)
      BY <2>1, <2>3, <2>4
  <2>6. (\A i \in 1..M : dq'[i] = dq[i]) /\ \A k \in 1..N : dq'[M + k] = ops[k]
      BY <2>1, <2>2, <2>3
  <2> QED BY <2>4, <2>5, <2>6
<1>18. \A i \in 1..(M + N) : i \in 1..M \/ (i - M \in 1..N /\ M + (i - M) = i)
    OBVIOUS
<1>19. DocTypes'
  <2>1. ASSUME NEW i \in DOMAIN dq' PROVE dq'[i].on \in DOMAIN docs
    <3>1. CASE i \in 1..M
        BY <1>1, <1>17, <3>1 DEF DocTypes
    <3>2. CASE i - M \in 1..N /\ M + (i - M) = i
      <4>1. dq'[i] = ops[i - M]
          BY <1>17, <3>2
      <4> QED BY <1>10, <1>14, <3>2, <4>1
    <3> QED BY <1>17, <1>18, <3>1, <3>2
  <2> QED BY <1>1, <1>2, <1>9, <1>10, <1>11, <1>13, <1>17, <2>1 DEF DocTypes
<1>20. StartsCome'
    BY <1>1, <1>2, <1>9 DEF StartsCome
<1>21. SessionsFresh'
  <2>1. ASSUME NEW t \in alive', Used(t)'
        PROVE  \/ session' # None /\ session'.id = t
               \/ \E i \in DOMAIN calls : calls[i] = -t /\ \A j \in DOMAIN calls : calls[j] = wanted => i < j
    <3>1. Used(t) \/ \E k \in DOMAIN ops : ops[k].on = t
        BY <1>1, <1>9, <1>15, <2>1, UsedGrows DEF DocTypes
    <3>2. CASE Used(t)
        BY <1>1, <1>4, <1>9, <3>2 DEF SessionsFresh
    <3>3. CASE \E k \in DOMAIN ops : ops[k].on = t
        BY <1>9, <1>10, <1>14, <1>15, <3>3
    <3> QED BY <3>1, <3>2, <3>3
  <2>2. starts'[wanted'].at # "given"
      BY <1>2, <1>9
  <2> QED BY <1>9, <2>1, <2>2 DEF SessionsFresh
<1>22. ASSUME Serving', NEW p \in Paths PROVE Synced(p)'
  <2>1. s.id \in alive /\ ~Used(s.id)
    <3>1. s.id \in alive /\ s.id = starts[wanted].got
        BY <1>5, <1>9, <1>22 DEF Serving
    <3>2. wanted # 0 /\ starts[wanted].at = "given" /\ starts[wanted].got \in alive
        BY <1>3, <3>1
    <3>3. ~Used(starts[wanted].got)
        BY <1>1, <3>2 DEF SessionsFresh
    <3> QED BY <3>1, <3>3
  <2>2. Has(p)' = 0
      BY <1>9, <2>1 DEF Has, Used
  <2>3. \A i : (Waits(i, p))' <=> \E k \in 1..N : i = M + k /\ ps[k] = p
    <3>1. ASSUME NEW i, (Waits(i, p))' PROVE \E k \in 1..N : i = M + k /\ ps[k] = p
      <4>1. i \in 1..(M + N) /\ dq'[i].path = p /\ dq'[i].on = s.id
          BY <1>9, <1>17, <3>1 DEF Waits
      <4>2. i \notin 1..M
          BY <1>17, <2>1, <4>1 DEF Used
      <4>3. i - M \in 1..N /\ M + (i - M) = i
          BY <1>18, <4>1, <4>2
      <4>4. dq'[i] = ops[i - M]
          BY <1>17, <4>3
      <4> QED BY <1>14, <4>1, <4>3, <4>4
    <3>2. ASSUME NEW k \in 1..N, ps[k] = p PROVE (Waits(M + k, p))'
      <4>1. M + k \in 1..(M + N)
          OBVIOUS
      <4>2. PICK i : i = M + k
          OBVIOUS
      <4>3. (Waits(i, p))'
          BY <1>9, <1>14, <1>17, <3>2, <4>1, <4>2 DEF Waits
      <4> QED BY <4>2, <4>3
    <3> QED BY <3>1, <3>2
  <2>4. CASE p \in S
    <3>1. PICK k \in 1..N : ps[k] = p
        BY <1>12, <2>4
    <3>2. \A l \in 1..N : ps[l] = p => l = k
        BY <1>12, <3>1
    <3>3. PICK q \in Int : q = M + k
        OBVIOUS
    <3>4. \A i : (Waits(i, p))' <=> i = q
        BY <2>3, <3>1, <3>2, <3>3
    <3>5. Now(p)' = models[<<s.conn, p>>] /\ Now(p)' # 0
        BY <1>6, <1>9, <2>4 DEF Now
    <3>6. dq'[q] = ops[k]
        BY <1>17, <3>3
    <3>7. dq'[q].op = "open" /\ dq'[q].num = Now(p)' /\ dq'[q].conn = session'.conn
        BY <1>9, <1>14, <3>1, <3>5, <3>6
    <3> QED BY <1>13, <2>2, <2>4, <3>4, <3>5, <3>7, SyncedStarts
  <2>5. CASE p \notin S
    <3>1. \A i : ~(Waits(i, p))'
        BY <1>12, <2>3, <2>5
    <3> QED BY <1>13, <2>2, <2>5, <3>1, SyncedStarts
  <2> QED BY <2>4, <2>5
<1> QED BY <1>19, <1>20, <1>21, <1>22 DEF DocsInv

-----------------------------------------------------------------------------
(* The steps of the main process.                                           *)

\* What is left of the calls when the first is taken.
LEMMA CallTaken ==
    ASSUME DocTypes, calls # <<>>, calls' = Tail(calls)
    PROVE  /\ Head(calls) = calls[1] /\ 1 \in DOMAIN calls /\ calls' \in Seq(Int \ {0})
           /\ \A i \in DOMAIN calls' : i \in Int /\ i + 1 \in DOMAIN calls /\ 1 < i + 1 /\ calls'[i] = calls[i + 1]
           /\ \A i \in DOMAIN calls : i \in Int /\ (i = 1 \/ (1 < i /\ i - 1 \in DOMAIN calls' /\ (i - 1) + 1 = i))
<1>1. calls \in Seq(Int \ {0})
    BY DEF DocTypes
<1>2. PICK N \in Nat \ {0} : N = Len(calls)
    BY <1>1
<1>3. /\ Head(calls) = calls[1] /\ calls' \in Seq(Int \ {0}) /\ DOMAIN calls = 1..N /\ DOMAIN calls' = 1..(N - 1)
      /\ \A i \in 1..(N - 1) : calls'[i] = calls[i + 1]
    BY <1>1, <1>2
<1>4. \A i \in 1..(N - 1) : i \in Int /\ i + 1 \in 1..N /\ 1 < i + 1
    OBVIOUS
<1>5. \A i \in 1..N : i \in Int /\ (i = 1 \/ (1 < i /\ i - 1 \in 1..(N - 1) /\ (i - 1) + 1 = i))
    OBVIOUS
<1> QED BY <1>3, <1>4, <1>5

\* A stop is at the place before, now.
LEMMA StopComesFirst ==
    ASSUME DocTypes, calls # <<>>, calls' = Tail(calls), NEW s, Head(calls) # -s,
           \E i \in DOMAIN calls : calls[i] = -s /\ \A j \in DOMAIN calls : calls[j] = wanted => i < j
    PROVE  \E i \in DOMAIN calls' : calls'[i] = -s /\ \A j \in DOMAIN calls' : calls'[j] = wanted => i < j
<1>1. PICK i \in DOMAIN calls : calls[i] = -s /\ \A j \in DOMAIN calls : calls[j] = wanted => i < j
    OBVIOUS
<1>2. /\ Head(calls) = calls[1]
      /\ \A k \in DOMAIN calls' : k \in Int /\ k + 1 \in DOMAIN calls /\ 1 < k + 1 /\ calls'[k] = calls[k + 1]
      /\ \A k \in DOMAIN calls : k \in Int /\ (k = 1 \/ (1 < k /\ k - 1 \in DOMAIN calls' /\ (k - 1) + 1 = k))
    BY CallTaken
<1>3. i # 1
    BY <1>1, <1>2
<1>4. PICK l : l = i - 1
    OBVIOUS
<1>5. l \in DOMAIN calls' /\ l + 1 = i /\ l \in Int
    BY <1>1, <1>2, <1>3, <1>4
<1>6. ASSUME NEW j \in DOMAIN calls', calls'[j] = wanted PROVE l < j
  <2>1. i < j + 1 /\ j \in Int
      BY <1>1, <1>2, <1>6
  <2> QED BY <1>5, <2>1
<1>7. calls'[l] = -s
    BY <1>1, <1>2, <1>5
<1> QED BY <1>5, <1>6, <1>7

LEMMA StopServedKeeps ==
    ASSUME DocsInv, current' \in 0..MaxLinks, StopServed
    PROVE  DocsInv'
<1>1. DocTypes /\ StartsCome /\ SessionsFresh
    BY DEF DocsInv
<1>2. /\ calls # <<>> /\ Head(calls) < 0 /\ calls' = Tail(calls)
      /\ alive' = alive \ {-Head(calls)}
      /\ UNCHANGED <<models, session, starts, wanted, docs, attached, dq>>
    BY DEF StopServed
<1>3. /\ Head(calls) = calls[1] /\ 1 \in DOMAIN calls /\ calls' \in Seq(Int \ {0})
      /\ \A i \in DOMAIN calls' : i \in Int /\ i + 1 \in DOMAIN calls /\ 1 < i + 1 /\ calls'[i] = calls[i + 1]
      /\ \A i \in DOMAIN calls : i \in Int /\ (i = 1 \/ (1 < i /\ i - 1 \in DOMAIN calls' /\ (i - 1) + 1 = i))
    BY <1>1, <1>2, CallTaken
<1>4. DocTypes'
    BY <1>1, <1>2, <1>3 DEF DocTypes
<1>5. StartsCome'
  <2>1. \A i \in DOMAIN calls' : calls'[i] > 0 => calls'[i] \in (Len(docs) + 1)..Len(starts)
      BY <1>1, <1>3 DEF StartsCome
  <2>2. \A i, j \in DOMAIN calls' : calls'[i] > 0 /\ calls'[j] > 0 /\ i < j => calls'[i] < calls'[j]
    <3> SUFFICES ASSUME NEW i \in DOMAIN calls', NEW j \in DOMAIN calls', calls'[i] > 0, calls'[j] > 0, i < j
                 PROVE  calls'[i] < calls'[j]
        OBVIOUS
    <3>1. i + 1 < j + 1
        BY <1>3
    <3> QED BY <1>1, <1>3, <3>1 DEF StartsCome
  <2>3. ASSUME NEW v \in (Len(docs) + 1)..Len(starts) PROVE \E i \in DOMAIN calls' : calls'[i] = v
    <3>1. PICK i \in DOMAIN calls : calls[i] = v
        BY <1>1 DEF StartsCome
    <3>2. v > 0 /\ ~(v < 0)
      <4>1. Len(docs) \in Nat
          BY <1>1 DEF DocTypes
      <4> QED BY <4>1
    <3>3. i # 1
        BY <1>2, <1>3, <3>1, <3>2
    <3>4. PICK l : l = i - 1
        OBVIOUS
    <3>5. l \in DOMAIN calls' /\ l + 1 = i
        BY <1>3, <3>1, <3>3, <3>4
    <3> QED BY <1>3, <3>1, <3>5
  <2> QED BY <1>1, <1>2, <2>1, <2>2, <2>3 DEF StartsCome
<1>6. SessionsFresh'
  <2>1. \A s : Used(s)' <=> Used(s)
      BY <1>2 DEF Used
  <2>2. ASSUME NEW s \in alive', Used(s)
        PROVE  \/ session # None /\ session.id = s
               \/ \E i \in DOMAIN calls' : calls'[i] = -s /\ \A j \in DOMAIN calls' : calls'[j] = wanted => i < j
    <3>1. Head(calls) # -s
      <4>1. s \in Int /\ s # -Head(calls) /\ Head(calls) \in Int
          BY <1>1, <1>2, <1>3 DEF DocTypes
      <4>2. PICK h \in Int : h = Head(calls)
          BY <4>1
      <4>3. s # -h
          BY <4>1, <4>2
      <4> QED BY <4>1, <4>2, <4>3
    <3>2. \/ session # None /\ session.id = s
          \/ \E i \in DOMAIN calls : calls[i] = -s /\ \A j \in DOMAIN calls : calls[j] = wanted => i < j
        BY <1>1, <1>2, <2>2 DEF SessionsFresh
    <3> QED BY <1>1, <1>2, <3>1, <3>2, StopComesFirst
  <2>3. PICK g : g = starts[wanted].got
      OBVIOUS
  <2>4. wanted # 0 /\ starts[wanted].at = "given" /\ g \in alive' => ~Used(g)'
      BY <1>1, <1>2, <2>1, <2>3 DEF SessionsFresh
  <2>5. wanted' # 0 /\ starts'[wanted'].at = "given" /\ starts'[wanted'].got \in alive' => (~Used(starts[wanted].got))'
      BY <1>2, <2>3, <2>4 DEF Used
  <2> QED BY <1>2, <2>1, <2>2, <2>5 DEF SessionsFresh
<1>7. ASSUME Serving, NEW p \in Paths PROVE Synced(p)'
  <2>1. Synced(p)
      BY <1>7 DEF DocsInv
  <2>2. dq \in Seq(Ops) /\ dq' \in Seq(Ops) /\ WaitMoved(p, 0) /\ Has(p)' = Has(p) /\ Now(p)' = Now(p)
      BY <1>1, <1>2, NothingQueued DEF DocTypes, Has, Now
  <2> QED BY <1>2, <2>1, <2>2, SyncedStays
<1> QED BY <1>2, <1>4, <1>5, <1>6, <1>7 DEF DocsInv, Serving

LEMMA StartServedKeeps ==
    ASSUME DocsInv, current' \in 0..MaxLinks, StartServed
    PROVE  DocsInv'
<1>1. DocTypes /\ StartsCome /\ SessionsFresh
    BY DEF DocsInv
<1>2. PICK n : n = Head(calls)
    OBVIOUS
<1>3. PICK s : /\ calls # <<>> /\ n > 0 /\ calls' = Tail(calls)
               /\ \/ /\ s \in IF alive = {} THEN {n} ELSE alive
                     /\ alive' = alive \cup {s}
                     /\ starts' = [starts EXCEPT ![n].at = "given", ![n].got = s]
                  \/ alive = {} /\ alive' = alive /\ starts' = [starts EXCEPT ![n].at = "over"]
               /\ docs' = Append(docs, [p \in Paths |-> 0])
               /\ UNCHANGED <<models, session, wanted, attached, dq>>
    BY <1>2 DEF StartServed
<1>4. PICK D, S : D = Len(docs) /\ S = Len(starts)
    OBVIOUS
<1>5. /\ D \in Nat /\ S \in Nat /\ DOMAIN docs = 1..D /\ DOMAIN starts = 1..S
      /\ starts \in Seq(Starts) /\ docs \in Seq([Paths -> Int])
    BY <1>1, <1>4 DEF DocTypes
<1>6. /\ n = calls[1] /\ 1 \in DOMAIN calls /\ calls' \in Seq(Int \ {0})
      /\ \A i \in DOMAIN calls' : i \in Int /\ i + 1 \in DOMAIN calls /\ 1 < i + 1 /\ calls'[i] = calls[i + 1]
      /\ \A i \in DOMAIN calls : i \in Int /\ (i = 1 \/ (1 < i /\ i - 1 \in DOMAIN calls' /\ (i - 1) + 1 = i))
    BY <1>1, <1>2, <1>3, CallTaken
\* It is the next start to come.
<1>7. n = D + 1 /\ n \in 1..S /\ D + 1 <= S /\ n \notin DOMAIN docs
  <2>1. n \in (D + 1)..S
      BY <1>1, <1>3, <1>4, <1>6 DEF StartsCome
  <2>2. D + 1 \in (D + 1)..S
      BY <1>5, <2>1
  <2>3. PICK i \in DOMAIN calls : calls[i] = D + 1
      BY <1>1, <1>4, <2>2 DEF StartsCome
  <2>4. i = 1 \/ n < D + 1
    <3>1. CASE i # 1
      <4>1. 1 < i /\ calls[i] > 0 /\ calls[1] > 0
          BY <1>3, <1>5, <1>6, <2>3, <3>1
      <4>2. calls[1] < calls[i]
          BY <1>1, <1>6, <4>1 DEF StartsCome
      <4> QED BY <1>6, <2>3, <4>2
    <3> QED BY <3>1
  <2> QED BY <1>5, <1>6, <2>1, <2>3, <2>4
<1>8. starts[n] \in Starts /\ starts[n].at = "asked" /\ starts[n].conn \in 1..MaxLinks
  <2>1. starts[n] \in Starts
      BY <1>5, <1>7
  <2>2. n > D
      BY <1>5, <1>7
  <2> QED BY <1>1, <1>4, <1>5, <1>7, <2>1, <2>2 DEF StartsCome, Starts
<1>9. alive \in SUBSET DOMAIN docs /\ n \in Nat
    BY <1>1, <1>5, <1>7 DEF DocTypes
\* The session given: a new one, or the one there is.
<1>10. /\ alive' \subseteq alive \cup {n}
       /\ alive # {} => alive' = alive
       /\ starts' \in Seq(Starts) /\ DOMAIN starts' = 1..S /\ Len(starts') = S
       /\ \A m \in 1..S : m # n => starts'[m] = starts[m]
       /\ starts'[n].at = "over" \/ (starts'[n].at = "given" /\ starts'[n].got \in alive' /\ (alive # {} => starts'[n].got \in alive))
  <2>1. CASE /\ s \in IF alive = {} THEN {n} ELSE alive
             /\ alive' = alive \cup {s}
             /\ starts' = [starts EXCEPT ![n].at = "given", ![n].got = s]
    <3>1. s \in Nat
        BY <1>5, <1>9, <2>1
    <3>2. PICK r : r = [starts[n] EXCEPT !.at = "given", !.got = s]
        OBVIOUS
    <3>3. r \in Starts /\ r.at = "given" /\ r.got = s
        BY <1>8, <3>1, <3>2 DEF Starts
    <3>4. starts' = [starts EXCEPT ![n] = r]
        BY <2>1, <3>2
    <3>5. /\ starts' \in Seq(Starts) /\ DOMAIN starts' = 1..S /\ Len(starts') = S
          /\ starts'[n] = r /\ \A m \in 1..S : m # n => starts'[m] = starts[m]
        BY <1>4, <1>5, <1>7, <3>3, <3>4
    <3> QED BY <2>1, <3>3, <3>5
  <2>2. CASE alive = {} /\ alive' = alive /\ starts' = [starts EXCEPT ![n].at = "over"]
    <3>1. PICK r : r = [starts[n] EXCEPT !.at = "over"]
        OBVIOUS
    <3>2. r \in Starts /\ r.at = "over"
        BY <1>8, <3>1 DEF Starts
    <3>3. starts' = [starts EXCEPT ![n] = r]
        BY <2>2, <3>1
    <3>4. /\ starts' \in Seq(Starts) /\ DOMAIN starts' = 1..S /\ Len(starts') = S
          /\ starts'[n] = r /\ \A m \in 1..S : m # n => starts'[m] = starts[m]
        BY <1>4, <1>5, <1>7, <3>2, <3>3
    <3> QED BY <2>2, <3>2, <3>4
  <2> QED BY <1>3, <2>1, <2>2
<1>11. /\ docs' \in Seq([Paths -> Int]) /\ Len(docs') = D + 1 /\ DOMAIN docs' = 1..(D + 1)
       /\ \A m \in 1..D : docs'[m] = docs[m]
       /\ \A p \in Paths : docs'[n][p] = 0
  <2>1. PICK z : z = [p \in Paths |-> 0]
      OBVIOUS
  <2>2. z \in [Paths -> Int]
      BY <2>1
  <2>3. docs' = Append(docs, z)
      BY <1>3, <2>1
  <2>4. /\ docs' \in Seq([Paths -> Int]) /\ Len(docs') = D + 1 /\ DOMAIN docs' = 1..(D + 1)
        /\ \A m \in 1..D : docs'[m] = docs[m]
        /\ docs'[D + 1] = z
      BY <1>4, <1>5, <2>2, <2>3
  <2> QED BY <1>7, <2>1, <2>4
<1>12. \A m \in 1..D : m \in 1..(D + 1)
    BY <1>5
<1>13. DocTypes'
  <2>1. alive' \in SUBSET DOMAIN docs'
      BY <1>5, <1>7, <1>9, <1>10, <1>11, <1>12
  <2>2. session' # None => session' \in [id : DOMAIN docs', conn : 1..MaxLinks]
      BY <1>1, <1>3, <1>5, <1>11, <1>12 DEF DocTypes
  <2>3. wanted' \in 0..Len(starts')
      BY <1>1, <1>3, <1>4, <1>10 DEF DocTypes
  <2>4. \A i \in DOMAIN dq' : dq'[i].on \in DOMAIN docs'
      BY <1>1, <1>3, <1>5, <1>11, <1>12 DEF DocTypes
  <2> QED BY <1>1, <1>3, <1>6, <1>10, <1>11, <2>1, <2>2, <2>3, <2>4 DEF DocTypes
<1>14. wanted \in Nat /\ (wanted # 0 => wanted \in 1..S)
  <2>1. wanted \in 0..S
      BY <1>1, <1>4 DEF DocTypes
  <2> QED BY <1>5, <2>1
<1>15. session # None => wanted = 0 \/ (wanted # n /\ starts[wanted].at = "over")
    BY <1>1, <1>8 DEF StartsCome
<1>16. \A i \in DOMAIN calls' : calls'[i] > 0 => calls'[i] \in (D + 2)..S
  <2> SUFFICES ASSUME NEW i \in DOMAIN calls', calls'[i] > 0 PROVE calls'[i] \in (D + 2)..S
      OBVIOUS
  <2>1. PICK k, v : k = i + 1 /\ v = calls'[i]
      OBVIOUS
  <2>2. k \in DOMAIN calls /\ 1 < k /\ v = calls[k] /\ v > 0
      BY <1>6, <2>1
  <2>3. v \in (D + 1)..S
      BY <1>1, <1>4, <2>2 DEF StartsCome
  <2>4. calls[1] < v
      BY <1>1, <1>3, <1>6, <2>2 DEF StartsCome
  <2> QED BY <1>5, <1>6, <1>7, <2>1, <2>3, <2>4
<1>17. StartsCome'
  <2>1. ASSUME NEW i \in DOMAIN calls', calls'[i] > 0 PROVE calls'[i] \in (Len(docs') + 1)..Len(starts')
    <3>1. Len(docs') + 1 = D + 2 /\ Len(starts') = S
        BY <1>5, <1>10, <1>11
    <3> QED BY <1>16, <2>1, <3>1
  <2>2. ASSUME NEW i \in DOMAIN calls', NEW j \in DOMAIN calls', calls'[i] > 0, calls'[j] > 0, i < j
        PROVE  calls'[i] < calls'[j]
    <3>1. i + 1 < j + 1
        BY <1>6, <2>2
    <3> QED BY <1>1, <1>6, <2>2, <3>1 DEF StartsCome
  <2>3. ASSUME NEW v \in (Len(docs') + 1)..Len(starts') PROVE \E i \in DOMAIN calls' : calls'[i] = v
    <3>1. v \in (D + 1)..S /\ v # n
        BY <1>5, <1>7, <1>10, <1>11
    <3>2. PICK i \in DOMAIN calls : calls[i] = v
        BY <1>1, <1>4, <3>1 DEF StartsCome
    <3>3. i # 1
        BY <1>6, <3>1, <3>2
    <3>4. PICK l : l = i - 1
        OBVIOUS
    <3>5. l \in DOMAIN calls' /\ l + 1 = i
        BY <1>6, <3>2, <3>3, <3>4
    <3> QED BY <1>6, <3>2, <3>5
  <2>4. ASSUME NEW m \in DOMAIN starts'
        PROVE  /\ m > Len(docs') => starts'[m].at = "asked"
               /\ starts'[m].at = "given" => starts'[m].got \in DOMAIN docs'
    <3>1. CASE m = n
      <4>1. ~(m > Len(docs'))
          BY <1>5, <1>7, <1>11, <3>1
      <4>2. \A g \in alive' : g \in DOMAIN docs'
          BY <1>13 DEF DocTypes
      <4> QED BY <1>10, <3>1, <4>1, <4>2
    <3>2. CASE m # n
      <4>1. m \in 1..S /\ starts'[m] = starts[m]
          BY <1>10, <3>2
      <4>2. m > Len(docs') => m > D
          BY <1>5, <1>11, <4>1
      <4>3. (m > D => starts[m].at = "asked") /\ (starts[m].at = "given" => starts[m].got \in 1..D)
          BY <1>1, <1>4, <1>5, <4>1 DEF StartsCome
      <4> QED BY <1>11, <1>12, <4>1, <4>2, <4>3
    <3> QED BY <3>1, <3>2
  <2>5. Len(docs') <= Len(starts')
      BY <1>7, <1>10, <1>11
  <2>6. session' # None /\ wanted' # 0 => starts'[wanted'].at = "over"
      BY <1>3, <1>10, <1>14, <1>15
  <2> QED BY <2>1, <2>2, <2>3, <2>4, <2>5, <2>6 DEF StartsCome
<1>18. ~Used(n)'
    BY <1>1, <1>3, <1>5, <1>7, <1>11 DEF Used, DocTypes
<1>19. \A t \in 1..D : Used(t)' => Used(t)
    BY <1>3, <1>11 DEF Used
<1>20. SessionsFresh'
  <2>1. ASSUME NEW t \in alive', Used(t)'
        PROVE  \/ session # None /\ session.id = t
               \/ \E i \in DOMAIN calls' : calls'[i] = -t /\ \A j \in DOMAIN calls' : calls'[j] = wanted => i < j
    <3>1. t # n
        BY <1>18, <2>1
    <3>2. t \in alive /\ t \in 1..D /\ Used(t)
        BY <1>5, <1>9, <1>10, <1>19, <2>1, <3>1
    <3>3. \/ session # None /\ session.id = t
          \/ \E i \in DOMAIN calls : calls[i] = -t /\ \A j \in DOMAIN calls : calls[j] = wanted => i < j
        BY <1>1, <3>2 DEF SessionsFresh
    <3>4. Head(calls) # -t
        BY <1>2, <1>3, <1>5, <1>7, <3>2
    <3> QED BY <1>1, <1>3, <3>3, <3>4, StopComesFirst
  <2>2. PICK g : g = starts'[wanted].got
      OBVIOUS
  <2>3. ASSUME wanted # 0, starts'[wanted].at = "given", g \in alive' PROVE ~Used(g)'
    <3>1. CASE g = n
        BY <1>18, <3>1
    <3>2. CASE g # n /\ wanted # n
      <4>1. starts'[wanted] = starts[wanted]
          BY <1>10, <1>14, <2>3, <3>2
      <4>2. g \in alive /\ g \in 1..D
          BY <1>5, <1>9, <1>10, <2>3, <3>2
      <4>3. ~Used(g)
          BY <1>1, <2>2, <2>3, <4>1, <4>2 DEF SessionsFresh
      <4> QED BY <1>19, <4>2, <4>3
    <3>3. CASE g # n /\ wanted = n
      <4>1. g \in alive /\ g \in 1..D
          BY <1>5, <1>9, <1>10, <2>3, <3>3
      <4>2. session = None
          BY <1>15, <2>3, <3>3
      <4>3. ~Used(g)
        <5> SUFFICES ASSUME Used(g) PROVE FALSE
            OBVIOUS
        <5>1. PICK i \in DOMAIN calls : calls[i] = -g /\ \A j \in DOMAIN calls : calls[j] = wanted => i < j
            BY <1>1, <4>1, <4>2 DEF SessionsFresh
        <5>2. i < 1
            BY <1>6, <3>3, <5>1
        <5> QED BY <1>6, <5>1, <5>2
      <4> QED BY <1>19, <4>1, <4>3
    <3> QED BY <3>1, <3>2, <3>3
  <2>4. wanted' # 0 /\ starts'[wanted'].at = "given" /\ starts'[wanted'].got \in alive' => (~Used(starts[wanted].got))'
      BY <1>3, <2>2, <2>3 DEF Used
  <2> QED BY <1>3, <2>1, <2>4 DEF SessionsFresh
<1>21. ASSUME Serving' PROVE Serving
  <2>1. session # None /\ session.id \in 1..D /\ session.id \in alive'
      BY <1>1, <1>3, <1>5, <1>21 DEF Serving, DocTypes
  <2> QED BY <1>7, <1>5, <1>10, <2>1 DEF Serving
<1>22. ASSUME Serving, NEW p \in Paths PROVE Synced(p)'
  <2>1. Synced(p) /\ session.id \in 1..D
      BY <1>5, <1>9, <1>22 DEF DocsInv, Serving
  <2>2. dq \in Seq(Ops) /\ dq' \in Seq(Ops) /\ WaitMoved(p, 0) /\ Has(p)' = Has(p) /\ Now(p)' = Now(p)
      BY <1>1, <1>3, <1>11, <2>1, NothingQueued DEF DocTypes, Has, Now
  <2> QED BY <1>3, <2>1, <2>2, SyncedStays
<1> QED BY <1>13, <1>17, <1>20, <1>21, <1>22 DEF DocsInv

LEMMA DocServedKeeps ==
    ASSUME DocsInv, current' \in 0..MaxLinks, DocServed
    PROVE  DocsInv'
<1>1. DocTypes /\ StartsCome /\ SessionsFresh
    BY DEF DocsInv
<1>2. /\ dq # <<>> /\ dq' = Tail(dq)
      /\ UNCHANGED <<models, session, starts, wanted, calls, alive, attached>>
    BY DEF DocServed
<1>3. PICK N \in Nat \ {0} : N = Len(dq)
    BY <1>1, <1>2 DEF DocTypes
<1>4. /\ dq \in Seq(Ops) /\ dq' \in Seq(Ops) /\ DOMAIN dq = 1..N /\ DOMAIN dq' = 1..(N - 1) /\ Head(dq) = dq[1]
      /\ \A i \in 1..(N - 1) : dq'[i] = dq[i + 1]
    BY <1>1, <1>2, <1>3 DEF DocTypes
<1>5. 1 \in 1..N /\ \A i \in 1..(N - 1) : i + 1 \in 1..N
    OBVIOUS
<1>6. PICK d : d = dq[1]
    OBVIOUS
<1>7. d \in Ops /\ d.on \in DOMAIN docs /\ d = Head(dq)
  <2>1. d \in Ops
      BY <1>4, <1>5, <1>6
  <2>2. d.on \in DOMAIN docs
      BY <1>1, <1>4, <1>5, <1>6 DEF DocTypes
  <2> QED BY <1>4, <1>6, <2>1, <2>2
\* The document of its path is changed, if any.
<1>8. PICK text \in Int : \/ docs' = docs
                          \/ d.on \in alive /\ docs' = [docs EXCEPT ![d.on][d.path] = text]
  <2>1. PICK now : now = models[<<d.conn, d.path>>]
      OBVIOUS
  <2>2. PICK has : has = docs[d.on][d.path]
      OBVIOUS
  <2>3. Ahead \in Int /\ Garbled \in Int
      BY DEF Ahead, Garbled
  <2>4. \/ docs' = docs
        \/ /\ d.on \in alive
           /\ \/ d.op = "open" /\ docs' = [docs EXCEPT ![d.on][d.path] = IF now = d.num THEN now ELSE Ahead]
              \/ docs' = [docs EXCEPT ![d.on][d.path] = IF has = d.from THEN d.num ELSE Garbled]
              \/ docs' = [docs EXCEPT ![d.on][d.path] = 0]
      BY <1>7, <2>1, <2>2 DEF DocServed
  <2>5. d.num \in Int
      BY <1>7 DEF Ops
  <2> QED BY <2>3, <2>4, <2>5
<1>9. /\ docs' \in Seq([Paths -> Int]) /\ DOMAIN docs' = DOMAIN docs /\ Len(docs') = Len(docs)
      /\ \A s \in DOMAIN docs : s # d.on => docs'[s] = docs[s]
      /\ \A s \in DOMAIN docs, p \in Paths : s # d.on \/ p # d.path => docs'[s][p] = docs[s][p]
  <2>1. docs \in Seq([Paths -> Int])
      BY <1>1 DEF DocTypes
  <2>2. CASE docs' = docs
      BY <2>1, <2>2
  <2>3. CASE docs' = [docs EXCEPT ![d.on][d.path] = text]
    <3>1. PICK f : f = [docs[d.on] EXCEPT ![d.path] = text]
        OBVIOUS
    <3>2. docs[d.on] \in [Paths -> Int] /\ d.path \in Paths
        BY <1>7, <2>1 DEF Ops
    <3>3. f \in [Paths -> Int] /\ \A p \in Paths : p # d.path => f[p] = docs[d.on][p]
        BY <3>1, <3>2
    <3>4. docs' = [docs EXCEPT ![d.on] = f]
        BY <2>3, <3>1
    <3>5. /\ docs' \in Seq([Paths -> Int]) /\ DOMAIN docs' = DOMAIN docs /\ Len(docs') = Len(docs)
          /\ docs'[d.on] = f /\ \A s \in DOMAIN docs : s # d.on => docs'[s] = docs[s]
        BY <1>7, <2>1, <3>3, <3>4
    <3> QED BY <3>3, <3>5
  <2> QED BY <1>8, <2>2, <2>3
<1>10. DocTypes'
  <2>1. \A i \in DOMAIN dq' : dq'[i].on \in DOMAIN docs'
      BY <1>1, <1>4, <1>5, <1>9 DEF DocTypes
  <2> QED BY <1>1, <1>2, <1>4, <1>9, <2>1 DEF DocTypes
<1>11. StartsCome'
    BY <1>1, <1>2, <1>9 DEF StartsCome
<1>12. \A s \in DOMAIN docs : Used(s)' => Used(s)
  <2> SUFFICES ASSUME NEW s \in DOMAIN docs, Used(s)' PROVE Used(s)
      OBVIOUS
  <2>1. CASE s = d.on
      BY <1>4, <1>5, <1>6, <2>1 DEF Used
  <2>2. CASE s # d.on
    <3>1. ASSUME NEW i \in DOMAIN dq', dq'[i].on = s PROVE Used(s)
        BY <1>4, <1>5, <3>1 DEF Used
    <3>2. docs'[s] = docs[s]
        BY <1>9, <2>2
    <3> QED BY <3>1, <3>2 DEF Used
  <2> QED BY <2>1, <2>2
<1>13. SessionsFresh'
  <2>0. alive \subseteq DOMAIN docs
      BY <1>1 DEF DocTypes
  <2>1. \A s \in alive : Used(s)' => \/ session # None /\ session.id = s
                                     \/ \E i \in DOMAIN calls : calls[i] = -s /\ \A j \in DOMAIN calls : calls[j] = wanted => i < j
      BY <1>1, <1>12, <2>0 DEF SessionsFresh
  <2>2. PICK g : g = starts[wanted].got
      OBVIOUS
  <2>3. wanted # 0 /\ starts[wanted].at = "given" /\ g \in alive => ~Used(g)'
      BY <1>1, <1>12, <2>0, <2>2 DEF SessionsFresh
  <2>4. wanted' # 0 /\ starts'[wanted'].at = "given" /\ starts'[wanted'].got \in alive' => (~Used(starts[wanted].got))'
      BY <1>2, <2>2, <2>3 DEF Used
  <2> QED BY <1>2, <2>1, <2>4 DEF SessionsFresh
<1>14. ASSUME Serving, NEW p \in Paths PROVE Synced(p)'
  <2>1. Synced(p) /\ session.id \in DOMAIN docs /\ session.id \in alive
      BY <1>1, <1>14 DEF DocsInv, DocTypes, Serving
  <2>2. CASE Waits(1, p)
    <3>1. d.path = p /\ d.on = session.id
        BY <1>6, <2>2 DEF Waits
    <3>2. d.conn = session.conn
        BY <1>6, <2>1, <2>2 DEF Synced, Sane
    <3>3. Now(p) = models[<<d.conn, d.path>>] /\ Has(p) = docs[d.on][d.path]
        BY <3>1, <3>2 DEF Now, Has
    <3>4. \A x : docs' = [docs EXCEPT ![d.on][d.path] = x] => Has(p)' = x
      <4>1. docs \in Seq([Paths -> Int])
          BY <1>1 DEF DocTypes
      <4>2. docs[d.on] \in [Paths -> Int] /\ d.on \in DOMAIN docs
          BY <1>7, <4>1
      <4> QED BY <1>2, <3>1, <4>1, <4>2 DEF Has
    <3>5. docs' = docs => Has(p)' = Has(p)
        BY <1>2 DEF Has
    <3>6. PICK x : x = CASE d.op = "open" -> IF Now(p) = 0 THEN Has(p) ELSE IF Now(p) = d.num THEN Now(p) ELSE Ahead
                         [] d.op = "change" -> IF Has(p) \in {0, Ahead} THEN Has(p)
                                               ELSE IF Has(p) = d.from THEN d.num ELSE Garbled
                         [] OTHER -> 0
        OBVIOUS
    <3>7. \/ docs' = docs /\ x = Has(p)
          \/ docs' = [docs EXCEPT ![d.on][d.path] = x]
      <4>1. d.on \in alive
          BY <2>1, <3>1
      <4>2. PICK now, has : now = models[<<d.conn, d.path>>] /\ has = docs[d.on][d.path]
          OBVIOUS
      <4>3. CASE d.op = "open"
        <5>1. IF now = 0 THEN docs' = docs ELSE docs' = [docs EXCEPT ![d.on][d.path] = IF now = d.num THEN now ELSE Ahead]
            BY <1>7, <4>1, <4>2, <4>3 DEF DocServed
        <5> QED BY <3>3, <3>6, <4>2, <4>3, <5>1
      <4>4. CASE d.op = "change"
        <5>1. IF has \in {0, Ahead} THEN docs' = docs
              ELSE docs' = [docs EXCEPT ![d.on][d.path] = IF has = d.from THEN d.num ELSE Garbled]
            BY <1>7, <4>1, <4>2, <4>4 DEF DocServed
        <5> QED BY <3>3, <3>6, <4>2, <4>4, <5>1
      <4>5. CASE d.op \notin {"open", "change"}
        <5>1. docs' = [docs EXCEPT ![d.on][d.path] = 0]
            BY <1>7, <4>1, <4>5 DEF DocServed
        <5> QED BY <3>6, <4>5, <5>1
      <4> QED BY <4>3, <4>4, <4>5
    <3>8. Has(p)' = x
        BY <3>4, <3>5, <3>7
    <3>9. d.op \in {"open", "change", "close"} /\ WaitTaken(p)
      <4>1. d.op \in {"open", "change", "close"}
          BY <1>7 DEF Ops
      <4> QED BY <1>2, <1>4, <2>2, <4>1, QueueShrinks
    <3> QED BY <1>2, <1>4, <1>6, <2>1, <2>2, <3>6, <3>8, <3>9, SyncedServed
  <2>3. CASE ~Waits(1, p)
    <3>1. WaitMoved(p, 1)
        BY <1>2, <1>4, <2>3, QueueShrinks
    <3>2. ~(d.path = p /\ d.on = session.id)
        BY <1>4, <1>5, <1>6, <2>3 DEF Waits
    <3>3. Has(p)' = Has(p)
        BY <1>2, <1>9, <1>14, <2>1, <3>2 DEF Has
    <3>4. Now(p)' = Now(p)
        BY <1>2 DEF Now
    <3> QED BY <1>2, <1>4, <2>1, <3>1, <3>3, <3>4, SyncedStays
  <2> QED BY <2>2, <2>3
<1> QED BY <1>2, <1>10, <1>11, <1>13, <1>14 DEF DocsInv, Serving

-----------------------------------------------------------------------------
(* Every step of the window keeps what is on its way to the server.         *)

LEMMA RenderKeeps ==
    ASSUME DocsInv, tabs' \in Seq(TabSet), current' \in 0..MaxLinks, DocsRendered
    PROVE  DocsInv'
<1>1. CASE Key(tabs', current', status') # Key(tabs, current, status)
  <2>1. PICK key : key = Key(tabs', current', status')
      OBVIOUS
  <2>2. key \in 0..MaxLinks /\ Restart(key)
    <3>1. 0 \in 0..MaxLinks
        BY LinksAssumption
    <3> QED BY <1>1, <2>1, <3>1 DEF DocsRendered, Key
  <2> QED BY <2>2, RestartKeeps
<1>2. CASE Key(tabs', current', status') = Key(tabs, current, status)
  <2>1. PICK ts : ts = tabs'
      OBVIOUS
  <2>2. ts \in Seq(TabSet) /\ Follow(ts)
      BY <1>2, <2>1 DEF DocsRendered
  <2> QED BY <2>2, FollowKeeps
<1> QED BY <1>1, <1>2

LEMMA NoCurrentKeeps ==
    ASSUME DocsInv, current' = current, UNCHANGED docVars
    PROVE  DocsInv'
<1>1. current' \in 0..MaxLinks
    BY DEF DocsInv, DocTypes
<1> QED BY <1>1, UntoldKeeps DEF docVars

\* The connection the window hears of is one of those there can be.
LEMMA HeardConnection ==
    ASSUME TabsInv, OnConnected
    PROVE  current' \in 0..MaxLinks
<1>1. inbox # <<>> /\ inbox \in Seq(Notes) /\ \A n \in ToSet(inbox) : SoundAnswer(n)
    BY DEF OnConnected, Heard, TabsInv, LinkInv, MailOK
<1>2. Head(inbox) \in ToSet(inbox)
    BY <1>1, TailSet
<1>3. Head(inbox).kind = "connected" /\ current' = Head(inbox).conn
    BY DEF OnConnected, Heard
<1> QED BY <1>1, <1>2, <1>3 DEF SoundAnswer

LEMMA ConnectionsKeepDocs ==
    ASSUME TabsInv, TabsInv', DocsInv, ConnectionSteps
    PROVE  DocsInv'
<1>0. tabs \in Seq(TabSet) /\ tabs' \in Seq(TabSet)
    BY DEF TabsInv, LinkInv, TabTypes
<1>1. CASE UNCHANGED docVars /\ current' = current
    BY <1>1, NoCurrentKeeps
<1>2. CASE SessionEnds /\ current' = current
  <2>1. current' \in 0..MaxLinks /\ alive' \in SUBSET alive
      BY <1>2 DEF DocsInv, DocTypes, SessionEnds, ServersEnd
  <2> QED BY <1>2, <2>1, UntoldKeeps DEF SessionEnds, ServersEnd
<1>3. CASE OnConnected /\ Rendered
    BY <1>0, <1>3, HeardConnection, RenderKeeps DEF Rendered
<1>7. CASE OnError /\ Rendered
  <2>1. current' \in 0..MaxLinks
      BY <1>7 DEF OnError, DocsInv, DocTypes
  <2> QED BY <1>0, <1>7, <2>1, RenderKeeps DEF Rendered
<1>4. CASE OnDisconnected /\ Rendered
  <2>1. current' \in 0..MaxLinks
      BY <1>4, LinksAssumption DEF OnDisconnected
  <2> QED BY <1>0, <1>4, <2>1, RenderKeeps DEF Rendered
<1>5. CASE OnConnectAnswer /\ Rendered
  <2>1. current' \in 0..MaxLinks
      BY <1>5 DEF OnConnectAnswer, DocsInv, DocTypes
  <2> QED BY <1>0, <1>5, <2>1, RenderKeeps DEF Rendered
<1>6. ASSUME ConnectionSteps
      PROVE  \/ UNCHANGED docVars /\ current' = current
             \/ SessionEnds /\ current' = current
             \/ OnConnected /\ Rendered
             \/ OnDisconnected /\ Rendered
             \/ OnError /\ Rendered
             \/ OnConnectAnswer /\ Rendered
  <2>1. ASSUME NEW i \in DOMAIN asks, (ConnectSweeps(i) \/ Disconnected(i)) /\ SessionEnds
        PROVE  SessionEnds /\ current' = current
      BY <2>1 DEF ConnectSweeps, Disconnected, appVars
  <2>2. ASSUME NEW i \in DOMAIN asks, (Connected(i) \/ ConnectFails(i) \/ ConnectRecorded(i)) /\ UNCHANGED <<tabVars, docVars, viewVars>>
        PROVE  UNCHANGED docVars /\ current' = current
      BY <2>2 DEF Connected, ConnectFails, ConnectRecorded, appVars
  <2>3. ASSUME Connect /\ UNCHANGED <<tabVars, docVars, viewVars>> PROVE UNCHANGED docVars /\ current' = current
      BY <2>3 DEF Connect
  <2>4. ASSUME Disconnect, UNCHANGED <<file, tabs, edits, docVars, viewVars>> PROVE UNCHANGED docVars /\ current' = current
      BY <2>4 DEF Disconnect
  <2>5. ASSUME Lost(ExitsOf(running)) /\ SessionEnds PROVE SessionEnds /\ current' = current
      BY <2>5 DEF Lost, appVars
  <2>6. ASSUME OnDisconnectAnswer /\ UNCHANGED <<tabVars, docVars, viewVars>>
        PROVE  UNCHANGED docVars /\ current' = current
      BY <2>6 DEF OnDisconnectAnswer
  <2>7. ASSUME (\E c \in loading : FilesReady(c)) \/ SocketError, UNCHANGED <<tabVars, docVars, viewVars>>
        PROVE  UNCHANGED docVars /\ current' = current
      BY <2>7 DEF FilesReady, SocketError, appVars
  <2> QED BY <1>6, <2>1, <2>2, <2>3, <2>4, <2>5, <2>6, <2>7 DEF ConnectionSteps
<1> QED BY <1>1, <1>2, <1>3, <1>4, <1>5, <1>6, <1>7

LEMMA FilesKeepDocs ==
    ASSUME TabsInv, TabsInv', DocsInv, FileSteps
    PROVE  DocsInv'
<1>0. tabs \in Seq(TabSet) /\ tabs' \in Seq(TabSet) /\ edits' \in Nat \ {0}
    BY DEF TabsInv, LinkInv, TabTypes
<1>1. current' = current
  <2>1. ASSUME NEW p \in Paths, OpenFile(p) \/ DeleteEntry(p) \/ \E q \in Paths : RenameEntry(p, q) PROVE current' = current
      BY <2>1 DEF OpenFile, DeleteEntry, RenameEntry, appVars
  <2>2. ASSUME NEW i \in DOMAIN asks, Read(i) \/ Write(i) \/ WriteUnheard(i) \/ Rename(i) \/ Delete(i) \/ List(i)
        PROVE  current' = current
      BY <2>2 DEF Read, Write, WriteUnheard, Rename, Delete, List, appVars
  <2>3. ASSUME NEW i \in DOMAIN tabs, CloseTab(i) \/ SaveNow(i) \/ AutoSave(i) \/ EditTab(i) PROVE current' = current
      BY <2>3 DEF CloseTab, SaveNow, AutoSave, SaveTab, EditTab, appVars
  <2>4. OnChanged \/ OnRead \/ OnWrite \/ OnListed => current' = current
      BY DEF OnChanged, OnRead, OnWrite, OnListed, appVars
  <2> QED BY <2>1, <2>2, <2>3, <2>4 DEF FileSteps
<1>2. current' \in 0..MaxLinks
    BY <1>1 DEF DocsInv, DocTypes
<1>3. CASE UNCHANGED docVars
    BY <1>1, <1>3, NoCurrentKeeps
<1>4. CASE DocsRendered
    BY <1>0, <1>2, <1>4, RenderKeeps
<1>5. ASSUME NEW i \in DOMAIN tabs, EditTab(i), ModelBecomes(Id(tabs[i]), edits') PROVE DocsInv'
  <2>1. PICK c, q, text : c = tabs[i].conn /\ q = tabs[i].path /\ text = edits'
      OBVIOUS
  <2>2. tabs[i] \in TabSet
      BY <1>0
  <2>3. q \in Paths /\ text \in Nat \ {0}
      BY <1>0, <2>1, <2>2 DEF TabSet
  <2>4. ModelBecomes(<<c, q>>, text)
      BY <1>5, <2>1 DEF Id
  <2> QED BY <1>2, <2>3, <2>4, ModelBecomesKeeps
<1> QED BY <1>3, <1>4, <1>5 DEF FileSteps, Rendered

LEMMA DocumentsKeepDocs ==
    ASSUME TabsInv, DocsInv, DocumentSteps
    PROVE  DocsInv'
<1>0. tabs \in Seq(TabSet)
    BY DEF TabsInv, LinkInv, TabTypes
<1>1. current' \in 0..MaxLinks
    BY DEF DocsInv, DocTypes, DocumentSteps, appVars
<1>2. ASSUME NEW i \in DOMAIN tabs, Select(i) PROVE DocsInv'
  <2>1. PICK c, q, text : c = tabs[i].conn /\ q = tabs[i].path /\ text = tabs[i].text
      OBVIOUS
  <2>2. tabs[i] \in TabSet
      BY <1>0
  <2>3. q \in Paths /\ text \in Nat \ {0}
      BY <2>1, <2>2 DEF TabSet
  <2>4. ModelBecomes(<<c, q>>, text)
      BY <1>2, <2>1 DEF Select, Id
  <2> QED BY <1>1, <2>3, <2>4, ModelBecomesKeeps
<1>3. ASSUME NEW id \in DOMAIN models, Dispose(id) PROVE DocsInv'
  <2>1. PICK c, q : q \in Paths /\ id = <<c, q>>
      BY <1>3 DEF DocsInv, DocTypes
  <2>2. Dispose(<<c, q>>)
      BY <1>3, <2>1
  <2> QED BY <1>1, <2>1, <2>2, DisposeKeeps
<1>4. ASSUME NEW s \in alive, ServerDies(s) PROVE DocsInv'
  <2>1. alive' \in SUBSET alive /\ UNCHANGED <<models, session, starts, wanted, calls, docs, attached, dq>>
      BY <1>4 DEF ServerDies
  <2> QED BY <1>1, <2>1, UntoldKeeps
<1>5. ASSUME NEW n, StartAnswered(n) PROVE DocsInv'
    BY <1>0, <1>1, <1>5, WantedStartKeeps, UnwantedStartKeeps
<1> QED BY <1>1, <1>2, <1>3, <1>4, <1>5, StartServedKeeps, StopServedKeeps, DocServedKeeps DEF DocumentSteps

LEMMA DocsInvInit == Init => DocsInv
<1> SUFFICES ASSUME Init PROVE DocsInv
    OBVIOUS
<1>1. /\ models = [id \in (1..MaxLinks) \X Paths |-> 0]
      /\ session = None /\ starts = <<>> /\ wanted = 0 /\ calls = <<>>
      /\ alive = {} /\ docs = <<>> /\ attached = {} /\ dq = <<>> /\ current = 0
    BY DEF Init, DocsInit, LinkInit
<1>2. MaxLinks \in Nat /\ IsFiniteSet({})
    BY LinksAssumption, FS_EmptySet
<1>3. DocTypes
  <2>1. current \in 0..MaxLinks /\ models \in [(1..MaxLinks) \X Paths -> Nat]
      BY <1>1, <1>2
  <2>2. starts \in Seq(Starts) /\ calls \in Seq(Int \ {0}) /\ docs \in Seq([Paths -> Int]) /\ dq \in Seq(Ops) /\ DOMAIN dq = {}
      BY <1>1
  <2>3. wanted \in 0..Len(starts)
      BY <1>1
  <2> QED BY <1>1, <1>2, <2>1, <2>2, <2>3 DEF DocTypes
<1>4. StartsCome
  <2>1. Len(docs) = 0 /\ Len(starts) = 0 /\ DOMAIN calls = {} /\ DOMAIN starts = {}
      BY <1>1
  <2> QED BY <1>1, <2>1 DEF StartsCome
<1>5. SessionsFresh
    BY <1>1 DEF SessionsFresh
<1> QED BY <1>1, <1>3, <1>4, <1>5 DEF DocsInv, Serving

LEMMA DocsInvNext == TabsInv /\ TabsInv' /\ DocsInv /\ [Next]_vars => DocsInv'
<1> SUFFICES ASSUME TabsInv, TabsInv', DocsInv, [Next]_vars PROVE DocsInv'
    OBVIOUS
<1>1. CASE ConnectionSteps
    BY <1>1, ConnectionsKeepDocs
<1>2. CASE FileSteps
    BY <1>2, FilesKeepDocs
<1>3. CASE DocumentSteps
    BY <1>3, DocumentsKeepDocs
<1>4. CASE TerminalSteps
  <2>1. current' = current
    <3>1. ASSUME NEW mode \in {"new", "split"}, OpenTerminal(mode) PROVE current' = current
        BY <3>1 DEF OpenTerminal, appVars
    <3>2. ASSUME NEW n \in Terminals, CloseTerminal(n) \/ RevealTerminal(n) \/ Output(n) \/ TerminalExits(n) \/ Frame(n)
          PROVE  current' = current
      <4>1. CloseTerminal(n) => current' = current
          BY DEF CloseTerminal, appVars
      <4>2. RevealTerminal(n) \/ Output(n) \/ TerminalExits(n) => current' = current
          BY DEF RevealTerminal, Output, TerminalExits, appVars
      <4>3. Frame(n) => current' = current
          BY DEF Frame, linkVars, appVars
      <4> QED BY <3>2, <4>1, <4>2, <4>3
    <3>3. ASSUME NEW i \in DOMAIN asks, CreateTerminal(i) \/ HangUp(i) PROVE current' = current
        BY <3>3 DEF CreateTerminal, HangUp, appVars
    <3>4. OnTerminal \/ OnHungUp \/ OnTerminalEvent => current' = current
        BY DEF OnTerminal, OnHungUp, OnTerminalEvent, appVars
    <3> QED BY <1>4, <3>1, <3>2, <3>3, <3>4 DEF TerminalSteps
  <2>2. UNCHANGED docVars
      BY <1>4 DEF TerminalSteps
  <2> QED BY <2>1, <2>2, NoCurrentKeeps
<1>5. CASE UNCHANGED docVars /\ current' = current
    BY <1>5, NoCurrentKeeps
<1> QED BY <1>1, <1>2, <1>3, <1>4, <1>5 DEF Next, vars, linkVars, appVars

(* For any paths, connections and restarts of the language server: once its *)
(* queue is empty the active server has open exactly the documents the      *)
(* window attached, each with its model's content (EditsReachServer).       *)
THEOREM EditsStayReached == Spec => []EditsReachServer
<1>1. DocsInv => EditsReachServer
  <2> SUFFICES ASSUME DocsInv, dq = <<>>, session # None, session.id \in alive, NEW p \in Paths
               PROVE  LET has == docs[session.id][p] IN
                      IF p \in attached THEN has \in {Ahead, models[<<session.conn, p>>]} ELSE has = 0
      BY DEF EditsReachServer
  <2>1. Synced(p)
      BY DEF DocsInv, Serving
  <2>2. \A i : ~Waits(i, p)
    <3>1. DOMAIN dq = {}
        OBVIOUS
    <3> QED BY <3>1 DEF Waits
  <2> QED BY <2>1, <2>2 DEF Synced, Agrees, Has, Now
<1> QED BY <1>1, TabsInvInit, TabsInvNext, DocsInvInit, DocsInvNext, PTL DEF Spec
=============================================================================
