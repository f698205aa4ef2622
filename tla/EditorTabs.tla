----------------------------- MODULE EditorTabs -----------------------------
(***************************************************************************)
(* The editor tabs of a window (App.tsx): opening, editing, saving by hand *)
(* and by itself, and what a rename, a delete and a reconnect do to them.  *)
(* A content is a number; each edit makes a new one.  0 is no file.        *)
(*                                                                         *)
(* The autosave timers need no variable.  A tab has one exactly when the   *)
(* effect would leave it one, unless disconnect just cleared them all; and *)
(* the revision its callback checks is the one it captured.                *)
(***************************************************************************)
EXTENDS WindowLink

CONSTANT Paths

ASSUME PathsAssumption == None \notin Paths

VARIABLES
    file,     \* the remote files
    tabs,     \* tabs: connectionId, path, content, savedContent, isSaving
    edits,    \* contents so far
    paused,   \* the timers were cleared and no render has set them again
    crossed   \* history: paths of which a save met another operation on its way

tabVars == <<file, tabs, edits, paused>>

TabsAt(places) == Picked(tabs, places)

\* buildTabId
Id(t) == <<t.conn, t.path>>
Ids(ts) == {Id(t) : t \in ToSet(ts)}
Like(i) == {j \in DOMAIN tabs : Id(tabs[j]) = Id(tabs[i])}

Dirty(t) == t.text # t.saved

\* Notes on their way, either way, about a path.
About(n, p) ==
    n.kind \in {"read", "write", "rename", "renamed", "delete", "deleted"} /\ p \in {n.of, n.to}

OnTheWay(p) == {n \in DOMAIN (asks \o inbox) : About((asks \o inbox)[n], p)}

\* A save and something else, anything under another connection than a tab of
\* the path, or a save that is reported failed though it took effect.
Crossing(p) ==
    LET all == asks \o inbox IN
    \/ \E m, n \in OnTheWay(p) : m # n /\ all[m].kind # "write"
    \/ \E n \in OnTheWay(p), t \in ToSet(tabs) : t.path = p /\ all[n].conn # t.conn
    \/ \E n \in OnTheWay(p) : all[n].kind = "write" /\ ~all[n].ok /\ file[p] = all[n].num

\* Such paths, and those a rename on its way takes them to.
CrossedAfter ==
    LET met == crossed \cup {p \in Paths : Crossing(p)'} IN
    crossed' = met \cup {p \in Paths : \E q \in met : (OnTheWay(p) \cap OnTheWay(q))' # {}}

TabsInit ==
    /\ file = [p \in Paths |-> 1]
    /\ tabs = <<>> /\ edits = 1
    /\ paused = FALSE /\ crossed = {}

-----------------------------------------------------------------------------
(* Gestures.                                                                *)
OpenFile(p) ==
    /\ Spend("open") /\ current # 0 /\ <<current, p>> \notin Ids(tabs)
    /\ Ask([Note("read") EXCEPT !.of = p, !.conn = current])
    /\ UNCHANGED <<inbox, mainVars, appVars, tabVars>>

CloseTab(i) ==
    /\ Spend("close") /\ i \in DOMAIN tabs
    /\ tabs' = TabsAt(DOMAIN tabs \ Like(i))
    /\ UNCHANGED <<asks, inbox, mainVars, appVars, file, edits>>

EditTab(i) ==
    /\ Spend("edit") /\ i \in DOMAIN tabs
    /\ edits' = edits + 1
    /\ tabs' = [j \in DOMAIN tabs |-> IF j \in Like(i) THEN [tabs[j] EXCEPT !.text = edits'] ELSE tabs[j]]
    /\ UNCHANGED <<asks, inbox, mainVars, appVars, file>>

\* saveTab, of the first tab with the id.
SaveTab(i) ==
    /\ i \in DOMAIN tabs /\ \A j \in Like(i) : i <= j
    /\ tabs[i].conn = current /\ Dirty(tabs[i])
    /\ tabs' = [j \in DOMAIN tabs |-> IF j \in Like(i) THEN [tabs[j] EXCEPT !.saving = TRUE] ELSE tabs[j]]
    /\ Ask([Note("write") EXCEPT !.of = tabs[i].path, !.num = tabs[i].text, !.conn = current])
    /\ UNCHANGED <<inbox, mainVars, appVars, file, edits>>

\* Ctrl+S, which does not wait for a save under way.
SaveNow(i) == Spend("save") /\ SaveTab(i)

\* The effect clears the timer for any tab with the id that needs none.
Armed(i) == ~paused /\ \A j \in Like(i) : Dirty(tabs[j]) /\ ~tabs[j].saving /\ tabs[j].conn = current

AutoSave(i) == i \in DOMAIN tabs /\ Armed(i) /\ SaveTab(i) /\ UNCHANGED budget

RenameEntry(p, q) ==
    /\ Spend("rename") /\ current # 0 /\ p # q
    /\ Ask([Note("rename") EXCEPT !.of = p, !.to = q, !.conn = current])
    /\ UNCHANGED <<inbox, mainVars, appVars, tabVars>>

DeleteEntry(p) ==
    /\ Spend("delete") /\ current # 0
    /\ Ask([Note("delete") EXCEPT !.of = p, !.conn = current])
    /\ UNCHANGED <<inbox, mainVars, appVars, tabVars>>

-----------------------------------------------------------------------------
(* The main process: a save is one step here; RemoteFiles has its parts,    *)
(* and the prefix of a content that a direct write cut short leaves.        *)
Read(i) ==
    /\ Asked(i, "read")
    /\ LET now == file[asks[i].of] IN
       Settle(i, <<[asks[i] EXCEPT !.num = now, !.ok = up # 0 /\ now # 0]>>)
    /\ UNCHANGED <<budget, mainVars, appVars, tabVars>>

Written(i) == file' = [file EXCEPT ![asks[i].of] = asks[i].num]

Write(i) ==
    /\ Asked(i, "write")
    /\ \/ up # 0 /\ Written(i) /\ Answer(i, TRUE)
       \/ UNCHANGED file /\ Answer(i, FALSE)
    /\ UNCHANGED <<budget, mainVars, appVars, tabs, edits, paused>>

\* The connection goes after the rename and before its answer.
WriteUnheard(i) ==
    /\ Asked(i, "write") /\ up # 0
    /\ Written(i) /\ Answer(i, FALSE)
    /\ UNCHANGED <<budget, mainVars, appVars, tabs, edits, paused>>

Rename(i) ==
    /\ Asked(i, "rename")
    /\ LET p == asks[i].of
           q == asks[i].to
           good == up # 0 /\ file[p] # 0 /\ file[q] = 0 IN
       /\ file' = IF good THEN [file EXCEPT ![p] = 0, ![q] = file[p]] ELSE file
       /\ Answer(i, good)
    /\ UNCHANGED <<budget, mainVars, appVars, tabs, edits, paused>>

Delete(i) ==
    /\ Asked(i, "delete")
    /\ LET p == asks[i].of
           good == up # 0 /\ file[p] # 0 IN
       /\ file' = IF good THEN [file EXCEPT ![p] = 0] ELSE file
       /\ Answer(i, good)
    /\ UNCHANGED <<budget, mainVars, appVars, tabs, edits, paused>>

\* readDir of refreshDirectory, whose outcome its callers ignore.
List(i) ==
    /\ \E kind \in {"renamed", "deleted"} : Asked(i, kind)
    /\ Answer(i, TRUE)
    /\ UNCHANGED <<budget, mainVars, appVars, tabVars>>

-----------------------------------------------------------------------------
(* The window hears the answers.                                            *)
OnRead ==
    /\ Heard("read")
    /\ LET m == Head(inbox) IN
       tabs' = IF m.ok THEN Append(tabs, [conn |-> m.conn, path |-> m.of, text |-> m.num, saved |-> m.num,
                                          saving |-> FALSE])
               ELSE tabs
    /\ UNCHANGED <<budget, asks, mainVars, appVars, file, edits>>

\* As applySavedState would be if it took the tab's content, not the saved one.
SavedStateOfNow(t, content) == [t EXCEPT !.saved = t.text, !.saving = FALSE]

SavedState(t, content) == [t EXCEPT !.saved = content, !.saving = FALSE]

OnWrite ==
    /\ Heard("write")
    /\ LET m == Head(inbox) IN
       tabs' = [j \in DOMAIN tabs |->
                   IF Id(tabs[j]) # <<m.conn, m.of>> THEN tabs[j]
                   ELSE IF m.ok THEN SavedState(tabs[j], m.num) ELSE [tabs[j] EXCEPT !.saving = FALSE]]
    /\ UNCHANGED <<budget, asks, mainVars, appVars, file, edits>>

\* refreshDirectory, before the tabs are looked at.
OnChanged ==
    /\ Heard("rename") \/ Heard("delete")
    /\ LET m == Head(inbox) IN
       IF m.ok THEN Ask([m EXCEPT !.kind = IF m.kind = "rename" THEN "renamed" ELSE "deleted"])
       ELSE UNCHANGED asks
    /\ UNCHANGED <<budget, mainVars, appVars, tabVars>>

OnListed ==
    /\ LET m == Head(inbox) IN
       \/ /\ Heard("renamed")
          /\ tabs' = [j \in DOMAIN tabs |-> IF Id(tabs[j]) = <<m.conn, m.of>> THEN [tabs[j] EXCEPT !.path = m.to]
                                            ELSE tabs[j]]
       \/ /\ Heard("deleted")
          /\ tabs' = TabsAt({j \in DOMAIN tabs : tabs[j].path # m.of})
    /\ UNCHANGED <<budget, asks, mainVars, appVars, file, edits>>

\* remapTabsToConnection, when a connect is answered.
Remapped(m) ==
    tabs' = [j \in DOMAIN tabs |-> IF m.ok /\ m.conn # 0 /\ tabs[j].conn = m.conn
                                   THEN [tabs[j] EXCEPT !.conn = m.num]
                                   ELSE tabs[j]]

\* The autosave effect sets the timers again when what it looks at changed.
TabsRendered == paused' = (paused /\ tabs' = tabs /\ current' = current)

TabsTypeOK ==
    /\ file \in [Paths -> 0..edits]
    /\ \A t \in ToSet(tabs) : /\ t.conn \in 0..made /\ t.path \in Paths
                              /\ t.text \in 1..edits /\ t.saved \in 1..edits /\ t.saving \in BOOLEAN
    /\ paused \in BOOLEAN /\ crossed \subseteq Paths

(* A tab that shows no unsaved change shows what the remote file holds,     *)
(* whatever edits, overlapping saves, failures and reconnects there were.   *)
(* (Not while something about the file is on its way, nor once a save       *)
(* crossed a reopening, a rename or a delete, a reconnect came between a    *)
(* call and its tab, or a save took effect and was reported failed: the     *)
(* code does not look after those.)                                         *)
SavedIsStored ==
    \A t \in ToSet(tabs) :
        ~Dirty(t) /\ OnTheWay(t.path) = {} /\ t.path \notin crossed => file[t.path] = t.text
=============================================================================
