------------------------------ MODULE Workbench ------------------------------
(***************************************************************************)
(* One window as a whole: every gesture, answer and event with the render  *)
(* it causes in the tabs, the language server's documents and the terminal *)
(* panel; and beside it the store of saved connections, which other        *)
(* windows use too and whose outcome a connect awaits (ConnectRecorded).   *)
(***************************************************************************)
EXTENDS DocumentSync, TerminalViews, ConnectionStore

vars == <<linkVars, tabVars, crossed, docVars, viewVars, storeVars>>

\* Bound: a behaviour has gestures or mutations.  Neither touches the other.
Init ==
    /\ LinkInit /\ TabsInit /\ DocsInit /\ ViewsInit /\ StoreInit
    /\ (\A g \in DOMAIN budget : budget[g] = 0) \/ (\A c \in Mutations : step[c] = "off")

\* What the main process ends with a connection.
SessionEnds == TerminalsEnd /\ ServersEnd /\ UNCHANGED tabVars

\* A render that changed the tabs, the connection, or nothing.
Rendered == TabsRendered /\ DocsRendered /\ PanelRendered

ConnectionSteps ==
    \/ Connect /\ UNCHANGED <<tabVars, docVars, viewVars>>
    \/ Disconnect /\ paused' = TRUE /\ UNCHANGED <<file, tabs, edits, docVars, viewVars>>   \* clearAllAutoSaveTimers
    \/ \E i \in DOMAIN asks :
          \/ (ConnectSweeps(i) \/ Disconnected(i)) /\ SessionEnds
          \/ (Connected(i) \/ ConnectFails(i) \/ ConnectRecorded(i)) /\ UNCHANGED <<tabVars, docVars, viewVars>>
    \/ Lost(ExitsOf(running)) /\ SessionEnds
    \/ ((\E c \in loading : FilesReady(c)) \/ SocketError) /\ UNCHANGED <<tabVars, docVars, viewVars>>
    \/ (OnConnected \/ OnDisconnected \/ OnError) /\ UNCHANGED <<file, tabs, edits>> /\ Rendered
    \/ OnDisconnectAnswer /\ UNCHANGED <<tabVars, docVars, viewVars>>
    \/ OnConnectAnswer /\ Remapped(Head(inbox)) /\ UNCHANGED <<file, edits>> /\ Rendered

FileSteps ==
    \/ /\ \/ \E p \in Paths : OpenFile(p) \/ DeleteEntry(p) \/ \E q \in Paths : RenameEntry(p, q)
          \/ \E i \in DOMAIN asks : Read(i) \/ Write(i) \/ WriteUnheard(i) \/ Rename(i) \/ Delete(i) \/ List(i)
          \/ OnChanged
       /\ UNCHANGED <<docVars, viewVars>>
    \/ \E i \in DOMAIN tabs :
          \/ (CloseTab(i) \/ SaveNow(i) \/ AutoSave(i)) /\ Rendered
          \/ /\ EditTab(i) /\ Shown(i)                     \* typed into the tab's model
             /\ TabsRendered /\ ModelBecomes(Id(tabs[i]), edits') /\ PanelRendered
    \/ (OnRead \/ OnWrite \/ OnListed) /\ Rendered

DocumentSteps ==
    /\ \/ \E i \in DOMAIN tabs : Select(i)
       \/ \E id \in DOMAIN models : Dispose(id)
       \/ \E s \in alive : ServerDies(s)
       \/ (\E n \in DOMAIN starts : StartAnswered(n)) /\ UNCHANGED budget
       \/ (StartServed \/ StopServed \/ DocServed) /\ UNCHANGED budget
    /\ UNCHANGED <<asks, inbox, mainVars, appVars, tabVars, viewVars>>

TerminalSteps ==
    /\ \/ \E mode \in {"new", "split"} : OpenTerminal(mode)
       \/ \E n \in Terminals :
             CloseTerminal(n) \/ RevealTerminal(n) \/ Output(n) \/ TerminalExits(n) \/ Frame(n)
       \/ \E i \in DOMAIN asks : CreateTerminal(i) \/ HangUp(i)
       \/ OnTerminal \/ OnHungUp \/ OnTerminalEvent
    /\ UNCHANGED <<tabVars, docVars>>

Next ==
    \/ /\ ConnectionSteps \/ FileSteps \/ DocumentSteps \/ TerminalSteps
       /\ CrossedAfter
       /\ UNCHANGED storeVars
    \/ StoreNext /\ UNCHANGED <<linkVars, tabVars, crossed, docVars, viewVars>>

Spec == Init /\ [][Next]_vars

TypeOK == LinkTypeOK /\ TabsTypeOK /\ DocsTypeOK /\ ViewsTypeOK /\ StoreTypeOK
===============================================================================
