----------------------------- MODULE WindowLink -----------------------------
(***************************************************************************)
(* One window and the main process: the calls the window (App.tsx) has     *)
(* asked of it, the answers and events on their way back, and the          *)
(* connection as each side sees it.  EditorTabs, DocumentSync and          *)
(* TerminalViews add what the window shows, Workbench composes them.       *)
(*                                                                         *)
(* The main process handles calls in any order; what it sends arrives in   *)
(* order.  A step of the window is one event, answer or gesture with the   *)
(* React render and effects that follow it.  Every connection is to one    *)
(* saved host, so one boolean stands for currentSavedConnectionId.  The    *)
(* connectionStatus and the currentConnectionId of the window are two      *)
(* things: the error of a live client changes only the first.  The state   *)
(* 'connecting' is one with the 'disconnected' just before it.             *)
(***************************************************************************)
EXTENDS Integers, Sequences, FiniteSets, SequencesExt

CONSTANTS
    Mixes,    \* bound: how often each gesture or fault of a behaviour may happen
    MaxLinks, \* bound: connections
    None

ASSUME MixesAssumption == \A m \in Mixes : \A g \in DOMAIN m : m[g] \in Nat
ASSUME LinksAssumption == MaxLinks \in Nat

VARIABLES
    budget,   \* what is left of the behaviour's mix
    asks,     \* calls the main process has not answered
    inbox,    \* answers and events the window has not handled
    up,       \* the session manager's connectionId; 0 is null, here and below
    made,     \* connections so far; their ids are 1 to made
    told,     \* the last state it sent is 'connected'
    loading,  \* connections whose initializePrimaryFilesystem is under way
    erred,    \* history: the last connection of which a client error was sent
    current,  \* currentConnectionId
    status,   \* connectionStatus: its state and connectionId
    target,   \* reconnectTarget: None, or its previousConnectionId
    known,    \* currentSavedConnectionId is set
    manual,   \* disconnectingManuallyRef
    busy      \* busyAction

mainVars == <<up, made, told, loading, erred>>
appVars == <<current, status, target, known, manual, busy>>
linkVars == <<budget, asks, inbox, mainVars, appVars>>

\* Calls, answers and events: what, of which path or terminal, the new path,
\* a content, chunk or connection, the connection it is for, an answer's luck.
Note(kind) == [kind |-> kind, of |-> None, to |-> None, num |-> 0, conn |-> 0, ok |-> TRUE]

Spend(g) ==
    /\ g \in DOMAIN budget /\ budget[g] > 0
    /\ budget' = [budget EXCEPT ![g] = @ - 1]

Ask(call) == asks' = Append(asks, call)

Asked(i, kind) == i \in DOMAIN asks /\ asks[i].kind = kind

\* The main process leaves call i and sends notes.
Settle(i, notes) == asks' = RemoveAt(asks, i) /\ inbox' = inbox \o notes

Answer(i, good) == Settle(i, <<[asks[i] EXCEPT !.ok = good]>>)

\* The elements of s at some places, in their order.
InOrder(places) ==
    CHOOSE f \in [1..Cardinality(places) -> places] : \A m, n \in DOMAIN f : m < n => f[m] < f[n]
Picked(s, places) == [n \in 1..Cardinality(places) |-> s[InOrder(places)[n]]]

\* What setConnectionStatus takes from a note of the state s.
State(s, conn) == [state |-> s, conn |-> conn]

\* The window handles the next note.
Heard(kind) == inbox # <<>> /\ Head(inbox).kind = kind /\ inbox' = Tail(inbox)

LinkInit ==
    /\ budget \in Mixes
    /\ asks = <<>> /\ inbox = <<>>
    /\ up = 0 /\ made = 0 /\ told = FALSE /\ loading = {} /\ erred = 0
    /\ current = 0 /\ status = State("disconnected", 0) /\ target = None
    /\ known = FALSE /\ manual = FALSE /\ busy = FALSE

-----------------------------------------------------------------------------
(* The user connects, from the launch screen, which a connection closes, or *)
(* with Reconnect, which a target offers unless the state is 'connected';   *)
(* or disconnects.                                                          *)
Connect ==
    /\ Spend("connect") /\ ~busy
    /\ status.state # "connected" /\ (current = 0 \/ target # None)
    /\ busy' = TRUE
    /\ Ask([Note("connect") EXCEPT !.conn = IF target \in {None, 0} THEN current ELSE target])
    /\ UNCHANGED <<inbox, mainVars, current, status, target, known, manual>>

Disconnect ==
    /\ Spend("disconnect") /\ status.state = "connected"
    /\ busy' = TRUE /\ manual' = TRUE
    /\ Ask(Note("disconnect"))
    /\ UNCHANGED <<inbox, mainVars, current, status, target, known>>

(* The main process.  connect begins with a disconnect, which says so.      *)
ConnectSweeps(i) ==
    /\ Asked(i, "connect")
    /\ up' = 0 /\ told' = FALSE
    /\ asks' = [asks EXCEPT ![i].kind = "dial"]
    /\ inbox' = Append(inbox, Note("disconnected"))
    /\ UNCHANGED <<budget, made, loading, erred, appVars>>

Connected(i) ==
    /\ Asked(i, "dial") /\ made < MaxLinks
    /\ up' = made + 1 /\ made' = made + 1
    /\ told' = TRUE /\ loading' = loading \cup {made + 1}
    /\ asks' = [asks EXCEPT ![i].kind = "record", ![i].num = made + 1]
    /\ inbox' = Append(inbox, [Note("connected") EXCEPT !.conn = made + 1])
    /\ UNCHANGED <<budget, erred, appVars>>

ConnectFails(i) ==
    /\ Asked(i, "dial")
    /\ up' = 0 /\ told' = FALSE
    /\ Settle(i, <<Note("error"), [asks[i] EXCEPT !.ok = FALSE]>>)
    /\ UNCHANGED <<budget, made, loading, erred, appVars>>

\* The call is answered once the connection is saved, which may fail.
ConnectRecorded(i) ==
    /\ Asked(i, "record")
    /\ \E good \in BOOLEAN : Answer(i, good)
    /\ UNCHANGED <<budget, mainVars, appVars>>

Disconnected(i) ==
    /\ Asked(i, "disconnect")
    /\ up' = 0 /\ told' = FALSE
    /\ Settle(i, <<Note("disconnected"), asks[i]>>)
    /\ UNCHANGED <<budget, made, loading, erred, appVars>>

\* initializePrimaryFilesystem of c ends and says 'connected' once more, of the
\* connection there is by then: on its way to a home directory by the shell it
\* does not look again whether c went.
FilesReady(c) ==
    /\ Spend("files") /\ c \in loading
    /\ loading' = loading \ {c} /\ told' = TRUE
    /\ inbox' = Append(inbox, [Note("connected") EXCEPT !.conn = up])
    /\ UNCHANGED <<asks, up, made, erred, appVars>>

\* The client of a connection reports an error, which does not end it: a close
\* may follow.
SocketError ==
    /\ Spend("error") /\ up # 0 /\ told
    /\ told' = FALSE /\ erred' = up
    /\ inbox' = Append(inbox, [Note("error") EXCEPT !.conn = up])
    /\ UNCHANGED <<asks, up, made, loading, appVars>>

\* The remote side goes; exits tells of the terminals that ran.
Lost(exits) ==
    /\ Spend("loss") /\ up # 0
    /\ up' = 0 /\ told' = FALSE
    /\ inbox' = Append(inbox, [Note("disconnected") EXCEPT !.conn = up]) \o exits
    /\ UNCHANGED <<asks, made, loading, erred, appVars>>

-----------------------------------------------------------------------------
(* The window: onConnectionState and the ends of connect and disconnect.    *)
OnConnected ==
    /\ Heard("connected")
    /\ current' = Head(inbox).conn /\ status' = State("connected", current') /\ manual' = FALSE
    /\ UNCHANGED <<budget, asks, mainVars, target, known, busy>>

Previous == IF Head(inbox).conn # 0 THEN Head(inbox).conn ELSE current

OnDisconnected ==
    /\ Heard("disconnected")
    /\ current' = 0 /\ status' = State("disconnected", Head(inbox).conn) /\ manual' = FALSE
    /\ known' = (known /\ ~manual)
    /\ target' = IF known /\ ~manual THEN Previous ELSE None
    /\ UNCHANGED <<budget, asks, mainVars, busy>>

\* currentConnectionId stays, whatever the error is of.
OnError ==
    /\ Heard("error")
    /\ status' = State("error", Head(inbox).conn)
    /\ target' = IF known THEN Previous ELSE target
    /\ UNCHANGED <<budget, asks, mainVars, current, known, manual, busy>>

OnConnectAnswer ==
    /\ \E kind \in {"dial", "record"} : Heard(kind)
    /\ busy' = FALSE
    /\ IF Head(inbox).ok THEN known' = TRUE /\ target' = Head(inbox).num ELSE UNCHANGED <<known, target>>
    /\ UNCHANGED <<budget, asks, mainVars, current, status, manual>>

OnDisconnectAnswer ==
    /\ Heard("disconnect")
    /\ busy' = FALSE
    /\ UNCHANGED <<budget, asks, mainVars, current, status, target, known, manual>>

LinkTypeOK ==
    /\ \A g \in DOMAIN budget : budget[g] \in Nat
    /\ up \in 0..made /\ current \in 0..made /\ erred \in 0..made
    /\ told \in BOOLEAN /\ loading \subseteq 1..made
    /\ status \in [state : {"disconnected", "connected", "error"}, conn : 0..made]
    /\ target \in (0..made) \cup {None}
    /\ known \in BOOLEAN /\ manual \in BOOLEAN /\ busy \in BOOLEAN
=============================================================================
