--------------------------- MODULE SessionClients ---------------------------
(***************************************************************************)
(* What every part of one window's SshSessionManager (ssh-session.ts) reads*)
(* and a connect, a disconnect or the remote side changes under it: the    *)
(* interactive SSH client, the clients opened beside it, isClosing.        *)
(* SessionTerminals, SessionTunnels, SessionServers and SessionIdle add the *)
(* resources of a session, SessionLifecycle what opens and closes it.      *)
(*                                                                         *)
(* A call runs from await to await.  A client is named by the call that    *)
(* opens it.  connectionId is set and cleared in the step that sets and    *)
(* clears interactiveClient, so one variable stands for both, and one for  *)
(* auxiliaryClient with auxiliarySftp.  Awaits that only yield to          *)
(* microtasks are no step of their own.                                    *)
(***************************************************************************)
EXTENDS Integers, Sequences, FiniteSets, SequencesExt

CONSTANTS
    Connects,       \* connect calls of the window
    Hopping,        \* those through a jump host
    Leaves,         \* disconnect calls of the user
    Shuts,          \* disconnect calls of disposeWindowSession
    Helpers,        \* file operations that call ensureAuxiliaryConnection
    Opens,          \* createTerminal calls: terminals
    Hangups,        \* closeTerminal calls
    Visions,        \* enableVisionMode calls
    Films,          \* videoStreamStart requests: streams
    Cuts,           \* videoStreamStop requests
    Starts, Stops,  \* startTunnel and stopTunnel calls
    Serves, Halts,  \* languageServerStart and languageServerStop requests
    Gauges,         \* startHostMetrics calls
    Scans, Grabs, Drops,  \* startAutomaticMediaCache, queueIdleDownload, cancelIdleDownloadGroup calls
    Mixes,          \* bound: the calls of one behaviour, one of these sets
    None

Sweepers == Connects \cup Leaves \cup Shuts    \* a connect begins with a disconnect
Others ==
    Shuts \cup Helpers \cup Hangups \cup Films \cup Cuts \cup Starts \cup Stops
    \cup Serves \cup Halts \cup Gauges \cup Scans \cup Grabs \cup Drops
Calls == Connects \cup Leaves \cup Opens \cup Visions \cup Others

Kinds ==
    <<Connects, Leaves, Shuts, Helpers, Opens, Hangups, Visions, Films, Cuts,
      Starts, Stops, Serves, Halts, Gauges, Scans, Grabs, Drops>>

Jump(c) == <<c, "jump">>
Clients == Connects \cup {Jump(c) : c \in Hopping} \cup Helpers \cup Opens

ASSUME SessionAssumption ==
    /\ Hopping \subseteq Connects
    /\ \A m \in Mixes : m \subseteq Calls
    /\ None \notin Clients \cup Calls
    /\ \A c \in Connects, what \in {"jump", "end", "close"} : <<c, what>> \notin Calls
    /\ \A i, j \in 1..Len(Kinds) : i # j => Kinds[i] \cap Kinds[j] = {}    \* a call is of one kind

VARIABLES
    pc,        \* where each call is; "off" if the behaviour has no such call
    window,    \* the window is open: it may make calls
    closing,   \* isClosing
    client,    \* interactiveClient and connectionId
    jump,      \* jumpClient
    link,      \* each client: "none", "dialing", "up", "ended" (the remote's FIN) or "down"
    shown      \* the connection state last emitted, the client it names, filesystemState

clientVars == <<pc, window, closing, client, jump, link, shown>>

Ended == {"off", "ok", "failed"}

\* The window asks for c.
Called(c) == window /\ pc[c] = "new"

Go(c, where) == pc' = [pc EXCEPT ![c] = where]

\* The guard "No active SSH connection" of most calls.
Connected == client # None

\* Client.end() by us: no listener of ours hears of it again.
EndClients(S) == link' = [c \in Clients |-> IF c \in S /\ link[c] # "none" THEN "down" ELSE link[c]]

Dial(k) == link' = [link EXCEPT ![k] = "dialing"]

Emit(state, conn, files) == shown' = [state |-> state, conn |-> conn, files |-> files]

ClientsInit ==
    /\ pc \in {[c \in Calls |-> IF c \in m THEN "new" ELSE "off"] : m \in Mixes}
    /\ window = TRUE /\ closing = FALSE
    /\ client = None /\ jump = None
    /\ link = [c \in Clients |-> "none"]
    /\ shown = [state |-> "disconnected", conn |-> None, files |-> "idle"]
=============================================================================
