-------------------------- MODULE SessionLifecycle --------------------------
(***************************************************************************)
(* What opens and closes a session (ssh-session.ts): connect, disconnect,  *)
(* the loss of the interactive client, the set-up of its sftp, the         *)
(* auxiliary client, the metrics poller; and disposeWindowSession of       *)
(* index.ts.  The directory cache, which all these also reset, is in       *)
(* RemoteFiles.                                                            *)
(***************************************************************************)
EXTENDS SessionTunnels, SessionTerminals, SessionServers, SessionIdle

VARIABLES
    init,      \* initializePrimaryFilesystem of each connection
    aux,       \* auxiliaryClient and auxiliarySftp
    auxState,  \* connectionManagerState.auxiliaryState
    poller,    \* hostMetricsPoller: the call that made it
    polls,     \* polls in flight: the poller and the client asked
    reading,   \* the last host-metrics event: the client asked, the client then
    waits,     \* language servers a sweep awaits
    had        \* history: what the session held when each sweep began

ownVars == <<sftp, init, aux, auxState, poller, polls, reading, waits, had, idleVars>>
vars == <<clientVars, tunnelVars, terminalVars, serverVars, ownVars>>

\* Tailscale connections, which open no auxiliary client, are left out: with
\* them ensureAuxiliaryConnection does nothing.
Init ==
    /\ ClientsInit /\ TunnelsInit /\ TerminalsInit /\ ServersInit /\ IdleInit
    /\ aux = None /\ auxState = "idle"
    /\ init = [c \in Connects |-> "none"]
    /\ poller = None /\ polls = {} /\ reading = [of |-> None, now |-> None]
    /\ waits = [k \in Sweepers |-> {}] /\ had = [k \in Sweepers |-> {}]

-----------------------------------------------------------------------------
(* disconnect, first part of connect.                                       *)
Looping == \E k \in Sweepers : pc[k] = "tunnels"

\* The loop of another disconnect forgets the listeners bound behind it.
Holds ==
    (({client, jump} \cup terms) \ {None})
        \cup {s \in Starts : ~Looping /\ \E t \in Tunnels : active[t] = s} \cup streams \cup servers

\* A forward dies with its client; a server may already be stopped by another call.
Gone(i, k) ==
    /\ i \in Clients => link[i] \in {"none", "ended", "down"}
    /\ i \in Starts => i \notin bound \/ (Remote(TunnelOf[i]) /\ link[over[i]] # "up")
    /\ i \in Films => picture[i] # "open"
    /\ i \in Serves => process[i] # "open" \/ (quitting[i] # "no" /\ i \notin waits[k])

\* busyAction: one connect or disconnect of the user at a time. The menu also offers Disconnect
\* during a disconnect, whose late answer then frees busyAction (App.tsx:2438, App.tsx:1023):
\* that second click, and the connects it lets overlap, are left out.
Free == \A k \in Connects \cup Leaves : pc[k] \in Ended \cup {"new"}

SweepBegins(k) ==
    /\ Called(k)
    /\ \/ k \in Connects \cup Leaves /\ Free /\ UNCHANGED <<window, observers>>
       \/ k \in Shuts /\ window' = FALSE /\ observers' = {}     \* disposeWindowSession
    /\ closing' = TRUE
    /\ poller' = None                                           \* stopHostMetrics
    /\ StopSession
    /\ had' = [had EXCEPT ![k] = Holds]
    /\ Go(k, "idle")
    /\ UNCHANGED <<client, jump, link, shown, tunnelVars, shellVars, visionVars, streams, picture,
                   camera, serverVars, sftp, init, aux, auxState, polls, reading, waits>>

SweepServers(k) ==
    /\ pc[k] = "idle" /\ serving = None
    /\ Quit(servers, "silent")
    /\ waits' = [waits EXCEPT ![k] = servers]
    /\ Go(k, "servers")
    /\ UNCHANGED <<window, closing, client, jump, link, shown, tunnelVars, terminalVars, process, via,
                   given, lstate, sftp, init, aux, auxState, poller, polls, reading, had, idleVars>>

SweepTunnels(k) ==
    \/ /\ pc[k] = "servers" /\ \A s \in waits[k] : quitting[s] = "no"
       /\ SweepTunnelsBegin(k) /\ Go(k, "tunnels")
       /\ UNCHANGED <<window, closing, client, jump, link, shown, tstate, over, faulty,
                      terminalVars, serverVars, ownVars>>
    \/ /\ pc[k] = "tunnels" /\ Len(sweep[k]) > 1
       /\ SweepTunnelsNext(k)
       /\ UNCHANGED <<clientVars, over, faulty, terminalVars, serverVars, ownVars>>

\* As it would be if disconnect forgot the jump client.
SweptClientsButJump == ({client, aux} \cup terms) \ {None}

\* What a disconnect ends, and forgets, in its last turn.
SweptClients == ({client, jump, aux} \cup terms) \ {None}

Dialing(c) == IF c \in Hopping THEN Jump(c) ELSE c

SweepDone(k) ==
    /\ pc[k] = "tunnels" /\ Len(sweep[k]) <= 1
    /\ sweep' = [sweep EXCEPT ![k] = <<>>]
    /\ routed' = {} /\ active' = [t \in Tunnels |-> None] /\ tstate' = [t \in Tunnels |-> "stopped"]
    /\ DropStreams(streams) /\ display' = FALSE
    /\ DropTerminals(FALSE)
    /\ client' = None /\ jump' = None /\ sftp' = None /\ aux' = None /\ auxState' = "idle"
    /\ closing' = FALSE
    /\ LET ended == [c \in Clients |-> IF c \in SweptClients THEN "down" ELSE link[c]] IN
         IF k \in Connects
         THEN /\ link' = [ended EXCEPT ![Dialing(k)] = "dialing"]
              /\ Go(k, IF k \in Hopping THEN "hopping" ELSE "dialing")
              /\ Emit("connecting", None, "idle")
         ELSE /\ link' = ended
              /\ Go(k, "ok")
              /\ Emit("disconnected", None, "idle")
    /\ UNCHANGED <<window, bound, over, faulty, flow, kept, told, pending, camera, observers, serverVars,
                   init, poller, polls, reading, waits, had, idleVars>>

Sweep(k) == SweepBegins(k) \/ SweepServers(k) \/ SweepTunnels(k) \/ SweepDone(k)

-----------------------------------------------------------------------------
(* The rest of connect.                                                     *)
JumpDialed(c) ==
    /\ pc[c] = "hopping"
    /\ jump' = Jump(c)
    /\ link' = [link EXCEPT ![Jump(c)] = "up", ![c] = "dialing"]
    /\ Go(c, "dialing")
    /\ UNCHANGED <<window, closing, client, shown, tunnelVars, terminalVars, serverVars, ownVars>>

Dialed(c) ==
    /\ pc[c] = "dialing"
    /\ client' = c /\ aux' = None /\ auxState' = "idle"
    /\ link' = [link EXCEPT ![c] = "up"]
    /\ StartSession(c)
    /\ Go(c, "starting")
    /\ UNCHANGED <<window, closing, jump, shown, tunnelVars, terminalVars, serverVars,
                   sftp, init, poller, polls, reading, waits, had>>

\* idleTransfers.startSession made its directory.
ConnectDone(c) ==
    /\ pc[c] = "starting"
    /\ init' = [init EXCEPT ![c] = IF Connected THEN "sftp" ELSE "done"]
    /\ dir' = c
    /\ Emit("connected", client, "loading")
    /\ Go(c, "ok")
    /\ UNCHANGED <<window, closing, client, jump, link, tunnelVars, terminalVars, serverVars,
                   sftp, aux, auxState, poller, polls, reading, waits, had,
                   signal, latest, queueVars, serving, cached, bytes, walk>>

ConnectFails(c) ==
    /\ pc[c] \in {"hopping", "dialing", "starting"}
    /\ EndClients(({client, jump, aux, c, Dialing(c)}) \ {None})
    /\ client' = None /\ jump' = None /\ sftp' = None /\ aux' = None /\ auxState' = "idle"
    /\ StopSession
    /\ Emit("error", None, "error")
    /\ Go(c, "failed")
    /\ UNCHANGED <<window, closing, tunnelVars, terminalVars, serverVars,
                   init, poller, polls, reading, waits, had>>

-----------------------------------------------------------------------------
(* initializePrimaryFilesystem; its client is the one c opened.             *)
InitAt(c, where) == init' = [init EXCEPT ![c] = where]

\* As it would be without the check after the await.
SftpOpenedUnchecked(c) ==
    /\ init[c] = "sftp"
    /\ InitAt(c, "home") /\ sftp' = c
    /\ UNCHANGED <<clientVars, tunnelVars, terminalVars, serverVars, aux, auxState, poller, polls,
                   reading, waits, had, idleVars>>

SftpOpened(c) ==
    /\ init[c] = "sftp" /\ link[c] = "up"
    /\ IF client # c \/ closing THEN InitAt(c, "done") /\ UNCHANGED sftp
       ELSE InitAt(c, "home") /\ sftp' = c
    /\ UNCHANGED <<clientVars, tunnelVars, terminalVars, serverVars, aux, auxState, poller, polls,
                   reading, waits, had, idleVars>>

HomeResolved(c) ==           \* resolveHomeDirectory does not throw once asked
    /\ init[c] = "home"
    /\ InitAt(c, "done")
    /\ IF client # c \/ closing THEN UNCHANGED shown ELSE Emit("connected", client, "ready")
    /\ UNCHANGED <<pc, window, closing, client, jump, link, tunnelVars, terminalVars, serverVars,
                   sftp, aux, auxState, poller, polls, reading, waits, had, idleVars>>

SftpRefused(c) ==            \* whoever the client is by now loses its sftp
    /\ init[c] = "sftp"
    /\ IF ~Connected \/ closing THEN InitAt(c, "done") /\ UNCHANGED sftp
       ELSE InitAt(c, "shell") /\ sftp' = None
    /\ UNCHANGED <<clientVars, tunnelVars, terminalVars, serverVars, aux, auxState, poller, polls,
                   reading, waits, had, idleVars>>

ShellHomeResolved(c) ==
    /\ init[c] = "shell"
    /\ InitAt(c, "done")
    /\ Emit("connected", client, "ready")
    /\ UNCHANGED <<pc, window, closing, client, jump, link, tunnelVars, terminalVars, serverVars,
                   sftp, aux, auxState, poller, polls, reading, waits, had, idleVars>>

-----------------------------------------------------------------------------
(* The remote ends the interactive client: 'end', then 'close', each of     *)
(* which calls handleRemoteDisconnect.                                      *)
ToldLost(c, e) ==
    IF closing
    THEN UNCHANGED <<client, shown, tunnelVars, shellVars, display, streams, servers, quitting,
                     sftp, aux, poller, idleVars>>
    ELSE /\ StopSession
         /\ Quit(servers, "silent")
         /\ SweepTunnelsBegin(<<c, e>>)
         /\ tstate' = IF SweepOrder = <<>> THEN [t \in Tunnels |-> "stopped"] ELSE tstate
         /\ DropTerminals(TRUE)
         /\ streams' = {} /\ display' = FALSE
         /\ client' = None /\ sftp' = None /\ aux' = None
         /\ poller' = None
         /\ Emit("disconnected", client, "idle")
         /\ UNCHANGED <<over, faulty, kept>>

InteractiveLost(c, e) ==
    /\ link[c] = "up" \/ (e = "close" /\ link[c] = "ended")
    /\ LET ended == IF closing THEN {} ELSE ({aux} \cup terms) \ {None} IN
         link' = [i \in Clients |-> IF i = c THEN (IF e = "end" THEN "ended" ELSE "down")
                                    ELSE IF i \in ended THEN "down" ELSE link[i]]
    /\ ToldLost(c, e)
    /\ UNCHANGED <<pc, window, closing, jump, told, pending, picture, camera, observers, process, via,
                   given, lstate, init, auxState, polls, reading, waits, had>>

\* The loops it left running, and the clear that follows each.
LostTunnelStopped(c, e) ==
    LET k == <<c, e>> IN
    /\ sweep[k] # <<>>
    /\ IF Len(sweep[k]) > 1 THEN SweepTunnelsNext(k)
       ELSE /\ sweep' = [sweep EXCEPT ![k] = <<>>] /\ routed' = {}
            /\ tstate' = [t \in Tunnels |-> "stopped"]
            /\ UNCHANGED <<active, bound, flow>>
    /\ UNCHANGED <<clientVars, over, faulty, terminalVars, serverVars, ownVars>>

\* The client's 'error' before its 'close'.
SocketError(c) ==
    /\ client = c /\ link[c] = "up" /\ shown.state = "connected"
    /\ shown' = [shown EXCEPT !.state = "error", !.conn = client]
    /\ UNCHANGED <<pc, window, closing, client, jump, link, tunnelVars, terminalVars, serverVars, ownVars>>

-----------------------------------------------------------------------------
(* ensureAuxiliaryConnection and tryInitializeAuxiliarySession.             *)
\* auxiliaryAttempted is set whenever the state is not idle.
EnsureAuxiliary(h) ==
    /\ Called(h)
    /\ IF ~Connected \/ auxState # "idle" THEN Go(h, "ok") /\ UNCHANGED <<link, auxState>>
       ELSE auxState' = "connecting" /\ Dial(h) /\ Go(h, "dialing")
    /\ UNCHANGED <<window, closing, client, jump, shown, tunnelVars, terminalVars, serverVars,
                   sftp, init, aux, poller, polls, reading, waits, had, idleVars>>

AuxiliaryDialed(h) ==
    /\ pc[h] = "dialing"
    /\ IF Connected /\ ~closing THEN link' = [link EXCEPT ![h] = "up"] /\ Go(h, "sftp")
       ELSE EndClients({h}) /\ Go(h, "ok")
    /\ UNCHANGED <<window, closing, client, jump, shown, tunnelVars, terminalVars, serverVars, ownVars>>

AuxiliaryReady(h) ==         \* not checked again
    /\ pc[h] = "sftp" /\ link[h] = "up"
    /\ aux' = h /\ auxState' = "ready" /\ Go(h, "ok")
    /\ UNCHANGED <<window, closing, client, jump, link, shown, tunnelVars, terminalVars, serverVars,
                   sftp, init, poller, polls, reading, waits, had, idleVars>>

AuxiliaryFails(h) ==         \* error, close, end or the timeout, the first of them
    /\ pc[h] \in {"dialing", "sftp"}
    /\ IF pc[h] = "dialing" THEN EndClients({h}) ELSE UNCHANGED link
    /\ aux' = None /\ auxState' = "failed" /\ Go(h, "ok")
    /\ UNCHANGED <<window, closing, client, jump, shown, tunnelVars, terminalVars, serverVars,
                   sftp, init, poller, polls, reading, waits, had, idleVars>>

AuxiliaryLost(h) ==          \* handleAuxiliaryDisconnect ends the one there is
    /\ link[h] = "up"
    /\ LET heard == pc[h] = "ok" /\ ~closing IN
         /\ link' = [i \in Clients |-> IF i = h \/ (heard /\ i = aux) THEN "down" ELSE link[i]]
         /\ aux' = IF heard THEN None ELSE aux
         /\ auxState' = IF heard THEN "failed" ELSE auxState
    /\ UNCHANGED <<pc, window, closing, client, jump, shown, tunnelVars, terminalVars, serverVars,
                   sftp, init, poller, polls, reading, waits, had, idleVars>>

-----------------------------------------------------------------------------
(* startHostMetrics, runHostMetricsPoll, scheduleHostMetricsPoll.           *)
Poll(g) == polls' = IF Connected THEN polls \cup {[by |-> g, of |-> client]} ELSE polls

StartHostMetrics(g) ==
    /\ Called(g)
    /\ Go(g, IF Connected THEN "ok" ELSE "failed")
    /\ IF Connected /\ poller = None THEN poller' = g /\ Poll(g)
       ELSE UNCHANGED <<poller, polls>>         \* a poller there is is retuned
    /\ UNCHANGED <<window, closing, client, jump, link, shown, tunnelVars, terminalVars, serverVars,
                   sftp, init, aux, auxState, reading, waits, had, idleVars>>

Wanted(p) == poller = p.by /\ client = p.of

PollDone(p) ==
    /\ p \in polls
    /\ polls' = polls \ {p}
    /\ reading' = IF Wanted(p) THEN [of |-> p.of, now |-> client] ELSE reading
    /\ UNCHANGED <<clientVars, tunnelVars, terminalVars, serverVars,
                   sftp, init, aux, auxState, poller, waits, had, idleVars>>

PollTimer ==
    /\ poller # None /\ Connected /\ \A p \in polls : p.by # poller
    /\ Poll(poller)
    /\ UNCHANGED <<clientVars, tunnelVars, terminalVars, serverVars,
                   sftp, init, aux, auxState, poller, reading, waits, had, idleVars>>

-----------------------------------------------------------------------------
LifecycleNext ==
    \/ \E k \in Sweepers : Sweep(k)
    \/ \E c \in Connects : \/ c \in Hopping /\ JumpDialed(c)
                           \/ Dialed(c) \/ ConnectDone(c) \/ ConnectFails(c)
                           \/ SftpOpened(c) \/ HomeResolved(c) \/ SftpRefused(c) \/ ShellHomeResolved(c)
                           \/ SocketError(c)
                           \/ \E e \in {"end", "close"} : InteractiveLost(c, e) \/ LostTunnelStopped(c, e)
    \/ \E h \in Helpers : \/ EnsureAuxiliary(h) \/ AuxiliaryDialed(h) \/ AuxiliaryReady(h)
                          \/ AuxiliaryFails(h) \/ AuxiliaryLost(h)
    \/ \E g \in Gauges : StartHostMetrics(g)
    \/ \E p \in polls : PollDone(p)
    \/ PollTimer

Next ==
    \/ TunnelsNext /\ UNCHANGED <<terminalVars, serverVars, ownVars>>
    \/ TerminalsNext /\ UNCHANGED <<tunnelVars, serverVars, ownVars>>
    \/ ServersNext /\ UNCHANGED <<tunnelVars, terminalVars, ownVars>>
    \/ IdleNext /\ UNCHANGED <<tunnelVars, terminalVars, serverVars,
                               init, aux, auxState, poller, polls, reading, waits, had>>
    \/ LifecycleNext

Spec == Init /\ [][Next]_vars

-----------------------------------------------------------------------------
(* Properties *)

\* Where a call can be: not begun, in the await it is named for, or ended.
Places ==
    Ended \cup {"new", "idle", "servers", "tunnels", "hopping", "dialing", "starting"}
          \cup {"probing", "shell", "sftp", "display", "telling", "encoder", "exec", "binding", "undoing", "stopping"}
          \cup {"initialize", "quitting", "wait", "stat", "list", "quiet"}

TypeOK ==
    /\ TunnelsTypeOK /\ TerminalsTypeOK /\ ServersTypeOK /\ IdleTypeOK
    /\ pc \in [Calls -> Places] /\ window \in BOOLEAN /\ closing \in BOOLEAN
    /\ client \in Connects \cup {None}
    /\ jump \in {None} \cup {Jump(c) : c \in Hopping}
    /\ link \in [Clients -> {"none", "dialing", "up", "ended", "down"}]
    /\ shown \in [state : {"disconnected", "connecting", "connected", "error"},
                  conn : Connects \cup {None}, files : {"idle", "loading", "ready", "error"}]
    /\ aux \in Helpers \cup {None}
    /\ init \in [Connects -> {"none", "sftp", "home", "shell", "done"}]
    /\ auxState \in {"idle", "connecting", "ready", "failed"}
    /\ poller \in Gauges \cup {None} /\ polls \subseteq [by : Gauges, of : Connects]
    /\ reading \in [of : Connects \cup {None}, now : Connects \cup {None}]
    /\ waits \in [Sweepers -> SUBSET Serves]

(* The sftp and the metrics of an earlier connection are not taken for this *)
(* one's: file operations find no sftp but the current client's, though it  *)
(* was asked for before a disconnect and a reconnect; and a metrics event   *)
(* names the connection that is current and was asked.                      *)
OnlyCurrent ==
    /\ sftp \in {None, client}
    /\ reading.of = reading.now

(* A disconnect leaves nothing of what the session held when it began,      *)
(* whatever the connections, closings and stops that ran beside it had      *)
(* done: its interactive and jump clients, terminals, listeners, video      *)
(* streams and language servers are closed.  Not counted are the auxiliary  *)
(* client, whose late arrival the code does not check, and listeners found  *)
(* while another disconnect goes through the tunnels: one bound behind its  *)
(* loop is forgotten by its activeTunnels.clear(), and stays.               *)
DisconnectEnds ==
    [][\A k \in Sweepers : pc[k] = "tunnels" /\ pc'[k] # "tunnels" => \A i \in had[k] : Gone(i, k)']_vars
=============================================================================
