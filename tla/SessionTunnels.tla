--------------------------- MODULE SessionTunnels ---------------------------
(***************************************************************************)
(* The tunnels of a session (ssh-session.ts:1920-2400): listeners bound    *)
(* here or, by forwardIn, on the server; the connections bridged through   *)
(* them; the state the tunnels dialog shows.  The Start call that bound a  *)
(* listener names it.  net and ssh2 refuse a second listener on a port.    *)
(***************************************************************************)
EXTENDS SessionClients

CONSTANTS
    Tunnels,     \* saved tunnels
    Kind,        \* of each tunnel: "local", "dynamic" or "remote"
    TunnelOf,    \* of each Start and Stop call
    Conns        \* bound: connections through all listeners

ASSUME TunnelAssumption ==
    /\ IsFiniteSet(Tunnels)
    /\ Kind \in [Tunnels -> {"local", "dynamic", "remote"}]
    /\ TunnelOf \in [Starts \cup Stops -> Tunnels]

VARIABLES
    active,    \* activeTunnels: the listener of each tunnel or None
    tstate,    \* tunnelStates
    bound,     \* listeners that accept connections
    routed,    \* remoteTunnelBindings: the tunnels in it
    over,      \* the client each remote Start call asks for its forward
    faulty,    \* tunnels whose server's 'error' handler awaits cleanupTunnel
    sweep,     \* what is left to each stopAllTunnels loop; its head is being cleaned up
    flow       \* the connections: listener, where, its two ends

tunnelVars == <<active, tstate, bound, routed, over, faulty, sweep, flow>>

\* stopAllTunnels runs in a sweep and, unawaited, in handleRemoteDisconnect.
Loops == Sweepers \cup {<<c, e>> : c \in Connects, e \in {"end", "close"}}

Remote(t) == Kind[t] = "remote"
Quiet == [by |-> None, at |-> "none", socket |-> FALSE, channel |-> FALSE]

TunnelsInit ==
    /\ active = [t \in Tunnels |-> None]
    /\ tstate = [t \in Tunnels |-> "stopped"]
    /\ bound = {} /\ routed = {} /\ faulty = {}
    /\ over = [s \in Starts |-> None]
    /\ sweep = [k \in Loops |-> <<>>]
    /\ flow = [k \in Conns |-> Quiet]

-----------------------------------------------------------------------------
(* cleanupTunnel, up to its await: the sets of the session hold a socket    *)
(* from its accept (local) or from its bridging (remote), and a channel     *)
(* from its bridging.                                                       *)
Held(k, s) == flow[k].by = s /\ flow[k].at \in {"socks", "forwarding", "bridged"}

\* What a plausible slip would leave open: a socket that joins the session's
\* set only when it is bridged, as a remote tunnel's does.
CutFlowsBridged(s) ==
    flow' = [k \in Conns |-> IF Held(k, s) /\ flow[k].at = "bridged"
                             THEN [flow[k] EXCEPT !.socket = FALSE, !.channel = FALSE]
                             ELSE flow[k]]

CutFlows(s) ==
    flow' = [k \in Conns |-> IF Held(k, s)
                             THEN [flow[k] EXCEPT !.socket = FALSE, !.channel = FALSE]
                             ELSE flow[k]]

Cleanup(t) ==
    /\ active' = [active EXCEPT ![t] = None]
    /\ bound' = bound \ {active[t]}
    /\ routed' = IF Remote(t) /\ active[t] # None THEN routed \ {t} ELSE routed
    /\ IF active[t] # None THEN CutFlows(active[t]) ELSE UNCHANGED flow

SetTunnelState(t, s) == tstate' = [tstate EXCEPT ![t] = s]

StartTunnel(s) ==
    /\ Called(s)
    /\ IF ~Connected \/ closing \/ active[TunnelOf[s]] # None
       THEN Go(s, "failed") /\ UNCHANGED <<tstate, over>>
       ELSE /\ SetTunnelState(TunnelOf[s], "starting")
            /\ over' = [over EXCEPT ![s] = client]
            /\ Go(s, "binding")
    /\ UNCHANGED <<window, closing, client, jump, link, shown, active, bound, routed, faulty, sweep, flow>>

PortTaken(s) ==
    \E other \in bound :
        /\ TunnelOf[other] = TunnelOf[s]
        /\ Remote(TunnelOf[s]) => link[over[other]] = "up"

TunnelBound(s) ==
    /\ pc[s] = "binding" /\ ~PortTaken(s)
    /\ LET t == TunnelOf[s] IN
         /\ Remote(t) => link[over[s]] = "up"
         /\ bound' = bound \cup {s}
         /\ active' = [active EXCEPT ![t] = s]
         /\ routed' = IF Remote(t) THEN routed \cup {t} ELSE routed
         /\ SetTunnelState(t, "running")
    /\ Go(s, "ok")
    /\ UNCHANGED <<window, closing, client, jump, link, shown, over, faulty, sweep, flow>>

TunnelRefused(s) ==          \* the port is taken, or the client lost
    /\ pc[s] = "binding"
    /\ Cleanup(TunnelOf[s])
    /\ Go(s, "undoing")
    /\ UNCHANGED <<window, closing, client, jump, link, shown, tstate, over, faulty, sweep>>

TunnelUndone(s) ==
    /\ pc[s] = "undoing"
    /\ SetTunnelState(TunnelOf[s], "error")
    /\ Go(s, "failed")
    /\ UNCHANGED <<window, closing, client, jump, link, shown, active, bound, routed, over, faulty, sweep, flow>>

StopTunnel(x) ==             \* also the first half of tunnelsSave and tunnelsRemove
    /\ Called(x)
    /\ Cleanup(TunnelOf[x])
    /\ Go(x, "stopping")
    /\ UNCHANGED <<window, closing, client, jump, link, shown, tstate, over, faulty, sweep>>

TunnelStopped(x) ==
    /\ pc[x] = "stopping"
    /\ SetTunnelState(TunnelOf[x], "stopped")
    /\ Go(x, "ok")
    /\ UNCHANGED <<window, closing, client, jump, link, shown, active, bound, routed, over, faulty, sweep, flow>>

\* The 'error' listener startLocalTunnel leaves on its server.
ServerFailed(s) ==
    /\ s \in bound /\ ~Remote(TunnelOf[s]) /\ TunnelOf[s] \notin faulty
    /\ Cleanup(TunnelOf[s])
    /\ faulty' = faulty \cup {TunnelOf[s]}
    /\ UNCHANGED <<clientVars, tstate, over, sweep>>

ServerFailureShown(t) ==
    /\ t \in faulty
    /\ SetTunnelState(t, "error")
    /\ faulty' = faulty \ {t}
    /\ UNCHANGED <<clientVars, active, bound, routed, over, sweep, flow>>

-----------------------------------------------------------------------------
(* stopAllTunnels.                                                          *)
SweepOrder == SetToSeq({t \in Tunnels : active[t] # None})

\* Its first part, in the step of the call that makes it.
SweepTunnelsBegin(k) ==
    /\ sweep' = [sweep EXCEPT ![k] = SweepOrder]
    /\ IF SweepOrder # <<>>
       THEN Cleanup(Head(SweepOrder))
       ELSE routed' = {} /\ UNCHANGED <<active, bound, flow>>

\* The head's cleanup is over, and there is a next.
SweepTunnelsNext(k) ==
    /\ SetTunnelState(Head(sweep[k]), "stopped")
    /\ sweep' = [sweep EXCEPT ![k] = Tail(@)]
    /\ Cleanup(sweep[k][2])

-----------------------------------------------------------------------------
(* Connections.                                                             *)
Change(k, to) == flow' = [flow EXCEPT ![k] = to]

\* handleLocalTunnelSocket, handleDynamicTunnelSocket: the socket joins the
\* session's set at once; requireInteractiveClient may already throw.
Accept(k, s) ==
    /\ flow[k].at = "none" /\ s \in bound /\ ~Remote(TunnelOf[s])
    /\ LET dynamic == Kind[TunnelOf[s]] = "dynamic"
           lost == ~dynamic /\ ~Connected
       IN  Change(k, [by |-> s, socket |-> ~lost, channel |-> FALSE,
                      at |-> IF dynamic THEN "socks" ELSE IF lost THEN "over" ELSE "forwarding"])

\* negotiateSocks5: a greeting and a request, either of which may be refused.
Negotiate(k) ==
    /\ flow[k].at = "socks"
    /\ \/ Change(k, [flow[k] EXCEPT !.at = "over", !.socket = FALSE])
       \/ flow[k].socket /\ Connected /\ Change(k, [flow[k] EXCEPT !.at = "forwarding"])

\* handleRemoteTunnelConnection: matched by its binding, else by its port.
AcceptRemote(k, s) ==
    /\ flow[k].at = "none" /\ s \in bound /\ Remote(TunnelOf[s]) /\ link[over[s]] = "up"
    /\ LET t == TunnelOf[s] IN
         IF active[t] = None THEN Change(k, [Quiet EXCEPT !.at = "over"])
         ELSE Change(k, [by |-> active[t], at |-> "connecting", socket |-> TRUE, channel |-> FALSE])

\* bridgeTunnelConnection.  A socket destroyed before has no 'close' left to
\* tell: its channel stays open until the server closes it.
Bridge(k) ==
    /\ flow[k].at \in {"forwarding", "connecting"}
    /\ \/ Connected /\ Change(k, [flow[k] EXCEPT !.at = "bridged", !.channel = TRUE])
       \/ Change(k, [flow[k] EXCEPT !.at = "over", !.socket = FALSE])

\* An end closes, and the cleanup of the bridge closes the other.
Unbridge(k) ==
    /\ flow[k].at = "bridged" /\ (flow[k].socket \/ flow[k].channel)
    /\ Change(k, [flow[k] EXCEPT !.at = "over", !.socket = FALSE, !.channel = FALSE])

Connection(k) ==
    /\ \/ \E s \in Starts : Accept(k, s) \/ AcceptRemote(k, s)
       \/ Negotiate(k) \/ Bridge(k) \/ Unbridge(k)
    /\ UNCHANGED <<clientVars, active, tstate, bound, routed, over, faulty, sweep>>

TunnelsNext ==
    \/ \E s \in Starts : \/ StartTunnel(s) \/ TunnelBound(s) \/ TunnelRefused(s)
                         \/ TunnelUndone(s) \/ ServerFailed(s)
    \/ \E x \in Stops : StopTunnel(x) \/ TunnelStopped(x)
    \/ \E t \in Tunnels : ServerFailureShown(t)
    \/ \E k \in Conns : Connection(k)

-----------------------------------------------------------------------------
(* Someone is between a cleanup of t and the state that follows it.         *)
Settling(t) ==
    \/ t \in faulty
    \/ \E s \in Starts : TunnelOf[s] = t /\ pc[s] = "undoing"
    \/ \E x \in Stops : TunnelOf[x] = t /\ pc[x] = "stopping"
    \/ \E k \in Loops : sweep[k] # <<>> /\ Head(sweep[k]) = t

(* The tunnels dialog does not lie where it matters: a tunnel shown as      *)
(* running has its listener, or a call that will say otherwise; and no      *)
(* connection carries data both ways through a local or SOCKS listener that *)
(* was closed, however its forwarding raced the stop.                       *)
TunnelsAreTruthful ==
    /\ \A t \in Tunnels : tstate[t] = "running" =>
          active[t] \in bound \/ Settling(t)
    /\ \A k \in Conns : flow[k].by \in Starts /\ ~Remote(TunnelOf[flow[k].by])
          /\ flow[k].socket /\ flow[k].channel => flow[k].by \in bound

TunnelsTypeOK ==
    /\ active \in [Tunnels -> Starts \cup {None}]
    /\ tstate \in [Tunnels -> {"stopped", "starting", "running", "error"}]
    /\ bound \subseteq Starts /\ routed \subseteq Tunnels /\ faulty \subseteq Tunnels
    /\ over \in [Starts -> Connects \cup {None}]
    /\ sweep \in [Loops -> Seq(Tunnels)]
    /\ flow \in [Conns -> [by : Starts \cup {None}, socket : BOOLEAN, channel : BOOLEAN,
                           at : {"none", "socks", "forwarding", "connecting", "bridged", "over"}]]
=============================================================================
