------------------------ MODULE SessionTunnelsProofs ------------------------
(***************************************************************************)
(* The tunnels of a session, for every number of them and of calls: what   *)
(* the panel shows of a tunnel is what listens (TunnelsAreTruthful).  What  *)
(* a disconnect leaves of a session: nothing of what was there when it      *)
(* began (DisconnectEnds).  And its idle transfers: none is taken over a    *)
(* connection that has ended, and what is reserved of the cache is what     *)
(* waits or is being transferred (IdleIsThisSessions).  With the invariants *)
(* of all this, last, the types of the whole session (TypeOK).              *)
(***************************************************************************)
EXTENDS SessionProofs, FiniteSetTheorems, WellFoundedInduction, NaturalsInduction

-----------------------------------------------------------------------------
(* What stopAllTunnels goes through.                                        *)

LEMMA SetToSeqIsSeq == ASSUME NEW S, IsFiniteSet(S) PROVE SetToSeq(S) \in Seq(S)
<1>1. Cardinality(S) \in Nat /\ ExistsBijection(1..Cardinality(S), S)
    BY FS_CardinalityType, Zenon
<1>2. PICK f \in [1..Cardinality(S) -> S] : IsInjective(f)
    BY <1>1, Zenon DEF ExistsBijection, Bijection, Injection
<1>3. SetToSeq(S) \in [1..Cardinality(S) -> S]
    BY <1>2, Zenon DEF SetToSeq
<1> QED BY <1>1, <1>3

LEMMA SweepOrderIsSeq == SweepOrder \in Seq(Tunnels)
<1>1. IsFiniteSet({t \in Tunnels : active[t] # None})
    BY TunnelAssumption, FS_Subset
<1>2. SweepOrder \in Seq({t \in Tunnels : active[t] # None})
    BY <1>1, SetToSeqIsSeq DEF SweepOrder
<1> QED BY <1>2

-----------------------------------------------------------------------------
(* What runs beside the tunnels.                                            *)

\* A connect that has not dialed its client.
Early == {"off", "new", "idle", "servers", "tunnels", "hopping", "dialing"}
Awaiting == {"undoing", "stopping", "tunnels"}

LinkTyped == link = [i \in Clients |-> link[i]]

CallsAside ==
    /\ PcTyped'
    /\ \A x \in Calls : pc[x] \in Awaiting => pc'[x] = pc[x]
    /\ \A c \in Connects : pc'[c] \in Early => pc[c] \in Early

\* No interactive client comes up or is told of its end.
LinksAside ==
    /\ LinkTyped'
    /\ \A c \in Connects : link'[c] \in {"up", "ended"} => link'[c] = link[c]

Aside == CallsAside /\ LinksAside

LEMMA CallsStay == ASSUME PcTyped, UNCHANGED pc PROVE CallsAside
BY DEF CallsAside, PcTyped, Calls

LEMMA CallGoes ==
    ASSUME PcTyped, NEW c \in Calls, NEW where, Go(c, where), pc[c] \notin Awaiting,
           c \notin Connects \/ where \notin Early \/ pc[c] \in Early
    PROVE  CallsAside
BY DEF CallsAside, PcTyped, Calls, Go

LEMMA LinksStay == ASSUME LinkTyped, UNCHANGED link PROVE LinksAside
BY DEF LinksAside, LinkTyped, Clients

LEMMA LinksEnd == ASSUME LinkTyped, NEW S, EndClients(S) PROVE LinksAside
BY DEF LinksAside, LinkTyped, EndClients, Clients

LEMMA LinkChanges ==
    ASSUME LinkTyped, NEW i, i \notin Connects, NEW v, link' = [link EXCEPT ![i] = v] PROVE LinksAside
BY DEF LinksAside, LinkTyped, Clients

LEMMA Distinct == /\ \A c \in Connects : c \notin Opens /\ c \notin Helpers /\ c \notin Others
                  /\ \A c \in Connects : \A what \in {"jump", "end", "close"} : <<c, what>> \notin Calls
BY SessionAssumption, CallsDiffer DEF Others

LEMMA ServersAside == ASSUME PcTyped, LinkTyped, ServersNext PROVE Aside
<1>1. UNCHANGED link
    BY DEF ServersNext, StartLanguageServer, ServerSpawned, Initialized, InitializeFails, StartGivenUp,
           QuitDone, ServerLost, StopLanguageServer, ServerStopped, clientVars
<1>2. \A s \in Serves \cup Halts : s \in Others /\ s \in Calls /\ s \notin Connects
    BY SessionAssumption, CallsDiffer DEF Others, Calls
<1>3. ASSUME NEW s \in Serves,
             \/ StartLanguageServer(s) \/ ServerSpawned(s) \/ Initialized(s)
             \/ InitializeFails(s) \/ StartGivenUp(s)
      PROVE  CallsAside
    <2>1. \E where : Go(s, where)
        BY <1>3 DEF StartLanguageServer, ServerSpawned, Initialized, InitializeFails, StartGivenUp
    <2>2. pc[s] \notin Awaiting
        BY <1>3 DEF StartLanguageServer, ServerSpawned, Initialized, InitializeFails, StartGivenUp, Called, Awaiting
    <2> QED BY <1>2, <2>1, <2>2, CallGoes
<1>4. ASSUME NEW s \in Serves, QuitDone(s) \/ ServerLost(s)
      PROVE  CallsAside
    BY <1>4, CallsStay DEF QuitDone, ServerLost, clientVars
<1>5. ASSUME NEW x \in Halts, StopLanguageServer(x) \/ ServerStopped(x)
      PROVE  CallsAside
    <2>1. \E where : Go(x, where)
        BY <1>5 DEF StopLanguageServer, ServerStopped
    <2>2. pc[x] \notin Awaiting
        BY <1>5 DEF StopLanguageServer, ServerStopped, Called, Awaiting
    <2> QED BY <1>2, <2>1, <2>2, CallGoes
<1> QED BY <1>1, <1>3, <1>4, <1>5, LinksStay DEF ServersNext, Aside

LEMMA IdleAside == ASSUME PcTyped, LinkTyped, IdleNext PROVE Aside
<1>1. \A w \in Scans \cup Grabs \cup Drops : w \in Calls /\ w \notin Connects
    BY SessionAssumption, CallsDiffer DEF Others, Calls
<1>2. CASE Transferred \/ TransferFails \/ PartRemoved
    BY <1>2, CallsStay, LinksStay DEF Transferred, TransferFails, PartRemoved, clientVars, Aside
<1>3. ASSUME NEW s \in Scans, StartAutomaticMediaCache(s)
      PROVE  Aside
    <2>1. UNCHANGED link /\ pc[s] = "new" /\ \E where : Go(s, where)
        BY <1>3 DEF StartAutomaticMediaCache, Called
    <2> QED BY <1>1, <2>1, CallGoes, LinksStay DEF Awaiting, Aside
<1>4. ASSUME NEW w \in Scans \cup Grabs, WalkReads(w) \/ WalkFails(w)
      PROVE  Aside
    <2>1. UNCHANGED link /\ pc[w] \in {"wait", "stat", "list"} /\ \E where : Go(w, where)
        BY <1>4 DEF WalkReads, WalkFails
    <2> QED BY <1>1, <2>1, CallGoes, LinksStay DEF Awaiting, Aside
<1>5. ASSUME NEW w \in Scans \cup Grabs, Listed(w)
      PROVE  Aside
    <2>1. UNCHANGED link /\ pc[w] = "list" /\ \E where : Go(w, where)
        BY <1>5 DEF Listed
    <2> QED BY <1>1, <2>1, CallGoes, LinksStay, SMTT(60) DEF Awaiting, Aside
<1>6. ASSUME NEW g \in Grabs, QueueManualDownload(g) \/ GrabStats(g) \/ GrabStated(g)
      PROVE  Aside
    <2>1. UNCHANGED link /\ pc[g] \in {"new", "quiet", "stat"} /\ \E where : Go(g, where)
        BY <1>6 DEF QueueManualDownload, GrabStats, GrabStated, Called
    <2> QED BY <1>1, <2>1, CallGoes, LinksStay DEF Awaiting, Aside
<1>7. ASSUME NEW d \in Drops, CancelGroup(d)
      PROVE  Aside
    <2>1. UNCHANGED link /\ pc[d] = "new" /\ Go(d, "ok")
        BY <1>7 DEF CancelGroup, Called
    <2> QED BY <1>1, <2>1, CallGoes, LinksStay DEF Awaiting, Aside
<1> QED BY <1>2, <1>3, <1>4, <1>5, <1>6, <1>7 DEF IdleNext

LEMMA TerminalsAside == ASSUME PcTyped, LinkTyped, TerminalsNext PROVE Aside
<1>1. /\ \A c \in Opens \cup Visions \cup Others : c \in Calls /\ c \notin Connects
      /\ Hangups \cup Films \cup Cuts \subseteq Others
    BY SessionAssumption, CallsDiffer DEF Others, Calls
<1>2. ASSUME NEW t \in Opens,
             \/ OpenTerminal(t) \/ TerminalProbed(t) \/ TerminalDialed(t)
             \/ TerminalFails(t) \/ TerminalReady(t)
      PROVE  Aside
    <2>1. \E where : Go(t, where)
        BY <1>2 DEF OpenTerminal, TerminalProbed, TerminalDialed, TerminalFails, TerminalReady, Register
    <2>2. pc[t] \notin Awaiting
        BY <1>2 DEF OpenTerminal, TerminalProbed, TerminalDialed, TerminalFails, TerminalReady, Called, Awaiting
    <2>3. UNCHANGED link \/ EndClients({t}) \/ \E v : link' = [link EXCEPT ![t] = v]
        BY <1>2 DEF OpenTerminal, TerminalProbed, TerminalDialed, TerminalFails, TerminalReady, Register, Dial
    <2> QED BY <1>1, <2>1, <2>2, <2>3, CallGoes, LinksStay, LinksEnd, LinkChanges DEF Aside
<1>3. ASSUME NEW t \in Opens,
             TerminalOutput(t) \/ FlushTimer(t) \/ ChannelClosed(t) \/ TerminalClientLost(t)
      PROVE  Aside
    <2>1. UNCHANGED pc /\ (UNCHANGED link \/ EndClients({t}) \/ link' = [link EXCEPT ![t] = "down"])
        BY <1>3 DEF TerminalOutput, FlushTimer, ChannelClosed, TerminalClientLost, clientVars
    <2> QED BY <1>1, <2>1, CallsStay, LinksStay, LinksEnd, LinkChanges DEF Aside
<1>4. ASSUME NEW x \in Hangups, CloseTerminal(x)
      PROVE  Aside
    <2>1. pc[x] = "new" /\ Go(x, "ok") /\ (UNCHANGED link \/ EndClients({TerminalOf[x]}))
        BY <1>4 DEF CloseTerminal, Called
    <2> QED BY <1>1, <2>1, CallGoes, LinksStay, LinksEnd DEF Awaiting, Aside
<1>5. ASSUME NEW x \in Visions, EnableVisionMode(x) \/ VirtualDisplay(x) \/ TellTerminal(x)
      PROVE  Aside
    <2>1. UNCHANGED link /\ pc[x] \in {"new", "display", "telling"} /\ (UNCHANGED pc \/ \E where : Go(x, where))
        BY <1>5 DEF EnableVisionMode, VirtualDisplay, TellTerminal, Called
    <2> QED BY <1>1, <2>1, CallsStay, CallGoes, LinksStay DEF Awaiting, Aside
<1>6. CASE DisableVisionMode
    BY <1>6, CallsStay, LinksStay DEF DisableVisionMode, clientVars, Aside
<1>7. ASSUME NEW v \in Films, StartVideoStream(v) \/ ResolveFfmpegBinary(v) \/ VideoStarts(v)
      PROVE  Aside
    <2>1. UNCHANGED link /\ pc[v] \in {"new", "encoder", "exec"} /\ \E where : Go(v, where)
        BY <1>7 DEF StartVideoStream, ResolveFfmpegBinary, VideoStarts, Called
    <2> QED BY <1>1, <2>1, CallGoes, LinksStay DEF Awaiting, Aside
<1>8. ASSUME NEW v \in Films, VideoEnds(v) \/ ObserverClosed(v)
      PROVE  Aside
    BY <1>8, CallsStay, LinksStay DEF VideoEnds, ObserverClosed, clientVars, Aside
<1>9. ASSUME NEW x \in Cuts, StopVideoStream(x)
      PROVE  Aside
    <2>1. UNCHANGED link /\ pc[x] = "new" /\ Go(x, "ok")
        BY <1>9 DEF StopVideoStream, Called
    <2> QED BY <1>1, <2>1, CallGoes, LinksStay DEF Awaiting, Aside
<1> QED BY <1>2, <1>3, <1>4, <1>5, <1>6, <1>7, <1>8, <1>9 DEF TerminalsNext

\* The actions that neither sweep tunnels nor bring a client up or down.
LEMMA LifecycleAside ==
    ASSUME PcTyped, LinkTyped,
           \/ \E k \in Sweepers : SweepBegins(k) \/ SweepServers(k)
           \/ \E c \in Connects :
                \/ JumpDialed(c) \/ ConnectDone(c) \/ ConnectFails(c)
                \/ SftpOpened(c) \/ HomeResolved(c) \/ SftpRefused(c) \/ ShellHomeResolved(c) \/ SocketError(c)
           \/ \E h \in Helpers :
                \/ EnsureAuxiliary(h) \/ AuxiliaryDialed(h) \/ AuxiliaryReady(h)
                \/ AuxiliaryFails(h) \/ AuxiliaryLost(h)
           \/ \E g \in Gauges : StartHostMetrics(g)
           \/ \E p \in polls : PollDone(p)
           \/ PollTimer
    PROVE  Aside /\ UNCHANGED tunnelVars
<1>1. /\ Sweepers \cup Connects \cup Helpers \cup Gauges \subseteq Calls
      /\ \A h \in Helpers \cup Gauges : h \notin Connects
      /\ \A c \in Connects : Jump(c) \notin Connects
    BY SessionAssumption, CallsDiffer DEF Others, Calls, Sweepers, Jump
<1>2. ASSUME NEW k \in Sweepers, SweepBegins(k) \/ SweepServers(k)
      PROVE  Aside /\ UNCHANGED tunnelVars
    <2>1. UNCHANGED link /\ UNCHANGED tunnelVars
        BY <1>2 DEF SweepBegins, SweepServers
    <2>2. pc[k] \in {"new", "idle"} /\ (Go(k, "idle") \/ Go(k, "servers"))
        BY <1>2 DEF SweepBegins, SweepServers, Called
    <2> QED BY <1>1, <2>1, <2>2, CallGoes, LinksStay DEF Awaiting, Early, Aside
<1>3. ASSUME NEW c \in Connects, JumpDialed(c)
      PROVE  Aside /\ UNCHANGED tunnelVars
    <2>1. pc[c] = "hopping" /\ Go(c, "dialing") /\ UNCHANGED tunnelVars
        BY <1>3 DEF JumpDialed
    <2>2. link' = [link EXCEPT ![Jump(c)] = "up", ![c] = "dialing"]
        BY <1>3 DEF JumpDialed
    <2>3. LinkTyped'
        BY <2>2 DEF LinkTyped
    <2>4. ASSUME NEW d \in Connects
          PROVE  link'[d] = "dialing" \/ link'[d] = link[d]
        BY <1>1, <2>2, <2>4 DEF LinkTyped, Clients
    <2> QED BY <1>1, <2>1, <2>3, <2>4, CallGoes DEF Awaiting, Early, Aside, LinksAside
<1>4. ASSUME NEW c \in Connects, ConnectDone(c) \/ ConnectFails(c)
      PROVE  Aside /\ UNCHANGED tunnelVars
    <2>1. /\ pc[c] \in {"hopping", "dialing", "starting"} /\ (Go(c, "ok") \/ Go(c, "failed"))
          /\ UNCHANGED tunnelVars
        BY <1>4 DEF ConnectDone, ConnectFails
    <2>2. UNCHANGED link \/ \E S : EndClients(S)
        BY <1>4 DEF ConnectDone, ConnectFails
    <2> QED BY <1>1, <2>1, <2>2, CallGoes, LinksStay, LinksEnd DEF Awaiting, Early, Aside
<1>5. ASSUME NEW c \in Connects,
             SftpOpened(c) \/ HomeResolved(c) \/ SftpRefused(c) \/ ShellHomeResolved(c) \/ SocketError(c)
      PROVE  Aside /\ UNCHANGED tunnelVars
    <2>1. UNCHANGED <<pc, link, tunnelVars>>
        BY <1>5 DEF SftpOpened, HomeResolved, SftpRefused, ShellHomeResolved, SocketError, clientVars
    <2> QED BY <2>1, CallsStay, LinksStay DEF Aside
<1>6. ASSUME NEW h \in Helpers,
             EnsureAuxiliary(h) \/ AuxiliaryDialed(h) \/ AuxiliaryReady(h) \/ AuxiliaryFails(h)
      PROVE  Aside /\ UNCHANGED tunnelVars
    <2>1. pc[h] \notin Awaiting /\ (\E where : Go(h, where)) /\ UNCHANGED tunnelVars
        BY <1>6 DEF EnsureAuxiliary, AuxiliaryDialed, AuxiliaryReady, AuxiliaryFails, Called, Awaiting
    <2>2. UNCHANGED link \/ EndClients({h}) \/ \E v : link' = [link EXCEPT ![h] = v]
        BY <1>6 DEF EnsureAuxiliary, AuxiliaryDialed, AuxiliaryReady, AuxiliaryFails, Dial
    <2> QED BY <1>1, <2>1, <2>2, CallGoes, LinksStay, LinksEnd, LinkChanges DEF Aside
<1>7. ASSUME NEW h \in Helpers, AuxiliaryLost(h)
      PROVE  Aside /\ UNCHANGED tunnelVars
    <2>1. UNCHANGED pc /\ UNCHANGED tunnelVars
        BY <1>7 DEF AuxiliaryLost
    <2>2. \E S : link' = [i \in Clients |-> IF i \in S THEN "down" ELSE link[i]]
        <3>1. PICK S \in {{h}, {h, aux}} :
                  link' = [i \in Clients |-> IF i \in S THEN "down" ELSE link[i]]
            BY <1>7 DEF AuxiliaryLost
        <3> QED BY <3>1
    <2>3. LinksAside
        BY <2>2 DEF LinksAside, LinkTyped, Clients
    <2> QED BY <2>1, <2>3, CallsStay DEF Aside
<1>8. ASSUME NEW g \in Gauges, StartHostMetrics(g)
      PROVE  Aside /\ UNCHANGED tunnelVars
    <2>1. pc[g] = "new" /\ (\E where : Go(g, where)) /\ UNCHANGED link /\ UNCHANGED tunnelVars
        BY <1>8 DEF StartHostMetrics, Called
    <2> QED BY <1>1, <2>1, CallGoes, LinksStay DEF Awaiting, Aside
<1>9. CASE PollTimer \/ \E p \in polls : PollDone(p)
    <2>1. UNCHANGED <<pc, link, tunnelVars>>
        BY <1>9 DEF PollTimer, PollDone, clientVars
    <2> QED BY <2>1, CallsStay, LinksStay DEF Aside
<1> QED BY <1>2, <1>3, <1>4, <1>5, <1>6, <1>7, <1>8, <1>9

-----------------------------------------------------------------------------
(* The tunnels' invariant.                                                  *)

\* A tunnel's listener was started for it and is bound.
Listeners ==
    /\ active \in [Tunnels -> Starts \cup {None}]
    /\ \A t \in Tunnels : active[t] # None => active[t] \in bound /\ TunnelOf[active[t]] = t

RunningIsHeld ==
    /\ tstate = [t \in Tunnels |-> tstate[t]]
    /\ \A t \in Tunnels : tstate[t] = "running" => active[t] # None \/ Settling(t)

\* A loop has something left only while the sweep, or the loss, it belongs to
\* is past its beginning: none is begun twice.
LoopsAreOnce ==
    /\ sweep \in [Loops -> Seq(Tunnels)]
    /\ \A k \in Sweepers : pc[k] # "tunnels" => sweep[k] = <<>>
    /\ \A c \in Connects :
        /\ pc[c] \in Early => /\ link[c] \notin {"up", "ended"}
                              /\ sweep[<<c, "end">>] = <<>> /\ sweep[<<c, "close">>] = <<>>
        /\ link[c] = "up" => sweep[<<c, "end">>] = <<>> /\ sweep[<<c, "close">>] = <<>>
        /\ link[c] = "ended" => sweep[<<c, "close">>] = <<>>

Flows == [by : Starts \cup {None}, at : {"none", "socks", "forwarding", "connecting", "bridged", "over"},
          socket : BOOLEAN, channel : BOOLEAN]

\* What a connection may hold while `open` are the bound listeners.
Sound(r, open) ==
    /\ r.channel = TRUE => r.at = "bridged"
    /\ r.at = "connecting" => r.by \in Starts /\ Remote(TunnelOf[r.by])
    /\ r.at \in {"socks", "forwarding", "bridged"} /\ r.socket = TRUE /\ r.by \in Starts
          /\ ~Remote(TunnelOf[r.by]) => r.by \in open

FlowsAreSound == flow \in [Conns -> Flows] /\ \A k \in Conns : Sound(flow[k], bound)

TunnelInv == PcTyped /\ LinkTyped /\ Listeners /\ RunningIsHeld /\ LoopsAreOnce /\ FlowsAreSound

\* The claims of SessionTunnels follow.
LEMMA TunnelInvSuffices == TunnelInv => TunnelsAreTruthful
<1> SUFFICES ASSUME TunnelInv PROVE TunnelsAreTruthful
    OBVIOUS
<1>1. ASSUME NEW t \in Tunnels, tstate[t] = "running"
      PROVE  active[t] \in bound \/ Settling(t)
    BY <1>1 DEF TunnelInv, Listeners, RunningIsHeld
<1>2. ASSUME NEW k \in Conns, flow[k].by \in Starts, ~Remote(TunnelOf[flow[k].by]),
             flow[k].socket, flow[k].channel
      PROVE  flow[k].by \in bound
    <2>1. flow[k] \in Flows /\ Sound(flow[k], bound)
        BY DEF TunnelInv, FlowsAreSound
    <2>2. flow[k].socket = TRUE /\ flow[k].channel = TRUE
        BY <1>2, <2>1 DEF Flows
    <2> QED BY <1>2, <2>1, <2>2 DEF Sound
<1> QED BY <1>1, <1>2, Zenon DEF TunnelsAreTruthful

LEMMA InitTunnels == Init => TunnelInv
<1> SUFFICES ASSUME Init PROVE TunnelInv
    OBVIOUS
<1>1. PcTyped
    BY InitCurrent DEF CurrentInv
<1>2. PICK m \in Mixes : pc = [c \in Calls |-> IF c \in m THEN "new" ELSE "off"]
    BY DEF Init, ClientsInit
<1>3. link = [i \in Clients |-> "none"] /\ sweep = [k \in Loops |-> <<>>]
    BY DEF Init, ClientsInit, TunnelsInit
<1>4. LinkTyped
    BY <1>3 DEF LinkTyped
<1>5. Listeners /\ RunningIsHeld
    BY DEF Init, TunnelsInit, Listeners, RunningIsHeld
<1>6. LoopsAreOnce
    <2>1. \A c \in Connects : link[c] = "none" /\ sweep[<<c, "end">>] = <<>> /\ sweep[<<c, "close">>] = <<>>
        BY <1>3 DEF Clients, Loops
    <2>2. \A k \in Sweepers : sweep[k] = <<>>
        BY <1>3 DEF Loops
    <2>3. sweep \in [Loops -> Seq(Tunnels)]
        BY <1>3
    <2> QED BY <2>1, <2>2, <2>3 DEF LoopsAreOnce
<1>7. FlowsAreSound
    BY DEF Init, TunnelsInit, FlowsAreSound, Flows, Sound, Quiet
<1> QED BY <1>1, <1>4, <1>5, <1>6, <1>7 DEF TunnelInv

LEMMA LoopsKept ==
    ASSUME LoopsAreOnce, UNCHANGED sweep, LinksAside,
           \A k \in Sweepers : pc[k] = "tunnels" => pc'[k] = "tunnels",
           \A c \in Connects : pc'[c] \in Early => pc[c] \in Early
    PROVE  LoopsAreOnce'
BY DEF LoopsAreOnce, LinksAside

LEMMA TunnelsKept ==
    ASSUME TunnelInv, Aside, UNCHANGED tunnelVars
    PROVE  TunnelInv'
<1>1. UNCHANGED <<active, tstate, bound, routed, over, faulty, sweep, flow>>
    BY DEF tunnelVars
<1>2. PcTyped' /\ LinkTyped'
    BY DEF Aside, CallsAside, LinksAside
<1>3. Starts \cup Stops \cup Sweepers \subseteq Calls
    BY DEF Calls, Others, Sweepers
<1>4. \A t \in Tunnels : Settling(t) => Settling(t)'
    BY <1>1, <1>3 DEF Settling, Aside, CallsAside, Awaiting
<1>5. RunningIsHeld'
    BY <1>1, <1>4 DEF TunnelInv, RunningIsHeld
<1>6. Listeners' /\ FlowsAreSound'
    BY <1>1 DEF TunnelInv, Listeners, FlowsAreSound, Sound, Flows, Remote
<1>7. LoopsAreOnce'
    BY <1>1, <1>3, LoopsKept DEF TunnelInv, Aside, CallsAside, Awaiting
<1> QED BY <1>2, <1>5, <1>6, <1>7 DEF TunnelInv

-----------------------------------------------------------------------------
(* cleanupTunnel and stopAllTunnels.                                        *)

Flow(by, at, sock, chan) == [by |-> by, at |-> at, socket |-> sock, channel |-> chan]

LEMMA FlowChanges ==
    ASSUME NEW r \in Flows, NEW b \in BOOLEAN, NEW where \in {"over", "forwarding", "bridged"}
    PROVE  /\ [r EXCEPT !.socket = b] = Flow(r.by, r.at, b, r.channel) /\ [r EXCEPT !.socket = b] \in Flows
           /\ [r EXCEPT !.channel = b] = Flow(r.by, r.at, r.socket, b) /\ [r EXCEPT !.channel = b] \in Flows
           /\ [r EXCEPT !.at = where] = Flow(r.by, where, r.socket, r.channel) /\ [r EXCEPT !.at = where] \in Flows
BY DEF Flows, Flow

LEMMA CutIs ==
    ASSUME NEW r \in Flows
    PROVE  [r EXCEPT !.socket = FALSE, !.channel = FALSE] = Flow(r.by, r.at, FALSE, FALSE)
<1>1. PICK g \in Flows : g = [r EXCEPT !.socket = FALSE]
    BY FlowChanges
<1>2. g = Flow(r.by, r.at, FALSE, r.channel)
    BY <1>1, FlowChanges
<1>3. [g EXCEPT !.channel = FALSE] = Flow(g.by, g.at, g.socket, FALSE)
    BY FlowChanges
<1>4. g.by = r.by /\ g.at = r.at /\ g.socket = FALSE
    BY <1>2 DEF Flow
<1> QED BY <1>1, <1>3, <1>4, Zenon

LEMMA CleanupDoes ==
    ASSUME Listeners, FlowsAreSound, NEW t \in Tunnels, Cleanup(t)
    PROVE  /\ Listeners' /\ FlowsAreSound'
           /\ active'[t] = None /\ \A u \in Tunnels : u # t => active'[u] = active[u]
<1>1. active' = [active EXCEPT ![t] = None] /\ bound' = bound \ {active[t]}
    BY DEF Cleanup
<1>2. active'[t] = None /\ (\A u \in Tunnels : u # t => active'[u] = active[u])
      /\ active' \in [Tunnels -> Starts \cup {None}]
    BY <1>1 DEF Listeners
<1>3. Listeners'
    BY <1>1, <1>2 DEF Listeners
<1>4. FlowsAreSound'
    <2>1. CASE active[t] = None
        <3>1. UNCHANGED flow
            BY <2>1 DEF Cleanup
        <3>2. None \notin Starts
            BY SessionAssumption, CallsDiffer DEF Calls, Others
        <3> QED BY <1>1, <2>1, <3>1, <3>2 DEF FlowsAreSound, Sound, Flows, Remote
    <2>2. CASE active[t] # None
        <3>1. flow' = [k \in Conns |-> IF Held(k, active[t])
                                       THEN [flow[k] EXCEPT !.socket = FALSE, !.channel = FALSE]
                                       ELSE flow[k]]
            BY <2>2, Zenon DEF Cleanup, CutFlows
        <3>2. ASSUME NEW k \in Conns
              PROVE  flow'[k] \in Flows /\ Sound(flow'[k], bound')
            <4>1. flow[k] \in Flows /\ Sound(flow[k], bound)
                BY DEF FlowsAreSound
            <4>2. CASE Held(k, active[t])
                <5>1. flow'[k] = Flow(flow[k].by, flow[k].at, FALSE, FALSE)
                    <6>1. flow'[k] = [flow[k] EXCEPT !.socket = FALSE, !.channel = FALSE]
                        BY <3>1, <4>2, Zenon
                    <6> QED BY <4>1, <6>1, CutIs, Zenon
                <5> QED BY <4>1, <5>1 DEF Flow, Flows, Sound
            <4>3. CASE ~Held(k, active[t])
                <5>1. flow'[k] = flow[k]
                    BY <3>1, <4>3, Zenon
                <5> QED BY <1>1, <4>1, <4>3, <5>1 DEF Sound, Held
            <4> QED BY <4>2, <4>3
        <3>3. flow' = [k \in Conns |-> flow'[k]]
            BY <3>1, Zenon
        <3>4. \A k \in Conns : Sound(flow[k], bound)'
            BY <3>2 DEF Sound, Remote
        <3> QED BY <3>2, <3>3, <3>4 DEF FlowsAreSound, Flows
    <2> QED BY <2>1, <2>2
<1> QED BY <1>2, <1>3, <1>4

\* The state shown of a tunnel stays true while its listener stays, or someone
\* between its cleanup and the state that follows it does.
LEMMA RunningStays ==
    ASSUME RunningIsHeld, tstate' = [t \in Tunnels |-> tstate'[t]],
           \A t \in Tunnels : tstate'[t] = "running" =>
               \/ active'[t] # None \/ Settling(t)'
               \/ tstate[t] = "running" /\ (active'[t] = active[t]) /\ (Settling(t) => Settling(t)')
    PROVE  RunningIsHeld'
BY DEF RunningIsHeld

\* As seen by the loops: a call of another kind moves.
LEMMA OthersLoops ==
    ASSUME PcTyped, LoopsAreOnce, UNCHANGED <<sweep, link>>, LinkTyped,
           NEW s \in Others, NEW where, Go(s, where), pc[s] # "tunnels"
    PROVE  LoopsAreOnce' /\ PcTyped' /\ LinkTyped' /\ pc'[s] = where /\ \A x \in Calls : x # s => pc'[x] = pc[x]
<1>1. s \in Calls /\ s \notin Connects /\ Sweepers \cup Connects \subseteq Calls
    BY SessionAssumption, CallsDiffer DEF Calls, Sweepers, Others
<1>2. PcTyped' /\ pc'[s] = where /\ \A x \in Calls : x # s => pc'[x] = pc[x]
    BY <1>1 DEF PcTyped, Go
<1>3. LinksAside
    BY LinksStay
<1>4. LoopsAreOnce'
    BY <1>1, <1>2, <1>3, LoopsKept
<1> QED BY <1>2, <1>3, <1>4 DEF LinksAside

LEMMA StartsAndStops ==
    /\ \A s \in Starts : s \in Others /\ s \in Calls /\ s # None /\ TunnelOf[s] \in Tunnels
    /\ \A x \in Stops : x \in Others /\ x \in Calls /\ TunnelOf[x] \in Tunnels
BY SessionAssumption, CallsDiffer, TunnelAssumption DEF Calls, Others

LEMMA StartTunnelStep == ASSUME TunnelInv, NEW s \in Starts, StartTunnel(s) PROVE TunnelInv'
<1>1. UNCHANGED <<active, bound, faulty, sweep, flow, link>> /\ pc[s] = "new" /\ \E where : Go(s, where)
    BY DEF StartTunnel, Called
<1>2. LoopsAreOnce' /\ PcTyped' /\ LinkTyped' /\ \A x \in Calls : x # s => pc'[x] = pc[x]
    BY <1>1, StartsAndStops, OthersLoops DEF TunnelInv
<1>3. \A t \in Tunnels : Settling(t) => Settling(t)'
    BY <1>1, <1>2, StartsAndStops DEF Settling
<1>4. UNCHANGED tstate \/ tstate' = [tstate EXCEPT ![TunnelOf[s]] = "starting"]
    BY DEF StartTunnel, SetTunnelState
<1>5. RunningIsHeld'
    <2>1. tstate' = [t \in Tunnels |-> tstate'[t]] /\ \A t \in Tunnels : tstate'[t] = "running" => tstate[t] = "running"
        BY <1>4, StartsAndStops DEF TunnelInv, RunningIsHeld
    <2> QED BY <1>1, <1>3, <2>1, RunningStays DEF TunnelInv
<1>6. Listeners' /\ FlowsAreSound'
    BY <1>1 DEF TunnelInv, Listeners, FlowsAreSound, Sound, Flows, Remote
<1> QED BY <1>2, <1>5, <1>6 DEF TunnelInv

LEMMA TunnelBoundStep == ASSUME TunnelInv, NEW s \in Starts, TunnelBound(s) PROVE TunnelInv'
<1> DEFINE t == TunnelOf[s]
<1>1. /\ UNCHANGED <<faulty, sweep, flow, link>> /\ pc[s] = "binding" /\ Go(s, "ok")
      /\ bound' = bound \cup {s} /\ active' = [active EXCEPT ![t] = s]
      /\ tstate' = [tstate EXCEPT ![t] = "running"]
    BY DEF TunnelBound, SetTunnelState
<1>2. LoopsAreOnce' /\ PcTyped' /\ LinkTyped' /\ \A x \in Calls : x # s => pc'[x] = pc[x]
    BY <1>1, StartsAndStops, OthersLoops DEF TunnelInv
<1>3. \A u \in Tunnels : Settling(u) => Settling(u)'
    BY <1>1, <1>2, StartsAndStops DEF Settling
<1>4. /\ t \in Tunnels /\ s # None
      /\ active'[t] = s /\ \A u \in Tunnels : u # t => active'[u] = active[u] /\ tstate'[u] = tstate[u]
    BY <1>1, StartsAndStops DEF TunnelInv, Listeners, RunningIsHeld
<1>5. RunningIsHeld'
    <2>1. tstate' = [u \in Tunnels |-> tstate'[u]]
        BY <1>1 DEF TunnelInv, RunningIsHeld
    <2> QED BY <1>3, <1>4, <2>1, RunningStays DEF TunnelInv
<1>6. Listeners'
    BY <1>1, <1>4 DEF TunnelInv, Listeners
<1>7. FlowsAreSound'
    BY <1>1 DEF TunnelInv, FlowsAreSound, Sound, Flows, Remote
<1> QED BY <1>2, <1>5, <1>6, <1>7 DEF TunnelInv

\* A cleanup whose caller is then settling.
LEMMA CleanupStep ==
    ASSUME TunnelInv, NEW t \in Tunnels, Cleanup(t), UNCHANGED tstate, PcTyped', LinkTyped', LoopsAreOnce',
           Settling(t)', \A u \in Tunnels : Settling(u) => Settling(u)'
    PROVE  TunnelInv'
<1>1. /\ Listeners' /\ FlowsAreSound'
      /\ active'[t] = None /\ \A u \in Tunnels : u # t => active'[u] = active[u]
    BY CleanupDoes DEF TunnelInv
<1>2. RunningIsHeld'
    BY <1>1, RunningStays DEF TunnelInv, RunningIsHeld
<1> QED BY <1>1, <1>2 DEF TunnelInv

LEMMA TunnelRefusedStep == ASSUME TunnelInv, NEW s \in Starts, TunnelRefused(s) PROVE TunnelInv'
<1>1. /\ UNCHANGED <<tstate, faulty, sweep, link>> /\ pc[s] = "binding" /\ Go(s, "undoing")
      /\ Cleanup(TunnelOf[s])
    BY DEF TunnelRefused
<1>2. LoopsAreOnce' /\ PcTyped' /\ LinkTyped' /\ pc'[s] = "undoing" /\ \A x \in Calls : x # s => pc'[x] = pc[x]
    BY <1>1, StartsAndStops, OthersLoops DEF TunnelInv
<1>3. Settling(TunnelOf[s])' /\ \A u \in Tunnels : Settling(u) => Settling(u)'
    BY <1>1, <1>2, StartsAndStops DEF Settling
<1> QED BY <1>1, <1>2, <1>3, StartsAndStops, CleanupStep

LEMMA StopTunnelStep == ASSUME TunnelInv, NEW x \in Stops, StopTunnel(x) PROVE TunnelInv'
<1>1. /\ UNCHANGED <<tstate, faulty, sweep, link>> /\ pc[x] = "new" /\ Go(x, "stopping")
      /\ Cleanup(TunnelOf[x])
    BY DEF StopTunnel, Called
<1>2. LoopsAreOnce' /\ PcTyped' /\ LinkTyped' /\ pc'[x] = "stopping" /\ \A y \in Calls : y # x => pc'[y] = pc[y]
    BY <1>1, StartsAndStops, OthersLoops DEF TunnelInv
<1>3. Settling(TunnelOf[x])' /\ \A u \in Tunnels : Settling(u) => Settling(u)'
    BY <1>1, <1>2, StartsAndStops DEF Settling
<1> QED BY <1>1, <1>2, <1>3, StartsAndStops, CleanupStep

LEMMA ServerFailedStep == ASSUME TunnelInv, NEW s \in Starts, ServerFailed(s) PROVE TunnelInv'
<1>1. /\ UNCHANGED <<pc, tstate, sweep, link>> /\ faulty' = faulty \cup {TunnelOf[s]}
      /\ Cleanup(TunnelOf[s])
    BY DEF ServerFailed, clientVars
<1>2. PcTyped' /\ LinkTyped' /\ LinksAside
    BY <1>1, LinksStay DEF TunnelInv, PcTyped, LinksAside
<1>3. LoopsAreOnce'
    BY <1>1, <1>2, LoopsKept DEF TunnelInv
<1>4. Settling(TunnelOf[s])' /\ \A u \in Tunnels : Settling(u) => Settling(u)'
    BY <1>1 DEF Settling
<1> QED BY <1>1, <1>2, <1>3, <1>4, StartsAndStops, CleanupStep

\* The state that follows a cleanup.
LEMMA SettledStep ==
    ASSUME TunnelInv, NEW t \in Tunnels, NEW state \in {"stopped", "error"}, SetTunnelState(t, state),
           UNCHANGED <<active, bound, sweep, flow>>, PcTyped', LinkTyped', LoopsAreOnce',
           \A u \in Tunnels : u # t /\ Settling(u) => Settling(u)'
    PROVE  TunnelInv'
<1>1. /\ tstate' = [u \in Tunnels |-> tstate'[u]] /\ tstate'[t] # "running"
      /\ \A u \in Tunnels : u # t => tstate'[u] = tstate[u]
    BY DEF SetTunnelState, TunnelInv, RunningIsHeld
<1>2. RunningIsHeld'
    BY <1>1, RunningStays DEF TunnelInv
<1>3. Listeners' /\ FlowsAreSound'
    BY DEF TunnelInv, Listeners, FlowsAreSound, Sound, Flows, Remote
<1> QED BY <1>2, <1>3 DEF TunnelInv

LEMMA TunnelSettles ==
    ASSUME TunnelInv,
           \/ \E s \in Starts : TunnelUndone(s)
           \/ \E x \in Stops : TunnelStopped(x)
           \/ \E t \in Tunnels : ServerFailureShown(t)
    PROVE  TunnelInv'
<1>1. ASSUME NEW s \in Starts, TunnelUndone(s)
      PROVE  TunnelInv'
    <2>1. /\ UNCHANGED <<active, bound, faulty, sweep, flow, link>> /\ pc[s] = "undoing" /\ Go(s, "failed")
          /\ SetTunnelState(TunnelOf[s], "error")
        BY <1>1 DEF TunnelUndone
    <2>2. LoopsAreOnce' /\ PcTyped' /\ LinkTyped' /\ \A x \in Calls : x # s => pc'[x] = pc[x]
        BY <2>1, StartsAndStops, OthersLoops DEF TunnelInv
    <2>3. \A u \in Tunnels : u # TunnelOf[s] /\ Settling(u) => Settling(u)'
        BY <2>1, <2>2, StartsAndStops DEF Settling
    <2> QED BY <2>1, <2>2, <2>3, StartsAndStops, SettledStep
<1>2. ASSUME NEW x \in Stops, TunnelStopped(x)
      PROVE  TunnelInv'
    <2>1. /\ UNCHANGED <<active, bound, faulty, sweep, flow, link>> /\ pc[x] = "stopping" /\ Go(x, "ok")
          /\ SetTunnelState(TunnelOf[x], "stopped")
        BY <1>2 DEF TunnelStopped
    <2>2. LoopsAreOnce' /\ PcTyped' /\ LinkTyped' /\ \A y \in Calls : y # x => pc'[y] = pc[y]
        BY <2>1, StartsAndStops, OthersLoops DEF TunnelInv
    <2>3. \A u \in Tunnels : u # TunnelOf[x] /\ Settling(u) => Settling(u)'
        BY <2>1, <2>2, StartsAndStops DEF Settling
    <2> QED BY <2>1, <2>2, <2>3, StartsAndStops, SettledStep
<1>3. ASSUME NEW t \in Tunnels, ServerFailureShown(t)
      PROVE  TunnelInv'
    <2>1. /\ UNCHANGED <<pc, active, bound, sweep, flow, link>> /\ faulty' = faulty \ {t}
          /\ SetTunnelState(t, "error")
        BY <1>3 DEF ServerFailureShown, clientVars
    <2>2. PcTyped' /\ LinkTyped' /\ LinksAside
        BY <2>1, LinksStay DEF TunnelInv, PcTyped, LinksAside
    <2>3. LoopsAreOnce'
        BY <2>1, <2>2, LoopsKept DEF TunnelInv
    <2>4. \A u \in Tunnels : u # t /\ Settling(u) => Settling(u)'
        BY <2>1 DEF Settling
    <2> QED BY <2>1, <2>2, <2>3, <2>4, SettledStep
<1> QED BY <1>1, <1>2, <1>3

-----------------------------------------------------------------------------
(* Connections.                                                             *)

LEMMA FlowStep ==
    ASSUME TunnelInv, NEW k \in Conns, NEW r \in Flows, Change(k, r), Sound(r, bound),
           UNCHANGED <<clientVars, active, tstate, bound, faulty, sweep>>
    PROVE  TunnelInv'
<1>1. UNCHANGED <<pc, link>>
    BY DEF clientVars
<1>2. PcTyped' /\ LinkTyped' /\ LinksAside
    BY <1>1, LinksStay DEF TunnelInv, PcTyped, LinksAside
<1>3. LoopsAreOnce'
    BY <1>1, <1>2, LoopsKept DEF TunnelInv
<1>4. Listeners' /\ RunningIsHeld'
    BY <1>1 DEF TunnelInv, Listeners, RunningIsHeld, Settling
<1>5. flow' = [flow EXCEPT ![k] = r] /\ flow \in [Conns -> Flows]
    BY DEF Change, TunnelInv, FlowsAreSound
<1>6. flow' \in [Conns -> Flows] /\ flow'[k] = r /\ \A i \in Conns : i # k => flow'[i] = flow[i]
    BY <1>5
<1>7. \A i \in Conns : Sound(flow'[i], bound)
    BY <1>6 DEF TunnelInv, FlowsAreSound
<1>8. FlowsAreSound'
    BY <1>6, <1>7 DEF FlowsAreSound, Sound, Flows, Remote
<1> QED BY <1>2, <1>3, <1>4, <1>8 DEF TunnelInv

LEMMA FlowIs ==
    ASSUME NEW by \in Starts \cup {None}, NEW sock \in BOOLEAN, NEW chan \in BOOLEAN,
           NEW at \in {"none", "socks", "forwarding", "connecting", "bridged", "over"}
    PROVE  Flow(by, at, sock, chan) \in Flows
BY DEF Flow, Flows

\* It is refused, or its ends close.
LEMMA FlowOver ==
    ASSUME NEW r \in Flows, r.channel = FALSE
    PROVE  [r EXCEPT !.at = "over", !.socket = FALSE] = Flow(r.by, "over", FALSE, FALSE)
<1>1. PICK g \in Flows : g = [r EXCEPT !.at = "over"] /\ g = Flow(r.by, "over", r.socket, r.channel)
    BY FlowChanges
<1>2. [g EXCEPT !.socket = FALSE] = Flow(g.by, g.at, FALSE, g.channel)
    BY FlowChanges
<1>3. g.by = r.by /\ g.at = "over" /\ g.channel = FALSE
    BY <1>1 DEF Flow
<1> QED BY <1>1, <1>2, <1>3, Zenon

LEMMA FlowClosed ==
    ASSUME NEW r \in Flows
    PROVE  [r EXCEPT !.at = "over", !.socket = FALSE, !.channel = FALSE] = Flow(r.by, "over", FALSE, FALSE)
<1>1. PICK g \in Flows : g = [r EXCEPT !.at = "over"] /\ g = Flow(r.by, "over", r.socket, r.channel)
    BY FlowChanges
<1>2. g.by = r.by /\ g.at = "over"
    BY <1>1 DEF Flow
<1>3. [g EXCEPT !.socket = FALSE, !.channel = FALSE] = Flow(g.by, g.at, FALSE, FALSE)
    BY CutIs
<1> QED BY <1>1, <1>2, <1>3, Zenon

LEMMA FlowBridged ==
    ASSUME NEW r \in Flows
    PROVE  [r EXCEPT !.at = "bridged", !.channel = TRUE] = Flow(r.by, "bridged", r.socket, TRUE)
<1>1. PICK g \in Flows : g = [r EXCEPT !.at = "bridged"] /\ g = Flow(r.by, "bridged", r.socket, r.channel)
    BY FlowChanges
<1>2. g.by = r.by /\ g.at = "bridged" /\ g.socket = r.socket
    BY <1>1 DEF Flow
<1>3. [g EXCEPT !.channel = TRUE] = Flow(g.by, g.at, g.socket, TRUE)
    BY FlowChanges
<1> QED BY <1>1, <1>2, <1>3, Zenon

LEMMA OverIsSound == \A by : Sound(Flow(by, "over", FALSE, FALSE), bound)
BY DEF Sound, Flow

LEMMA ConnectionStep == ASSUME TunnelInv, NEW k \in Conns, Connection(k) PROVE TunnelInv'
<1>1. UNCHANGED <<clientVars, active, tstate, bound, faulty, sweep>>
    BY DEF Connection
<1>2. flow[k] \in Flows /\ Sound(flow[k], bound) /\ flow[k].by \in Starts \cup {None} /\ flow[k].socket \in BOOLEAN
    BY DEF TunnelInv, FlowsAreSound, Flows
<1>3. ASSUME NEW s \in Starts, Accept(k, s)
      PROVE  TunnelInv'
    <2>1. s \in bound
        BY <1>3 DEF Accept
    <2>2. PICK at \in {"socks", "over", "forwarding"}, b \in BOOLEAN :
              Change(k, Flow(s, at, b, FALSE)) /\ (at = "over" => b = FALSE)
        <3> DEFINE dynamic == Kind[TunnelOf[s]] = "dynamic"
                   lost == ~dynamic /\ ~Connected
        <3>1. Change(k, [by |-> s, socket |-> ~lost, channel |-> FALSE,
                         at |-> IF dynamic THEN "socks" ELSE IF lost THEN "over" ELSE "forwarding"])
            BY <1>3, Zenon DEF Accept
        <3>2. CASE dynamic
            <4>1. ~lost = TRUE
                BY <3>2
            <4>2. Change(k, Flow(s, "socks", TRUE, FALSE))
                <5>1. [by |-> s, socket |-> ~lost, channel |-> FALSE,
                       at |-> IF dynamic THEN "socks" ELSE IF lost THEN "over" ELSE "forwarding"]
                          = Flow(s, "socks", TRUE, FALSE)
                    BY <3>2, <4>1 DEF Flow
                <5> QED BY <3>1, <5>1, Zenon
            <4> QED BY <4>2
        <3>3. CASE lost
            <4>1. Change(k, Flow(s, "over", FALSE, FALSE))
                <5>1. [by |-> s, socket |-> ~lost, channel |-> FALSE,
                       at |-> IF dynamic THEN "socks" ELSE IF lost THEN "over" ELSE "forwarding"]
                          = Flow(s, "over", FALSE, FALSE)
                    BY <3>3 DEF Flow
                <5> QED BY <3>1, <5>1, Zenon
            <4> QED BY <4>1
        <3>4. CASE ~dynamic /\ ~lost
            <4>1. Change(k, Flow(s, "forwarding", TRUE, FALSE))
                <5>1. [by |-> s, socket |-> ~lost, channel |-> FALSE,
                       at |-> IF dynamic THEN "socks" ELSE IF lost THEN "over" ELSE "forwarding"]
                          = Flow(s, "forwarding", TRUE, FALSE)
                    BY <3>4 DEF Flow
                <5> QED BY <3>1, <5>1, Zenon
            <4> QED BY <4>1
        <3> QED BY <3>2, <3>3, <3>4
    <2>3. Sound(Flow(s, at, b, FALSE), bound)
        BY <2>1, <2>2 DEF Sound, Flow
    <2>4. Flow(s, at, b, FALSE) \in Flows
        BY FlowIs
    <2> QED BY <1>1, <2>2, <2>3, <2>4, FlowStep
<1>4. ASSUME NEW s \in Starts, AcceptRemote(k, s)
      PROVE  TunnelInv'
    <2>1. Remote(TunnelOf[s]) /\ TunnelOf[s] \in Tunnels
        BY <1>4, StartsAndStops DEF AcceptRemote
    <2>2. CASE active[TunnelOf[s]] = None
        <3>1. [Quiet EXCEPT !.at = "over"] = Flow(None, "over", FALSE, FALSE)
            <4>1. /\ Quiet \in Flows /\ Quiet.by = None
                  /\ Quiet.socket = FALSE /\ Quiet.channel = FALSE
                BY DEF Quiet, Flows
            <4>2. [Quiet EXCEPT !.at = "over"] = Flow(Quiet.by, "over", Quiet.socket, Quiet.channel)
                BY <4>1, FlowChanges
            <4> QED BY <4>1, <4>2, Zenon
        <3>2. Change(k, Flow(None, "over", FALSE, FALSE))
            BY <1>4, <2>2, <3>1, Zenon DEF AcceptRemote
        <3> QED BY <1>1, <3>2, FlowIs, OverIsSound, FlowStep
    <2>3. CASE active[TunnelOf[s]] # None
        <3> DEFINE a == active[TunnelOf[s]]
        <3>1. a \in Starts /\ TunnelOf[a] = TunnelOf[s]
            BY <2>1, <2>3 DEF TunnelInv, Listeners
        <3>2. Change(k, Flow(a, "connecting", TRUE, FALSE))
            BY <1>4, <2>3 DEF AcceptRemote, Flow
        <3>3. Sound(Flow(a, "connecting", TRUE, FALSE), bound)
            BY <2>1, <3>1 DEF Sound, Flow
        <3>4. Flow(a, "connecting", TRUE, FALSE) \in Flows
            BY <3>1, FlowIs
        <3> QED BY <1>1, <3>2, <3>3, <3>4, FlowStep
    <2> QED BY <2>2, <2>3
<1>5. CASE Negotiate(k)
    <2>1. flow[k].at = "socks" /\ flow[k].channel = FALSE
        BY <1>2, <1>5 DEF Negotiate, Sound, Flows
    <2>2. CASE Change(k, [flow[k] EXCEPT !.at = "over", !.socket = FALSE])
        <3>1. Change(k, Flow(flow[k].by, "over", FALSE, FALSE))
            BY <1>2, <2>1, <2>2, FlowOver, Zenon
        <3> QED BY <1>1, <1>2, <3>1, FlowIs, OverIsSound, FlowStep
    <2>3. CASE Change(k, [flow[k] EXCEPT !.at = "forwarding"])
        <3>1. [flow[k] EXCEPT !.at = "forwarding"] = Flow(flow[k].by, "forwarding", flow[k].socket, flow[k].channel)
            BY <1>2, FlowChanges
        <3>2. Change(k, Flow(flow[k].by, "forwarding", flow[k].socket, FALSE))
            BY <2>1, <2>3, <3>1, Zenon
        <3>3. Sound(Flow(flow[k].by, "forwarding", flow[k].socket, FALSE), bound)
            BY <1>2, <2>1 DEF Sound, Flow
        <3>4. Flow(flow[k].by, "forwarding", flow[k].socket, FALSE) \in Flows
            BY <1>2, FlowIs
        <3> QED BY <1>1, <3>2, <3>3, <3>4, FlowStep
    <2> QED BY <1>5, <2>2, <2>3, Zenon DEF Negotiate
<1>6. CASE Bridge(k)
    <2>1. flow[k].at \in {"forwarding", "connecting"} /\ flow[k].channel = FALSE
        BY <1>2, <1>6 DEF Bridge, Sound, Flows
    <2>2. CASE Change(k, [flow[k] EXCEPT !.at = "over", !.socket = FALSE])
        <3>1. Change(k, Flow(flow[k].by, "over", FALSE, FALSE))
            BY <1>2, <2>1, <2>2, FlowOver, Zenon
        <3> QED BY <1>1, <1>2, <3>1, FlowIs, OverIsSound, FlowStep
    <2>3. CASE Change(k, [flow[k] EXCEPT !.at = "bridged", !.channel = TRUE])
        <3>1. Change(k, Flow(flow[k].by, "bridged", flow[k].socket, TRUE))
            BY <1>2, <2>3, FlowBridged, Zenon
        <3>2. Sound(Flow(flow[k].by, "bridged", flow[k].socket, TRUE), bound)
            BY <1>2, <2>1 DEF Sound, Flow
        <3>3. Flow(flow[k].by, "bridged", flow[k].socket, TRUE) \in Flows
            BY <1>2, FlowIs
        <3> QED BY <1>1, <3>1, <3>2, <3>3, FlowStep
    <2> QED BY <1>6, <2>2, <2>3, Zenon DEF Bridge
<1>7. CASE Unbridge(k)
    <2>1. Change(k, Flow(flow[k].by, "over", FALSE, FALSE))
        BY <1>2, <1>7, FlowClosed, Zenon DEF Unbridge
    <2> QED BY <1>1, <1>2, <2>1, FlowIs, OverIsSound, FlowStep
<1> QED BY <1>3, <1>4, <1>5, <1>6, <1>7 DEF Connection

-----------------------------------------------------------------------------
(* The loops of stopAllTunnels.                                             *)

\* A loop begins, its first cleanup done; with no tunnel to stop it is over.
LEMMA SweepBegun ==
    ASSUME Listeners, FlowsAreSound, RunningIsHeld, sweep \in [Loops -> Seq(Tunnels)],
           NEW k \in Loops, sweep[k] = <<>>, SweepTunnelsBegin(k), UNCHANGED <<tstate, faulty>>,
           \A x \in Starts \cup Stops : pc[x] \in {"undoing", "stopping"} => pc'[x] = pc[x]
    PROVE  Listeners' /\ FlowsAreSound' /\ RunningIsHeld' /\ sweep' \in [Loops -> Seq(Tunnels)]
<1>1. sweep' = [sweep EXCEPT ![k] = SweepOrder] /\ sweep' \in [Loops -> Seq(Tunnels)]
    BY SweepOrderIsSeq DEF SweepTunnelsBegin
<1>2. /\ sweep'[k] = SweepOrder /\ \A j \in Loops : j # k => sweep'[j] = sweep[j]
    BY <1>1
<1>3. \A t \in Tunnels : Settling(t) => Settling(t)'
    BY <1>2 DEF Settling
<1>4. CASE SweepOrder = <<>>
    <2>1. UNCHANGED <<active, bound, flow>>
        BY <1>4 DEF SweepTunnelsBegin
    <2>2. Listeners' /\ FlowsAreSound'
        BY <2>1 DEF Listeners, FlowsAreSound, Sound, Flows, Remote
    <2>3. RunningIsHeld'
        BY <1>3, <2>1 DEF RunningIsHeld
    <2> QED BY <1>1, <2>2, <2>3
<1>5. CASE SweepOrder # <<>>
    <2>1. PICK t \in Tunnels : t = Head(SweepOrder)
        BY <1>5, SweepOrderIsSeq
    <2>2. Cleanup(t)
        BY <1>5, <2>1 DEF SweepTunnelsBegin
    <2>3. /\ Listeners' /\ FlowsAreSound'
          /\ active'[t] = None /\ \A u \in Tunnels : u # t => active'[u] = active[u]
        BY <2>1, <2>2, CleanupDoes
    <2>4. Settling(t)'
        BY <1>2, <1>5, <2>1 DEF Settling
    <2>5. RunningIsHeld'
        BY <1>3, <2>3, <2>4, RunningStays DEF RunningIsHeld
    <2> QED BY <1>1, <2>3, <2>5
<1> QED BY <1>4, <1>5

LEMMA OneLess == ASSUME NEW n \in Nat, n > 1, NEW m, m = n - 1 PROVE m # 0
OBVIOUS

\* More than one element leaves a tail.
LEMMA LongTail == ASSUME NEW S, NEW s \in Seq(S), Len(s) > 1 PROVE Tail(s) # <<>>
<1>1. Len(s) \in Nat /\ s # <<>>
    OBVIOUS
<1>2. Len(Tail(s)) = Len(s) - 1
    BY <1>1
<1>3. Len(Tail(s)) # 0
    BY <1>1, <1>2, OneLess, Zenon
<1>4. Len(<<>>) = 0
    OBVIOUS
<1> QED BY <1>3, <1>4, Zenon

\* It goes on to its next tunnel.
LEMMA SweepWentOn ==
    ASSUME TunnelInv, NEW k \in Loops, Len(sweep[k]) > 1, SweepTunnelsNext(k), UNCHANGED <<clientVars, faulty>>
    PROVE  TunnelInv'
<1>0. sweep[k] \in Seq(Tunnels) /\ sweep[k] # <<>>
    BY DEF TunnelInv, LoopsAreOnce
<1>1. PICK t \in Tunnels, n \in Tunnels :
          /\ t = Head(sweep[k]) /\ n = sweep[k][2]
          /\ Tail(sweep[k]) \in Seq(Tunnels) /\ Tail(sweep[k]) # <<>> /\ Head(Tail(sweep[k])) = n
    <2>1. Head(sweep[k]) \in Tunnels /\ sweep[k][2] \in Tunnels
        BY <1>0
    <2>2. Tail(sweep[k]) \in Seq(Tunnels) /\ Len(Tail(sweep[k])) = Len(sweep[k]) - 1
        BY <1>0
    <2>3. Tail(sweep[k]) # <<>>
        BY <1>0, LongTail
    <2>4. Head(Tail(sweep[k])) = sweep[k][2]
        BY <1>0, <2>2
    <2> QED BY <2>1, <2>2, <2>3, <2>4
<1>2. /\ tstate' = [tstate EXCEPT ![t] = "stopped"] /\ sweep' = [sweep EXCEPT ![k] = Tail(sweep[k])]
      /\ Cleanup(n) /\ UNCHANGED <<pc, link>>
    BY <1>1 DEF SweepTunnelsNext, SetTunnelState, clientVars
<1>3. /\ sweep' \in [Loops -> Seq(Tunnels)]
      /\ sweep'[k] = Tail(sweep[k]) /\ \A j \in Loops : j # k => sweep'[j] = sweep[j]
    BY <1>1, <1>2 DEF TunnelInv, LoopsAreOnce
<1>4. /\ Listeners' /\ FlowsAreSound'
      /\ active'[n] = None /\ \A u \in Tunnels : u # n => active'[u] = active[u]
    BY <1>1, <1>2, CleanupDoes DEF TunnelInv
<1>5. /\ tstate' = [u \in Tunnels |-> tstate'[u]] /\ tstate'[t] # "running"
      /\ \A u \in Tunnels : u # t => tstate'[u] = tstate[u]
    BY <1>1, <1>2 DEF TunnelInv, RunningIsHeld
<1>6. Settling(n)' /\ \A u \in Tunnels : u # t /\ Settling(u) => Settling(u)'
    BY <1>1, <1>2, <1>3 DEF Settling
<1>7. RunningIsHeld'
    BY <1>4, <1>5, <1>6, RunningStays DEF TunnelInv
<1>8. \A j \in Loops : sweep[j] = <<>> => sweep'[j] = <<>>
    <2>1. sweep[k] # <<>>
        BY <1>0
    <2> QED BY <1>3, <2>1
<1>9. LoopsAreOnce'
    <2>1. \A c \in Connects : <<c, "end">> \in Loops /\ <<c, "close">> \in Loops
        BY DEF Loops
    <2>2. Sweepers \subseteq Loops
        BY DEF Loops
    <2> QED BY <1>2, <1>3, <1>8, <2>1, <2>2 DEF TunnelInv, LoopsAreOnce
<1>10. PcTyped' /\ LinkTyped'
    BY <1>2 DEF TunnelInv, PcTyped, LinkTyped
<1> QED BY <1>4, <1>7, <1>9, <1>10 DEF TunnelInv

\* It is over: everything is shown as stopped.
LEMMA AllStopped ==
    ASSUME tstate' = [t \in Tunnels |-> "stopped"] PROVE RunningIsHeld'
BY DEF RunningIsHeld

\* A loss or a sweep that clears every tunnel leaves the listeners it did not
\* reach to no one.
LEMMA ForgottenListeners ==
    ASSUME Listeners, active' = active \/ active' = [t \in Tunnels |-> None], UNCHANGED bound
    PROVE  Listeners'
<1>1. CASE active' = active
    BY <1>1 DEF Listeners
<1>2. CASE active' = [t \in Tunnels |-> None]
    BY <1>2 DEF Listeners
<1> QED BY <1>1, <1>2

\* The last turn of a loop.
LEMMA LoopOver ==
    ASSUME sweep \in [Loops -> Seq(Tunnels)], NEW k \in Loops, sweep' = [sweep EXCEPT ![k] = <<>>]
    PROVE  /\ sweep' \in [Loops -> Seq(Tunnels)] /\ sweep'[k] = <<>>
           /\ \A j \in Loops : j # k => sweep'[j] = sweep[j]
OBVIOUS

LEMMA LoopNames ==
    /\ Sweepers \subseteq Loops /\ Sweepers \subseteq Calls /\ Connects \subseteq Sweepers
    /\ \A c \in Connects : \A e \in {"end", "close"} : <<c, e>> \in Loops /\ <<c, e>> \notin Sweepers
<1>1. Sweepers \subseteq Loops /\ Connects \subseteq Sweepers
    BY DEF Loops, Sweepers
<1>2. Sweepers \subseteq Calls
    BY DEF Sweepers, Calls, Others
<1>3. ASSUME NEW c \in Connects, NEW e \in {"end", "close"}
      PROVE  <<c, e>> \in Loops /\ <<c, e>> \notin Sweepers
    <2>1. <<c, e>> \notin Calls
        BY Distinct
    <2>2. <<c, e>> \in {<<d, w>> : d \in Connects, w \in {"end", "close"}}
        OBVIOUS
    <2> QED BY <2>1, <2>2, <1>2 DEF Loops
<1> QED BY <1>1, <1>2, <1>3

LEMMA SweepTunnelsStep == ASSUME TunnelInv, NEW k \in Sweepers, SweepTunnels(k) PROVE TunnelInv'
<1>1. CASE pc[k] = "tunnels"
    BY <1>1, SweepWentOn, LoopNames DEF SweepTunnels, ownVars
<1>2. CASE pc[k] = "servers"
    <2>1. SweepTunnelsBegin(k) /\ Go(k, "tunnels") /\ UNCHANGED <<tstate, faulty, link>>
        BY <1>2 DEF SweepTunnels
    <2>2. k \in Loops /\ sweep[k] = <<>>
        BY <1>2, LoopNames DEF TunnelInv, LoopsAreOnce
    <2>3. PcTyped' /\ pc'[k] = "tunnels" /\ \A x \in Calls : x # k => pc'[x] = pc[x]
        BY <2>1, LoopNames DEF TunnelInv, PcTyped, Go
    <2>4. \A x \in Starts \cup Stops : pc[x] \in {"undoing", "stopping"} => pc'[x] = pc[x]
        BY <1>2, <2>3, StartsAndStops
    <2>5. Listeners' /\ FlowsAreSound' /\ RunningIsHeld' /\ sweep' \in [Loops -> Seq(Tunnels)]
        BY <2>1, <2>2, <2>4, SweepBegun DEF TunnelInv, LoopsAreOnce
    <2>6. \A j \in Loops : j # k => sweep'[j] = sweep[j]
        BY <2>1 DEF SweepTunnelsBegin, TunnelInv, LoopsAreOnce
    <2>7. ASSUME NEW c \in Connects
          PROVE  /\ sweep'[<<c, "end">>] = sweep[<<c, "end">>] /\ sweep'[<<c, "close">>] = sweep[<<c, "close">>]
                 /\ pc'[c] \in Early => pc[c] \in Early
        BY <1>2, <2>3, <2>6, LoopNames DEF Early
    <2>8. \A j \in Sweepers : pc'[j] # "tunnels" => sweep'[j] = <<>>
        BY <2>3, <2>6, LoopNames DEF TunnelInv, LoopsAreOnce
    <2>9. LoopsAreOnce'
        BY <2>1, <2>5, <2>7, <2>8 DEF TunnelInv, LoopsAreOnce
    <2>10. LinkTyped'
        BY <2>1 DEF TunnelInv, LinkTyped
    <2> QED BY <2>3, <2>5, <2>9, <2>10 DEF TunnelInv
<1> QED BY <1>1, <1>2 DEF SweepTunnels

LEMMA SweepDoneStep == ASSUME TunnelInv, NEW k \in Sweepers, SweepDone(k) PROVE TunnelInv'
<1>1. /\ sweep' = [sweep EXCEPT ![k] = <<>>] /\ active' = [t \in Tunnels |-> None]
      /\ tstate' = [t \in Tunnels |-> "stopped"] /\ UNCHANGED <<bound, flow>> /\ pc[k] = "tunnels"
    BY DEF SweepDone
<1>2. Listeners' /\ RunningIsHeld' /\ FlowsAreSound'
    BY <1>1, ForgottenListeners, AllStopped DEF TunnelInv, FlowsAreSound, Sound, Flows, Remote
<1>3. PICK where \in {"hopping", "dialing", "ok"} : Go(k, where)
    BY DEF SweepDone
<1>4. PcTyped' /\ pc'[k] = where /\ \A x \in Calls : x # k => pc'[x] = pc[x]
    BY <1>3, LoopNames DEF TunnelInv, PcTyped, Go
<1>5. LinkTyped' /\ \A c \in Connects : link'[c] \in {"up", "ended"} => link'[c] = link[c]
    <2> DEFINE ended == [c \in Clients |-> IF c \in SweptClients THEN "down" ELSE link[c]]
    <2>1. link' = ended \/ link' = [ended EXCEPT ![Dialing(k)] = "dialing"]
        BY DEF SweepDone
    <2>2. CASE link' = ended
        BY <2>2 DEF LinkTyped, Clients
    <2>3. CASE link' = [ended EXCEPT ![Dialing(k)] = "dialing"]
        BY <2>3 DEF LinkTyped, Clients
    <2> QED BY <2>1, <2>2, <2>3
<1>6. /\ sweep' \in [Loops -> Seq(Tunnels)] /\ sweep'[k] = <<>>
      /\ \A j \in Loops : j # k => sweep'[j] = sweep[j]
    BY <1>1, LoopNames, LoopOver DEF TunnelInv, LoopsAreOnce
<1>7. ASSUME NEW c \in Connects
      PROVE  /\ sweep'[<<c, "end">>] = sweep[<<c, "end">>] /\ sweep'[<<c, "close">>] = sweep[<<c, "close">>]
             /\ pc'[c] \in Early => pc[c] \in Early
    BY <1>1, <1>4, <1>6, LoopNames DEF Early
<1>8. \A j \in Sweepers : pc'[j] # "tunnels" => sweep'[j] = <<>>
    BY <1>4, <1>6, LoopNames DEF TunnelInv, LoopsAreOnce
<1>9. LoopsAreOnce'
    BY <1>5, <1>6, <1>7, <1>8 DEF TunnelInv, LoopsAreOnce
<1> QED BY <1>2, <1>4, <1>5, <1>9 DEF TunnelInv

LEMMA DialedStep == ASSUME TunnelInv, NEW c \in Connects, Dialed(c) PROVE TunnelInv'
<1>1. /\ pc[c] = "dialing" /\ Go(c, "starting") /\ link' = [link EXCEPT ![c] = "up"]
      /\ UNCHANGED <<active, tstate, bound, faulty, sweep, flow>>
    BY DEF Dialed, tunnelVars
<1>2. PcTyped' /\ pc'[c] = "starting" /\ \A x \in Calls : x # c => pc'[x] = pc[x]
    BY <1>1, LoopNames DEF TunnelInv, PcTyped, Go
<1>3. LinkTyped' /\ link'[c] = "up" /\ \A d \in Connects : d # c => link'[d] = link[d]
    BY <1>1 DEF TunnelInv, LinkTyped, Clients
<1>4. Listeners' /\ FlowsAreSound'
    BY <1>1 DEF TunnelInv, Listeners, FlowsAreSound, Sound, Flows, Remote
<1>5. \A t \in Tunnels : Settling(t) => Settling(t)'
    BY <1>1, <1>2, StartsAndStops DEF Settling
<1>6. RunningIsHeld'
    BY <1>1, <1>5 DEF TunnelInv, RunningIsHeld
<1>7. LoopsAreOnce'
    <2>1. pc[c] \in Early /\ pc'[c] \notin Early
        BY <1>1, <1>2 DEF Early
    <2>2. \A k \in Sweepers : pc'[k] # "tunnels" => sweep[k] = <<>>
        BY <1>1, <1>2, LoopNames DEF TunnelInv, LoopsAreOnce
    <2>3. \A d \in Connects : d # c => pc'[d] = pc[d]
        BY <1>2, LoopNames
    <2> QED BY <1>1, <1>3, <2>1, <2>2, <2>3 DEF TunnelInv, LoopsAreOnce
<1> QED BY <1>2, <1>3, <1>4, <1>6, <1>7 DEF TunnelInv

LEMMA InteractiveLostStep ==
    ASSUME TunnelInv, NEW c \in Connects, NEW e \in {"end", "close"}, InteractiveLost(c, e)
    PROVE  TunnelInv'
<1>1. UNCHANGED pc /\ PcTyped' /\ (link[c] = "up" \/ (e = "close" /\ link[c] = "ended"))
    BY DEF InteractiveLost, TunnelInv, PcTyped
<1>2. /\ LinkTyped' /\ link'[c] = IF e = "end" THEN "ended" ELSE "down"
      /\ \A d \in Connects : d # c => link'[d] \in {link[d], "down"}
    <2>1. PICK ended : link' = [i \in Clients |-> IF i = c THEN (IF e = "end" THEN "ended" ELSE "down")
                                                 ELSE IF i \in ended THEN "down" ELSE link[i]]
        BY DEF InteractiveLost
    <2> QED BY <2>1 DEF LinkTyped, Clients
<1>3. /\ <<c, e>> \in Loops /\ <<c, e>> \notin Sweepers /\ sweep[<<c, e>>] = <<>> /\ pc[c] \notin Early
      /\ e = "end" => sweep[<<c, "close">>] = <<>>
    BY <1>1, LoopNames DEF TunnelInv, LoopsAreOnce
<1>4. CASE closing
    <2>1. UNCHANGED <<active, tstate, bound, routed, over, faulty, sweep, flow>>
        BY <1>4 DEF InteractiveLost, ToldLost, tunnelVars
    <2>2. Listeners' /\ FlowsAreSound' /\ RunningIsHeld'
        BY <1>1, <2>1 DEF TunnelInv, Listeners, FlowsAreSound, Sound, Flows, Remote, RunningIsHeld, Settling
    <2>3. LoopsAreOnce'
        BY <1>1, <1>2, <1>3, <2>1 DEF TunnelInv, LoopsAreOnce
    <2> QED BY <1>1, <1>2, <2>2, <2>3 DEF TunnelInv
<1>5. CASE ~closing
    <2>1. /\ SweepTunnelsBegin(<<c, e>>) /\ UNCHANGED faulty
          /\ tstate' = IF SweepOrder = <<>> THEN [t \in Tunnels |-> "stopped"] ELSE tstate
        BY <1>5 DEF InteractiveLost, ToldLost
    <2>2. /\ sweep' \in [Loops -> Seq(Tunnels)]
          /\ \A j \in Loops : j # <<c, e>> => sweep'[j] = sweep[j]
        BY <2>1, SweepOrderIsSeq DEF SweepTunnelsBegin, TunnelInv, LoopsAreOnce
    <2>3. Listeners' /\ FlowsAreSound' /\ RunningIsHeld'
        <3>1. CASE SweepOrder = <<>>
            <4>1. UNCHANGED <<active, bound, flow>> /\ tstate' = [t \in Tunnels |-> "stopped"]
                BY <2>1, <3>1 DEF SweepTunnelsBegin
            <4> QED BY <4>1, ForgottenListeners, AllStopped DEF TunnelInv, FlowsAreSound, Sound, Flows, Remote
        <3>2. CASE SweepOrder # <<>>
            <4>1. UNCHANGED tstate
                BY <2>1, <3>2
            <4> QED BY <1>1, <1>3, <2>1, <4>1, SweepBegun DEF TunnelInv, LoopsAreOnce
        <3> QED BY <3>1, <3>2
    <2>4. \A j \in Sweepers : sweep'[j] = sweep[j]
        BY <1>3, <2>2, LoopNames
    <2>5. ASSUME NEW d \in Connects, d # c
          PROVE  sweep'[<<d, "end">>] = sweep[<<d, "end">>] /\ sweep'[<<d, "close">>] = sweep[<<d, "close">>]
        BY <2>2, <2>5, LoopNames
    <2>6. e = "end" => sweep'[<<c, "close">>] = <<>>
        BY <1>3, <2>2, LoopNames
    <2>7. LoopsAreOnce'
        BY <1>1, <1>2, <1>3, <2>2, <2>4, <2>5, <2>6 DEF TunnelInv, LoopsAreOnce
    <2> QED BY <1>1, <1>2, <2>3, <2>7 DEF TunnelInv
<1> QED BY <1>4, <1>5

LEMMA LostTunnelStep ==
    ASSUME TunnelInv, NEW c \in Connects, NEW e \in {"end", "close"}, LostTunnelStopped(c, e)
    PROVE  TunnelInv'
<1>1. <<c, e>> \in Loops /\ UNCHANGED <<clientVars, faulty>>
    BY LoopNames DEF LostTunnelStopped
<1>2. CASE Len(sweep[<<c, e>>]) > 1
    BY <1>1, <1>2, SweepWentOn DEF LostTunnelStopped
<1>3. CASE ~(Len(sweep[<<c, e>>]) > 1)
    <2>1. /\ sweep' = [sweep EXCEPT ![<<c, e>>] = <<>>] /\ tstate' = [t \in Tunnels |-> "stopped"]
          /\ UNCHANGED <<active, bound, flow>>
        BY <1>3 DEF LostTunnelStopped
    <2>2. Listeners' /\ FlowsAreSound' /\ RunningIsHeld'
        BY <2>1, ForgottenListeners, AllStopped DEF TunnelInv, FlowsAreSound, Sound, Flows, Remote
    <2>3. sweep' \in [Loops -> Seq(Tunnels)] /\ \A j \in Loops : sweep[j] = <<>> => sweep'[j] = <<>>
        BY <1>1, <2>1, LoopOver DEF TunnelInv, LoopsAreOnce
    <2>4. UNCHANGED <<pc, link>>
        BY <1>1 DEF clientVars
    <2>5. LoopsAreOnce'
        BY <2>3, <2>4, LoopNames DEF TunnelInv, LoopsAreOnce
    <2>6. PcTyped' /\ LinkTyped'
        BY <2>4 DEF TunnelInv, PcTyped, LinkTyped
    <2> QED BY <2>2, <2>5, <2>6 DEF TunnelInv
<1> QED BY <1>2, <1>3

LEMMA StepTunnels == TunnelInv /\ [Next]_vars => TunnelInv'
<1> SUFFICES ASSUME TunnelInv, [Next]_vars PROVE TunnelInv'
    OBVIOUS
<1>0. PcTyped /\ LinkTyped
    BY DEF TunnelInv
<1>1. CASE TunnelsNext
    BY <1>1, StartTunnelStep, TunnelBoundStep, TunnelRefusedStep, StopTunnelStep, ServerFailedStep,
       TunnelSettles, ConnectionStep DEF TunnelsNext
<1>2. CASE TerminalsNext /\ UNCHANGED <<tunnelVars, serverVars, ownVars>>
    BY <1>0, <1>2, TerminalsAside, TunnelsKept
<1>3. CASE ServersNext /\ UNCHANGED <<tunnelVars, terminalVars, ownVars>>
    BY <1>0, <1>3, ServersAside, TunnelsKept
<1>4. CASE /\ IdleNext
           /\ UNCHANGED <<tunnelVars, terminalVars, serverVars, init, aux, auxState, poller, polls, reading, waits, had>>
    BY <1>0, <1>4, IdleAside, TunnelsKept
<1>5. CASE LifecycleNext
    <2>1. CASE \E k \in Sweepers : SweepTunnels(k) \/ SweepDone(k)
        BY <2>1, SweepTunnelsStep, SweepDoneStep
    <2>2. CASE \E c \in Connects : \/ Dialed(c)
                                  \/ \E e \in {"end", "close"} : InteractiveLost(c, e) \/ LostTunnelStopped(c, e)
        BY <2>2, DialedStep, InteractiveLostStep, LostTunnelStep
    <2>3. CASE \/ \E k \in Sweepers : SweepBegins(k) \/ SweepServers(k)
               \/ \E c \in Connects :
                    \/ JumpDialed(c) \/ ConnectDone(c) \/ ConnectFails(c)
                    \/ SftpOpened(c) \/ HomeResolved(c) \/ SftpRefused(c) \/ ShellHomeResolved(c) \/ SocketError(c)
               \/ \E h \in Helpers :
                    \/ EnsureAuxiliary(h) \/ AuxiliaryDialed(h) \/ AuxiliaryReady(h)
                    \/ AuxiliaryFails(h) \/ AuxiliaryLost(h)
               \/ \E g \in Gauges : StartHostMetrics(g)
               \/ \E p \in polls : PollDone(p)
               \/ PollTimer
        BY <1>0, <2>3, LifecycleAside, TunnelsKept
    <2> QED BY <1>5, <2>1, <2>2, <2>3 DEF LifecycleNext, Sweep
<1>6. CASE UNCHANGED vars
    BY <1>0, <1>6, CallsStay, LinksStay, TunnelsKept DEF vars, clientVars, Aside
<1> QED BY <1>1, <1>2, <1>3, <1>4, <1>5, <1>6 DEF Next

(* The tunnels dialog does not lie, and no connection carries data through  *)
(* a listener that was closed (TunnelsAreTruthful), for any number of       *)
(* tunnels, starts, stops, connections and losses.                          *)
THEOREM TunnelsStayTruthful == Spec => []TunnelsAreTruthful
    BY InitTunnels, StepTunnels, TunnelInvSuffices, PTL DEF Spec

-----------------------------------------------------------------------------
(* What a disconnect leaves.                                                *)

SweepPlaces == {"idle", "servers", "tunnels"}

Sweeping(k) == pc[k] \in SweepPlaces

\* What the disconnects under way have counted.
Marked == UNION {had[k] : k \in {j \in Sweepers : Sweeping(j)}}

\* What a disconnect may count.
Countable == (Clients \ Helpers) \cup Starts \cup Films \cup Serves

HadTyped == had \in [Sweepers -> SUBSET Countable]

\* The clients a disconnect ends, but for the auxiliary one.
HeldNow == ({client, jump} \cup terms) \ {None}

Late == {"starting", "ok", "failed"}
Closed == {"none", "ended", "down"}
Spawned == {"initialize", "quitting", "ok", "failed"}

\* The call that opens i no longer brings it up.
Past(i) ==
    /\ i \in Connects => pc[i] \in Late
    /\ i \in Opens => pc[i] = "ok"
    /\ \A c \in Hopping : i = Jump(c) => pc[c] \in Late \cup {"dialing"}

ClientsTyped ==
    /\ client \in Connects \cup {None} /\ jump \in {Jump(c) : c \in Hopping} \cup {None}
    /\ terms \subseteq Opens

\* A client that was counted is closed, or will be by whoever ends the session.
ClientsEnd ==
    /\ ClientsTyped
    /\ \A i \in HeldNow : Past(i)
    /\ \A c \in Connects : pc[c] = "hopping" => jump = None
    /\ \A i \in Marked \cap Clients : Past(i) /\ (link[i] \in Closed \/ (closing /\ i \in HeldNow))

\* So is a video stream.
FilmsEnd ==
    /\ streams \subseteq Films /\ picture = [v \in Films |-> picture[v]]
    /\ \A v \in streams : pc[v] = "ok"
    /\ \A v \in Marked \cap Films : pc[v] = "ok" /\ (picture[v] # "open" \/ (closing /\ v \in streams))

\* A language server that runs is known, or being stopped; once a disconnect has
\* stopped those it knew, it waits for them.
ServersEnd ==
    /\ servers \subseteq Serves /\ waits = [k \in Sweepers |-> waits[k]]
    /\ process = [s \in Serves |-> process[s]] /\ quitting = [s \in Serves |-> quitting[s]]
    /\ \A s \in servers : pc[s] \in Spawned
    /\ \A s \in Serves : process[s] = "open" => s \in servers \/ quitting[s] # "no"
    /\ \A k \in Sweepers : Sweeping(k) => \A s \in had[k] \cap Serves :
          /\ pc[s] \in Spawned
          /\ pc[k] # "idle" => s \notin servers
          /\ pc[k] = "tunnels" => process[s] # "open" \/ (quitting[s] # "no" /\ s \notin waits[k])

\* A listener that is closed, or whose client is.
OutOf(i) == i \notin bound \/ (Remote(TunnelOf[i]) /\ link[over[i]] # "up")

\* What a loop has not begun to clean up.
After(s) == {s[j] : j \in 2..Len(s)}
Ahead(k) == After(sweep[k])

\* A listener that was counted is closed, or known; and no loop under way is past it.
ListenersEnd ==
    /\ over = [s \in Starts |-> over[s]]
    /\ \A t \in Tunnels : active[t] # None => pc[active[t]] = "ok"
    /\ \A s \in Starts : pc[s] \in {"binding", "ok"} => over[s] \in Connects /\ pc[over[s]] \in Late
    /\ \A i \in Marked \cap Starts :
        /\ pc[i] = "ok"
        /\ OutOf(i) \/ active[TunnelOf[i]] = i
        /\ \A k \in Sweepers : pc[k] = "tunnels" => OutOf(i) \/ TunnelOf[i] \in Ahead(k)

EndInv == HadTyped /\ ClientsEnd /\ FilmsEnd /\ ServersEnd /\ ListenersEnd

-----------------------------------------------------------------------------
(* The calls go on.                                                         *)

Plain == Helpers \cup Hangups \cup Visions \cup Cuts \cup Stops \cup Halts \cup Gauges \cup Scans \cup Grabs \cup Drops

LEMMA KindsApart ==
    /\ \A c \in Plain : c \in Calls /\ c \notin Sweepers \cup Opens \cup Films \cup Starts \cup Serves
    /\ \A c \in Sweepers : c \in Calls /\ c \notin Opens \cup Films \cup Starts \cup Serves
    /\ \A c \in Opens : c \in Calls /\ c \notin Sweepers \cup Films \cup Starts \cup Serves
    /\ \A c \in Films : c \in Calls /\ c \notin Sweepers \cup Opens \cup Starts \cup Serves
    /\ \A c \in Starts : c \in Calls /\ c \notin Sweepers \cup Opens \cup Films \cup Serves
    /\ \A c \in Serves : c \in Calls /\ c \notin Sweepers \cup Opens \cup Films \cup Starts
<1> DEFINE Named == {1, 2, 3, 5, 8, 10, 12}
           Rest == {4, 6, 7, 9, 11, 13, 14, 15, 16, 17}
<1>1. /\ Kinds[1] = Connects /\ Kinds[2] = Leaves /\ Kinds[3] = Shuts /\ Kinds[4] = Helpers
      /\ Kinds[5] = Opens /\ Kinds[6] = Hangups /\ Kinds[7] = Visions /\ Kinds[8] = Films
      /\ Kinds[9] = Cuts /\ Kinds[10] = Starts /\ Kinds[11] = Stops /\ Kinds[12] = Serves
      /\ Kinds[13] = Halts /\ Kinds[14] = Gauges /\ Kinds[15] = Scans /\ Kinds[16] = Grabs
      /\ Kinds[17] = Drops
    BY DEF Kinds
<1>2. \A i \in Named, j \in Rest : Kinds[i] \cap Kinds[j] = {}
    BY KindsDiffer
<1>3. \A c \in Plain : \E j \in Rest : c \in Kinds[j]
    BY <1>1 DEF Plain
<1>4. \A c \in Sweepers \cup Opens \cup Films \cup Starts \cup Serves : \E i \in Named : c \in Kinds[i]
    BY <1>1 DEF Sweepers
<1>5. \A i, j \in Named : i # j => Kinds[i] \cap Kinds[j] = {}
    BY KindsDiffer
<1>6. \A i \in {1, 2, 3} : \A j \in {5, 8, 10, 12} : Kinds[i] \cap Kinds[j] = {}
    BY <1>5
<1>7. \A c \in Sweepers : c \in Kinds[1] \/ c \in Kinds[2] \/ c \in Kinds[3]
    BY <1>1 DEF Sweepers
<1>8. \A c \in Sweepers : c \notin Kinds[5] /\ c \notin Kinds[8] /\ c \notin Kinds[10] /\ c \notin Kinds[12]
    BY <1>6, <1>7
<1>9. /\ Opens \cap Films = {} /\ Opens \cap Starts = {} /\ Opens \cap Serves = {}
      /\ Films \cap Starts = {} /\ Films \cap Serves = {} /\ Starts \cap Serves = {}
    BY <1>1, <1>5
<1>10. Plain \cup Sweepers \cup Opens \cup Films \cup Starts \cup Serves \subseteq Calls
    BY DEF Plain, Sweepers, Calls, Others
<1>11. \A c \in Plain : c \notin Sweepers \cup Opens \cup Films \cup Starts \cup Serves
    BY <1>2, <1>3, <1>4
<1> HIDE DEF Named, Rest
<1>12. \A c \in Sweepers : c \notin Opens \cup Films \cup Starts \cup Serves
    BY <1>1, <1>8
<1> QED BY <1>9, <1>10, <1>11, <1>12

\* No call goes back; of those in S only a disconnect that is under way moves.
Onward(S) ==
    /\ PcTyped'
    /\ \A c \in Connects : /\ pc[c] \in Late => pc'[c] \in Late
                           /\ pc[c] \in Late \cup {"dialing"} => pc'[c] \in Late \cup {"dialing"}
    /\ \A x \in Opens \cup Films \cup Starts : pc[x] = "ok" => pc'[x] = "ok"
    /\ \A s \in Serves : pc[s] \in Spawned => pc'[s] \in Spawned
    /\ \A k \in Sweepers \ S : pc'[k] \in SweepPlaces \cup {"hopping"} => pc'[k] = pc[k]

LEMMA OnwardStays == ASSUME PcTyped, UNCHANGED pc PROVE Onward({})
BY DEF Onward, PcTyped

LEMMA OnwardGoes ==
    ASSUME PcTyped, NEW c \in Calls, NEW where, Go(c, where),
           c \in Connects => where \in Late \/ (where = "dialing" /\ pc[c] = "hopping"),
           c \in Opens \cup Films \cup Starts => pc[c] # "ok",
           c \in Serves => pc[c] \notin Spawned \/ where \in Spawned,
           c \in Sweepers => where \notin SweepPlaces \cup {"hopping"}
    PROVE  Onward({}) /\ pc'[c] = where /\ \A d \in Calls : d # c => pc'[d] = pc[d]
<1>1. PcTyped' /\ pc'[c] = where /\ \A d \in Calls : d # c => pc'[d] = pc[d]
    BY DEF PcTyped, Go
<1>2. /\ Connects \subseteq Sweepers /\ Sweepers \subseteq Calls
      /\ Opens \cup Films \cup Starts \subseteq Calls /\ Serves \subseteq Calls
    BY DEF Sweepers, Calls, Others
<1>3. ASSUME NEW d \in Connects
      PROVE  /\ pc[d] \in Late => pc'[d] \in Late
             /\ pc[d] \in Late \cup {"dialing"} => pc'[d] \in Late \cup {"dialing"}
    BY <1>1, <1>2 DEF Late
<1>4. \A x \in Opens \cup Films \cup Starts : pc[x] = "ok" => pc'[x] = "ok"
    BY <1>1, <1>2
<1>5. \A s \in Serves : pc[s] \in Spawned => pc'[s] \in Spawned
    BY <1>1, <1>2
<1>6. \A k \in Sweepers : pc'[k] \in SweepPlaces \cup {"hopping"} => pc'[k] = pc[k]
    BY <1>1, <1>2
<1> QED BY <1>1, <1>3, <1>4, <1>5, <1>6 DEF Onward

\* A call of a kind that none of this is about.
LEMMA PlainGoes ==
    ASSUME PcTyped, NEW c \in Plain, NEW where, Go(c, where)
    PROVE  Onward({})
<1>1. c \in Calls /\ c \notin Connects /\ c \notin Opens \cup Films \cup Starts /\ c \notin Serves /\ c \notin Sweepers
    BY KindsApart DEF Sweepers
<1> QED BY <1>1, OnwardGoes

\* A disconnect moves: it begins, or goes on.
LEMMA SweepGoes ==
    ASSUME PcTyped, NEW k \in Sweepers, NEW where, Go(k, where), pc[k] \in SweepPlaces \cup {"new"}
    PROVE  Onward({k}) /\ pc'[k] = where /\ \A d \in Calls : d # k => pc'[d] = pc[d]
<1>1. k \in Calls /\ k \notin Opens \cup Films \cup Starts \cup Serves
    BY KindsApart
<1>2. PcTyped' /\ pc'[k] = where /\ \A d \in Calls : d # k => pc'[d] = pc[d]
    BY <1>1 DEF PcTyped, Go
<1>3. /\ Connects \subseteq Sweepers /\ Sweepers \subseteq Calls
      /\ Opens \cup Films \cup Starts \subseteq Calls /\ Serves \subseteq Calls
    BY DEF Sweepers, Calls, Others
<1>4. pc[k] \notin Late \cup {"dialing"}
    BY DEF SweepPlaces, Late
<1> QED BY <1>1, <1>2, <1>3, <1>4 DEF Onward

LEMMA MarkedStays ==
    ASSUME NEW S, Onward(S), UNCHANGED had, \A k \in S : Sweeping(k)
    PROVE  Marked' \subseteq Marked
<1>1. \A k \in Sweepers : pc'[k] \in SweepPlaces => pc[k] \in SweepPlaces
    BY DEF Onward, Sweeping
<1> QED BY <1>1 DEF Marked, Sweeping

LEMMA PastStays == ASSUME NEW S, Onward(S), NEW i, Past(i) PROVE Past(i)'
<1>1. i \in Connects => pc'[i] \in Late
    BY DEF Onward, Past
<1>2. i \in Opens => pc'[i] = "ok"
    BY DEF Onward, Past
<1>3. ASSUME NEW c \in Hopping, i = Jump(c) PROVE pc'[c] \in Late \cup {"dialing"}
    <2>1. c \in Connects
        BY SessionAssumption
    <2> QED BY <1>3, <2>1 DEF Onward, Past
<1> QED BY <1>1, <1>2, <1>3 DEF Past, Jump

-----------------------------------------------------------------------------
(* Each part, when what it speaks of is left alone.                         *)

LEMMA NotCounted == \A h \in Helpers : h \notin Countable
<1>1. \A h \in Helpers : h \notin Films \cup Starts \cup Serves
    BY KindsApart DEF Plain
<1> QED BY <1>1 DEF Countable

LEMMA MarkedIsCountable == ASSUME HadTyped, NEW i \in Marked PROVE i \in Countable
BY DEF HadTyped, Marked

\* Of the clients a disconnect ends, a closed one stays closed.
LinksClose == \A i \in Clients \ Helpers : Past(i) /\ link[i] \in Closed => link'[i] \in Closed

LEMMA ClientsKept ==
    ASSUME HadTyped, ClientsEnd, NEW S, Onward(S), Marked' \subseteq Marked, ClientsTyped', LinksClose,
           \A i \in HeldNow : closing => (closing' /\ i \in HeldNow') \/ link'[i] \in Closed,
           \A i \in HeldNow' : i \in HeldNow \/ Past(i)',
           \A c \in Connects : pc'[c] = "hopping" => jump' = None
    PROVE  ClientsEnd'
<1>1. \A i \in HeldNow' : Past(i)'
    BY PastStays DEF ClientsEnd
<1>2. ASSUME NEW i \in Marked', i \in Clients
      PROVE  Past(i)' /\ (link'[i] \in Closed \/ (closing' /\ i \in HeldNow'))
    <2>1. Past(i) /\ (link[i] \in Closed \/ (closing /\ i \in HeldNow))
        BY <1>2 DEF ClientsEnd
    <2>2. Past(i)'
        BY <2>1, PastStays
    <2>3. i \in Clients \ Helpers
        BY <1>2, MarkedIsCountable, NotCounted
    <2> QED BY <1>2, <2>1, <2>2, <2>3 DEF LinksClose
<1> QED BY <1>1, <1>2 DEF ClientsEnd, Clients

LEMMA ClientsRest ==
    ASSUME HadTyped, ClientsEnd, NEW S, Onward(S), Marked' \subseteq Marked, LinksClose,
           UNCHANGED <<closing, client, jump, terms>>,
           \A k \in S : pc'[k] # "hopping"
    PROVE  ClientsEnd'
<1>1. ClientsTyped' /\ HeldNow' = HeldNow
    BY DEF ClientsEnd, ClientsTyped, HeldNow
<1>2. \A c \in Connects : pc'[c] = "hopping" => jump' = None
    BY DEF ClientsEnd, Onward, Sweepers
<1> QED BY <1>1, <1>2, ClientsKept

\* How the links change.
LEMMA LinksSame == ASSUME UNCHANGED link PROVE LinksClose
BY DEF LinksClose

LEMMA EndedAreClosed ==
    ASSUME NEW S, EndClients(S)
    PROVE  LinksClose /\ \A i \in Clients : i \in S => link'[i] \in Closed
BY DEF EndClients, LinksClose, Closed

LEMMA OneLinkCloses ==
    ASSUME LinkTyped, NEW i, NEW v, link' = [link EXCEPT ![i] = v], v \in Closed \/ i \in Helpers \/ ~Past(i)
    PROVE  LinksClose
<1>1. \A j \in Clients : link'[j] = IF j = i THEN v ELSE link[j]
    BY DEF LinkTyped, Clients
<1> QED BY <1>1 DEF LinksClose

LEMMA FilmsRest ==
    ASSUME FilmsEnd, NEW S, Onward(S), Marked' \subseteq Marked, UNCHANGED <<closing, streams, picture>>
    PROVE  FilmsEnd'
BY DEF FilmsEnd, Onward

LEMMA ServersRest ==
    ASSUME ServersEnd, NEW S, Onward(S), \A k \in S : pc'[k] \notin SweepPlaces,
           UNCHANGED <<servers, process, quitting, waits, had>>
    PROVE  ServersEnd'
<1>1. \A k \in Sweepers : pc'[k] \in SweepPlaces => pc'[k] = pc[k]
    BY DEF Onward
<1>2. \A s \in Serves : pc[s] \in Spawned => pc'[s] \in Spawned
    BY DEF Onward
<1> QED BY <1>1, <1>2 DEF ServersEnd, Sweeping

\* A client that is past its connect does not come up again.
LinksFall == \A c \in Connects : pc[c] \in Late /\ link'[c] = "up" => link[c] = "up"

LEMMA ListenersKept ==
    ASSUME ListenersEnd, TunnelInv, NEW S, Onward(S), Marked' \subseteq Marked, LinksFall,
           over' = [s \in Starts |-> over'[s]],
           \A t \in Tunnels : active'[t] # None => active'[t] = active[t] \/ pc'[active'[t]] = "ok",
           \A s \in Starts : pc[s] \in {"binding", "ok"} => over'[s] = over[s],
           \A s \in Starts : pc'[s] \in {"binding", "ok"} =>
               pc[s] \in {"binding", "ok"} \/ (over'[s] \in Connects /\ pc'[over'[s]] \in Late),
           \A s \in Starts : pc[s] = "ok" /\ s \in bound' => s \in bound,
           \A i \in Marked \cap Starts : active[TunnelOf[i]] = i => OutOf(i)' \/ active'[TunnelOf[i]] = i,
           \A k \in Sweepers, i \in Marked \cap Starts :
               pc'[k] = "tunnels" =>
                   \/ OutOf(i)' \/ TunnelOf[i] \in Ahead(k)'
                   \/ pc[k] = "tunnels" /\ (TunnelOf[i] \in Ahead(k) => TunnelOf[i] \in Ahead(k)')
    PROVE  ListenersEnd'
<1>1. ASSUME NEW t \in Tunnels, active'[t] # None PROVE pc'[active'[t]] = "ok"
    BY <1>1 DEF ListenersEnd, Onward, TunnelInv, Listeners
<1>2. ASSUME NEW s \in Starts, pc'[s] \in {"binding", "ok"} PROVE over'[s] \in Connects /\ pc'[over'[s]] \in Late
    BY <1>2 DEF ListenersEnd, Onward
<1>3. ASSUME NEW i \in Starts, pc[i] = "ok", OutOf(i) PROVE OutOf(i)'
    <2>1. over'[i] = over[i] /\ over[i] \in Connects /\ pc[over[i]] \in Late
        BY <1>3 DEF ListenersEnd
    <2> QED BY <1>3, <2>1 DEF OutOf, LinksFall, Remote
<1>4. ASSUME NEW i \in Marked', i \in Starts
      PROVE  /\ pc'[i] = "ok"
             /\ OutOf(i)' \/ active'[TunnelOf[i]] = i
             /\ \A k \in Sweepers : pc'[k] = "tunnels" => OutOf(i)' \/ TunnelOf[i] \in Ahead(k)'
    <2>1. /\ pc[i] = "ok" /\ (OutOf(i) \/ active[TunnelOf[i]] = i)
          /\ \A k \in Sweepers : pc[k] = "tunnels" => OutOf(i) \/ TunnelOf[i] \in Ahead(k)
        BY <1>4 DEF ListenersEnd
    <2>2. OutOf(i) => OutOf(i)'
        BY <1>3, <1>4, <2>1
    <2>3. pc'[i] = "ok"
        BY <1>4, <2>1 DEF Onward
    <2> QED BY <1>4, <2>1, <2>2, <2>3
<1> QED BY <1>1, <1>2, <1>4 DEF ListenersEnd

\* The Start calls stay where they are.
StartsStay == \A s \in Starts : pc'[s] = pc[s]

LEMMA ListenersRest ==
    ASSUME ListenersEnd, TunnelInv, NEW S, Onward(S), Marked' \subseteq Marked, LinksFall, StartsStay,
           UNCHANGED <<active, bound, sweep, over>>,
           \A k \in Sweepers : pc'[k] = "tunnels" => pc[k] = "tunnels"
    PROVE  ListenersEnd'
<1>1. \A k \in Sweepers : Ahead(k)' = Ahead(k)
    BY DEF Ahead
<1>2. \A s \in Starts : pc'[s] \in {"binding", "ok"} => pc[s] \in {"binding", "ok"}
    BY DEF StartsStay
<1>3. over' = [s \in Starts |-> over'[s]]
    BY DEF ListenersEnd
<1> QED BY <1>1, <1>2, <1>3, ListenersKept

-----------------------------------------------------------------------------
(* The tunnels' actions.                                                    *)

LEMMA StartsApart ==
    /\ \A s \in Starts : s \in Calls /\ s \notin Connects \cup Opens \cup Serves \cup Sweepers
    /\ \A x \in Stops : x \in Plain
    /\ \A x \in Plain : x \in Calls /\ x \notin Starts
BY KindsApart DEF Plain, Sweepers

LEMMA PlainStarts ==
    ASSUME PcTyped, NEW c \in Calls, c \notin Starts, NEW where, Go(c, where)
    PROVE  StartsStay
BY StartsApart DEF PcTyped, Go, StartsStay

\* A Start call goes on.
LEMMA StartGoes ==
    ASSUME PcTyped, NEW s \in Starts, NEW where, Go(s, where), pc[s] # "ok"
    PROVE  Onward({}) /\ pc'[s] = where /\ \A d \in Starts : d # s => pc'[d] = pc[d]
<1>1. Starts \subseteq Calls
    BY StartsApart
<1> QED BY <1>1, StartsApart, OnwardGoes

\* A listener that is not closed is known.
LEMMA CountedListener ==
    ASSUME ListenersEnd, TunnelInv, NEW i \in Marked, i \in Starts
    PROVE  /\ pc[i] = "ok" /\ TunnelOf[i] \in Tunnels
           /\ OutOf(i) \/ (active[TunnelOf[i]] = i /\ active[TunnelOf[i]] # None)
BY StartsAndStops DEF ListenersEnd

\* cleanupTunnel closes the listener it forgets: of a counted one, whether it is
\* known stays the same, or it is closed.
LEMMA CleanupCloses ==
    ASSUME TunnelInv, NEW t \in Tunnels, Cleanup(t)
    PROVE  /\ \A u \in Tunnels : active'[u] # None => active'[u] = active[u]
           /\ bound' \subseteq bound
           /\ \A i \in Starts : active[TunnelOf[i]] = i => OutOf(i)' \/ (active'[TunnelOf[i]] = i /\ TunnelOf[i] # t)
<1>1. active'[t] = None /\ \A u \in Tunnels : u # t => active'[u] = active[u]
    BY CleanupDoes DEF TunnelInv
<1>2. bound' = bound \ {active[t]}
    BY DEF Cleanup
<1>3. ASSUME NEW i \in Starts, active[TunnelOf[i]] = i
      PROVE  OutOf(i)' \/ (active'[TunnelOf[i]] = i /\ TunnelOf[i] # t)
    <2>1. CASE TunnelOf[i] = t
        BY <1>2, <1>3, <2>1 DEF OutOf
    <2>2. CASE TunnelOf[i] # t
        BY <1>1, <1>3, <2>2, StartsAndStops
    <2> QED BY <2>1, <2>2
<1> QED BY <1>1, <1>2, <1>3

LEMMA CleanupListeners ==
    ASSUME ListenersEnd, TunnelInv, NEW S, Onward(S), Marked' \subseteq Marked, LinksFall, UNCHANGED over,
           NEW t \in Tunnels, Cleanup(t),
           \A s \in Starts : pc'[s] \in {"binding", "ok"} => pc[s] \in {"binding", "ok"},
           \A k \in Sweepers : pc'[k] = "tunnels" =>
               \/ pc[k] = "tunnels" /\ \A u \in Ahead(k) : u # t => u \in Ahead(k)'
               \/ \A u \in Tunnels : active[u] # None /\ u # t => u \in Ahead(k)'
    PROVE  ListenersEnd'
<1>1. /\ \A u \in Tunnels : active'[u] # None => active'[u] = active[u]
      /\ bound' \subseteq bound
      /\ \A i \in Starts : active[TunnelOf[i]] = i => OutOf(i)' \/ (active'[TunnelOf[i]] = i /\ TunnelOf[i] # t)
    BY CleanupCloses
<1>2. over' = [s \in Starts |-> over'[s]]
    BY DEF ListenersEnd
<1>3. ASSUME NEW i \in Marked, i \in Starts, OutOf(i) PROVE OutOf(i)'
    BY <1>1, <1>3, CountedListener DEF ListenersEnd, OutOf, LinksFall, Remote
<1>4. ASSUME NEW k \in Sweepers, NEW i \in Marked, i \in Starts, pc'[k] = "tunnels"
      PROVE  OutOf(i)' \/ TunnelOf[i] \in Ahead(k)'
    <2>1. /\ TunnelOf[i] \in Tunnels /\ (OutOf(i) \/ (active[TunnelOf[i]] = i /\ active[TunnelOf[i]] # None))
          /\ pc[k] = "tunnels" => OutOf(i) \/ TunnelOf[i] \in Ahead(k)
        BY <1>4, CountedListener DEF ListenersEnd
    <2>2. CASE OutOf(i)
        BY <1>3, <1>4, <2>2
    <2>3. CASE ~OutOf(i)
        <3>1. OutOf(i)' \/ TunnelOf[i] # t
            BY <1>1, <1>4, <2>1, <2>3
        <3> QED BY <1>4, <2>1, <2>3, <3>1
    <2> QED BY <2>2, <2>3
<1> QED BY <1>1, <1>2, <1>4, ListenersKept

LEMMA StartTunnelEnds ==
    ASSUME EndInv, TunnelInv, NEW s \in Starts, StartTunnel(s), UNCHANGED had
    PROVE  Onward({}) /\ ListenersEnd'
<1>1. /\ pc[s] = "new"
      /\ \/ Go(s, "failed") /\ UNCHANGED over
         \/ Go(s, "binding") /\ over' = [over EXCEPT ![s] = client] /\ Connected
    <2>1. CASE ~Connected \/ closing \/ active[TunnelOf[s]] # None
        BY <2>1 DEF StartTunnel, Called
    <2>2. CASE ~(~Connected \/ closing \/ active[TunnelOf[s]] # None)
        BY <2>2 DEF StartTunnel, Called
    <2> QED BY <2>1, <2>2
<1>2. PICK where \in {"failed", "binding"} :
          Go(s, where) /\ (where = "binding" => over' = [over EXCEPT ![s] = client] /\ Connected)
    BY <1>1
<1>3. Onward({}) /\ pc'[s] = where /\ \A d \in Starts : d # s => pc'[d] = pc[d]
    BY <1>1, <1>2, StartGoes DEF TunnelInv
<1>4. Marked' \subseteq Marked /\ LinksFall /\ UNCHANGED <<active, bound, sweep>>
    BY <1>3, MarkedStays DEF StartTunnel, LinksFall
<1>5. over' = [d \in Starts |-> over'[d]] /\ \A d \in Starts : d # s => over'[d] = over[d]
    BY <1>1 DEF EndInv, ListenersEnd
<1>6. ASSUME where = "binding" PROVE over'[s] \in Connects /\ pc'[over'[s]] \in Late
    <2>1. client \in Connects /\ client \in HeldNow
        BY <1>2, <1>6 DEF Connected, EndInv, ClientsEnd, ClientsTyped, HeldNow
    <2>2. pc[client] \in Late
        BY <2>1 DEF EndInv, ClientsEnd, Past
    <2>3. over'[s] = client
        BY <1>2, <1>6 DEF EndInv, ListenersEnd
    <2> QED BY <1>3, <2>1, <2>2, <2>3 DEF Onward
<1>7. \A k \in Sweepers : pc'[k] = "tunnels" => pc[k] = "tunnels"
    BY <1>3 DEF Onward, SweepPlaces
<1>8. \A k \in Sweepers : Ahead(k)' = Ahead(k)
    BY <1>4 DEF Ahead
<1>9. \A d \in Starts : pc'[d] \in {"binding", "ok"} =>
          pc[d] \in {"binding", "ok"} \/ (over'[d] \in Connects /\ pc'[over'[d]] \in Late)
    BY <1>3, <1>6
<1>10. \A d \in Starts : pc[d] \in {"binding", "ok"} => over'[d] = over[d]
    BY <1>1, <1>5
<1> QED BY <1>3, <1>4, <1>5, <1>7, <1>8, <1>9, <1>10, ListenersKept DEF EndInv

LEMMA TunnelBoundEnds ==
    ASSUME EndInv, TunnelInv, NEW s \in Starts, TunnelBound(s), UNCHANGED had
    PROVE  Onward({}) /\ ListenersEnd'
<1> DEFINE t == TunnelOf[s]
<1>1. /\ pc[s] = "binding" /\ ~PortTaken(s) /\ Go(s, "ok") /\ bound' = bound \cup {s}
      /\ active' = [active EXCEPT ![t] = s] /\ UNCHANGED <<over, sweep, link>>
    BY DEF TunnelBound
<1>2. Onward({}) /\ pc'[s] = "ok" /\ \A d \in Starts : d # s => pc'[d] = pc[d]
    BY <1>1, StartGoes DEF TunnelInv
<1>3. Marked' \subseteq Marked /\ LinksFall
    BY <1>1, <1>2, MarkedStays DEF LinksFall
<1>4. t \in Tunnels /\ active'[t] = s /\ \A u \in Tunnels : u # t => active'[u] = active[u]
    BY <1>1, StartsAndStops DEF TunnelInv, Listeners
<1>5. over' = [d \in Starts |-> over'[d]]
    BY <1>1 DEF EndInv, ListenersEnd
<1>6. \A d \in Starts : pc'[d] \in {"binding", "ok"} => pc[d] \in {"binding", "ok"}
    BY <1>1, <1>2
<1>7. \A d \in Starts : pc[d] = "ok" /\ d \in bound' => d \in bound
    BY <1>1
<1>8. ASSUME NEW i \in Marked, i \in Starts, active[TunnelOf[i]] = i PROVE OutOf(i)' \/ active'[TunnelOf[i]] = i
    <2>0. i # None /\ TunnelOf[i] \in Tunnels /\ pc[i] = "ok"
        BY <1>8, StartsAndStops, CountedListener DEF EndInv
    <2>1. CASE TunnelOf[i] = t
        <3>1. i \in bound
            BY <1>8, <2>0 DEF TunnelInv, Listeners
        <3>2. Remote(TunnelOf[i]) /\ link[over[i]] # "up"
            BY <1>1, <2>1, <3>1 DEF PortTaken
        <3> QED BY <1>1, <3>2 DEF OutOf, Remote
    <2>2. CASE TunnelOf[i] # t
        BY <1>4, <1>8, <2>0, <2>2
    <2> QED BY <2>1, <2>2
<1>9. \A k \in Sweepers : Ahead(k)' = Ahead(k)
    BY <1>1 DEF Ahead
<1>10. \A k \in Sweepers : pc'[k] = "tunnels" => pc[k] = "tunnels"
    BY <1>2 DEF Onward, SweepPlaces
<1>11. \A u \in Tunnels : active'[u] # None => active'[u] = active[u] \/ pc'[active'[u]] = "ok"
    BY <1>2, <1>4
<1> HIDE DEF t
<1> QED BY <1>1, <1>2, <1>3, <1>5, <1>6, <1>7, <1>8, <1>9, <1>10, <1>11, ListenersKept DEF EndInv

LEMMA OtherTunnelEnds ==
    ASSUME EndInv, TunnelInv, UNCHANGED had,
           \/ \E s \in Starts : TunnelRefused(s) \/ TunnelUndone(s) \/ ServerFailed(s)
           \/ \E x \in Stops : StopTunnel(x) \/ TunnelStopped(x)
           \/ \E t \in Tunnels : ServerFailureShown(t)
           \/ \E k \in Conns : Connection(k)
    PROVE  Onward({}) /\ ListenersEnd'
<1>0. PcTyped /\ ListenersEnd
    BY DEF TunnelInv, EndInv
<1>1. ASSUME Onward({}), UNCHANGED <<link, sweep>>
      PROVE  /\ Marked' \subseteq Marked /\ LinksFall
             /\ \A k \in Sweepers : pc'[k] = "tunnels" => pc[k] = "tunnels"
             /\ \A k \in Sweepers : Ahead(k)' = Ahead(k)
    <2>1. Marked' \subseteq Marked
        BY <1>1, MarkedStays
    <2>2. \A k \in Sweepers : pc'[k] = "tunnels" => pc[k] = "tunnels"
        BY <1>1 DEF Onward, SweepPlaces
    <2> QED BY <1>1, <2>1, <2>2 DEF LinksFall, Ahead
<1>2. ASSUME NEW s \in Starts, TunnelRefused(s)
      PROVE  Onward({}) /\ ListenersEnd'
    <2>1. /\ pc[s] = "binding" /\ Cleanup(TunnelOf[s]) /\ Go(s, "undoing")
          /\ UNCHANGED <<link, over, sweep>> /\ TunnelOf[s] \in Tunnels
        BY <1>2, StartsAndStops DEF TunnelRefused
    <2>2. Onward({}) /\ pc'[s] = "undoing" /\ \A d \in Starts : d # s => pc'[d] = pc[d]
        BY <1>0, <2>1, StartGoes
    <2>3. \A d \in Starts : pc'[d] \in {"binding", "ok"} => pc[d] \in {"binding", "ok"}
        BY <2>1, <2>2
    <2> QED BY <1>0, <1>1, <2>1, <2>2, <2>3, CleanupListeners
<1>3. ASSUME NEW s \in Starts, TunnelUndone(s)
      PROVE  Onward({}) /\ ListenersEnd'
    <2>1. pc[s] = "undoing" /\ Go(s, "failed") /\ UNCHANGED <<link, active, bound, over, sweep>>
        BY <1>3 DEF TunnelUndone
    <2>2. Onward({}) /\ pc'[s] = "failed" /\ \A d \in Starts : d # s => pc'[d] = pc[d]
        BY <1>0, <2>1, StartGoes
    <2>3. \A d \in Starts : pc'[d] \in {"binding", "ok"} => pc[d] \in {"binding", "ok"}
        BY <2>1, <2>2
    <2>4. over' = [d \in Starts |-> over'[d]]
        BY <1>0, <2>1 DEF ListenersEnd
    <2> QED BY <1>0, <1>1, <2>1, <2>2, <2>3, <2>4, ListenersKept
<1>4. ASSUME NEW s \in Starts, ServerFailed(s)
      PROVE  Onward({}) /\ ListenersEnd'
    <2>1. /\ Cleanup(TunnelOf[s]) /\ UNCHANGED <<pc, link, over, sweep>> /\ TunnelOf[s] \in Tunnels
        BY <1>4, StartsAndStops DEF ServerFailed, clientVars
    <2>2. Onward({})
        BY <1>0, <2>1, OnwardStays
    <2> QED BY <1>0, <1>1, <2>1, <2>2, CleanupListeners
<1>5. ASSUME NEW x \in Stops, StopTunnel(x)
      PROVE  Onward({}) /\ ListenersEnd'
    <2>1. /\ Cleanup(TunnelOf[x]) /\ Go(x, "stopping")
          /\ UNCHANGED <<link, over, sweep>> /\ TunnelOf[x] \in Tunnels
        BY <1>5, StartsAndStops DEF StopTunnel
    <2>2. Onward({}) /\ StartsStay
        BY <1>0, <2>1, StartsApart, PlainGoes, PlainStarts
    <2> QED BY <1>0, <1>1, <2>1, <2>2, CleanupListeners DEF StartsStay
<1>6. ASSUME NEW x \in Stops, TunnelStopped(x)
      PROVE  Onward({}) /\ ListenersEnd'
    <2>1. Go(x, "ok") /\ UNCHANGED <<link, active, bound, over, sweep>>
        BY <1>6 DEF TunnelStopped
    <2>2. Onward({}) /\ StartsStay
        BY <1>0, <2>1, StartsApart, PlainGoes, PlainStarts
    <2> QED BY <1>0, <1>1, <2>1, <2>2, ListenersRest
<1>7. ASSUME \/ \E t \in Tunnels : ServerFailureShown(t)
             \/ \E k \in Conns : Connection(k)
      PROVE  Onward({}) /\ ListenersEnd'
    <2>1. UNCHANGED <<pc, link, active, bound, over, sweep>>
        BY <1>7 DEF ServerFailureShown, Connection, clientVars
    <2>2. Onward({}) /\ StartsStay
        BY <1>0, <2>1, OnwardStays DEF StartsStay
    <2> QED BY <1>0, <1>1, <2>1, <2>2, ListenersRest
<1> QED BY <1>2, <1>3, <1>4, <1>5, <1>6, <1>7

LEMMA TunnelsEnds ==
    ASSUME EndInv, TunnelInv, TunnelsNext, UNCHANGED <<terminalVars, serverVars, ownVars>>
    PROVE  EndInv'
<1>1. UNCHANGED <<terms, streams, picture, servers, process, quitting, waits, had>>
    BY DEF terminalVars, serverVars, ownVars
<1>2. Onward({}) /\ ListenersEnd'
    BY <1>1, StartTunnelEnds, TunnelBoundEnds, OtherTunnelEnds DEF TunnelsNext
<1>3. UNCHANGED <<closing, client, jump, link>>
    BY DEF TunnelsNext, StartTunnel, TunnelBound, TunnelRefused, TunnelUndone, StopTunnel, TunnelStopped,
           ServerFailed, ServerFailureShown, Connection, clientVars
<1>4. Marked' \subseteq Marked /\ LinksClose
    BY <1>1, <1>2, <1>3, MarkedStays, LinksSame
<1>5. ClientsEnd' /\ FilmsEnd' /\ ServersEnd'
    BY <1>1, <1>2, <1>3, <1>4, ClientsRest, FilmsRest, ServersRest DEF EndInv
<1>6. HadTyped'
    BY <1>1 DEF EndInv, HadTyped
<1> QED BY <1>2, <1>5, <1>6 DEF EndInv

-----------------------------------------------------------------------------
(* Terminals, video streams, language servers, idle transfers.              *)

LEMMA OpensApart ==
    /\ \A t \in Opens : /\ t \in Calls /\ t \in Clients /\ t # None
                        /\ t \notin Connects \cup Serves \cup Sweepers \cup Starts \cup Films
                        /\ \A c \in Hopping : t # Jump(c)
    /\ \A v \in Films : v \in Calls /\ v \notin Connects \cup Opens \cup Serves \cup Sweepers \cup Starts
    /\ \A s \in Serves : s \in Calls /\ s \notin Connects \cup Opens \cup Films \cup Sweepers \cup Starts
<1>1. \A t \in Opens : t \in Calls /\ t \in Clients
    BY KindsApart DEF Clients
<1>2. \A c \in Hopping : Jump(c) \notin Calls
    BY SessionAssumption DEF Jump
<1>3. None \notin Clients
    BY SessionAssumption
<1>4. Connects \subseteq Sweepers
    BY DEF Sweepers
<1> QED BY <1>1, <1>2, <1>3, <1>4, KindsApart

\* A step that leaves the tunnels, and the calls that start them, as they are.
LEMMA ListenersAside ==
    ASSUME ListenersEnd, TunnelInv, Onward({}), UNCHANGED had, LinksAside, StartsStay, UNCHANGED tunnelVars
    PROVE  ListenersEnd'
<1>1. UNCHANGED <<active, bound, sweep, over>>
    BY DEF tunnelVars
<1>2. Marked' \subseteq Marked
    BY MarkedStays
<1>3. LinksFall
    BY DEF LinksAside, LinksFall
<1>4. \A k \in Sweepers : pc'[k] = "tunnels" => pc[k] = "tunnels"
    BY DEF Onward, SweepPlaces
<1> QED BY <1>1, <1>2, <1>3, <1>4, ListenersRest

\* An action of a terminal.
LEMMA TerminalEnds ==
    ASSUME EndInv, TunnelInv, UNCHANGED <<had, closing, client, jump>>,
           Onward({}), LinksClose, NEW t \in Opens,
           \/ terms' = terms
           \/ terms' = terms \cup {t} /\ pc'[t] = "ok"
           \/ terms' = terms \ {t} /\ (t \in terms => link'[t] \in Closed)
    PROVE  ClientsEnd'
<1>1. Marked' \subseteq Marked
    BY MarkedStays
<1>2. ClientsTyped'
    BY DEF EndInv, ClientsEnd, ClientsTyped
<1>3. terms' = terms \cup {t} => Past(t)' \/ terms' = terms
    BY OpensApart DEF Past, Jump
<1>4. \A i \in HeldNow : i \in HeldNow' \/ link'[i] \in Closed
    BY DEF HeldNow
<1>5. \A i \in HeldNow' : i \in HeldNow \/ Past(i)'
    BY <1>3 DEF HeldNow
<1>6. \A c \in Connects : pc'[c] = "hopping" => jump' = None
    BY DEF EndInv, ClientsEnd, Onward, Sweepers
<1> QED BY <1>1, <1>2, <1>4, <1>5, <1>6, ClientsKept DEF EndInv

LEMMA OpenGoes ==
    ASSUME PcTyped, NEW t \in Opens, NEW where, Go(t, where), pc[t] # "ok"
    PROVE  Onward({}) /\ pc'[t] = where /\ StartsStay
BY OpensApart, OnwardGoes, PlainStarts

LEMMA OpeningEnds ==
    ASSUME EndInv, TunnelInv, UNCHANGED had, NEW t \in Opens,
           \/ OpenTerminal(t) \/ TerminalProbed(t) \/ TerminalDialed(t)
           \/ TerminalFails(t) \/ TerminalReady(t)
    PROVE  Onward({}) /\ StartsStay /\ ClientsEnd' /\ UNCHANGED <<closing, streams, picture>>
<1>0. PcTyped /\ LinkTyped
    BY DEF TunnelInv
<1>1. UNCHANGED <<closing, client, jump, streams, picture>>
    BY DEF OpenTerminal, TerminalProbed, TerminalDialed, TerminalFails, TerminalReady, terminalVars, filmVars
<1>2. pc[t] # "ok" /\ ~Past(t)
    BY OpensApart DEF OpenTerminal, TerminalProbed, TerminalDialed, TerminalFails, TerminalReady, Called, Past
<1>3. \E where : Go(t, where) /\ (terms' = terms \/ (terms' = terms \cup {t} /\ where = "ok"))
    BY DEF OpenTerminal, TerminalProbed, TerminalDialed, TerminalFails, TerminalReady, Register, terminalVars
<1>4. LinksClose
    <2>1. UNCHANGED link \/ EndClients({t}) \/ \E v : link' = [link EXCEPT ![t] = v]
        BY DEF OpenTerminal, TerminalProbed, TerminalDialed, TerminalFails, TerminalReady, Register, Dial
    <2> QED BY <1>0, <1>2, <2>1, LinksSame, EndedAreClosed, OneLinkCloses
<1>5. PICK where : Go(t, where) /\ (terms' = terms \/ (terms' = terms \cup {t} /\ where = "ok"))
    BY <1>3
<1>6. Onward({}) /\ pc'[t] = where /\ StartsStay
    BY <1>0, <1>2, <1>5, OpenGoes
<1>7. ClientsEnd'
    BY <1>1, <1>4, <1>5, <1>6, TerminalEnds
<1> QED BY <1>1, <1>6, <1>7

LEMMA ClosingEnds ==
    ASSUME EndInv, TunnelInv, UNCHANGED had,
           \/ \E t \in Opens : \/ TerminalOutput(t) \/ FlushTimer(t)
                               \/ ChannelClosed(t) \/ TerminalClientLost(t)
           \/ \E x \in Hangups : CloseTerminal(x)
    PROVE  Onward({}) /\ StartsStay /\ ClientsEnd' /\ UNCHANGED <<closing, streams, picture>>
<1>0. PcTyped /\ LinkTyped
    BY DEF TunnelInv
<1>1. UNCHANGED <<closing, client, jump, streams, picture>>
    BY DEF TerminalOutput, FlushTimer, ChannelClosed, TerminalClientLost, CloseTerminal, clientVars, filmVars
<1>2. ASSUME NEW t \in Opens, TerminalOutput(t) \/ FlushTimer(t)
      PROVE  Onward({}) /\ StartsStay /\ ClientsEnd'
    <2>1. UNCHANGED <<pc, link, terms>>
        BY <1>2 DEF TerminalOutput, FlushTimer, clientVars
    <2>2. Onward({}) /\ StartsStay /\ LinksClose
        BY <1>0, <2>1, OnwardStays, LinksSame DEF StartsStay
    <2> QED BY <1>1, <2>1, <2>2, TerminalEnds
<1>3. ASSUME NEW t \in Opens, ChannelClosed(t)
      PROVE  Onward({}) /\ StartsStay /\ ClientsEnd'
    <2>1. UNCHANGED pc /\ (UNCHANGED <<terms, link>> \/ (terms' = terms \ {t} /\ EndClients({t})))
        BY <1>3 DEF ChannelClosed
    <2>2. Onward({}) /\ StartsStay
        BY <1>0, <2>1, OnwardStays DEF StartsStay
    <2>3. LinksClose /\ (EndClients({t}) => link'[t] \in Closed)
        BY <2>1, LinksSame, EndedAreClosed, OpensApart
    <2> QED BY <1>1, <2>1, <2>2, <2>3, TerminalEnds
<1>4. ASSUME NEW t \in Opens, TerminalClientLost(t)
      PROVE  Onward({}) /\ StartsStay /\ ClientsEnd'
    <2>1. UNCHANGED pc /\ link' = [link EXCEPT ![t] = "down"] /\ (terms' = terms \/ terms' = terms \ {t})
        BY <1>4 DEF TerminalClientLost
    <2>2. Onward({}) /\ StartsStay
        BY <1>0, <2>1, OnwardStays DEF StartsStay
    <2>3. LinksClose
        BY <1>0, <2>1, OneLinkCloses DEF Closed
    <2>4. link'[t] \in Closed
        BY <1>0, <2>1, OpensApart DEF LinkTyped, Closed
    <2> QED BY <1>1, <2>1, <2>2, <2>3, <2>4, TerminalEnds
<1>5. ASSUME NEW x \in Hangups, CloseTerminal(x)
      PROVE  Onward({}) /\ StartsStay /\ ClientsEnd'
    <2>1. PICK t \in Opens : t = TerminalOf[x]
        BY TerminalAssumption
    <2>2. /\ Go(x, "ok") /\ terms' = terms \ {t}
          /\ IF t \in terms THEN EndClients({t}) ELSE UNCHANGED link
        BY <1>5, <2>1 DEF CloseTerminal
    <2>3. x \in Plain
        BY DEF Plain
    <2>4. Onward({}) /\ StartsStay
        BY <1>0, <2>2, <2>3, PlainGoes, StartsApart, PlainStarts
    <2>5. LinksClose /\ (t \in terms => link'[t] \in Closed)
        BY <2>2, LinksSame, EndedAreClosed, OpensApart
    <2> QED BY <1>1, <2>2, <2>4, <2>5, TerminalEnds
<1> QED BY <1>1, <1>2, <1>3, <1>4, <1>5

LEMMA DisplayEnds ==
    ASSUME EndInv, TunnelInv, UNCHANGED had,
           \/ \E x \in Visions : EnableVisionMode(x) \/ VirtualDisplay(x) \/ TellTerminal(x)
           \/ DisableVisionMode
    PROVE  Onward({}) /\ StartsStay /\ ClientsEnd' /\ UNCHANGED <<closing, streams, picture>>
<1>0. PcTyped
    BY DEF TunnelInv
<1>1. UNCHANGED <<closing, client, jump, link, terms, streams, picture>>
    BY DEF EnableVisionMode, VirtualDisplay, TellTerminal, DisableVisionMode, clientVars, terminalVars, shellVars, filmVars
<1>2. ASSUME NEW x \in Visions, EnableVisionMode(x) \/ VirtualDisplay(x) \/ TellTerminal(x)
      PROVE  Onward({}) /\ StartsStay
    <2>1. UNCHANGED pc \/ \E where : Go(x, where)
        BY <1>2 DEF EnableVisionMode, VirtualDisplay, TellTerminal
    <2>2. x \in Plain
        BY DEF Plain
    <2>3. CASE UNCHANGED pc
        BY <1>0, <2>3, OnwardStays DEF StartsStay
    <2>4. CASE \E where : Go(x, where)
        BY <1>0, <2>2, <2>4, PlainGoes, StartsApart, PlainStarts
    <2> QED BY <2>1, <2>3, <2>4
<1>3. ASSUME DisableVisionMode
      PROVE  Onward({}) /\ StartsStay
    <2>1. UNCHANGED pc
        BY <1>3 DEF DisableVisionMode, clientVars
    <2> QED BY <1>0, <2>1, OnwardStays DEF StartsStay
<1>4. Onward({}) /\ StartsStay
    BY <1>2, <1>3
<1>5. Marked' \subseteq Marked /\ LinksClose
    BY <1>1, <1>4, MarkedStays, LinksSame
<1> QED BY <1>1, <1>4, <1>5, ClientsRest DEF EndInv

LEMMA FilmsKept ==
    ASSUME FilmsEnd, NEW S, Onward(S), Marked' \subseteq Marked,
           streams' \subseteq Films, picture' = [v \in Films |-> picture'[v]],
           \A v \in streams' : v \in streams \/ pc'[v] = "ok",
           \A v \in Films : pc[v] = "ok" /\ picture[v] # "open" => picture'[v] # "open",
           \A v \in streams : closing => (closing' /\ v \in streams') \/ picture'[v] # "open"
    PROVE  FilmsEnd'
<1>1. \A v \in streams' : pc'[v] = "ok"
    BY DEF FilmsEnd, Onward
<1>2. ASSUME NEW v \in Marked', v \in Films
      PROVE  pc'[v] = "ok" /\ (picture'[v] # "open" \/ (closing' /\ v \in streams'))
    <2>1. pc[v] = "ok" /\ (picture[v] # "open" \/ (closing /\ v \in streams))
        BY <1>2 DEF FilmsEnd
    <2>2. pc'[v] = "ok"
        BY <1>2, <2>1 DEF Onward
    <2> QED BY <1>2, <2>1, <2>2
<1> QED BY <1>1, <1>2 DEF FilmsEnd

LEMMA StreamsDrop ==
    ASSUME FilmsEnd, NEW S, DropStreams(S)
    PROVE  /\ streams' \subseteq streams /\ streams' \subseteq Films /\ picture' = [v \in Films |-> picture'[v]]
           /\ \A v \in Films : picture[v] # "open" => picture'[v] # "open"
           /\ \A v \in streams : v \in streams' \/ picture'[v] # "open"
BY DEF DropStreams, FilmsEnd

LEMMA FilmEnds ==
    ASSUME EndInv, TunnelInv, UNCHANGED had,
           \/ \E v \in Films : \/ StartVideoStream(v) \/ ResolveFfmpegBinary(v) \/ VideoStarts(v)
                               \/ VideoEnds(v) \/ ObserverClosed(v)
           \/ \E x \in Cuts : StopVideoStream(x)
    PROVE  Onward({}) /\ StartsStay /\ ClientsEnd' /\ FilmsEnd'
<1>0. PcTyped /\ FilmsEnd
    BY DEF TunnelInv, EndInv
<1>1. UNCHANGED <<closing, client, jump, link, terms>>
    BY DEF StartVideoStream, ResolveFfmpegBinary, VideoStarts, VideoEnds, ObserverClosed, StopVideoStream,
           clientVars, shellVars, terminalVars
<1>2. ASSUME NEW v \in Films, NEW where, Go(v, where), pc[v] # "ok"
      PROVE  Onward({}) /\ pc'[v] = where /\ StartsStay /\ Marked' \subseteq Marked
    BY <1>0, <1>2, OpensApart, OnwardGoes, PlainStarts, MarkedStays
<1>3. ASSUME UNCHANGED pc
      PROVE  Onward({}) /\ StartsStay /\ Marked' \subseteq Marked
    <2>1. Onward({})
        BY <1>0, <1>3, OnwardStays
    <2> QED BY <1>3, <2>1, MarkedStays DEF StartsStay
<1>4. ASSUME NEW v \in Films, StartVideoStream(v) \/ ResolveFfmpegBinary(v)
      PROVE  Onward({}) /\ StartsStay /\ FilmsEnd'
    <2>1. UNCHANGED <<streams, picture>> /\ pc[v] \in {"new", "encoder"} /\ \E where : Go(v, where)
        BY <1>4 DEF StartVideoStream, ResolveFfmpegBinary, Called, terminalVars
    <2>2. Onward({}) /\ StartsStay /\ Marked' \subseteq Marked
        BY <1>2, <2>1
    <2> QED BY <1>0, <1>1, <2>1, <2>2, FilmsRest
<1>5. ASSUME NEW v \in Films, VideoStarts(v)
      PROVE  Onward({}) /\ StartsStay /\ FilmsEnd'
    <2>1. /\ pc[v] = "exec"
          /\ \/ Go(v, "ok") /\ streams' = streams \cup {v} /\ picture' = [picture EXCEPT ![v] = "open"]
             \/ Go(v, "failed") /\ UNCHANGED <<streams, picture>>
        BY <1>5 DEF VideoStarts
    <2>2. CASE Go(v, "failed") /\ UNCHANGED <<streams, picture>>
        <3>1. Onward({}) /\ StartsStay /\ Marked' \subseteq Marked
            BY <1>2, <2>1, <2>2
        <3> QED BY <1>0, <1>1, <2>2, <3>1, FilmsRest
    <2>3. CASE Go(v, "ok") /\ streams' = streams \cup {v} /\ picture' = [picture EXCEPT ![v] = "open"]
        <3>1. Onward({}) /\ pc'[v] = "ok" /\ StartsStay /\ Marked' \subseteq Marked
            BY <1>2, <2>1, <2>3
        <3>2. picture' = [w \in Films |-> picture'[w]] /\ \A w \in Films : w # v => picture'[w] = picture[w]
            BY <1>0, <2>3 DEF FilmsEnd
        <3>3. streams' \subseteq Films
            BY <1>0, <2>3 DEF FilmsEnd
        <3> QED BY <1>0, <1>1, <2>1, <2>3, <3>1, <3>2, <3>3, FilmsKept
    <2> QED BY <2>1, <2>2, <2>3
<1>6. ASSUME NEW v \in Films, VideoEnds(v)
      PROVE  Onward({}) /\ StartsStay /\ FilmsEnd'
    <2>1. UNCHANGED pc /\ streams' = streams \ {v} /\ picture' = [picture EXCEPT ![v] = "closed"]
        BY <1>6 DEF VideoEnds, clientVars
    <2>2. Onward({}) /\ StartsStay /\ Marked' \subseteq Marked
        BY <1>3, <2>1
    <2>3. /\ picture' = [w \in Films |-> picture'[w]] /\ picture'[v] = "closed"
          /\ \A w \in Films : w # v => picture'[w] = picture[w]
        BY <1>0, <2>1 DEF FilmsEnd
    <2>4. streams' \subseteq Films
        BY <1>0, <2>1 DEF FilmsEnd
    <2> QED BY <1>0, <1>1, <2>1, <2>2, <2>3, <2>4, FilmsKept
<1>7. ASSUME Onward({}), StartsStay, Marked' \subseteq Marked,
             UNCHANGED <<streams, picture>> \/ \E S : DropStreams(S)
      PROVE  FilmsEnd'
    <2>1. CASE UNCHANGED <<streams, picture>>
        BY <1>0, <1>1, <1>7, <2>1, FilmsRest
    <2>2. ASSUME NEW S, DropStreams(S)
          PROVE  FilmsEnd'
        BY <1>0, <1>1, <1>7, <2>2, StreamsDrop, FilmsKept
    <2> QED BY <1>7, <2>1, <2>2
<1>8. ASSUME NEW v \in Films, ObserverClosed(v)
      PROVE  Onward({}) /\ StartsStay /\ FilmsEnd'
    <2>1. UNCHANGED pc /\ (UNCHANGED <<streams, picture>> \/ \E S : DropStreams(S))
        BY <1>8 DEF ObserverClosed, clientVars
    <2> QED BY <1>3, <1>7, <2>1
<1>9. ASSUME NEW x \in Cuts, StopVideoStream(x)
      PROVE  Onward({}) /\ StartsStay /\ FilmsEnd'
    <2>1. Go(x, "ok") /\ (UNCHANGED <<streams, picture>> \/ \E S : DropStreams(S))
        BY <1>9 DEF StopVideoStream
    <2>2. x \in Plain
        BY DEF Plain
    <2>3. Onward({}) /\ StartsStay
        BY <1>0, <2>1, <2>2, PlainGoes, StartsApart, PlainStarts
    <2>4. Marked' \subseteq Marked
        BY <2>3, MarkedStays
    <2> QED BY <1>7, <2>1, <2>3, <2>4
<1>10. Onward({}) /\ StartsStay /\ FilmsEnd'
    BY <1>4, <1>5, <1>6, <1>8, <1>9
<1>11. Marked' \subseteq Marked /\ LinksClose
    BY <1>1, <1>10, MarkedStays, LinksSame
<1> QED BY <1>1, <1>10, <1>11, ClientsRest DEF EndInv

LEMMA TerminalsEnds ==
    ASSUME EndInv, TunnelInv, TerminalsNext, UNCHANGED <<tunnelVars, serverVars, ownVars>>
    PROVE  EndInv'
<1>1. UNCHANGED <<servers, process, quitting, waits, had>>
    BY DEF serverVars, ownVars
<1>2. /\ Onward({}) /\ StartsStay /\ ClientsEnd'
      /\ UNCHANGED <<closing, streams, picture>> \/ FilmsEnd'
    BY <1>1, OpeningEnds, ClosingEnds, DisplayEnds, FilmEnds DEF TerminalsNext
<1>3. Marked' \subseteq Marked
    BY <1>1, <1>2, MarkedStays
<1>4. FilmsEnd' /\ ServersEnd'
    BY <1>1, <1>2, <1>3, FilmsRest, ServersRest DEF EndInv
<1>5. LinksAside
    BY TerminalsAside DEF TunnelInv, Aside
<1>6. ListenersEnd'
    BY <1>1, <1>2, <1>5, ListenersAside DEF EndInv
<1> QED BY <1>1, <1>2, <1>4, <1>6 DEF EndInv, HadTyped

LEMMA ServersKept ==
    ASSUME ServersEnd, NEW S, Onward(S), \A k \in S : pc'[k] \notin SweepPlaces,
           UNCHANGED <<waits, had>>,
           servers' \subseteq Serves,
           process' = [s \in Serves |-> process'[s]], quitting' = [s \in Serves |-> quitting'[s]],
           \A s \in servers' : s \in servers \/ (pc[s] \notin Spawned /\ pc'[s] \in Spawned),
           \A s \in Serves : process'[s] = "open" => s \in servers' \/ quitting'[s] # "no",
           \A s \in Serves : pc[s] \in Spawned /\ process'[s] = "open" => process[s] = "open",
           \A s \in Serves : quitting[s] # "no" => quitting'[s] # "no" \/ process'[s] # "open"
    PROVE  ServersEnd'
<1>1. \A k \in Sweepers : pc'[k] \in SweepPlaces => pc'[k] = pc[k]
    BY DEF Onward
<1>2. \A s \in Serves : pc[s] \in Spawned => pc'[s] \in Spawned
    BY DEF Onward
<1>3. \A s \in servers' : pc'[s] \in Spawned
    BY <1>2 DEF ServersEnd
<1>4. ASSUME NEW k \in Sweepers, Sweeping(k)', NEW s \in had[k], s \in Serves
      PROVE  /\ pc'[s] \in Spawned
             /\ pc'[k] # "idle" => s \notin servers'
             /\ pc'[k] = "tunnels" => process'[s] # "open" \/ (quitting'[s] # "no" /\ s \notin waits[k])
    <2>1. Sweeping(k) /\ pc'[k] = pc[k]
        BY <1>1, <1>4 DEF Sweeping
    <2>2. /\ pc[s] \in Spawned /\ (pc[k] # "idle" => s \notin servers)
          /\ pc[k] = "tunnels" => process[s] # "open" \/ (quitting[s] # "no" /\ s \notin waits[k])
        BY <1>4, <2>1 DEF ServersEnd
    <2> QED BY <1>2, <1>4, <2>1, <2>2
<1>5. waits' = [k \in Sweepers |-> waits'[k]]
    BY DEF ServersEnd
<1>6. \A k \in Sweepers : Sweeping(k)' => \A s \in had'[k] \cap Serves :
          /\ pc'[s] \in Spawned
          /\ pc'[k] # "idle" => s \notin servers'
          /\ pc'[k] = "tunnels" => process'[s] # "open" \/ (quitting'[s] # "no" /\ s \notin waits'[k])
    BY <1>4
<1> QED BY <1>3, <1>5, <1>6 DEF ServersEnd

\* stopSession.
LEMMA QuitStops ==
    ASSUME ServersEnd, NEW S, NEW how, how # "no", Quit(S, how)
    PROVE  /\ servers' \subseteq servers /\ servers' \subseteq Serves
           /\ quitting' = [s \in Serves |-> quitting'[s]]
           /\ \A s \in Serves : quitting[s] # "no" => quitting'[s] # "no"
           /\ \A s \in servers : s \in servers' \/ quitting'[s] # "no"
BY DEF Quit, ServersEnd

LEMMA ServerEnds ==
    ASSUME EndInv, TunnelInv, ServersNext, UNCHANGED had, UNCHANGED waits
    PROVE  Onward({}) /\ StartsStay /\ ServersEnd'
<1>0. PcTyped /\ ServersEnd
    BY DEF TunnelInv, EndInv
<1>1. ASSUME NEW s \in Serves, NEW where, Go(s, where), pc[s] \notin Spawned \/ where \in Spawned
      PROVE  Onward({}) /\ pc'[s] = where /\ StartsStay
    BY <1>0, <1>1, OpensApart, OnwardGoes, PlainStarts
<1>2. ASSUME UNCHANGED pc
      PROVE  Onward({}) /\ StartsStay
    BY <1>0, <1>2, OnwardStays DEF StartsStay
<1>3. ASSUME NEW x \in Halts, NEW where, Go(x, where)
      PROVE  Onward({}) /\ StartsStay
    <2>1. x \in Plain
        BY DEF Plain
    <2> QED BY <1>0, <1>3, <2>1, PlainGoes, StartsApart, PlainStarts
<1>4. ASSUME Onward({}), UNCHANGED <<servers, process, quitting>>
      PROVE  ServersEnd'
    BY <1>0, <1>4, ServersRest
<1>5. ASSUME Onward({}), UNCHANGED process, NEW S, NEW how, how # "no", Quit(S, how)
      PROVE  ServersEnd'
    <2>1. /\ servers' \subseteq servers /\ servers' \subseteq Serves
          /\ quitting' = [s \in Serves |-> quitting'[s]]
          /\ \A s \in Serves : quitting[s] # "no" => quitting'[s] # "no"
          /\ \A s \in servers : s \in servers' \/ quitting'[s] # "no"
        BY <1>0, <1>5, QuitStops
    <2>2. /\ process' = [s \in Serves |-> process'[s]]
          /\ \A s \in Serves : process'[s] = "open" => s \in servers' \/ quitting'[s] # "no"
        BY <1>0, <1>5, <2>1 DEF ServersEnd
    <2> QED BY <1>0, <1>5, <2>1, <2>2, ServersKept
<1>6. ASSUME NEW s \in Serves, StartLanguageServer(s)
      PROVE  Onward({}) /\ StartsStay /\ ServersEnd'
    <2>1. pc[s] = "new" /\ (\E where : Go(s, where)) /\ UNCHANGED <<servers, process, quitting>>
        BY <1>6 DEF StartLanguageServer, Called
    <2>2. pc[s] \notin Spawned
        BY <2>1 DEF Spawned
    <2> QED BY <1>1, <1>4, <2>1, <2>2
<1>7. ASSUME NEW s \in Serves, ServerSpawned(s)
      PROVE  Onward({}) /\ StartsStay /\ ServersEnd'
    <2>1. /\ pc[s] = "exec" /\ UNCHANGED quitting
          /\ \/ /\ servers' = servers \cup {s} /\ process' = [process EXCEPT ![s] = "open"]
                /\ Go(s, "initialize")
             \/ Go(s, "failed") /\ UNCHANGED <<servers, process>>
        BY <1>7 DEF ServerSpawned
    <2>2. pc[s] \notin Spawned
        BY <2>1 DEF Spawned
    <2>3. CASE Go(s, "failed") /\ UNCHANGED <<servers, process>>
        BY <1>1, <1>4, <2>1, <2>2, <2>3
    <2>4. CASE servers' = servers \cup {s} /\ process' = [process EXCEPT ![s] = "open"] /\ Go(s, "initialize")
        <3>1. Onward({}) /\ pc'[s] = "initialize" /\ StartsStay
            BY <1>1, <2>2, <2>4
        <3>2. process' = [r \in Serves |-> process'[r]] /\ \A r \in Serves : r # s => process'[r] = process[r]
            BY <1>0, <2>4 DEF ServersEnd
        <3>3. servers' \subseteq Serves
            BY <1>0, <2>4 DEF ServersEnd
        <3>4. \A r \in servers' : r \in servers \/ (pc[r] \notin Spawned /\ pc'[r] \in Spawned)
            BY <2>2, <2>4, <3>1 DEF Spawned
        <3>5. \A r \in Serves : process'[r] = "open" => r \in servers' \/ quitting'[r] # "no"
            BY <1>0, <2>1, <2>4, <3>2 DEF ServersEnd
        <3>6. quitting' = [r \in Serves |-> quitting'[r]]
            BY <1>0, <2>1 DEF ServersEnd
        <3>7. \A r \in Serves : pc[r] \in Spawned /\ process'[r] = "open" => process[r] = "open"
            BY <2>2, <3>2
        <3> QED BY <1>0, <2>1, <3>1, <3>2, <3>3, <3>4, <3>5, <3>6, <3>7, ServersKept
    <2> QED BY <2>1, <2>3, <2>4
<1>8. ASSUME NEW s \in Serves, Initialized(s) \/ StartGivenUp(s)
      PROVE  Onward({}) /\ StartsStay /\ ServersEnd'
    <2>1. (Go(s, "ok") \/ Go(s, "failed")) /\ UNCHANGED <<servers, process, quitting>>
        BY <1>8 DEF Initialized, StartGivenUp
    <2>2. PICK where \in {"ok", "failed"} : Go(s, where)
        BY <2>1
    <2>3. where \in Spawned
        BY DEF Spawned
    <2> QED BY <1>1, <1>4, <2>1, <2>2, <2>3
<1>9. ASSUME NEW s \in Serves, InitializeFails(s)
      PROVE  Onward({}) /\ StartsStay /\ ServersEnd'
    <2>1. /\ UNCHANGED process
          /\ \/ Quit({s}, "silent") /\ Go(s, "quitting")
             \/ Go(s, "failed") /\ UNCHANGED <<servers, quitting>>
        BY <1>9 DEF InitializeFails
    <2>2. "quitting" \in Spawned /\ "failed" \in Spawned
        BY DEF Spawned
    <2> QED BY <1>1, <1>4, <1>5, <2>1, <2>2
<1>10. ASSUME NEW s \in Serves, QuitDone(s) \/ ServerLost(s)
       PROVE  Onward({}) /\ StartsStay /\ ServersEnd'
    <2>1. /\ UNCHANGED pc /\ process' = [process EXCEPT ![s] = "closed"]
          /\ \/ UNCHANGED servers /\ quitting' = [quitting EXCEPT ![s] = "no"]
             \/ servers' = servers \ {s} /\ UNCHANGED quitting
        BY <1>10 DEF QuitDone, ServerLost, clientVars
    <2>2. Onward({}) /\ StartsStay
        BY <1>2, <2>1
    <2>3. /\ process' = [r \in Serves |-> process'[r]] /\ process'[s] = "closed"
          /\ \A r \in Serves : r # s => process'[r] = process[r]
        BY <1>0, <2>1 DEF ServersEnd
    <2>4. /\ quitting' = [r \in Serves |-> quitting'[r]]
          /\ \A r \in Serves : r # s => quitting'[r] = quitting[r]
        BY <1>0, <2>1 DEF ServersEnd
    <2>5. servers' \subseteq Serves /\ servers' \subseteq servers /\ \A r \in servers : r # s => r \in servers'
        BY <1>0, <2>1 DEF ServersEnd
    <2>6. \A r \in Serves : process'[r] = "open" => r \in servers' \/ quitting'[r] # "no"
        BY <1>0, <2>3, <2>4, <2>5 DEF ServersEnd
    <2>7. \A r \in Serves : quitting[r] # "no" => quitting'[r] # "no" \/ process'[r] # "open"
        BY <2>3, <2>4
    <2> QED BY <1>0, <2>2, <2>3, <2>4, <2>5, <2>6, <2>7, ServersKept
<1>11. ASSUME NEW x \in Halts, StopLanguageServer(x) \/ ServerStopped(x)
       PROVE  Onward({}) /\ StartsStay /\ ServersEnd'
    <2>1. /\ UNCHANGED process /\ \E where : Go(x, where)
          /\ UNCHANGED <<servers, quitting>> \/ \E S : Quit(S, "told")
        BY <1>11 DEF StopLanguageServer, ServerStopped, serverVars
    <2>2. Onward({}) /\ StartsStay
        BY <1>3, <2>1
    <2> QED BY <1>4, <1>5, <2>1, <2>2
<1> QED BY <1>6, <1>7, <1>8, <1>9, <1>10, <1>11 DEF ServersNext

LEMMA ServersEnds ==
    ASSUME EndInv, TunnelInv, ServersNext, UNCHANGED <<tunnelVars, terminalVars, ownVars>>
    PROVE  EndInv'
<1>1. UNCHANGED <<terms, streams, picture, waits, had>>
    BY DEF terminalVars, ownVars
<1>2. UNCHANGED <<closing, client, jump, link>>
    BY DEF ServersNext, StartLanguageServer, ServerSpawned, Initialized, InitializeFails, StartGivenUp,
           QuitDone, ServerLost, StopLanguageServer, ServerStopped, clientVars
<1>3. Onward({}) /\ StartsStay /\ ServersEnd'
    BY <1>1, ServerEnds
<1>4. Marked' \subseteq Marked /\ LinksClose
    BY <1>1, <1>2, <1>3, MarkedStays, LinksSame
<1>5. ClientsEnd' /\ FilmsEnd'
    BY <1>1, <1>2, <1>3, <1>4, ClientsRest, FilmsRest DEF EndInv
<1>6. LinksAside
    BY ServersAside DEF TunnelInv, Aside
<1>7. ListenersEnd'
    BY <1>1, <1>3, <1>6, ListenersAside DEF EndInv
<1> QED BY <1>1, <1>3, <1>5, <1>7 DEF EndInv, HadTyped

\* Steps that change nothing of this but where a call of another kind is.
LEMMA NothingEnds ==
    ASSUME EndInv, TunnelInv, Onward({}), StartsStay, LinksClose, LinksAside,
           UNCHANGED <<closing, client, jump, terms, streams, picture, servers, process, quitting, waits, had>>,
           UNCHANGED tunnelVars
    PROVE  EndInv'
<1>1. Marked' \subseteq Marked
    BY MarkedStays
<1>2. ClientsEnd' /\ FilmsEnd' /\ ServersEnd' /\ ListenersEnd'
    BY <1>1, ClientsRest, FilmsRest, ServersRest, ListenersAside DEF EndInv
<1> QED BY <1>2 DEF EndInv, HadTyped

LEMMA IdleEnds ==
    ASSUME EndInv, TunnelInv, IdleNext, UNCHANGED <<tunnelVars, terminalVars, serverVars, waits, had>>
    PROVE  EndInv'
<1>0. PcTyped
    BY DEF TunnelInv
<1>1. UNCHANGED <<closing, client, jump, link>> /\ (UNCHANGED pc \/ \E x \in Scans \cup Grabs \cup Drops : \E where : Go(x, where))
    <2>1. CASE Transferred \/ TransferFails \/ PartRemoved
        BY <2>1 DEF Transferred, TransferFails, PartRemoved, clientVars
    <2>2. ASSUME NEW x \in Scans, StartAutomaticMediaCache(x)
          PROVE  UNCHANGED <<closing, client, jump, link>> /\ \E where : Go(x, where)
        BY <2>2 DEF StartAutomaticMediaCache
    <2>3. ASSUME NEW x \in Scans \cup Grabs, WalkReads(x) \/ WalkFails(x)
          PROVE  UNCHANGED <<closing, client, jump, link>> /\ \E where : Go(x, where)
        BY <2>3 DEF WalkReads, WalkFails
    <2>4. ASSUME NEW x \in Scans \cup Grabs, Listed(x)
          PROVE  UNCHANGED <<closing, client, jump, link>> /\ \E where : Go(x, where)
        <3>1. UNCHANGED <<closing, client, jump, link>>
            BY <2>4, Zenon DEF Listed
        <3>2. \E where : Go(x, where)
            BY <2>4, ZenonT(60) DEF Listed
        <3> QED BY <3>1, <3>2
    <2>5. ASSUME NEW x \in Grabs, QueueManualDownload(x) \/ GrabStats(x) \/ GrabStated(x)
          PROVE  UNCHANGED <<closing, client, jump, link>> /\ \E where : Go(x, where)
        BY <2>5 DEF QueueManualDownload, GrabStats, GrabStated
    <2>6. ASSUME NEW x \in Drops, CancelGroup(x)
          PROVE  UNCHANGED <<closing, client, jump, link>> /\ \E where : Go(x, where)
        BY <2>6 DEF CancelGroup
    <2> QED BY <2>1, <2>2, <2>3, <2>4, <2>5, <2>6 DEF IdleNext
<1>2. Onward({}) /\ StartsStay
    <2>1. CASE UNCHANGED pc
        BY <1>0, <2>1, OnwardStays DEF StartsStay
    <2>2. ASSUME NEW x \in Scans \cup Grabs \cup Drops, NEW where, Go(x, where)
          PROVE  Onward({}) /\ StartsStay
        <3>1. x \in Plain
            BY DEF Plain
        <3> QED BY <1>0, <2>2, <3>1, PlainGoes, StartsApart, PlainStarts
    <2> QED BY <1>1, <2>1, <2>2
<1>3. LinksClose /\ LinksAside
    BY <1>1, LinksSame, LinksStay DEF TunnelInv
<1>4. UNCHANGED <<terms, streams, picture, servers, process, quitting>>
    BY DEF terminalVars, serverVars
<1> QED BY <1>1, <1>2, <1>3, <1>4, NothingEnds

-----------------------------------------------------------------------------
(* A disconnect.                                                            *)

LEMMA CountablesApart ==
    /\ \A i \in Clients : i \notin Starts \cup Films \cup Serves
    /\ \A i \in Starts : i \notin Films \cup Serves /\ i \notin Clients
    /\ \A i \in Films : i \notin Starts \cup Serves /\ i \notin Clients
    /\ \A i \in Serves : i \notin Starts \cup Films /\ i \notin Clients
<1>1. \A c \in Hopping : Jump(c) \notin Calls
    BY SessionAssumption DEF Jump
<1>2. Connects \subseteq Sweepers /\ \A h \in Helpers : h \notin Starts \cup Films \cup Serves
    BY KindsApart DEF Sweepers, Plain
<1>3. \A i \in Clients : i \notin Starts \cup Films \cup Serves
    BY <1>1, <1>2, KindsApart DEF Clients
<1> QED BY <1>3, KindsApart

\* What a disconnect counts.
LEMMA HoldsWhat ==
    ASSUME EndInv, TunnelInv
    PROVE  /\ Holds \subseteq Countable
           /\ \A i \in Holds \cap Clients : i \in HeldNow
           /\ \A i \in Holds \cap Starts : ~Looping /\ active[TunnelOf[i]] = i /\ active[TunnelOf[i]] # None
           /\ \A i \in Holds \cap Films : i \in streams
           /\ \A i \in Holds \cap Serves : i \in servers
<1>1. HeldNow \subseteq Clients \ Helpers
    <2>1. \A h \in Helpers : h \notin Connects \cup Opens
        BY KindsApart DEF Plain, Sweepers
    <2>2. \A c \in Hopping : Jump(c) \notin Helpers
        BY SessionAssumption DEF Jump, Calls, Others
    <2> QED BY <2>1, <2>2 DEF EndInv, ClientsEnd, ClientsTyped, HeldNow, Clients
<1>2. streams \subseteq Films /\ servers \subseteq Serves
    BY DEF EndInv, FilmsEnd, ServersEnd
<1>3. \A i \in Holds : \/ i \in HeldNow \/ i \in streams \/ i \in servers
                       \/ i \in Starts /\ ~Looping /\ \E t \in Tunnels : active[t] = i
    BY DEF Holds, HeldNow
<1>4. ASSUME NEW i \in Starts, \E t \in Tunnels : active[t] = i
      PROVE  active[TunnelOf[i]] = i /\ active[TunnelOf[i]] # None
    <2>1. i # None
        BY StartsAndStops
    <2> QED BY <1>4, <2>1 DEF TunnelInv, Listeners
<1>5. Holds \subseteq Countable
    BY <1>1, <1>2, <1>3 DEF Countable
<1>6. \A i \in Holds \cap Clients : i \in HeldNow
    BY <1>2, <1>3, CountablesApart
<1>7. \A i \in Holds \cap Starts : ~Looping /\ active[TunnelOf[i]] = i /\ active[TunnelOf[i]] # None
    BY <1>1, <1>2, <1>3, <1>4, CountablesApart
<1>8. \A i \in Holds \cap Films : i \in streams
    BY <1>1, <1>2, <1>3, CountablesApart
<1>9. \A i \in Holds \cap Serves : i \in servers
    BY <1>1, <1>2, <1>3, CountablesApart
<1> QED BY <1>5, <1>6, <1>7, <1>8, <1>9

LEMMA SweepBeginsEnds == ASSUME EndInv, TunnelInv, NEW k \in Sweepers, SweepBegins(k) PROVE EndInv'
<1>1. /\ pc[k] = "new" /\ Go(k, "idle") /\ closing' = TRUE /\ had' = [had EXCEPT ![k] = Holds]
      /\ UNCHANGED <<client, jump, link, terms, streams, picture, servers, process, quitting, waits>>
      /\ UNCHANGED tunnelVars
    BY DEF SweepBegins, Called, shellVars, serverVars
<1>2. Onward({k}) /\ pc'[k] = "idle" /\ \A d \in Calls : d # k => pc'[d] = pc[d]
    BY <1>1, SweepGoes DEF TunnelInv
<1>3. HadTyped' /\ had'[k] = Holds /\ \A j \in Sweepers : j # k => had'[j] = had[j]
    BY <1>1, HoldsWhat DEF EndInv, HadTyped
<1>4. \A j \in Sweepers : j # k => pc'[j] = pc[j]
    BY <1>2, LoopNames
<1>5. ~Sweeping(k) /\ \A j \in Sweepers : j # k => (Sweeping(j)' <=> Sweeping(j))
    BY <1>1, <1>4 DEF Sweeping, SweepPlaces
<1>6. ASSUME NEW i \in Marked' PROVE i \in Marked \/ i \in Holds
    BY <1>3, <1>5 DEF Marked
<1>7. StartsStay
    BY <1>1, KindsApart, PlainStarts DEF TunnelInv
<1>8. ClientsEnd'
    <2>1. ClientsTyped' /\ HeldNow' = HeldNow
        BY <1>1 DEF EndInv, ClientsEnd, ClientsTyped, HeldNow
    <2>2. \A i \in HeldNow : Past(i)'
        BY <1>2, PastStays DEF EndInv, ClientsEnd
    <2>3. \A c \in Connects : pc'[c] = "hopping" => jump' = None
        BY <1>1, <1>2, <1>4 DEF EndInv, ClientsEnd, Sweepers
    <2>4. ASSUME NEW i \in Marked', i \in Clients
          PROVE  Past(i)' /\ (link'[i] \in Closed \/ (closing' /\ i \in HeldNow'))
        <3>1. CASE i \in Marked
            <4>1. Past(i) /\ (link[i] \in Closed \/ (closing /\ i \in HeldNow))
                BY <2>4, <3>1 DEF EndInv, ClientsEnd
            <4> QED BY <1>1, <1>2, <2>1, <4>1, PastStays
        <3>2. CASE i \in Holds
            BY <1>1, <2>1, <2>2, <2>4, <3>2, HoldsWhat
        <3> QED BY <1>6, <2>4, <3>1, <3>2
    <2> QED BY <2>1, <2>2, <2>3, <2>4 DEF ClientsEnd, Clients
<1>9. FilmsEnd'
    <2>1. \A v \in Films : pc[v] = "ok" => pc'[v] = "ok"
        BY <1>2 DEF Onward
    <2>2. ASSUME NEW v \in Marked', v \in Films
          PROVE  pc'[v] = "ok" /\ (picture'[v] # "open" \/ (closing' /\ v \in streams'))
        BY <1>1, <1>6, <2>1, <2>2, HoldsWhat DEF EndInv, FilmsEnd
    <2> QED BY <1>1, <2>1, <2>2 DEF EndInv, FilmsEnd
<1>10. ServersEnd'
    <2>1. \A s \in Serves : pc[s] \in Spawned => pc'[s] \in Spawned
        BY <1>2 DEF Onward
    <2>2. ASSUME NEW j \in Sweepers, Sweeping(j)', NEW s \in had'[j], s \in Serves
          PROVE  /\ pc'[s] \in Spawned
                 /\ pc'[j] # "idle" => s \notin servers'
                 /\ pc'[j] = "tunnels" => process'[s] # "open" \/ (quitting'[s] # "no" /\ s \notin waits'[j])
        <3>1. CASE j = k
            <4>1. s \in servers
                BY <1>3, <2>2, <3>1, HoldsWhat
            <4> QED BY <1>2, <2>1, <2>2, <3>1, <4>1 DEF EndInv, ServersEnd
        <3>2. CASE j # k
            BY <1>1, <1>3, <1>4, <1>5, <2>1, <2>2, <3>2 DEF EndInv, ServersEnd
        <3> QED BY <3>1, <3>2
    <2> QED BY <1>1, <2>1, <2>2 DEF EndInv, ServersEnd
<1>11. ListenersEnd'
    <2>1. UNCHANGED <<active, bound, over, sweep>>
        BY <1>1 DEF tunnelVars
    <2>2. ASSUME NEW t \in Tunnels, active[t] # None
          PROVE  pc'[active[t]] = "ok"
        BY <1>2, <2>2 DEF EndInv, ListenersEnd, Onward, TunnelInv, Listeners
    <2>3. \A s \in Starts : pc'[s] \in {"binding", "ok"} => over[s] \in Connects /\ pc'[over[s]] \in Late
        BY <1>2, <1>7 DEF StartsStay, EndInv, ListenersEnd, Onward
    <2>4. ASSUME NEW i \in Marked', i \in Starts
          PROVE  /\ pc'[i] = "ok"
                 /\ OutOf(i) \/ active[TunnelOf[i]] = i
                 /\ \A j \in Sweepers : pc'[j] = "tunnels" => OutOf(i) \/ TunnelOf[i] \in Ahead(j)
        <3>1. CASE i \in Marked
            <4>1. /\ pc[i] = "ok" /\ (OutOf(i) \/ active[TunnelOf[i]] = i)
                  /\ \A j \in Sweepers : pc[j] = "tunnels" => OutOf(i) \/ TunnelOf[i] \in Ahead(j)
                BY <2>4, <3>1 DEF EndInv, ListenersEnd
            <4> QED BY <1>2, <1>4, <1>7, <2>4, <4>1 DEF StartsStay
        <3>2. CASE i \in Holds
            <4>1. /\ active[TunnelOf[i]] = i /\ active[TunnelOf[i]] # None /\ TunnelOf[i] \in Tunnels
                  /\ \A j \in Sweepers : pc[j] # "tunnels"
                BY <2>4, <3>2, HoldsWhat, StartsAndStops DEF Looping
            <4> QED BY <1>2, <1>4, <2>2, <4>1
        <3> QED BY <1>6, <2>4, <3>1, <3>2
    <2>5. \A i \in Starts : OutOf(i)' <=> OutOf(i)
        BY <1>1, <2>1 DEF OutOf, Remote
    <2>6. \A j \in Sweepers : Ahead(j)' = Ahead(j)
        BY <2>1 DEF Ahead
    <2>7. \A s \in Starts : pc'[s] \in {"binding", "ok"} => over'[s] \in Connects /\ pc'[over'[s]] \in Late
        BY <2>1, <2>3
    <2>8. over' = [s \in Starts |-> over'[s]]
        BY <2>1 DEF EndInv, ListenersEnd
    <2>9. \A t \in Tunnels : active'[t] # None => pc'[active'[t]] = "ok"
        BY <2>1, <2>2
    <2>10. ASSUME NEW i \in Marked', i \in Starts
           PROVE  /\ pc'[i] = "ok"
                  /\ OutOf(i)' \/ active'[TunnelOf[i]] = i
                  /\ \A j \in Sweepers : pc'[j] = "tunnels" => OutOf(i)' \/ TunnelOf[i] \in Ahead(j)'
        BY <2>1, <2>4, <2>5, <2>6, <2>10
    <2> QED BY <2>7, <2>8, <2>9, <2>10 DEF ListenersEnd
<1> QED BY <1>3, <1>8, <1>9, <1>10, <1>11 DEF EndInv

LEMMA SweepServersEnds == ASSUME EndInv, TunnelInv, NEW k \in Sweepers, SweepServers(k) PROVE EndInv'
<1>1. /\ pc[k] = "idle" /\ Go(k, "servers") /\ Quit(servers, "silent") /\ waits' = [waits EXCEPT ![k] = servers]
      /\ UNCHANGED <<closing, client, jump, link, terms, streams, picture, process, had>> /\ UNCHANGED tunnelVars
    BY DEF SweepServers, terminalVars
<1>2. Onward({k}) /\ pc'[k] = "servers" /\ \A d \in Calls : d # k => pc'[d] = pc[d]
    BY <1>1, SweepGoes DEF TunnelInv, SweepPlaces
<1>3. Marked' \subseteq Marked
    BY <1>1, <1>2, MarkedStays DEF Sweeping, SweepPlaces
<1>4. LinksClose /\ LinksFall /\ StartsStay
    BY <1>1, LinksSame, KindsApart, PlainStarts DEF LinksFall, TunnelInv
<1>5. ClientsEnd' /\ FilmsEnd'
    BY <1>1, <1>2, <1>3, <1>4, ClientsRest, FilmsRest DEF EndInv
<1>6. \A j \in Sweepers : j # k => pc'[j] = pc[j]
    BY <1>2, LoopNames
<1>7. ListenersEnd'
    <2>1. UNCHANGED <<active, bound, sweep, over>>
        BY <1>1 DEF tunnelVars
    <2>2. \A j \in Sweepers : pc'[j] = "tunnels" => pc[j] = "tunnels"
        BY <1>2, <1>6
    <2> QED BY <1>2, <1>3, <1>4, <2>1, <2>2, ListenersRest DEF EndInv
<1>8. ServersEnd'
    <2>1. /\ servers' = {} /\ quitting' = [s \in Serves |-> quitting'[s]]
          /\ \A s \in Serves : quitting[s] # "no" => quitting'[s] # "no"
          /\ \A s \in servers : quitting'[s] # "no"
        BY <1>1 DEF Quit, EndInv, ServersEnd
    <2>2. waits' = [j \in Sweepers |-> waits'[j]] /\ \A j \in Sweepers : j # k => waits'[j] = waits[j]
        BY <1>1 DEF EndInv, ServersEnd
    <2>3. \A s \in Serves : pc[s] \in Spawned => pc'[s] \in Spawned
        BY <1>2 DEF Onward
    <2>4. ASSUME NEW j \in Sweepers, Sweeping(j)', NEW s \in had'[j], s \in Serves
          PROVE  /\ pc'[s] \in Spawned
                 /\ pc'[j] = "tunnels" => process'[s] # "open" \/ (quitting'[s] # "no" /\ s \notin waits'[j])
        <3>1. CASE j = k
            BY <1>1, <1>2, <2>3, <2>4, <3>1 DEF EndInv, ServersEnd, Sweeping, SweepPlaces
        <3>2. CASE j # k
            <4>1. Sweeping(j)
                BY <1>6, <2>4, <3>2 DEF Sweeping
            <4> QED BY <1>1, <1>6, <2>1, <2>2, <2>3, <2>4, <3>2, <4>1 DEF EndInv, ServersEnd
        <3> QED BY <3>1, <3>2
    <2>5. process' = [s \in Serves |-> process'[s]] /\ \A s \in Serves : process'[s] = "open" => quitting'[s] # "no"
        BY <1>1, <2>1 DEF EndInv, ServersEnd
    <2> QED BY <2>1, <2>2, <2>4, <2>5 DEF ServersEnd
<1> QED BY <1>1, <1>5, <1>7, <1>8 DEF EndInv, HadTyped

-----------------------------------------------------------------------------
(* Its loop over the tunnels.                                               *)

LEMMA SetToSeqCovers ==
    ASSUME NEW S, IsFiniteSet(S), NEW e \in S
    PROVE  \E j \in 1..Len(SetToSeq(S)) : SetToSeq(S)[j] = e
<1> DEFINE n == Cardinality(S)
           s == SetToSeq(S)
<1>1. n \in Nat /\ ExistsBijection(1..n, S)
    BY FS_CardinalityType, Zenon
<1>2. PICK f \in [1..n -> S] : IsInjective(f)
    BY <1>1, Zenon DEF ExistsBijection, Bijection, Injection
<1>3. s \in [1..n -> S] /\ IsInjective(s)
    BY <1>2, Zenon DEF SetToSeq
<1>4. s \in Injection(1..n, S)
    BY <1>3, Zenon DEF Injection
<1>5. IsFiniteSet(1..n) /\ Cardinality(1..n) = n
    <2>1. 1 \in Int /\ n \in Int
        BY <1>1
    <2>2. IsFiniteSet(1..n) /\ Cardinality(1..n) = IF 1 > n THEN 0 ELSE n - 1 + 1
        BY <2>1, FS_Interval
    <2> HIDE DEF n
    <2> QED BY <1>1, <2>2
<1> HIDE DEF n, s
<1>6. s \in Surjection(1..n, S)
    <2>1. Cardinality(1..n) = Cardinality(S) <=> s \in Surjection(1..n, S)
        BY <1>4, FS_Injection
    <2> QED BY <1>5, <2>1 DEF n
<1>7. PICK j \in 1..n : s[j] = e
    BY <1>6 DEF Surjection
<1>8. Len(s) = n
    BY <1>1, <1>3
<1> QED BY <1>7, <1>8 DEF s

LEMMA SweepOrderCovers ==
    ASSUME NEW u \in Tunnels, active[u] # None
    PROVE  \E j \in 1..Len(SweepOrder) : SweepOrder[j] = u
<1> DEFINE S == {t \in Tunnels : active[t] # None}
<1>1. IsFiniteSet(S) /\ u \in S
    BY TunnelAssumption, FS_Subset
<1> HIDE DEF S
<1>2. \E j \in 1..Len(SetToSeq(S)) : SetToSeq(S)[j] = u
    BY <1>1, SetToSeqCovers
<1> QED BY <1>2 DEF SweepOrder, S

LEMMA FirstAndAfter ==
    ASSUME NEW T, NEW s \in Seq(T), NEW j \in 1..Len(s)
    PROVE  s # <<>> /\ (s[j] = Head(s) \/ s[j] \in After(s))
BY DEF After

LEMMA TailAfter ==
    ASSUME NEW T, NEW s \in Seq(T), Len(s) > 1, NEW u \in After(s), u # s[2]
    PROVE  u \in After(Tail(s))
<1>1. PICK j \in 2..Len(s) : s[j] = u
    BY DEF After
<1>2. Len(s) \in Nat /\ s # <<>> /\ j # 2
    BY <1>1
<1>3. Len(Tail(s)) = Len(s) - 1
    BY <1>2
<1>4. j - 1 \in 2..Len(Tail(s))
    BY <1>2, <1>3
<1>5. Tail(s)[j - 1] = s[j]
    BY <1>2, <1>3, <1>4
<1> QED BY <1>1, <1>4, <1>5 DEF After

LEMMA NoneAfter ==
    ASSUME NEW T, NEW s \in Seq(T), Len(s) <= 1
    PROVE  After(s) = {}
<1>1. Len(s) \in Nat
    OBVIOUS
<1>2. 2..Len(s) = {}
    BY <1>1
<1> QED BY <1>2 DEF After

LEMMA SweepTunnelsEnds == ASSUME EndInv, TunnelInv, NEW k \in Sweepers, SweepTunnels(k) PROVE EndInv'
<1>0. k \in Loops /\ sweep \in [Loops -> Seq(Tunnels)]
    BY LoopNames DEF TunnelInv, LoopsAreOnce
<1>1. /\ UNCHANGED <<closing, client, jump, link, terms, streams, picture, servers, process, quitting, waits, had, over>>
      /\ \/ pc[k] = "servers" /\ (\A s \in waits[k] : quitting[s] = "no") /\ Go(k, "tunnels") /\ SweepTunnelsBegin(k)
         \/ pc[k] = "tunnels" /\ UNCHANGED pc /\ Len(sweep[k]) > 1 /\ SweepTunnelsNext(k)
    BY DEF SweepTunnels, clientVars, terminalVars, serverVars, ownVars
<1>2. /\ Onward({k}) /\ StartsStay /\ pc'[k] = "tunnels" /\ Sweeping(k)
      /\ \A j \in Sweepers : j # k => pc'[j] = pc[j]
    <2>1. CASE pc[k] = "servers" /\ Go(k, "tunnels")
        <3>1. Onward({k}) /\ pc'[k] = "tunnels" /\ \A d \in Calls : d # k => pc'[d] = pc[d]
            BY <2>1, SweepGoes DEF TunnelInv, SweepPlaces
        <3> QED BY <2>1, <3>1, KindsApart, PlainStarts, LoopNames DEF TunnelInv, Sweeping, SweepPlaces
    <2>2. CASE pc[k] = "tunnels" /\ UNCHANGED pc
        <3>1. Onward({})
            BY <2>2, OnwardStays DEF TunnelInv
        <3> QED BY <2>2, <3>1 DEF Onward, StartsStay, Sweeping, SweepPlaces
    <2> QED BY <1>1, <2>1, <2>2
<1>3. Marked' \subseteq Marked /\ LinksClose /\ LinksFall
    BY <1>1, <1>2, MarkedStays, LinksSame DEF LinksFall
<1>4. ClientsEnd' /\ FilmsEnd' /\ HadTyped'
    BY <1>1, <1>2, <1>3, ClientsRest, FilmsRest DEF EndInv, HadTyped
<1>5. ServersEnd'
    <2>1. \A s \in Serves : pc[s] \in Spawned => pc'[s] \in Spawned
        BY <1>2 DEF Onward
    <2>2. ASSUME NEW j \in Sweepers, Sweeping(j)', NEW s \in had[j], s \in Serves
          PROVE  /\ pc'[s] \in Spawned
                 /\ pc'[j] # "idle" => s \notin servers
                 /\ pc'[j] = "tunnels" => process[s] # "open" \/ (quitting[s] # "no" /\ s \notin waits[j])
        <3>1. CASE j # k
            BY <1>2, <2>1, <2>2, <3>1 DEF EndInv, ServersEnd, Sweeping
        <3>2. CASE j = k
            <4>1. pc[s] \in Spawned /\ pc[k] # "idle" /\ s \notin servers
                BY <1>1, <1>2, <2>2, <3>2 DEF EndInv, ServersEnd
            <4>2. process[s] = "open" => quitting[s] # "no"
                BY <2>2, <4>1 DEF EndInv, ServersEnd
            <4>3. process[s] # "open" \/ (quitting[s] # "no" /\ s \notin waits[k])
                BY <1>1, <1>2, <2>2, <3>2, <4>2 DEF EndInv, ServersEnd
            <4> QED BY <2>1, <2>2, <3>2, <4>1, <4>3
        <3> QED BY <3>1, <3>2
    <2> QED BY <1>1, <2>1, <2>2 DEF EndInv, ServersEnd
<1>6. \A s \in Starts : pc'[s] \in {"binding", "ok"} => pc[s] \in {"binding", "ok"}
    BY <1>2 DEF StartsStay
<1>7. ListenersEnd'
    <2>1. CASE pc[k] = "servers" /\ SweepTunnelsBegin(k)
        <3>1. sweep' = [sweep EXCEPT ![k] = SweepOrder] /\ SweepOrder \in Seq(Tunnels)
            BY <2>1, SweepOrderIsSeq DEF SweepTunnelsBegin
        <3>2. sweep'[k] = SweepOrder /\ \A j \in Sweepers : j # k => sweep'[j] = sweep[j]
            BY <1>0, <3>1, LoopNames
        <3>3. \A u \in Tunnels : active[u] # None => SweepOrder # <<>> /\ (u = Head(SweepOrder) \/ u \in Ahead(k)')
            BY <3>1, <3>2, SweepOrderCovers, FirstAndAfter DEF Ahead
        <3>4. CASE SweepOrder # <<>>
            <4>1. PICK t \in Tunnels : t = Head(SweepOrder)
                BY <3>1, <3>4
            <4>2. Cleanup(t)
                BY <2>1, <3>4, <4>1 DEF SweepTunnelsBegin
            <4>3. ASSUME NEW j \in Sweepers, pc'[j] = "tunnels"
                  PROVE  \/ pc[j] = "tunnels" /\ \A u \in Ahead(j) : u # t => u \in Ahead(j)'
                         \/ \A u \in Tunnels : active[u] # None /\ u # t => u \in Ahead(j)'
                BY <1>2, <3>2, <3>3, <4>1, <4>3 DEF Ahead
            <4> QED BY <1>1, <1>2, <1>3, <1>6, <4>2, <4>3, CleanupListeners DEF EndInv
        <3>5. CASE SweepOrder = <<>>
            <4>1. UNCHANGED <<active, bound>> /\ \A u \in Tunnels : active[u] = None
                BY <2>1, <3>3, <3>5 DEF SweepTunnelsBegin
            <4>2. ASSUME NEW i \in Marked, i \in Starts
                  PROVE  OutOf(i)'
                BY <1>1, <4>1, <4>2, CountedListener DEF EndInv, OutOf, Remote
            <4>3. over' = [s \in Starts |-> over'[s]]
                BY <1>1 DEF EndInv, ListenersEnd
            <4> QED BY <1>1, <1>2, <1>3, <1>6, <4>1, <4>2, <4>3, ListenersKept DEF EndInv
        <3> QED BY <3>4, <3>5
    <2>2. CASE Len(sweep[k]) > 1 /\ SweepTunnelsNext(k) /\ UNCHANGED pc
        <3>0. sweep[k] \in Seq(Tunnels)
            BY <1>0
        <3>1. PICK t \in Tunnels : t = sweep[k][2]
            BY <2>2, <3>0
        <3>2. Cleanup(t) /\ sweep' = [sweep EXCEPT ![k] = Tail(sweep[k])]
            BY <2>2, <3>1 DEF SweepTunnelsNext
        <3>3. sweep'[k] = Tail(sweep[k]) /\ \A j \in Sweepers : j # k => sweep'[j] = sweep[j]
            BY <1>0, <3>2, LoopNames
        <3>4. \A u \in Ahead(k) : u # t => u \in Ahead(k)'
            BY <2>2, <3>0, <3>1, <3>3, TailAfter DEF Ahead
        <3>5. ASSUME NEW j \in Sweepers, pc'[j] = "tunnels"
              PROVE  pc[j] = "tunnels" /\ \A u \in Ahead(j) : u # t => u \in Ahead(j)'
            BY <2>2, <3>3, <3>4, <3>5 DEF Ahead
        <3> QED BY <1>1, <1>2, <1>3, <1>6, <3>2, <3>5, CleanupListeners DEF EndInv
    <2> QED BY <1>1, <2>1, <2>2
<1> QED BY <1>4, <1>5, <1>7 DEF EndInv

\* Its last turn: everything counted is closed.
LEMMA SweepDoneEnds ==
    ASSUME EndInv, TunnelInv, NEW k \in Sweepers, SweepDone(k)
    PROVE  EndInv' /\ \A i \in had[k] : Gone(i, k)'
<1>0. k \in Loops /\ sweep \in [Loops -> Seq(Tunnels)]
    BY LoopNames DEF TunnelInv, LoopsAreOnce
<1>1. /\ pc[k] = "tunnels" /\ Len(sweep[k]) <= 1 /\ sweep' = [sweep EXCEPT ![k] = <<>>]
      /\ active' = [t \in Tunnels |-> None] /\ DropStreams(streams) /\ terms' = {}
      /\ client' = None /\ jump' = None /\ closing' = FALSE
      /\ UNCHANGED <<bound, over, servers, process, quitting, waits, had>>
    BY DEF SweepDone, DropTerminals, serverVars
<1>2. PICK where \in {"hopping", "dialing", "ok"} : Go(k, where)
    BY DEF SweepDone
<1>3. Onward({k}) /\ pc'[k] = where /\ \A d \in Calls : d # k => pc'[d] = pc[d]
    BY <1>1, <1>2, SweepGoes DEF TunnelInv, SweepPlaces
<1>4. Marked' \subseteq Marked /\ Sweeping(k) /\ had[k] \subseteq Marked
    <2>1. Sweeping(k)
        BY <1>1 DEF Sweeping, SweepPlaces
    <2> QED BY <1>1, <1>3, <2>1, MarkedStays DEF Marked
<1>5. StartsStay /\ \A j \in Sweepers : j # k => pc'[j] = pc[j]
    BY <1>2, <1>3, KindsApart, PlainStarts, LoopNames DEF TunnelInv
<1>6. \A i \in Clients : \/ i = Dialing(k) /\ k \in Connects /\ link'[i] = "dialing"
                         \/ link'[i] = IF i \in SweptClients THEN "down" ELSE link[i]
    <2> DEFINE ended == [c \in Clients |-> IF c \in SweptClients THEN "down" ELSE link[c]]
    <2>1. link' = ended \/ (k \in Connects /\ link' = [ended EXCEPT ![Dialing(k)] = "dialing"])
        BY DEF SweepDone
    <2>2. CASE link' = ended
        BY <2>2
    <2>3. CASE k \in Connects /\ link' = [ended EXCEPT ![Dialing(k)] = "dialing"]
        BY <2>3
    <2> QED BY <2>1, <2>2, <2>3
<1>7. k \in Connects => ~Past(Dialing(k))
    <2>1. pc[k] \notin Late \cup {"dialing"}
        BY <1>1 DEF Late
    <2> QED BY <2>1 DEF Past, Dialing
<1>8. LinksClose /\ \A i \in HeldNow : i \in Clients /\ link'[i] \in Closed
    <2>1. LinksClose
        BY <1>6, <1>7 DEF LinksClose, Closed
    <2>2. HeldNow \subseteq SweptClients /\ HeldNow \subseteq Clients
        BY DEF HeldNow, SweptClients, EndInv, ClientsEnd, ClientsTyped, Clients
    <2>3. \A i \in HeldNow : Past(i)
        BY DEF EndInv, ClientsEnd
    <2> QED BY <1>6, <1>7, <2>1, <2>2, <2>3 DEF Closed
<1>9. ClientsEnd'
    <2>1. ClientsTyped' /\ HeldNow' = {}
        BY <1>1 DEF ClientsTyped, HeldNow
    <2> QED BY <1>1, <1>3, <1>4, <1>8, <2>1, ClientsKept DEF EndInv
<1>10. FilmsEnd' /\ streams' = {}
    <2>1. streams' = {}
        BY <1>1 DEF DropStreams
    <2>2. /\ picture' = [v \in Films |-> picture'[v]] /\ (\A v \in Films : picture[v] # "open" => picture'[v] # "open")
          /\ \A v \in streams : v \in streams' \/ picture'[v] # "open"
        BY <1>1, StreamsDrop DEF EndInv
    <2> QED BY <1>3, <1>4, <2>1, <2>2, FilmsKept DEF EndInv
<1>11. ServersEnd'
    <2>1. pc'[k] \notin SweepPlaces
        BY <1>3 DEF SweepPlaces
    <2> QED BY <1>1, <1>3, <2>1, ServersRest DEF EndInv
<1>12. LinksFall
    BY <1>6 DEF LinksFall, Clients
<1>13. \A i \in Marked \cap Starts : OutOf(i) /\ OutOf(i)'
    <2>1. Ahead(k) = {}
        <3>1. sweep[k] \in Seq(Tunnels)
            BY <1>0
        <3> QED BY <1>1, <3>1, NoneAfter DEF Ahead
    <2>2. ASSUME NEW i \in Marked, i \in Starts
          PROVE  OutOf(i) /\ OutOf(i)'
        <3>1. OutOf(i) /\ over[i] \in Connects /\ pc[over[i]] \in Late
            BY <1>1, <2>1, <2>2 DEF EndInv, ListenersEnd
        <3> QED BY <1>1, <1>12, <2>2, <3>1 DEF OutOf, LinksFall, Remote
    <2> QED BY <2>2
<1>14. ListenersEnd'
    <2>1. over' = [s \in Starts |-> over'[s]] /\ \A t \in Tunnels : active'[t] = None
        BY <1>1 DEF EndInv, ListenersEnd
    <2>2. \A s \in Starts : pc'[s] \in {"binding", "ok"} => pc[s] \in {"binding", "ok"}
        BY <1>5 DEF StartsStay
    <2> QED BY <1>1, <1>3, <1>4, <1>12, <1>13, <2>1, <2>2, ListenersKept DEF EndInv
<1>15. EndInv'
    BY <1>1, <1>9, <1>10, <1>11, <1>14 DEF EndInv, HadTyped
<1>16. ASSUME NEW i \in had[k]
       PROVE  Gone(i, k)'
    <2>1. i \in Marked
        BY <1>4
    <2>2. i \in Clients => link'[i] \in {"none", "ended", "down"}
        <3>1. ASSUME i \in Clients
              PROVE  link'[i] \in Closed
            <4>1. Past(i) /\ (link[i] \in Closed \/ i \in HeldNow)
                BY <2>1, <3>1 DEF EndInv, ClientsEnd
            <4>2. i \in Clients \ Helpers
                BY <2>1, <3>1, MarkedIsCountable, NotCounted DEF EndInv
            <4> QED BY <1>8, <4>1, <4>2 DEF LinksClose
        <3> QED BY <3>1 DEF Closed
    <2>3. i \in Starts => OutOf(i)'
        BY <1>13, <2>1
    <2>4. i \in Films => picture'[i] # "open"
        <3>1. \A v \in Films : picture[v] # "open" => picture'[v] # "open"
            BY <1>1, StreamsDrop DEF EndInv
        <3>2. \A v \in streams : v \in streams' \/ picture'[v] # "open"
            BY <1>1, StreamsDrop DEF EndInv
        <3> QED BY <1>10, <2>1, <3>1, <3>2 DEF EndInv, FilmsEnd
    <2>5. i \in Serves => process'[i] # "open" \/ (quitting'[i] # "no" /\ i \notin waits'[k])
        BY <1>1, <1>4, <1>16 DEF EndInv, ServersEnd
    <2> QED BY <2>2, <2>3, <2>4, <2>5 DEF Gone, OutOf, Remote
<1> QED BY <1>15, <1>16

-----------------------------------------------------------------------------
(* The rest of a connect, and its loss.                                     *)

LEMMA ConnectsApart ==
    /\ \A c \in Connects : /\ c \in Calls /\ c \in Clients /\ c \in Users /\ c \in Sweepers
                           /\ c \notin Opens \cup Films \cup Starts \cup Serves /\ c # None
                           /\ \A d \in Hopping : c # Jump(d)
    /\ \A c \in Hopping : /\ c \in Connects /\ Jump(c) \in Clients /\ Jump(c) # None
                          /\ Jump(c) \notin Connects \cup Opens
<1>1. Connects \subseteq Calls /\ Connects \subseteq Clients /\ Connects \subseteq Users /\ Connects \subseteq Sweepers
    BY DEF Calls, Clients, Users, Sweepers
<1>2. None \notin Clients /\ Hopping \subseteq Connects
    BY SessionAssumption
<1>3. \A c \in Hopping : Jump(c) \in Clients /\ Jump(c) \notin Calls
    BY <1>2, SessionAssumption DEF Jump, Clients
<1>4. Opens \subseteq Calls
    BY DEF Calls
<1> QED BY <1>1, <1>2, <1>3, <1>4, KindsApart

LEMMA JumpsDiffer == \A c, d : Jump(c) = Jump(d) => c = d
BY DEF Jump

\* A connect goes on.
LEMMA ConnectGoes ==
    ASSUME PcTyped, NEW c \in Connects, NEW where, Go(c, where), pc[c] \in {"hopping", "dialing", "starting"},
           where \in Late \/ (where = "dialing" /\ pc[c] = "hopping"), UNCHANGED had
    PROVE  /\ Onward({}) /\ pc'[c] = where /\ StartsStay /\ Marked' \subseteq Marked
           /\ \A j \in Sweepers : pc'[j] = "tunnels" => pc[j] = "tunnels"
<1>1. where \notin SweepPlaces \cup {"hopping"}
    BY DEF Late, SweepPlaces
<1>2. Onward({}) /\ pc'[c] = where
    BY <1>1, ConnectsApart, OnwardGoes
<1>3. StartsStay
    BY ConnectsApart, PlainStarts
<1>4. Marked' \subseteq Marked
    BY <1>2, MarkedStays
<1>5. \A j \in Sweepers : pc'[j] = "tunnels" => pc[j] = "tunnels"
    BY <1>2 DEF Onward, SweepPlaces
<1> QED BY <1>2, <1>3, <1>4, <1>5

LEMMA JumpDialedEnds ==
    ASSUME EndInv, TunnelInv, CurrentInv, NEW c \in Hopping, JumpDialed(c)
    PROVE  EndInv'
<1>0. c \in Connects /\ PcTyped /\ LinkTyped
    BY ConnectsApart DEF TunnelInv
<1>1. /\ pc[c] = "hopping" /\ jump' = Jump(c) /\ Go(c, "dialing")
      /\ link' = [link EXCEPT ![Jump(c)] = "up", ![c] = "dialing"]
      /\ UNCHANGED <<closing, client, terms, streams, picture, servers, process, quitting, waits, had>> /\ UNCHANGED tunnelVars
    BY DEF JumpDialed, terminalVars, serverVars, ownVars
<1>2. /\ Onward({}) /\ pc'[c] = "dialing" /\ StartsStay /\ Marked' \subseteq Marked
      /\ \A j \in Sweepers : pc'[j] = "tunnels" => pc[j] = "tunnels"
    BY <1>0, <1>1, ConnectGoes
<1>3. \A i \in Clients : i # Jump(c) /\ i # c => link'[i] = link[i]
    BY <1>0, <1>1 DEF LinkTyped, Clients
<1>4. ~Past(c) /\ ~Past(Jump(c))
    BY <1>0, <1>1 DEF Past, Late
<1>5. LinksClose
    BY <1>3, <1>4 DEF LinksClose
<1>6. jump = None
    BY <1>0, <1>1 DEF EndInv, ClientsEnd
<1>7. ClientsTyped' /\ HeldNow' = HeldNow \cup {Jump(c)}
    BY <1>1, <1>6, ConnectsApart DEF EndInv, ClientsEnd, ClientsTyped, HeldNow
<1>8. Past(Jump(c))'
    <2>1. \A d \in Hopping : Jump(c) = Jump(d) => pc'[d] \in Late \cup {"dialing"}
        BY <1>2, JumpsDiffer
    <2> QED BY <2>1, ConnectsApart DEF Past, Jump
<1>9. \A d \in Connects : pc'[d] # "hopping"
    <2>1. ASSUME NEW d \in Connects, pc'[d] = "hopping"
          PROVE  FALSE
        <3>1. pc[d] = "hopping"
            BY <1>2, <2>1 DEF Onward, Sweepers
        <3>2. Busy(c) /\ Busy(d)
            BY <1>1, <3>1 DEF Busy, Ended
        <3>3. c = d
            BY <1>0, <3>2, ConnectsApart DEF CurrentInv, OneBusy
        <3> QED BY <1>2, <2>1, <3>3
    <2> QED BY <2>1
<1>10. \A i \in HeldNow : closing => (closing' /\ i \in HeldNow') \/ link'[i] \in Closed
    BY <1>1, <1>7
<1>11. \A i \in HeldNow' : i \in HeldNow \/ Past(i)'
    BY <1>7, <1>8
<1>12. ClientsEnd'
    BY <1>2, <1>5, <1>7, <1>9, <1>10, <1>11, ClientsKept DEF EndInv
<1>13. FilmsEnd' /\ ServersEnd'
    BY <1>1, <1>2, FilmsRest, ServersRest DEF EndInv
<1>14. LinksFall
    <2>1. \A d \in Connects : d # c => link'[d] = link[d]
        BY <1>3, ConnectsApart
    <2> QED BY <1>1, <2>1 DEF LinksFall, Late
<1>15. ListenersEnd'
    <2>1. UNCHANGED <<active, bound, sweep, over>>
        BY <1>1 DEF tunnelVars
    <2> QED BY <1>2, <1>14, <2>1, ListenersRest DEF EndInv
<1> QED BY <1>1, <1>12, <1>13, <1>15 DEF EndInv, HadTyped

LEMMA DialedEnds ==
    ASSUME EndInv, TunnelInv, CurrentInv, NEW c \in Connects, Dialed(c)
    PROVE  EndInv'
<1>0. PcTyped /\ LinkTyped
    BY DEF TunnelInv
<1>1. /\ pc[c] = "dialing" /\ client' = c /\ Go(c, "starting") /\ link' = [link EXCEPT ![c] = "up"]
      /\ UNCHANGED <<closing, jump, terms, streams, picture, servers, process, quitting, waits, had>> /\ UNCHANGED tunnelVars
    BY DEF Dialed, terminalVars, serverVars
<1>2. "starting" \in Late
    BY DEF Late
<1>3. /\ Onward({}) /\ pc'[c] = "starting" /\ StartsStay /\ Marked' \subseteq Marked
      /\ \A j \in Sweepers : pc'[j] = "tunnels" => pc[j] = "tunnels"
    BY <1>0, <1>1, <1>2, ConnectGoes
<1>4. client = None
    BY <1>1 DEF CurrentInv, NoneWhileDialing
<1>5. ~Past(c)
    BY <1>1 DEF Past, Late
<1>6. LinksClose
    BY <1>0, <1>1, <1>5, OneLinkCloses
<1>7. ClientsTyped' /\ HeldNow' = HeldNow \cup {c}
    BY <1>1, <1>4, ConnectsApart DEF EndInv, ClientsEnd, ClientsTyped, HeldNow
<1>8. Past(c)'
    BY <1>2, <1>3, ConnectsApart DEF Past, Jump
<1>9. \A d \in Connects : pc'[d] = "hopping" => jump' = None
    BY <1>1, <1>3 DEF EndInv, ClientsEnd, Onward, Sweepers
<1>10. \A i \in HeldNow : closing => (closing' /\ i \in HeldNow') \/ link'[i] \in Closed
    BY <1>1, <1>7
<1>11. \A i \in HeldNow' : i \in HeldNow \/ Past(i)'
    BY <1>7, <1>8
<1>12. ClientsEnd'
    BY <1>3, <1>6, <1>7, <1>9, <1>10, <1>11, ClientsKept DEF EndInv
<1>13. FilmsEnd' /\ ServersEnd'
    BY <1>1, <1>3, FilmsRest, ServersRest DEF EndInv
<1>14. LinksFall
    <2>1. \A d \in Connects : d # c => link'[d] = link[d]
        BY <1>0, <1>1, ConnectsApart DEF LinkTyped
    <2> QED BY <1>1, <2>1 DEF LinksFall, Late
<1>15. ListenersEnd'
    <2>1. UNCHANGED <<active, bound, sweep, over>>
        BY <1>1 DEF tunnelVars
    <2> QED BY <1>3, <1>14, <2>1, ListenersRest DEF EndInv
<1> QED BY <1>1, <1>12, <1>13, <1>15 DEF EndInv, HadTyped

LEMMA ConnectOverEnds ==
    ASSUME EndInv, TunnelInv, NEW c \in Connects, ConnectDone(c) \/ ConnectFails(c)
    PROVE  EndInv'
<1>0. PcTyped /\ LinkTyped
    BY DEF TunnelInv
<1>1. /\ pc[c] \in {"hopping", "dialing", "starting"}
      /\ UNCHANGED <<closing, terms, streams, picture, servers, process, quitting, waits, had>> /\ UNCHANGED tunnelVars
      /\ \/ Go(c, "ok") /\ UNCHANGED <<client, jump, link>>
         \/ /\ Go(c, "failed") /\ client' = None /\ jump' = None
            /\ EndClients(({client, jump, aux, c, Dialing(c)}) \ {None})
    BY DEF ConnectDone, ConnectFails, terminalVars, serverVars
<1>2. PICK where \in {"ok", "failed"} : Go(c, where)
    BY <1>1
<1>3. where \in Late
    BY DEF Late
<1>4. /\ Onward({}) /\ pc'[c] = where /\ StartsStay /\ Marked' \subseteq Marked
      /\ \A j \in Sweepers : pc'[j] = "tunnels" => pc[j] = "tunnels"
    BY <1>0, <1>1, <1>2, <1>3, ConnectGoes
<1>5. LinksClose /\ LinksAside
    BY <1>0, <1>1, LinksSame, EndedAreClosed, LinksStay, LinksEnd
<1>6. ClientsEnd'
    <2>1. CASE UNCHANGED <<client, jump, link>>
        BY <1>1, <1>4, <1>5, <2>1, ClientsRest DEF EndInv
    <2>2. CASE client' = None /\ jump' = None /\ EndClients(({client, jump, aux, c, Dialing(c)}) \ {None})
        <3>1. ClientsTyped' /\ HeldNow' = terms \ {None}
            BY <1>1, <2>2 DEF EndInv, ClientsEnd, ClientsTyped, HeldNow
        <3>2. ASSUME NEW i \in HeldNow
              PROVE  i \in HeldNow' \/ link'[i] \in Closed
            <4>1. i \in Clients /\ (i \in HeldNow' \/ i \in ({client, jump, aux, c, Dialing(c)}) \ {None})
                BY <3>1 DEF HeldNow, EndInv, ClientsEnd, ClientsTyped, Clients
            <4> QED BY <2>2, <4>1, EndedAreClosed
        <3>3. HeldNow' \subseteq HeldNow
            BY <3>1 DEF HeldNow
        <3> QED BY <1>1, <1>4, <1>5, <2>2, <3>1, <3>2, <3>3, ClientsKept DEF EndInv
    <2> QED BY <1>1, <2>1, <2>2
<1>7. FilmsEnd' /\ ServersEnd'
    BY <1>1, <1>4, FilmsRest, ServersRest DEF EndInv
<1>8. ListenersEnd'
    BY <1>1, <1>4, <1>5, ListenersAside DEF EndInv
<1> QED BY <1>1, <1>6, <1>7, <1>8 DEF EndInv, HadTyped

LEMMA InteractiveLostEnds ==
    ASSUME EndInv, TunnelInv, NEW c \in Connects, NEW e \in {"end", "close"}, InteractiveLost(c, e)
    PROVE  EndInv'
<1>0. PcTyped /\ LinkTyped /\ <<c, e>> \in Loops /\ <<c, e>> \notin Sweepers /\ sweep \in [Loops -> Seq(Tunnels)]
    BY LoopNames DEF TunnelInv, LoopsAreOnce
<1>1. UNCHANGED <<pc, closing, jump, picture, process, waits, had>>
    BY DEF InteractiveLost
<1>2. /\ Onward({}) /\ StartsStay /\ Marked' \subseteq Marked
      /\ \A j \in Sweepers : pc'[j] = "tunnels" => pc[j] = "tunnels"
    <2>1. Onward({})
        BY <1>0, <1>1, OnwardStays
    <2> QED BY <1>1, <2>1, MarkedStays DEF StartsStay
<1>3. \A i \in Clients : link'[i] = link[i] \/ link'[i] \in {"ended", "down"}
    <2>1. PICK ended : link' = [i \in Clients |-> IF i = c THEN (IF e = "end" THEN "ended" ELSE "down")
                                                 ELSE IF i \in ended THEN "down" ELSE link[i]]
        BY DEF InteractiveLost
    <2> QED BY <2>1
<1>4. LinksClose /\ LinksFall
    BY <1>3 DEF LinksClose, LinksFall, Closed, Clients
<1>5. CASE closing
    <2>1. UNCHANGED <<client, terms, streams, servers, quitting>> /\ UNCHANGED tunnelVars
        BY <1>5 DEF InteractiveLost, ToldLost, shellVars
    <2>2. UNCHANGED <<active, bound, sweep, over>>
        BY <2>1 DEF tunnelVars
    <2>3. ClientsEnd' /\ FilmsEnd' /\ ServersEnd' /\ ListenersEnd'
        BY <1>1, <1>2, <1>4, <2>1, <2>2, ClientsRest, FilmsRest, ServersRest, ListenersRest DEF EndInv
    <2> QED BY <1>1, <2>3 DEF EndInv, HadTyped
<1>6. CASE ~closing
    <2>1. /\ Quit(servers, "silent") /\ SweepTunnelsBegin(<<c, e>>) /\ UNCHANGED over
          /\ terms' = {} /\ streams' = {} /\ client' = None
        BY <1>6 DEF InteractiveLost, ToldLost, DropTerminals
    <2>2. ClientsEnd'
        <3>1. ClientsTyped' /\ HeldNow' \subseteq HeldNow
            BY <1>1, <2>1 DEF EndInv, ClientsEnd, ClientsTyped, HeldNow
        <3>2. \A d \in Connects : pc'[d] = "hopping" => jump' = None
            BY <1>1 DEF EndInv, ClientsEnd
        <3> QED BY <1>2, <1>4, <1>6, <3>1, <3>2, ClientsKept DEF EndInv
    <2>3. FilmsEnd'
        <3>1. picture' = [v \in Films |-> picture'[v]]
            BY <1>1 DEF EndInv, FilmsEnd
        <3> QED BY <1>1, <1>2, <1>6, <2>1, <3>1, FilmsKept DEF EndInv
    <2>4. ServersEnd'
        <3>1. /\ servers' \subseteq servers /\ servers' \subseteq Serves
              /\ quitting' = [s \in Serves |-> quitting'[s]]
              /\ \A s \in Serves : quitting[s] # "no" => quitting'[s] # "no"
              /\ \A s \in servers : s \in servers' \/ quitting'[s] # "no"
            BY <2>1, QuitStops DEF EndInv
        <3>2. /\ process' = [s \in Serves |-> process'[s]]
              /\ \A s \in Serves : process'[s] = "open" => s \in servers' \/ quitting'[s] # "no"
            BY <1>1, <3>1 DEF EndInv, ServersEnd
        <3> QED BY <1>1, <1>2, <3>1, <3>2, ServersKept DEF EndInv
    <2>5. ListenersEnd'
        <3>1. \A j \in Sweepers : sweep'[j] = sweep[j]
            BY <1>0, <2>1, LoopNames DEF SweepTunnelsBegin
        <3>2. \A j \in Sweepers : Ahead(j)' = Ahead(j)
            BY <3>1 DEF Ahead
        <3>3. CASE SweepOrder = <<>>
            <4>1. UNCHANGED <<active, bound>>
                BY <2>1, <3>3 DEF SweepTunnelsBegin
            <4>2. over' = [s \in Starts |-> over'[s]]
                BY <2>1 DEF EndInv, ListenersEnd
            <4> QED BY <1>1, <1>2, <1>4, <2>1, <3>2, <4>1, <4>2, ListenersKept DEF EndInv
        <3>4. CASE SweepOrder # <<>>
            <4>1. PICK t \in Tunnels : t = Head(SweepOrder)
                BY <3>4, SweepOrderIsSeq
            <4>2. Cleanup(t)
                BY <2>1, <3>4, <4>1 DEF SweepTunnelsBegin
            <4> QED BY <1>1, <1>2, <1>4, <2>1, <3>2, <4>2, CleanupListeners DEF EndInv
        <3> QED BY <3>3, <3>4
    <2> QED BY <1>1, <2>2, <2>3, <2>4, <2>5 DEF EndInv, HadTyped
<1> QED BY <1>5, <1>6

LEMMA LostTunnelEnds ==
    ASSUME EndInv, TunnelInv, NEW c \in Connects, NEW e \in {"end", "close"}, LostTunnelStopped(c, e)
    PROVE  EndInv'
<1> DEFINE k == <<c, e>>
<1>0. PcTyped /\ k \in Loops /\ k \notin Sweepers /\ sweep \in [Loops -> Seq(Tunnels)]
    BY LoopNames DEF TunnelInv, LoopsAreOnce
<1>1. /\ UNCHANGED <<pc, closing, client, jump, link, terms, streams, picture, servers, process, quitting, waits, had, over>>
      /\ \/ Len(sweep[k]) > 1 /\ SweepTunnelsNext(k)
         \/ sweep' = [sweep EXCEPT ![k] = <<>>] /\ UNCHANGED <<active, bound>>
    BY DEF LostTunnelStopped, clientVars, terminalVars, serverVars, ownVars
<1>2. /\ Onward({}) /\ StartsStay /\ Marked' \subseteq Marked
      /\ \A j \in Sweepers : pc'[j] = "tunnels" => pc[j] = "tunnels"
    <2>1. Onward({})
        BY <1>0, <1>1, OnwardStays
    <2> QED BY <1>1, <2>1, MarkedStays DEF StartsStay
<1>3. LinksClose /\ LinksFall
    BY <1>1, LinksSame DEF LinksFall
<1>4. ClientsEnd' /\ FilmsEnd' /\ ServersEnd'
    BY <1>1, <1>2, <1>3, ClientsRest, FilmsRest, ServersRest DEF EndInv
<1>5. \A j \in Sweepers : Ahead(j)' = Ahead(j)
    <2>1. \E s : sweep' = [sweep EXCEPT ![k] = s]
        BY <1>1 DEF SweepTunnelsNext
    <2>2. \A j \in Sweepers : sweep'[j] = sweep[j]
        BY <1>0, <2>1, LoopNames
    <2> QED BY <2>2 DEF Ahead
<1>6. ListenersEnd'
    <2>1. CASE Len(sweep[k]) > 1 /\ SweepTunnelsNext(k)
        <3>1. sweep[k] \in Seq(Tunnels)
            BY <1>0
        <3>2. PICK t \in Tunnels : t = sweep[k][2]
            BY <2>1, <3>1
        <3>3. Cleanup(t)
            BY <2>1, <3>2 DEF SweepTunnelsNext
        <3> QED BY <1>1, <1>2, <1>3, <1>5, <3>3, CleanupListeners DEF EndInv
    <2>2. CASE UNCHANGED <<active, bound>>
        <3>1. over' = [s \in Starts |-> over'[s]]
            BY <1>1 DEF EndInv, ListenersEnd
        <3> QED BY <1>1, <1>2, <1>3, <1>5, <2>2, <3>1, ListenersKept DEF EndInv
    <2> QED BY <1>1, <2>1, <2>2
<1> QED BY <1>1, <1>4, <1>6 DEF EndInv, HadTyped

\* What the auxiliary client, the poller and the sftp of a session do.
LEMMA HelpersEnds ==
    ASSUME EndInv, TunnelInv,
           \/ \E c \in Connects : SftpOpened(c) \/ HomeResolved(c) \/ SftpRefused(c) \/ ShellHomeResolved(c) \/ SocketError(c)
           \/ \E h \in Helpers :
                \/ EnsureAuxiliary(h) \/ AuxiliaryDialed(h) \/ AuxiliaryReady(h)
                \/ AuxiliaryFails(h) \/ AuxiliaryLost(h)
           \/ \E g \in Gauges : StartHostMetrics(g)
           \/ \E p \in polls : PollDone(p)
           \/ PollTimer
    PROVE  EndInv'
<1>0. PcTyped /\ LinkTyped
    BY DEF TunnelInv
<1>1. LinksAside /\ UNCHANGED tunnelVars
    BY <1>0, LifecycleAside DEF Aside
<1>2. ASSUME NEW x \in Helpers \cup Gauges, NEW where, Go(x, where)
      PROVE  Onward({}) /\ StartsStay
    <2>1. x \in Plain
        BY DEF Plain
    <2> QED BY <1>0, <1>2, <2>1, PlainGoes, StartsApart, PlainStarts
<1>3. ASSUME UNCHANGED pc
      PROVE  Onward({}) /\ StartsStay
    BY <1>0, <1>3, OnwardStays DEF StartsStay
<1>4. ASSUME NEW c \in Connects,
             SftpOpened(c) \/ HomeResolved(c) \/ SftpRefused(c) \/ ShellHomeResolved(c) \/ SocketError(c)
      PROVE  EndInv'
    <2>1. UNCHANGED <<pc, closing, client, jump, link, terms, streams, picture, servers, process, quitting, waits, had>>
        BY <1>4 DEF SftpOpened, HomeResolved, SftpRefused, ShellHomeResolved, SocketError,
                    clientVars, terminalVars, serverVars, ownVars
    <2> QED BY <1>1, <1>3, <2>1, LinksSame, NothingEnds
<1>5. ASSUME NEW h \in Helpers,
             EnsureAuxiliary(h) \/ AuxiliaryDialed(h) \/ AuxiliaryReady(h) \/ AuxiliaryFails(h)
      PROVE  EndInv'
    <2>1. UNCHANGED <<closing, client, jump, terms, streams, picture, servers, process, quitting, waits, had>>
        BY <1>5 DEF EnsureAuxiliary, AuxiliaryDialed, AuxiliaryReady, AuxiliaryFails,
                    terminalVars, serverVars, ownVars
    <2>2. (\E where : Go(h, where)) /\ (UNCHANGED link \/ EndClients({h}) \/ \E v : link' = [link EXCEPT ![h] = v])
        BY <1>5 DEF EnsureAuxiliary, AuxiliaryDialed, AuxiliaryReady, AuxiliaryFails, Dial
    <2>3. LinksClose
        BY <1>0, <2>2, LinksSame, EndedAreClosed, OneLinkCloses
    <2> QED BY <1>1, <1>2, <2>1, <2>2, <2>3, NothingEnds
<1>6. ASSUME NEW h \in Helpers, AuxiliaryLost(h)
      PROVE  EndInv'
    <2>1. UNCHANGED <<pc, closing, client, jump, terms, streams, picture, servers, process, quitting, waits, had>>
        BY <1>6 DEF AuxiliaryLost, terminalVars, serverVars
    <2>2. \A i \in Clients : link'[i] \in {link[i], "down"}
        BY <1>6 DEF AuxiliaryLost
    <2>3. LinksClose
        BY <2>2 DEF LinksClose, Closed
    <2> QED BY <1>1, <1>3, <2>1, <2>3, NothingEnds
<1>7. ASSUME NEW g \in Gauges, StartHostMetrics(g)
      PROVE  EndInv'
    <2>1. (\E where : Go(g, where)) /\
          UNCHANGED <<closing, client, jump, link, terms, streams, picture, servers, process, quitting, waits, had>>
        BY <1>7 DEF StartHostMetrics, terminalVars, serverVars
    <2> QED BY <1>1, <1>2, <2>1, LinksSame, NothingEnds
<1>8. ASSUME PollTimer \/ \E p \in polls : PollDone(p)
      PROVE  EndInv'
    <2>1. UNCHANGED <<pc, closing, client, jump, link, terms, streams, picture, servers, process, quitting, waits, had>>
        BY <1>8 DEF PollTimer, PollDone, clientVars, terminalVars, serverVars
    <2> QED BY <1>1, <1>3, <2>1, LinksSame, NothingEnds
<1> QED BY <1>4, <1>5, <1>6, <1>7, <1>8

-----------------------------------------------------------------------------

LEMMA InitEnds == Init => EndInv
<1> SUFFICES ASSUME Init PROVE EndInv
    OBVIOUS
<1>1. PICK m \in Mixes : pc = [c \in Calls |-> IF c \in m THEN "new" ELSE "off"]
    BY DEF Init, ClientsInit
<1>2. \A x \in Calls : pc[x] \in {"new", "off"}
    BY <1>1
<1>3. Marked = {} /\ HadTyped /\ \A k \in Sweepers : ~Sweeping(k)
    <2>1. had = [k \in Sweepers |-> {}]
        BY DEF Init
    <2>2. \A k \in Sweepers : ~Sweeping(k)
        BY <1>2, LoopNames DEF Sweeping, SweepPlaces
    <2> QED BY <2>1, <2>2 DEF Marked, HadTyped
<1>4. ClientsEnd
    <2>1. client = None /\ jump = None /\ terms = {}
        BY DEF Init, ClientsInit, TerminalsInit
    <2> QED BY <1>3, <2>1 DEF ClientsEnd, ClientsTyped, HeldNow
<1>5. FilmsEnd
    BY <1>3 DEF Init, TerminalsInit, FilmsEnd
<1>6. ServersEnd
    BY <1>3 DEF Init, ServersInit, ServersEnd
<1>7. ListenersEnd
    <2>1. \A s \in Starts : pc[s] \notin {"binding", "ok"}
        BY <1>2, StartsApart
    <2> QED BY <1>3, <2>1 DEF Init, TunnelsInit, ListenersEnd
<1> QED BY <1>3, <1>4, <1>5, <1>6, <1>7 DEF EndInv

LEMMA StepEnds == EndInv /\ TunnelInv /\ CurrentInv /\ [Next]_vars => EndInv'
<1> SUFFICES ASSUME EndInv, TunnelInv, CurrentInv, [Next]_vars PROVE EndInv'
    OBVIOUS
<1>1. CASE TunnelsNext /\ UNCHANGED <<terminalVars, serverVars, ownVars>>
    BY <1>1, TunnelsEnds
<1>2. CASE TerminalsNext /\ UNCHANGED <<tunnelVars, serverVars, ownVars>>
    BY <1>2, TerminalsEnds
<1>3. CASE ServersNext /\ UNCHANGED <<tunnelVars, terminalVars, ownVars>>
    BY <1>3, ServersEnds
<1>4. CASE /\ IdleNext
           /\ UNCHANGED <<tunnelVars, terminalVars, serverVars, init, aux, auxState, poller, polls, reading, waits, had>>
    BY <1>4, IdleEnds
<1>5. CASE LifecycleNext
    <2>1. CASE \E k \in Sweepers : Sweep(k)
        BY <2>1, SweepBeginsEnds, SweepServersEnds, SweepTunnelsEnds, SweepDoneEnds DEF Sweep
    <2>2. CASE \E c \in Connects : \/ c \in Hopping /\ JumpDialed(c)
                                  \/ Dialed(c) \/ ConnectDone(c) \/ ConnectFails(c)
        BY <2>2, JumpDialedEnds, DialedEnds, ConnectOverEnds
    <2>3. CASE \E c \in Connects, e \in {"end", "close"} : InteractiveLost(c, e) \/ LostTunnelStopped(c, e)
        BY <2>3, InteractiveLostEnds, LostTunnelEnds
    <2>4. CASE \/ \E c \in Connects : SftpOpened(c) \/ HomeResolved(c) \/ SftpRefused(c) \/ ShellHomeResolved(c) \/ SocketError(c)
               \/ \E h \in Helpers :
                    \/ EnsureAuxiliary(h) \/ AuxiliaryDialed(h) \/ AuxiliaryReady(h)
                    \/ AuxiliaryFails(h) \/ AuxiliaryLost(h)
               \/ \E g \in Gauges : StartHostMetrics(g)
               \/ \E p \in polls : PollDone(p)
               \/ PollTimer
        BY <2>4, HelpersEnds
    <2> QED BY <1>5, <2>1, <2>2, <2>3, <2>4 DEF LifecycleNext
<1>6. CASE UNCHANGED vars
    <2>1. UNCHANGED <<pc, closing, client, jump, link, terms, streams, picture, servers, process, quitting, waits, had>>
        BY <1>6 DEF vars, clientVars, terminalVars, serverVars, ownVars
    <2>2. Onward({}) /\ StartsStay /\ LinksAside
        BY <2>1, OnwardStays, LinksStay DEF StartsStay, TunnelInv
    <2>3. UNCHANGED tunnelVars
        BY <1>6 DEF vars
    <2> QED BY <2>1, <2>2, <2>3, LinksSame, NothingEnds
<1> QED BY <1>1, <1>2, <1>3, <1>4, <1>5, <1>6 DEF Next

\* Only its last turn ends a loop.
LEMMA LoopsEndLast ==
    ASSUME TunnelInv, [Next]_vars, NEW k \in Sweepers, pc[k] = "tunnels", pc'[k] # "tunnels"
    PROVE  SweepDone(k)
<1>0. k \in Calls /\ PcTyped /\ LinkTyped /\ pc[k] \in Awaiting /\ ~CallsAside
    BY LoopNames DEF TunnelInv, Awaiting, CallsAside
<1>1. CASE TunnelsNext
    <2>1. UNCHANGED pc \/ \E s \in Starts \cup Stops : \E where : Go(s, where)
        BY <1>1 DEF TunnelsNext, StartTunnel, TunnelBound, TunnelRefused, TunnelUndone, StopTunnel, TunnelStopped,
                    ServerFailed, ServerFailureShown, Connection, clientVars
    <2>2. \A s \in Starts \cup Stops : s # k
        BY KindsApart DEF Plain
    <2> QED BY <1>0, <2>1, <2>2 DEF PcTyped, Go
<1>2. CASE TerminalsNext \/ ServersNext \/ IdleNext
    BY <1>0, <1>2, TerminalsAside, ServersAside, IdleAside DEF Aside
<1>3. CASE LifecycleNext
    <2>1. ASSUME NEW j \in Sweepers, SweepTunnels(j)
          PROVE  FALSE
        <3>1. UNCHANGED pc \/ Go(j, "tunnels")
            BY <2>1 DEF SweepTunnels, clientVars
        <3> QED BY <1>0, <3>1, LoopNames DEF PcTyped, Go
    <2>2. ASSUME NEW j \in Sweepers, SweepDone(j)
          PROVE  SweepDone(k)
        <3>1. \E where : Go(j, where)
            BY <2>2 DEF SweepDone
        <3>2. j = k
            BY <1>0, <3>1 DEF PcTyped, Go
        <3> QED BY <2>2, <3>2
    <2>3. ASSUME NEW c \in Connects, Dialed(c)
          PROVE  FALSE
        <3>1. pc[c] = "dialing" /\ Go(c, "starting")
            BY <2>3 DEF Dialed
        <3> QED BY <1>0, <3>1 DEF PcTyped, Go
    <2>4. ASSUME NEW c \in Connects, NEW e \in {"end", "close"}, InteractiveLost(c, e) \/ LostTunnelStopped(c, e)
          PROVE  FALSE
        BY <2>4 DEF InteractiveLost, LostTunnelStopped, clientVars
    <2>5. ASSUME \/ \E j \in Sweepers : SweepBegins(j) \/ SweepServers(j)
                 \/ \E c \in Connects :
                      \/ JumpDialed(c) \/ ConnectDone(c) \/ ConnectFails(c)
                      \/ SftpOpened(c) \/ HomeResolved(c) \/ SftpRefused(c) \/ ShellHomeResolved(c) \/ SocketError(c)
                 \/ \E h \in Helpers :
                      \/ EnsureAuxiliary(h) \/ AuxiliaryDialed(h) \/ AuxiliaryReady(h)
                      \/ AuxiliaryFails(h) \/ AuxiliaryLost(h)
                 \/ \E g \in Gauges : StartHostMetrics(g)
                 \/ \E p \in polls : PollDone(p)
                 \/ PollTimer
          PROVE  FALSE
        BY <1>0, <2>5, LifecycleAside DEF Aside
    <2> QED BY <1>3, <2>1, <2>2, <2>3, <2>4, <2>5 DEF LifecycleNext, Sweep
<1>4. CASE UNCHANGED vars
    BY <1>4 DEF vars, clientVars
<1> QED BY <1>1, <1>2, <1>3, <1>4 DEF Next

(* A disconnect leaves nothing of what the session held when it began       *)
(* (DisconnectEnds): its clients, terminals, listeners, video streams and   *)
(* language servers are closed, whichever calls, losses and other           *)
(* disconnects ran beside it, for any number of them.                       *)
THEOREM DisconnectsEnd == Spec => DisconnectEnds
<1>1. EndInv /\ TunnelInv /\ [Next]_vars =>
          [\A k \in Sweepers : pc[k] = "tunnels" /\ pc'[k] # "tunnels" => \A i \in had[k] : Gone(i, k)']_vars
    <2> SUFFICES ASSUME EndInv, TunnelInv, [Next]_vars, NEW k \in Sweepers, pc[k] = "tunnels", pc'[k] # "tunnels"
                 PROVE  \A i \in had[k] : Gone(i, k)'
        OBVIOUS
    <2>1. SweepDone(k)
        BY LoopsEndLast
    <2> QED BY <2>1, SweepDoneEnds
<1> QED BY <1>1, InitCurrent, StepCurrent, InitTunnels, StepTunnels, InitEnds, StepEnds, PTL DEF Spec, DisconnectEnds

-----------------------------------------------------------------------------
(* The idle transfers of a session: what their operators on sequences       *)
(* return.  Each inductive claim is proved from its least counterexample.   *)

LEMMA LeastOf == ASSUME NEW B \in SUBSET Nat, B # {} PROVE \E x \in B : \A y \in B : ~(y < x)
<1>1. PICK x \in B : \A y \in B : ~(<<y, x>> \in OpToRel(<, Nat))
    BY NatLessThanWellFounded, WFMin
<1>2. \A y \in B : ~(y < x)
    BY <1>1 DEF OpToRel
<1> QED BY <1>2

LEMMA CostIs == ASSUME NEW x \in Items PROVE Cost(x) \in Nat
BY IdleAssumption DEF Cost, Items

LEMMA StillApart ==
    ASSUME NEW a \in Int, NEW a0 \in Int, NEW b \in Int, NEW b0 \in Int, NEW d \in Int,
           a0 = b0 + d, a - a0 = b - b0
    PROVE  a = b + d
OBVIOUS

\* Two sums that grow by the same are as far apart at the end as at the start.
LEMMA SumsGrow ==
    ASSUME NEW m \in Nat, NEW a \in [0..m -> Int], NEW b \in [0..m -> Int], NEW d \in Int,
           a[0] = b[0] + d,
           \A n \in 1..m : a[n] - a[n - 1] = b[n] - b[n - 1]
    PROVE  a[m] = b[m] + d
<1> DEFINE At(n) == a[n] = b[n] + d
           Bad == {n \in 0..m : ~At(n)}
<1>1. ASSUME Bad # {} PROVE FALSE
    <2>1. Bad \in SUBSET Nat
        OBVIOUS
    <2>2. PICK x \in Bad : \A y \in Bad : ~(y < x)
        <3> HIDE DEF Bad
        <3> QED BY <1>1, <2>1, LeastOf
    <2>3. x \in 1..m /\ x - 1 \in 0..m /\ x - 1 < x
        BY <2>2
    <2>4. x - 1 \notin Bad
        <3> HIDE DEF Bad
        <3> QED BY <2>2, <2>3
    <2>5. At(x - 1) /\ ~At(x)
        <3> HIDE DEF At
        <3> QED BY <2>2, <2>3, <2>4
    <2>6. a[x] \in Int /\ b[x] \in Int /\ a[x - 1] \in Int /\ b[x - 1] \in Int
        BY <2>2, <2>3
    <2>7. a[x] - a[x - 1] = b[x] - b[x - 1]
        BY <2>3
    <2>8. At(x)
        <3>1. PICK u, u0, v, v0 : u = a[x] /\ u0 = a[x - 1] /\ v = b[x] /\ v0 = b[x - 1]
            OBVIOUS
        <3>2. u0 = v0 + d
            BY <2>5, <3>1
        <3>3. u \in Int /\ u0 \in Int /\ v \in Int /\ v0 \in Int /\ u - u0 = v - v0
            BY <2>6, <2>7, <3>1
        <3>4. u = v + d
            BY <3>2, <3>3, StillApart
        <3> QED BY <3>1, <3>4
    <2> QED BY <2>5, <2>8
<1>2. At(m)
    <2>1. m \in 0..m
        OBVIOUS
    <2> HIDE DEF At
    <2> QED BY <1>1, <2>1
<1> QED BY <1>2

\* The sums Bytes goes through.
Summed(q, sum) ==
    /\ sum \in [0..Len(q) -> Nat] /\ sum[0] = 0
    /\ \A n \in 1..Len(q) : sum[n] = sum[n - 1] + Cost(q[n])

LEMMA SumExists == ASSUME NEW q \in Seq(Items) PROVE \E sum : Summed(q, sum)
<1> DEFINE To(m) == \E g \in [0..m -> Nat] : g[0] = 0 /\ \A n \in 1..m : g[n] = g[n - 1] + Cost(q[n])
           Bad == {m \in 0..Len(q) : ~To(m)}
<1>1. ASSUME Bad # {} PROVE FALSE
    <2>1. Bad \in SUBSET Nat
        OBVIOUS
    <2>2. PICK x \in Bad : \A y \in Bad : ~(y < x)
        <3> HIDE DEF Bad
        <3> QED BY <1>1, <2>1, LeastOf
    <2>3. x # 0
        <3>1. [n \in 0..0 |-> 0] \in [0..0 -> Nat] /\ [n \in 0..0 |-> 0][0] = 0 /\ 1..0 = {}
            OBVIOUS
        <3>2. To(0)
            BY <3>1
        <3> HIDE DEF To
        <3> QED BY <2>2, <3>2
    <2>4. x \in Nat /\ x \in 1..Len(q) /\ x - 1 \in 0..Len(q) /\ x - 1 < x
        <3> HIDE DEF To
        <3> QED BY <2>2, <2>3
    <2>5. To(x - 1)
        <3>1. x - 1 \notin Bad
            <4> HIDE DEF Bad
            <4> QED BY <2>2, <2>4
        <3> HIDE DEF To
        <3> QED BY <2>4, <3>1
    <2>6. PICK g \in [0..(x - 1) -> Nat] : g[0] = 0 /\ \A n \in 1..(x - 1) : g[n] = g[n - 1] + Cost(q[n])
        BY <2>5
    <2>7. Cost(q[x]) \in Nat
        BY <2>4, CostIs
    <2> DEFINE h == [n \in 0..x |-> IF n = x THEN g[x - 1] + Cost(q[x]) ELSE g[n]]
    <2>8. h \in [0..x -> Nat]
        BY <2>4, <2>6, <2>7
    <2>9. h[0] = 0 /\ \A n \in 1..x : h[n] = h[n - 1] + Cost(q[n])
        <3>1. h[0] = 0
            BY <2>3, <2>4, <2>6
        <3>2. ASSUME NEW n \in 1..x PROVE h[n] = h[n - 1] + Cost(q[n])
            <4>1. CASE n = x
                BY <2>4, <4>1
            <4>2. CASE n # x
                <5>1. n \in 1..(x - 1) /\ n - 1 # x /\ n - 1 \in 0..x /\ n \in 0..x
                    BY <2>4, <4>2
                <5>2. h[n] = g[n] /\ h[n - 1] = g[n - 1]
                    BY <4>2, <5>1
                <5> QED BY <2>6, <5>1, <5>2
            <4> QED BY <4>1, <4>2
        <3> QED BY <3>1, <3>2
    <2>10. To(x)
        <3> HIDE DEF h
        <3> QED BY <2>8, <2>9
    <2> HIDE DEF To
    <2> QED BY <2>2, <2>10
<1>2. To(Len(q))
    <2> HIDE DEF To
    <2> QED BY <1>1
<1> QED BY <1>2 DEF Summed

LEMMA BytesIs == ASSUME NEW q \in Seq(Items) PROVE \E sum : Summed(q, sum) /\ Bytes(q) = sum[Len(q)]
<1> DEFINE Step(f) == [n \in 0..Len(q) |-> IF n = 0 THEN 0 ELSE f[n - 1] + Cost(q[n])]
           f == CHOOSE f : f = Step(f)
<1>1. PICK g : Summed(q, g)
    BY SumExists
<1>2. g = Step(g)
    <2>1. g \in [0..Len(q) -> Nat] /\ DOMAIN Step(g) = 0..Len(q)
        BY <1>1 DEF Summed
    <2>2. ASSUME NEW n \in 0..Len(q) PROVE g[n] = Step(g)[n]
        BY <1>1 DEF Summed
    <2>3. Step(g) = [n \in 0..Len(q) |-> Step(g)[n]]
        OBVIOUS
    <2> HIDE DEF Step
    <2> QED BY <2>1, <2>2, <2>3
<1>3. f = Step(f)
    <2> HIDE DEF Step
    <2> QED BY <1>2
<1>4. Bytes(q) = f[Len(q)]
    BY DEF Bytes
<1> HIDE DEF f
<1>5. f[0] = 0 /\ \A n \in 1..Len(q) : f[n] = f[n - 1] + Cost(q[n])
    <2>1. \A n \in 0..Len(q) : f[n] = IF n = 0 THEN 0 ELSE f[n - 1] + Cost(q[n])
        BY <1>3
    <2> QED BY <2>1
<1> DEFINE Bad == {n \in 0..Len(q) : f[n] # g[n]}
<1>6. ASSUME Bad # {} PROVE FALSE
    <2>1. Bad \in SUBSET Nat
        OBVIOUS
    <2>2. PICK x \in Bad : \A y \in Bad : ~(y < x)
        <3> HIDE DEF Bad
        <3> QED BY <1>6, <2>1, LeastOf
    <2>3. x # 0
        BY <1>1, <1>5, <2>2 DEF Summed
    <2>4. x \in 1..Len(q) /\ x - 1 \in 0..Len(q) /\ x - 1 < x
        BY <2>2, <2>3
    <2>5. x - 1 \notin Bad
        <3> HIDE DEF Bad
        <3> QED BY <2>2, <2>4
    <2>6. f[x - 1] = g[x - 1]
        BY <2>4, <2>5
    <2> QED BY <1>1, <1>5, <2>2, <2>4, <2>6 DEF Summed
<1>7. f = g
    <2>1. f = [n \in 0..Len(q) |-> f[n]]
        BY <1>3
    <2>2. g = [n \in 0..Len(q) |-> g[n]]
        BY <1>1 DEF Summed
    <2>3. \A n \in 0..Len(q) : f[n] = g[n]
        BY <1>6
    <2> QED BY <2>1, <2>2, <2>3
<1> QED BY <1>1, <1>4, <1>7

LEMMA BytesAreNat == ASSUME NEW q \in Seq(Items) PROVE Bytes(q) \in Nat
<1>1. PICK s : Summed(q, s) /\ Bytes(q) = s[Len(q)]
    BY BytesIs
<1> QED BY <1>1 DEF Summed

LEMMA BytesEmpty == Bytes(<<>>) = 0
<1>0. <<>> \in Seq(Items)
    OBVIOUS
<1>1. PICK s : Summed(<<>>, s) /\ Bytes(<<>>) = s[Len(<<>>)]
    BY <1>0, BytesIs
<1> QED BY <1>1 DEF Summed

\* One more behind.
LEMMA BytesAppend ==
    ASSUME NEW q \in Seq(Items), NEW x \in Items PROVE Bytes(Append(q, x)) = Bytes(q) + Cost(x)
<1>1. PICK s : Summed(q, s) /\ Bytes(q) = s[Len(q)]
    BY BytesIs
<1>0. Append(q, x) \in Seq(Items)
    OBVIOUS
<1>2. PICK t : Summed(Append(q, x), t) /\ Bytes(Append(q, x)) = t[Len(Append(q, x))]
    BY <1>0, BytesIs
<1> DEFINE m == Len(q)
           b == [n \in 0..m |-> t[n]]
<1>3. m \in Nat /\ Len(Append(q, x)) = m + 1 /\ Append(q, x)[m + 1] = x /\ \A n \in 1..m : Append(q, x)[n] = q[n]
    OBVIOUS
<1>4. s \in [0..m -> Nat] /\ s[0] = 0 /\ \A n \in 1..m : s[n] = s[n - 1] + Cost(q[n])
    BY <1>1 DEF Summed
<1>5. t \in [0..(m + 1) -> Nat] /\ t[0] = 0 /\ \A n \in 1..(m + 1) : t[n] = t[n - 1] + Cost(Append(q, x)[n])
    BY <1>2, <1>3 DEF Summed
<1>6. \A n \in 1..m : Cost(q[n]) \in Nat
    BY CostIs
<1> HIDE DEF m
<1>7. s \in [0..m -> Int] /\ b \in [0..m -> Int] /\ b[0] = s[0] + 0
    BY <1>3, <1>4, <1>5
<1>8. ASSUME NEW n \in 1..m PROVE b[n] - b[n - 1] = s[n] - s[n - 1]
    <2>1. n \in 1..(m + 1) /\ n \in 0..m /\ n - 1 \in 0..m /\ n - 1 \in 0..(m + 1) /\ n \in 0..(m + 1)
        BY <1>3
    <2>2. b[n] = t[n] /\ b[n - 1] = t[n - 1]
        BY <2>1
    <2>3. t[n] = t[n - 1] + Cost(q[n]) /\ s[n] = s[n - 1] + Cost(q[n])
        BY <1>3, <1>4, <1>5, <2>1
    <2>4. t[n - 1] \in Nat /\ s[n - 1] \in Nat /\ Cost(q[n]) \in Nat
        BY <1>4, <1>5, <1>6, <2>1
    <2> QED BY <2>2, <2>3, <2>4
<1>9. b[m] = s[m] + 0
    <2>1. m \in Nat /\ \A n \in 1..m : b[n] - b[n - 1] = s[n] - s[n - 1]
        BY <1>3, <1>8
    <2>2. 0 \in Int
        OBVIOUS
    <2> HIDE DEF b
    <2> QED BY <1>7, <2>1, <2>2, SumsGrow
<1>10. b[m] = t[m] /\ s[m] \in Nat /\ t[m + 1] = t[(m + 1) - 1] + Cost(x) /\ (m + 1) - 1 = m
    BY <1>3, <1>4, <1>5
<1> QED BY <1>1, <1>2, <1>3, <1>9, <1>10 DEF m

\* One fewer in front.
LEMMA BytesTail ==
    ASSUME NEW q \in Seq(Items), q # <<>> PROVE Bytes(q) = Cost(Head(q)) + Bytes(Tail(q))
<1>1. PICK s : Summed(q, s) /\ Bytes(q) = s[Len(q)]
    BY BytesIs
<1>0. Tail(q) \in Seq(Items)
    OBVIOUS
<1>2. PICK t : Summed(Tail(q), t) /\ Bytes(Tail(q)) = t[Len(Tail(q))]
    BY <1>0, BytesIs
<1> DEFINE m == Len(Tail(q))
           a == [n \in 0..m |-> s[n + 1]]
<1>3. m \in Nat /\ Len(q) = m + 1 /\ Head(q) = q[1] /\ (\A n \in 1..m : Tail(q)[n] = q[n + 1]) /\ Tail(q) \in Seq(Items)
    OBVIOUS
<1>4. s \in [0..(m + 1) -> Nat] /\ s[0] = 0 /\ \A n \in 1..(m + 1) : s[n] = s[n - 1] + Cost(q[n])
    BY <1>1, <1>3 DEF Summed
<1>5. t \in [0..m -> Nat] /\ t[0] = 0 /\ \A n \in 1..m : t[n] = t[n - 1] + Cost(Tail(q)[n])
    BY <1>2 DEF Summed
<1>6. (\A n \in 1..m : Cost(q[n + 1]) \in Nat) /\ Cost(q[1]) \in Nat
    BY <1>3, CostIs
<1> HIDE DEF m
<1>7. t \in [0..m -> Int] /\ a \in [0..m -> Int] /\ a[0] = t[0] + Cost(q[1])
    <2>1. s[1] = s[1 - 1] + Cost(q[1]) /\ 1 - 1 = 0 /\ a[0] = s[0 + 1]
        BY <1>3, <1>4
    <2> QED BY <1>3, <1>4, <1>5, <1>6, <2>1
<1>8. ASSUME NEW n \in 1..m PROVE a[n] - a[n - 1] = t[n] - t[n - 1]
    <2>1. n + 1 \in 1..(m + 1) /\ n \in 0..m /\ n - 1 \in 0..m /\ n \in 0..(m + 1) /\ (n - 1) + 1 = n /\ (n + 1) - 1 = n
        BY <1>3
    <2>2. a[n] = s[n + 1] /\ a[n - 1] = s[n]
        BY <2>1
    <2>3. s[n + 1] = s[n] + Cost(q[n + 1]) /\ t[n] = t[n - 1] + Cost(q[n + 1])
        BY <1>3, <1>4, <1>5, <2>1
    <2>4. t[n - 1] \in Nat /\ s[n] \in Nat /\ Cost(q[n + 1]) \in Nat
        BY <1>4, <1>5, <1>6, <2>1
    <2> QED BY <2>2, <2>3, <2>4
<1>9. a[m] = t[m] + Cost(q[1])
    <2>1. m \in Nat /\ Cost(q[1]) \in Int /\ \A n \in 1..m : a[n] - a[n - 1] = t[n] - t[n - 1]
        <3>1. m \in Nat /\ Cost(q[1]) \in Int
            BY <1>3, <1>6
        <3> QED BY <3>1, <1>8
    <2> HIDE DEF a
    <2> QED BY <1>7, <2>1, SumsGrow
<1>10. a[m] = s[m + 1] /\ t[m] \in Nat
    BY <1>3, <1>5
<1> QED BY <1>1, <1>2, <1>3, <1>6, <1>9, <1>10 DEF m

\* What Kept keeps: items of these places, and no more bytes than there were.
LEMMA KeptAre ==
    ASSUME NEW q \in Seq(Items), NEW P
    PROVE  /\ Kept(q, P) \in Seq(Items)
           /\ \A i \in DOMAIN Kept(q, P) : \E j \in DOMAIN q : j \in P /\ Kept(q, P)[i] = q[j]
           /\ Bytes(Kept(q, P)) <= Bytes(q)
<1> DEFINE Step(f) == [n \in 0..Len(q) |-> IF n = 0 THEN <<>> ELSE IF n \in P THEN Append(f[n - 1], q[n]) ELSE f[n - 1]]
           f == CHOOSE f : f = Step(f)
           To(m) == \E g : \A n \in 0..m : g[n] = IF n = 0 THEN <<>> ELSE IF n \in P THEN Append(g[n - 1], q[n]) ELSE g[n - 1]
           Bad == {m \in 0..Len(q) : ~To(m)}
<1>1. ASSUME Bad # {} PROVE FALSE
    <2>1. Bad \in SUBSET Nat
        OBVIOUS
    <2>2. PICK x \in Bad : \A y \in Bad : ~(y < x)
        <3> HIDE DEF Bad
        <3> QED BY <1>1, <2>1, LeastOf
    <2>3. x # 0
        <3>1. [n \in 0..0 |-> <<>>][0] = <<>> /\ \A n \in 0..0 : n = 0
            OBVIOUS
        <3>2. To(0)
            BY <3>1
        <3> HIDE DEF To
        <3> QED BY <2>2, <3>2
    <2>4. x \in Nat /\ x \in 1..Len(q) /\ x - 1 \in 0..Len(q) /\ x - 1 < x
        <3> HIDE DEF To
        <3> QED BY <2>2, <2>3
    <2>5. To(x - 1)
        <3>1. x - 1 \notin Bad
            <4> HIDE DEF Bad
            <4> QED BY <2>2, <2>4
        <3> HIDE DEF To
        <3> QED BY <2>4, <3>1
    <2>6. PICK g : \A n \in 0..(x - 1) : g[n] = IF n = 0 THEN <<>> ELSE IF n \in P THEN Append(g[n - 1], q[n]) ELSE g[n - 1]
        BY <2>5
    <2> DEFINE h == [n \in 0..x |-> IF n # x THEN g[n] ELSE IF x \in P THEN Append(g[x - 1], q[x]) ELSE g[x - 1]]
    <2>7. ASSUME NEW n \in 0..x
          PROVE  h[n] = IF n = 0 THEN <<>> ELSE IF n \in P THEN Append(h[n - 1], q[n]) ELSE h[n - 1]
        <3>1. CASE n = x
            <4>1. x - 1 \in 0..x /\ x - 1 # x
                BY <2>4
            <4> QED BY <2>3, <3>1, <4>1
        <3>2. CASE n # x
            <4>1. n \in 0..(x - 1) /\ h[n] = g[n]
                BY <2>4, <3>2
            <4>2. n # 0 => n - 1 \in 0..x /\ n - 1 # x
                BY <2>4, <3>2
            <4>3. n # 0 => h[n - 1] = g[n - 1]
                BY <4>2
            <4> HIDE DEF h
            <4> QED BY <2>6, <4>1, <4>3
        <3> QED BY <3>1, <3>2
    <2>8. To(x)
        <3> HIDE DEF h
        <3> QED BY <2>7
    <2> HIDE DEF To
    <2> QED BY <2>2, <2>8
<1>2. To(Len(q))
    <2> HIDE DEF To
    <2> QED BY <1>1
<1>3. PICK g : \A n \in 0..Len(q) : g[n] = IF n = 0 THEN <<>> ELSE IF n \in P THEN Append(g[n - 1], q[n]) ELSE g[n - 1]
    BY <1>2
<1>4. [n \in 0..Len(q) |-> g[n]] = Step([n \in 0..Len(q) |-> g[n]])
    <2> DEFINE k == [n \in 0..Len(q) |-> g[n]]
    <2>1. ASSUME NEW n \in 0..Len(q) PROVE k[n] = Step(k)[n]
        <3>1. n # 0 => n - 1 \in 0..Len(q)
            OBVIOUS
        <3>2. k[n] = g[n] /\ (n # 0 => k[n - 1] = g[n - 1])
            BY <3>1
        <3> HIDE DEF k
        <3> QED BY <1>3, <3>2
    <2>2. Step(k) = [n \in 0..Len(q) |-> Step(k)[n]]
        OBVIOUS
    <2> HIDE DEF Step
    <2> QED BY <2>1, <2>2
<1>5. f = Step(f)
    <2> HIDE DEF Step
    <2> QED BY <1>4
<1>6. Kept(q, P) = f[Len(q)]
    BY DEF Kept
<1> HIDE DEF f, To, Bad
<1>7. \A n \in 0..Len(q) : f[n] = IF n = 0 THEN <<>> ELSE IF n \in P THEN Append(f[n - 1], q[n]) ELSE f[n - 1]
    BY <1>5
<1>8. PICK s : Summed(q, s) /\ Bytes(q) = s[Len(q)]
    BY BytesIs
<1> HIDE DEF Step
<1> DEFINE Good(n) == /\ f[n] \in Seq(Items)
                      /\ \A i \in DOMAIN f[n] : \E j \in DOMAIN q : j \in P /\ f[n][i] = q[j]
                      /\ Bytes(f[n]) <= s[n]
           Poor == {n \in 0..Len(q) : ~Good(n)}
<1>9. Good(0)
    <2>1. f[0] = <<>> /\ s[0] = 0
        BY <1>7, <1>8 DEF Summed
    <2> QED BY <2>1, BytesEmpty
<1>10. ASSUME NEW n \in 1..Len(q), Good(n - 1) PROVE Good(n)
    <2>1. n \in 0..Len(q) /\ n # 0 /\ n - 1 \in 0..Len(q) /\ n \in DOMAIN q /\ q[n] \in Items
        OBVIOUS
    <2>2. Bytes(f[n - 1]) \in Nat /\ s[n - 1] \in Nat /\ Cost(q[n]) \in Nat /\ s[n] = s[n - 1] + Cost(q[n])
        BY <1>8, <1>10, <2>1, BytesAreNat, CostIs DEF Summed
    <2>3. CASE n \in P
        <3>1. f[n] = Append(f[n - 1], q[n])
            BY <1>7, <2>1, <2>3
        <3>2. Bytes(f[n]) = Bytes(f[n - 1]) + Cost(q[n])
            BY <1>10, <2>1, <3>1, BytesAppend
        <3>3. Bytes(f[n]) <= s[n]
            <4>1. Bytes(f[n - 1]) <= s[n - 1]
                BY <1>10
            <4>2. PICK b, t, c : b = Bytes(f[n - 1]) /\ t = s[n - 1] /\ c = Cost(q[n])
                OBVIOUS
            <4>3. b \in Nat /\ t \in Nat /\ c \in Nat /\ b <= t
                BY <2>2, <4>1, <4>2
            <4>4. b + c <= t + c
                BY <4>3
            <4> QED BY <2>2, <3>2, <4>2, <4>4
        <3>4. f[n] \in Seq(Items) /\ \A i \in DOMAIN f[n] : \E j \in DOMAIN q : j \in P /\ f[n][i] = q[j]
            <4>1. PICK p : p = f[n - 1]
                OBVIOUS
            <4>2. p \in Seq(Items) /\ \A i \in DOMAIN p : \E j \in DOMAIN q : j \in P /\ p[i] = q[j]
                BY <1>10, <4>1
            <4>3. Append(p, q[n]) \in Seq(Items)
                BY <2>1, <4>2
            <4>4. ASSUME NEW i \in DOMAIN Append(p, q[n]) PROVE \E j \in DOMAIN q : j \in P /\ Append(p, q[n])[i] = q[j]
                <5>1. CASE i \in DOMAIN p
                    <6>1. Append(p, q[n])[i] = p[i]
                        BY <4>2, <5>1
                    <6> QED BY <4>2, <5>1, <6>1
                <5>2. CASE i \notin DOMAIN p
                    <6>1. Append(p, q[n])[i] = q[n]
                        BY <4>2, <5>2
                    <6> QED BY <2>1, <2>3, <6>1
                <5> QED BY <5>1, <5>2
            <4> QED BY <3>1, <4>1, <4>3, <4>4
        <3> QED BY <3>3, <3>4
    <2>4. CASE n \notin P
        <3>1. f[n] = f[n - 1]
            BY <1>7, <2>1, <2>4
        <3>2. Bytes(f[n]) <= s[n]
            <4>1. Bytes(f[n - 1]) <= s[n - 1]
                BY <1>10
            <4>2. PICK b, t, c : b = Bytes(f[n - 1]) /\ t = s[n - 1] /\ c = Cost(q[n])
                OBVIOUS
            <4>3. b \in Nat /\ t \in Nat /\ c \in Nat /\ b <= t
                BY <2>2, <4>1, <4>2
            <4>4. b <= t + c
                BY <4>3
            <4> QED BY <2>2, <3>1, <4>2, <4>4
        <3> QED BY <1>10, <3>1, <3>2
    <2> QED BY <2>3, <2>4
<1> HIDE DEF Good
<1>11. ASSUME Poor # {} PROVE FALSE
    <2>1. Poor \in SUBSET Nat
        OBVIOUS
    <2>2. PICK x \in Poor : \A y \in Poor : ~(y < x)
        <3> HIDE DEF Poor
        <3> QED BY <1>11, <2>1, LeastOf
    <2>3. x \in 1..Len(q) /\ x - 1 \in 0..Len(q) /\ x - 1 < x
        BY <1>9, <2>2
    <2>4. x - 1 \notin Poor
        <3> HIDE DEF Poor
        <3> QED BY <2>2, <2>3
    <2> QED BY <1>10, <2>2, <2>3, <2>4
<1>12. Good(Len(q))
    BY <1>11
<1> QED BY <1>6, <1>8, <1>12 DEF Good

\* Without items for the cache there is nothing to reserve.
LEMMA NothingToReserve ==
    ASSUME NEW q \in Seq(Items), \A i \in DOMAIN q : ~q[i].cache PROVE Bytes(q) = 0
<1>1. PICK s : Summed(q, s) /\ Bytes(q) = s[Len(q)]
    BY BytesIs
<1> DEFINE Bad == {n \in 0..Len(q) : s[n] # 0}
<1>2. ASSUME Bad # {} PROVE FALSE
    <2>1. Bad \in SUBSET Nat
        OBVIOUS
    <2>2. PICK x \in Bad : \A y \in Bad : ~(y < x)
        <3> HIDE DEF Bad
        <3> QED BY <1>2, <2>1, LeastOf
    <2>3. x \in 1..Len(q) /\ x - 1 \in 0..Len(q) /\ x - 1 < x
        BY <1>1, <2>2 DEF Summed
    <2>4. s[x - 1] = 0
        <3>1. x - 1 \notin Bad
            <4> HIDE DEF Bad
            <4> QED BY <2>2, <2>3
        <3> QED BY <2>3, <3>1
    <2>5. Cost(q[x]) = 0 /\ s[x] = s[x - 1] + Cost(q[x])
        BY <1>1, <2>3 DEF Cost, Summed
    <2> QED BY <2>2, <2>4, <2>5
<1>3. s[Len(q)] = 0
    BY <1>2
<1> QED BY <1>1, <1>3

\* What a listing fills, and what of it is from the listing.
Fillings == [dirs : Seq(Dirs), reserved : Nat, queue : Seq(Items)]

Fills(w, start, st) ==
    /\ st \in Fillings /\ st.reserved >= start.reserved /\ Bytes(st.queue) >= Bytes(start.queue)
    /\ \A i \in DOMAIN st.queue :
        \/ \E j \in DOMAIN start.queue : st.queue[i] = start.queue[j]
        \/ st.queue[i].of = walk[w].from /\ (st.queue[i].cache => w \in Scans /\ st.reserved > start.reserved)

LEMMA ScansAndGrabs == Scans \cap Grabs = {} /\ Scans \cup Grabs \subseteq Calls
<1>1. 15 \in 1..17 /\ 16 \in 1..17 /\ Kinds[15] = Scans /\ Kinds[16] = Grabs
    BY DEF Kinds
<1> QED BY <1>1, KindsDiffer DEF Calls, Others

LEMMA ItemIs ==
    ASSUME NEW w \in Scans \cup Grabs, walk[w].from \in Connects, NEW p \in DOMAIN Size, w \in Scans => p \in Media
    PROVE  /\ Item(w, p) \in Items /\ Item(w, p).of = walk[w].from /\ Item(w, p).path = p
           /\ Item(w, p).cache <=> w \in Scans
<1> DEFINE Made(b) == [path |-> p, cache |-> b, by |-> w, of |-> walk[w].from]
<1>1. PICK b \in BOOLEAN : b = (w \in Scans)
    <2>1. (w \in Scans) \in BOOLEAN
        BY SMT
    <2> QED BY <2>1, Zenon
<1>2. Item(w, p) = Made(b)
    BY <1>1, Zenon DEF Item
<1>3. Made(b) \in [path : DOMAIN Size, cache : BOOLEAN, by : Scans \cup Grabs, of : Connects]
    OBVIOUS
<1>4. Made(b).cache = b /\ Made(b).path = p /\ Made(b).of = walk[w].from
    OBVIOUS
<1>5. b <=> w \in Scans
    BY <1>1, Zenon
<1>6. Made(b) \in Items
    <2>1. Made(b).cache => Made(b).path \in Media
        BY <1>4, <1>5, Zenon
    <2> HIDE DEF Made
    <2> QED BY <1>3, <2>1, Zenon DEF Items
<1> HIDE DEF Made
<1> QED BY <1>2, <1>4, <1>5, <1>6, Zenon

LEMMA AppendIs ==
    ASSUME NEW S, NEW q \in Seq(S), NEW x \in S
    PROVE  /\ Append(q, x) \in Seq(S) /\ Len(Append(q, x)) = Len(q) + 1
           /\ \A i \in DOMAIN Append(q, x) : (i \in DOMAIN q /\ Append(q, x)[i] = q[i]) \/ Append(q, x)[i] = x
OBVIOUS

LEMMA EntryFills ==
    ASSUME NEW w \in Scans \cup Grabs, walk[w].from \in Connects, NEW start \in Fillings, NEW st,
           Fills(w, start, st), NEW e \in Dirs \cup DOMAIN Size
    PROVE  Fills(w, start, Entered(w, st, e))
<1>1. st \in Fillings /\ st.queue \in Seq(Items) /\ st.reserved \in Nat /\ st.dirs \in Seq(Dirs)
    BY DEF Fills, Fillings
<1> DEFINE Old(x, r) == \/ \E j \in DOMAIN start.queue : x = start.queue[j]
                        \/ x.of = walk[w].from /\ (x.cache => w \in Scans /\ r > start.reserved)
<1>2. \A i \in DOMAIN st.queue : Old(st.queue[i], st.reserved)
    BY DEF Fills
<1>0. start.reserved \in Nat /\ start.queue \in Seq(Items)
    BY DEF Fillings
<1>3. CASE e \in Dirs
    <2>1. Entered(w, st, e) = [st EXCEPT !.dirs = Append(@, e)]
        BY <1>3 DEF Entered, Scanned, Taken
    <2>2. Append(st.dirs, e) \in Seq(Dirs)
        BY <1>1, <1>3
    <2>3. [st EXCEPT !.dirs = Append(@, e)] \in Fillings
        BY <1>1, <2>2 DEF Fillings
    <2>4. [st EXCEPT !.dirs = Append(@, e)].queue = st.queue /\ [st EXCEPT !.dirs = Append(@, e)].reserved = st.reserved
        BY <1>1 DEF Fillings
    <2> QED BY <2>1, <2>3, <2>4 DEF Fills
<1>4. ASSUME e \notin Dirs, NEW r \in Nat, r >= st.reserved, w \in Scans => e \in Media /\ r > start.reserved
      PROVE  Fills(w, start, [st EXCEPT !.reserved = r, !.queue = Queued(st.queue, Item(w, e))])
    <2>1. e \in DOMAIN Size
        BY <1>4
    <2>2. /\ Item(w, e) \in Items /\ Item(w, e).of = walk[w].from
          /\ Item(w, e).cache <=> w \in Scans
        BY <1>4, <2>1, ItemIs
    <2> DEFINE x == Item(w, e)
               q == Queued(st.queue, x)
    <2> HIDE DEF x
    <2>3. q \in Seq(Items) /\ \A i \in DOMAIN q : (\E j \in DOMAIN st.queue : q[i] = st.queue[j]) \/ q[i] = x
        <3>1. q = st.queue \/ q = Append(st.queue, x)
            BY DEF Queued
        <3>2. x \in Items
            BY <2>2 DEF x
        <3>3. CASE q = Append(st.queue, x)
            BY <1>1, <3>2, <3>3, AppendIs
        <3> QED BY <1>1, <3>1, <3>3
    <2>9. Bytes(q) >= Bytes(start.queue)
        <3>1. PICK a, b : a = Bytes(start.queue) /\ b = Bytes(st.queue)
            OBVIOUS
        <3>2. a \in Nat /\ b \in Nat /\ b >= a
            BY <1>0, <1>1, <3>1, BytesAreNat DEF Fills
        <3>3. CASE q = st.queue
            BY <3>1, <3>2, <3>3
        <3>4. CASE q = Append(st.queue, x)
            <4>1. x \in Items
                BY <2>2 DEF x
            <4>2. PICK d : d = Cost(x)
                OBVIOUS
            <4>3. d \in Nat /\ Bytes(q) = b + d
                BY <1>1, <3>1, <3>4, <4>1, <4>2, BytesAppend, CostIs
            <4>4. b + d >= a
                BY <3>2, <4>3
            <4> QED BY <3>1, <4>3, <4>4
        <3>5. q = st.queue \/ q = Append(st.queue, x)
            BY DEF Queued
        <3> HIDE DEF q
        <3> QED BY <3>3, <3>4, <3>5
    <2> HIDE DEF q
    <2>4. \A i \in DOMAIN q : Old(q[i], r)
        <3>1. Old(x, r)
            BY <1>4, <2>2 DEF x
        <3>2. ASSUME NEW j \in DOMAIN st.queue PROVE Old(st.queue[j], r)
            <4>1. Old(st.queue[j], st.reserved)
                BY <1>2
            <4>2. st.reserved > start.reserved => r > start.reserved
                BY <1>0, <1>1, <1>4
            <4> QED BY <4>1, <4>2
        <3> HIDE DEF Old
        <3> QED BY <2>3, <3>1, <3>2
    <2>5. PICK t : t = [st EXCEPT !.reserved = r, !.queue = q]
        OBVIOUS
    <2>6. t \in Fillings /\ t.queue = q /\ t.reserved = r
        BY <1>1, <1>4, <2>3, <2>5 DEF Fillings
    <2>7. r >= start.reserved
        <3>1. st.reserved >= start.reserved
            BY DEF Fills
        <3> QED BY <1>0, <1>1, <1>4, <3>1
    <2>8. Fills(w, start, t)
        BY <2>4, <2>6, <2>7, <2>9 DEF Fills
    <2> QED BY <2>5, <2>8 DEF q, x
<1>5. CASE e \notin Dirs /\ w \in Scans
    <2>1. Entered(w, st, e) = Scanned(w, st, e)
        BY <1>5 DEF Entered
    <2>2. CASE e \notin Media \/ Size[e] = 0 \/ st.reserved + Size[e] > CacheLimit \/ e \in cached
        <3>1. Scanned(w, st, e) = st
            BY <1>5, <2>2 DEF Scanned
        <3> QED BY <2>1, <3>1
    <2>3. CASE ~(e \notin Media \/ Size[e] = 0 \/ st.reserved + Size[e] > CacheLimit \/ e \in cached)
        <3>1. Scanned(w, st, e) = [st EXCEPT !.reserved = @ + Size[e], !.queue = Queued(@, Item(w, e))]
            BY <1>5, <2>3 DEF Scanned
        <3>2. Size[e] \in Nat /\ Size[e] # 0
            BY <1>5, <2>3, IdleAssumption
        <3>3. PICK r : r = st.reserved + Size[e]
            OBVIOUS
        <3>4. r \in Nat /\ r > st.reserved
            BY <1>1, <3>2, <3>3
        <3>5. r > start.reserved
            <4>1. st.reserved >= start.reserved
                BY DEF Fills
            <4> QED BY <1>0, <1>1, <3>4, <4>1
        <3>6. Fills(w, start, [st EXCEPT !.reserved = r, !.queue = Queued(st.queue, Item(w, e))])
            <4>1. r \in Nat /\ r >= st.reserved /\ (w \in Scans => e \in Media /\ r > start.reserved)
                BY <1>1, <2>3, <3>4, <3>5
            <4> QED BY <1>4, <1>5, <4>1
        <3>7. Scanned(w, st, e) = [st EXCEPT !.reserved = r, !.queue = Queued(st.queue, Item(w, e))]
            BY <1>1, <3>1, <3>3 DEF Fillings
        <3> QED BY <2>1, <3>6, <3>7
    <2> QED BY <2>2, <2>3
<1>6. CASE e \notin Dirs /\ w \notin Scans
    <2>1. Entered(w, st, e) = [st EXCEPT !.queue = Queued(@, Item(w, e))]
        BY <1>6 DEF Entered, Taken
    <2>2. Fills(w, start, [st EXCEPT !.reserved = st.reserved, !.queue = Queued(st.queue, Item(w, e))])
        <3>1. PICK r : r = st.reserved
            OBVIOUS
        <3>2. r \in Nat /\ r >= st.reserved
            BY <1>1, <3>1
        <3>3. Fills(w, start, [st EXCEPT !.reserved = r, !.queue = Queued(st.queue, Item(w, e))])
            BY <1>4, <1>6, <3>2
        <3> QED BY <3>1, <3>3
    <2>3. [st EXCEPT !.reserved = st.reserved, !.queue = Queued(st.queue, Item(w, e))] = [st EXCEPT !.queue = Queued(@, Item(w, e))]
        BY <1>1 DEF Fillings
    <2> QED BY <2>1, <2>2, <2>3
<1> QED BY <1>3, <1>5, <1>6

LEMMA ReadFills ==
    ASSUME NEW w \in Scans \cup Grabs, walk[w].from \in Connects, NEW start \in Fillings,
           NEW es \in Seq(Dirs \cup DOMAIN Size)
    PROVE  Fills(w, start, Read(w, start, es))
<1> DEFINE Step(f) == [n \in 0..Len(es) |-> IF n = 0 THEN start ELSE Entered(w, f[n - 1], es[n])]
           f == CHOOSE f : f = Step(f)
           To(m) == \E g : \A n \in 0..m : g[n] = IF n = 0 THEN start ELSE Entered(w, g[n - 1], es[n])
           Bad == {m \in 0..Len(es) : ~To(m)}
<1>1. ASSUME Bad # {} PROVE FALSE
    <2>1. Bad \in SUBSET Nat
        OBVIOUS
    <2>2. PICK x \in Bad : \A y \in Bad : ~(y < x)
        <3> HIDE DEF Bad
        <3> QED BY <1>1, <2>1, LeastOf
    <2>3. x # 0
        <3>1. [n \in 0..0 |-> start][0] = start /\ \A n \in 0..0 : n = 0
            OBVIOUS
        <3>2. To(0)
            BY <3>1
        <3> HIDE DEF To
        <3> QED BY <2>2, <3>2
    <2>4. x \in Nat /\ x \in 1..Len(es) /\ x - 1 \in 0..Len(es) /\ x - 1 < x
        <3> HIDE DEF To
        <3> QED BY <2>2, <2>3
    <2>5. To(x - 1)
        <3>1. x - 1 \notin Bad
            <4> HIDE DEF Bad
            <4> QED BY <2>2, <2>4
        <3> HIDE DEF To
        <3> QED BY <2>4, <3>1
    <2>6. PICK g : \A n \in 0..(x - 1) : g[n] = IF n = 0 THEN start ELSE Entered(w, g[n - 1], es[n])
        BY <2>5
    <2> DEFINE h == [n \in 0..x |-> IF n # x THEN g[n] ELSE Entered(w, g[x - 1], es[x])]
    <2>7. ASSUME NEW n \in 0..x
          PROVE  h[n] = IF n = 0 THEN start ELSE Entered(w, h[n - 1], es[n])
        <3>1. CASE n = x
            <4>1. x - 1 \in 0..x /\ x - 1 # x
                BY <2>4
            <4>2. h[x] = Entered(w, g[x - 1], es[x]) /\ h[x - 1] = g[x - 1]
                BY <2>4, <4>1
            <4> HIDE DEF h
            <4> QED BY <2>3, <3>1, <4>2
        <3>2. CASE n # x
            <4>1. n \in 0..(x - 1) /\ h[n] = g[n]
                BY <2>4, <3>2
            <4>2. n # 0 => n - 1 \in 0..x /\ n - 1 # x
                BY <2>4, <3>2
            <4>3. n # 0 => h[n - 1] = g[n - 1]
                BY <4>2
            <4> HIDE DEF h
            <4> QED BY <2>6, <4>1, <4>3
        <3> QED BY <3>1, <3>2
    <2>8. To(x)
        <3> HIDE DEF h
        <3> QED BY <2>7
    <2> HIDE DEF To
    <2> QED BY <2>2, <2>8
<1>2. To(Len(es))
    <2> HIDE DEF To
    <2> QED BY <1>1
<1>3. PICK g : \A n \in 0..Len(es) : g[n] = IF n = 0 THEN start ELSE Entered(w, g[n - 1], es[n])
    BY <1>2
<1>4. [n \in 0..Len(es) |-> g[n]] = Step([n \in 0..Len(es) |-> g[n]])
    <2> DEFINE k == [n \in 0..Len(es) |-> g[n]]
    <2>1. ASSUME NEW n \in 0..Len(es) PROVE k[n] = Step(k)[n]
        <3>1. n # 0 => n - 1 \in 0..Len(es)
            OBVIOUS
        <3>2. k[n] = g[n] /\ (n # 0 => k[n - 1] = g[n - 1])
            BY <3>1
        <3> HIDE DEF k
        <3> QED BY <1>3, <3>2
    <2>2. Step(k) = [n \in 0..Len(es) |-> Step(k)[n]]
        OBVIOUS
    <2> HIDE DEF Step
    <2> QED BY <2>1, <2>2
<1>5. f = Step(f)
    <2> HIDE DEF Step
    <2> QED BY <1>4
<1>6. Read(w, start, es) = f[Len(es)]
    BY DEF Read
<1> HIDE DEF f, To, Bad
<1>7. \A n \in 0..Len(es) : f[n] = IF n = 0 THEN start ELSE Entered(w, f[n - 1], es[n])
    BY <1>5
<1> HIDE DEF Step
<1> DEFINE Good(n) == Fills(w, start, f[n])
           Poor == {n \in 0..Len(es) : ~Good(n)}
<1>8. Good(0)
    <2>1. f[0] = start /\ start.reserved \in Nat /\ start.queue \in Seq(Items)
        BY <1>7 DEF Fillings
    <2>2. Bytes(start.queue) >= Bytes(start.queue)
        <3>1. PICK b : b = Bytes(start.queue)
            OBVIOUS
        <3>2. b \in Nat
            BY <2>1, <3>1, BytesAreNat
        <3> QED BY <3>1, <3>2
    <2> QED BY <2>1, <2>2 DEF Fills
<1>9. ASSUME NEW n \in 1..Len(es), Good(n - 1) PROVE Good(n)
    <2>1. n \in 0..Len(es) /\ n # 0 /\ es[n] \in Dirs \cup DOMAIN Size
        OBVIOUS
    <2>2. f[n] = Entered(w, f[n - 1], es[n])
        BY <1>7, <2>1
    <2> QED BY <1>9, <2>1, <2>2, EntryFills
<1> HIDE DEF Good
<1>10. ASSUME Poor # {} PROVE FALSE
    <2>1. Poor \in SUBSET Nat
        OBVIOUS
    <2>2. PICK x \in Poor : \A y \in Poor : ~(y < x)
        <3> HIDE DEF Poor
        <3> QED BY <1>10, <2>1, LeastOf
    <2>3. x \in 1..Len(es) /\ x - 1 \in 0..Len(es) /\ x - 1 < x
        BY <1>8, <2>2
    <2>4. x - 1 \notin Poor
        <3> HIDE DEF Poor
        <3> QED BY <2>2, <2>3
    <2> QED BY <1>9, <2>2, <2>3, <2>4
<1>11. Good(Len(es))
    BY <1>10
<1> QED BY <1>6, <1>11 DEF Good

\* The worker.
Tasks == [item : Items, failed : BOOLEAN] \cup {None}

\* What is reserved for what is being transferred.
Active(v) == IF v # None /\ ~v.failed THEN Cost(v.item) ELSE 0

LEMMA TaskIs ==
    ASSUME NEW x \in Items, NEW b \in BOOLEAN
    PROVE  /\ [item |-> x, failed |-> b] \in Tasks /\ [item |-> x, failed |-> b] # None
           /\ [item |-> x, failed |-> b].item = x /\ [item |-> x, failed |-> b].failed = b
BY IdleAssumption DEF Tasks

LEMMA ActiveIs == ASSUME NEW v \in Tasks PROVE Active(v) \in Nat /\ Active(None) = 0 /\ (v # None => v.item \in Items)
BY CostIs DEF Active, Tasks

LEMMA NextItemIs ==
    ASSUME NEW q \in Seq(Items), NextItem(q)
    PROVE  /\ queue' \in Seq(Items) /\ serving' \in Tasks
           /\ \A i \in DOMAIN queue' : \E j \in DOMAIN q : queue'[i] = q[j]
           /\ serving' # None => signal # None /\ \E j \in DOMAIN q : serving'.item = q[j]
           /\ Bytes(queue') + Active(serving') = Bytes(q)
<1>1. CASE q # <<>> /\ signal # None
    <2>1. serving' = [item |-> Head(q), failed |-> FALSE] /\ queue' = Tail(q)
        BY <1>1 DEF NextItem
    <2>2. Head(q) = q[1] /\ 1 \in DOMAIN q /\ Head(q) \in Items
        BY <1>1
    <2>3. serving' \in Tasks /\ serving' # None /\ serving'.item = Head(q) /\ serving'.failed = FALSE
        BY <2>1, <2>2, TaskIs
    <2>4. Tail(q) \in Seq(Items) /\ \A i \in DOMAIN Tail(q) : i + 1 \in DOMAIN q /\ Tail(q)[i] = q[i + 1]
        BY <1>1
    <2>5. Active(serving') = Cost(Head(q))
        BY <2>3 DEF Active
    <2>6. Bytes(q) = Cost(Head(q)) + Bytes(Tail(q))
        BY <1>1, BytesTail
    <2>7. Bytes(Tail(q)) \in Nat /\ Cost(Head(q)) \in Nat
        BY <2>2, <2>4, BytesAreNat, CostIs
    <2>8. Bytes(queue') + Active(serving') = Bytes(q)
        <3>1. PICK b, c : b = Bytes(Tail(q)) /\ c = Cost(Head(q))
            OBVIOUS
        <3>2. b \in Nat /\ c \in Nat
            BY <2>7, <3>1
        <3>3. b + c = c + b
            BY <3>2
        <3> QED BY <2>1, <2>5, <2>6, <3>1, <3>3
    <2>9. \A i \in DOMAIN queue' : \E j \in DOMAIN q : queue'[i] = q[j]
        BY <2>1, <2>4
    <2> QED BY <1>1, <2>1, <2>2, <2>3, <2>4, <2>8, <2>9
<1>2. CASE ~(q # <<>> /\ signal # None)
    <2>1. serving' = None /\ queue' = q
        BY <1>2 DEF NextItem
    <2>2. Active(None) = 0 /\ Bytes(q) \in Nat
        BY BytesAreNat DEF Active
    <2>3. Bytes(q) + 0 = Bytes(q)
        BY <2>2
    <2> QED BY <2>1, <2>2, <2>3 DEF Tasks
<1> QED BY <1>1, <1>2

LEMMA EnsureWorkerIs ==
    ASSUME NEW q \in Seq(Items), serving \in Tasks, EnsureWorker(q)
    PROVE  /\ queue' \in Seq(Items) /\ serving' \in Tasks
           /\ \A i \in DOMAIN queue' : \E j \in DOMAIN q : queue'[i] = q[j]
           /\ \/ serving' = serving \/ serving' = None
              \/ serving = None /\ signal # None /\ \E j \in DOMAIN q : serving'.item = q[j]
           /\ serving # None => serving' = serving
           /\ Bytes(queue') + Active(serving') = Bytes(q) + Active(serving)
<1>1. CASE serving = None
    <2>1. NextItem(q)
        BY <1>1 DEF EnsureWorker
    <2>2. Bytes(q) + 0 = Bytes(q) /\ Active(serving) = 0
        BY <1>1, BytesAreNat DEF Active
    <2>3. Bytes(queue') + Active(serving') = Bytes(q)
        BY <2>1, NextItemIs
    <2> QED BY <1>1, <2>1, <2>2, <2>3, NextItemIs
<1>2. CASE serving # None
    BY <1>2 DEF EnsureWorker
<1> QED BY <1>1, <1>2

-----------------------------------------------------------------------------
(* The idle transfers' invariant.                                           *)

Walkers == Scans \cup Grabs

Walks == [dirs : Seq(Dirs), of : Connects \cup {None}, from : Connects \cup {None}, reserved : Nat, scanned : Nat]

IdleTyped ==
    /\ queue \in Seq(Items) /\ serving \in Tasks
    /\ reserved \in Nat /\ bytes \in Nat /\ cached \subseteq Media
    /\ signal \in Connects \cup {None} /\ dir \in Connects \cup {None} /\ latest \in Scans \cup {None}
    /\ walk \in [Walkers -> Walks]
    /\ sftp \in Connects \cup {None} /\ aux \in Helpers \cup {None}

\* A walk that goes on has a directory to list; one that has asked knows of whom.
WalksGoOn ==
    \A w \in Walkers : /\ pc[w] \in {"wait", "list"} => walk[w].dirs # <<>>
                       /\ pc[w] \in {"stat", "list"} => walk[w].from \in Connects

Reserving == signal # None => reserved = Bytes(queue) + Active(serving)

Directed ==
    /\ signal # None => \A i \in DOMAIN queue : queue[i].cache => dir # None
    /\ serving # None => (serving.item.cache => dir # None)

Recorded == serving = None /\ signal = None => cached = {} /\ bytes = 0

\* From its stopSession to its startSession no session is on; its worker has
\* ended before the client is dialed.
SessionsApart ==
    /\ \A k \in Users : pc[k] \in {"idle", "servers", "tunnels", "hopping", "dialing"} => signal = None
    /\ \A k \in Users : pc[k] \in {"servers", "tunnels", "hopping", "dialing"} => serving = None
    /\ window /\ closing => \E k \in Users : pc[k] \in {"idle", "servers", "tunnels"}
    /\ window => \A k \in Shuts : pc[k] \in {"off", "new"}

AllLive ==
    signal # None /\ window =>
        /\ \A i \in DOMAIN queue : Live(queue[i].of)
        /\ serving # None => Live(serving.item.of)

IdleInv == IdleTyped /\ WalksGoOn /\ Reserving /\ Directed /\ Recorded /\ SessionsApart /\ AllLive

LEMMA IdleInvSuffices == IdleInv => IdleIsThisSessions
<1> SUFFICES ASSUME IdleInv PROVE IdleIsThisSessions
    OBVIOUS
<1>1. signal # None => reserved = Bytes(queue) + IF serving # None /\ ~serving.failed THEN Cost(serving.item) ELSE 0
    BY Zenon DEF IdleInv, Reserving, Active
<1> QED BY <1>1, Zenon DEF IdleInv, Directed, Recorded, AllLive, IdleIsThisSessions

LEMMA InitIdle == Init => IdleInv
<1> SUFFICES ASSUME Init PROVE IdleInv
    OBVIOUS
<1>1. PICK m \in Mixes : pc = [c \in Calls |-> IF c \in m THEN "new" ELSE "off"]
    BY DEF Init, ClientsInit
<1>2. \A k \in Users \cup Shuts \cup Walkers : pc[k] \in {"new", "off"}
    BY <1>1 DEF Users, Walkers, Calls, Others
<1>3. closing = FALSE /\ aux = None
    BY DEF Init, ClientsInit
<1>4. /\ queue = <<>> /\ serving = None /\ reserved = 0 /\ bytes = 0 /\ cached = {}
      /\ signal = None /\ dir = None /\ latest = None /\ sftp = None
      /\ walk = [w \in Scans \cup Grabs |-> NoWalk]
    BY DEF Init, IdleInit
<1>5. NoWalk \in Walks
    BY DEF NoWalk, Walks
<1>6. IdleTyped
    BY <1>3, <1>4, <1>5 DEF IdleTyped, Tasks, Walkers
<1>7. WalksGoOn
    BY <1>2 DEF WalksGoOn
<1>8. SessionsApart
    BY <1>2, <1>3 DEF SessionsApart
<1> QED BY <1>4, <1>6, <1>7, <1>8 DEF IdleInv, Reserving, Directed, Recorded, AllLive

\* Calls that neither walk nor begin or end a session.
LEMMA WalkersApart ==
    /\ \A c \in Opens \cup Visions \cup Helpers \cup Hangups \cup Films \cup Cuts \cup Starts \cup Stops
               \cup Serves \cup Halts \cup Gauges \cup Drops : c \in Calls /\ c \notin Users \cup Shuts \cup Walkers
    /\ \A c \in Users \cup Shuts : c \in Calls /\ c \notin Walkers
    /\ \A c \in Walkers : c \in Calls /\ c \notin Users \cup Shuts
    /\ Users \cap Shuts = {}
<1> DEFINE Named == {1, 2, 3, 15, 16}
           Rest == {4, 5, 6, 7, 8, 9, 10, 11, 12, 13, 14, 17}
           Some == Opens \cup Visions \cup Helpers \cup Hangups \cup Films \cup Cuts \cup Starts \cup Stops
                      \cup Serves \cup Halts \cup Gauges \cup Drops
<1>1. /\ Kinds[1] = Connects /\ Kinds[2] = Leaves /\ Kinds[3] = Shuts /\ Kinds[4] = Helpers
      /\ Kinds[5] = Opens /\ Kinds[6] = Hangups /\ Kinds[7] = Visions /\ Kinds[8] = Films
      /\ Kinds[9] = Cuts /\ Kinds[10] = Starts /\ Kinds[11] = Stops /\ Kinds[12] = Serves
      /\ Kinds[13] = Halts /\ Kinds[14] = Gauges /\ Kinds[15] = Scans /\ Kinds[16] = Grabs
      /\ Kinds[17] = Drops
    BY DEF Kinds
<1>2. \A i \in Named, j \in Rest : Kinds[i] \cap Kinds[j] = {}
    BY KindsDiffer
<1>3. \A c \in Some : \E j \in Rest : c \in Kinds[j]
    BY <1>1
<1>4. \A c \in Users \cup Shuts \cup Walkers : \E i \in Named : c \in Kinds[i]
    BY <1>1 DEF Users, Walkers
<1>5. \A i \in {1, 2, 3} : \A j \in {15, 16} : Kinds[i] \cap Kinds[j] = {}
    BY KindsDiffer
<1>6. \A c \in Users \cup Shuts : \E i \in {1, 2, 3} : c \in Kinds[i]
    BY <1>1 DEF Users
<1>7. \A c \in Walkers : \E j \in {15, 16} : c \in Kinds[j]
    BY <1>1 DEF Walkers
<1>8. Connects \cap Shuts = {} /\ Leaves \cap Shuts = {}
    <2>1. Kinds[1] \cap Kinds[3] = {} /\ Kinds[2] \cap Kinds[3] = {}
        BY KindsDiffer
    <2> QED BY <1>1, <2>1
<1>9. Some \cup Users \cup Shuts \cup Walkers \subseteq Calls
    BY DEF Users, Walkers, Calls, Others
<1> HIDE DEF Named, Rest
<1>10. \A c \in Some : c \notin Users \cup Shuts \cup Walkers
    BY <1>2, <1>3, <1>4
<1>11. \A c \in Users \cup Shuts : c \notin Walkers
    BY <1>5, <1>6, <1>7
<1> QED BY <1>8, <1>9, <1>10, <1>11 DEF Users

\* A step that leaves the calls of sessions and walks where they are.
Elsewhere == PcTyped' /\ \A k \in Users \cup Shuts \cup Walkers : pc'[k] = pc[k]

LEMMA ElsewhereStays == ASSUME PcTyped, UNCHANGED pc PROVE Elsewhere
BY DEF Elsewhere, PcTyped

LEMMA ElsewhereGoes ==
    ASSUME PcTyped, NEW c \in Calls, c \notin Users \cup Shuts \cup Walkers, NEW where, Go(c, where) PROVE Elsewhere
<1>1. Users \cup Shuts \cup Walkers \subseteq Calls
    BY WalkersApart
<1> QED BY <1>1 DEF Elsewhere, PcTyped, Go

LEMMA SessionsRest ==
    ASSUME SessionsApart, UNCHANGED <<signal, serving, window, closing>>,
           \A k \in Users \cup Shuts : pc'[k] = pc[k]
    PROVE  SessionsApart'
BY DEF SessionsApart

\* Nothing about the transfers changes but, perhaps, what they would ask.
LEMMA IdleRests ==
    ASSUME IdleInv, UNCHANGED idleVars, sftp' \in Connects \cup {None}, aux' \in Helpers \cup {None},
           \A w \in Walkers : pc'[w] = pc[w], SessionsApart',
           signal # None /\ window' => window /\ \A c \in Connects : link[c] = "up" => link'[c] = "up"
    PROVE  IdleInv'
<1>1. UNCHANGED <<signal, dir, latest, queue, reserved, serving, cached, bytes, walk>>
    BY DEF idleVars
<1>2. IdleTyped'
    BY <1>1 DEF IdleInv, IdleTyped
<1>3. WalksGoOn'
    BY <1>1 DEF IdleInv, WalksGoOn
<1>4. Reserving'
    <2>1. queue' = queue /\ serving' = serving /\ reserved' = reserved /\ signal' = signal
        BY <1>1
    <2> QED BY <2>1 DEF IdleInv, Reserving
<1>5. Directed' /\ Recorded'
    BY <1>1 DEF IdleInv, Directed, Recorded
<1>6. AllLive'
    <2> SUFFICES ASSUME signal # None, window'
                 PROVE  /\ \A i \in DOMAIN queue : Live(queue[i].of)'
                        /\ serving # None => Live(serving.item.of)'
        BY <1>1 DEF AllLive
    <2>1. \A c \in Connects : Live(c) => Live(c)'
        BY <1>1 DEF Live
    <2>2. \A x \in Items : x.of \in Connects
        BY DEF Items
    <2>3. \A i \in DOMAIN queue : queue[i] \in Items /\ Live(queue[i].of)
        BY DEF IdleInv, IdleTyped, AllLive
    <2>4. serving # None => serving.item \in Items /\ Live(serving.item.of)
        BY DEF IdleInv, IdleTyped, AllLive, Tasks
    <2> QED BY <1>1, <2>1, <2>2, <2>3, <2>4 DEF Live
<1> QED BY <1>2, <1>3, <1>4, <1>5, <1>6 DEF IdleInv

LEMMA ElsewhereIdle ==
    ASSUME IdleInv, Elsewhere, UNCHANGED <<idleVars, window, closing>>,
           sftp' \in Connects \cup {None}, aux' \in Helpers \cup {None},
           \A c \in Connects : link[c] = "up" => link'[c] = "up"
    PROVE  IdleInv'
<1>1. SessionsApart'
    BY SessionsRest DEF IdleInv, Elsewhere, idleVars
<1> QED BY <1>1, IdleRests DEF Elsewhere

\* The session is stopped.
LEMMA StopSessionIdle ==
    ASSUME IdleInv, StopSession, sftp' \in Connects \cup {None}, aux' \in Helpers \cup {None},
           \A w \in Walkers : pc'[w] = pc[w], SessionsApart'
    PROVE  IdleInv'
<1>1. signal' = None /\ latest' = None /\ queue' = <<>> /\ serving' = serving /\ walk' = walk
    BY DEF StopSession
<1>2. CASE serving = None
    <2>1. cached' = {} /\ bytes' = 0 /\ reserved' = 0 /\ dir' = None
        BY <1>2 DEF StopSession, Forgotten
    <2> QED BY <1>1, <1>2, <2>1
            DEF IdleInv, IdleTyped, WalksGoOn, Reserving, Directed, Recorded, AllLive
<1>3. CASE serving # None
    <2>1. UNCHANGED <<cached, bytes, reserved, dir>>
        BY <1>3 DEF StopSession
    <2> QED BY <1>1, <1>3, <2>1
            DEF IdleInv, IdleTyped, WalksGoOn, Reserving, Directed, Recorded, AllLive
<1> QED BY <1>2, <1>3

LEMMA UnreserveIs ==
    ASSUME NEW a \in Nat, NEW b \in Nat, reserved = a + b PROVE Unreserve(b) = a
BY DEF Unreserve

LEMMA UnreserveIsNat == ASSUME NEW n \in Nat, reserved \in Nat PROVE Unreserve(n) \in Nat
BY DEF Unreserve

\* A walk moves on, or ends.
LEMMA WalkGoes ==
    ASSUME IdleInv, PcTyped, NEW w \in Walkers, NEW where, NEW r \in Walks, Go(w, where),
           walk' = [walk EXCEPT ![w] = r],
           where \in {"wait", "list"} => r.dirs # <<>>, where \in {"stat", "list"} => r.from \in Connects
    PROVE  /\ walk' \in [Walkers -> Walks] /\ WalksGoOn' /\ PcTyped'
           /\ \A k \in Users \cup Shuts : pc'[k] = pc[k]
<1>1. walk \in [Walkers -> Walks]
    BY DEF IdleInv, IdleTyped
<1>2. w \in Calls /\ w \notin Users \cup Shuts /\ Users \cup Shuts \subseteq Calls /\ Walkers \subseteq Calls
    BY WalkersApart
<1>3. PcTyped' /\ pc'[w] = where /\ \A k \in Calls : k # w => pc'[k] = pc[k]
    BY <1>2 DEF PcTyped, Go
<1>4. walk' \in [Walkers -> Walks] /\ walk'[w] = r /\ \A v \in Walkers : v # w => walk'[v] = walk[v]
    BY <1>1
<1>5. WalksGoOn'
    <2> SUFFICES ASSUME NEW v \in Walkers
                 PROVE  /\ pc'[v] \in {"wait", "list"} => walk'[v].dirs # <<>>
                        /\ pc'[v] \in {"stat", "list"} => walk'[v].from \in Connects
        BY DEF WalksGoOn
    <2>1. CASE v = w
        BY <1>3, <1>4, <2>1
    <2>2. CASE v # w
        BY <1>2, <1>3, <1>4, <2>2 DEF IdleInv, WalksGoOn
    <2> QED BY <2>1, <2>2
<1> QED BY <1>2, <1>3, <1>4, <1>5

LEMMA EndedWalk == NoWalk \in Walks
BY DEF NoWalk, Walks

\* Another call than these moves.
LEMMA WalksStay ==
    ASSUME IdleInv, Elsewhere, UNCHANGED walk
    PROVE  WalksGoOn' /\ \A k \in Users \cup Shuts : pc'[k] = pc[k]
BY DEF IdleInv, WalksGoOn, Elsewhere

\* What has been queued, or is listed over a client that lives.
Known(x) ==
    \/ \E j \in DOMAIN queue : x = queue[j]
    \/ serving # None /\ x = serving.item
    \/ link[x.of] = "up" /\ (x.cache => dir # None)

\* While the session goes on, and to the end of its worker.
LEMMA IdleKeeps ==
    ASSUME IdleInv, UNCHANGED <<window, closing, client, link, signal>>,
           IdleTyped', WalksGoOn', Reserving', Recorded',
           \A k \in Users \cup Shuts : pc'[k] = pc[k],
           signal # None \/ serving' # None => dir' = dir,
           serving' # None /\ signal = None => serving # None /\ serving'.item = serving.item,
           \A i \in DOMAIN queue' : signal # None => Known(queue'[i]),
           serving' # None => Known(serving'.item)
    PROVE  IdleInv'
<1>1. Directed'
    <2>1. ASSUME signal # None, NEW x, Known(x), x.cache PROVE dir # None
        BY <2>1 DEF Known, IdleInv, Directed
    <2>2. ASSUME signal' # None, NEW i \in DOMAIN queue', queue'[i].cache PROVE dir' # None
        BY <2>1, <2>2
    <2>3. ASSUME serving' # None, serving'.item.cache PROVE dir' # None
        <3>1. CASE signal # None
            BY <2>1, <2>3, <3>1
        <3>2. CASE signal = None
            BY <2>3, <3>2 DEF IdleInv, Directed
        <3> QED BY <3>1, <3>2
    <2> QED BY <2>2, <2>3 DEF Directed
<1>2. SessionsApart'
    <2>1. ASSUME NEW k \in Users \cup Shuts PROVE pc'[k] = pc[k]
        OBVIOUS
    <2>2. ASSUME NEW k \in Users, pc[k] \in {"servers", "tunnels", "hopping", "dialing"} PROVE serving' = None
        BY <2>2 DEF IdleInv, SessionsApart
    <2> QED BY <2>1, <2>2 DEF IdleInv, SessionsApart
<1>3. AllLive'
    <2>1. ASSUME signal # None, window, NEW x, Known(x) PROVE x.of = signal' \/ link'[x.of] = "up"
        BY <2>1 DEF Known, IdleInv, AllLive, Live
    <2>2. ASSUME signal' # None, window', NEW i \in DOMAIN queue'
          PROVE  queue'[i].of = signal' \/ link'[queue'[i].of] = "up"
        BY <2>1, <2>2
    <2>3. ASSUME signal' # None, window', serving' # None
          PROVE  serving'.item.of = signal' \/ link'[serving'.item.of] = "up"
        BY <2>1, <2>3
    <2> QED BY <2>2, <2>3 DEF AllLive, Live
<1> QED BY <1>1, <1>2, <1>3 DEF IdleInv

LEMMA TransferredIdle == ASSUME IdleInv, PcTyped, aux' = aux, Transferred PROVE IdleInv'
<1>1. /\ serving # None /\ ~serving.failed /\ NextItem(queue)
      /\ UNCHANGED <<pc, window, closing, client, link, sftp, signal, latest, walk>>
    BY DEF Transferred, clientVars
<1>2. Elsewhere
    BY <1>1, ElsewhereStays
<1>3. WalksGoOn' /\ \A k \in Users \cup Shuts : pc'[k] = pc[k]
    BY <1>1, <1>2, WalksStay
<1>4. queue \in Seq(Items) /\ serving \in Tasks /\ reserved \in Nat /\ bytes \in Nat /\ cached \subseteq Media
    BY DEF IdleInv, IdleTyped
<1>5. /\ queue' \in Seq(Items) /\ serving' \in Tasks
      /\ \A i \in DOMAIN queue' : \E j \in DOMAIN queue : queue'[i] = queue[j]
      /\ serving' # None => signal # None /\ \E j \in DOMAIN queue : serving'.item = queue[j]
      /\ Bytes(queue') + Active(serving') = Bytes(queue)
    BY <1>1, <1>4, NextItemIs
<1>6. CASE signal = None
    <2>1. cached' = {} /\ bytes' = 0 /\ reserved' = 0 /\ dir' = None /\ serving' = None
        BY <1>5, <1>6 DEF Transferred, Forgotten
    <2>2. IdleTyped' /\ Reserving' /\ Recorded'
        BY <1>1, <1>5, <1>6, <2>1 DEF IdleInv, IdleTyped, Reserving, Recorded
    <2> QED BY <1>1, <1>3, <1>6, <2>1, <2>2, IdleKeeps
<1>7. CASE signal # None
    <2>1. serving.item \in Items /\ serving.item.path \in DOMAIN Size
        BY <1>1, <1>4, ActiveIs DEF Items
    <2>2. /\ cached' \subseteq Media /\ bytes' \in Nat /\ dir' = dir
          /\ reserved' = IF serving.item.cache THEN Unreserve(Size[serving.item.path]) ELSE reserved
        <3>1. CASE serving.item.cache
            <4>1. serving.item.path \in Media /\ Size[serving.item.path] \in Nat
                BY <1>1, <2>1, <3>1, IdleAssumption DEF Items
            <4>2. /\ cached' = cached \cup {serving.item.path} /\ bytes' = bytes + Size[serving.item.path]
                  /\ reserved' = Unreserve(Size[serving.item.path]) /\ dir' = dir
                BY <1>7, <3>1 DEF Transferred
            <4> QED BY <1>4, <3>1, <4>1, <4>2
        <3>2. CASE ~serving.item.cache
            <4>1. UNCHANGED <<cached, bytes, reserved, dir>>
                BY <1>7, <3>2 DEF Transferred
            <4> QED BY <1>4, <3>2, <4>1
        <3> QED BY <3>1, <3>2
    <2>3. reserved' = Bytes(queue)
        <3>1. reserved = Bytes(queue) + Cost(serving.item)
            BY <1>1, <1>7 DEF IdleInv, Reserving, Active
        <3>2. PICK b, c : b = Bytes(queue) /\ c = Cost(serving.item)
            OBVIOUS
        <3>3. b \in Nat /\ c \in Nat
            BY <1>4, <2>1, <3>2, BytesAreNat, CostIs
        <3>4. Unreserve(c) = b
            BY <3>1, <3>2, <3>3, UnreserveIs
        <3>5. CASE serving.item.cache
            BY <2>2, <3>2, <3>4, <3>5 DEF Cost
        <3>6. CASE ~serving.item.cache
            BY <2>2, <3>1, <3>2, <3>3, <3>6 DEF Cost
        <3> QED BY <3>5, <3>6
    <2>4. reserved' \in Nat
        BY <1>4, <2>3, BytesAreNat
    <2>5. IdleTyped' /\ Reserving' /\ Recorded'
        <3>1. IdleTyped'
            BY <1>1, <1>5, <2>2, <2>4 DEF IdleInv, IdleTyped
        <3>2. Reserving'
            BY <1>5, <2>3 DEF Reserving
        <3> QED BY <1>1, <1>7, <3>1, <3>2 DEF Recorded
    <2>6. \A i \in DOMAIN queue' : Known(queue'[i])
        BY <1>5 DEF Known
    <2>7. serving' # None => Known(serving'.item)
        BY <1>5 DEF Known
    <2> QED BY <1>1, <1>3, <1>7, <2>2, <2>5, <2>6, <2>7, IdleKeeps
<1> QED BY <1>6, <1>7

LEMMA TransferFailsIdle == ASSUME IdleInv, PcTyped, aux' = aux, TransferFails PROVE IdleInv'
<1>1. /\ serving # None /\ ~serving.failed /\ serving' = [serving EXCEPT !.failed = TRUE]
      /\ UNCHANGED <<pc, window, closing, client, link, sftp, signal, dir, latest, queue, cached, bytes, walk>>
    BY DEF TransferFails, clientVars
<1>2. Elsewhere
    BY <1>1, ElsewhereStays
<1>3. WalksGoOn' /\ \A k \in Users \cup Shuts : pc'[k] = pc[k]
    BY <1>1, <1>2, WalksStay
<1>4. queue \in Seq(Items) /\ serving \in Tasks /\ reserved \in Nat
    BY DEF IdleInv, IdleTyped
<1>5. serving.item \in Items
    BY <1>1, <1>4, ActiveIs
<1>6. serving' = [item |-> serving.item, failed |-> TRUE]
    BY <1>1, <1>4 DEF Tasks
<1>7. serving' \in Tasks /\ serving' # None /\ serving'.item = serving.item /\ serving'.failed = TRUE
    BY <1>5, <1>6, TaskIs
<1>8. Active(serving') = 0
    BY <1>7 DEF Active
<1>9. reserved' = IF serving.item.cache THEN Unreserve(Size[serving.item.path]) ELSE reserved
    BY DEF TransferFails
<1>10. reserved' \in Nat
    <2>1. Size[serving.item.path] \in Nat
        BY <1>5, IdleAssumption DEF Items
    <2> QED BY <1>4, <1>9, <2>1, UnreserveIsNat
<1>11. ASSUME signal # None PROVE reserved' = Bytes(queue)
    <2>1. reserved = Bytes(queue) + Cost(serving.item)
        BY <1>1, <1>11 DEF IdleInv, Reserving, Active
    <2>2. PICK b, c : b = Bytes(queue) /\ c = Cost(serving.item)
        OBVIOUS
    <2>3. b \in Nat /\ c \in Nat
        BY <1>4, <1>5, <2>2, BytesAreNat, CostIs
    <2>4. Unreserve(c) = b
        BY <2>1, <2>2, <2>3, UnreserveIs
    <2>5. CASE serving.item.cache
        BY <1>9, <2>2, <2>4, <2>5 DEF Cost
    <2>6. CASE ~serving.item.cache
        BY <1>9, <2>1, <2>2, <2>3, <2>6 DEF Cost
    <2> QED BY <2>5, <2>6
<1>12. Reserving'
    <2>1. Bytes(queue) + 0 = Bytes(queue)
        BY <1>4, BytesAreNat
    <2>2. queue' = queue /\ signal' = signal
        BY <1>1
    <2> QED BY <1>8, <1>11, <2>1, <2>2 DEF Reserving
<1>13. IdleTyped' /\ Recorded'
    <2>1. IdleTyped'
        BY <1>1, <1>7, <1>10 DEF IdleInv, IdleTyped
    <2> QED BY <1>7, <2>1 DEF Recorded
<1>14. Known(serving'.item) /\ \A i \in DOMAIN queue' : Known(queue'[i])
    BY <1>1, <1>7 DEF Known
<1> QED BY <1>1, <1>3, <1>7, <1>12, <1>13, <1>14, IdleKeeps

LEMMA PartRemovedIdle == ASSUME IdleInv, PcTyped, aux' = aux, PartRemoved PROVE IdleInv'
<1>1. /\ serving # None /\ serving.failed /\ NextItem(queue)
      /\ UNCHANGED <<pc, window, closing, client, link, sftp, signal, latest, walk>>
    BY DEF PartRemoved, clientVars
<1>2. Elsewhere
    BY <1>1, ElsewhereStays
<1>3. WalksGoOn' /\ \A k \in Users \cup Shuts : pc'[k] = pc[k]
    BY <1>1, <1>2, WalksStay
<1>4. queue \in Seq(Items) /\ serving \in Tasks /\ reserved \in Nat /\ bytes \in Nat /\ cached \subseteq Media
    BY DEF IdleInv, IdleTyped
<1>5. /\ queue' \in Seq(Items) /\ serving' \in Tasks
      /\ \A i \in DOMAIN queue' : \E j \in DOMAIN queue : queue'[i] = queue[j]
      /\ serving' # None => signal # None /\ \E j \in DOMAIN queue : serving'.item = queue[j]
      /\ Bytes(queue') + Active(serving') = Bytes(queue)
    BY <1>1, <1>4, NextItemIs
<1>6. CASE signal = None
    <2>1. cached' = {} /\ bytes' = 0 /\ reserved' = 0 /\ dir' = None /\ serving' = None
        BY <1>5, <1>6 DEF PartRemoved, Forgotten
    <2>2. IdleTyped' /\ Reserving' /\ Recorded'
        BY <1>1, <1>5, <1>6, <2>1 DEF IdleInv, IdleTyped, Reserving, Recorded
    <2> QED BY <1>1, <1>3, <1>6, <2>1, <2>2, IdleKeeps
<1>7. CASE signal # None
    <2>1. UNCHANGED <<cached, bytes, reserved, dir>>
        BY <1>7 DEF PartRemoved
    <2>2. reserved = Bytes(queue)
        <3>1. reserved = Bytes(queue) + 0
            BY <1>1, <1>7 DEF IdleInv, Reserving, Active
        <3>2. Bytes(queue) \in Nat
            BY <1>4, BytesAreNat
        <3> QED BY <3>1, <3>2
    <2>3. IdleTyped' /\ Reserving' /\ Recorded'
        <3>1. IdleTyped'
            BY <1>1, <1>4, <1>5, <2>1 DEF IdleInv, IdleTyped
        <3>2. Reserving'
            BY <1>5, <2>1, <2>2 DEF Reserving
        <3> QED BY <1>1, <1>7, <3>1, <3>2 DEF Recorded
    <2>4. \A i \in DOMAIN queue' : Known(queue'[i])
        BY <1>5 DEF Known
    <2>5. serving' # None => Known(serving'.item)
        BY <1>5 DEF Known
    <2> QED BY <1>1, <1>3, <1>7, <2>1, <2>3, <2>4, <2>5, IdleKeeps
<1> QED BY <1>6, <1>7

\* Only a walk moves.
LEMMA WalkOnly ==
    ASSUME IdleInv, aux' = aux, walk' \in [Walkers -> Walks], WalksGoOn', \A k \in Users \cup Shuts : pc'[k] = pc[k],
           UNCHANGED <<window, closing, client, link, sftp, signal, dir, latest, queueVars, serving, cached, bytes>>
    PROVE  IdleInv'
<1>1. UNCHANGED <<window, closing, client, link, sftp, signal, dir, latest, queue, reserved, serving, cached, bytes>>
    BY DEF queueVars
<1>2. IdleTyped'
    BY <1>1 DEF IdleInv, IdleTyped
<1>3. Reserving'
    <2>1. queue' = queue /\ serving' = serving /\ reserved' = reserved /\ signal' = signal
        BY <1>1
    <2> QED BY <2>1 DEF IdleInv, Reserving
<1>4. Recorded'
    BY <1>1 DEF IdleInv, Recorded
<1>5. (\A i \in DOMAIN queue' : Known(queue'[i])) /\ (serving' # None => Known(serving'.item))
    BY <1>1 DEF Known
<1> QED BY <1>1, <1>2, <1>3, <1>4, <1>5, IdleKeeps

\* The same walk, elsewhere.
LEMMA WalkSame ==
    ASSUME IdleInv, PcTyped, NEW w \in Walkers, NEW where, Go(w, where), UNCHANGED walk,
           where \notin {"wait", "list", "stat"}
    PROVE  /\ walk' \in [Walkers -> Walks] /\ WalksGoOn' /\ PcTyped'
           /\ \A k \in Users \cup Shuts : pc'[k] = pc[k]
<1>1. walk[w] \in Walks /\ walk' = [walk EXCEPT ![w] = walk[w]]
    BY DEF IdleInv, IdleTyped
<1> QED BY <1>1, WalkGoes

LEMMA WalkFailsIdle == ASSUME IdleInv, PcTyped, aux' = aux, NEW w \in Walkers, WalkFails(w) PROVE IdleInv'
<1>1. Go(w, "failed") /\ walk' = [walk EXCEPT ![w] = NoWalk]
    BY DEF WalkFails
<1>2. /\ walk' \in [Walkers -> Walks] /\ WalksGoOn'
      /\ \A k \in Users \cup Shuts : pc'[k] = pc[k]
    BY <1>1, EndedWalk, WalkGoes
<1> QED BY <1>2, WalkOnly DEF WalkFails

LEMMA WalkReadsIdle == ASSUME IdleInv, PcTyped, aux' = aux, NEW w \in Walkers, WalkReads(w) PROVE IdleInv'
<1>1. walk[w] \in Walks /\ walk[w].dirs # <<>> /\ walk \in [Walkers -> Walks] /\ sftp \in Connects \cup {None}
    BY DEF IdleInv, IdleTyped, WalksGoOn, WalkReads
<1>2. CASE signal # walk[w].of \/ sftp = None
    <2>1. Go(w, "failed") /\ walk' = [walk EXCEPT ![w] = NoWalk]
        BY <1>2 DEF WalkReads
    <2>2. walk' \in [Walkers -> Walks] /\ WalksGoOn' /\ \A k \in Users \cup Shuts : pc'[k] = pc[k]
        BY <2>1, EndedWalk, WalkGoes
    <2> QED BY <2>2, WalkOnly DEF WalkReads
<1>3. CASE ~(signal # walk[w].of \/ sftp = None)
    <2>1. Go(w, "list") /\ walk' = [walk EXCEPT ![w].from = sftp]
        BY <1>3 DEF WalkReads
    <2>2. PICK r : r = [walk[w] EXCEPT !.from = sftp]
        OBVIOUS
    <2>3. r \in Walks /\ r.dirs # <<>> /\ r.from \in Connects
        BY <1>1, <1>3, <2>2 DEF Walks
    <2>4. walk' = [walk EXCEPT ![w] = r]
        BY <1>1, <2>1, <2>2
    <2>5. walk' \in [Walkers -> Walks] /\ WalksGoOn' /\ \A k \in Users \cup Shuts : pc'[k] = pc[k]
        BY <2>1, <2>3, <2>4, WalkGoes
    <2> QED BY <2>5, WalkOnly DEF WalkReads
<1> QED BY <1>2, <1>3

LEMMA QueueManualDownloadIdle ==
    ASSUME IdleInv, PcTyped, aux' = aux, NEW g \in Grabs, QueueManualDownload(g) PROVE IdleInv'
<1>1. g \in Walkers
    BY DEF Walkers
<1>2. CASE sftp = None \/ signal = None
    <2>1. Go(g, "failed") /\ UNCHANGED walk
        BY <1>2 DEF QueueManualDownload
    <2>2. walk' \in [Walkers -> Walks] /\ WalksGoOn' /\ \A k \in Users \cup Shuts : pc'[k] = pc[k]
        BY <1>1, <2>1, WalkSame
    <2> QED BY <2>2, WalkOnly DEF QueueManualDownload
<1>3. CASE ~(sftp = None \/ signal = None)
    <2>1. Go(g, "quiet") /\ walk' = [walk EXCEPT ![g] = [NoWalk EXCEPT !.of = signal]]
        BY <1>3 DEF QueueManualDownload
    <2>2. [NoWalk EXCEPT !.of = signal] \in Walks
        <3>1. PICK r : r = [NoWalk EXCEPT !.of = signal]
            OBVIOUS
        <3>2. signal \in Connects \cup {None}
            BY DEF IdleInv, IdleTyped
        <3>3. <<>> \in Seq(Dirs)
            OBVIOUS
        <3>4. r \in Walks
            BY <3>1, <3>2, <3>3 DEF NoWalk, Walks
        <3> QED BY <3>1, <3>4
    <2>3. walk' \in [Walkers -> Walks] /\ WalksGoOn' /\ \A k \in Users \cup Shuts : pc'[k] = pc[k]
        BY <1>1, <2>1, <2>2, WalkGoes
    <2> QED BY <2>3, WalkOnly DEF QueueManualDownload
<1> QED BY <1>2, <1>3

LEMMA GrabStatsIdle == ASSUME IdleInv, PcTyped, aux' = aux, NEW g \in Grabs, GrabStats(g) PROVE IdleInv'
<1>1. g \in Walkers /\ walk[g] \in Walks /\ walk \in [Walkers -> Walks] /\ sftp \in Connects \cup {None}
    BY DEF Walkers, IdleInv, IdleTyped
<1>2. CASE signal # walk[g].of \/ sftp = None
    <2>1. Go(g, "failed") /\ walk' = [walk EXCEPT ![g] = NoWalk]
        BY <1>2 DEF GrabStats
    <2>2. walk' \in [Walkers -> Walks] /\ WalksGoOn' /\ \A k \in Users \cup Shuts : pc'[k] = pc[k]
        BY <1>1, <2>1, EndedWalk, WalkGoes
    <2> QED BY <2>2, WalkOnly DEF GrabStats
<1>3. CASE ~(signal # walk[g].of \/ sftp = None)
    <2>1. Go(g, "stat") /\ walk' = [walk EXCEPT ![g].from = sftp]
        BY <1>3 DEF GrabStats
    <2>2. PICK r : r = [walk[g] EXCEPT !.from = sftp]
        OBVIOUS
    <2>3. r \in Walks /\ r.from \in Connects
        BY <1>1, <1>3, <2>2 DEF Walks
    <2>4. walk' = [walk EXCEPT ![g] = r]
        BY <1>1, <2>1, <2>2
    <2>5. walk' \in [Walkers -> Walks] /\ WalksGoOn' /\ \A k \in Users \cup Shuts : pc'[k] = pc[k]
        BY <1>1, <2>1, <2>3, <2>4, WalkGoes
    <2> QED BY <2>5, WalkOnly DEF GrabStats
<1> QED BY <1>2, <1>3

LEMMA StartAutomaticMediaCacheIdle ==
    ASSUME IdleInv, PcTyped, aux' = aux, NEW s \in Scans, StartAutomaticMediaCache(s) PROVE IdleInv'
<1>1. s \in Walkers /\ UNCHANGED <<window, closing, client, link, sftp>>
    BY DEF Walkers, StartAutomaticMediaCache
<1>2. /\ queue \in Seq(Items) /\ serving \in Tasks /\ reserved \in Nat /\ bytes \in Nat
      /\ signal \in Connects \cup {None} /\ walk \in [Walkers -> Walks]
    BY DEF IdleInv, IdleTyped
<1>3. CASE sftp = None
    <2>1. Go(s, "failed") /\ UNCHANGED idleVars
        BY <1>3 DEF StartAutomaticMediaCache
    <2>2. walk' \in [Walkers -> Walks] /\ WalksGoOn' /\ \A k \in Users \cup Shuts : pc'[k] = pc[k]
        BY <1>1, <2>1, WalkSame DEF idleVars
    <2> QED BY <1>1, <2>1, <2>2, WalkOnly DEF idleVars, queueVars
<1>4. CASE sftp # None
    <2>1. /\ latest' = s /\ queue' = Manual(queue) /\ reserved' = Unreserve(Bytes(queue))
          /\ UNCHANGED <<signal, dir, serving, cached, bytes>>
        BY <1>4 DEF StartAutomaticMediaCache
    <2>2. reserved' \in Nat
        BY <1>2, <2>1, BytesAreNat, UnreserveIsNat
    <2>3. /\ queue' \in Seq(Items)
          /\ \A i \in DOMAIN queue' : ~queue'[i].cache /\ \E j \in DOMAIN queue : queue'[i] = queue[j]
        <3> DEFINE P == {n \in DOMAIN queue : ~queue[n].cache}
        <3>1. queue' = Kept(queue, P)
            BY <2>1 DEF Manual
        <3>2. /\ queue' \in Seq(Items)
              /\ \A i \in DOMAIN queue' : \E j \in DOMAIN queue : j \in P /\ queue'[i] = queue[j]
            <4> HIDE DEF P
            <4> QED BY <1>2, <3>1, KeptAre
        <3> QED BY <3>2
    <2>4. Reserving'
        <3> SUFFICES ASSUME signal # None PROVE reserved' = Bytes(queue') + Active(serving')
            BY <2>1 DEF Reserving
        <3>1. Bytes(queue') = 0
            BY <2>3, NothingToReserve
        <3>2. PICK b, a : b = Bytes(queue) /\ a = Active(serving)
            OBVIOUS
        <3>3. b \in Nat /\ a \in Nat /\ reserved = b + a
            BY <1>2, <3>2, BytesAreNat, ActiveIs DEF IdleInv, Reserving
        <3>4. reserved = a + b
            BY <3>3
        <3>5. Unreserve(b) = a
            BY <3>3, <3>4, UnreserveIs
        <3>6. 0 + a = a
            BY <3>3
        <3> QED BY <2>1, <3>1, <3>2, <3>5, <3>6
    <2>5. walk' \in [Walkers -> Walks] /\ WalksGoOn' /\ \A k \in Users \cup Shuts : pc'[k] = pc[k]
        <3>1. CASE signal = None
            <4>1. Go(s, "ok") /\ UNCHANGED walk
                BY <1>4, <3>1 DEF StartAutomaticMediaCache
            <4> QED BY <1>1, <4>1, WalkSame
        <3>2. CASE signal # None
            <4>1. PICK r : r = [NoWalk EXCEPT !.dirs = <<Root[s]>>, !.of = signal, !.reserved = bytes + reserved']
                OBVIOUS
            <4>2. Go(s, "wait") /\ walk' = [walk EXCEPT ![s] = r]
                BY <1>4, <3>2, <4>1 DEF StartAutomaticMediaCache
            <4>3. <<Root[s]>> \in Seq(Dirs) /\ <<Root[s]>> # <<>>
                BY IdleAssumption
            <4>4. bytes + reserved' \in Nat
                <5>1. PICK m, n : m = bytes /\ n = reserved'
                    OBVIOUS
                <5>2. m \in Nat /\ n \in Nat
                    BY <1>2, <2>2, <5>1
                <5>3. m + n \in Nat
                    BY <5>2
                <5> QED BY <5>1, <5>3, Zenon
            <4>5. r \in Walks /\ r.dirs # <<>>
                BY <1>2, <4>1, <4>3, <4>4 DEF NoWalk, Walks
            <4> QED BY <1>1, <4>2, <4>5, WalkGoes
        <3> QED BY <3>1, <3>2
    <2>6. IdleTyped' /\ Recorded'
        BY <1>1, <2>1, <2>2, <2>3, <2>5 DEF IdleInv, IdleTyped, Recorded
    <2>7. (\A i \in DOMAIN queue' : Known(queue'[i])) /\ (serving' # None => Known(serving'.item))
        BY <2>1, <2>3 DEF Known
    <2> QED BY <1>1, <2>1, <2>4, <2>5, <2>6, <2>7, IdleKeeps
<1> QED BY <1>3, <1>4

LEMMA CancelGroupIdle == ASSUME IdleInv, PcTyped, aux' = aux, NEW d \in Drops, CancelGroup(d) PROVE IdleInv'
<1> DEFINE P == {j \in DOMAIN queue : queue[j].path \notin
                   {queue[i].path : i \in {k \in DOMAIN queue : ~queue[k].cache /\ Root[queue[k].by] = Root[d]}}}
           stays == Kept(queue, P)
<1>1. /\ queue' = stays /\ reserved' = Unreserve(Bytes(queue) - Bytes(stays)) /\ Go(d, "ok")
      /\ UNCHANGED <<window, closing, client, link, sftp, signal, dir, latest, serving, cached, bytes, walk>>
    BY Zenon DEF CancelGroup
<1>2. queue \in Seq(Items) /\ serving \in Tasks /\ reserved \in Nat
    BY DEF IdleInv, IdleTyped
<1>3. /\ stays \in Seq(Items) /\ Bytes(stays) <= Bytes(queue)
      /\ \A i \in DOMAIN stays : \E j \in DOMAIN queue : stays[i] = queue[j]
    <2> HIDE DEF P
    <2> QED BY <1>2, KeptAre
<1> HIDE DEF P, stays
<1>4. PICK b, c, a : b = Bytes(queue) /\ c = Bytes(stays) /\ a = Active(serving)
    OBVIOUS
<1>5. b \in Nat /\ c \in Nat /\ c <= b /\ a \in Nat
    BY <1>2, <1>3, <1>4, BytesAreNat, ActiveIs
<1>6. b - c \in Nat
    BY <1>5
<1>7. reserved' = Unreserve(b - c)
    BY <1>1, <1>4
<1>8. reserved' \in Nat
    BY <1>2, <1>6, <1>7, UnreserveIsNat
<1>9. Reserving'
    <2> SUFFICES ASSUME signal # None PROVE reserved' = Bytes(queue') + Active(serving')
        BY <1>1 DEF Reserving
    <2>1. reserved = b + a
        BY <1>4 DEF IdleInv, Reserving
    <2>2. c + a \in Nat /\ reserved = (c + a) + (b - c)
        BY <1>5, <2>1
    <2>3. Unreserve(b - c) = c + a
        BY <1>6, <2>2, UnreserveIs
    <2> QED BY <1>1, <1>4, <1>7, <2>3
<1>10. Elsewhere
    <2>1. d \in Calls /\ d \notin Users \cup Shuts \cup Walkers
        BY WalkersApart
    <2> QED BY <1>1, <2>1, ElsewhereGoes
<1>11. WalksGoOn' /\ \A k \in Users \cup Shuts : pc'[k] = pc[k]
    BY <1>1, <1>10, WalksStay
<1>12. IdleTyped' /\ Recorded'
    BY <1>1, <1>3, <1>8 DEF IdleInv, IdleTyped, Recorded
<1>13. (\A i \in DOMAIN queue' : Known(queue'[i])) /\ (serving' # None => Known(serving'.item))
    BY <1>1, <1>3 DEF Known
<1> QED BY <1>1, <1>9, <1>11, <1>12, <1>13, IdleKeeps

\* The queue has grown, and the worker is there for it, or as it was.
LEMMA WorkerStarts ==
    ASSUME IdleInv, aux' = aux, NEW q \in Seq(Items), \A i \in DOMAIN q : Known(q[i]),
           EnsureWorker(q) \/ (queue' = q /\ UNCHANGED serving),
           NEW more \in Nat, Bytes(q) = Bytes(queue) + more, reserved' = reserved + more,
           UNCHANGED <<window, closing, client, link, sftp, signal, dir, latest, cached, bytes>>,
           walk' \in [Walkers -> Walks], WalksGoOn', \A k \in Users \cup Shuts : pc'[k] = pc[k]
    PROVE  IdleInv'
<1>1. queue \in Seq(Items) /\ serving \in Tasks /\ reserved \in Nat
    BY DEF IdleInv, IdleTyped
<1>2. /\ queue' \in Seq(Items) /\ serving' \in Tasks
      /\ \A i \in DOMAIN queue' : \E j \in DOMAIN q : queue'[i] = q[j]
      /\ \/ serving' = serving \/ serving' = None
         \/ serving = None /\ signal # None /\ \E j \in DOMAIN q : serving'.item = q[j]
      /\ serving # None => serving' = serving
      /\ Bytes(queue') + Active(serving') = Bytes(q) + Active(serving)
    <2>1. CASE EnsureWorker(q)
        BY <1>1, <2>1, EnsureWorkerIs
    <2>2. CASE queue' = q /\ UNCHANGED serving
        BY <1>1, <2>2
    <2> QED BY <2>1, <2>2
<1>3. reserved' \in Nat
    <2>1. PICK r : r = reserved
        OBVIOUS
    <2>2. r + more \in Nat
        BY <1>1, <2>1
    <2> QED BY <2>1, <2>2, Zenon
<1>4. Reserving'
    <2> SUFFICES ASSUME signal # None PROVE reserved' = Bytes(queue') + Active(serving')
        BY DEF Reserving
    <2>1. reserved = Bytes(queue) + Active(serving)
        BY DEF IdleInv, Reserving
    <2>2. PICK b, a : b = Bytes(queue) /\ a = Active(serving)
        OBVIOUS
    <2>3. b \in Nat /\ a \in Nat
        BY <1>1, <2>2, BytesAreNat, ActiveIs
    <2>4. (b + a) + more = (b + more) + a
        BY <2>3
    <2> QED BY <1>2, <2>1, <2>2, <2>4
<1>5. IdleTyped'
    BY <1>2, <1>3 DEF IdleInv, IdleTyped
<1>6. Recorded'
    BY <1>2 DEF IdleInv, Recorded
<1>7. \A i \in DOMAIN queue' : Known(queue'[i])
    BY <1>2
<1>8. serving' # None => Known(serving'.item)
    <2>1. CASE serving' = serving
        BY <2>1 DEF Known
    <2> QED BY <1>2, <2>1
<1>9. serving' # None /\ signal = None => serving # None /\ serving'.item = serving.item
    BY <1>2
<1> QED BY <1>3, <1>4, <1>5, <1>6, <1>7, <1>8, <1>9, IdleKeeps

LEMMA GrabStatedIdle == ASSUME IdleInv, PcTyped, aux' = aux, NEW g \in Grabs, GrabStated(g) PROVE IdleInv'
<1>1. /\ g \in Walkers /\ g \in Scans \cup Grabs /\ g \notin Scans
      /\ walk[g] \in Walks /\ walk \in [Walkers -> Walks] /\ walk[g].from \in Connects
      /\ queue \in Seq(Items) /\ reserved \in Nat
    BY ScansAndGrabs DEF Walkers, IdleInv, IdleTyped, WalksGoOn, GrabStated
<1>2. /\ link[walk[g].from] = "up" /\ Root[g] \in Dirs \cup DOMAIN Size
      /\ UNCHANGED <<window, closing, client, link, sftp, signal, dir, latest, reserved, cached, bytes>>
    BY <1>1, IdleAssumption DEF GrabStated
<1>3. CASE Root[g] \in Dirs
    <2>1. Go(g, "wait") /\ walk' = [walk EXCEPT ![g].dirs = <<Root[g]>>] /\ UNCHANGED <<queue, serving>>
        BY <1>3 DEF GrabStated
    <2>2. PICK r : r = [walk[g] EXCEPT !.dirs = <<Root[g]>>]
        OBVIOUS
    <2>3. <<Root[g]>> \in Seq(Dirs) /\ <<Root[g]>> # <<>>
        BY <1>3
    <2>4. r \in Walks /\ r.dirs # <<>>
        BY <1>1, <2>2, <2>3 DEF Walks
    <2>5. walk' = [walk EXCEPT ![g] = r]
        BY <1>1, <2>1, <2>2
    <2>6. walk' \in [Walkers -> Walks] /\ WalksGoOn' /\ \A k \in Users \cup Shuts : pc'[k] = pc[k]
        BY <1>1, <2>1, <2>4, <2>5, WalkGoes
    <2> QED BY <1>2, <2>1, <2>6, WalkOnly DEF queueVars
<1>4. CASE Root[g] \notin Dirs
    <2>1. PICK x : x = Item(g, Root[g])
        OBVIOUS
    <2>2. PICK q : q = Queued(queue, x)
        OBVIOUS
    <2>3. Go(g, "ok") /\ walk' = [walk EXCEPT ![g] = NoWalk] /\ EnsureWorker(q)
        BY <1>4, <2>1, <2>2 DEF GrabStated
    <2>4. x \in Items /\ x.of = walk[g].from /\ ~x.cache
        BY <1>1, <1>2, <1>4, <2>1, ItemIs
    <2>5. q = queue \/ q = Append(queue, x)
        BY <2>2 DEF Queued
    <2>6. /\ q \in Seq(Items)
          /\ \A i \in DOMAIN q : (i \in DOMAIN queue /\ q[i] = queue[i]) \/ q[i] = x
        BY <1>1, <2>4, <2>5, AppendIs
    <2>7. \A i \in DOMAIN q : Known(q[i])
        BY <1>2, <2>4, <2>6 DEF Known
    <2>8. Bytes(q) = Bytes(queue) + 0
        <3>1. PICK b : b = Bytes(queue)
            OBVIOUS
        <3>2. b \in Nat /\ b + 0 = b
            BY <1>1, <3>1, BytesAreNat
        <3>3. Cost(x) = 0
            BY <2>4 DEF Cost
        <3>4. CASE q = Append(queue, x)
            BY <1>1, <2>4, <3>3, <3>4, BytesAppend
        <3> QED BY <2>5, <3>1, <3>2, <3>4
    <2>9. reserved' = reserved + 0 /\ 0 \in Nat
        BY <1>1, <1>2
    <2>10. walk' \in [Walkers -> Walks] /\ WalksGoOn' /\ \A k \in Users \cup Shuts : pc'[k] = pc[k]
        BY <1>1, <2>3, EndedWalk, WalkGoes
    <2> QED BY <1>2, <2>3, <2>6, <2>7, <2>8, <2>9, <2>10, WorkerStarts
<1> QED BY <1>3, <1>4

LEMMA ListedIdle == ASSUME IdleInv, PcTyped, aux' = aux, NEW w \in Walkers, Listed(w) PROVE IdleInv'
<1>1. /\ w \in Scans \cup Grabs /\ walk[w] \in Walks /\ walk \in [Walkers -> Walks]
      /\ walk[w].dirs # <<>> /\ walk[w].from \in Connects
      /\ queue \in Seq(Items) /\ reserved \in Nat
    BY DEF Walkers, IdleInv, IdleTyped, WalksGoOn, Listed
<1>2. PICK entries, start : /\ entries = Listing[Head(walk[w].dirs)]
                            /\ start = [dirs |-> Tail(walk[w].dirs), reserved |-> walk[w].reserved, queue |-> queue]
    OBVIOUS
<1>3. PICK end, scanned : end = Read(w, start, entries) /\ scanned = walk[w].scanned + Len(entries)
    OBVIOUS
<1>4. walk[w].dirs \in Seq(Dirs) /\ walk[w].reserved \in Nat /\ walk[w].scanned \in Nat
    BY <1>1 DEF Walks
<1>5. entries \in Seq(Dirs \cup DOMAIN Size) /\ Tail(walk[w].dirs) \in Seq(Dirs)
    <2>1. Head(walk[w].dirs) \in Dirs
        BY <1>1, <1>4
    <2> QED BY <1>1, <1>2, <1>4, <2>1, IdleAssumption
<1>6. start \in Fillings /\ start.queue = queue /\ start.reserved = walk[w].reserved
    BY <1>1, <1>2, <1>4, <1>5 DEF Fillings
<1>7. Fills(w, start, end)
    BY <1>1, <1>3, <1>5, <1>6, ReadFills
<1>8. end.queue \in Seq(Items) /\ end.dirs \in Seq(Dirs) /\ end.reserved \in Nat /\ scanned \in Nat
    <2>1. PICK m : m = Len(entries)
        OBVIOUS
    <2>2. m \in Nat
        BY <1>5, <2>1
    <2>3. scanned \in Nat
        BY <1>3, <1>4, <2>1, <2>2
    <2> QED BY <1>7, <2>3 DEF Fills, Fillings
<1>9. /\ link[walk[w].from] = "up"
      /\ UNCHANGED <<window, closing, client, link, sftp, signal, dir, latest, cached, bytes>>
    BY DEF Listed
<1>10. CASE w \in Scans /\ dir = None /\ end.reserved # start.reserved
    <2>1. Go(w, "ok") /\ walk' = [walk EXCEPT ![w] = NoWalk] /\ UNCHANGED <<queueVars, serving>>
        BY <1>2, <1>3, <1>10 DEF Listed
    <2>2. walk' \in [Walkers -> Walks] /\ WalksGoOn' /\ \A k \in Users \cup Shuts : pc'[k] = pc[k]
        BY <2>1, EndedWalk, WalkGoes
    <2> QED BY <1>9, <2>1, <2>2, WalkOnly
<1>11. CASE ~(w \in Scans /\ dir = None /\ end.reserved # start.reserved)
    <2>1. /\ reserved' = reserved + Bytes(end.queue) - Bytes(queue)
          /\ \/ /\ Go(w, "wait") /\ queue' = end.queue /\ UNCHANGED serving /\ end.dirs # <<>>
                /\ walk' = [walk EXCEPT ![w].dirs = end.dirs, ![w].reserved = end.reserved, ![w].scanned = scanned]
             \/ Go(w, "ok") /\ walk' = [walk EXCEPT ![w] = NoWalk] /\ EnsureWorker(end.queue)
        BY <1>2, <1>3, <1>11 DEF Listed
    <2>2. walk' \in [Walkers -> Walks] /\ WalksGoOn' /\ \A k \in Users \cup Shuts : pc'[k] = pc[k]
        <3>1. CASE Go(w, "ok") /\ walk' = [walk EXCEPT ![w] = NoWalk]
            BY <3>1, EndedWalk, WalkGoes
        <3>2. CASE /\ Go(w, "wait") /\ end.dirs # <<>>
                   /\ walk' = [walk EXCEPT ![w].dirs = end.dirs, ![w].reserved = end.reserved, ![w].scanned = scanned]
            <4>1. PICK r : r = [walk[w] EXCEPT !.dirs = end.dirs, !.reserved = end.reserved, !.scanned = scanned]
                OBVIOUS
            <4>2. r \in Walks /\ r.dirs # <<>>
                BY <1>1, <1>8, <3>2, <4>1 DEF Walks
            <4>3. walk' = [walk EXCEPT ![w] = r]
                BY <1>1, <3>2, <4>1
            <4> QED BY <3>2, <4>2, <4>3, WalkGoes
        <3> QED BY <2>1, <3>1, <3>2
    <2>3. EnsureWorker(end.queue) \/ (queue' = end.queue /\ UNCHANGED serving)
        BY <2>1
    <2>4. PICK a, b, r : a = Bytes(end.queue) /\ b = Bytes(queue) /\ r = reserved
        OBVIOUS
    <2>5. a \in Nat /\ b \in Nat /\ r \in Nat /\ a >= b
        BY <1>1, <1>6, <1>7, <1>8, <2>4, BytesAreNat DEF Fills
    <2>6. PICK more \in Nat : a = b + more
        <3>1. a - b \in Nat /\ a = b + (a - b)
            BY <2>5
        <3> QED BY <3>1
    <2>7. reserved' = reserved + more
        <3>1. r + a - b = r + more
            BY <2>5, <2>6
        <3> QED BY <2>1, <2>4, <3>1
    <2>8. Bytes(end.queue) = Bytes(queue) + more
        BY <2>4, <2>6
    <2>9. ASSUME NEW i \in DOMAIN end.queue PROVE Known(end.queue[i])
        <3>1. \/ \E j \in DOMAIN queue : end.queue[i] = queue[j]
              \/ end.queue[i].of = walk[w].from /\ (end.queue[i].cache => w \in Scans /\ end.reserved > start.reserved)
            BY <1>6, <1>7 DEF Fills
        <3>2. CASE \E j \in DOMAIN queue : end.queue[i] = queue[j]
            BY <3>2 DEF Known
        <3>3. ASSUME end.queue[i].of = walk[w].from, end.queue[i].cache => w \in Scans /\ end.reserved > start.reserved
              PROVE  Known(end.queue[i])
            <4>1. end.queue[i].cache => end.reserved # start.reserved
                BY <1>4, <1>6, <1>8, <3>3
            <4> QED BY <1>9, <1>11, <3>3, <4>1 DEF Known
        <3> QED BY <3>1, <3>2, <3>3
    <2> QED BY <1>8, <1>9, <2>2, <2>3, <2>7, <2>8, <2>9, WorkerStarts
<1> QED BY <1>10, <1>11

LEMMA IdleStep == ASSUME IdleInv, PcTyped, aux' = aux, IdleNext PROVE IdleInv'
BY TransferredIdle, TransferFailsIdle, PartRemovedIdle, StartAutomaticMediaCacheIdle, WalkReadsIdle, WalkFailsIdle,
   ListedIdle, QueueManualDownloadIdle, GrabStatsIdle, GrabStatedIdle, CancelGroupIdle DEF IdleNext, Walkers

-----------------------------------------------------------------------------
(* What runs beside the transfers.                                          *)

LEMMA TunnelsElsewhere ==
    ASSUME PcTyped, TunnelsNext PROVE Elsewhere /\ UNCHANGED <<window, closing, link>>
<1>1. ASSUME NEW s \in Starts,
             StartTunnel(s) \/ TunnelBound(s) \/ TunnelRefused(s) \/ TunnelUndone(s)
      PROVE  Elsewhere /\ UNCHANGED <<window, closing, link>>
    <2>1. (\E where : Go(s, where)) /\ UNCHANGED <<window, closing, link>>
        BY <1>1 DEF StartTunnel, TunnelBound, TunnelRefused, TunnelUndone
    <2>2. s \in Calls /\ s \notin Users \cup Shuts \cup Walkers
        BY WalkersApart
    <2> QED BY <2>1, <2>2, ElsewhereGoes
<1>2. ASSUME NEW x \in Stops, StopTunnel(x) \/ TunnelStopped(x)
      PROVE  Elsewhere /\ UNCHANGED <<window, closing, link>>
    <2>1. (\E where : Go(x, where)) /\ UNCHANGED <<window, closing, link>>
        BY <1>2 DEF StopTunnel, TunnelStopped
    <2>2. x \in Calls /\ x \notin Users \cup Shuts \cup Walkers
        BY WalkersApart
    <2> QED BY <2>1, <2>2, ElsewhereGoes
<1>3. CASE \/ \E s \in Starts : ServerFailed(s)
           \/ \E t \in Tunnels : ServerFailureShown(t)
           \/ \E k \in Conns : Connection(k)
    <2>1. UNCHANGED <<pc, window, closing, link>>
        BY <1>3 DEF ServerFailed, ServerFailureShown, Connection, clientVars
    <2> QED BY <2>1, ElsewhereStays
<1> QED BY <1>1, <1>2, <1>3 DEF TunnelsNext

LEMMA ServersElsewhere ==
    ASSUME PcTyped, ServersNext PROVE Elsewhere /\ UNCHANGED <<window, closing, link>>
<1>1. ASSUME NEW s \in Serves,
             \/ StartLanguageServer(s) \/ ServerSpawned(s) \/ Initialized(s)
             \/ InitializeFails(s) \/ StartGivenUp(s)
      PROVE  Elsewhere /\ UNCHANGED <<window, closing, link>>
    <2>1. (\E where : Go(s, where)) /\ UNCHANGED <<window, closing, link>>
        BY <1>1 DEF StartLanguageServer, ServerSpawned, Initialized, InitializeFails, StartGivenUp
    <2>2. s \in Calls /\ s \notin Users \cup Shuts \cup Walkers
        BY WalkersApart
    <2> QED BY <2>1, <2>2, ElsewhereGoes
<1>2. ASSUME NEW x \in Halts, StopLanguageServer(x) \/ ServerStopped(x)
      PROVE  Elsewhere /\ UNCHANGED <<window, closing, link>>
    <2>1. (\E where : Go(x, where)) /\ UNCHANGED <<window, closing, link>>
        BY <1>2 DEF StopLanguageServer, ServerStopped
    <2>2. x \in Calls /\ x \notin Users \cup Shuts \cup Walkers
        BY WalkersApart
    <2> QED BY <2>1, <2>2, ElsewhereGoes
<1>3. CASE \E s \in Serves : QuitDone(s) \/ ServerLost(s)
    <2>1. UNCHANGED <<pc, window, closing, link>>
        BY <1>3 DEF QuitDone, ServerLost, clientVars
    <2> QED BY <2>1, ElsewhereStays
<1> QED BY <1>1, <1>2, <1>3 DEF ServersNext

\* No interactive client comes or goes.
LinksLive == \A c \in Connects : link[c] = "up" => link'[c] = "up"

LEMMA OtherEnds ==
    ASSUME LinkTyped, NEW t \in Opens \cup Helpers,
           UNCHANGED link \/ EndClients({t}) \/ \E v : link' = [link EXCEPT ![t] = v]
    PROVE  LinksLive
<1>1. \A c \in Connects : c # t /\ c \in Clients
    BY Distinct DEF Clients
<1> QED BY <1>1 DEF LinksLive, LinkTyped, EndClients

LEMMA TerminalsElsewhere ==
    ASSUME PcTyped, LinkTyped, TerminalsNext PROVE Elsewhere /\ LinksLive /\ UNCHANGED <<window, closing>>
<1>1. ASSUME NEW t \in Opens,
             \/ OpenTerminal(t) \/ TerminalProbed(t) \/ TerminalDialed(t)
             \/ TerminalFails(t) \/ TerminalReady(t)
      PROVE  Elsewhere /\ LinksLive /\ UNCHANGED <<window, closing>>
    <2>1. \E where : Go(t, where)
        BY <1>1 DEF OpenTerminal, TerminalProbed, TerminalDialed, TerminalFails, TerminalReady, Register
    <2>2. UNCHANGED <<window, closing>>
        BY <1>1 DEF OpenTerminal, TerminalProbed, TerminalDialed, TerminalFails, TerminalReady
    <2>3. UNCHANGED link \/ EndClients({t}) \/ \E v : link' = [link EXCEPT ![t] = v]
        BY <1>1 DEF OpenTerminal, TerminalProbed, TerminalDialed, TerminalFails, TerminalReady, Register, Dial
    <2>4. t \in Calls /\ t \notin Users \cup Shuts \cup Walkers
        BY WalkersApart
    <2> QED BY <2>1, <2>2, <2>3, <2>4, ElsewhereGoes, OtherEnds
<1>2. ASSUME NEW t \in Opens,
             TerminalOutput(t) \/ FlushTimer(t) \/ ChannelClosed(t) \/ TerminalClientLost(t)
      PROVE  Elsewhere /\ LinksLive /\ UNCHANGED <<window, closing>>
    <2>1. /\ UNCHANGED <<pc, window, closing>>
          /\ UNCHANGED link \/ EndClients({t}) \/ link' = [link EXCEPT ![t] = "down"]
        BY <1>2 DEF TerminalOutput, FlushTimer, ChannelClosed, TerminalClientLost, clientVars
    <2> QED BY <2>1, ElsewhereStays, OtherEnds
<1>3. ASSUME NEW x \in Hangups, CloseTerminal(x)
      PROVE  Elsewhere /\ LinksLive /\ UNCHANGED <<window, closing>>
    <2>1. Go(x, "ok") /\ UNCHANGED <<window, closing>> /\ (UNCHANGED link \/ EndClients({TerminalOf[x]}))
        BY <1>3 DEF CloseTerminal
    <2>2. x \in Calls /\ x \notin Users \cup Shuts \cup Walkers
        BY WalkersApart
    <2>3. TerminalOf[x] \in Opens
        BY TerminalAssumption
    <2> QED BY <2>1, <2>2, <2>3, ElsewhereGoes, OtherEnds
<1>4. ASSUME NEW x \in Visions \cup Films \cup Cuts,
             \/ EnableVisionMode(x) \/ VirtualDisplay(x) \/ TellTerminal(x)
             \/ StartVideoStream(x) \/ ResolveFfmpegBinary(x) \/ VideoStarts(x) \/ StopVideoStream(x)
             \/ VideoEnds(x) \/ ObserverClosed(x)
      PROVE  Elsewhere /\ LinksLive /\ UNCHANGED <<window, closing>>
    <2>1. UNCHANGED <<window, closing, link>> /\ (UNCHANGED pc \/ \E where : Go(x, where))
        BY <1>4 DEF EnableVisionMode, VirtualDisplay, TellTerminal, StartVideoStream, ResolveFfmpegBinary,
                    VideoStarts, StopVideoStream, VideoEnds, ObserverClosed, clientVars
    <2>2. x \in Calls /\ x \notin Users \cup Shuts \cup Walkers
        BY WalkersApart
    <2> QED BY <2>1, <2>2, ElsewhereGoes, ElsewhereStays DEF LinksLive
<1>5. CASE DisableVisionMode
    <2>1. UNCHANGED <<pc, window, closing, link>>
        BY <1>5 DEF DisableVisionMode, clientVars
    <2> QED BY <2>1, ElsewhereStays DEF LinksLive
<1> QED BY <1>1, <1>2, <1>3, <1>4, <1>5 DEF TerminalsNext

LEMMA SideIdle ==
    ASSUME IdleInv, PcTyped, LinkTyped, UNCHANGED ownVars, TunnelsNext \/ TerminalsNext \/ ServersNext PROVE IdleInv'
<1>1. Elsewhere /\ LinksLive /\ UNCHANGED <<window, closing>>
    BY TunnelsElsewhere, TerminalsElsewhere, ServersElsewhere DEF LinksLive
<1>2. UNCHANGED idleVars /\ sftp' = sftp /\ aux' = aux
    BY DEF ownVars
<1>3. sftp' \in Connects \cup {None} /\ aux' \in Helpers \cup {None}
    BY <1>2 DEF IdleInv, IdleTyped
<1> QED BY <1>1, <1>2, <1>3, ElsewhereIdle DEF LinksLive

\* The set-up of the sftp, the auxiliary client, the poller, the loops after a loss.
LEMMA HelpersIdle ==
    ASSUME IdleInv, PcTyped, LinkTyped,
           \/ \E c \in Connects :
                \/ SftpOpened(c) \/ HomeResolved(c) \/ SftpRefused(c) \/ ShellHomeResolved(c) \/ SocketError(c)
                \/ \E e \in {"end", "close"} : LostTunnelStopped(c, e)
           \/ \E h \in Helpers :
                \/ EnsureAuxiliary(h) \/ AuxiliaryDialed(h) \/ AuxiliaryReady(h)
                \/ AuxiliaryFails(h) \/ AuxiliaryLost(h)
           \/ \E g \in Gauges : StartHostMetrics(g)
           \/ \E p \in polls : PollDone(p)
           \/ PollTimer
    PROVE  IdleInv'
<1>0. sftp \in Connects \cup {None} /\ aux \in Helpers \cup {None}
    BY DEF IdleInv, IdleTyped
<1>1. ASSUME NEW c \in Connects, SftpOpened(c) \/ SftpRefused(c)
      PROVE  IdleInv'
    <2>1. UNCHANGED <<pc, window, closing, link, idleVars, aux>> /\ sftp' \in {sftp, c, None}
        BY <1>1 DEF SftpOpened, SftpRefused, clientVars
    <2> QED BY <1>0, <2>1, ElsewhereStays, ElsewhereIdle
<1>2. ASSUME NEW c \in Connects, \/ HomeResolved(c) \/ ShellHomeResolved(c) \/ SocketError(c)
                                 \/ \E e \in {"end", "close"} : LostTunnelStopped(c, e)
      PROVE  IdleInv'
    <2>1. UNCHANGED <<pc, window, closing, link, idleVars, aux, sftp>>
        BY <1>2 DEF HomeResolved, ShellHomeResolved, SocketError, LostTunnelStopped, clientVars, ownVars
    <2> QED BY <1>0, <2>1, ElsewhereStays, ElsewhereIdle
<1>3. ASSUME NEW h \in Helpers, EnsureAuxiliary(h) \/ AuxiliaryDialed(h) \/ AuxiliaryReady(h) \/ AuxiliaryFails(h)
      PROVE  IdleInv'
    <2>1. UNCHANGED <<window, closing, idleVars, sftp>> /\ aux' \in {aux, h, None}
        BY <1>3 DEF EnsureAuxiliary, AuxiliaryDialed, AuxiliaryReady, AuxiliaryFails, ownVars
    <2>2. \E where : Go(h, where)
        BY <1>3 DEF EnsureAuxiliary, AuxiliaryDialed, AuxiliaryReady, AuxiliaryFails
    <2>3. UNCHANGED link \/ EndClients({h}) \/ \E v : link' = [link EXCEPT ![h] = v]
        BY <1>3 DEF EnsureAuxiliary, AuxiliaryDialed, AuxiliaryReady, AuxiliaryFails, Dial
    <2>4. h \in Calls /\ h \notin Users \cup Shuts \cup Walkers
        BY WalkersApart
    <2>5. Elsewhere /\ LinksLive
        BY <2>2, <2>3, <2>4, ElsewhereGoes, OtherEnds
    <2> QED BY <1>0, <2>1, <2>5, ElsewhereIdle DEF LinksLive
<1>4. ASSUME NEW h \in Helpers, AuxiliaryLost(h)
      PROVE  IdleInv'
    <2>1. UNCHANGED <<pc, window, closing, idleVars, sftp>> /\ aux' \in {aux, None}
        BY <1>4 DEF AuxiliaryLost
    <2>2. PICK S \in {{h}, {h, aux}} : link' = [i \in Clients |-> IF i \in S THEN "down" ELSE link[i]]
        BY <1>4 DEF AuxiliaryLost
    <2>3. \A c \in Connects : c \in Clients /\ c \notin S
        BY <1>0, Distinct, SessionAssumption DEF Clients
    <2>4. LinksLive
        BY <2>2, <2>3 DEF LinksLive
    <2> QED BY <1>0, <2>1, <2>4, ElsewhereStays, ElsewhereIdle DEF LinksLive
<1>5. ASSUME NEW g \in Gauges, StartHostMetrics(g)
      PROVE  IdleInv'
    <2>1. (\E where : Go(g, where)) /\ UNCHANGED <<window, closing, link, idleVars, aux, sftp>>
        BY <1>5 DEF StartHostMetrics
    <2>2. g \in Calls /\ g \notin Users \cup Shuts \cup Walkers
        BY WalkersApart
    <2> QED BY <1>0, <2>1, <2>2, ElsewhereGoes, ElsewhereIdle
<1>6. CASE PollTimer \/ \E p \in polls : PollDone(p)
    <2>1. UNCHANGED <<pc, window, closing, link, idleVars, aux, sftp>>
        BY <1>6 DEF PollTimer, PollDone, clientVars
    <2> QED BY <1>0, <2>1, ElsewhereStays, ElsewhereIdle
<1> QED BY <1>1, <1>2, <1>3, <1>4, <1>5, <1>6

-----------------------------------------------------------------------------
(* Sessions begin and end.                                                  *)

LEMMA SessionGoes ==
    ASSUME PcTyped, NEW k \in Users \cup Shuts, NEW where, Go(k, where)
    PROVE  /\ PcTyped' /\ pc'[k] = where
           /\ \A u \in Users \cup Shuts : u # k => pc'[u] = pc[u]
           /\ \A w \in Walkers : pc'[w] = pc[w]
<1>1. k \in Calls /\ k \notin Walkers /\ Users \cup Shuts \cup Walkers \subseteq Calls
    BY WalkersApart
<1> QED BY <1>1 DEF PcTyped, Go

LEMMA UsersAndShuts == Sweepers = Users \cup Shuts /\ Connects \subseteq Users /\ Users \cap Shuts = {}
BY WalkersApart DEF Sweepers, Users

LEMMA SweepIdle == ASSUME IdleInv, PcTyped, NEW k \in Sweepers, Sweep(k) PROVE IdleInv'
<1>0. /\ sftp \in Connects \cup {None} /\ aux \in Helpers \cup {None} /\ SessionsApart
      /\ k \in Users \cup Shuts /\ Users \cap Shuts = {}
    BY UsersAndShuts DEF IdleInv, IdleTyped
<1>1. CASE SweepBegins(k)
    <2>1. /\ StopSession /\ Go(k, "idle") /\ UNCHANGED <<sftp, aux>>
          /\ \/ k \in Users /\ UNCHANGED window
             \/ k \in Shuts /\ window' = FALSE
        BY <1>1 DEF SweepBegins, Users
    <2>2. /\ pc'[k] = "idle" /\ \A u \in Users \cup Shuts : u # k => pc'[u] = pc[u]
          /\ \A w \in Walkers : pc'[w] = pc[w]
        BY <1>0, <2>1, SessionGoes
    <2>3. signal' = None /\ serving' = serving
        BY <2>1 DEF StopSession
    <2>4. \A u \in Users : pc'[u] \in {"servers", "tunnels", "hopping", "dialing"} => serving' = None
        BY <1>0, <2>2, <2>3 DEF SessionsApart
    <2>5. window' => (\E u \in Users : pc'[u] \in {"idle", "servers", "tunnels"}) /\ \A u \in Shuts : pc'[u] \in {"off", "new"}
        BY <1>0, <2>1, <2>2 DEF SessionsApart
    <2>6. SessionsApart'
        BY <2>3, <2>4, <2>5 DEF SessionsApart
    <2> QED BY <1>0, <2>1, <2>2, <2>6, StopSessionIdle
<1>2. CASE SweepServers(k) \/ SweepTunnels(k)
    <2>1. UNCHANGED <<window, closing, link, sftp, aux, idleVars>>
        BY <1>2 DEF SweepServers, SweepTunnels, clientVars, ownVars
    <2>2. UNCHANGED <<signal, serving>>
        BY <2>1 DEF idleVars
    <2>3. CASE UNCHANGED pc
        BY <1>0, <2>1, <2>3, ElsewhereStays, ElsewhereIdle
    <2>4. ASSUME NEW where \in {"servers", "tunnels"}, Go(k, where),
                 pc[k] \in {"idle", "servers"}, pc[k] = "idle" => serving = None
          PROVE  IdleInv'
        <3>1. /\ pc'[k] = where /\ \A u \in Users \cup Shuts : u # k => pc'[u] = pc[u]
              /\ \A w \in Walkers : pc'[w] = pc[w]
            BY <1>0, <2>4, SessionGoes
        <3>2. \A u \in Users : pc'[u] \in {"idle", "servers", "tunnels", "hopping", "dialing"} => signal' = None
            BY <1>0, <2>2, <2>4, <3>1 DEF SessionsApart
        <3>3. \A u \in Users : pc'[u] \in {"servers", "tunnels", "hopping", "dialing"} => serving' = None
            BY <1>0, <2>2, <2>4, <3>1 DEF SessionsApart
        <3>4. window => k \in Users
            BY <1>0, <2>4 DEF SessionsApart
        <3>5. window' /\ closing' => \E u \in Users : pc'[u] \in {"idle", "servers", "tunnels"}
            BY <2>1, <2>4, <3>1, <3>4
        <3>6. window' => \A u \in Shuts : pc'[u] \in {"off", "new"}
            BY <1>0, <2>1, <3>1, <3>4 DEF SessionsApart
        <3>7. SessionsApart'
            BY <3>2, <3>3, <3>5, <3>6 DEF SessionsApart
        <3> QED BY <1>0, <2>1, <3>1, <3>7, IdleRests
    <2>5. \/ UNCHANGED pc
          \/ \E where \in {"servers", "tunnels"} :
               Go(k, where) /\ pc[k] \in {"idle", "servers"} /\ (pc[k] = "idle" => serving = None)
        BY <1>2 DEF SweepServers, SweepTunnels, clientVars
    <2> QED BY <2>3, <2>4, <2>5
<1>3. CASE SweepDone(k)
    <2>1. /\ pc[k] = "tunnels" /\ UNCHANGED <<window, idleVars>> /\ sftp' = None /\ aux' = None /\ closing' = FALSE
          /\ Go(k, "hopping") \/ Go(k, "dialing") \/ Go(k, "ok")
        BY <1>3 DEF SweepDone
    <2>2. UNCHANGED <<signal, serving>>
        BY <2>1 DEF idleVars
    <2>3. /\ pc'[k] \in {"hopping", "dialing", "ok"} /\ \A u \in Users \cup Shuts : u # k => pc'[u] = pc[u]
          /\ \A w \in Walkers : pc'[w] = pc[w]
        BY <1>0, <2>1, SessionGoes
    <2>4. window => k \in Users
        BY <1>0, <2>1 DEF SessionsApart
    <2>5. k \in Users => signal = None /\ serving = None
        BY <1>0, <2>1 DEF SessionsApart
    <2>6. \A u \in Users : /\ pc'[u] \in {"idle", "servers", "tunnels", "hopping", "dialing"} => signal' = None
                           /\ pc'[u] \in {"servers", "tunnels", "hopping", "dialing"} => serving' = None
        BY <1>0, <2>2, <2>3, <2>5 DEF SessionsApart
    <2>7. window' => \A u \in Shuts : pc'[u] \in {"off", "new"}
        BY <1>0, <2>1, <2>3, <2>4 DEF SessionsApart
    <2>8. SessionsApart'
        BY <2>1, <2>6, <2>7 DEF SessionsApart
    <2>9. ~(signal # None /\ window')
        BY <2>1, <2>4, <2>5
    <2> QED BY <2>1, <2>3, <2>8, <2>9, IdleRests
<1> QED BY <1>1, <1>2, <1>3 DEF Sweep

LEMMA ConnectIdle ==
    ASSUME IdleInv, CurrentInv, NEW c \in Connects, JumpDialed(c) \/ Dialed(c) \/ ConnectDone(c) \/ ConnectFails(c)
    PROVE  IdleInv'
<1>0. /\ sftp \in Connects \cup {None} /\ aux \in Helpers \cup {None} /\ SessionsApart /\ PcTyped
      /\ c \in Users /\ c \notin Shuts /\ c # None
    BY UsersAndShuts, SessionAssumption DEF IdleInv, IdleTyped, CurrentInv, Clients
<1>1. pc[c] \in {"hopping", "dialing", "starting"}
    BY DEF JumpDialed, Dialed, ConnectDone, ConnectFails
<1>2. \A u \in Users : u # c => pc[u] \notin {"idle", "servers", "tunnels", "hopping", "dialing", "starting"}
    <2>1. Busy(c)
        BY <1>1 DEF Busy, Ended
    <2>2. \A u \in Users : pc[u] \in {"idle", "servers", "tunnels", "hopping", "dialing", "starting"} => Busy(u)
        BY DEF Busy, Ended
    <2> QED BY <1>0, <2>1, <2>2 DEF CurrentInv, OneBusy
<1>3. ~(window /\ closing)
    BY <1>0, <1>1, <1>2 DEF SessionsApart
<1>4. UNCHANGED <<window, closing>>
    BY DEF JumpDialed, Dialed, ConnectDone, ConnectFails
<1>5. \E where \in {"dialing", "starting", "ok", "failed"} : Go(c, where) /\ (where = "dialing" => JumpDialed(c))
    BY DEF JumpDialed, Dialed, ConnectDone, ConnectFails
<1>6. /\ PcTyped' /\ (pc'[c] \in {"starting", "ok", "failed"} \/ (pc'[c] = "dialing" /\ JumpDialed(c)))
      /\ \A u \in Users \cup Shuts : u # c => pc'[u] = pc[u]
      /\ \A w \in Walkers : pc'[w] = pc[w]
    <2>1. PICK where \in {"dialing", "starting", "ok", "failed"} : Go(c, where) /\ (where = "dialing" => JumpDialed(c))
        BY <1>5
    <2>2. /\ PcTyped' /\ pc'[c] = where /\ \A u \in Users \cup Shuts : u # c => pc'[u] = pc[u]
          /\ \A w \in Walkers : pc'[w] = pc[w]
        BY <1>0, <2>1, SessionGoes
    <2> QED BY <2>1, <2>2
<1>7. ASSUME pc'[c] = "dialing" => signal' = None /\ serving' = None PROVE SessionsApart'
    <2>1. \A u \in Users : pc'[u] \in {"idle", "servers", "tunnels", "hopping", "dialing"} => u = c /\ pc'[c] = "dialing"
        BY <1>0, <1>2, <1>6
    <2>2. window' => \A u \in Shuts : pc'[u] \in {"off", "new"}
        BY <1>0, <1>4, <1>6 DEF SessionsApart
    <2> QED BY <1>3, <1>4, <1>7, <2>1, <2>2 DEF SessionsApart
<1>8. CASE JumpDialed(c)
    <2>1. pc[c] = "hopping" /\ UNCHANGED <<sftp, aux, idleVars, signal, serving>>
        BY <1>8 DEF JumpDialed, ownVars, idleVars
    <2>2. signal = None /\ serving = None
        BY <1>0, <2>1 DEF SessionsApart
    <2>3. SessionsApart'
        BY <1>7, <2>1, <2>2
    <2> QED BY <1>0, <1>6, <2>1, <2>2, <2>3, IdleRests
<1>9. CASE Dialed(c)
    <2>1. /\ pc[c] = "dialing" /\ signal' = c /\ latest' = None /\ queue' = <<>> /\ UNCHANGED <<serving, walk, sftp>>
          /\ cached' = {} /\ bytes' = 0 /\ reserved' = 0 /\ dir' = None /\ aux' = None
        BY <1>9 DEF Dialed, StartSession, Forgotten
    <2>2. serving = None /\ serving' = None
        BY <1>0, <2>1 DEF SessionsApart
    <2>3. Reserving'
        <3>1. Active(serving') = 0
            BY <2>2 DEF Active
        <3>2. Bytes(queue') = 0
            BY <2>1, BytesEmpty
        <3> QED BY <2>1, <3>1, <3>2 DEF Reserving
    <2>4. IdleTyped'
        BY <1>0, <2>1, <2>2 DEF IdleInv, IdleTyped
    <2>5. WalksGoOn'
        BY <1>6, <2>1 DEF IdleInv, WalksGoOn
    <2>6. pc'[c] # "dialing"
        <3>1. Go(c, "starting")
            BY <1>9 DEF Dialed
        <3> QED BY <1>0, <3>1, SessionGoes
    <2>7. SessionsApart'
        BY <1>7, <2>6
    <2>8. Directed' /\ Recorded' /\ AllLive'
        BY <2>1, <2>2 DEF Directed, Recorded, AllLive
    <2> QED BY <2>3, <2>4, <2>5, <2>7, <2>8 DEF IdleInv
<1>10. CASE ConnectDone(c)
    <2>1. /\ dir' = c /\ Go(c, "ok")
          /\ UNCHANGED <<link, sftp, aux, signal, latest, queue, reserved, serving, cached, bytes, walk>>
        BY <1>10 DEF ConnectDone, queueVars
    <2>2. IdleTyped'
        BY <1>0, <2>1 DEF IdleInv, IdleTyped
    <2>3. WalksGoOn'
        BY <1>6, <2>1 DEF IdleInv, WalksGoOn
    <2>4. Reserving'
        <3>1. queue' = queue /\ serving' = serving /\ reserved' = reserved /\ signal' = signal
            BY <2>1
        <3> QED BY <3>1 DEF IdleInv, Reserving
    <2>5. Directed' /\ Recorded'
        BY <1>0, <2>1 DEF IdleInv, Directed, Recorded
    <2>6. AllLive'
        BY <1>4, <2>1 DEF IdleInv, AllLive, Live
    <2>7. SessionsApart'
        <3>1. pc'[c] = "ok"
            BY <1>0, <2>1, SessionGoes
        <3> QED BY <1>7, <3>1
    <2> QED BY <2>2, <2>3, <2>4, <2>5, <2>6, <2>7 DEF IdleInv
<1>11. CASE ConnectFails(c)
    <2>1. StopSession /\ Go(c, "failed") /\ sftp' = None /\ aux' = None
        BY <1>11 DEF ConnectFails
    <2>2. pc'[c] = "failed"
        BY <1>0, <2>1, SessionGoes
    <2>3. SessionsApart'
        BY <1>7, <2>2
    <2> QED BY <1>6, <2>1, <2>3, StopSessionIdle
<1> QED BY <1>8, <1>9, <1>10, <1>11

LEMMA InteractiveLostIdle ==
    ASSUME IdleInv, NEW c \in Connects, NEW e \in {"end", "close"}, InteractiveLost(c, e) PROVE IdleInv'
<1>0. /\ sftp \in Connects \cup {None} /\ aux \in Helpers \cup {None} /\ SessionsApart
    BY DEF IdleInv, IdleTyped
<1>1. UNCHANGED <<pc, window, closing>>
    BY DEF InteractiveLost
<1>2. CASE closing
    <2>1. UNCHANGED <<sftp, aux, idleVars, signal, serving>>
        BY <1>2 DEF InteractiveLost, ToldLost, idleVars
    <2>2. ~(signal # None /\ window)
        BY <1>0, <1>2 DEF SessionsApart
    <2>3. SessionsApart'
        BY <1>0, <1>1, <2>1, SessionsRest
    <2> QED BY <1>0, <1>1, <2>1, <2>2, <2>3, IdleRests
<1>3. CASE ~closing
    <2>1. StopSession /\ sftp' = None /\ aux' = None
        BY <1>3 DEF InteractiveLost, ToldLost
    <2>2. signal' = None /\ serving' = serving
        BY <2>1 DEF StopSession
    <2>3. SessionsApart'
        BY <1>0, <1>1, <2>2 DEF SessionsApart
    <2> QED BY <1>1, <2>1, <2>3, StopSessionIdle
<1> QED BY <1>2, <1>3

LEMMA StepIdle == IdleInv /\ CurrentInv /\ TunnelInv /\ [Next]_vars => IdleInv'
<1> SUFFICES ASSUME IdleInv, CurrentInv, TunnelInv, [Next]_vars PROVE IdleInv'
    OBVIOUS
<1>0. PcTyped /\ LinkTyped
    BY DEF TunnelInv
<1>1. CASE \/ TunnelsNext /\ UNCHANGED <<terminalVars, serverVars, ownVars>>
           \/ TerminalsNext /\ UNCHANGED <<tunnelVars, serverVars, ownVars>>
           \/ ServersNext /\ UNCHANGED <<tunnelVars, terminalVars, ownVars>>
    <2>1. UNCHANGED ownVars /\ (TunnelsNext \/ TerminalsNext \/ ServersNext)
        BY <1>1
    <2> QED BY <1>0, <2>1, SideIdle
<1>2. CASE /\ IdleNext
           /\ UNCHANGED <<tunnelVars, terminalVars, serverVars, init, aux, auxState, poller, polls, reading, waits, had>>
    BY <1>0, <1>2, IdleStep
<1>3. CASE LifecycleNext
    <2>1. CASE \E k \in Sweepers : Sweep(k)
        BY <1>0, <2>1, SweepIdle
    <2>2. CASE \E c \in Connects : JumpDialed(c) \/ Dialed(c) \/ ConnectDone(c) \/ ConnectFails(c)
        BY <2>2, ConnectIdle
    <2>3. CASE \E c \in Connects, e \in {"end", "close"} : InteractiveLost(c, e)
        BY <2>3, InteractiveLostIdle
    <2>4. CASE \/ \E c \in Connects :
                    \/ SftpOpened(c) \/ HomeResolved(c) \/ SftpRefused(c) \/ ShellHomeResolved(c) \/ SocketError(c)
                    \/ \E e \in {"end", "close"} : LostTunnelStopped(c, e)
               \/ \E h \in Helpers :
                    \/ EnsureAuxiliary(h) \/ AuxiliaryDialed(h) \/ AuxiliaryReady(h)
                    \/ AuxiliaryFails(h) \/ AuxiliaryLost(h)
               \/ \E g \in Gauges : StartHostMetrics(g)
               \/ \E p \in polls : PollDone(p)
               \/ PollTimer
        BY <1>0, <2>4, HelpersIdle
    <2> QED BY <1>3, <2>1, <2>2, <2>3, <2>4 DEF LifecycleNext
<1>4. CASE UNCHANGED vars
    <2>1. UNCHANGED <<pc, window, closing, link, idleVars, sftp, aux>>
        BY <1>4 DEF vars, clientVars, ownVars
    <2>2. sftp' \in Connects \cup {None} /\ aux' \in Helpers \cup {None}
        BY <2>1 DEF IdleInv, IdleTyped
    <2> QED BY <1>0, <2>1, <2>2, ElsewhereStays, ElsewhereIdle
<1> QED BY <1>1, <1>2, <1>3, <1>4 DEF Next

(* The idle transfers are this session's alone (IdleIsThisSessions): for    *)
(* any number of connects, disconnects, losses, scans, downloads and        *)
(* cancellations, any tree of files and any limit, nothing is taken over a  *)
(* connection that has ended, what is reserved is what waits or is being    *)
(* transferred, and a session that is over leaves nothing on record.        *)
THEOREM IdleStaysThisSessions == Spec => []IdleIsThisSessions
<1>1. Spec => []TunnelInv
    BY InitTunnels, StepTunnels, PTL DEF Spec
<1>2. Spec => []IdleInv
    BY <1>1, CurrentInvariantHolds, InitIdle, StepIdle, PTL DEF Spec
<1> QED BY <1>2, IdleInvSuffices, PTL

-----------------------------------------------------------------------------
(* The types of a session.  Those of the tunnels, of the idle transfers and *)
(* of the clients are parts of the invariants above; what is left:          *)

LinkStates == {"none", "dialing", "up", "ended", "down"}

\* Only a terminal with a session name asks for a multiplexer.
CallTypes ==
    /\ pc \in [Calls -> Places] /\ window \in BOOLEAN /\ closing \in BOOLEAN
    /\ \A t \in Opens : pc[t] = "probing" => t \in Persistent

\* Where all other calls go.
Further == Places \ {"probing"}

LinkTypes == link \in [Clients -> LinkStates]

TunnelTypes ==
    /\ tstate \in [Tunnels -> {"stopped", "starting", "running", "error"}]
    /\ bound \subseteq Starts /\ routed \subseteq Tunnels /\ faulty \subseteq Tunnels
    /\ over \in [Starts -> Connects \cup {None}]

ShellTypes ==
    /\ kept \subseteq Persistent /\ swept \subseteq Opens /\ told \subseteq Opens
    /\ channel \in [Opens -> {"none", "open", "closed"}]
    /\ display \in BOOLEAN /\ pending \in [Visions -> SUBSET Opens]

\* No more is told of a terminal than it put out.
Output(r) == r.in \in 0..MaxChunks /\ r.held + r.out =< r.in

OutputCount == \A t \in Opens : Output(story[t])

FilmTypes ==
    /\ observers \subseteq Films
    /\ picture \in [Films -> {"none", "open", "closed"}]
    /\ camera \in [Films -> Connects \cup {None}]

ServerTypes ==
    /\ servers \subseteq Serves
    /\ process \in [Serves -> {"none", "open", "closed"}]
    /\ via \in [Serves -> Connects \cup {None}]
    /\ quitting \in [Serves -> {"no", "silent", "told"}]
    /\ given \in [Serves -> Serves \cup {None}]
    /\ lstate \in [Serves -> {"none", "starting", "ready", "stopped", "error"}]
    /\ waits \in [Sweepers -> SUBSET Serves]

OwnTypes ==
    /\ shown \in [state : {"disconnected", "connecting", "connected", "error"},
                  conn : Connects \cup {None}, files : {"idle", "loading", "ready", "error"}]
    /\ init \in [Connects -> {"none", "sftp", "home", "shell", "done"}]
    /\ auxState \in {"idle", "connecting", "ready", "failed"}
    /\ poller \in Gauges \cup {None} /\ polls \subseteq [by : Gauges, of : Connects]
    /\ reading \in [of : Connects \cup {None}, now : Connects \cup {None}]

LEMMA InitTypes ==
    Init => CallTypes /\ LinkTypes /\ TunnelTypes /\ ShellTypes /\ OutputCount /\ FilmTypes /\ ServerTypes /\ OwnTypes
<1> SUFFICES ASSUME Init
             PROVE  CallTypes /\ LinkTypes /\ TunnelTypes /\ ShellTypes /\ OutputCount /\ FilmTypes /\ ServerTypes /\ OwnTypes
    OBVIOUS
<1>1. CallTypes
    <2>1. PICK m \in Mixes : pc = [c \in Calls |-> IF c \in m THEN "new" ELSE "off"]
        BY DEF Init, ClientsInit
    <2> QED BY <2>1 DEF Init, ClientsInit, CallTypes, Places, Ended, Calls
<1>2. LinkTypes
    BY DEF Init, ClientsInit, LinkTypes, LinkStates
<1>3. TunnelTypes
    BY DEF Init, TunnelsInit, TunnelTypes
<1>4. ShellTypes /\ FilmTypes
    BY DEF Init, TerminalsInit, ShellTypes, FilmTypes
<1>5. OutputCount
    BY TerminalAssumption DEF Init, TerminalsInit, OutputCount, Output
<1>6. ServerTypes
    BY DEF Init, ServersInit, ServerTypes
<1>7. OwnTypes
    BY DEF Init, ClientsInit, OwnTypes
<1> QED BY <1>1, <1>2, <1>3, <1>4, <1>5, <1>6, <1>7

-----------------------------------------------------------------------------
(* The calls.                                                               *)

LEMMA CallIsTyped ==
    ASSUME CallTypes, UNCHANGED pc \/ \E k : \E where \in Further : Go(k, where),
           window' \in BOOLEAN, closing' \in BOOLEAN
    PROVE  CallTypes'
BY DEF Go, CallTypes, Further, Calls

LEMMA OpenIsTyped == ASSUME CallTypes, NEW t \in Opens, OpenTerminal(t) PROVE CallTypes'
<1>1. {"probing", "dialing", "failed"} \subseteq Places
    BY DEF Places, Ended
<1>2. UNCHANGED <<window, closing>>
    BY DEF OpenTerminal
<1>3. CASE Go(t, "failed") \/ Go(t, "dialing")
    BY <1>1, <1>2, <1>3, CallIsTyped DEF Further, CallTypes
<1>4. CASE t \in Persistent /\ Go(t, "probing")
    BY <1>1, <1>2, <1>4 DEF CallTypes, Go, Calls
<1> QED BY <1>3, <1>4 DEF OpenTerminal

LEMMA PartsCallTypes ==
    ASSUME CallTypes, TunnelsNext \/ TerminalsNext \/ ServersNext \/ IdleNext PROVE CallTypes'
<1>0. /\ window \in BOOLEAN /\ closing \in BOOLEAN
      /\ {"ok", "failed", "binding", "undoing", "stopping", "dialing", "shell", "display", "telling",
          "encoder", "exec", "initialize", "quitting", "wait", "stat", "list", "quiet"} \subseteq Further
    BY DEF CallTypes, Places, Ended, Further
<1>5. CASE \E t \in Opens : OpenTerminal(t)
    BY <1>5, OpenIsTyped
<1> SUFFICES ASSUME ~\E t \in Opens : OpenTerminal(t)
             PROVE  /\ UNCHANGED pc \/ \E k : \E where \in Further : Go(k, where)
                    /\ UNCHANGED <<window, closing>>
    BY <1>0, <1>5, CallIsTyped
<1>1. CASE TunnelsNext
    <2>1. ASSUME NEW s \in Starts, StartTunnel(s) \/ TunnelBound(s) \/ TunnelRefused(s) \/ TunnelUndone(s)
          PROVE  (\E where \in Further : Go(s, where)) /\ UNCHANGED <<window, closing>>
        BY <1>0, <2>1 DEF StartTunnel, TunnelBound, TunnelRefused, TunnelUndone
    <2>2. ASSUME NEW x \in Stops, StopTunnel(x) \/ TunnelStopped(x)
          PROVE  (\E where \in Further : Go(x, where)) /\ UNCHANGED <<window, closing>>
        BY <1>0, <2>2 DEF StopTunnel, TunnelStopped
    <2>3. ASSUME \/ \E s \in Starts : ServerFailed(s)
                 \/ \E t \in Tunnels : ServerFailureShown(t)
                 \/ \E k \in Conns : Connection(k)
          PROVE  UNCHANGED <<pc, window, closing>>
        BY <2>3 DEF ServerFailed, ServerFailureShown, Connection, clientVars
    <2> QED BY <1>1, <2>1, <2>2, <2>3 DEF TunnelsNext
<1>2. CASE TerminalsNext
    <2>1. ASSUME NEW t \in Opens,
                 TerminalProbed(t) \/ TerminalDialed(t) \/ TerminalFails(t) \/ TerminalReady(t)
          PROVE  (\E where \in Further : Go(t, where)) /\ UNCHANGED <<window, closing>>
        BY <1>0, <2>1 DEF TerminalProbed, TerminalDialed, TerminalFails, TerminalReady, Register
    <2>2. ASSUME \E t \in Opens : TerminalOutput(t) \/ FlushTimer(t) \/ ChannelClosed(t) \/ TerminalClientLost(t)
          PROVE  UNCHANGED <<pc, window, closing>>
        BY <2>2 DEF TerminalOutput, FlushTimer, ChannelClosed, TerminalClientLost, clientVars
    <2>3. ASSUME NEW x \in Hangups, CloseTerminal(x)
          PROVE  (\E where \in Further : Go(x, where)) /\ UNCHANGED <<window, closing>>
        BY <1>0, <2>3 DEF CloseTerminal
    <2>4. ASSUME NEW x \in Visions, EnableVisionMode(x) \/ VirtualDisplay(x) \/ TellTerminal(x)
          PROVE  /\ UNCHANGED pc \/ \E where \in Further : Go(x, where)
                 /\ UNCHANGED <<window, closing>>
        BY <1>0, <2>4 DEF EnableVisionMode, VirtualDisplay, TellTerminal
    <2>5. ASSUME DisableVisionMode \/ \E v \in Films : VideoEnds(v) \/ ObserverClosed(v)
          PROVE  UNCHANGED <<pc, window, closing>>
        BY <2>5 DEF DisableVisionMode, VideoEnds, ObserverClosed, clientVars
    <2>6. ASSUME NEW v \in Films, StartVideoStream(v) \/ ResolveFfmpegBinary(v) \/ VideoStarts(v)
          PROVE  (\E where \in Further : Go(v, where)) /\ UNCHANGED <<window, closing>>
        BY <1>0, <2>6 DEF StartVideoStream, ResolveFfmpegBinary, VideoStarts
    <2>7. ASSUME NEW x \in Cuts, StopVideoStream(x)
          PROVE  (\E where \in Further : Go(x, where)) /\ UNCHANGED <<window, closing>>
        BY <1>0, <2>7 DEF StopVideoStream
    <2> QED BY <1>2, <2>1, <2>2, <2>3, <2>4, <2>5, <2>6, <2>7 DEF TerminalsNext
<1>3. CASE ServersNext
    <2>1. ASSUME NEW s \in Serves,
                 \/ StartLanguageServer(s) \/ ServerSpawned(s) \/ Initialized(s)
                 \/ InitializeFails(s) \/ StartGivenUp(s)
          PROVE  (\E where \in Further : Go(s, where)) /\ UNCHANGED <<window, closing>>
        BY <1>0, <2>1 DEF StartLanguageServer, ServerSpawned, Initialized, InitializeFails, StartGivenUp
    <2>2. ASSUME \E s \in Serves : QuitDone(s) \/ ServerLost(s)
          PROVE  UNCHANGED <<pc, window, closing>>
        BY <2>2 DEF QuitDone, ServerLost, clientVars
    <2>3. ASSUME NEW x \in Halts, StopLanguageServer(x) \/ ServerStopped(x)
          PROVE  (\E where \in Further : Go(x, where)) /\ UNCHANGED <<window, closing>>
        BY <1>0, <2>3 DEF StopLanguageServer, ServerStopped
    <2> QED BY <1>3, <2>1, <2>2, <2>3 DEF ServersNext
<1>4. CASE IdleNext
    <2>1. ASSUME Transferred \/ TransferFails \/ PartRemoved
          PROVE  UNCHANGED <<pc, window, closing>>
        BY <2>1 DEF Transferred, TransferFails, PartRemoved, clientVars
    <2>2. ASSUME NEW s \in Scans, StartAutomaticMediaCache(s)
          PROVE  (\E where \in Further : Go(s, where)) /\ UNCHANGED <<window, closing>>
        BY <1>0, <2>2 DEF StartAutomaticMediaCache
    <2>3. ASSUME NEW w \in Scans \cup Grabs, WalkReads(w) \/ WalkFails(w)
          PROVE  (\E where \in Further : Go(w, where)) /\ UNCHANGED <<window, closing>>
        BY <1>0, <2>3 DEF WalkReads, WalkFails
    <2>4. ASSUME NEW w \in Scans \cup Grabs, Listed(w)
          PROVE  (\E where \in Further : Go(w, where)) /\ UNCHANGED <<window, closing>>
        BY <1>0, <2>4, Zenon DEF Listed
    <2>5. ASSUME NEW g \in Grabs, QueueManualDownload(g) \/ GrabStats(g) \/ GrabStated(g)
          PROVE  (\E where \in Further : Go(g, where)) /\ UNCHANGED <<window, closing>>
        BY <1>0, <2>5 DEF QueueManualDownload, GrabStats, GrabStated
    <2>6. ASSUME NEW d \in Drops, CancelGroup(d)
          PROVE  (\E where \in Further : Go(d, where)) /\ UNCHANGED <<window, closing>>
        BY <1>0, <2>6 DEF CancelGroup
    <2> QED BY <1>4, <2>1, <2>2, <2>3, <2>4, <2>5, <2>6 DEF IdleNext
<1> QED BY <1>1, <1>2, <1>3, <1>4

LEMMA LifecycleCallTypes == ASSUME CallTypes, LifecycleNext PROVE CallTypes'
<1>0. /\ window \in BOOLEAN /\ closing \in BOOLEAN
      /\ {"ok", "failed", "idle", "servers", "tunnels", "hopping", "dialing", "starting", "sftp"} \subseteq Further
    BY DEF CallTypes, Places, Ended, Further
<1> SUFFICES /\ UNCHANGED pc \/ \E k : \E where \in Further : Go(k, where)
             /\ window' \in BOOLEAN /\ closing' \in BOOLEAN
    BY <1>0, CallIsTyped
<1>1. ASSUME NEW k \in Sweepers, Sweep(k)
      PROVE  /\ UNCHANGED pc \/ \E where \in Further : Go(k, where)
             /\ window' \in BOOLEAN /\ closing' \in BOOLEAN
    <2>1. CASE SweepBegins(k)
        BY <1>0, <2>1 DEF SweepBegins
    <2>2. CASE SweepServers(k)
        BY <1>0, <2>2 DEF SweepServers
    <2>3. CASE SweepTunnels(k)
        BY <1>0, <2>3 DEF SweepTunnels, clientVars
    <2>4. CASE SweepDone(k)
        BY <1>0, <2>4 DEF SweepDone
    <2> QED BY <1>1, <2>1, <2>2, <2>3, <2>4 DEF Sweep
<1>2. ASSUME NEW c \in Connects, JumpDialed(c) \/ Dialed(c) \/ ConnectDone(c) \/ ConnectFails(c)
      PROVE  (\E where \in Further : Go(c, where)) /\ UNCHANGED <<window, closing>>
    BY <1>0, <1>2 DEF JumpDialed, Dialed, ConnectDone, ConnectFails
<1>3. ASSUME \E c \in Connects :
                \/ SftpOpened(c) \/ HomeResolved(c) \/ SftpRefused(c) \/ ShellHomeResolved(c) \/ SocketError(c)
                \/ \E e \in {"end", "close"} : InteractiveLost(c, e) \/ LostTunnelStopped(c, e)
      PROVE  UNCHANGED <<pc, window, closing>>
    BY <1>3 DEF SftpOpened, HomeResolved, SftpRefused, ShellHomeResolved, SocketError, InteractiveLost,
                LostTunnelStopped, clientVars
<1>4. ASSUME NEW h \in Helpers,
             EnsureAuxiliary(h) \/ AuxiliaryDialed(h) \/ AuxiliaryReady(h) \/ AuxiliaryFails(h) \/ AuxiliaryLost(h)
      PROVE  /\ UNCHANGED pc \/ \E where \in Further : Go(h, where)
             /\ UNCHANGED <<window, closing>>
    BY <1>0, <1>4 DEF EnsureAuxiliary, AuxiliaryDialed, AuxiliaryReady, AuxiliaryFails, AuxiliaryLost
<1>5. ASSUME NEW g \in Gauges, StartHostMetrics(g)
      PROVE  (\E where \in Further : Go(g, where)) /\ UNCHANGED <<window, closing>>
    BY <1>0, <1>5 DEF StartHostMetrics
<1>6. ASSUME PollTimer \/ \E p \in polls : PollDone(p)
      PROVE  UNCHANGED <<pc, window, closing>>
    BY <1>6 DEF PollTimer, PollDone, clientVars
<1> QED BY <1>0, <1>1, <1>2, <1>3, <1>4, <1>5, <1>6 DEF LifecycleNext

LEMMA StepCallTypes == CallTypes /\ [Next]_vars => CallTypes'
<1>1. ASSUME CallTypes, UNCHANGED vars PROVE CallTypes'
    BY <1>1 DEF CallTypes, vars, clientVars
<1> QED BY <1>1, PartsCallTypes, LifecycleCallTypes DEF Next

-----------------------------------------------------------------------------
(* The clients of a session, and its tunnels.                               *)

LEMMA LinkIsTyped ==
    ASSUME LinkTypes, \/ UNCHANGED link
                      \/ \E S : EndClients(S)
                      \/ \E k : \E v \in LinkStates : link' = [link EXCEPT ![k] = v]
    PROVE  LinkTypes'
BY DEF LinkTypes, LinkStates, EndClients

LEMMA PartsLinkTypes ==
    ASSUME LinkTypes, TunnelsNext \/ TerminalsNext \/ ServersNext \/ IdleNext PROVE LinkTypes'
<1>0. {"dialing", "up", "down"} \subseteq LinkStates
    BY DEF LinkStates
<1> SUFFICES \/ UNCHANGED link
             \/ \E S : EndClients(S)
             \/ \E k : \E v \in LinkStates : link' = [link EXCEPT ![k] = v]
    BY LinkIsTyped
<1>1. CASE TunnelsNext
    BY <1>1 DEF TunnelsNext, StartTunnel, TunnelBound, TunnelRefused, TunnelUndone, StopTunnel, TunnelStopped,
                ServerFailed, ServerFailureShown, Connection, clientVars
<1>2. CASE TerminalsNext
    <2>1. ASSUME NEW t \in Opens, OpenTerminal(t) \/ TerminalProbed(t) \/ TerminalDialed(t) \/ TerminalClientLost(t)
          PROVE  \/ UNCHANGED link \/ EndClients({t})
                 \/ \E v \in LinkStates : link' = [link EXCEPT ![t] = v]
        BY <1>0, <2>1 DEF OpenTerminal, TerminalProbed, TerminalDialed, TerminalClientLost, Dial
    <2>2. ASSUME NEW t \in Opens, TerminalFails(t) \/ TerminalReady(t) \/ ChannelClosed(t)
          PROVE  UNCHANGED link \/ EndClients({t})
        BY <2>2 DEF TerminalFails, TerminalReady, Register, ChannelClosed
    <2>3. ASSUME NEW x \in Hangups, CloseTerminal(x)
          PROVE  UNCHANGED link \/ EndClients({TerminalOf[x]})
        BY <2>3 DEF CloseTerminal
    <2>4. ASSUME \/ \E t \in Opens : TerminalOutput(t) \/ FlushTimer(t)
                 \/ \E x \in Visions : EnableVisionMode(x) \/ VirtualDisplay(x) \/ TellTerminal(x)
                 \/ DisableVisionMode
                 \/ \E v \in Films : \/ StartVideoStream(v) \/ ResolveFfmpegBinary(v) \/ VideoStarts(v)
                                     \/ VideoEnds(v) \/ ObserverClosed(v)
                 \/ \E x \in Cuts : StopVideoStream(x)
          PROVE  UNCHANGED link
        BY <2>4 DEF TerminalOutput, FlushTimer, EnableVisionMode, VirtualDisplay, TellTerminal, DisableVisionMode,
                    StartVideoStream, ResolveFfmpegBinary, VideoStarts, VideoEnds, ObserverClosed, StopVideoStream,
                    clientVars
    <2> QED BY <1>2, <2>1, <2>2, <2>3, <2>4 DEF TerminalsNext
<1>3. CASE ServersNext
    BY <1>3 DEF ServersNext, StartLanguageServer, ServerSpawned, Initialized, InitializeFails, StartGivenUp,
                QuitDone, ServerLost, StopLanguageServer, ServerStopped, clientVars
<1>4. CASE IdleNext
    <2>1. ASSUME \/ Transferred \/ TransferFails \/ PartRemoved
                 \/ \E s \in Scans : StartAutomaticMediaCache(s)
                 \/ \E w \in Scans \cup Grabs : WalkReads(w) \/ WalkFails(w)
                 \/ \E g \in Grabs : QueueManualDownload(g) \/ GrabStats(g) \/ GrabStated(g)
                 \/ \E d \in Drops : CancelGroup(d)
          PROVE  UNCHANGED link
        BY <2>1 DEF Transferred, TransferFails, PartRemoved, StartAutomaticMediaCache, WalkReads, WalkFails,
                    QueueManualDownload, GrabStats, GrabStated, CancelGroup, clientVars
    <2>2. ASSUME NEW w \in Scans \cup Grabs, Listed(w)
          PROVE  UNCHANGED link
        BY <2>2, Zenon DEF Listed
    <2> QED BY <1>4, <2>1, <2>2 DEF IdleNext
<1> QED BY <1>1, <1>2, <1>3, <1>4

LEMMA LifecycleLinkTypes == ASSUME LinkTypes, LifecycleNext PROVE LinkTypes'
<1>0. link \in [Clients -> LinkStates] /\ {"dialing", "up", "ended", "down"} \subseteq LinkStates
    BY DEF LinkTypes, LinkStates
<1>1. ASSUME NEW k \in Sweepers, SweepBegins(k) \/ SweepServers(k) \/ SweepTunnels(k)
      PROVE  LinkTypes'
    <2>1. UNCHANGED link
        BY <1>1 DEF SweepBegins, SweepServers, SweepTunnels, clientVars
    <2> QED BY <2>1, LinkIsTyped
<1>2. ASSUME NEW k \in Sweepers, SweepDone(k)
      PROVE  LinkTypes'
    <2>1. PICK ended : ended = [c \in Clients |-> IF c \in SweptClients THEN "down" ELSE link[c]]
        OBVIOUS
    <2>2. ended \in [Clients -> LinkStates]
        BY <1>0, <2>1
    <2>3. link' = ended \/ link' = [ended EXCEPT ![Dialing(k)] = "dialing"]
        BY <1>2, <2>1 DEF SweepDone
    <2> QED BY <1>0, <2>2, <2>3 DEF LinkTypes
<1>3. ASSUME NEW c \in Connects, JumpDialed(c) \/ Dialed(c) \/ ConnectDone(c)
      PROVE  LinkTypes'
    BY <1>0, <1>3 DEF JumpDialed, Dialed, ConnectDone, LinkTypes
<1>4. ASSUME NEW c \in Connects, ConnectFails(c)
      PROVE  LinkTypes'
    <2>1. \E S : EndClients(S)
        BY <1>4 DEF ConnectFails
    <2> QED BY <2>1, LinkIsTyped
<1>5. ASSUME NEW c \in Connects, NEW e, InteractiveLost(c, e)
      PROVE  LinkTypes'
    <2>1. PICK S : link' = [i \in Clients |-> IF i = c THEN (IF e = "end" THEN "ended" ELSE "down")
                                              ELSE IF i \in S THEN "down" ELSE link[i]]
        BY <1>5, Zenon DEF InteractiveLost
    <2> QED BY <1>0, <2>1 DEF LinkTypes
<1>6. ASSUME \/ \E c \in Connects :
                  \/ SftpOpened(c) \/ HomeResolved(c) \/ SftpRefused(c) \/ ShellHomeResolved(c) \/ SocketError(c)
                  \/ \E e \in {"end", "close"} : LostTunnelStopped(c, e)
             \/ \E g \in Gauges : StartHostMetrics(g)
             \/ \E p \in polls : PollDone(p)
             \/ PollTimer
      PROVE  LinkTypes'
    <2>1. UNCHANGED link
        BY <1>6 DEF SftpOpened, HomeResolved, SftpRefused, ShellHomeResolved, SocketError, LostTunnelStopped,
                    StartHostMetrics, PollDone, PollTimer, clientVars
    <2> QED BY <2>1, LinkIsTyped
<1>7. ASSUME NEW h \in Helpers, EnsureAuxiliary(h) \/ AuxiliaryDialed(h) \/ AuxiliaryReady(h) \/ AuxiliaryFails(h)
      PROVE  LinkTypes'
    <2>1. UNCHANGED link \/ EndClients({h}) \/ \E v \in LinkStates : link' = [link EXCEPT ![h] = v]
        BY <1>0, <1>7 DEF EnsureAuxiliary, AuxiliaryDialed, AuxiliaryReady, AuxiliaryFails, Dial
    <2> QED BY <2>1, LinkIsTyped
<1>8. ASSUME NEW h \in Helpers, AuxiliaryLost(h)
      PROVE  LinkTypes'
    <2>1. PICK S : link' = [i \in Clients |-> IF i \in S THEN "down" ELSE link[i]]
        <3>1. PICK S \in {{h}, {h, aux}} :
                  link' = [i \in Clients |-> IF i \in S THEN "down" ELSE link[i]]
            BY <1>8 DEF AuxiliaryLost
        <3> QED BY <3>1
    <2> QED BY <1>0, <2>1 DEF LinkTypes
<1> QED BY <1>1, <1>2, <1>3, <1>4, <1>5, <1>6, <1>7, <1>8 DEF LifecycleNext, Sweep

LEMMA StepLinkTypes == LinkTypes /\ [Next]_vars => LinkTypes'
<1>1. ASSUME LinkTypes, UNCHANGED vars PROVE LinkTypes'
    BY <1>1 DEF LinkTypes, vars, clientVars
<1> QED BY <1>1, PartsLinkTypes, LifecycleLinkTypes DEF Next

LEMMA CleanupTypes ==
    ASSUME bound \subseteq Starts, routed \subseteq Tunnels, NEW t, Cleanup(t)
    PROVE  bound' \subseteq Starts /\ routed' \subseteq Tunnels
BY DEF Cleanup

LEMMA SweepTypes ==
    ASSUME bound \subseteq Starts, routed \subseteq Tunnels, NEW k, SweepTunnelsBegin(k)
    PROVE  bound' \subseteq Starts /\ routed' \subseteq Tunnels
BY CleanupTypes DEF SweepTunnelsBegin

LEMMA PartsTunnelTypes == ASSUME TunnelTypes, ClientsTyped, TunnelsNext PROVE TunnelTypes'
<1>0. /\ tstate \in [Tunnels -> {"stopped", "starting", "running", "error"}]
      /\ bound \subseteq Starts /\ routed \subseteq Tunnels /\ faulty \subseteq Tunnels
      /\ over \in [Starts -> Connects \cup {None}]
    BY DEF TunnelTypes
<1>1. \A x \in Starts \cup Stops : TunnelOf[x] \in Tunnels
    BY TunnelAssumption
<1>2. ASSUME NEW s \in Starts, StartTunnel(s)
      PROVE  TunnelTypes'
    BY <1>0, <1>2 DEF StartTunnel, SetTunnelState, TunnelTypes, ClientsTyped
<1>3. ASSUME NEW s \in Starts, TunnelBound(s)
      PROVE  TunnelTypes'
    BY <1>0, <1>1, <1>3 DEF TunnelBound, SetTunnelState, TunnelTypes
<1>4. ASSUME NEW t, Cleanup(t), UNCHANGED <<tstate, over>>, faulty' \subseteq Tunnels
      PROVE  TunnelTypes'
    BY <1>0, <1>4, CleanupTypes DEF TunnelTypes
<1>5. ASSUME NEW t, NEW state \in {"stopped", "starting", "running", "error"}, SetTunnelState(t, state),
             UNCHANGED <<bound, routed, over>>, faulty' \subseteq Tunnels
      PROVE  TunnelTypes'
    BY <1>0, <1>5 DEF TunnelTypes, SetTunnelState
<1>6. ASSUME NEW s \in Starts, TunnelRefused(s) \/ ServerFailed(s)
      PROVE  TunnelTypes'
    <2>1. Cleanup(TunnelOf[s]) /\ UNCHANGED <<tstate, over>> /\ faulty' \subseteq Tunnels
        BY <1>0, <1>1, <1>6 DEF TunnelRefused, ServerFailed
    <2> QED BY <1>4, <2>1
<1>7. ASSUME NEW x \in Stops, StopTunnel(x)
      PROVE  TunnelTypes'
    <2>1. Cleanup(TunnelOf[x]) /\ UNCHANGED <<tstate, over>> /\ faulty' \subseteq Tunnels
        BY <1>0, <1>7 DEF StopTunnel
    <2> QED BY <1>4, <2>1
<1>8. ASSUME NEW s \in Starts, TunnelUndone(s)
      PROVE  TunnelTypes'
    <2>1. SetTunnelState(TunnelOf[s], "error") /\ UNCHANGED <<bound, routed, over>> /\ faulty' \subseteq Tunnels
        BY <1>0, <1>8 DEF TunnelUndone
    <2> QED BY <1>5, <2>1
<1>9. ASSUME NEW x \in Stops, TunnelStopped(x)
      PROVE  TunnelTypes'
    <2>1. SetTunnelState(TunnelOf[x], "stopped") /\ UNCHANGED <<bound, routed, over>> /\ faulty' \subseteq Tunnels
        BY <1>0, <1>9 DEF TunnelStopped
    <2> QED BY <1>5, <2>1
<1>10. ASSUME NEW t \in Tunnels, ServerFailureShown(t)
       PROVE  TunnelTypes'
    <2>1. SetTunnelState(t, "error") /\ UNCHANGED <<bound, routed, over>> /\ faulty' \subseteq Tunnels
        BY <1>0, <1>10 DEF ServerFailureShown
    <2> QED BY <1>5, <2>1
<1>11. ASSUME NEW k \in Conns, Connection(k)
       PROVE  TunnelTypes'
    BY <1>0, <1>11 DEF Connection, TunnelTypes
<1> QED BY <1>2, <1>3, <1>6, <1>7, <1>8, <1>9, <1>10, <1>11 DEF TunnelsNext

LEMMA LifecycleTunnelTypes == ASSUME TunnelTypes, LifecycleNext PROVE TunnelTypes'
<1>0. /\ tstate \in [Tunnels -> {"stopped", "starting", "running", "error"}]
      /\ bound \subseteq Starts /\ routed \subseteq Tunnels /\ faulty \subseteq Tunnels
      /\ over \in [Starts -> Connects \cup {None}]
    BY DEF TunnelTypes
<1>1. ASSUME UNCHANGED tunnelVars
      PROVE  TunnelTypes'
    BY <1>1 DEF TunnelTypes, tunnelVars
<1>2. ASSUME NEW k, SweepTunnelsNext(k), UNCHANGED <<over, faulty>>
      PROVE  TunnelTypes'
    BY <1>0, <1>2, CleanupTypes DEF SweepTunnelsNext, SetTunnelState, TunnelTypes
<1>3. ASSUME NEW k \in Sweepers, Sweep(k)
      PROVE  TunnelTypes'
    <2>1. CASE SweepBegins(k) \/ SweepServers(k)
        BY <1>1, <2>1 DEF SweepBegins, SweepServers
    <2>2. CASE SweepTunnels(k)
        <3>1. CASE SweepTunnelsBegin(k) /\ UNCHANGED <<tstate, over, faulty>>
            BY <1>0, <3>1, SweepTypes DEF TunnelTypes
        <3>2. CASE SweepTunnelsNext(k) /\ UNCHANGED <<over, faulty>>
            BY <1>2, <3>2
        <3> QED BY <2>2, <3>1, <3>2 DEF SweepTunnels
    <2>3. CASE SweepDone(k)
        BY <1>0, <2>3 DEF SweepDone, TunnelTypes
    <2> QED BY <1>3, <2>1, <2>2, <2>3 DEF Sweep
<1>4. ASSUME NEW c \in Connects, NEW e, InteractiveLost(c, e)
      PROVE  TunnelTypes'
    <2>1. CASE closing
        BY <1>1, <1>4, <2>1 DEF InteractiveLost, ToldLost
    <2>2. CASE ~closing
        <3>1. /\ SweepTunnelsBegin(<<c, e>>) /\ UNCHANGED <<over, faulty>>
              /\ tstate' \in {tstate, [t \in Tunnels |-> "stopped"]}
            BY <1>4, <2>2 DEF InteractiveLost, ToldLost
        <3> QED BY <1>0, <3>1, SweepTypes DEF TunnelTypes
    <2> QED BY <2>1, <2>2
<1>5. ASSUME NEW c \in Connects, NEW e, LostTunnelStopped(c, e)
      PROVE  TunnelTypes'
    <2>1. CASE SweepTunnelsNext(<<c, e>>)
        BY <1>2, <1>5, <2>1 DEF LostTunnelStopped
    <2>2. CASE ~SweepTunnelsNext(<<c, e>>)
        BY <1>0, <1>5, <2>2 DEF LostTunnelStopped, TunnelTypes
    <2> QED BY <2>1, <2>2
<1>6. ASSUME \/ \E c \in Connects :
                  \/ JumpDialed(c) \/ Dialed(c) \/ ConnectDone(c) \/ ConnectFails(c)
                  \/ SftpOpened(c) \/ HomeResolved(c) \/ SftpRefused(c) \/ ShellHomeResolved(c) \/ SocketError(c)
             \/ \E h \in Helpers : \/ EnsureAuxiliary(h) \/ AuxiliaryDialed(h) \/ AuxiliaryReady(h)
                                   \/ AuxiliaryFails(h) \/ AuxiliaryLost(h)
             \/ \E g \in Gauges : StartHostMetrics(g)
             \/ \E p \in polls : PollDone(p)
             \/ PollTimer
      PROVE  TunnelTypes'
    <2>1. UNCHANGED tunnelVars
        BY <1>6 DEF JumpDialed, Dialed, ConnectDone, ConnectFails, SftpOpened, HomeResolved, SftpRefused,
                    ShellHomeResolved, SocketError, EnsureAuxiliary, AuxiliaryDialed, AuxiliaryReady,
                    AuxiliaryFails, AuxiliaryLost, StartHostMetrics, PollDone, PollTimer
    <2> QED BY <1>1, <2>1
<1> QED BY <1>3, <1>4, <1>5, <1>6 DEF LifecycleNext

LEMMA StepTunnelTypes == TunnelTypes /\ EndInv /\ [Next]_vars => TunnelTypes'
<1> SUFFICES ASSUME TunnelTypes, EndInv, [Next]_vars PROVE TunnelTypes'
    OBVIOUS
<1>1. CASE TunnelsNext
    BY <1>1, PartsTunnelTypes DEF EndInv, ClientsEnd
<1>2. CASE UNCHANGED tunnelVars
    BY <1>2 DEF TunnelTypes, tunnelVars
<1> QED BY <1>1, <1>2, LifecycleTunnelTypes DEF Next, vars

-----------------------------------------------------------------------------
(* Its terminals and video streams.                                         *)

LEMMA PartsShellTypes ==
    ASSUME ShellTypes, CallTypes, ClientsTyped, TerminalsNext PROVE ShellTypes'
<1>0. /\ kept \subseteq Persistent /\ swept \subseteq Opens /\ told \subseteq Opens
      /\ channel \in [Opens -> {"none", "open", "closed"}]
      /\ display \in BOOLEAN /\ pending \in [Visions -> SUBSET Opens] /\ terms \subseteq Opens
    BY DEF ShellTypes, ClientsTyped
<1>1. ASSUME NEW t \in Opens, OpenTerminal(t) \/ TerminalDialed(t) \/ TerminalFails(t) \/ TerminalOutput(t)
                              \/ FlushTimer(t) \/ TerminalClientLost(t)
      PROVE  ShellTypes'
    BY <1>0, <1>1 DEF OpenTerminal, TerminalDialed, TerminalFails, TerminalOutput, FlushTimer, TerminalClientLost,
                      ShellTypes, terminalVars, visionVars
<1>2. ASSUME NEW t \in Opens, TerminalProbed(t)
      PROVE  ShellTypes'
    <2>1. kept' \subseteq Persistent
        <3>1. CASE kept' = kept
            BY <1>0, <3>1
        <3>2. CASE t \in Persistent /\ kept' = kept \cup {t}
            BY <1>0, <3>2
        <3>3. t \in Persistent
            BY <1>2 DEF TerminalProbed, CallTypes
        <3> QED BY <1>2, <3>1, <3>2, <3>3 DEF TerminalProbed
    <2> QED BY <1>0, <1>2, <2>1 DEF TerminalProbed, ShellTypes, visionVars
<1>3. ASSUME NEW t \in Opens, TerminalReady(t)
      PROVE  ShellTypes'
    BY <1>0, <1>3 DEF TerminalReady, Register, ShellTypes
<1>4. ASSUME NEW t \in Opens, ChannelClosed(t)
      PROVE  ShellTypes'
    BY <1>0, <1>4 DEF ChannelClosed, ShellTypes, visionVars
<1>5. ASSUME NEW x \in Hangups, CloseTerminal(x)
      PROVE  ShellTypes'
    BY <1>0, <1>5 DEF CloseTerminal, ShellTypes, visionVars
<1>6. ASSUME NEW x \in Visions, EnableVisionMode(x) \/ VirtualDisplay(x) \/ TellTerminal(x)
      PROVE  ShellTypes'
    <2>1. CASE EnableVisionMode(x)
        BY <1>0, <2>1 DEF EnableVisionMode, ShellTypes, terminalVars
    <2>2. CASE VirtualDisplay(x)
        BY <1>0, <2>2 DEF VirtualDisplay, ShellTypes, shellVars
    <2>3. CASE TellTerminal(x)
        BY <1>0, <2>3 DEF TellTerminal, ShellTypes, shellVars
    <2> QED BY <1>6, <2>1, <2>2, <2>3
<1>7. ASSUME \/ DisableVisionMode
             \/ \E v \in Films : \/ StartVideoStream(v) \/ ResolveFfmpegBinary(v) \/ VideoStarts(v)
                                 \/ VideoEnds(v) \/ ObserverClosed(v)
             \/ \E x \in Cuts : StopVideoStream(x)
      PROVE  ShellTypes'
    BY <1>0, <1>7 DEF DisableVisionMode, StartVideoStream, ResolveFfmpegBinary, VideoStarts, VideoEnds,
                      ObserverClosed, StopVideoStream, ShellTypes, shellVars, visionVars, terminalVars
<1> QED BY <1>1, <1>2, <1>3, <1>4, <1>5, <1>6, <1>7 DEF TerminalsNext

LEMMA PartsFilmTypes ==
    ASSUME FilmTypes, ClientsTyped, TerminalsNext PROVE FilmTypes'
<1>0. /\ observers \subseteq Films /\ client \in Connects \cup {None}
      /\ picture \in [Films -> {"none", "open", "closed"}]
      /\ camera \in [Films -> Connects \cup {None}]
    BY DEF FilmTypes, ClientsTyped
<1>1. ASSUME NEW v \in Films, StartVideoStream(v) \/ ResolveFfmpegBinary(v) \/ VideoStarts(v) \/ VideoEnds(v)
      PROVE  FilmTypes'
    BY <1>0, <1>1 DEF StartVideoStream, ResolveFfmpegBinary, VideoStarts, VideoEnds, FilmTypes, terminalVars
<1>2. ASSUME NEW v \in Films, ObserverClosed(v)
      PROVE  FilmTypes'
    BY <1>0, <1>2 DEF ObserverClosed, DropStreams, FilmTypes
<1>3. ASSUME NEW x \in Cuts, StopVideoStream(x)
      PROVE  FilmTypes'
    BY <1>0, <1>3 DEF StopVideoStream, DropStreams, FilmTypes
<1>4. ASSUME \/ \E t \in Opens : \/ OpenTerminal(t) \/ TerminalProbed(t) \/ TerminalDialed(t)
                                 \/ TerminalFails(t) \/ TerminalReady(t) \/ TerminalOutput(t)
                                 \/ FlushTimer(t) \/ ChannelClosed(t) \/ TerminalClientLost(t)
             \/ \E x \in Hangups : CloseTerminal(x)
             \/ \E x \in Visions : EnableVisionMode(x) \/ VirtualDisplay(x) \/ TellTerminal(x)
             \/ DisableVisionMode
      PROVE  FilmTypes'
    <2>1. UNCHANGED filmVars
        BY <1>4 DEF OpenTerminal, TerminalProbed, TerminalDialed, TerminalFails, TerminalReady, TerminalOutput,
                    FlushTimer, ChannelClosed, TerminalClientLost, CloseTerminal, EnableVisionMode, VirtualDisplay,
                    TellTerminal, DisableVisionMode, terminalVars, filmVars
    <2> QED BY <2>1 DEF FilmTypes, filmVars
<1> QED BY <1>1, <1>2, <1>3, <1>4 DEF TerminalsNext

LEMMA LifecycleShellTypes ==
    ASSUME ShellTypes, FilmTypes, ClientsTyped, LifecycleNext PROVE ShellTypes' /\ FilmTypes'
<1>0. /\ kept \subseteq Persistent /\ swept \subseteq Opens /\ told \subseteq Opens
      /\ channel \in [Opens -> {"none", "open", "closed"}]
      /\ display \in BOOLEAN /\ pending \in [Visions -> SUBSET Opens] /\ terms \subseteq Opens
      /\ observers \subseteq Films /\ picture \in [Films -> {"none", "open", "closed"}]
      /\ camera \in [Films -> Connects \cup {None}]
    BY DEF ShellTypes, FilmTypes, ClientsTyped
<1>1. ASSUME UNCHANGED <<shellVars, visionVars, picture, camera>>, observers' \in {observers, {}}
      PROVE  ShellTypes' /\ FilmTypes'
    BY <1>0, <1>1 DEF ShellTypes, FilmTypes, shellVars, visionVars
<1>2. ASSUME NEW k \in Sweepers, SweepBegins(k) \/ SweepServers(k) \/ SweepTunnels(k)
      PROVE  ShellTypes' /\ FilmTypes'
    <2>1. UNCHANGED <<shellVars, visionVars, picture, camera>> /\ observers' \in {observers, {}}
        BY <1>2 DEF SweepBegins, SweepServers, SweepTunnels, terminalVars, shellVars, visionVars
    <2> QED BY <1>1, <2>1
<1>3. ASSUME NEW k \in Sweepers, SweepDone(k)
      PROVE  ShellTypes' /\ FilmTypes'
    <2>1. /\ DropStreams(streams) /\ DropTerminals(FALSE) /\ display' = FALSE
          /\ UNCHANGED <<kept, told, pending, camera, observers>>
        BY <1>3 DEF SweepDone
    <2> QED BY <1>0, <2>1 DEF DropStreams, DropTerminals, ShellTypes, FilmTypes
<1>4. ASSUME NEW c \in Connects, NEW e, InteractiveLost(c, e)
      PROVE  ShellTypes' /\ FilmTypes'
    <2>1. CASE closing
        <3>1. UNCHANGED <<shellVars, visionVars, picture, camera, observers>>
            BY <1>4, <2>1 DEF InteractiveLost, ToldLost, visionVars
        <3> QED BY <1>1, <3>1
    <2>2. CASE ~closing
        <3>1. /\ DropTerminals(TRUE) /\ display' = FALSE
              /\ UNCHANGED <<kept, told, pending, picture, camera, observers>>
            BY <1>4, <2>2 DEF InteractiveLost, ToldLost
        <3> QED BY <1>0, <3>1 DEF DropTerminals, ShellTypes, FilmTypes
    <2> QED BY <2>1, <2>2
<1>5. ASSUME \/ \E c \in Connects :
                  \/ JumpDialed(c) \/ Dialed(c) \/ ConnectDone(c) \/ ConnectFails(c)
                  \/ SftpOpened(c) \/ HomeResolved(c) \/ SftpRefused(c) \/ ShellHomeResolved(c) \/ SocketError(c)
                  \/ \E e \in {"end", "close"} : LostTunnelStopped(c, e)
             \/ \E h \in Helpers : \/ EnsureAuxiliary(h) \/ AuxiliaryDialed(h) \/ AuxiliaryReady(h)
                                   \/ AuxiliaryFails(h) \/ AuxiliaryLost(h)
             \/ \E g \in Gauges : StartHostMetrics(g)
             \/ \E p \in polls : PollDone(p)
             \/ PollTimer
      PROVE  ShellTypes' /\ FilmTypes'
    <2>1. UNCHANGED terminalVars
        BY <1>5 DEF JumpDialed, Dialed, ConnectDone, ConnectFails, SftpOpened, HomeResolved, SftpRefused,
                    ShellHomeResolved, SocketError, LostTunnelStopped, EnsureAuxiliary, AuxiliaryDialed,
                    AuxiliaryReady, AuxiliaryFails, AuxiliaryLost, StartHostMetrics, PollDone, PollTimer
    <2> QED BY <1>1, <2>1 DEF terminalVars, shellVars, visionVars
<1> QED BY <1>2, <1>3, <1>4, <1>5 DEF LifecycleNext, Sweep

LEMMA StepShellTypes == ShellTypes /\ FilmTypes /\ CallTypes /\ EndInv /\ [Next]_vars => ShellTypes' /\ FilmTypes'
<1> SUFFICES ASSUME ShellTypes, FilmTypes, CallTypes, EndInv, [Next]_vars PROVE ShellTypes' /\ FilmTypes'
    OBVIOUS
<1>0. ClientsTyped
    BY DEF EndInv, ClientsEnd
<1>1. CASE TerminalsNext
    BY <1>0, <1>1, PartsShellTypes, PartsFilmTypes
<1>2. CASE UNCHANGED terminalVars
    BY <1>2 DEF ShellTypes, FilmTypes, terminalVars
<1> QED BY <1>0, <1>1, <1>2, LifecycleShellTypes DEF Next, vars

\* What becomes of a terminal's output keeps the count.
LEMMA Counting ==
    ASSUME NEW r \in Stories, Output(r)
    PROVE  /\ Output(Flushed(r)) /\ Output(Exited(r)) /\ Output([r EXCEPT !.held = 0])
<1>1. r.in \in 0..MaxChunks /\ r.held \in Nat /\ r.out \in Nat /\ r.held + r.out =< r.in
    BY DEF Stories, Output
<1>2. PICK f, g, h : f = Flushed(r) /\ g = Exited(r) /\ h = [r EXCEPT !.held = 0]
    OBVIOUS
<1>3. f.in = r.in /\ f.held = 0 /\ f.out = r.out + r.held
    BY <1>2, FlushedIs
<1>4. g.in = r.in /\ g.held = 0 /\ g.out = r.out + r.held
    BY <1>2, ExitedIs
<1>5. h.in = r.in /\ h.held = 0 /\ h.out = r.out
    BY <1>2 DEF Stories
<1>6. Output(f) /\ Output(g) /\ Output(h)
    BY <1>1, <1>3, <1>4, <1>5 DEF Output
<1> QED BY <1>2, <1>6

LEMMA OneMore ==
    ASSUME NEW r \in Stories, Output(r), r.in < MaxChunks
    PROVE  Output([r EXCEPT !.in = r.in + 1, !.held = r.held + 1])
<1>1. r.in \in 0..MaxChunks /\ r.held \in Nat /\ r.out \in Nat /\ r.held + r.out =< r.in /\ MaxChunks \in Nat
    BY TerminalAssumption DEF Stories, Output
<1>2. PICK h : h = [r EXCEPT !.in = r.in + 1, !.held = r.held + 1]
    OBVIOUS
<1>3. h.in = r.in + 1 /\ h.held = r.held + 1 /\ h.out = r.out
    BY <1>1, <1>2 DEF Stories
<1>4. Output(h)
    BY <1>1, <1>3 DEF Output
<1> QED BY <1>2, <1>4

LEMMA CountKept ==
    ASSUME OutputCount, StoryTyped, NEW t \in Opens, NEW r, Output(r), story' = [story EXCEPT ![t] = r]
    PROVE  OutputCount'
BY DEF OutputCount, StoryTyped

LEMMA CountDropped ==
    ASSUME OutputCount, StoryTyped, NEW say \in BOOLEAN, DropTerminals(say) PROVE OutputCount'
<1>1. ASSUME NEW t \in Opens
      PROVE  Output(story'[t])
    <2>1. PICK r \in Stories : r = story[t] /\ Output(r)
        BY DEF OutputCount, StoryTyped
    <2>2. story'[t] \in {r, Exited(r), [r EXCEPT !.held = 0]}
        BY <2>1, Zenon DEF DropTerminals
    <2> QED BY <2>1, <2>2, Counting
<1> QED BY <1>1 DEF OutputCount

LEMMA StepCount == OutputCount /\ StoryInv /\ [Next]_vars => OutputCount'
<1> SUFFICES ASSUME OutputCount, StoryInv, [Next]_vars PROVE OutputCount'
    OBVIOUS
<1>0. StoryTyped
    BY DEF StoryInv
<1>1. CASE UNCHANGED story
    BY <1>1 DEF OutputCount
<1>2. ASSUME NEW t \in Opens, \/ TerminalOutput(t) \/ FlushTimer(t) \/ ChannelClosed(t) \/ TerminalClientLost(t)
                              \/ \E x \in Hangups : t = TerminalOf[x] /\ CloseTerminal(x)
      PROVE  OutputCount'
    <2>1. PICK r \in Stories : r = story[t] /\ Output(r)
        BY <1>0 DEF OutputCount, StoryTyped
    <2>2. CASE TerminalOutput(t)
        <3>1. story' = [story EXCEPT ![t] = [r EXCEPT !.in = r.in + 1, !.held = r.held + 1]] /\ r.in < MaxChunks
            BY <1>0, <2>1, <2>2 DEF TerminalOutput, StoryTyped, Stories
        <3> QED BY <1>0, <2>1, <3>1, OneMore, CountKept
    <2>3. CASE ~TerminalOutput(t)
        <3>1. UNCHANGED story \/ story' = [story EXCEPT ![t] = Flushed(r)] \/ story' = [story EXCEPT ![t] = Exited(r)]
            BY <1>2, <2>1, <2>3, Zenon DEF FlushTimer, ChannelClosed, TerminalClientLost, CloseTerminal
        <3> QED BY <1>0, <1>1, <2>1, <3>1, Counting, CountKept
    <2> QED BY <2>2, <2>3
<1>3. CASE TerminalsNext
    <2>1. CASE \/ \E t \in Opens : OpenTerminal(t) \/ TerminalProbed(t) \/ TerminalDialed(t) \/ TerminalFails(t) \/ TerminalReady(t)
               \/ \E x \in Visions : EnableVisionMode(x) \/ VirtualDisplay(x) \/ TellTerminal(x)
               \/ DisableVisionMode
               \/ \E v \in Films : \/ StartVideoStream(v) \/ ResolveFfmpegBinary(v) \/ VideoStarts(v)
                                   \/ VideoEnds(v) \/ ObserverClosed(v)
               \/ \E x \in Cuts : StopVideoStream(x)
        <3>1. UNCHANGED story
            BY <2>1 DEF OpenTerminal, TerminalProbed, TerminalDialed, TerminalFails, TerminalReady, EnableVisionMode,
                        VirtualDisplay, TellTerminal, DisableVisionMode, StartVideoStream, ResolveFfmpegBinary,
                        VideoStarts, VideoEnds, ObserverClosed, StopVideoStream, terminalVars, shellVars
        <3> QED BY <1>1, <3>1
    <2>2. ASSUME NEW x \in Hangups, CloseTerminal(x)
          PROVE  OutputCount'
        <3>1. TerminalOf[x] \in Opens
            BY TerminalAssumption
        <3> QED BY <1>2, <2>2, <3>1
    <2> QED BY <1>2, <1>3, <2>1, <2>2 DEF TerminalsNext
<1>4. CASE LifecycleNext
    <2>1. ASSUME NEW k \in Sweepers, Sweep(k)
          PROVE  OutputCount'
        <3>1. CASE SweepDone(k)
            BY <1>0, <3>1, CountDropped DEF SweepDone
        <3>2. CASE ~SweepDone(k)
            <4>1. UNCHANGED story
                BY <2>1, <3>2 DEF Sweep, SweepBegins, SweepServers, SweepTunnels, terminalVars, shellVars
            <4> QED BY <1>1, <4>1
        <3> QED BY <3>1, <3>2
    <2>2. ASSUME NEW c \in Connects, NEW e, InteractiveLost(c, e)
          PROVE  OutputCount'
        <3>1. CASE closing
            BY <1>1, <2>2, <3>1 DEF InteractiveLost, ToldLost, shellVars
        <3>2. CASE ~closing
            BY <1>0, <2>2, <3>2, CountDropped DEF InteractiveLost, ToldLost
        <3> QED BY <3>1, <3>2
    <2>3. CASE \/ \E c \in Connects :
                    \/ JumpDialed(c) \/ Dialed(c) \/ ConnectDone(c) \/ ConnectFails(c)
                    \/ SftpOpened(c) \/ HomeResolved(c) \/ SftpRefused(c) \/ ShellHomeResolved(c) \/ SocketError(c)
                    \/ \E e \in {"end", "close"} : LostTunnelStopped(c, e)
               \/ \E h \in Helpers : \/ EnsureAuxiliary(h) \/ AuxiliaryDialed(h) \/ AuxiliaryReady(h)
                                     \/ AuxiliaryFails(h) \/ AuxiliaryLost(h)
               \/ \E g \in Gauges : StartHostMetrics(g)
               \/ \E p \in polls : PollDone(p)
               \/ PollTimer
        <3>1. UNCHANGED story
            BY <2>3 DEF JumpDialed, Dialed, ConnectDone, ConnectFails, SftpOpened, HomeResolved, SftpRefused,
                        ShellHomeResolved, SocketError, LostTunnelStopped, EnsureAuxiliary, AuxiliaryDialed,
                        AuxiliaryReady, AuxiliaryFails, AuxiliaryLost, StartHostMetrics, PollDone, PollTimer,
                        terminalVars
        <3> QED BY <1>1, <3>1
    <2> QED BY <1>4, <2>1, <2>2, <2>3 DEF LifecycleNext
<1>5. CASE UNCHANGED terminalVars
    BY <1>1, <1>5 DEF terminalVars
<1> QED BY <1>3, <1>4, <1>5 DEF Next, vars

-----------------------------------------------------------------------------
(* Its language servers, and what else it holds.                            *)

LEMMA QuitTypes ==
    ASSUME ServerTypes, NEW S, NEW how \in {"silent", "told"}, Quit(S, how)
    PROVE  servers' \subseteq Serves /\ quitting' \in [Serves -> {"no", "silent", "told"}]
BY DEF Quit, ServerTypes

LEMMA PartsServerTypes == ASSUME ServerTypes, ClientsTyped, ServersNext, UNCHANGED waits PROVE ServerTypes'
<1>0. /\ servers \subseteq Serves /\ client \in Connects \cup {None}
      /\ process \in [Serves -> {"none", "open", "closed"}]
      /\ via \in [Serves -> Connects \cup {None}]
      /\ quitting \in [Serves -> {"no", "silent", "told"}]
      /\ given \in [Serves -> Serves \cup {None}]
      /\ lstate \in [Serves -> {"none", "starting", "ready", "stopped", "error"}]
      /\ waits' \in [Sweepers -> SUBSET Serves]
    BY DEF ServerTypes, ClientsTyped
<1>1. ASSUME NEW s \in Serves, StartLanguageServer(s)
      PROVE  ServerTypes'
    BY <1>0, <1>1 DEF StartLanguageServer, Tell, ServerTypes
<1>2. ASSUME NEW s \in Serves, ServerSpawned(s)
      PROVE  ServerTypes'
    BY <1>0, <1>2 DEF ServerSpawned, Tell, ServerTypes
<1>3. ASSUME NEW s \in Serves, Initialized(s) \/ StartGivenUp(s)
      PROVE  ServerTypes'
    BY <1>0, <1>3 DEF Initialized, StartGivenUp, Tell, ServerTypes
<1>4. ASSUME NEW s \in Serves, InitializeFails(s)
      PROVE  ServerTypes'
    <2>1. CASE s \in servers
        <3>1. Quit({s}, "silent") /\ UNCHANGED <<process, via, given, lstate>>
            BY <1>4, <2>1 DEF InitializeFails
        <3> QED BY <1>0, <3>1, QuitTypes DEF ServerTypes
    <2>2. CASE s \notin servers
        BY <1>0, <1>4, <2>2 DEF InitializeFails, Tell, ServerTypes
    <2> QED BY <2>1, <2>2
<1>5. ASSUME NEW s \in Serves, QuitDone(s) \/ ServerLost(s)
      PROVE  ServerTypes'
    BY <1>0, <1>5 DEF QuitDone, ServerLost, Tell, ServerTypes
<1>6. ASSUME NEW x \in Halts, StopLanguageServer(x)
      PROVE  ServerTypes'
    <2>1. \/ \E S : Quit(S, "told") /\ UNCHANGED <<process, via, given, lstate>>
          \/ UNCHANGED serverVars
        BY <1>6 DEF StopLanguageServer, serverVars
    <2> QED BY <1>0, <2>1, QuitTypes DEF ServerTypes, serverVars
<1>7. ASSUME NEW x \in Halts, ServerStopped(x)
      PROVE  ServerTypes'
    BY <1>0, <1>7 DEF ServerStopped, ServerTypes, serverVars
<1> QED BY <1>1, <1>2, <1>3, <1>4, <1>5, <1>6, <1>7 DEF ServersNext

LEMMA LifecycleServerTypes == ASSUME ServerTypes, LifecycleNext PROVE ServerTypes'
<1>0. /\ servers \subseteq Serves
      /\ waits \in [Sweepers -> SUBSET Serves]
    BY DEF ServerTypes
<1>1. ASSUME UNCHANGED <<serverVars, waits>>
      PROVE  ServerTypes'
    BY <1>1 DEF ServerTypes, serverVars
<1>2. ASSUME NEW S, Quit(S, "silent"), UNCHANGED <<process, via, given, lstate>>,
             waits' \in [Sweepers -> SUBSET Serves]
      PROVE  ServerTypes'
    BY <1>2, QuitTypes DEF ServerTypes
<1>3. ASSUME NEW k \in Sweepers, SweepServers(k)
      PROVE  ServerTypes'
    <2>1. /\ Quit(servers, "silent") /\ UNCHANGED <<process, via, given, lstate>>
          /\ waits' = [waits EXCEPT ![k] = servers]
        BY <1>3 DEF SweepServers
    <2>2. waits' \in [Sweepers -> SUBSET Serves]
        BY <1>0, <2>1
    <2> QED BY <1>2, <2>1, <2>2
<1>4. ASSUME NEW k \in Sweepers, SweepBegins(k) \/ SweepTunnels(k) \/ SweepDone(k)
      PROVE  ServerTypes'
    <2>1. UNCHANGED <<serverVars, waits>>
        BY <1>4 DEF SweepBegins, SweepTunnels, SweepDone, ownVars
    <2> QED BY <1>1, <2>1
<1>5. ASSUME NEW c \in Connects, NEW e, InteractiveLost(c, e)
      PROVE  ServerTypes'
    <2>1. UNCHANGED <<process, via, given, lstate, waits>>
        BY <1>5 DEF InteractiveLost
    <2>2. (\E S : Quit(S, "silent")) \/ UNCHANGED <<servers, quitting>>
        BY <1>5 DEF InteractiveLost, ToldLost
    <2>3. waits' \in [Sweepers -> SUBSET Serves]
        BY <1>0, <2>1
    <2> QED BY <1>1, <1>2, <2>1, <2>2, <2>3 DEF serverVars
<1>6. ASSUME \/ \E c \in Connects :
                  \/ JumpDialed(c) \/ Dialed(c) \/ ConnectDone(c) \/ ConnectFails(c)
                  \/ SftpOpened(c) \/ HomeResolved(c) \/ SftpRefused(c) \/ ShellHomeResolved(c) \/ SocketError(c)
                  \/ \E e \in {"end", "close"} : LostTunnelStopped(c, e)
             \/ \E h \in Helpers : \/ EnsureAuxiliary(h) \/ AuxiliaryDialed(h) \/ AuxiliaryReady(h)
                                   \/ AuxiliaryFails(h) \/ AuxiliaryLost(h)
             \/ \E g \in Gauges : StartHostMetrics(g)
             \/ \E p \in polls : PollDone(p)
             \/ PollTimer
      PROVE  ServerTypes'
    <2>1. UNCHANGED <<serverVars, waits>>
        BY <1>6 DEF JumpDialed, Dialed, ConnectDone, ConnectFails, SftpOpened, HomeResolved, SftpRefused,
                    ShellHomeResolved, SocketError, LostTunnelStopped, EnsureAuxiliary, AuxiliaryDialed,
                    AuxiliaryReady, AuxiliaryFails, AuxiliaryLost, StartHostMetrics, PollDone, PollTimer, ownVars
    <2> QED BY <1>1, <2>1
<1> QED BY <1>3, <1>4, <1>5, <1>6 DEF LifecycleNext, Sweep

LEMMA StepServerTypes == ServerTypes /\ EndInv /\ [Next]_vars => ServerTypes'
<1> SUFFICES ASSUME ServerTypes, EndInv, [Next]_vars PROVE ServerTypes'
    OBVIOUS
<1>1. CASE ServersNext /\ UNCHANGED waits
    BY <1>1, PartsServerTypes DEF EndInv, ClientsEnd
<1>2. CASE UNCHANGED <<serverVars, waits>>
    BY <1>2 DEF ServerTypes, serverVars
<1> QED BY <1>1, <1>2, LifecycleServerTypes DEF Next, vars, ownVars

LEMMA LifecycleOwnTypes == ASSUME OwnTypes, ClientsTyped, LifecycleNext PROVE OwnTypes'
<1> DEFINE Shown == [state : {"disconnected", "connecting", "connected", "error"},
                     conn : Connects \cup {None}, files : {"idle", "loading", "ready", "error"}]
           Inits == {"none", "sftp", "home", "shell", "done"}
<1>0. /\ shown \in Shown /\ init \in [Connects -> Inits] /\ client \in Connects \cup {None}
      /\ auxState \in {"idle", "connecting", "ready", "failed"}
      /\ poller \in Gauges \cup {None} /\ polls \subseteq [by : Gauges, of : Connects]
      /\ reading \in [of : Connects \cup {None}, now : Connects \cup {None}]
    BY DEF OwnTypes, ClientsTyped
<1>1. ASSUME NEW state \in {"disconnected", "connecting", "connected", "error"}, NEW conn \in Connects \cup {None},
             NEW files \in {"idle", "loading", "ready", "error"}, Emit(state, conn, files)
      PROVE  shown' \in Shown
    BY <1>1 DEF Emit
<1>2. ASSUME shown' \in Shown, init' \in [Connects -> Inits],
             auxState' \in {"idle", "connecting", "ready", "failed"}, poller' \in {poller, None},
             UNCHANGED <<polls, reading>>
      PROVE  OwnTypes'
    BY <1>0, <1>2 DEF OwnTypes
<1>3. ASSUME NEW k \in Sweepers, Sweep(k)
      PROVE  OwnTypes'
    <2>1. CASE SweepBegins(k) \/ SweepServers(k) \/ SweepTunnels(k)
        BY <1>0, <1>2, <2>1 DEF SweepBegins, SweepServers, SweepTunnels, clientVars, ownVars
    <2>2. CASE SweepDone(k)
        <3>1. shown' \in Shown
            BY <1>1, <2>2 DEF SweepDone
        <3> QED BY <1>0, <1>2, <2>2, <3>1 DEF SweepDone
    <2> QED BY <1>3, <2>1, <2>2 DEF Sweep
<1>4. ASSUME NEW c \in Connects, JumpDialed(c) \/ Dialed(c)
      PROVE  OwnTypes'
    BY <1>0, <1>2, <1>4 DEF JumpDialed, Dialed, ownVars
<1>5. ASSUME NEW c \in Connects, ConnectDone(c)
      PROVE  OwnTypes'
    <2>1. shown' \in Shown
        BY <1>0, <1>1, <1>5 DEF ConnectDone
    <2> QED BY <1>0, <1>2, <1>5, <2>1 DEF ConnectDone
<1>6. ASSUME NEW c \in Connects, ConnectFails(c)
      PROVE  OwnTypes'
    <2>1. shown' \in Shown
        BY <1>0, <1>1, <1>6 DEF ConnectFails
    <2> QED BY <1>0, <1>2, <1>6, <2>1 DEF ConnectFails
<1>7. ASSUME NEW c \in Connects, SftpOpened(c) \/ SftpRefused(c)
      PROVE  OwnTypes'
    BY <1>0, <1>2, <1>7 DEF SftpOpened, SftpRefused, InitAt, clientVars
<1>8. ASSUME NEW c \in Connects, HomeResolved(c) \/ ShellHomeResolved(c)
      PROVE  OwnTypes'
    <2>1. shown' \in Shown
        BY <1>0, <1>1, <1>8 DEF HomeResolved, ShellHomeResolved
    <2> QED BY <1>0, <1>2, <1>8, <2>1 DEF HomeResolved, ShellHomeResolved, InitAt
<1>9. ASSUME NEW c \in Connects, SocketError(c)
      PROVE  OwnTypes'
    <2>1. shown' \in Shown
        BY <1>0, <1>9 DEF SocketError
    <2> QED BY <1>0, <1>2, <1>9, <2>1 DEF SocketError, ownVars
<1>10. ASSUME NEW c \in Connects, NEW e, InteractiveLost(c, e)
       PROVE  OwnTypes'
    <2>1. shown' \in Shown /\ poller' \in {poller, None}
        BY <1>0, <1>1, <1>10 DEF InteractiveLost, ToldLost
    <2> QED BY <1>0, <1>2, <1>10, <2>1 DEF InteractiveLost
<1>11. ASSUME NEW c \in Connects, NEW e, LostTunnelStopped(c, e)
       PROVE  OwnTypes'
    BY <1>0, <1>2, <1>11 DEF LostTunnelStopped, clientVars, ownVars
<1>12. ASSUME NEW h \in Helpers,
              EnsureAuxiliary(h) \/ AuxiliaryDialed(h) \/ AuxiliaryReady(h) \/ AuxiliaryFails(h) \/ AuxiliaryLost(h)
       PROVE  OwnTypes'
    BY <1>0, <1>2, <1>12 DEF EnsureAuxiliary, AuxiliaryDialed, AuxiliaryReady, AuxiliaryFails, AuxiliaryLost, ownVars
<1>13. ASSUME NEW g \in Gauges, Poll(g)
       PROVE  polls' \subseteq [by : Gauges, of : Connects]
    BY <1>0, <1>13 DEF Poll, Connected
<1>14. ASSUME NEW g \in Gauges, StartHostMetrics(g)
       PROVE  OwnTypes'
    <2>1. poller' \in Gauges \cup {None} /\ polls' \subseteq [by : Gauges, of : Connects]
        BY <1>0, <1>13, <1>14 DEF StartHostMetrics
    <2> QED BY <1>0, <1>14, <2>1 DEF StartHostMetrics, OwnTypes
<1>15. ASSUME NEW p \in polls, PollDone(p)
       PROVE  OwnTypes'
    <2>1. reading' \in [of : Connects \cup {None}, now : Connects \cup {None}]
        BY <1>0, <1>15 DEF PollDone
    <2> QED BY <1>0, <1>15, <2>1 DEF PollDone, OwnTypes, clientVars
<1>16. ASSUME PollTimer
       PROVE  OwnTypes'
    <2>1. polls' \subseteq [by : Gauges, of : Connects]
        BY <1>0, <1>13, <1>16 DEF PollTimer
    <2> QED BY <1>0, <1>16, <2>1 DEF PollTimer, OwnTypes, clientVars
<1> QED BY <1>3, <1>4, <1>5, <1>6, <1>7, <1>8, <1>9, <1>10, <1>11, <1>12, <1>14, <1>15, <1>16 DEF LifecycleNext

LEMMA PartsShow ==
    ASSUME TunnelsNext \/ TerminalsNext \/ ServersNext \/ IdleNext PROVE UNCHANGED shown
<1>1. CASE TunnelsNext
    BY <1>1 DEF TunnelsNext, StartTunnel, TunnelBound, TunnelRefused, TunnelUndone, StopTunnel, TunnelStopped,
                ServerFailed, ServerFailureShown, Connection, clientVars
<1>2. CASE TerminalsNext
    BY <1>2 DEF TerminalsNext, OpenTerminal, TerminalProbed, TerminalDialed, TerminalFails, TerminalReady,
                TerminalOutput, FlushTimer, ChannelClosed, TerminalClientLost, CloseTerminal, EnableVisionMode,
                VirtualDisplay, TellTerminal, DisableVisionMode, StartVideoStream, ResolveFfmpegBinary, VideoStarts,
                VideoEnds, ObserverClosed, StopVideoStream, clientVars
<1>3. CASE ServersNext
    BY <1>3 DEF ServersNext, StartLanguageServer, ServerSpawned, Initialized, InitializeFails, StartGivenUp,
                QuitDone, ServerLost, StopLanguageServer, ServerStopped, clientVars
<1>4. CASE IdleNext
    BY <1>4, Zenon DEF IdleNext, Transferred, TransferFails, PartRemoved, StartAutomaticMediaCache, WalkReads,
                WalkFails, Listed, QueueManualDownload, GrabStats, GrabStated, CancelGroup, clientVars
<1> QED BY <1>1, <1>2, <1>3, <1>4

LEMMA StepOwnTypes == OwnTypes /\ EndInv /\ [Next]_vars => OwnTypes'
<1> SUFFICES ASSUME OwnTypes, EndInv, [Next]_vars PROVE OwnTypes'
    OBVIOUS
<1>1. CASE UNCHANGED <<shown, init, auxState, poller, polls, reading>>
    BY <1>1 DEF OwnTypes
<1>2. CASE LifecycleNext
    BY <1>2, LifecycleOwnTypes DEF EndInv, ClientsEnd
<1> QED BY <1>1, <1>2, PartsShow DEF Next, vars, clientVars, ownVars

-----------------------------------------------------------------------------
LEMMA TypesSuffice ==
    ASSUME CallTypes, LinkTypes, TunnelTypes, ShellTypes, OutputCount, FilmTypes, ServerTypes, OwnTypes,
           TunnelInv, EndInv, StoryInv, IdleInv
    PROVE  TypeOK
<1>1. TunnelsTypeOK
    <2>1. flow \in [Conns -> Flows]
        BY DEF TunnelInv, FlowsAreSound
    <2> QED BY <2>1 DEF TunnelInv, Listeners, LoopsAreOnce, TunnelTypes, TunnelsTypeOK, Flows
<1>2. TerminalsTypeOK
    <2>1. story \in [Opens -> [in : 0..MaxChunks, held : 0..MaxChunks, out : 0..MaxChunks, exits : Nat]]
        <3>1. ASSUME NEW t \in Opens
              PROVE  story[t] \in [in : 0..MaxChunks, held : 0..MaxChunks, out : 0..MaxChunks, exits : Nat]
            <4>1. PICK r \in Stories : r = story[t] /\ Output(r)
                BY DEF OutputCount, StoryInv, StoryTyped
            <4>2. r.held \in 0..MaxChunks /\ r.out \in 0..MaxChunks
                BY <4>1, TerminalAssumption DEF Output, Stories
            <4> QED BY <4>1, <4>2 DEF Output, Stories
        <3> QED BY <3>1 DEF StoryInv, StoryTyped
    <2> QED BY <2>1 DEF TerminalsTypeOK, ShellTypes, FilmTypes, EndInv, ClientsEnd, ClientsTyped, FilmsEnd
<1>3. ServersTypeOK
    BY DEF ServersTypeOK, ServerTypes
<1>4. IdleTypeOK
    BY DEF IdleTypeOK, IdleInv, IdleTyped, Tasks, Walks, Walkers
<1>5. waits \in [Sweepers -> SUBSET Serves] /\ aux \in Helpers \cup {None}
    BY DEF ServerTypes, IdleInv, IdleTyped
<1> QED BY <1>1, <1>2, <1>3, <1>4, <1>5
    DEF TypeOK, CallTypes, LinkTypes, LinkStates, OwnTypes, EndInv, ClientsEnd, ClientsTyped

(* The session's state is what its parts say of it (TypeOK), for every      *)
(* number of calls of each kind and any bound on a terminal's output: a     *)
(* call is at one of the awaits of its kind, a client in one of five        *)
(* states, and no more of a terminal's output is told than came in.         *)
THEOREM SessionIsTyped == Spec => []TypeOK
<1>1. Spec => []TunnelInv
    BY InitTunnels, StepTunnels, PTL DEF Spec
<1>2. Spec => []EndInv
    BY <1>1, CurrentInvariantHolds, InitEnds, StepEnds, PTL DEF Spec
<1>3. Spec => []IdleInv
    BY <1>1, CurrentInvariantHolds, InitIdle, StepIdle, PTL DEF Spec
<1>4. Spec => []StoryInv
    BY InitStory, StepStory, PTL DEF Spec
<1>5. Spec => []CallTypes
    BY InitTypes, StepCallTypes, PTL DEF Spec
<1>6. Spec => []LinkTypes
    BY InitTypes, StepLinkTypes, PTL DEF Spec
<1>7. Spec => []TunnelTypes
    BY <1>2, InitTypes, StepTunnelTypes, PTL DEF Spec
<1>8. Spec => [](ShellTypes /\ FilmTypes)
    BY <1>2, <1>5, InitTypes, StepShellTypes, PTL DEF Spec
<1>9. Spec => []OutputCount
    BY <1>4, InitTypes, StepCount, PTL DEF Spec
<1>10. Spec => []ServerTypes
    BY <1>2, InitTypes, StepServerTypes, PTL DEF Spec
<1>11. Spec => []OwnTypes
    BY <1>2, InitTypes, StepOwnTypes, PTL DEF Spec
<1> QED BY <1>1, <1>2, <1>3, <1>4, <1>5, <1>6, <1>7, <1>8, <1>9, <1>10, <1>11, TypesSuffice, PTL
=============================================================================
