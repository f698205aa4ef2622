---------------------------- MODULE SessionProofs ----------------------------
(***************************************************************************)
(* What holds of a session for every number of connects, disconnects,      *)
(* terminals, tunnels, servers and scans: which steps run beside which     *)
(* others, and that nothing of an earlier connection is taken for this     *)
(* one's (OnlyCurrent); then, of its terminals, that what the panel is told *)
(* of each ends once and whole (TerminalStory), and that vision mode       *)
(* reaches every shell (VisionReachesTerminals).                           *)
(***************************************************************************)
EXTENDS SessionLifecycle, TLAPS

-----------------------------------------------------------------------------
(* Constants *)

\* A call is of one kind.
LEMMA KindsDiffer ==
    \A i, j \in 1..17 : i # j => Kinds[i] \cap Kinds[j] = {}
<1>1. Len(Kinds) = 17
    BY DEF Kinds
<1> QED BY <1>1, SessionAssumption

LEMMA CallsDiffer ==
    /\ (Connects \cup Leaves) \cap (Opens \cup Visions \cup Others) = {}
    /\ Opens \cap (Visions \cup Others) = {} /\ Visions \cap Others = {}
    /\ Connects \cap Leaves = {}
    /\ Helpers \cap (Starts \cup Films \cup Serves) = {} /\ Starts \cap (Films \cup Serves) = {}
    /\ Films \cap Serves = {} /\ Shuts \cap (Starts \cup Films \cup Serves) = {}
<1>1. /\ Kinds[1] = Connects /\ Kinds[2] = Leaves /\ Kinds[3] = Shuts /\ Kinds[4] = Helpers
      /\ Kinds[5] = Opens /\ Kinds[6] = Hangups /\ Kinds[7] = Visions /\ Kinds[8] = Films
      /\ Kinds[9] = Cuts /\ Kinds[10] = Starts /\ Kinds[11] = Stops /\ Kinds[12] = Serves
      /\ Kinds[13] = Halts /\ Kinds[14] = Gauges /\ Kinds[15] = Scans /\ Kinds[16] = Grabs
      /\ Kinds[17] = Drops
    BY DEF Kinds
<1>2. \A S \in {Kinds[1], Kinds[2], Kinds[5], Kinds[7]} : S \cap Others = {}
    <2>1. \A i \in {1, 2, 5, 7}, j \in {3, 4, 6, 8, 9, 10, 11, 12, 13, 14, 15, 16, 17} : Kinds[i] \cap Kinds[j] = {}
        BY KindsDiffer
    <2>2. \A o \in Others : \E j \in {3, 4, 6, 8, 9, 10, 11, 12, 13, 14, 15, 16, 17} : o \in Kinds[j]
        BY <1>1 DEF Others
    <2> QED BY <2>1, <2>2
<1>3. \A i, j \in {1, 2, 5, 7} : i # j => Kinds[i] \cap Kinds[j] = {}
    BY KindsDiffer
<1>4. \A i, j \in {3, 4, 8, 10, 12} : i # j => Kinds[i] \cap Kinds[j] = {}
    BY KindsDiffer
<1>5. Connects \cap Others = {} /\ Leaves \cap Others = {} /\ Opens \cap Others = {} /\ Visions \cap Others = {}
    BY <1>1, <1>2
<1>6. /\ Connects \cap Leaves = {} /\ Connects \cap Opens = {} /\ Connects \cap Visions = {}
      /\ Leaves \cap Opens = {} /\ Leaves \cap Visions = {} /\ Opens \cap Visions = {}
    BY <1>1, <1>3
<1>7. /\ Helpers \cap Starts = {} /\ Helpers \cap Films = {} /\ Helpers \cap Serves = {}
      /\ Starts \cap Films = {} /\ Starts \cap Serves = {} /\ Films \cap Serves = {}
      /\ Shuts \cap Starts = {} /\ Shuts \cap Films = {} /\ Shuts \cap Serves = {}
    BY <1>1, <1>4
<1> QED BY <1>5, <1>6, <1>7

\* The calls the invariants speak of: the user's, and those of terminals.
Users == Connects \cup Leaves
Watched == Users \cup Opens \cup Visions

PcTyped == pc = [c \in Calls |-> pc[c]]

\* A step that leaves these calls where they are.
Beside(S) == PcTyped' /\ \A u \in S : pc'[u] = pc[u]

-----------------------------------------------------------------------------
(* Tunnels, language servers and idle transfers run beside all of that.     *)

LEMMA Apart == Watched \subseteq Calls /\ Others \subseteq Calls /\ Others \cap Watched = {}
BY SessionAssumption, CallsDiffer DEF Watched, Users, Calls

LEMMA OthersMove ==
    ASSUME PcTyped, NEW c \in Others, NEW where, Go(c, where) PROVE Beside(Watched)
BY Apart DEF PcTyped, Go, Beside

LEMMA TunnelsBeside ==
    ASSUME PcTyped, TunnelsNext PROVE Beside(Watched) /\ UNCHANGED client
<1>0. PcTyped /\ UNCHANGED pc => Beside(Watched)
    BY Apart DEF PcTyped, Beside
<1>1. ASSUME NEW s \in Starts,
             StartTunnel(s) \/ TunnelBound(s) \/ TunnelRefused(s) \/ TunnelUndone(s)
      PROVE  Beside(Watched) /\ UNCHANGED client
    <2>1. s \in Others
        BY DEF Others
    <2>2. Go(s, "failed") \/ Go(s, "binding") \/ Go(s, "ok") \/ Go(s, "undoing")
        BY <1>1 DEF StartTunnel, TunnelBound, TunnelRefused, TunnelUndone
    <2>3. UNCHANGED client
        BY <1>1 DEF StartTunnel, TunnelBound, TunnelRefused, TunnelUndone
    <2> QED BY <2>1, <2>2, <2>3, OthersMove
<1>2. ASSUME NEW s \in Starts, ServerFailed(s)
      PROVE  Beside(Watched) /\ UNCHANGED client
    BY <1>0, <1>2 DEF ServerFailed, clientVars
<1>3. ASSUME NEW x \in Stops, StopTunnel(x) \/ TunnelStopped(x)
      PROVE  Beside(Watched) /\ UNCHANGED client
    <2>1. x \in Others
        BY DEF Others
    <2>2. (Go(x, "stopping") \/ Go(x, "ok")) /\ UNCHANGED client
        BY <1>3 DEF StopTunnel, TunnelStopped
    <2> QED BY <2>1, <2>2, OthersMove
<1>4. ASSUME NEW t \in Tunnels, ServerFailureShown(t)
      PROVE  Beside(Watched) /\ UNCHANGED client
    BY <1>0, <1>4 DEF ServerFailureShown, clientVars
<1>5. ASSUME NEW k \in Conns, Connection(k)
      PROVE  Beside(Watched) /\ UNCHANGED client
    BY <1>0, <1>5 DEF Connection, clientVars
<1> QED BY <1>1, <1>2, <1>3, <1>4, <1>5 DEF TunnelsNext

LEMMA ServersBeside ==
    ASSUME PcTyped, ServersNext PROVE Beside(Watched) /\ UNCHANGED client
<1>0. PcTyped /\ UNCHANGED pc => Beside(Watched)
    BY Apart DEF PcTyped, Beside
<1>1. ASSUME NEW s \in Serves,
             \/ StartLanguageServer(s) \/ ServerSpawned(s) \/ Initialized(s)
             \/ InitializeFails(s) \/ StartGivenUp(s)
      PROVE  Beside(Watched) /\ UNCHANGED client
    <2>1. s \in Others
        BY DEF Others
    <2>2. Go(s, "failed") \/ Go(s, "exec") \/ Go(s, "initialize") \/ Go(s, "ok") \/ Go(s, "quitting")
        BY <1>1 DEF StartLanguageServer, ServerSpawned, Initialized, InitializeFails, StartGivenUp
    <2>3. UNCHANGED client
        BY <1>1 DEF StartLanguageServer, ServerSpawned, Initialized, InitializeFails, StartGivenUp
    <2> QED BY <2>1, <2>2, <2>3, OthersMove
<1>2. ASSUME NEW s \in Serves, QuitDone(s) \/ ServerLost(s)
      PROVE  Beside(Watched) /\ UNCHANGED client
    BY <1>0, <1>2 DEF QuitDone, ServerLost, clientVars
<1>3. ASSUME NEW x \in Halts, StopLanguageServer(x)
      PROVE  Beside(Watched) /\ UNCHANGED client
    <2>1. x \in Others
        BY DEF Others
    <2>2. (Go(x, "quitting") \/ Go(x, "ok")) /\ UNCHANGED client
        BY <1>3 DEF StopLanguageServer
    <2> QED BY <2>1, <2>2, OthersMove
<1>4. ASSUME NEW x \in Halts, ServerStopped(x)
      PROVE  Beside(Watched) /\ UNCHANGED client
    <2>1. x \in Others
        BY DEF Others
    <2>2. Go(x, "ok") /\ UNCHANGED client
        BY <1>4 DEF ServerStopped
    <2> QED BY <2>1, <2>2, OthersMove
<1> QED BY <1>1, <1>2, <1>3, <1>4 DEF ServersNext

LEMMA IdleBeside ==
    ASSUME PcTyped, IdleNext PROVE Beside(Watched) /\ UNCHANGED <<client, sftp>>
<1>1. ASSUME Transferred \/ TransferFails \/ PartRemoved
      PROVE  Beside(Watched) /\ UNCHANGED <<client, sftp>>
    BY <1>1, Apart DEF Transferred, TransferFails, PartRemoved, clientVars, PcTyped, Beside
<1>2. ASSUME NEW s \in Scans, StartAutomaticMediaCache(s)
      PROVE  Beside(Watched) /\ UNCHANGED <<client, sftp>>
    <2>1. s \in Others
        BY DEF Others
    <2>2. Go(s, "failed") \/ Go(s, "ok") \/ Go(s, "wait")
        BY <1>2 DEF StartAutomaticMediaCache
    <2>3. UNCHANGED <<client, sftp>>
        BY <1>2 DEF StartAutomaticMediaCache
    <2> QED BY <2>1, <2>2, <2>3, OthersMove
<1>3. ASSUME NEW w \in Scans \cup Grabs, WalkReads(w) \/ WalkFails(w)
      PROVE  Beside(Watched) /\ UNCHANGED <<client, sftp>>
    <2>1. w \in Others
        BY DEF Others
    <2>2. Go(w, "failed") \/ Go(w, "list")
        BY <1>3 DEF WalkReads, WalkFails
    <2>3. UNCHANGED <<client, sftp>>
        BY <1>3 DEF WalkReads, WalkFails
    <2> QED BY <2>1, <2>2, <2>3, OthersMove
<1>4. ASSUME NEW w \in Scans \cup Grabs, Listed(w)
      PROVE  Beside(Watched) /\ UNCHANGED <<client, sftp>>
    <2>1. w \in Others
        BY DEF Others
    <2>2. (Go(w, "ok") \/ Go(w, "wait")) /\ UNCHANGED <<client, sftp>>
        BY <1>4 DEF Listed
    <2> QED BY <2>1, <2>2, OthersMove, SMTT(60)
<1>5. ASSUME NEW g \in Grabs, QueueManualDownload(g) \/ GrabStats(g) \/ GrabStated(g)
      PROVE  Beside(Watched) /\ UNCHANGED <<client, sftp>>
    <2>1. g \in Others
        BY DEF Others
    <2>2. Go(g, "failed") \/ Go(g, "quiet") \/ Go(g, "stat") \/ Go(g, "wait") \/ Go(g, "ok")
        BY <1>5 DEF QueueManualDownload, GrabStats, GrabStated
    <2>3. UNCHANGED <<client, sftp>>
        BY <1>5 DEF QueueManualDownload, GrabStats, GrabStated
    <2> QED BY <2>1, <2>2, <2>3, OthersMove
<1>6. ASSUME NEW d \in Drops, CancelGroup(d)
      PROVE  Beside(Watched) /\ UNCHANGED <<client, sftp>>
    <2>1. d \in Others
        BY DEF Others
    <2>2. Go(d, "ok") /\ UNCHANGED <<client, sftp>>
        BY <1>6 DEF CancelGroup
    <2> QED BY <2>1, <2>2, OthersMove
<1> QED BY <1>1, <1>2, <1>3, <1>4, <1>5, <1>6 DEF IdleNext

LEMMA TerminalsBesideUsers ==
    ASSUME PcTyped, TerminalsNext PROVE Beside(Users) /\ UNCHANGED client
<1>1. PcTyped /\ UNCHANGED pc => Beside(Users)
    BY DEF PcTyped, Beside
<1>2. ASSUME NEW c \in Opens \cup Visions \cup Others, NEW where, Go(c, where)
      PROVE  Beside(Users)
    <2>1. c \in Calls /\ c \notin Users /\ Users \subseteq Calls
        BY SessionAssumption, CallsDiffer DEF Users, Calls
    <2> QED BY <1>2, <2>1 DEF PcTyped, Go, Beside
<1>3. ASSUME NEW t \in Opens,
             \/ OpenTerminal(t) \/ TerminalProbed(t) \/ TerminalDialed(t)
             \/ TerminalFails(t) \/ TerminalReady(t)
      PROVE  Beside(Users) /\ UNCHANGED client
    <2>1. Go(t, "failed") \/ Go(t, "probing") \/ Go(t, "dialing") \/ Go(t, "shell") \/ Go(t, "ok")
        BY <1>3 DEF OpenTerminal, TerminalProbed, TerminalDialed, TerminalFails, TerminalReady, Register
    <2>2. UNCHANGED client
        BY <1>3 DEF OpenTerminal, TerminalProbed, TerminalDialed, TerminalFails, TerminalReady
    <2> QED BY <1>2, <2>1, <2>2
<1>4. ASSUME NEW t \in Opens,
             TerminalOutput(t) \/ FlushTimer(t) \/ ChannelClosed(t) \/ TerminalClientLost(t)
      PROVE  Beside(Users) /\ UNCHANGED client
    BY <1>1, <1>4 DEF TerminalOutput, FlushTimer, ChannelClosed, TerminalClientLost, clientVars
<1>5. ASSUME NEW x \in Hangups, CloseTerminal(x)
      PROVE  Beside(Users) /\ UNCHANGED client
    <2>1. x \in Others
        BY DEF Others
    <2> QED BY <1>2, <1>5, <2>1 DEF CloseTerminal
<1>6. ASSUME NEW x \in Visions, EnableVisionMode(x) \/ VirtualDisplay(x) \/ TellTerminal(x)
      PROVE  Beside(Users) /\ UNCHANGED client
    <2>1. Go(x, "failed") \/ Go(x, "display") \/ Go(x, "telling") \/ Go(x, "ok") \/ UNCHANGED pc
        BY <1>6 DEF EnableVisionMode, VirtualDisplay, TellTerminal
    <2>2. UNCHANGED client
        BY <1>6 DEF EnableVisionMode, VirtualDisplay, TellTerminal
    <2> QED BY <1>1, <1>2, <2>1, <2>2
<1>7. ASSUME DisableVisionMode
      PROVE  Beside(Users) /\ UNCHANGED client
    BY <1>1, <1>7 DEF DisableVisionMode, clientVars
<1>8. ASSUME NEW v \in Films, StartVideoStream(v) \/ ResolveFfmpegBinary(v) \/ VideoStarts(v)
      PROVE  Beside(Users) /\ UNCHANGED client
    <2>1. v \in Others
        BY DEF Others
    <2>2. Go(v, "failed") \/ Go(v, "encoder") \/ Go(v, "exec") \/ Go(v, "ok")
        BY <1>8 DEF StartVideoStream, ResolveFfmpegBinary, VideoStarts
    <2>3. UNCHANGED client
        BY <1>8 DEF StartVideoStream, ResolveFfmpegBinary, VideoStarts
    <2> QED BY <1>2, <2>1, <2>2, <2>3
<1>9. ASSUME NEW v \in Films, VideoEnds(v) \/ ObserverClosed(v)
      PROVE  Beside(Users) /\ UNCHANGED client
    BY <1>1, <1>9 DEF VideoEnds, ObserverClosed, clientVars
<1>10. ASSUME NEW x \in Cuts, StopVideoStream(x)
       PROVE  Beside(Users) /\ UNCHANGED client
    <2>1. x \in Others
        BY DEF Others
    <2> QED BY <1>2, <1>10, <2>1 DEF StopVideoStream
<1> QED BY <1>3, <1>4, <1>5, <1>6, <1>7, <1>8, <1>9, <1>10 DEF TerminalsNext

-----------------------------------------------------------------------------
(* Nothing of an earlier connection is taken for this one's.                *)

\* A connect or disconnect of the user is under way.
Busy(k) == pc[k] \notin Ended \cup {"new"}

OneBusy == \A k1, k2 \in Users : Busy(k1) /\ Busy(k2) => k1 = k2

\* While a client is dialed there is none, and so no sftp for it to inherit.
NoneWhileDialing == \A c \in Connects : pc[c] \in {"hopping", "dialing"} => client = None

CurrentInv == PcTyped /\ OneBusy /\ NoneWhileDialing /\ OnlyCurrent

LEMMA InitCurrent == Init => CurrentInv
<1> SUFFICES ASSUME Init PROVE CurrentInv
    OBVIOUS
<1>1. PICK m \in Mixes : pc = [c \in Calls |-> IF c \in m THEN "new" ELSE "off"]
    BY DEF Init, ClientsInit
<1>2. Users \subseteq Calls
    BY DEF Users, Calls
<1>3. PcTyped
    BY <1>1 DEF PcTyped
<1>4. \A k \in Users : pc[k] \in {"new", "off"}
    BY <1>1, <1>2
<1>5. OneBusy
    BY <1>4 DEF OneBusy, Busy, Ended
<1>6. NoneWhileDialing
    BY <1>4 DEF NoneWhileDialing, Users
<1>7. OnlyCurrent
    BY DEF Init, IdleInit, OnlyCurrent
<1> QED BY <1>3, <1>5, <1>6, <1>7 DEF CurrentInv

\* What runs beside the users' calls touches none of it.
LEMMA BesideCurrent ==
    ASSUME CurrentInv, Beside(Users), UNCHANGED <<client, sftp, reading>>
    PROVE  CurrentInv'
BY DEF CurrentInv, Beside, OneBusy, Busy, NoneWhileDialing, OnlyCurrent, Users

\* The user's call that is under way moves, or one begins when none is.
LEMMA UserMoves ==
    ASSUME PcTyped, OneBusy, NEW k \in Users, Busy(k) \/ Free, NEW where, Go(k, where)
    PROVE  PcTyped' /\ OneBusy' /\ pc'[k] = where /\ \A u \in Users : u # k => pc'[u] = pc[u] /\ ~Busy(u)
<1>1. Users \subseteq Calls
    BY DEF Users, Calls
<1>2. PcTyped' /\ pc'[k] = where /\ \A u \in Users : u # k => pc'[u] = pc[u]
    BY <1>1 DEF PcTyped, Go
<1>3. \A u \in Users : u # k => ~Busy(u)
    BY DEF OneBusy, Busy, Free, Users
<1>4. OneBusy'
    BY <1>2, <1>3 DEF OneBusy, Busy
<1> QED BY <1>2, <1>3, <1>4

\* It moves on, not to dial, and leaves the client alone.
LEMMA UserSettles ==
    ASSUME CurrentInv, NEW k \in Users, Busy(k) \/ Free,
           NEW where, where \notin {"hopping", "dialing"}, Go(k, where),
           UNCHANGED <<client, sftp, reading>>
    PROVE  CurrentInv'
<1>1. PcTyped' /\ OneBusy' /\ pc'[k] = where /\ \A u \in Users : u # k => pc'[u] = pc[u] /\ ~Busy(u)
    BY UserMoves DEF CurrentInv
<1>2. NoneWhileDialing'
    BY <1>1 DEF CurrentInv, NoneWhileDialing, Users
<1>3. OnlyCurrent'
    BY DEF CurrentInv, OnlyCurrent
<1> QED BY <1>1, <1>2, <1>3 DEF CurrentInv

LEMMA OthersCurrent ==
    ASSUME CurrentInv, NEW c \in Others, NEW where, Go(c, where), UNCHANGED <<client, sftp, reading>>
    PROVE  CurrentInv'
<1>1. Beside(Users)
    BY OthersMove DEF CurrentInv, Watched, Beside
<1> QED BY <1>1, BesideCurrent

\* The session ends: no client, no sftp.
LEMMA ClosedCurrent ==
    ASSUME CurrentInv, PcTyped', OneBusy', client' = None, sftp' = None, UNCHANGED reading
    PROVE  CurrentInv'
BY DEF CurrentInv, NoneWhileDialing, OnlyCurrent

LEMMA SweepCurrent ==
    ASSUME CurrentInv, NEW k \in Sweepers, Sweep(k) PROVE CurrentInv'
<1>0. k \in Users \/ k \in Others \ Users
    BY SessionAssumption, CallsDiffer DEF Sweepers, Users, Others
<1>1. CASE SweepBegins(k)
    <2>1. Go(k, "idle") /\ UNCHANGED <<client, sftp, reading>>
        BY <1>1 DEF SweepBegins
    <2>2. k \in Shuts \/ Free
        BY <1>1 DEF SweepBegins
    <2>3. CASE k \in Shuts
        <3>1. k \in Others
            BY <2>3 DEF Others
        <3> QED BY <2>1, <3>1, OthersCurrent
    <2>4. CASE k \notin Shuts
        <3>1. k \in Users
            BY <2>4 DEF Sweepers, Users
        <3> QED BY <2>1, <2>2, <2>4, <3>1, UserSettles
    <2> QED BY <2>3, <2>4
<1>2. CASE SweepServers(k)
    <2>1. Go(k, "servers") /\ UNCHANGED <<client, sftp, reading>> /\ pc[k] = "idle"
        BY <1>2 DEF SweepServers
    <2>2. Busy(k)
        BY <2>1 DEF Busy, Ended
    <2> QED BY <1>0, <2>1, <2>2, OthersCurrent, UserSettles
<1>3. CASE SweepTunnels(k)
    <2>1. UNCHANGED <<client, sftp, reading>>
        BY <1>3 DEF SweepTunnels, ownVars, clientVars
    <2>2. (pc[k] = "servers" /\ Go(k, "tunnels")) \/ UNCHANGED pc
        BY <1>3 DEF SweepTunnels, clientVars
    <2>3. CASE UNCHANGED pc
        BY <2>1, <2>3, BesideCurrent DEF Beside, CurrentInv, PcTyped
    <2>4. CASE pc[k] = "servers" /\ Go(k, "tunnels")
        <3>1. Busy(k)
            BY <2>4 DEF Busy, Ended
        <3> QED BY <1>0, <2>1, <2>4, <3>1, OthersCurrent, UserSettles
    <2> QED BY <2>2, <2>3, <2>4
<1>4. CASE SweepDone(k)
    <2>1. client' = None /\ sftp' = None /\ UNCHANGED reading
        BY <1>4 DEF SweepDone
    <2>2. PICK where : Go(k, where)
        BY <1>4 DEF SweepDone
    <2>3. pc[k] = "tunnels"
        BY <1>4 DEF SweepDone
    <2>4. PcTyped' /\ OneBusy'
        <3>1. CASE k \in Users
            <4>1. Busy(k)
                BY <2>3 DEF Busy, Ended
            <4> QED BY <2>2, <3>1, <4>1, UserMoves DEF CurrentInv
        <3>2. CASE k \in Others
            <4>1. Beside(Users)
                BY <2>2, <3>2, OthersMove DEF CurrentInv, Watched, Beside
            <4> QED BY <4>1 DEF Beside, CurrentInv, OneBusy, Busy
        <3> QED BY <1>0, <3>1, <3>2
    <2> QED BY <2>1, <2>4, ClosedCurrent
<1> QED BY <1>1, <1>2, <1>3, <1>4 DEF Sweep

LEMMA ConnectCurrent ==
    ASSUME CurrentInv, NEW c \in Connects,
           \/ JumpDialed(c) \/ Dialed(c) \/ ConnectDone(c) \/ ConnectFails(c)
    PROVE  CurrentInv'
<1>1. c \in Users
    BY DEF Users
<1>2. Busy(c)
    BY DEF JumpDialed, Dialed, ConnectDone, ConnectFails, Busy, Ended
<1>3. CASE JumpDialed(c)
    <2>1. pc[c] = "hopping" /\ Go(c, "dialing") /\ UNCHANGED <<client, sftp, reading>>
        BY <1>3 DEF JumpDialed, ownVars
    <2>2. client = None
        BY <2>1 DEF CurrentInv, NoneWhileDialing
    <2>3. PcTyped' /\ OneBusy'
        BY <1>1, <1>2, <2>1, UserMoves DEF CurrentInv
    <2> QED BY <2>1, <2>2, <2>3 DEF CurrentInv, NoneWhileDialing, OnlyCurrent
<1>4. CASE Dialed(c)
    <2>1. pc[c] = "dialing" /\ Go(c, "starting") /\ client' = c /\ UNCHANGED <<sftp, reading>>
        BY <1>4 DEF Dialed
    <2>2. PcTyped' /\ OneBusy' /\ pc'[c] = "starting" /\ \A u \in Users : u # c => pc'[u] = pc[u] /\ ~Busy(u)
        BY <1>1, <1>2, <2>1, UserMoves DEF CurrentInv
    <2>3. NoneWhileDialing'
        <3>1. \A u \in Connects : pc'[u] \notin {"hopping", "dialing"}
            BY <2>2 DEF Users, Busy, Ended
        <3> QED BY <3>1 DEF NoneWhileDialing
    <2>4. sftp = None
        BY <2>1 DEF CurrentInv, NoneWhileDialing, OnlyCurrent
    <2> QED BY <2>1, <2>2, <2>3, <2>4 DEF CurrentInv, OnlyCurrent
<1>5. CASE ConnectDone(c)
    <2>1. Go(c, "ok") /\ UNCHANGED <<client, sftp, reading>>
        BY <1>5 DEF ConnectDone
    <2> QED BY <1>1, <1>2, <2>1, UserSettles
<1>6. CASE ConnectFails(c)
    <2>1. Go(c, "failed") /\ client' = None /\ sftp' = None /\ UNCHANGED reading
        BY <1>6 DEF ConnectFails
    <2>2. PcTyped' /\ OneBusy'
        BY <1>1, <1>2, <2>1, UserMoves DEF CurrentInv
    <2> QED BY <2>1, <2>2, ClosedCurrent
<1> QED BY <1>3, <1>4, <1>5, <1>6

\* The set-up of the sftp, and the loss of the client.
LEMMA ClientCurrent ==
    ASSUME CurrentInv, NEW c \in Connects,
           \/ SftpOpened(c) \/ HomeResolved(c) \/ SftpRefused(c) \/ ShellHomeResolved(c) \/ SocketError(c)
           \/ \E e \in {"end", "close"} : InteractiveLost(c, e) \/ LostTunnelStopped(c, e)
    PROVE  CurrentInv'
<1>1. UNCHANGED <<pc, reading>>
    BY DEF SftpOpened, HomeResolved, SftpRefused, ShellHomeResolved, SocketError, InteractiveLost,
           LostTunnelStopped, clientVars, ownVars
<1>2. PcTyped' /\ OneBusy'
    BY <1>1 DEF CurrentInv, PcTyped, OneBusy, Busy
<1>3. (client' = client \/ client' = None) /\ sftp' \in {None, client'}
    <2>1. CASE SftpOpened(c) \/ SftpRefused(c)
        BY <2>1 DEF SftpOpened, SftpRefused, clientVars, CurrentInv, OnlyCurrent
    <2>2. CASE HomeResolved(c) \/ ShellHomeResolved(c) \/ SocketError(c)
        BY <2>2 DEF HomeResolved, ShellHomeResolved, SocketError, ownVars, CurrentInv, OnlyCurrent
    <2>3. ASSUME NEW e \in {"end", "close"}, InteractiveLost(c, e)
          PROVE  (client' = client \/ client' = None) /\ sftp' \in {None, client'}
        BY <2>3 DEF InteractiveLost, ToldLost, CurrentInv, OnlyCurrent
    <2>4. ASSUME NEW e \in {"end", "close"}, LostTunnelStopped(c, e)
          PROVE  (client' = client \/ client' = None) /\ sftp' \in {None, client'}
        BY <2>4 DEF LostTunnelStopped, clientVars, ownVars, CurrentInv, OnlyCurrent
    <2> QED BY <2>1, <2>2, <2>3, <2>4
<1> QED BY <1>1, <1>2, <1>3 DEF CurrentInv, NoneWhileDialing, OnlyCurrent

LEMMA HelperCurrent ==
    ASSUME CurrentInv, NEW h \in Helpers,
           \/ EnsureAuxiliary(h) \/ AuxiliaryDialed(h) \/ AuxiliaryReady(h)
           \/ AuxiliaryFails(h) \/ AuxiliaryLost(h)
    PROVE  CurrentInv'
<1>1. h \in Others
    BY DEF Others
<1>2. UNCHANGED <<client, sftp, reading>>
    BY DEF EnsureAuxiliary, AuxiliaryDialed, AuxiliaryReady, AuxiliaryFails, AuxiliaryLost, ownVars
<1>3. Go(h, "ok") \/ Go(h, "dialing") \/ Go(h, "sftp") \/ UNCHANGED pc
    BY DEF EnsureAuxiliary, AuxiliaryDialed, AuxiliaryReady, AuxiliaryFails, AuxiliaryLost
<1>4. CASE UNCHANGED pc
    BY <1>2, <1>4, BesideCurrent DEF Beside, CurrentInv, PcTyped
<1> QED BY <1>1, <1>2, <1>3, <1>4, OthersCurrent

LEMMA MetricsCurrent ==
    ASSUME CurrentInv, (\E g \in Gauges : StartHostMetrics(g)) \/ (\E p \in polls : PollDone(p)) \/ PollTimer
    PROVE  CurrentInv'
<1>1. ASSUME NEW g \in Gauges, StartHostMetrics(g)
      PROVE  CurrentInv'
    <2>1. g \in Others
        BY DEF Others
    <2>2. UNCHANGED <<client, sftp, reading>> /\ (Go(g, "ok") \/ Go(g, "failed"))
        BY <1>1 DEF StartHostMetrics
    <2> QED BY <2>1, <2>2, OthersCurrent
<1>2. ASSUME NEW p \in polls, PollDone(p)
      PROVE  CurrentInv'
    <2>1. UNCHANGED <<pc, client, sftp>> /\ reading'.of = reading'.now
        BY <1>2 DEF PollDone, Wanted, clientVars, CurrentInv, OnlyCurrent
    <2> QED BY <2>1 DEF CurrentInv, PcTyped, OneBusy, Busy, NoneWhileDialing, OnlyCurrent
<1>3. CASE PollTimer
    BY <1>3 DEF PollTimer, clientVars, CurrentInv, PcTyped, OneBusy, Busy, NoneWhileDialing, OnlyCurrent
<1> QED BY <1>1, <1>2, <1>3

LEMMA StepCurrent == CurrentInv /\ [Next]_vars => CurrentInv'
<1> SUFFICES ASSUME CurrentInv, [Next]_vars PROVE CurrentInv'
    OBVIOUS
<1>1. CASE TunnelsNext /\ UNCHANGED <<terminalVars, serverVars, ownVars>>
    <2>1. Beside(Users) /\ UNCHANGED <<client, sftp, reading>>
        BY <1>1, TunnelsBeside DEF CurrentInv, Watched, Beside, ownVars
    <2> QED BY <2>1, BesideCurrent
<1>2. CASE TerminalsNext /\ UNCHANGED <<tunnelVars, serverVars, ownVars>>
    <2>1. Beside(Users) /\ UNCHANGED <<client, sftp, reading>>
        BY <1>2, TerminalsBesideUsers DEF CurrentInv, ownVars
    <2> QED BY <2>1, BesideCurrent
<1>3. CASE ServersNext /\ UNCHANGED <<tunnelVars, terminalVars, ownVars>>
    <2>1. Beside(Users) /\ UNCHANGED <<client, sftp, reading>>
        BY <1>3, ServersBeside DEF CurrentInv, Watched, Beside, ownVars
    <2> QED BY <2>1, BesideCurrent
<1>4. CASE /\ IdleNext
           /\ UNCHANGED <<tunnelVars, terminalVars, serverVars, init, aux, auxState, poller, polls, reading, waits, had>>
    <2>1. Beside(Users) /\ UNCHANGED <<client, sftp, reading>>
        BY <1>4, IdleBeside DEF CurrentInv, Watched, Beside
    <2> QED BY <2>1, BesideCurrent
<1>5. CASE LifecycleNext
    BY <1>5, SweepCurrent, ConnectCurrent, ClientCurrent, HelperCurrent, MetricsCurrent DEF LifecycleNext
<1>6. CASE UNCHANGED vars
    BY <1>6 DEF vars, clientVars, ownVars, CurrentInv, PcTyped, OneBusy, Busy, NoneWhileDialing, OnlyCurrent
<1> QED BY <1>1, <1>2, <1>3, <1>4, <1>5, <1>6 DEF Next

\* At most one connect or disconnect of the user is under way, and no client is
\* left to a connection that is being dialed.
THEOREM CurrentInvariantHolds == Spec => []CurrentInv
    BY InitCurrent, StepCurrent, PTL DEF Spec

(* File operations never find the sftp of an earlier connection, and a      *)
(* metrics event names the connection that was asked (OnlyCurrent), for any *)
(* number of connects, disconnects and losses under the awaits.             *)
THEOREM SftpIsCurrent == Spec => []OnlyCurrent
<1>1. CurrentInv => OnlyCurrent
    BY DEF CurrentInv
<1> QED BY <1>1, CurrentInvariantHolds, PTL

-----------------------------------------------------------------------------
(* Terminals.                                                               *)

TerminalCalls == Opens \cup Visions

\* A connect that has failed stays so.
FailedStay == \A c \in Connects : pc[c] = "failed" => pc'[c] = "failed"

LEMMA NotTerminals ==
    ASSUME PcTyped, NEW c \in Users \cup Others, NEW where, Go(c, where), pc[c] # "failed"
    PROVE  Beside(TerminalCalls) /\ FailedStay
<1>1. c \in Calls /\ c \notin TerminalCalls /\ TerminalCalls \subseteq Calls /\ Connects \subseteq Calls
    BY SessionAssumption, CallsDiffer DEF Users, Calls, TerminalCalls
<1> QED BY <1>1 DEF PcTyped, Go, Beside, FailedStay

-----------------------------------------------------------------------------
(* What opening, closing and losing a session does to its terminals.        *)

\* The session goes on, or its terminals end with it, or a connect has failed.
Accounted == client' \in {client} \cup Connects \/ terms' = {} \/ \E c \in Connects : pc'[c] = "failed"

LifecycleOfTerminals ==
    /\ Beside(TerminalCalls) /\ FailedStay /\ Accounted
    /\ UNCHANGED <<terms, story, swept>> \/ DropTerminals(TRUE) \/ DropTerminals(FALSE)
    /\ display' => display
    /\ UNCHANGED <<told, pending>>

LEMMA SweepTerminals ==
    ASSUME PcTyped, NEW k \in Sweepers, Sweep(k) PROVE LifecycleOfTerminals
<1>0. k \in Users \cup Others
    BY DEF Sweepers, Users, Others
<1>1. CASE SweepBegins(k)
    <2>1. Go(k, "idle") /\ pc[k] = "new" /\ UNCHANGED <<client, terms, story, swept, display, told, pending>>
        BY <1>1 DEF SweepBegins, Called, shellVars, visionVars
    <2>2. Beside(TerminalCalls) /\ FailedStay
        BY <1>0, <2>1, NotTerminals
    <2> QED BY <2>1, <2>2 DEF LifecycleOfTerminals, Accounted
<1>2. CASE SweepServers(k)
    <2>1. Go(k, "servers") /\ pc[k] = "idle" /\ UNCHANGED <<client, terms, story, swept, display, told, pending>>
        BY <1>2 DEF SweepServers, terminalVars
    <2>2. Beside(TerminalCalls) /\ FailedStay
        BY <1>0, <2>1, NotTerminals
    <2> QED BY <2>1, <2>2 DEF LifecycleOfTerminals, Accounted
<1>3. CASE SweepTunnels(k)
    <2>1. UNCHANGED <<client, terms, story, swept, display, told, pending>>
        BY <1>3 DEF SweepTunnels, terminalVars, clientVars
    <2>2. (pc[k] = "servers" /\ Go(k, "tunnels")) \/ UNCHANGED pc
        BY <1>3 DEF SweepTunnels, clientVars
    <2>3. CASE UNCHANGED pc
        BY <2>1, <2>3 DEF LifecycleOfTerminals, Accounted, Beside, PcTyped, FailedStay
    <2>4. CASE pc[k] = "servers" /\ Go(k, "tunnels")
        <3>1. Beside(TerminalCalls) /\ FailedStay
            BY <1>0, <2>4, NotTerminals
        <3> QED BY <2>1, <3>1 DEF LifecycleOfTerminals, Accounted
    <2> QED BY <2>2, <2>3, <2>4
<1>4. CASE SweepDone(k)
    <2>1. DropTerminals(FALSE) /\ display' = FALSE /\ UNCHANGED <<told, pending>>
        BY <1>4 DEF SweepDone
    <2>2. PICK where : Go(k, where)
        BY <1>4 DEF SweepDone
    <2>3. pc[k] = "tunnels"
        BY <1>4 DEF SweepDone
    <2>4. Beside(TerminalCalls) /\ FailedStay
        BY <1>0, <2>2, <2>3, NotTerminals
    <2>5. terms' = {}
        BY <2>1 DEF DropTerminals
    <2> QED BY <2>1, <2>4, <2>5 DEF LifecycleOfTerminals, Accounted
<1> QED BY <1>1, <1>2, <1>3, <1>4 DEF Sweep

LEMMA ConnectTerminals ==
    ASSUME PcTyped, NEW c \in Connects,
           \/ JumpDialed(c) \/ Dialed(c) \/ ConnectDone(c) \/ ConnectFails(c)
    PROVE  LifecycleOfTerminals
<1>1. c \in Users
    BY DEF Users
<1>2. UNCHANGED <<terms, story, swept, display, told, pending>>
    BY DEF JumpDialed, Dialed, ConnectDone, ConnectFails, terminalVars
<1>3. pc[c] # "failed"
    BY DEF JumpDialed, Dialed, ConnectDone, ConnectFails
<1>4. Go(c, "dialing") \/ Go(c, "starting") \/ Go(c, "ok") \/ Go(c, "failed")
    BY DEF JumpDialed, Dialed, ConnectDone, ConnectFails
<1>5. Beside(TerminalCalls) /\ FailedStay
    BY <1>1, <1>3, <1>4, NotTerminals
<1>6. Accounted
    <2>1. CASE JumpDialed(c) \/ ConnectDone(c)
        BY <2>1 DEF JumpDialed, ConnectDone, Accounted
    <2>2. CASE Dialed(c)
        BY <2>2 DEF Dialed, Accounted
    <2>3. CASE ConnectFails(c)
        <3>1. pc'[c] = "failed"
            BY <2>3 DEF ConnectFails, Go, PcTyped, Calls
        <3> QED BY <3>1 DEF Accounted
    <2> QED BY <2>1, <2>2, <2>3
<1> QED BY <1>2, <1>5, <1>6 DEF LifecycleOfTerminals

LEMMA ClientTerminals ==
    ASSUME PcTyped, NEW c \in Connects,
           \/ SftpOpened(c) \/ HomeResolved(c) \/ SftpRefused(c) \/ ShellHomeResolved(c) \/ SocketError(c)
           \/ \E e \in {"end", "close"} : InteractiveLost(c, e) \/ LostTunnelStopped(c, e)
    PROVE  LifecycleOfTerminals
<1>1. UNCHANGED pc
    BY DEF SftpOpened, HomeResolved, SftpRefused, ShellHomeResolved, SocketError, InteractiveLost,
           LostTunnelStopped, clientVars
<1>2. Beside(TerminalCalls) /\ FailedStay
    BY <1>1 DEF Beside, PcTyped, FailedStay
<1>3. CASE SftpOpened(c) \/ HomeResolved(c) \/ SftpRefused(c) \/ ShellHomeResolved(c) \/ SocketError(c)
    <2>1. UNCHANGED <<client, terms, story, swept, display, told, pending>>
        BY <1>3 DEF SftpOpened, HomeResolved, SftpRefused, ShellHomeResolved, SocketError, clientVars, terminalVars
    <2> QED BY <1>2, <2>1 DEF LifecycleOfTerminals, Accounted
<1>4. ASSUME NEW e \in {"end", "close"}, InteractiveLost(c, e)
      PROVE  LifecycleOfTerminals
    <2>1. UNCHANGED <<told, pending>> /\ ToldLost(c, e)
        BY <1>4 DEF InteractiveLost
    <2>2. CASE closing
        BY <1>2, <2>1, <2>2 DEF ToldLost, shellVars, LifecycleOfTerminals, Accounted
    <2>3. CASE ~closing
        <3>1. DropTerminals(TRUE) /\ display' = FALSE
            BY <2>1, <2>3 DEF ToldLost
        <3>2. terms' = {}
            BY <3>1 DEF DropTerminals
        <3> QED BY <1>2, <2>1, <3>1, <3>2 DEF LifecycleOfTerminals, Accounted
    <2> QED BY <2>2, <2>3
<1>5. ASSUME NEW e \in {"end", "close"}, LostTunnelStopped(c, e)
      PROVE  LifecycleOfTerminals
    <2>1. UNCHANGED <<client, terms, story, swept, display, told, pending>>
        BY <1>5 DEF LostTunnelStopped, clientVars, terminalVars
    <2> QED BY <1>2, <2>1 DEF LifecycleOfTerminals, Accounted
<1> QED BY <1>3, <1>4, <1>5

LEMMA LifecycleTerminals == ASSUME PcTyped, LifecycleNext PROVE LifecycleOfTerminals
<1>1. ASSUME NEW h \in Helpers,
             \/ EnsureAuxiliary(h) \/ AuxiliaryDialed(h) \/ AuxiliaryReady(h)
             \/ AuxiliaryFails(h) \/ AuxiliaryLost(h)
      PROVE  LifecycleOfTerminals
    <2>1. h \in Others
        BY DEF Others
    <2>2. UNCHANGED <<client, terms, story, swept, display, told, pending>>
        BY <1>1 DEF EnsureAuxiliary, AuxiliaryDialed, AuxiliaryReady, AuxiliaryFails, AuxiliaryLost, terminalVars
    <2>3. UNCHANGED pc \/ (pc[h] # "failed" /\ (Go(h, "ok") \/ Go(h, "dialing") \/ Go(h, "sftp")))
        BY <1>1 DEF EnsureAuxiliary, AuxiliaryDialed, AuxiliaryReady, AuxiliaryFails, AuxiliaryLost, Called
    <2>4. Beside(TerminalCalls) /\ FailedStay
        <3>1. CASE UNCHANGED pc
            BY <3>1 DEF Beside, PcTyped, FailedStay
        <3> QED BY <2>1, <2>3, <3>1, NotTerminals
    <2> QED BY <2>2, <2>4 DEF LifecycleOfTerminals, Accounted
<1>2. ASSUME NEW g \in Gauges, StartHostMetrics(g)
      PROVE  LifecycleOfTerminals
    <2>1. g \in Others
        BY DEF Others
    <2>2. UNCHANGED <<client, terms, story, swept, display, told, pending>>
        BY <1>2 DEF StartHostMetrics, terminalVars
    <2>3. pc[g] # "failed" /\ (Go(g, "ok") \/ Go(g, "failed"))
        BY <1>2 DEF StartHostMetrics, Called
    <2>4. Beside(TerminalCalls) /\ FailedStay
        BY <2>1, <2>3, NotTerminals
    <2> QED BY <2>2, <2>4 DEF LifecycleOfTerminals, Accounted
<1>3. CASE PollTimer \/ \E p \in polls : PollDone(p)
    <2>1. UNCHANGED <<pc, client, terms, story, swept, display, told, pending>>
        BY <1>3 DEF PollTimer, PollDone, clientVars, terminalVars
    <2> QED BY <2>1 DEF LifecycleOfTerminals, Accounted, Beside, PcTyped, FailedStay
<1> QED BY <1>1, <1>2, <1>3, SweepTerminals, ConnectTerminals, ClientTerminals DEF LifecycleNext

-----------------------------------------------------------------------------
(* The account of a terminal.                                               *)
Untold == [in |-> 0, held |-> 0, out |-> 0, exits |-> 0]

\* It is being opened; open, all of its output told or held; or it has ended.
Account(t) ==
    /\ pc[t] # "ok" => t \notin terms /\ story[t] = Untold
    /\ t \in terms => story[t].exits = 0 /\ story[t].in = story[t].out + story[t].held
    /\ story[t].exits = 0 \/ (story[t].exits = 1 /\ story[t].held = 0 /\ story[t].out = story[t].in)
    /\ pc[t] = "ok" /\ t \notin terms => story[t].exits = 1 \/ t \in swept

Stories == [in : Nat, held : Nat, out : Nat, exits : Nat]

StoryTyped == terms \subseteq Opens /\ story \in [Opens -> Stories]

NoneWithoutSession == terms # {} => Connected \/ \E c \in Connects : pc[c] = "failed"

StoryInv == PcTyped /\ StoryTyped /\ NoneWithoutSession /\ \A t \in Opens : Account(t)

LEMMA FlushedIs ==
    ASSUME NEW r \in Stories
    PROVE  Flushed(r) = [in |-> r.in, held |-> 0, out |-> r.out + r.held, exits |-> r.exits]
<1>0. r.out + r.held \in Nat /\ [r EXCEPT !.out = r.out + r.held] \in Stories
    BY DEF Stories
<1>1. PICK g \in Stories : g = [r EXCEPT !.out = r.out + r.held]
    BY <1>0
<1>2. g = [in |-> r.in, held |-> r.held, out |-> r.out + r.held, exits |-> r.exits]
    BY <1>1 DEF Stories
<1>3. [g EXCEPT !.held = 0] = [in |-> g.in, held |-> 0, out |-> g.out, exits |-> g.exits]
    BY DEF Stories
<1>4. Flushed(r) = [g EXCEPT !.held = 0]
    BY <1>1, Zenon DEF Flushed
<1> QED BY <1>2, <1>3, <1>4

LEMMA ExitedIs ==
    ASSUME NEW r \in Stories
    PROVE  Exited(r) = [in |-> r.in, held |-> 0, out |-> r.out + r.held, exits |-> r.exits + 1]
<1>1. PICK f \in Stories : f = Flushed(r)
    BY FlushedIs DEF Stories
<1>2. [f EXCEPT !.exits = f.exits + 1] = [in |-> f.in, held |-> f.held, out |-> f.out, exits |-> f.exits + 1]
    BY DEF Stories
<1>3. Exited(r) = [f EXCEPT !.exits = f.exits + 1]
    BY <1>1, Zenon DEF Exited
<1> QED BY <1>1, <1>2, <1>3, FlushedIs

LEMMA InitStory == Init => StoryInv
<1> SUFFICES ASSUME Init PROVE StoryInv
    OBVIOUS
<1>1. PcTyped
    BY InitCurrent DEF CurrentInv
<1>2. \A t \in Opens : pc[t] # "ok"
    BY DEF Init, ClientsInit, Calls
<1>3. StoryTyped /\ NoneWithoutSession
    BY DEF Init, TerminalsInit, StoryTyped, Stories, NoneWithoutSession
<1>4. \A t \in Opens : Account(t)
    BY <1>2 DEF Init, TerminalsInit, Account, Untold
<1> QED BY <1>1, <1>3, <1>4 DEF StoryInv

\* No terminal is opened.
OpensKept == PcTyped' /\ \A t \in Opens : pc'[t] = "ok" <=> pc[t] = "ok"

LEMMA StoryKept ==
    ASSUME StoryInv, OpensKept, FailedStay, Accounted, UNCHANGED <<terms, story, swept>>
    PROVE  StoryInv'
<1>1. NoneWithoutSession'
    BY SessionAssumption, CallsDiffer DEF StoryInv, NoneWithoutSession, Connected, Accounted, FailedStay, Clients
<1>2. \A t \in Opens : Account(t)'
    BY DEF StoryInv, OpensKept, Account
<1> QED BY <1>1, <1>2 DEF StoryInv, OpensKept, StoryTyped

LEMMA StoryDropped ==
    ASSUME StoryInv, Beside(Opens), DropTerminals(TRUE) \/ DropTerminals(FALSE)
    PROVE  StoryInv'
<1>1. terms' = {}
    BY DEF DropTerminals
<1>2. ASSUME NEW t \in Opens
      PROVE  story'[t] \in Stories /\ Account(t)'
    <2>1. /\ story[t] \in Stories /\ Account(t)
          /\ pc'[t] = pc[t]
        BY DEF StoryInv, StoryTyped, Beside
    <2>2. CASE t \notin terms
        <3>1. story'[t] = story[t] /\ (t \in swept => t \in swept')
            BY <2>2 DEF DropTerminals
        <3> QED BY <1>1, <2>1, <2>2, <3>1 DEF Account
    <2>3. CASE t \in terms /\ DropTerminals(TRUE)
        <3>1. story'[t] = Exited(story[t])
            BY <2>3 DEF DropTerminals
        <3>2. /\ story'[t].in = story[t].in /\ story'[t].out = story[t].out + story[t].held
              /\ story'[t].held = 0 /\ story'[t].exits = story[t].exits + 1
              /\ story'[t] \in Stories
            BY <2>1, <3>1, ExitedIs DEF Stories
        <3> QED BY <1>1, <2>1, <2>3, <3>2 DEF Account, Stories
    <2>4. CASE t \in terms /\ DropTerminals(FALSE)
        <3>1. story'[t] = [story[t] EXCEPT !.held = 0] /\ t \in swept'
            BY <2>4 DEF DropTerminals
        <3>2. /\ story'[t].exits = story[t].exits
              /\ story'[t] \in Stories
            BY <2>1, <3>1 DEF Stories
        <3> QED BY <1>1, <2>1, <2>4, <3>1, <3>2 DEF Account
    <2> QED BY <2>2, <2>3, <2>4
<1>3. StoryTyped'
    <2>1. story' = [t \in Opens |-> story'[t]]
        BY DEF DropTerminals
    <2> QED BY <1>1, <1>2, <2>1 DEF StoryTyped
<1>4. NoneWithoutSession'
    BY <1>1 DEF NoneWithoutSession
<1> QED BY <1>2, <1>3, <1>4 DEF StoryInv, Beside

\* A step that changes at most the account of u, and opens none.
LEMMA OneAccount ==
    ASSUME StoryInv, NEW u \in Opens, PcTyped', FailedStay, UNCHANGED <<client, swept>>,
           \A t \in Opens : t # u => pc'[t] = pc[t],
           terms' \subseteq terms, terms \ {u} \subseteq terms',
           NEW r \in Stories,
           story' = [story EXCEPT ![u] = r],
           Account(u)'
    PROVE  StoryInv'
<1>1. StoryTyped'
    BY DEF StoryInv, StoryTyped
<1>2. NoneWithoutSession'
    BY DEF StoryInv, NoneWithoutSession, Connected, FailedStay
<1>3. ASSUME NEW t \in Opens, t # u
      PROVE  Account(t)'
    <2>1. story'[t] = story[t] /\ pc'[t] = pc[t] /\ (t \in terms <=> t \in terms')
        BY <1>3 DEF StoryInv, StoryTyped
    <2> QED BY <2>1 DEF StoryInv, Account
<1> QED BY <1>1, <1>2, <1>3 DEF StoryInv

LEMMA BesideIsKept == ASSUME Beside(Opens) PROVE OpensKept
BY DEF Beside, OpensKept

\* Output is flushed, or the end of an open terminal announced after it.
LEMMA Announced ==
    ASSUME StoryInv, Beside(Opens), FailedStay, UNCHANGED <<client, swept>>, NEW u \in Opens,
           \/ story' = [story EXCEPT ![u] = Flushed(@)] /\ UNCHANGED terms
           \/ u \in terms /\ story' = [story EXCEPT ![u] = Exited(@)] /\ terms' = terms \ {u}
    PROVE  StoryInv'
<1>1. story[u] \in Stories /\ Account(u) /\ pc'[u] = pc[u] /\ PcTyped' /\ \A t \in Opens : pc'[t] = pc[t]
    BY DEF StoryInv, StoryTyped, Beside
<1>2. CASE story' = [story EXCEPT ![u] = Flushed(@)] /\ UNCHANGED terms
    <2>1. PICK r \in Stories : r = Flushed(story[u])
        BY <1>1, FlushedIs DEF Stories
    <2>2. story' = [story EXCEPT ![u] = r] /\ story'[u] = r
        BY <1>2, <2>1 DEF StoryInv, StoryTyped
    <2>3. r.in = story[u].in /\ r.held = 0 /\ r.out = story[u].out + story[u].held /\ r.exits = story[u].exits
        BY <1>1, <2>1, FlushedIs
    <2>4. r = Untold \/ story[u] # Untold
        BY <1>1, <2>1, FlushedIs DEF Untold
    <2>5. Account(u)'
        BY <1>1, <1>2, <2>2, <2>3, <2>4 DEF Account, Stories, Untold
    <2> QED BY <1>1, <1>2, <2>2, <2>5, OneAccount
<1>3. CASE u \in terms /\ story' = [story EXCEPT ![u] = Exited(@)] /\ terms' = terms \ {u}
    <2>1. PICK r \in Stories : r = Exited(story[u])
        BY <1>1, ExitedIs DEF Stories
    <2>2. story' = [story EXCEPT ![u] = r] /\ story'[u] = r
        BY <1>3, <2>1 DEF StoryInv, StoryTyped
    <2>3. r.in = story[u].in /\ r.held = 0 /\ r.out = story[u].out + story[u].held /\ r.exits = story[u].exits + 1
        BY <1>1, <2>1, ExitedIs
    <2>4. pc[u] = "ok" /\ story[u].exits = 0 /\ story[u].in = story[u].out + story[u].held
        BY <1>1, <1>3 DEF Account
    <2>5. r.exits = 1 /\ r.out = r.in
        BY <2>3, <2>4
    <2>6. Account(u)'
        BY <1>1, <1>3, <2>2, <2>3, <2>4, <2>5 DEF Account
    <2> QED BY <1>1, <1>3, <2>2, <2>6, OneAccount
<1> QED BY <1>2, <1>3

LEMMA OutputCounted ==
    ASSUME StoryInv, NEW t \in Opens, TerminalOutput(t) PROVE StoryInv'
<1>1. t \in terms /\ UNCHANGED <<pc, client, terms, swept>>
    BY DEF TerminalOutput, clientVars
<1>2. story[t] \in Stories /\ Account(t)
    BY DEF StoryInv, StoryTyped
<1>3. PICK r \in Stories :
          r = [in |-> story[t].in + 1, held |-> story[t].held + 1, out |-> story[t].out, exits |-> story[t].exits]
    <2>1. /\ story[t].in \in Nat /\ story[t].held \in Nat /\ story[t].out \in Nat /\ story[t].exits \in Nat
          /\ story[t].in + 1 \in Nat /\ story[t].held + 1 \in Nat
        BY <1>2 DEF Stories
    <2>2. [in |-> story[t].in + 1, held |-> story[t].held + 1, out |-> story[t].out, exits |-> story[t].exits]
              \in Stories
        BY <2>1 DEF Stories
    <2> QED BY <2>2
<1>4. story' = [story EXCEPT ![t] = r]
    BY <1>2, <1>3 DEF TerminalOutput, StoryInv, StoryTyped, Stories
<1>5. story'[t] = r
    BY <1>4 DEF StoryInv, StoryTyped
<1>6. Account(t)'
    BY <1>1, <1>2, <1>3, <1>5 DEF Account, Stories
<1>7. PcTyped' /\ FailedStay
    BY <1>1 DEF StoryInv, PcTyped, FailedStay
<1> QED BY <1>1, <1>4, <1>6, <1>7, OneAccount

\* Where a call of the terminals goes, it goes alone.
LEMMA TerminalMoves ==
    ASSUME PcTyped, NEW c \in Opens \cup Visions \cup Others, NEW where, Go(c, where)
    PROVE  PcTyped' /\ pc'[c] = where /\ (\A u \in TerminalCalls : u # c => pc'[u] = pc[u]) /\ FailedStay
<1>1. c \in Calls /\ TerminalCalls \subseteq Calls /\ Connects \subseteq Calls /\ c \notin Connects
    BY SessionAssumption, CallsDiffer DEF Calls, TerminalCalls
<1> QED BY <1>1 DEF PcTyped, Go, FailedStay

LEMMA OpeningStory ==
    ASSUME StoryInv, NEW t \in Opens,
           \/ OpenTerminal(t) \/ TerminalProbed(t) \/ TerminalDialed(t)
           \/ TerminalFails(t) \/ TerminalReady(t)
    PROVE  StoryInv'
<1>0. PcTyped
    BY DEF StoryInv
<1>1. CASE OpenTerminal(t) \/ TerminalProbed(t) \/ TerminalDialed(t) \/ TerminalFails(t)
    <2>1. pc[t] # "ok" /\ (Go(t, "failed") \/ Go(t, "probing") \/ Go(t, "dialing") \/ Go(t, "shell"))
        BY <1>1 DEF OpenTerminal, TerminalProbed, TerminalDialed, TerminalFails, Called
    <2>2. UNCHANGED <<client, terms, story, swept>>
        BY <1>1 DEF OpenTerminal, TerminalProbed, TerminalDialed, TerminalFails, terminalVars
    <2>3. OpensKept /\ FailedStay
        BY <1>0, <2>1, TerminalMoves DEF OpensKept, TerminalCalls
    <2> QED BY <2>2, <2>3, StoryKept DEF Accounted
<1>2. CASE TerminalReady(t)
    <2>1. pc[t] = "shell" /\ UNCHANGED <<client, story, swept>>
        BY <1>2 DEF TerminalReady
    <2>2. CASE Go(t, "failed") /\ UNCHANGED terms
        <3>1. OpensKept /\ FailedStay
            BY <1>0, <2>1, <2>2, TerminalMoves DEF OpensKept, TerminalCalls
        <3> QED BY <2>1, <2>2, <3>1, StoryKept DEF Accounted
    <2>3. CASE Connected /\ Go(t, "ok") /\ terms' = terms \cup {t}
        <3>1. /\ PcTyped' /\ pc'[t] = "ok" /\ \A u \in Opens : u # t => pc'[u] = pc[u]
            BY <1>0, <2>3, TerminalMoves DEF TerminalCalls
        <3>2. story[t] = Untold
            BY <2>1 DEF StoryInv, Account
        <3>3. Account(t)'
            BY <2>1, <2>3, <3>1, <3>2 DEF Account, Untold
        <3>4. ASSUME NEW u \in Opens, u # t
              PROVE  Account(u)'
            BY <2>1, <2>3, <3>1, <3>4 DEF StoryInv, Account
        <3>5. StoryTyped' /\ NoneWithoutSession'
            BY <2>1, <2>3 DEF StoryInv, StoryTyped, NoneWithoutSession, Connected
        <3> QED BY <3>1, <3>3, <3>4, <3>5 DEF StoryInv
    <2> QED BY <1>2, <2>2, <2>3 DEF TerminalReady, Register
<1> QED BY <1>1, <1>2

LEMMA EndingStory ==
    ASSUME StoryInv,
           \/ \E t \in Opens : FlushTimer(t) \/ ChannelClosed(t) \/ TerminalClientLost(t)
           \/ \E x \in Hangups : CloseTerminal(x)
    PROVE  StoryInv'
<1>1. PcTyped
    BY DEF StoryInv
<1>2. ASSUME NEW t \in Opens, FlushTimer(t) \/ ChannelClosed(t) \/ TerminalClientLost(t)
      PROVE  StoryInv'
    <2>1. UNCHANGED <<pc, client, swept>>
        BY <1>2 DEF FlushTimer, ChannelClosed, TerminalClientLost, clientVars
    <2>2. Beside(Opens) /\ FailedStay
        BY <1>1, <2>1 DEF Beside, PcTyped, FailedStay
    <2>3. \/ UNCHANGED <<terms, story>>
          \/ story' = [story EXCEPT ![t] = Flushed(@)] /\ UNCHANGED terms
          \/ t \in terms /\ story' = [story EXCEPT ![t] = Exited(@)] /\ terms' = terms \ {t}
        BY <1>2, Zenon DEF FlushTimer, ChannelClosed, TerminalClientLost
    <2>4. CASE UNCHANGED <<terms, story>>
        BY <2>1, <2>2, <2>4, BesideIsKept, StoryKept DEF Accounted
    <2> QED BY <2>1, <2>2, <2>3, <2>4, Announced
<1>3. ASSUME NEW x \in Hangups, CloseTerminal(x)
      PROVE  StoryInv'
    <2>1. TerminalOf[x] \in Opens /\ x \in Others
        BY TerminalAssumption DEF Others
    <2>2. Go(x, "ok") /\ UNCHANGED <<client, swept>>
        BY <1>3 DEF CloseTerminal
    <2>3. Beside(Opens) /\ FailedStay
        <3>1. x \notin Opens
            BY <2>1, SessionAssumption, CallsDiffer
        <3> QED BY <1>1, <2>1, <2>2, <3>1, TerminalMoves DEF Beside, TerminalCalls
    <2>4. \/ story' = [story EXCEPT ![TerminalOf[x]] = Flushed(@)] /\ UNCHANGED terms
          \/ /\ TerminalOf[x] \in terms
             /\ story' = [story EXCEPT ![TerminalOf[x]] = Exited(@)] /\ terms' = terms \ {TerminalOf[x]}
        <3>1. CASE TerminalOf[x] \in terms
            BY <1>3, <3>1, Zenon DEF CloseTerminal
        <3>2. CASE TerminalOf[x] \notin terms
            <4>1. terms \ {TerminalOf[x]} = terms
                BY <3>2
            <4> QED BY <1>3, <3>2, <4>1, Zenon DEF CloseTerminal
        <3> QED BY <3>1, <3>2
    <2> QED BY <2>1, <2>2, <2>3, <2>4, Announced
<1> QED BY <1>2, <1>3

\* Vision mode and video leave the accounts alone.
LEMMA DisplayStory ==
    ASSUME StoryInv,
           \/ \E x \in Visions : EnableVisionMode(x) \/ VirtualDisplay(x) \/ TellTerminal(x)
           \/ DisableVisionMode
           \/ \E v \in Films : \/ StartVideoStream(v) \/ ResolveFfmpegBinary(v) \/ VideoStarts(v)
                               \/ VideoEnds(v) \/ ObserverClosed(v)
           \/ \E x \in Cuts : StopVideoStream(x)
    PROVE  StoryInv'
<1>1. UNCHANGED <<client, terms, story, swept>>
    BY DEF EnableVisionMode, VirtualDisplay, TellTerminal, DisableVisionMode, StartVideoStream,
           ResolveFfmpegBinary, VideoStarts, VideoEnds, ObserverClosed, StopVideoStream,
           clientVars, terminalVars, shellVars
<1>2. UNCHANGED pc \/ \E c \in Visions \cup Others : \E where : Go(c, where)
    <2>1. Films \subseteq Others /\ Cuts \subseteq Others
        BY DEF Others
    <2>2. ASSUME NEW x \in Visions, EnableVisionMode(x) \/ VirtualDisplay(x) \/ TellTerminal(x)
          PROVE  UNCHANGED pc \/ \E c \in Visions \cup Others : \E where : Go(c, where)
        <3>1. UNCHANGED pc \/ \E where : Go(x, where)
            BY <2>2 DEF EnableVisionMode, VirtualDisplay, TellTerminal
        <3> QED BY <3>1
    <2>3. ASSUME NEW v \in Films, \/ StartVideoStream(v) \/ ResolveFfmpegBinary(v) \/ VideoStarts(v)
                                  \/ VideoEnds(v) \/ ObserverClosed(v)
          PROVE  UNCHANGED pc \/ \E c \in Visions \cup Others : \E where : Go(c, where)
        <3>1. UNCHANGED pc \/ \E where : Go(v, where)
            BY <2>3 DEF StartVideoStream, ResolveFfmpegBinary, VideoStarts, VideoEnds, ObserverClosed, clientVars
        <3> QED BY <2>1, <3>1
    <2>4. ASSUME NEW x \in Cuts, StopVideoStream(x)
          PROVE  UNCHANGED pc \/ \E c \in Visions \cup Others : \E where : Go(c, where)
        <3>1. Go(x, "ok")
            BY <2>4 DEF StopVideoStream
        <3> QED BY <2>1, <3>1
    <2> QED BY <2>2, <2>3, <2>4 DEF DisableVisionMode, clientVars
<1>3. OpensKept /\ FailedStay
    <2>1. CASE UNCHANGED pc
        BY <2>1 DEF StoryInv, OpensKept, PcTyped, FailedStay
    <2>2. ASSUME NEW c \in Visions \cup Others, NEW where, Go(c, where)
          PROVE  OpensKept /\ FailedStay
        <3>1. c \notin Opens
            BY SessionAssumption, CallsDiffer
        <3> QED BY <2>2, <3>1, TerminalMoves DEF StoryInv, OpensKept, TerminalCalls
    <2> QED BY <1>2, <2>1, <2>2
<1> QED BY <1>1, <1>3, StoryKept DEF Accounted

\* What runs beside the terminals.
LEMMA BesideTerminals ==
    ASSUME Beside(Watched) PROVE Beside(TerminalCalls) /\ Beside(Opens) /\ FailedStay
BY DEF Beside, Watched, Users, TerminalCalls, FailedStay

LEMMA StepStory == StoryInv /\ [Next]_vars => StoryInv'
<1> SUFFICES ASSUME StoryInv, [Next]_vars PROVE StoryInv'
    OBVIOUS
<1>0. PcTyped
    BY DEF StoryInv
<1>1. CASE TunnelsNext /\ UNCHANGED <<terminalVars, serverVars, ownVars>>
    <2>1. Beside(Watched) /\ UNCHANGED <<client, terms, story, swept>>
        BY <1>0, <1>1, TunnelsBeside DEF terminalVars
    <2> QED BY <2>1, BesideTerminals, BesideIsKept, StoryKept DEF Accounted
<1>2. CASE TerminalsNext
    BY <1>2, OpeningStory, OutputCounted, EndingStory, DisplayStory DEF TerminalsNext
<1>3. CASE ServersNext /\ UNCHANGED <<tunnelVars, terminalVars, ownVars>>
    <2>1. Beside(Watched) /\ UNCHANGED <<client, terms, story, swept>>
        BY <1>0, <1>3, ServersBeside DEF terminalVars
    <2> QED BY <2>1, BesideTerminals, BesideIsKept, StoryKept DEF Accounted
<1>4. CASE /\ IdleNext
           /\ UNCHANGED <<tunnelVars, terminalVars, serverVars, init, aux, auxState, poller, polls, reading, waits, had>>
    <2>1. Beside(Watched) /\ UNCHANGED <<client, terms, story, swept>>
        BY <1>0, <1>4, IdleBeside DEF terminalVars
    <2> QED BY <2>1, BesideTerminals, BesideIsKept, StoryKept DEF Accounted
<1>5. CASE LifecycleNext
    <2>1. LifecycleOfTerminals
        BY <1>0, <1>5, LifecycleTerminals
    <2>2. Beside(Opens)
        BY <2>1 DEF LifecycleOfTerminals, Beside, TerminalCalls
    <2> QED BY <2>1, <2>2, BesideIsKept, StoryKept, StoryDropped DEF LifecycleOfTerminals
<1>6. CASE UNCHANGED vars
    <2>1. UNCHANGED <<pc, client, terms, story, swept>>
        BY <1>6 DEF vars, clientVars, terminalVars
    <2>2. OpensKept /\ FailedStay
        BY <1>0, <2>1 DEF OpensKept, PcTyped, FailedStay
    <2> QED BY <2>1, <2>2, StoryKept DEF Accounted
<1> QED BY <1>1, <1>2, <1>3, <1>4, <1>5, <1>6 DEF Next

(* Every terminal's story ends once and whole (TerminalStory), however its  *)
(* channel, its client, the panel and the connection ended it, for any      *)
(* number of terminals and chunks.                                          *)
THEOREM StoryEndsOnce == Spec => []TerminalStory
<1>1. StoryInv => TerminalStory
    <2> SUFFICES ASSUME StoryInv, NEW t \in Opens
                 PROVE  /\ story[t].exits <= 1
                        /\ story[t].exits = 1 => story[t].held = 0 /\ story[t].out = story[t].in
                        /\ pc[t] = "ok" /\ t \notin terms => story[t].exits = 1 \/ t \in swept
        BY DEF StoryInv, NoneWithoutSession, TerminalStory
    <2>1. Account(t)
        BY DEF StoryInv
    <2> QED BY <2>1 DEF Account
<1> QED BY <1>1, InitStory, StepStory, PTL DEF Spec

-----------------------------------------------------------------------------
(* Vision mode.                                                             *)

\* A loop of enableVisionMode will still reach t.
Awaited(t) == \E x \in Visions : pc[x] = "telling" /\ t \in pending[x]

VisionInv ==
    /\ PcTyped /\ pending = [x \in Visions |-> pending[x]]
    /\ display => \A t \in terms : t \in told \/ Awaited(t)

LEMMA InitVision == Init => VisionInv
<1> SUFFICES ASSUME Init PROVE VisionInv
    OBVIOUS
<1>1. PcTyped
    BY InitCurrent DEF CurrentInv
<1>2. display = FALSE /\ pending = [x \in Visions |-> {}]
    BY DEF Init, TerminalsInit
<1> QED BY <1>1, <1>2 DEF VisionInv

\* A step that starts no display, opens no terminal and ends no loop.
LEMMA VisionKept ==
    ASSUME VisionInv, PcTyped', \A x \in Visions : pc[x] = "telling" => pc'[x] = "telling",
           display' => display, UNCHANGED <<told, pending>>, terms' \subseteq terms
    PROVE  VisionInv'
BY DEF VisionInv, Awaited

LEMMA BesideVision ==
    ASSUME VisionInv, Beside(TerminalCalls), display' => display,
           UNCHANGED <<told, pending>>, terms' \subseteq terms
    PROVE  VisionInv'
BY VisionKept DEF Beside, TerminalCalls

LEMMA OpeningVision ==
    ASSUME VisionInv, NEW t \in Opens,
           \/ OpenTerminal(t) \/ TerminalProbed(t) \/ TerminalDialed(t)
           \/ TerminalFails(t) \/ TerminalReady(t)
    PROVE  VisionInv'
<1>0. PcTyped /\ t \notin Visions
    BY SessionAssumption, CallsDiffer DEF VisionInv
<1>1. \E where : Go(t, where)
    BY DEF OpenTerminal, TerminalProbed, TerminalDialed, TerminalFails, TerminalReady, Register
<1>2. PcTyped' /\ \A x \in Visions : pc'[x] = pc[x]
    BY <1>0, <1>1, TerminalMoves DEF TerminalCalls
<1>3. UNCHANGED display
    BY DEF OpenTerminal, TerminalProbed, TerminalDialed, TerminalFails, TerminalReady, terminalVars, visionVars
<1>4. CASE UNCHANGED <<terms, told, pending>>
    BY <1>2, <1>3, <1>4, VisionKept
<1>5. CASE Register(t)
    <2>1. /\ terms' = terms \cup {t} /\ told' = IF display THEN told \cup {t} ELSE told
          /\ pending' = [x \in Visions |-> IF pc[x] = "telling" THEN pending[x] \cup {t} ELSE pending[x]]
        BY <1>5 DEF Register
    <2>2. pending' = [x \in Visions |-> pending'[x]] /\ \A x \in Visions : pending[x] \subseteq pending'[x]
        BY <2>1
    <2>3. ASSUME display', NEW u \in terms'
          PROVE  u \in told' \/ Awaited(u)'
        BY <1>2, <1>3, <2>1, <2>2, <2>3 DEF VisionInv, Awaited
    <2> QED BY <1>2, <2>2, <2>3 DEF VisionInv
<1> QED BY <1>4, <1>5 DEF OpenTerminal, TerminalProbed, TerminalDialed, TerminalFails, TerminalReady,
                          terminalVars, visionVars

LEMMA EndingVision ==
    ASSUME VisionInv,
           \/ \E t \in Opens : TerminalOutput(t) \/ FlushTimer(t) \/ ChannelClosed(t) \/ TerminalClientLost(t)
           \/ \E x \in Hangups : CloseTerminal(x)
    PROVE  VisionInv'
<1>1. UNCHANGED <<display, told, pending>> /\ terms' \subseteq terms
    BY DEF TerminalOutput, FlushTimer, ChannelClosed, TerminalClientLost, CloseTerminal, visionVars
<1>2. PcTyped' /\ \A x \in Visions : pc'[x] = pc[x]
    <2>1. ASSUME NEW t \in Opens,
                 TerminalOutput(t) \/ FlushTimer(t) \/ ChannelClosed(t) \/ TerminalClientLost(t)
          PROVE  PcTyped' /\ \A x \in Visions : pc'[x] = pc[x]
        BY <2>1 DEF TerminalOutput, FlushTimer, ChannelClosed, TerminalClientLost, clientVars, VisionInv, PcTyped
    <2>2. ASSUME NEW y \in Hangups, CloseTerminal(y)
          PROVE  PcTyped' /\ \A x \in Visions : pc'[x] = pc[x]
        <3>1. y \in Others /\ y \notin Visions
            BY SessionAssumption, CallsDiffer DEF Others
        <3>2. Go(y, "ok")
            BY <2>2 DEF CloseTerminal
        <3> QED BY <3>1, <3>2, TerminalMoves DEF VisionInv, TerminalCalls
    <2> QED BY <2>1, <2>2
<1> QED BY <1>1, <1>2, VisionKept

LEMMA DisplayVision ==
    ASSUME VisionInv, NEW x \in Visions, EnableVisionMode(x) \/ VirtualDisplay(x) \/ TellTerminal(x)
    PROVE  VisionInv'
<1>0. PcTyped /\ x \in TerminalCalls
    BY DEF VisionInv, TerminalCalls
<1>1. ASSUME NEW where, Go(x, where)
      PROVE  PcTyped' /\ pc'[x] = where /\ \A y \in Visions : y # x => pc'[y] = pc[y]
    BY <1>0, <1>1, TerminalMoves DEF TerminalCalls
<1>2. UNCHANGED terms
    BY DEF EnableVisionMode, VirtualDisplay, TellTerminal, terminalVars, shellVars
<1>3. CASE EnableVisionMode(x)
    <2>1. pc[x] = "new" /\ UNCHANGED <<display, told, pending>> /\ \E where : Go(x, where)
        BY <1>3 DEF EnableVisionMode, Called, terminalVars
    <2> QED BY <1>1, <1>2, <2>1, VisionKept
<1>4. CASE VirtualDisplay(x)
    <2>1. pc[x] = "display" /\ UNCHANGED told
        BY <1>4 DEF VirtualDisplay
    <2>2. CASE Go(x, "failed") /\ UNCHANGED <<display, pending>>
        BY <1>1, <1>2, <2>1, <2>2, VisionKept
    <2>3. CASE pending' = [pending EXCEPT ![x] = terms] /\ Go(x, "telling")
        <3>1. pending' = [y \in Visions |-> pending'[y]] /\ pending'[x] = terms
            BY <2>3 DEF VisionInv
        <3>2. PcTyped' /\ pc'[x] = "telling"
            BY <1>1, <2>3
        <3> QED BY <1>2, <3>1, <3>2 DEF VisionInv, Awaited
    <2> QED BY <1>4, <2>2, <2>3 DEF VirtualDisplay
<1>5. CASE TellTerminal(x)
    <2>1. pc[x] = "telling" /\ UNCHANGED display
        BY <1>5 DEF TellTerminal
    <2>2. CASE pending[x] = {}
        <3>1. Go(x, "ok") /\ UNCHANGED <<told, pending>>
            BY <1>5, <2>2 DEF TellTerminal
        <3>2. PcTyped' /\ \A y \in Visions : y # x => pc'[y] = pc[y]
            BY <1>1, <3>1
        <3> QED BY <1>2, <2>1, <2>2, <3>1, <3>2 DEF VisionInv, Awaited
    <2>3. CASE pending[x] # {}
        <3>1. UNCHANGED pc
            BY <1>5, <2>3 DEF TellTerminal
        <3>2. PICK t \in pending[x] : /\ pending' = [pending EXCEPT ![x] = @ \ {t}]
                                      /\ told' = IF t \in terms THEN told \cup {t} ELSE told
            BY <1>5, <2>3 DEF TellTerminal
        <3>3. /\ pending' = [y \in Visions |-> pending'[y]]
              /\ \A y \in Visions : pending[y] \subseteq pending'[y] \cup {t}
            BY <3>2 DEF VisionInv
        <3>4. PcTyped'
            BY <1>0, <3>1 DEF PcTyped
        <3> QED BY <1>2, <2>1, <3>1, <3>2, <3>3, <3>4 DEF VisionInv, Awaited
    <2> QED BY <2>2, <2>3
<1> QED BY <1>3, <1>4, <1>5

\* Video has nothing to do with it.
LEMMA FilmVision ==
    ASSUME VisionInv,
           \/ DisableVisionMode
           \/ \E v \in Films : \/ StartVideoStream(v) \/ ResolveFfmpegBinary(v) \/ VideoStarts(v)
                               \/ VideoEnds(v) \/ ObserverClosed(v)
           \/ \E x \in Cuts : StopVideoStream(x)
    PROVE  VisionInv'
<1>1. UNCHANGED <<told, pending, terms>> /\ (display' = FALSE \/ UNCHANGED display)
    BY DEF DisableVisionMode, StartVideoStream, ResolveFfmpegBinary, VideoStarts, VideoEnds, ObserverClosed,
           StopVideoStream, terminalVars, shellVars, visionVars
<1>2. display' => display
    <2>1. CASE display' = FALSE
        BY <2>1
    <2>2. CASE UNCHANGED display
        BY <2>2
    <2> QED BY <1>1, <2>1, <2>2
<1>3. CASE UNCHANGED pc
    BY <1>1, <1>2, <1>3, VisionKept DEF VisionInv, PcTyped
<1>4. ASSUME NEW c \in Others, NEW where, Go(c, where)
      PROVE  VisionInv'
    <2>1. c \notin Visions
        BY SessionAssumption, CallsDiffer
    <2>2. PcTyped' /\ \A x \in Visions : pc'[x] = pc[x]
        BY <1>4, <2>1, TerminalMoves DEF VisionInv, TerminalCalls
    <2> QED BY <1>1, <1>2, <2>2, VisionKept
<1>5. ASSUME NEW v \in Films, \/ StartVideoStream(v) \/ ResolveFfmpegBinary(v) \/ VideoStarts(v)
                              \/ VideoEnds(v) \/ ObserverClosed(v)
      PROVE  VisionInv'
    <2>1. v \in Others
        BY DEF Others
    <2>2. UNCHANGED pc \/ \E where : Go(v, where)
        BY <1>5 DEF StartVideoStream, ResolveFfmpegBinary, VideoStarts, VideoEnds, ObserverClosed, clientVars
    <2> QED BY <1>3, <1>4, <2>1, <2>2
<1>6. ASSUME NEW x \in Cuts, StopVideoStream(x)
      PROVE  VisionInv'
    <2>1. x \in Others /\ Go(x, "ok")
        BY <1>6 DEF StopVideoStream, Others
    <2> QED BY <1>4, <2>1
<1> QED BY <1>3, <1>5, <1>6 DEF DisableVisionMode, clientVars

LEMMA StepVision == VisionInv /\ [Next]_vars => VisionInv'
<1> SUFFICES ASSUME VisionInv, [Next]_vars PROVE VisionInv'
    OBVIOUS
<1>0. PcTyped
    BY DEF VisionInv
<1>1. CASE TunnelsNext /\ UNCHANGED <<terminalVars, serverVars, ownVars>>
    <2>1. Beside(Watched) /\ UNCHANGED <<display, told, pending, terms>>
        BY <1>0, <1>1, TunnelsBeside DEF terminalVars
    <2> QED BY <2>1, BesideTerminals, BesideVision
<1>2. CASE TerminalsNext
    BY <1>2, OpeningVision, EndingVision, DisplayVision, FilmVision DEF TerminalsNext
<1>3. CASE ServersNext /\ UNCHANGED <<tunnelVars, terminalVars, ownVars>>
    <2>1. Beside(Watched) /\ UNCHANGED <<display, told, pending, terms>>
        BY <1>0, <1>3, ServersBeside DEF terminalVars
    <2> QED BY <2>1, BesideTerminals, BesideVision
<1>4. CASE /\ IdleNext
           /\ UNCHANGED <<tunnelVars, terminalVars, serverVars, init, aux, auxState, poller, polls, reading, waits, had>>
    <2>1. Beside(Watched) /\ UNCHANGED <<display, told, pending, terms>>
        BY <1>0, <1>4, IdleBeside DEF terminalVars
    <2> QED BY <2>1, BesideTerminals, BesideVision
<1>5. CASE LifecycleNext
    <2>1. LifecycleOfTerminals
        BY <1>0, <1>5, LifecycleTerminals
    <2>2. terms' \subseteq terms
        BY <2>1 DEF LifecycleOfTerminals, DropTerminals
    <2> QED BY <2>1, <2>2, BesideVision DEF LifecycleOfTerminals
<1>6. CASE UNCHANGED vars
    <2>1. UNCHANGED <<pc, display, told, pending, terms>>
        BY <1>6 DEF vars, clientVars, terminalVars
    <2> QED BY <1>0, <2>1, VisionKept DEF PcTyped
<1> QED BY <1>1, <1>2, <1>3, <1>4, <1>5, <1>6 DEF Next

(* When no enableVisionMode is on its way and a display is set, every       *)
(* shell has it (VisionReachesTerminals), for any number of terminals that  *)
(* open and close while the loop waits.                                     *)
THEOREM VisionReachesAll == Spec => []VisionReachesTerminals
<1>1. VisionInv => VisionReachesTerminals
    BY DEF VisionInv, Awaited, VisionReachesTerminals
<1> QED BY <1>1, InitVision, StepVision, PTL DEF Spec
=============================================================================
