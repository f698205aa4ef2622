-------------------------- MODULE SessionTerminals --------------------------
(***************************************************************************)
(* The terminals of a session, each on an SSH client of its own            *)
(* (ssh-session.ts:1326-1504, 4396-4432), vision mode and the video streams*)
(* with their observer windows (ssh-session.ts:1687-1918, index.ts).  A    *)
(* chunk of output is counted, not read; output waits up to 16 ms in a     *)
(* buffer.  What ffmpeg prints and how frames are cut out is left out.     *)
(***************************************************************************)
EXTENDS SessionClients

CONSTANTS
    Persistent,  \* terminals asked for with a session name
    TerminalOf,  \* of each Hangup
    FilmOf,      \* of each Cut
    MaxChunks    \* bound: chunks of output of one terminal

ASSUME TerminalAssumption ==
    /\ Persistent \subseteq Opens
    /\ TerminalOf \in [Hangups -> Opens] /\ FilmOf \in [Cuts -> Films] /\ MaxChunks \in Nat

VARIABLES
    terms,      \* the keys of this.terminals
    channel,    \* each terminal's shell channel: "none", "open" or "closed"
    kept,       \* terminals attached to a tmux or screen session
    story,      \* of each terminal: chunks taken in, waiting, emitted; exit events
    swept,      \* history: terminals a disconnect() destroyed
    display,    \* visionModeDisplay is set
    told,       \* terminals whose shell has DISPLAY
    pending,    \* terminals the loop of each enableVisionMode has not reached
    streams,    \* the keys of this.videoStreams
    picture,    \* each stream's ffmpeg channel: "none", "open" or "closed"
    camera,     \* the client it is asked of
    observers   \* videoObserverWindows; videoStreamOwners has the same keys

terminalVars ==
    <<terms, channel, kept, story, swept, display, told, pending, streams, picture, camera, observers>>

shellVars == <<terms, channel, kept, story, swept>>
visionVars == <<display, told, pending>>
filmVars == <<streams, picture, camera, observers>>

TerminalsInit ==
    /\ terms = {} /\ kept = {} /\ swept = {} /\ told = {} /\ streams = {} /\ observers = {}
    /\ channel = [t \in Opens |-> "none"]
    /\ story = [t \in Opens |-> [in |-> 0, held |-> 0, out |-> 0, exits |-> 0]]
    /\ display = FALSE
    /\ pending = [x \in Visions |-> {}]
    /\ picture = [v \in Films |-> "none"] /\ camera = [v \in Films |-> None]

-----------------------------------------------------------------------------
(* createTerminal.                                                          *)
OpenTerminal(t) ==
    /\ Called(t)
    /\ IF ~Connected THEN Go(t, "failed") /\ UNCHANGED link
       ELSE IF t \in Persistent THEN Go(t, "probing") /\ UNCHANGED link
       ELSE Go(t, "dialing") /\ Dial(t)
    /\ UNCHANGED <<window, closing, client, jump, shown, terminalVars>>

TerminalProbed(t) ==         \* a failed probe counts as no multiplexer
    /\ pc[t] = "probing"
    /\ kept' \in {kept, kept \cup {t}}
    /\ Go(t, "dialing") /\ Dial(t)
    /\ UNCHANGED <<window, closing, client, jump, shown, terms, channel, story, swept, visionVars, filmVars>>

TerminalDialed(t) ==
    /\ pc[t] = "dialing"
    /\ IF Connected /\ ~closing
       THEN link' = [link EXCEPT ![t] = "up"] /\ Go(t, "shell")
       ELSE EndClients({t}) /\ Go(t, "failed")
    /\ UNCHANGED <<window, closing, client, jump, shown, terminalVars>>

TerminalFails(t) ==          \* no handshake, or no channel
    /\ pc[t] \in {"dialing", "shell"}
    /\ EndClients({t}) /\ Go(t, "failed")
    /\ UNCHANGED <<window, closing, client, jump, shown, terminalVars>>

\* As it would be without `export DISPLAY` in a new shell.
RegisterUntold(t) ==
    /\ terms' = terms \cup {t}
    /\ channel' = [channel EXCEPT ![t] = "open"]
    /\ Go(t, "ok")
    /\ UNCHANGED <<link, told, pending>>

Register(t) ==
    /\ terms' = terms \cup {t}
    /\ channel' = [channel EXCEPT ![t] = "open"]
    /\ told' = IF display THEN told \cup {t} ELSE told
    /\ pending' = [x \in Visions |-> IF pc[x] = "telling" THEN pending[x] \cup {t} ELSE pending[x]]
    /\ Go(t, "ok")
    /\ UNCHANGED link

TerminalReady(t) ==
    /\ pc[t] = "shell" /\ link[t] = "up"
    /\ IF Connected /\ ~closing
       THEN Register(t)
       ELSE /\ EndClients({t}) /\ Go(t, "failed")
            /\ channel' = [channel EXCEPT ![t] = "closed"]
            /\ UNCHANGED <<terms, told, pending>>
    /\ UNCHANGED <<window, closing, client, jump, shown, kept, story, swept, display, filmVars>>

-----------------------------------------------------------------------------
(* Output and the end of a terminal.                                        *)
\* As it would be if the buffer were not deleted.
FlushedKept(r) == [r EXCEPT !.out = @ + r.held]

\* flushTerminalOutput.
Flushed(r) == [r EXCEPT !.out = @ + r.held, !.held = 0]

Exited(r) == [Flushed(r) EXCEPT !.exits = @ + 1]

TerminalOutput(t) ==
    /\ channel[t] = "open" /\ story[t].in < MaxChunks
    /\ t \in terms
    /\ story' = [story EXCEPT ![t].in = @ + 1, ![t].held = @ + 1]
    /\ UNCHANGED <<clientVars, terms, channel, kept, swept, visionVars, filmVars>>

FlushTimer(t) ==
    /\ story[t].held > 0
    /\ story' = [story EXCEPT ![t] = Flushed(@)]
    /\ UNCHANGED <<clientVars, terms, channel, kept, swept, visionVars, filmVars>>

\* As it would be without the identity check.
ChannelClosedUnchecked(t) ==
    /\ channel[t] = "open"
    /\ channel' = [channel EXCEPT ![t] = "closed"]
    /\ terms' = terms \ {t}
    /\ story' = [story EXCEPT ![t] = Exited(@)]
    /\ EndClients({t})
    /\ UNCHANGED <<pc, window, closing, client, jump, shown, kept, swept, visionVars, filmVars>>

\* The 'close' of the channel: the shell exited, or its client is lost.
ChannelClosed(t) ==
    /\ channel[t] = "open"
    /\ channel' = [channel EXCEPT ![t] = "closed"]
    /\ IF t \in terms
       THEN /\ terms' = terms \ {t}
            /\ story' = [story EXCEPT ![t] = Exited(@)]
            /\ EndClients({t})
       ELSE UNCHANGED <<terms, story, link>>
    /\ UNCHANGED <<pc, window, closing, client, jump, shown, kept, swept, visionVars, filmVars>>

\* The 'end' of the client, of which its channel hears later.
TerminalClientLost(t) ==
    /\ link[t] = "up"
    /\ link' = [link EXCEPT ![t] = "down"]
    /\ IF t \in terms
       THEN /\ terms' = terms \ {t}
            /\ story' = [story EXCEPT ![t] = Exited(@)]
       ELSE UNCHANGED <<terms, story>>
    /\ UNCHANGED <<pc, window, closing, client, jump, shown, channel, kept, swept, visionVars, filmVars>>

CloseTerminal(x) ==
    LET t == TerminalOf[x] IN
    /\ Called(x) /\ Go(x, "ok")
    /\ terms' = terms \ {t}
    /\ IF t \in terms
       THEN /\ story' = [story EXCEPT ![t] = Exited(@)]
            /\ channel' = [channel EXCEPT ![t] = "closed"]
            /\ EndClients({t})
       ELSE story' = [story EXCEPT ![t] = Flushed(@)] /\ UNCHANGED <<channel, link>>
    /\ UNCHANGED <<window, closing, client, jump, shown, kept, swept, visionVars, filmVars>>

\* Both ways a session ends: destroyTerminalSession of every terminal.
DropTerminals(say) ==
    /\ terms' = {}
    /\ channel' = [t \in Opens |-> IF t \in terms THEN "closed" ELSE channel[t]]
    /\ story' = [t \in Opens |-> IF t \notin terms THEN story[t]
                                 ELSE IF say THEN Exited(story[t])
                                 ELSE [story[t] EXCEPT !.held = 0]]
    /\ swept' = IF say THEN swept ELSE swept \cup terms

-----------------------------------------------------------------------------
(* enableVisionMode and disableVisionMode.                                  *)
EnableVisionMode(x) ==
    /\ Called(x)
    /\ Go(x, IF Connected THEN "display" ELSE "failed")
    /\ UNCHANGED <<window, closing, client, jump, link, shown, terminalVars>>

VirtualDisplay(x) ==         \* ensureVirtualDisplay: up to three commands
    /\ pc[x] = "display"
    /\ \/ /\ Connected
          /\ display' = TRUE /\ pending' = [pending EXCEPT ![x] = terms]
          /\ Go(x, "telling")
       \/ Go(x, "failed") /\ UNCHANGED <<display, pending>>
    /\ UNCHANGED <<window, closing, client, jump, link, shown, told, shellVars, filmVars>>

TellTerminal(x) ==           \* the Map is iterated live
    /\ pc[x] = "telling"
    /\ IF pending[x] = {} THEN Go(x, "ok") /\ UNCHANGED <<told, pending>>
       ELSE \E t \in pending[x] :
              /\ pending' = [pending EXCEPT ![x] = @ \ {t}]
              /\ told' = IF t \in terms THEN told \cup {t} ELSE told
              /\ UNCHANGED pc
    /\ UNCHANGED <<window, closing, client, jump, link, shown, display, shellVars, filmVars>>

DisableVisionMode ==
    /\ window /\ display
    /\ display' = FALSE
    /\ UNCHANGED <<clientVars, told, pending, shellVars, filmVars>>

-----------------------------------------------------------------------------
(* Video streams and their windows.                                         *)
StartVideoStream(v) ==
    /\ Called(v)
    /\ Go(v, IF Connected THEN "encoder" ELSE "failed")
    /\ camera' = [camera EXCEPT ![v] = client]
    /\ UNCHANGED <<window, closing, client, jump, link, shown, shellVars, visionVars, streams, picture, observers>>

ResolveFfmpegBinary(v) ==
    /\ pc[v] = "encoder"
    /\ \/ Connected /\ Go(v, "exec")
       \/ Go(v, "failed")
    /\ UNCHANGED <<window, closing, client, jump, link, shown, terminalVars>>

VideoStarts(v) ==            \* and createVideoObserverWindow, in the same turn
    /\ pc[v] = "exec"
    /\ \/ /\ link[camera[v]] = "up"
          /\ streams' = streams \cup {v} /\ observers' = observers \cup {v}
          /\ picture' = [picture EXCEPT ![v] = "open"]
          /\ Go(v, "ok")
       \/ Go(v, "failed") /\ UNCHANGED <<streams, observers, picture>>
    /\ UNCHANGED <<window, closing, client, jump, link, shown, shellVars, visionVars, camera>>

VideoEnds(v) ==              \* ffmpeg exits, or its client is lost
    /\ picture[v] = "open"
    /\ picture' = [picture EXCEPT ![v] = "closed"]
    /\ streams' = streams \ {v}
    /\ UNCHANGED <<clientVars, shellVars, visionVars, camera, observers>>

DropStreams(S) ==            \* stopVideoStream of each
    /\ streams' = streams \ S
    /\ picture' = [v \in Films |-> IF v \in S \cap streams THEN "closed" ELSE picture[v]]

ObserverClosed(v) ==         \* without an owner, nothing stops the stream
    /\ v \in observers
    /\ observers' = observers \ {v}
    /\ IF window THEN DropStreams({v}) ELSE UNCHANGED <<streams, picture>>
    /\ UNCHANGED <<clientVars, shellVars, visionVars, camera>>

StopVideoStream(x) ==
    /\ Called(x) /\ Go(x, "ok")
    /\ observers' = observers \ {FilmOf[x]}
    /\ IF FilmOf[x] \in observers THEN DropStreams({FilmOf[x]}) ELSE UNCHANGED <<streams, picture>>
    /\ UNCHANGED <<window, closing, client, jump, link, shown, shellVars, visionVars, camera>>

TerminalsNext ==
    \/ \E t \in Opens : \/ OpenTerminal(t) \/ TerminalProbed(t) \/ TerminalDialed(t)
                        \/ TerminalFails(t) \/ TerminalReady(t) \/ TerminalOutput(t)
                        \/ FlushTimer(t) \/ ChannelClosed(t) \/ TerminalClientLost(t)
    \/ \E x \in Hangups : CloseTerminal(x)
    \/ \E x \in Visions : EnableVisionMode(x) \/ VirtualDisplay(x) \/ TellTerminal(x)
    \/ Visions # {} /\ DisableVisionMode
    \/ \E v \in Films : \/ StartVideoStream(v) \/ ResolveFfmpegBinary(v) \/ VideoStarts(v)
                        \/ VideoEnds(v) \/ ObserverClosed(v)
    \/ \E x \in Cuts : StopVideoStream(x)

-----------------------------------------------------------------------------
(* What the panel is told of a terminal ends once and whole: a terminal it  *)
(* was given is open, or its exit was announced exactly once and after all  *)
(* of its output, whichever of channel, client, panel and connection ended  *)
(* it; only a disconnect of the window itself ends it without a word.  And  *)
(* none is open without a session, not one opened while it ended, unless    *)
(* a connect has failed, which closes none after its handshake.             *)
TerminalStory ==
    /\ terms # {} => Connected \/ \E c \in Connects : pc[c] = "failed"
    /\ \A t \in Opens :
        /\ story[t].exits <= 1
        /\ story[t].exits = 1 => story[t].held = 0 /\ story[t].out = story[t].in
        /\ pc[t] = "ok" /\ t \notin terms => story[t].exits = 1 \/ t \in swept

(* Vision mode reaches every shell: when no enableVisionMode is on its way  *)
(* and a display is set, every terminal that is no multiplexer's has it,    *)
(* those opened while the loop was waiting for another included.            *)
VisionReachesTerminals ==
    display /\ (\A x \in Visions : pc[x] # "telling") => terms \ kept \subseteq told

TerminalsTypeOK ==
    /\ terms \subseteq Opens /\ kept \subseteq Persistent /\ swept \subseteq Opens /\ told \subseteq Opens
    /\ channel \in [Opens -> {"none", "open", "closed"}]
    /\ story \in [Opens -> [in : 0..MaxChunks, held : 0..MaxChunks, out : 0..MaxChunks, exits : Nat]]
    /\ display \in BOOLEAN /\ pending \in [Visions -> SUBSET Opens]
    /\ streams \subseteq Films /\ observers \subseteq Films
    /\ picture \in [Films -> {"none", "open", "closed"}]
    /\ camera \in [Films -> Connects \cup {None}]
=============================================================================
