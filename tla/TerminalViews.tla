---------------------------- MODULE TerminalViews ----------------------------
(***************************************************************************)
(* The terminal panel of a window (TerminalPanel.tsx): its list of         *)
(* terminals, the panes that show one or several of them, the log each new *)
(* pane replays.  A chunk of output is its number, an exit is 0 in a log.  *)
(* A terminal is the number of its creation by the main process; what its  *)
(* session does there is in SessionTerminals.                              *)
(***************************************************************************)
EXTENDS WindowLink

CONSTANTS
    MaxTerminals,   \* bound: terminals created
    MaxReplay       \* MAX_REPLAY_EVENTS_PER_TERMINAL

ASSUME ViewsAssumption == MaxTerminals \in Nat /\ MaxReplay \in Nat \ {0}

VARIABLES
    running,   \* terminals of the session manager
    created,   \* history: the connection each terminal so far was created on
    printed,   \* history: chunks each terminal has sent
    list,      \* terminals
    visible,   \* visibleTerminalIds
    log,       \* replayLogRef
    last,      \* history: last chunk of each the panel took
    view,      \* mounted panes: what is on the screen, what waits for a frame
    ignored    \* ignoredTerminalIdsRef

viewVars == <<running, created, printed, list, visible, log, last, view, ignored>>
panelVars == <<list, visible, log, last, view, ignored>>

Terminals == 1..MaxTerminals
Unmounted == [on |-> FALSE, shown |-> <<>>, waiting |-> <<>>]

ViewsInit ==
    /\ running = {} /\ created = <<>>
    /\ printed = [n \in Terminals |-> 0]
    /\ list = <<>> /\ visible = <<>>
    /\ log = [n \in Terminals |-> <<>>]
    /\ last = [n \in Terminals |-> 0]
    /\ view = [n \in Terminals |-> Unmounted]
    /\ ignored = {}

\* registerSink, as it would be without the replay of the log.
MountedBlank(events) == [on |-> TRUE, shown |-> <<>>, waiting |-> <<>>]

\* registerSink: the log is replayed into the output that waits for a frame.
Mounted(events) == [on |-> TRUE, shown |-> <<>>, waiting |-> Picked(events, {k \in DOMAIN events : events[k] # 0})]

\* One pane has another place in the tree than several: going from one to
\* the other unmounts and mounts them all.
Panes(next, logs) ==
    view' = [n \in Terminals |->
                IF n \notin ToSet(next) THEN Unmounted
                ELSE IF view[n].on /\ (Len(next) = 1) = (Len(visible) = 1) THEN view[n]
                ELSE Mounted(logs[n])]

Exit(n) == [Note("exit") EXCEPT !.of = n]

AllBut(s, n) == Picked(s, {k \in DOMAIN s : s[k] # n})

-----------------------------------------------------------------------------
(* Gestures.  A quick command opens a terminal whatever else is under way.  *)
OpenTerminal(mode) ==
    /\ Spend("shell") /\ status.state = "connected" /\ status.conn # 0
    /\ Ask([Note("terminal") EXCEPT !.to = mode, !.conn = status.conn])
    /\ UNCHANGED <<inbox, mainVars, appVars, viewVars>>

\* removeTerminalFromState, then api.closeTerminal.
CloseTerminal(n) ==
    /\ Spend("hang") /\ n \in ToSet(list)
    /\ LET others == AllBut(list, n)
           left == AllBut(visible, n)
           next == IF left # <<>> \/ others = <<>> THEN left ELSE <<Last(others)>> IN
       /\ list' = others /\ visible' = next
       /\ log' = [log EXCEPT ![n] = <<>>] /\ last' = [last EXCEPT ![n] = 0]
       /\ Panes(next, log)
    /\ ignored' = ignored \cup {n}
    /\ Ask([Note("hang") EXCEPT !.of = n])
    /\ UNCHANGED <<inbox, mainVars, appVars, running, created, printed>>

RevealTerminal(n) ==
    /\ Spend("reveal") /\ n \in ToSet(list) \ ToSet(visible)
    /\ visible' = <<n>> /\ Panes(<<n>>, log)
    /\ UNCHANGED <<asks, inbox, mainVars, appVars, running, created, printed, list, log, last, ignored>>

-----------------------------------------------------------------------------
(* The main process.                                                        *)
CreateTerminal(i) ==
    /\ Asked(i, "terminal")
    /\ \/ /\ up # 0 /\ Len(created) < MaxTerminals
          /\ created' = Append(created, up) /\ running' = running \cup {Len(created) + 1}
          /\ Settle(i, <<[asks[i] EXCEPT !.of = Len(created) + 1]>>)
       \/ Answer(i, FALSE) /\ UNCHANGED <<created, running>>
    /\ UNCHANGED <<budget, mainVars, appVars, printed, panelVars>>

Output(n) ==
    /\ Spend("print") /\ n \in running
    /\ printed' = [printed EXCEPT ![n] = @ + 1]
    /\ inbox' = Append(inbox, [Note("data") EXCEPT !.of = n, !.num = printed[n] + 1])
    /\ UNCHANGED <<asks, mainVars, appVars, running, created, panelVars>>

TerminalExits(n) ==
    /\ Spend("exit") /\ n \in running
    /\ running' = running \ {n}
    /\ inbox' = Append(inbox, Exit(n))
    /\ UNCHANGED <<asks, mainVars, appVars, created, printed, panelVars>>

HangUp(i) ==
    /\ Asked(i, "hang")
    /\ running' = running \ {asks[i].of}
    /\ Settle(i, IF asks[i].of \in running THEN <<Exit(asks[i].of), asks[i]>> ELSE <<asks[i]>>)
    /\ UNCHANGED <<budget, mainVars, appVars, created, printed, panelVars>>

\* A disconnect destroys the terminals without a word.
TerminalsEnd == running' = {} /\ UNCHANGED <<created, printed, panelVars>>

ExitsOf(S) == LET seq == SetToSeq(S) IN [k \in DOMAIN seq |-> Exit(seq[k])]

-----------------------------------------------------------------------------
(* The window.  A terminal asked for over an earlier connection is closed;  *)
(* connectionIdRef follows the connectionId of the state, whatever that is. *)
Keeps(m) == status.conn = m.conn

OnTerminal ==
    /\ Heard("terminal")
    /\ LET m == Head(inbox) IN
       IF ~m.ok THEN UNCHANGED <<asks, panelVars>>
       ELSE IF ~Keeps(m)
       THEN /\ ignored' = ignored \cup {m.of}
            /\ Ask([Note("hang") EXCEPT !.of = m.of])
            /\ UNCHANGED <<list, visible, log, last, view>>
       ELSE LET next == IF m.to = "split" THEN Append(visible, m.of) ELSE <<m.of>> IN
            /\ list' = Append(list, m.of) /\ visible' = next
            /\ Panes(next, log)
            /\ UNCHANGED <<asks, log, last, ignored>>
    /\ UNCHANGED <<budget, mainVars, appVars, running, created, printed>>

OnHungUp ==
    /\ Heard("hang")
    /\ UNCHANGED <<budget, asks, mainVars, appVars, viewVars>>

\* appendReplayEvent.
Logged(events, e) ==
    LET all == Append(events, e) IN
    IF Len(all) > MaxReplay THEN SubSeq(all, Len(all) - MaxReplay + 1, Len(all)) ELSE all

OnTerminalEvent ==
    /\ Heard("data") \/ Heard("exit")
    /\ LET m == Head(inbox)
           n == m.of IN
       IF n \in ignored THEN UNCHANGED <<log, last, view>>
       ELSE /\ log' = [log EXCEPT ![n] = Logged(@, m.num)]
            /\ last' = [last EXCEPT ![n] = IF m.kind = "data" THEN m.num ELSE @]
            /\ view' = IF m.kind = "data" /\ view[n].on THEN [view EXCEPT ![n].waiting = Append(@, m.num)] ELSE view
    /\ UNCHANGED <<budget, asks, mainVars, appVars, running, created, printed, list, visible, ignored>>

\* The animation frame writes what waits.
Frame(n) ==
    /\ view[n].waiting # <<>>
    /\ view' = [view EXCEPT ![n] = [on |-> TRUE, shown |-> @.shown \o @.waiting, waiting |-> <<>>]]
    /\ UNCHANGED <<linkVars, running, created, printed, list, visible, log, last, ignored>>

\* The effect on connectionStatus empties the panel for every other state and
\* connectionId: those of a connection start it anew, the rest leave none.
PanelRendered ==
    /\ IF status' = status THEN UNCHANGED panelVars
       ELSE /\ list' = <<>> /\ visible' = <<>> /\ ignored' = {}
            /\ log' = [n \in Terminals |-> <<>>] /\ last' = [n \in Terminals |-> 0]
            /\ view' = [n \in Terminals |-> Unmounted]
    /\ UNCHANGED <<running, created, printed>>

ViewsTypeOK ==
    /\ running \subseteq DOMAIN created /\ Len(created) <= MaxTerminals
    /\ ToSet(list) \subseteq DOMAIN created /\ ToSet(visible) \subseteq ToSet(list)
    /\ ignored \subseteq DOMAIN created
    /\ \A n \in Terminals : Len(log[n]) <= MaxReplay

(* A pane holds its terminal's output without a gap, a repetition or a      *)
(* change of order, up to the last chunk that came and from as far back as  *)
(* the replay log goes, however panes were split, hidden and shown again;   *)
(* and when nothing is on its way every shell that runs on this connection  *)
(* is in the list, whatever reconnects and late states its opening raced.   *)
(* (Not once the client of the connection reported an error: that empties   *)
(* the list while the shells run on, and nothing fills it again.)           *)
TerminalsShown ==
    /\ \A n \in Terminals :
          LET has == view[n].shown \o view[n].waiting IN
          view[n].on =>
              /\ \A k \in DOMAIN has : has[k] = last[n] - Len(has) + k
              /\ Len(has) >= IF last[n] < MaxReplay THEN last[n] ELSE MaxReplay - 1
    /\ inbox = <<>> /\ asks = <<>> /\ erred # up => {n \in running : created[n] = up} \subseteq ToSet(list)
==============================================================================
