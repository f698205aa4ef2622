---------------------------- MODULE DocumentSync ----------------------------
(***************************************************************************)
(* The documents of the remote language server (use-remote-language-       *)
(* server.ts): one session per connection while some tab needs it, and the *)
(* editor models of its tabs opened, changed and closed on it, one call at *)
(* a time.  All paths are of the one language.  A save is not told to the  *)
(* server here: it changes no document.                                    *)
(*                                                                         *)
(* The start, or stop, of a session happens in the order the window asked; *)
(* SessionServers has what they do meanwhile.  A session is named by the   *)
(* start that made it.                                                     *)
(***************************************************************************)
EXTENDS EditorTabs

ASSUME DocsAssumption == None \notin [id : Nat, conn : Nat]

VARIABLES
    models,    \* the editor's models by tab id; 0 is no model
    session,   \* activeSessionRef: None, or its id and connection
    starts,    \* each startLanguageServer: connection, how far, session given
    wanted,    \* the start whose effect was not cleaned up; 0 is none
    calls,     \* starts (positive) and stops (negative) not yet at the manager
    alive,     \* sessions of RemoteLanguageServerManager
    docs,      \* what each session's server has for a path; 0 is not open
    attached,  \* the keys of openDocumentsRef
    dq         \* documentQueueRef: path, what to do, its session and contents

docVars == <<models, session, starts, wanted, calls, alive, docs, attached, dq>>

\* A document opened with an edit that is also queued behind the opening, and
\* one whose change does not follow on what the server has.
Ahead == -1
Garbled == -2

DocsInit ==
    /\ models = [id \in (1..MaxLinks) \X Paths |-> 0]
    /\ session = None
    /\ starts = <<>> /\ wanted = 0 /\ calls = <<>>
    /\ alive = {} /\ docs = <<>>
    /\ attached = {} /\ dq = <<>>

Doc(op, p, from, num) ==
    [op |-> op, path |-> p, on |-> session.id, conn |-> session.conn, from |-> from, num |-> num]

\* attachModel, for the models of ms that tabs ts need.
Attachable(ms, ts, s) ==
    {p \in Paths \ attached : ms[<<s.conn, p>>] # 0 /\ <<s.conn, p>> \in Ids(ts)}

Opens(ms, ts) ==
    LET ps == SetToSeq(Attachable(ms, ts, session)) IN
    [n \in DOMAIN ps |-> Doc("open", ps[n], 0, ms[<<session.conn, ps[n]>>])]

\* detachDocument, as it would be if it did not tell the server.
ClosesUntold(ps) == <<>>

\* detachDocument.
Closes(ps) == LET seq == SetToSeq(ps) IN [n \in DOMAIN seq |-> Doc("close", seq[n], 0, 0)]

-----------------------------------------------------------------------------
(* What a render does.  desiredSessionKey holds one connection and path.    *)
Key(ts, cur, st) ==
    IF st.state = "connected" /\ cur # 0 /\ (\E t \in ToSet(ts) : t.conn = cur) THEN cur ELSE 0

\* The session effect, when the key changed: the old session is dropped and
\* stopped, its documents forgotten, a start on its way cancelled.
Restart(key) ==
    LET stop == IF session = None THEN <<>> ELSE <<-session.id>>
        n == Len(starts) + 1 IN
    /\ session' = None /\ attached' = {}
    /\ wanted' = IF key = 0 THEN 0 ELSE n
    /\ starts' = IF key = 0 THEN starts ELSE Append(starts, [conn |-> key, at |-> "asked", got |-> 0])
    /\ calls' = calls \o stop \o IF key = 0 THEN <<>> ELSE <<n>>
    /\ UNCHANGED <<models, alive, docs, dq>>

\* The tabs effect.
Follow(ts) ==
    IF session = None THEN UNCHANGED docVars
    ELSE LET gone == {p \in attached : <<session.conn, p>> \notin Ids(ts)} IN
         /\ attached' = (attached \cup Attachable(models, ts, session)) \ gone
         /\ dq' = dq \o Opens(models, ts) \o Closes(gone)
         /\ UNCHANGED <<models, session, starts, wanted, calls, alive, docs>>

DocsRendered ==
    LET key == Key(tabs', current', status') IN
    IF key # Key(tabs, current, status) THEN Restart(key) ELSE Follow(tabs')

\* The editor gives the model of id a content: it is made, and attached, or
\* its change is told if it is attached.
ModelBecomes(id, text) ==
    LET p == id[2]
        ours == session # None /\ session.conn = id[1] IN
    /\ models' = [models EXCEPT ![id] = text]
    /\ IF ours /\ p \in attached
       THEN dq' = Append(dq, Doc("change", p, models[id], text)) /\ UNCHANGED attached
       ELSE IF ours /\ models[id] = 0 /\ id \in Ids(tabs)
       THEN dq' = Append(dq, Doc("open", p, 0, text)) /\ attached' = attached \cup {p}
       ELSE UNCHANGED <<dq, attached>>
    /\ UNCHANGED <<session, starts, wanted, calls, alive, docs>>

Shown(i) == i \in DOMAIN tabs /\ models[Id(tabs[i])] = tabs[i].text

\* Tab i is selected: RemoteEditor gives its model the tab's content.
Select(i) ==
    /\ Spend("show") /\ i \in DOMAIN tabs /\ ~Shown(i)
    /\ ModelBecomes(Id(tabs[i]), tabs[i].text)

\* The editor goes, as no text tab is active, and disposes its model.
Dispose(id) ==
    /\ Spend("show") /\ models[id] # 0
    /\ models' = [models EXCEPT ![id] = 0]
    /\ IF session # None /\ session.conn = id[1] /\ id[2] \in attached
       THEN attached' = attached \ {id[2]} /\ dq' = dq \o Closes({id[2]})
       ELSE UNCHANGED <<attached, dq>>
    /\ UNCHANGED <<session, starts, wanted, calls, alive, docs>>

\* A start is answered: its session becomes the active one and all models are
\* attached, or it is stopped because the effect was cleaned up meanwhile.
StartAnswered(n) ==
    /\ n \in DOMAIN starts /\ starts[n].at = "given"
    /\ starts' = [starts EXCEPT ![n].at = "over"]
    /\ IF n = wanted
       THEN LET s == [id |-> starts[n].got, conn |-> starts[n].conn]
                ps == SetToSeq({p \in Paths : models[<<s.conn, p>>] # 0 /\ <<s.conn, p>> \in Ids(tabs)}) IN
            /\ session' = s
            /\ attached' = ToSet(ps)
            /\ dq' = dq \o [k \in DOMAIN ps |-> [op |-> "open", path |-> ps[k], on |-> s.id, conn |-> s.conn,
                                                 from |-> 0, num |-> models[<<s.conn, ps[k]>>]]]
            /\ UNCHANGED calls
       ELSE calls' = Append(calls, -starts[n].got) /\ UNCHANGED <<session, attached, dq>>
    /\ UNCHANGED <<models, wanted, alive, docs>>

-----------------------------------------------------------------------------
(* The main process.                                                        *)
StartServed ==
    /\ calls # <<>> /\ Head(calls) > 0
    /\ LET n == Head(calls) IN
       \/ /\ up # 0
          /\ \E s \in IF alive = {} THEN {n} ELSE alive :
                /\ alive' = alive \cup {s}
                /\ starts' = [starts EXCEPT ![n].at = "given", ![n].got = s]
       \/ /\ alive = {}
          /\ starts' = [starts EXCEPT ![n].at = "over"] /\ UNCHANGED alive
    /\ docs' = Append(docs, [p \in Paths |-> 0])
    /\ calls' = Tail(calls)
    /\ UNCHANGED <<models, session, wanted, attached, dq>>

StopServed ==
    /\ calls # <<>> /\ Head(calls) < 0
    /\ alive' = alive \ {-Head(calls)}
    /\ calls' = Tail(calls)
    /\ UNCHANGED <<models, session, starts, wanted, docs, attached, dq>>

ServerDies(s) ==
    /\ Spend("crash") /\ s \in alive
    /\ alive' = alive \ {s}
    /\ UNCHANGED <<models, session, starts, wanted, calls, docs, attached, dq>>

\* The next document operation runs and is answered.  An opening reads the
\* model only now, and fails if that was disposed.
DocServed ==
    /\ dq # <<>> /\ dq' = Tail(dq)
    /\ LET d == Head(dq)
           now == models[<<d.conn, d.path>>]
           has == docs[d.on][d.path]
           Now(text) == docs' = [docs EXCEPT ![d.on][d.path] = text] IN
       IF d.on \notin alive THEN UNCHANGED docs
       ELSE CASE d.op = "open" -> IF now = 0 THEN UNCHANGED docs ELSE Now(IF now = d.num THEN now ELSE Ahead)
              [] d.op = "change" -> IF has \in {0, Ahead} THEN UNCHANGED docs
                                    ELSE Now(IF has = d.from THEN d.num ELSE Garbled)
              [] OTHER -> Now(0)
    /\ UNCHANGED <<models, session, starts, wanted, calls, alive, attached>>

\* A disconnect, or the loss of the client, ends every session.
ServersEnd == alive' = {} /\ UNCHANGED <<models, session, starts, wanted, calls, docs, attached, dq>>

DocsTypeOK ==
    /\ models \in [(1..MaxLinks) \X Paths -> 0..edits]
    /\ session = None \/ (session.id \in DOMAIN starts /\ session.conn \in 1..made)
    /\ wanted \in 0..Len(starts)
    /\ alive \subseteq DOMAIN starts /\ attached \subseteq Paths
    /\ \A s \in DOMAIN docs : docs[s] \in [Paths -> Ahead..edits]

(* Once its queue is empty the active language server has open exactly the  *)
(* documents the window attached, each with its model's content, through    *)
(* closings, reopenings, renames, disposed editors, restarts and cancelled  *)
(* starts.  (Except one opened Ahead: edited between its attaching and its  *)
(* turn in the queue.)                                                      *)
EditsReachServer ==
    dq = <<>> /\ session # None /\ session.id \in alive =>
        \A p \in Paths :
            LET has == docs[session.id][p] IN
            IF p \in attached THEN has \in {Ahead, models[<<session.conn, p>>]} ELSE has = 0
=============================================================================
