--------------------------- MODULE SessionServers ---------------------------
(***************************************************************************)
(* The language servers of a session: RemoteLanguageServerManager of       *)
(* language-server-manager.ts, one server process per start that finds no  *)
(* other, on an exec channel of the interactive client.  All starts are of *)
(* one workspace and language.  Documents and features pass through, when  *)
(* the session is there, and are left to the renderer's model.             *)
(***************************************************************************)
EXTENDS SessionClients

CONSTANT ServeOf     \* the start whose session each Halt stops

ASSUME ServersAssumption == ServeOf \in [Halts -> Serves]

VARIABLES
    servers,   \* the keys of the manager's sessions, none of them closing
    process,   \* each server's channel: "none", "open" or "closed"
    via,       \* the client it runs on
    quitting,  \* stopSession past its first line: "no", "silent" or "told"
    given,     \* the session a start returned
    lstate     \* the state last emitted of each session

serverVars == <<servers, process, via, quitting, given, lstate>>

ServersInit ==
    /\ servers = {}
    /\ process = [s \in Serves |-> "none"]
    /\ via = [s \in Serves |-> None] /\ given = [s \in Serves |-> None]
    /\ quitting = [s \in Serves |-> "no"]
    /\ lstate = [s \in Serves |-> "none"]

Tell(s, state) == lstate' = [lstate EXCEPT ![s] = state]

\* stopSession up to its await, of every session in S.
Quit(S, how) ==
    /\ servers' = servers \ S
    /\ quitting' = [s \in Serves |-> IF s \in S \cap servers THEN how ELSE quitting[s]]

StartLanguageServer(s) ==
    /\ Called(s)
    /\ IF ~Connected THEN Go(s, "failed") /\ UNCHANGED <<via, given, lstate>>
       ELSE IF servers # {}
       THEN \E other \in servers : given' = [given EXCEPT ![s] = other] /\ Go(s, "ok") /\ UNCHANGED <<via, lstate>>
       ELSE /\ via' = [via EXCEPT ![s] = client]
            /\ Tell(s, "starting") /\ Go(s, "exec")
            /\ UNCHANGED given
    /\ UNCHANGED <<window, closing, client, jump, link, shown, servers, process, quitting>>

ServerSpawned(s) ==
    /\ pc[s] = "exec"
    /\ \/ /\ link[via[s]] = "up"
          /\ servers' = servers \cup {s}
          /\ process' = [process EXCEPT ![s] = "open"]
          /\ Go(s, "initialize") /\ UNCHANGED lstate
       \/ Tell(s, "error") /\ Go(s, "failed") /\ UNCHANGED <<servers, process>>
    /\ UNCHANGED <<window, closing, client, jump, link, shown, via, quitting, given>>

Initialized(s) ==
    /\ pc[s] = "initialize" /\ process[s] = "open" /\ s \in servers
    /\ Tell(s, "ready") /\ given' = [given EXCEPT ![s] = s]
    /\ Go(s, "ok")
    /\ UNCHANGED <<window, closing, client, jump, link, shown, servers, process, via, quitting>>

\* The server refuses, or the connection was disposed under the request.
InitializeFails(s) ==
    /\ pc[s] = "initialize"
    /\ IF s \in servers
       THEN Quit({s}, "silent") /\ Go(s, "quitting") /\ UNCHANGED lstate
       ELSE process[s] = "closed" /\ Tell(s, "error") /\ Go(s, "failed") /\ UNCHANGED <<servers, quitting>>
    /\ UNCHANGED <<window, closing, client, jump, link, shown, process, via, given>>

StartGivenUp(s) ==
    /\ pc[s] = "quitting" /\ quitting[s] = "no"
    /\ Tell(s, "error") /\ Go(s, "failed")
    /\ UNCHANGED <<window, closing, client, jump, link, shown, servers, process, via, quitting, given>>

\* The answer to shutdown, or 1.5 seconds.
QuitDone(s) ==
    /\ quitting[s] # "no"
    /\ process' = [process EXCEPT ![s] = "closed"]
    /\ quitting' = [quitting EXCEPT ![s] = "no"]
    /\ lstate' = IF quitting[s] = "told" THEN [lstate EXCEPT ![s] = "stopped"] ELSE lstate
    /\ UNCHANGED <<clientVars, servers, via, given>>

StopLanguageServer(x) ==
    LET s == given[ServeOf[x]] IN
    /\ Called(x) /\ s # None
    /\ IF s \in servers
       THEN Quit({s}, "told") /\ Go(x, "quitting")
       ELSE Go(x, "ok") /\ UNCHANGED <<servers, quitting>>
    /\ UNCHANGED <<window, closing, client, jump, link, shown, process, via, given, lstate>>

ServerStopped(x) ==
    /\ pc[x] = "quitting" /\ quitting[given[ServeOf[x]]] = "no"
    /\ Go(x, "ok")
    /\ UNCHANGED <<window, closing, client, jump, link, shown, serverVars>>

\* emitUnexpectedStop: the process died, or its client is lost.
ServerLost(s) ==
    /\ process[s] = "open"
    /\ process' = [process EXCEPT ![s] = "closed"]
    /\ servers' = servers \ {s}
    /\ IF s \in servers THEN Tell(s, "error") ELSE UNCHANGED lstate
    /\ UNCHANGED <<clientVars, via, quitting, given>>

ServersNext ==
    \/ \E s \in Serves : \/ StartLanguageServer(s) \/ ServerSpawned(s) \/ Initialized(s)
                         \/ InitializeFails(s) \/ StartGivenUp(s) \/ QuitDone(s) \/ ServerLost(s)
    \/ \E x \in Halts : StopLanguageServer(x) \/ ServerStopped(x)

ServersTypeOK ==
    /\ servers \subseteq Serves
    /\ process \in [Serves -> {"none", "open", "closed"}]
    /\ via \in [Serves -> Connects \cup {None}]
    /\ quitting \in [Serves -> {"no", "silent", "told"}]
    /\ given \in [Serves -> Serves \cup {None}]
    /\ lstate \in [Serves -> {"none", "starting", "ready", "stopped", "error"}]
=============================================================================
