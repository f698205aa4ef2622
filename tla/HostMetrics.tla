----------------------------- MODULE HostMetrics -----------------------------
(***************************************************************************)
(* The host metrics poller of server/internal/hostmetrics, one per         *)
(* connection.                                                             *)
(*                                                                         *)
(* A loop of polls is a chain: a goroutine runs Collect, delivers what it  *)
(* got, and arms a timer whose callback is the next goroutine.  Start and  *)
(* Stop are called by the application at any moment.  What keeps chains    *)
(* apart is the generation a goroutine was started with.                   *)
(*                                                                         *)
(* A Poll is one goroutine or one armed timer.  Its steps are the critical *)
(* sections of p.mu and the two calls out of the package between them.     *)
(* The interval only says how long a timer runs; timers fire at any time.  *)
(* What Collect parses and the callbacks show is data this leaves out.     *)
(***************************************************************************)
EXTENDS Integers, FiniteSets

CONSTANTS
    Polls,          \* bound: goroutines and timers alive at one time
    Workspaces,
    MaxGeneration,  \* bound on generation
    None

ASSUME PollAssumption == None \notin Polls \cup Workspaces /\ MaxGeneration \in Nat

VARIABLES
    running, generation, workspacePath,
    timer,      \* p.timer: the poll it was armed for
    pc,         \* where each poll is
    gen,        \* the generation it was started with
    collecting  \* the workspace its Collect was asked about

vars == <<running, generation, workspacePath, timer, pc, gen, collecting>>

Init ==
    /\ running = FALSE /\ generation = 0 /\ workspacePath = None
    /\ timer = None
    /\ pc = [p \in Polls |-> "off"]
    /\ gen = [p \in Polls |-> 0]
    /\ collecting = [p \in Polls |-> None]

-----------------------------------------------------------------------------
\* Mutant: a poll in flight cannot tell that its loop was stopped.
NextGenerationNot == generation

NextGeneration == generation + 1

\* A running loop is only told its new workspace (and interval).
Start(w) ==
    /\ workspacePath' = w
    /\ running' = TRUE
    /\ IF running
       THEN UNCHANGED <<generation, pc, gen>>
       ELSE /\ generation < MaxGeneration
            /\ generation' = NextGeneration
            /\ \E p \in Polls :
                 /\ pc[p] = "off"
                 /\ pc' = [pc EXCEPT ![p] = "begin"]
                 /\ gen' = [gen EXCEPT ![p] = generation']
    /\ UNCHANGED <<timer, collecting>>

\* Mutant: Stop leaves the timer to its callback.
DisarmsNothing(p) == FALSE

Disarms(p) == p = timer /\ pc[p] = "armed"

\* A timer that has already fired is past stopping.
Stop ==
    /\ generation < MaxGeneration
    /\ running' = FALSE
    /\ generation' = NextGeneration
    /\ timer' = None
    /\ pc' = [p \in Polls |-> IF Disarms(p) THEN "off" ELSE pc[p]]
    /\ UNCHANGED <<workspacePath, gen, collecting>>

-----------------------------------------------------------------------------
(* poll.                                                                   *)

Current(p) == running /\ gen[p] = generation

Begin(p) ==
    /\ pc[p] = "begin"
    /\ IF Current(p)
       THEN /\ pc' = [pc EXCEPT ![p] = "collect"]
            /\ collecting' = [collecting EXCEPT ![p] = workspacePath]
       ELSE pc' = [pc EXCEPT ![p] = "off"] /\ UNCHANGED collecting
    /\ UNCHANGED <<running, generation, workspacePath, timer, gen>>

\* exec returned, with an output or an error, and stillCurrent is computed.
Collected(p) ==
    /\ pc[p] = "collect"
    /\ pc' = [pc EXCEPT ![p] = IF Current(p) THEN "deliver" ELSE "arm"]
    /\ collecting' = [collecting EXCEPT ![p] = None]
    /\ UNCHANGED <<running, generation, workspacePath, timer, gen>>

\* onSnapshot, or onError.
Deliver(p) ==
    /\ pc[p] = "deliver"
    /\ pc' = [pc EXCEPT ![p] = "arm"]
    /\ UNCHANGED <<running, generation, workspacePath, timer, gen, collecting>>

\* Mutant: the loop ends here.
ArmNot(p) ==
    /\ pc[p] = "arm"
    /\ pc' = [pc EXCEPT ![p] = "off"]
    /\ UNCHANGED <<running, generation, workspacePath, timer, gen, collecting>>

Arm(p) ==
    /\ pc[p] = "arm"
    /\ IF Current(p)
       THEN pc' = [pc EXCEPT ![p] = "armed"] /\ timer' = p
       ELSE pc' = [pc EXCEPT ![p] = "off"] /\ UNCHANGED timer
    /\ UNCHANGED <<running, generation, workspacePath, gen, collecting>>

\* The timer's goroutine starts; p.timer still points to the timer.
Fire(p) ==
    /\ pc[p] = "armed"
    /\ pc' = [pc EXCEPT ![p] = "begin"]
    /\ UNCHANGED <<running, generation, workspacePath, timer, gen, collecting>>

Poll(p) == Begin(p) \/ Collected(p) \/ Deliver(p) \/ Arm(p) \/ Fire(p)

Next ==
    \/ \E w \in Workspaces : Start(w)
    \/ Stop
    \/ \E p \in Polls : Poll(p)

Spec == Init /\ [][Next]_vars

\* Goroutines run, timers fire, and exec ends one way or the other.
FairSpec == Spec /\ \A p \in Polls : WF_vars(Poll(p))

-----------------------------------------------------------------------------
TypeOK ==
    /\ running \in BOOLEAN /\ generation \in Nat
    /\ workspacePath \in Workspaces \cup {None}
    /\ timer \in Polls \cup {None}
    /\ pc \in [Polls -> {"off", "begin", "collect", "deliver", "arm", "armed"}]
    /\ gen \in [Polls -> Nat]
    /\ collecting \in [Polls -> Workspaces \cup {None}]

OfGeneration(g) == {p \in Polls : pc[p] # "off" /\ gen[p] = g}

\* However Start, Stop and the polls interleave, a running poller has one loop, no
\* second and no lost one, and a stopped poller none of its generation.
OneLoop ==
    /\ running => \E p \in Polls : OfGeneration(generation) = {p}
    /\ ~running => OfGeneration(generation) = {}

\* The only armed timer is the one Stop would disarm: a stopped poller has none.
TimerDisarmable == \A p \in Polls : pc[p] = "armed" => Current(p) /\ timer = p

\* What OneLoop rests on: no poll is of a generation yet to come.
NoFutureGeneration == \A p \in Polls : pc[p] # "off" => gen[p] =< generation

\* A poller that is left running keeps delivering.
KeepsDelivering ==
    <>[]running => []<>(\E p \in Polls : pc[p] = "deliver" /\ Current(p))

-----------------------------------------------------------------------------
\* The doc of Poller: a slow or stalled host "never gets overlapping exec channels
\* queued against it".
NoOverlap == Cardinality({p \in Polls : pc[p] = "collect"}) =< 1
===============================================================================
