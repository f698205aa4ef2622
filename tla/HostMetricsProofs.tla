-------------------------- MODULE HostMetricsProofs --------------------------
(***************************************************************************)
(* Proofs about the poller, for any number of polls left behind and of     *)
(* restarts: one loop, and no timer that Stop would not disarm.            *)
(***************************************************************************)
EXTENDS HostMetrics, TLAPS

PollInvariant == TypeOK /\ NoFutureGeneration /\ OneLoop /\ TimerDisarmable

\* Every step keeps the invariant: a new loop gets a generation no poll has, and a
\* poll that goes on is the one of its generation.
LEMMA PollInvariantStep ==
    ASSUME PollInvariant, [Next]_vars
    PROVE  PollInvariant'
<1> USE DEF PollInvariant, TypeOK, NoFutureGeneration, OneLoop, TimerDisarmable, OfGeneration, Current
<1>1. ASSUME NEW w \in Workspaces, Start(w) PROVE PollInvariant'
  <2>1. CASE running
    BY <1>1, <2>1 DEF Start, NextGeneration
  <2>2. CASE ~running
    <3>1. PICK p \in Polls : /\ pc[p] = "off"
                             /\ pc' = [pc EXCEPT ![p] = "begin"]
                             /\ gen' = [gen EXCEPT ![p] = generation + 1]
      BY <1>1, <2>2 DEF Start, NextGeneration
    <3>2. OfGeneration(generation)' = {p}
      BY <1>1, <2>2, <3>1 DEF Start, NextGeneration
    <3> QED
      BY <1>1, <2>2, <3>1, <3>2 DEF Start, NextGeneration
  <2> QED
    BY <2>1, <2>2
<1>2. CASE Stop
  <2>1. TypeOK'
    <3>1. \A p \in Polls : pc'[p] \in {"off", "begin", "collect", "deliver", "arm", "armed"}
      BY <1>2 DEF Stop, Disarms, NextGeneration
    <3>2. pc' = [p \in Polls |-> pc'[p]]
      BY <1>2 DEF Stop, Disarms, NextGeneration
    <3>3. generation' \in Nat
      BY <1>2 DEF Stop, Disarms, NextGeneration
    <3> QED
      BY <1>2, <3>1, <3>2, <3>3 DEF Stop, Disarms, NextGeneration
  <2>0. NoFutureGeneration'
    BY <1>2 DEF Stop, Disarms, NextGeneration
  <2>2. OneLoop'
    BY <1>2 DEF Stop, Disarms, NextGeneration
  <2>3. TimerDisarmable'
    BY <1>2 DEF Stop, Disarms, NextGeneration
  <2> QED
    BY <2>0, <2>1, <2>2, <2>3
<1>3. ASSUME NEW p \in Polls, Poll(p) PROVE PollInvariant'
  <2>1. CASE Begin(p)
    BY <1>3, <2>1, PollAssumption DEF Begin
  <2>2. CASE Collected(p)
    BY <1>3, <2>2, PollAssumption DEF Collected
  <2>3. CASE Deliver(p)
    BY <1>3, <2>3, PollAssumption DEF Deliver
  <2>4. CASE Arm(p)
    BY <1>3, <2>4, PollAssumption DEF Arm
  <2>5. CASE Fire(p)
    BY <1>3, <2>5, PollAssumption DEF Fire
  <2> QED
    BY <1>3, <2>1, <2>2, <2>3, <2>4, <2>5 DEF Poll
<1>4. CASE UNCHANGED vars
  BY <1>4 DEF vars
<1> QED
  BY <1>1, <1>2, <1>3, <1>4 DEF Next

-----------------------------------------------------------------------------
\* The inductive invariant: no poll is of a generation yet to come, a running poller
\* has one poll of its own generation, and only that one is ever armed.
THEOREM PollInvariantHolds == Spec => []PollInvariant
<1>1. Init => PollInvariant
  <2> SUFFICES ASSUME Init PROVE PollInvariant
    OBVIOUS
  <2>1. TypeOK
    BY DEF Init, TypeOK
  <2>2. NoFutureGeneration /\ OneLoop /\ TimerDisarmable
    BY DEF Init, NoFutureGeneration, OneLoop, TimerDisarmable, OfGeneration
  <2> QED
    BY <2>1, <2>2 DEF PollInvariant
<1>2. PollInvariant /\ [Next]_vars => PollInvariant'
  BY PollInvariantStep
<1> QED
  BY <1>1, <1>2, PTL DEF Spec

\* A running poller has exactly one loop, and a stopped one none of its generation,
\* whatever Start, Stop and slow answers do to one another.
THEOREM OneLoopAlways == Spec => []OneLoop
<1>1. PollInvariant => OneLoop
  BY DEF PollInvariant
<1> QED
  BY <1>1, PollInvariantHolds, PTL

\* A timer is only armed for the running loop, and p.timer is that timer.
THEOREM TimersDisarmable == Spec => []TimerDisarmable
<1>1. PollInvariant => TimerDisarmable
  BY DEF PollInvariant
<1> QED
  BY <1>1, PollInvariantHolds, PTL
==============================================================================
