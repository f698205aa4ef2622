---------------------------- MODULE GovernorProofs ----------------------------
(***************************************************************************)
(* Proofs about the governor, for any set of operations and of waiters and *)
(* any rates: the counter counts, and an allowance means quiet.            *)
(***************************************************************************)
EXTENDS Governor, FiniteSetTheorems, TLAPS

\* The rate of every tier is a rate of the table.
LEMMA RateType ==
    ASSUME NEW quietFor \in Nat
    PROVE  rateForQuietDuration(quietFor) \in Nat \ {0}
  BY RateAssumption DEF rateForQuietDuration

\* A pacing delay is a positive number of ticks.
LEMMA PacingType ==
    ASSUME NEW n \in Nat, NEW quietFor \in Nat
    PROVE  Pacing(n, quietFor) \in Nat \ {0}
<1> DEFINE rate == rateForQuietDuration(quietFor)
<1>1. rate \in Nat \ {0}
  BY RateType
<1> HIDE DEF rate
<1>2. (n + rate - 1) \div rate \in Nat
  BY <1>1
<1>3. Pacing(n, quietFor) = AtLeast(1, (n + rate - 1) \div rate)
  BY DEF Pacing, rate
<1> QED
  BY <1>2, <1>3 DEF AtLeast

\* A polling sleep is a number of ticks.
LEMMA PollDelayType ==
    ASSUME NEW quietFor \in Nat
    PROVE  PollDelay(quietFor) \in Nat
  BY PeriodAssumption DEF PollDelay, AtLeast

\* An age grows by one tick until it saturates.
LEMMA OlderType ==
    ASSUME NEW age \in Ages
    PROVE  /\ Older(age) \in Ages
           /\ age < MaxAge => Older(age) = age + 1
           /\ age = MaxAge => Older(age) = MaxAge
  BY PeriodAssumption DEF Older, Ages

-----------------------------------------------------------------------------
\* Type correctness: every variable of the governor keeps its type, whatever
\* order the foreground, the waiters and the clock take steps in.
THEOREM TypeCorrect == Spec => []TypeOK
<1> USE DEF foregroundVars
<1>1. Init => TypeOK
  BY PeriodAssumption DEF Init, TypeOK, Ages
<1>2. TypeOK /\ [Next]_vars => TypeOK'
  <2> SUFFICES ASSUME TypeOK, [Next]_vars PROVE TypeOK'
    OBVIOUS
  <2> USE DEF TypeOK
  <2>1. ASSUME NEW o \in Ops, BeginForeground(o) PROVE TypeOK'
    BY <2>1, PeriodAssumption DEF BeginForeground, Begun, Stamp, Ages
  <2>2. ASSUME NEW o \in Ops, Release(o) PROVE TypeOK'
    BY <2>2, PeriodAssumption DEF Release, Ended, Stamp, Ages
  <2>3. CASE NoteForegroundActivity
    BY <2>3, PeriodAssumption DEF NoteForegroundActivity, Stamp, Ages
  <2>4. ASSUME NEW w \in Waiters, NEW n \in ChunkSizes, CallWaitForAllowance(w, n) PROVE TypeOK'
    BY <2>4, RateAssumption DEF CallWaitForAllowance
  <2>5. ASSUME NEW w \in Waiters, ReadState(w) PROVE TypeOK'
    BY <2>5 DEF ReadState
  <2>6. ASSUME NEW w \in Waiters, Decide(w) PROVE TypeOK'
    <3>1. before[w].age \in Nat
      BY PeriodAssumption DEF Ages
    <3>2. Pacing(byteCount[w], before[w].age) \in Nat /\ PollDelay(before[w].age) \in Nat
      BY <3>1, PacingType, PollDelayType
    <3> QED
      BY <2>6, <3>2 DEF Decide, MayPace
  <2>7. ASSUME NEW w \in Waiters, Wake(w) PROVE TypeOK'
    BY <2>7 DEF Wake
  <2>8. ASSUME NEW w \in Waiters, Recheck(w) PROVE TypeOK'
    BY <2>8 DEF Recheck, StillQuiet
  <2>9. ASSUME NEW w \in Waiters, ReturnCanceled(w) PROVE TypeOK'
    BY <2>9 DEF ReturnCanceled
  <2>10. ASSUME NEW w \in Waiters, CancelContext(w) PROVE TypeOK'
    BY <2>10 DEF CancelContext
  <2>11. CASE Tick
    <3>1. foregroundAge' \in Ages
      BY <2>11, OlderType DEF Tick
    <3>2. before' \in [Waiters -> [ops : Nat, age : Ages]]
      BY <2>11, OlderType DEF Tick
    <3>3. sleepLeft' \in [Waiters -> Nat]
      BY <2>11 DEF Tick
    <3> QED
      BY <2>11, <3>1, <3>2, <3>3 DEF Tick
  <2>12. CASE UNCHANGED vars
    BY <2>12 DEF vars, waitVars
  <2> QED
    BY <2>1, <2>2, <2>3, <2>4, <2>5, <2>6, <2>7, <2>8, <2>9, <2>10, <2>11, <2>12
       DEF Next, Foreground, Advance
<1> QED
  BY <1>1, <1>2, PTL DEF Spec

-----------------------------------------------------------------------------
\* The counter of foreground operations is exact: no release, and no order of
\* releases, opens the gate while an operation is still running.
THEOREM OpsAreCounted == Spec => []OpsCounted
<1> USE DEF foregroundVars
<1>1. Init => OpsCounted
  BY FS_EmptySet DEF Init, OpsCounted
<1>2. TypeOK /\ OpsCounted /\ [Next]_vars => OpsCounted'
  <2> SUFFICES ASSUME TypeOK, OpsCounted, [Next]_vars PROVE OpsCounted'
    OBVIOUS
  <2> USE DEF OpsCounted
  <2>1. IsFiniteSet(open) /\ Cardinality(open) \in Nat
    BY OpsAssumption, FS_Subset, FS_CardinalityType DEF TypeOK
  <2>2. ASSUME NEW o \in Ops, BeginForeground(o) PROVE OpsCounted'
    <3>1. Cardinality(open \cup {o}) = Cardinality(open) + 1
      BY <2>1, <2>2, FS_AddElement DEF BeginForeground, Begun
    <3> QED
      BY <2>2, <3>1 DEF BeginForeground, Begun
  <2>3. ASSUME NEW o \in Ops, Release(o) PROVE OpsCounted'
    <3>1. Cardinality(open \ {o}) = Cardinality(open) - 1
      BY <2>1, <2>3, FS_RemoveElement DEF Release, Ended
    <3>2. Cardinality(open \ {o}) \in Nat
      BY <2>1, FS_RemoveElement, FS_CardinalityType
    <3>3. foregroundOps > 0
      BY <2>1, <3>1, <3>2
    <3> QED
      BY <2>3, <3>1, <3>3 DEF Release, Ended
  <2>4. UNCHANGED <<foregroundOps, open>> => OpsCounted'
    OBVIOUS
  <2>5. CASE NoteForegroundActivity
    BY <2>4, <2>5 DEF NoteForegroundActivity
  <2>6. ASSUME NEW w \in Waiters, NEW n \in ChunkSizes, CallWaitForAllowance(w, n) PROVE OpsCounted'
    BY <2>4, <2>6 DEF CallWaitForAllowance
  <2>7. ASSUME NEW w \in Waiters, Advance(w) PROVE OpsCounted'
    BY <2>4, <2>7 DEF Advance, ReadState, Decide, Wake, Recheck, ReturnCanceled
  <2>8. ASSUME NEW w \in Waiters, CancelContext(w) PROVE OpsCounted'
    BY <2>4, <2>8 DEF CancelContext
  <2>9. CASE Tick
    BY <2>4, <2>9 DEF Tick
  <2>10. CASE UNCHANGED vars
    BY <2>4, <2>10 DEF vars
  <2> QED
    BY <2>2, <2>3, <2>5, <2>6, <2>7, <2>8, <2>9, <2>10 DEF Next, Foreground
<1> QED
  BY <1>1, <1>2, TypeCorrect, PTL DEF Spec

-----------------------------------------------------------------------------
\* A step of a waiter leaves the others where they are.
LEMMA PaceStep ==
    ASSUME TypeOK, PaceKept, [Next]_vars
    PROVE  PaceKept'
<1> USE DEF TypeOK, foregroundVars
<1> DEFINE KeptFor(w) ==
        /\ pc[w] = "decide" /\ unchanged[w] => foregroundAge = before[w].age
        /\ pc[w] \in {"sleep", "recheck"} /\ isRateWait[w] =>
             /\ before[w].age >= ForegroundQuietPeriod
             /\ unchanged[w] =>
                  \/ foregroundAge = MaxAge
                  \/ foregroundAge + sleepLeft[w] >= before[w].age + Pacing(byteCount[w], before[w].age)
        /\ pc[w] = "recheck" => isRateWait[w] /\ sleepLeft[w] = 0
<1>1. SUFFICES ASSUME NEW v \in Waiters PROVE KeptFor(v)'
  BY DEF PaceKept
<1>2. KeptFor(v)
  BY DEF PaceKept
<1>3. /\ foregroundAge \in Nat /\ MaxAge \in Nat /\ foregroundAge =< MaxAge
      /\ before[v].age \in Nat /\ sleepLeft[v] \in Nat
      /\ Pacing(byteCount[v], before[v].age) \in Nat
  <2>1. before[v].age \in Nat /\ byteCount[v] \in Nat
    BY PeriodAssumption DEF Ages
  <2>2. Pacing(byteCount[v], before[v].age) \in Nat
    BY <2>1, PacingType
  <2>3. foregroundAge \in Nat /\ MaxAge \in Nat /\ foregroundAge =< MaxAge
    BY PeriodAssumption DEF Ages
  <2>4. sleepLeft[v] \in Nat
    OBVIOUS
  <2> QED
    BY <2>1, <2>2, <2>3, <2>4
<1>4. ASSUME Stamp, UNCHANGED <<pc, byteCount, before, sleepLeft, isRateWait>> PROVE KeptFor(v)'
  BY <1>2, <1>3, <1>4 DEF Stamp
<1>5. CASE Foreground
  BY <1>4, <1>5 DEF Foreground, BeginForeground, Release, NoteForegroundActivity
<1>6. ASSUME NEW w \in Waiters, NEW n \in ChunkSizes, CallWaitForAllowance(w, n) PROVE KeptFor(v)'
  BY <1>2, <1>6 DEF CallWaitForAllowance
<1>7. ASSUME NEW w \in Waiters, ReadState(w) PROVE KeptFor(v)'
  BY <1>2, <1>7 DEF ReadState
<1>8. ASSUME NEW w \in Waiters, Decide(w) PROVE KeptFor(v)'
  <2>1. CASE v = w
    <3>1. isRateWait'[v] => /\ before[v].age >= ForegroundQuietPeriod
                            /\ sleepLeft'[v] = Pacing(byteCount[v], before[v].age)
      BY <1>8, <2>1 DEF Decide, MayPace
    <3> QED
      BY <1>2, <1>3, <1>8, <2>1, <3>1 DEF Decide
  <2>2. CASE v # w
    BY <1>2, <1>8, <2>2 DEF Decide
  <2> QED
    BY <2>1, <2>2
<1>9. ASSUME NEW w \in Waiters, Wake(w) PROVE KeptFor(v)'
  BY <1>2, <1>9 DEF Wake
<1>10. ASSUME NEW w \in Waiters, Recheck(w) PROVE KeptFor(v)'
  BY <1>2, <1>10 DEF Recheck, StillQuiet
<1>11. ASSUME NEW w \in Waiters, ReturnCanceled(w) \/ CancelContext(w) PROVE KeptFor(v)'
  BY <1>2, <1>11 DEF ReturnCanceled, CancelContext
<1>12. CASE Tick
  <2>1. CASE pc[v] = "decide"
    BY <1>2, <1>12, <2>1 DEF Tick
  <2>2. CASE pc[v] # "decide"
    <3>1. /\ before'[v] = before[v]
          /\ sleepLeft'[v] = IF sleepLeft[v] > 0 THEN sleepLeft[v] - 1 ELSE 0
          /\ UNCHANGED <<pc, byteCount, unchanged, isRateWait>>
      BY <1>12, <2>2 DEF Tick
    <3>2. foregroundAge' = IF foregroundAge < MaxAge THEN foregroundAge + 1 ELSE MaxAge
      BY <1>12 DEF Tick, Older
    <3> QED
      BY <1>2, <1>3, <2>2, <3>1, <3>2
  <2> QED
    BY <2>1, <2>2
<1>13. CASE UNCHANGED vars
  BY <1>2, <1>13 DEF vars, waitVars
<1> QED
  BY <1>5, <1>6, <1>7, <1>8, <1>9, <1>10, <1>11, <1>12, <1>13 DEF Next, Advance

\* An allowance is only ever given when no operation runs and the whole pacing
\* sleep passed without foreground activity, on top of the quiet period.
THEOREM GrantsAreQuiet == Spec => GrantOnlyAfterQuiet
<1> USE DEF foregroundVars
<1>1. Init => PaceKept
  BY DEF Init, PaceKept
<1>2. TypeOK /\ PaceKept /\ [Next]_vars => PaceKept'
  BY PaceStep
<1>3. TypeOK /\ OpsCounted /\ PaceKept /\ [Next]_vars
        => [\A w \in Waiters : Granted(w) => QuietEnough(w)]_vars
  <2> SUFFICES ASSUME TypeOK, OpsCounted, PaceKept, Next, NEW w \in Waiters, Granted(w)
               PROVE  QuietEnough(w)
    BY DEF vars
  <2>1. Recheck(w)
    <3>1. pc'[w] # pc[w] /\ pc[w] = "recheck" /\ pc'[w] = "idle"
      BY DEF Granted
    <3>2. ~ Foreground /\ ~ Tick
      BY <3>1 DEF Foreground, BeginForeground, Release, NoteForegroundActivity, Tick
    <3>3. PICK v \in Waiters : \/ \E n \in ChunkSizes : CallWaitForAllowance(v, n)
                               \/ Advance(v)
                               \/ CancelContext(v)
      BY <3>2 DEF Next
    <3>4. v = w /\ Recheck(v)
      BY <3>1, <3>3 DEF Advance, CallWaitForAllowance, ReadState, Decide, Wake, Recheck,
                        ReturnCanceled, CancelContext, TypeOK
    <3> QED
      BY <3>4
  <2>2. foregroundOps = 0 /\ unchanged[w]
    BY <2>1 DEF Recheck, StillQuiet, Granted, TypeOK
  <2>3. open = {}
    BY <2>2, OpsAssumption, FS_Subset, FS_EmptySet DEF OpsCounted, TypeOK
  <2>4. isRateWait[w] /\ sleepLeft[w] = 0
    BY DEF PaceKept, Granted
  <2>5. foregroundAge \in Nat
    BY PeriodAssumption DEF TypeOK, Ages
  <2> QED
    BY <2>2, <2>3, <2>4, <2>5 DEF PaceKept, Granted, QuietEnough
<1> QED
  BY <1>1, <1>2, <1>3, TypeCorrect, OpsAreCounted, PTL DEF Spec, GrantOnlyAfterQuiet
=============================================================================
