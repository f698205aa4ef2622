------------------------------- MODULE Governor -------------------------------
(***************************************************************************)
(* The cooperative bandwidth governor of server/internal/idletransfer.     *)
(*                                                                         *)
(* Foreground operations bracket their work with BeginForeground and its   *)
(* release closure; background goroutines block in WaitForAllowance.  The  *)
(* wait is a loop of critical sections: the state is copied under g.mu,    *)
(* the clock is read after the unlock, the goroutine sleeps, and the state *)
(* is copied again.  Every one of these is a step of its own here, so that *)
(* foreground activity can fall between any two of them.                   *)
(*                                                                         *)
(* Time is kept as ages in ticks.  foregroundAge is now - lastForeground;  *)
(* it saturates at MaxAge, past the last boundary the code compares with.  *)
(***************************************************************************)
EXTENDS Integers, FiniteSets

CONSTANTS
    Ops,                    \* foreground operations, each a caller of BeginForeground
    Waiters,                \* background goroutines that call WaitForAllowance
    ChunkSizes,             \* byte counts they ask for
    ForegroundQuietPeriod,  \* ticks
    MinPollInterval,        \* ticks, the floor of a polling sleep
    TierBoundary,           \* the three quiet tier boundaries, in ticks
    Rate,                   \* the four rates, floor first, in bytes per tick
    MaxAge                  \* bound: ages saturate here

ASSUME PeriodAssumption ==
    /\ ForegroundQuietPeriod \in Nat \ {0}
    /\ MinPollInterval \in Nat \ {0}
    /\ MaxAge \in Nat
    /\ ForegroundQuietPeriod =< MaxAge

ASSUME RateAssumption ==
    /\ TierBoundary \in [1..3 -> Nat]
    /\ Rate \in [1..4 -> Nat \ {0}]
    /\ ChunkSizes \subseteq Nat

ASSUME OpsAssumption == IsFiniteSet(Ops)

VARIABLES
    foregroundOps,  \* the counter of that name
    foregroundAge,  \* the age of lastForeground
    open,           \* operations whose release closure has not run yet
    pc,             \* where each waiter is in WaitForAllowance
    byteCount,      \* what it asked for
    before,         \* its copy of the state, the age advancing until decide() reads the clock
    unchanged,      \* whether lastForeground still equals before.lastForeground
    sleepLeft,      \* ticks left of its sleep
    isRateWait,     \* decide()'s second result
    canceled        \* waiters whose context is done

foregroundVars == <<foregroundOps, foregroundAge, open>>
waitVars == <<pc, byteCount, before, unchanged, sleepLeft, isRateWait, canceled>>
vars == <<foregroundVars, waitVars>>

Ages == 0..MaxAge

Older(age) == IF age < MaxAge THEN age + 1 ELSE MaxAge

-----------------------------------------------------------------------------
(* The pure core.                                                          *)

rateForQuietDuration(quietFor) ==
    IF quietFor < TierBoundary[1] THEN Rate[1]
    ELSE IF quietFor < TierBoundary[2] THEN Rate[2]
    ELSE IF quietFor < TierBoundary[3] THEN Rate[3]
    ELSE Rate[4]

AtLeast(floor, n) == IF n < floor THEN floor ELSE n

\* The pacing delay of n bytes, rounded up, one tick at least.
Pacing(n, quietFor) ==
    LET rate == rateForQuietDuration(quietFor)
    IN  AtLeast(1, (n + rate - 1) \div rate)

\* Mutant: the floor under a polling sleep is missing.
PollDelayUnfloored(quietFor) == ForegroundQuietPeriod - quietFor

\* The sleep that ends in another look, not in an allowance.
PollDelay(quietFor) == AtLeast(MinPollInterval, ForegroundQuietPeriod - quietFor)

MayPace(quietFor, ops) == ops = 0 /\ quietFor >= ForegroundQuietPeriod

-----------------------------------------------------------------------------

Init ==
    /\ foregroundOps = 0
    /\ foregroundAge = 0
    /\ open = {}
    /\ pc = [w \in Waiters |-> "idle"]
    /\ byteCount = [w \in Waiters |-> 0]
    /\ before = [w \in Waiters |-> [ops |-> 0, age |-> 0]]
    /\ unchanged = [w \in Waiters |-> TRUE]
    /\ sleepLeft = [w \in Waiters |-> 0]
    /\ isRateWait = [w \in Waiters |-> FALSE]
    /\ canceled = {}

-----------------------------------------------------------------------------
(* Foreground side.  lastForeground = now: the stamp changes unless the    *)
(* clock still reads what it read at the last activity.                    *)

Stamp ==
    /\ foregroundAge' = 0
    /\ unchanged' = [w \in Waiters |-> unchanged[w] /\ foregroundAge = 0]

\* Mutant: foregroundOps as a flag instead of a counter.
BegunOnce == 1

Begun == foregroundOps + 1

BeginForeground(o) ==
    /\ o \notin open
    /\ open' = open \cup {o}
    /\ foregroundOps' = Begun
    /\ Stamp
    /\ UNCHANGED <<pc, byteCount, before, sleepLeft, isRateWait, canceled>>

\* Mutant: the closure only refreshes the time stamp.
EndedNot == foregroundOps

Ended == IF foregroundOps > 0 THEN foregroundOps - 1 ELSE foregroundOps

\* The closure BeginForeground returned; sync.Once makes later calls no-ops.
Release(o) ==
    /\ o \in open
    /\ open' = open \ {o}
    /\ foregroundOps' = Ended
    /\ Stamp
    /\ UNCHANGED <<pc, byteCount, before, sleepLeft, isRateWait, canceled>>

NoteForegroundActivity ==
    /\ Stamp
    /\ UNCHANGED <<foregroundOps, open, pc, byteCount, before, sleepLeft, isRateWait, canceled>>

Foreground ==
    \/ \E o \in Ops : BeginForeground(o) \/ Release(o)
    \/ NoteForegroundActivity

-----------------------------------------------------------------------------
(* Background side: WaitForAllowance.                                      *)

CallWaitForAllowance(w, n) ==
    /\ pc[w] = "idle"
    /\ pc' = [pc EXCEPT ![w] = "loop"]
    /\ byteCount' = [byteCount EXCEPT ![w] = n]
    /\ UNCHANGED <<foregroundVars, before, unchanged, sleepLeft, isRateWait, canceled>>

\* before := g.state(), after the context was found live.
ReadState(w) ==
    /\ pc[w] = "loop"
    /\ w \notin canceled
    /\ pc' = [pc EXCEPT ![w] = "decide"]
    /\ before' = [before EXCEPT ![w] = [ops |-> foregroundOps, age |-> foregroundAge]]
    /\ unchanged' = [unchanged EXCEPT ![w] = TRUE]
    /\ UNCHANGED <<foregroundVars, byteCount, sleepLeft, isRateWait, canceled>>

\* decide(g.now(), before...): the clock is read after the unlock.
Decide(w) ==
    /\ pc[w] = "decide"
    /\ LET pace == MayPace(before[w].age, before[w].ops)
       IN  /\ isRateWait' = [isRateWait EXCEPT ![w] = pace]
           /\ sleepLeft' = [sleepLeft EXCEPT ![w] =
                  IF pace THEN Pacing(byteCount[w], before[w].age)
                          ELSE PollDelay(before[w].age)]
    /\ pc' = [pc EXCEPT ![w] = "sleep"]
    /\ UNCHANGED <<foregroundVars, byteCount, before, unchanged, canceled>>

Wake(w) ==
    /\ pc[w] = "sleep"
    /\ sleepLeft[w] = 0
    /\ pc' = [pc EXCEPT ![w] = IF isRateWait[w] THEN "recheck" ELSE "loop"]
    /\ UNCHANGED <<foregroundVars, byteCount, before, unchanged, sleepLeft, isRateWait, canceled>>

\* Mutant: activity that began and ended during the sleep goes unnoticed.
StillQuietNow(w) == foregroundOps = 0

StillQuiet(w) == foregroundOps = 0 /\ unchanged[w]

\* after := g.state(): the allowance is granted, or the loop starts over.
Recheck(w) ==
    /\ pc[w] = "recheck"
    /\ pc' = [pc EXCEPT ![w] = IF StillQuiet(w) THEN "idle" ELSE "loop"]
    /\ UNCHANGED <<foregroundVars, byteCount, before, unchanged, sleepLeft, isRateWait>>
    /\ canceled' = IF pc'[w] = "idle" THEN canceled \ {w} ELSE canceled

CancelContext(w) ==
    /\ pc[w] # "idle"
    /\ canceled' = canceled \cup {w}
    /\ UNCHANGED <<foregroundVars, pc, byteCount, before, unchanged, sleepLeft, isRateWait>>

\* ctx.Err() at the top of the loop, or <-ctx.Done() in the sleep.
ReturnCanceled(w) ==
    /\ pc[w] \in {"loop", "sleep"}
    /\ w \in canceled
    /\ pc' = [pc EXCEPT ![w] = "idle"]
    /\ canceled' = canceled \ {w}
    /\ UNCHANGED <<foregroundVars, byteCount, before, unchanged, sleepLeft, isRateWait>>

\* One tick of the clock.
Tick ==
    /\ foregroundAge' = Older(foregroundAge)
    /\ before' = [w \in Waiters |->
           IF pc[w] = "decide" THEN [before[w] EXCEPT !.age = Older(before[w].age)] ELSE before[w]]
    /\ sleepLeft' = [w \in Waiters |-> IF sleepLeft[w] > 0 THEN sleepLeft[w] - 1 ELSE 0]
    /\ UNCHANGED <<foregroundOps, open, pc, byteCount, unchanged, isRateWait, canceled>>

Advance(w) == ReadState(w) \/ Decide(w) \/ Wake(w) \/ Recheck(w) \/ ReturnCanceled(w)

Next ==
    \/ Foreground
    \/ \E w \in Waiters :
         \/ \E n \in ChunkSizes : CallWaitForAllowance(w, n)
         \/ Advance(w)
         \/ CancelContext(w)
    \/ Tick

Spec == Init /\ [][Next]_vars

\* The clock runs and the Go scheduler runs every goroutine that can run.
FairSpec == Spec /\ WF_vars(Tick) /\ \A w \in Waiters : WF_vars(Advance(w))

-----------------------------------------------------------------------------
TypeOK ==
    /\ foregroundOps \in Nat
    /\ foregroundAge \in Ages
    /\ open \subseteq Ops
    /\ pc \in [Waiters -> {"idle", "loop", "decide", "sleep", "recheck"}]
    /\ byteCount \in [Waiters -> Nat]
    /\ before \in [Waiters -> [ops : Nat, age : Ages]]
    /\ unchanged \in [Waiters -> BOOLEAN]
    /\ sleepLeft \in [Waiters -> Nat]
    /\ isRateWait \in [Waiters -> BOOLEAN]
    /\ canceled \subseteq Waiters

\* Every operation that began and has not been released is counted once: no
\* release, and no order of releases, can open the gate while one is running.
OpsCounted == foregroundOps = Cardinality(open)

\* The doc of WaitForAllowance: it returns an allowance only once a full pacing
\* sleep has elapsed with no foreground activity (begin, end or note), begun when
\* the connection had already been quiet for ForegroundQuietPeriod; and then no
\* operation is running.  The clock and the state are read at different moments.
Granted(w) == pc[w] = "recheck" /\ pc'[w] = "idle"

QuietEnough(w) ==
    /\ open = {}
    /\ before[w].age >= ForegroundQuietPeriod
    /\ \/ foregroundAge = MaxAge
       \/ foregroundAge >= before[w].age + Pacing(byteCount[w], before[w].age)

\* What keeps it true between the steps of a wait: while the stamp is unchanged,
\* the quiet time decide() saw and the sleep it ordered add up.
PaceKept ==
    \A w \in Waiters :
        /\ pc[w] = "decide" /\ unchanged[w] => foregroundAge = before[w].age
        /\ pc[w] \in {"sleep", "recheck"} /\ isRateWait[w] =>
             /\ before[w].age >= ForegroundQuietPeriod
             /\ unchanged[w] =>
                  \/ foregroundAge = MaxAge
                  \/ foregroundAge + sleepLeft[w] >= before[w].age + Pacing(byteCount[w], before[w].age)
        /\ pc[w] = "recheck" => isRateWait[w] /\ sleepLeft[w] = 0

GrantOnlyAfterQuiet == [][\A w \in Waiters : Granted(w) => QuietEnough(w)]_vars

\* Once the foreground has fallen silent for good, a background goroutine that
\* asks for an allowance is answered: no waiter polls forever.
WaitersServed ==
    (<>[](open = {}) /\ <>[][~Foreground]_vars)
        => \A w \in Waiters : (pc[w] = "loop") ~> (pc[w] = "idle")
=============================================================================
