------------------------------- MODULE Timers -------------------------------
(***************************************************************************)
(* The timers of os/WaitFor.d: a list sorted by an unsigned time that      *)
(* wraps around, walked by check_timers while the callbacks it runs set,   *)
(* cancel, force and free timers, their own included; and the sleep of     *)
(* WaitForSomething that check_timers allows.                              *)
(*                                                                         *)
(* Callbacks are code of others.  One may call back into the timers any    *)
(* number of times before it returns, and through TimerForce, an absolute  *)
(* time in the past or TimerForceOld it runs another one inside: stack     *)
(* holds those that have begun.  The clock moves between any two steps;    *)
(* where there is no monotonic clock it may also be set back.              *)
(***************************************************************************)
EXTENDS Integers, Sequences

CONSTANTS
    Timers,     \* the OsTimerPtrs
    Half,       \* 2^31: times differ by an int
    Delays,     \* milliseconds timers are set for, and callbacks return
    Slack,      \* the 250 ms of check_timers and CheckAllTimers
    Steps,      \* by how much the clock may be set back at once
    MaxSteps,   \* bound: how often it is
    MaxLate,    \* bound: how long a timer may be overdue, or DoTimers busy
    MaxLeft,    \* bound: how far the clock set back may move a timer away
    MaxDepth    \* bound: callbacks that run inside each other

Word == 2 * Half
ASSUME HalfAssumption == Half \in Nat \ {0}
ASSUME DelaysAssumption == Delays \subseteq Nat \ {0} /\ \A d \in Delays : d <= MaxLeft
\* no timer is set for 24 days, is late by as much, or moved as far away
ASSUME WindowAssumption ==
    MaxLate \in Nat /\ MaxLeft \in Nat /\ MaxLate + MaxLeft < Half
\* 250 ms are less than 24 days
ASSUME SlackAssumption == Slack \in Nat /\ Slack + MaxLeft < Half
ASSUME StepsAssumption == Steps \subseteq Nat /\ MaxSteps \in Nat /\ MaxDepth \in Nat

Clock == 0 .. Word - 1
Entry == [timer : Timers, expires : Clock, delta : Clock]

VARIABLES
    clock,      \* GetTimeInMillis(), a CARD32
    timers,     \* the list: sequence of the pending timers
    stack,      \* callbacks that have begun, the innermost last
    walk,       \* what check_timers does: "none", "due" (DoTimers) or "all" (CheckAllTimers)
    walkNow,    \* DoTimers's now
    pc,         \* "run", or "poll" inside ospoll_wait
    timeout,    \* how much longer ospoll_wait sleeps, -1 for ever
    steps       \* how often the clock was set back

vars == <<clock, timers, stack, walk, walkNow, pc, timeout, steps>>

-----------------------------------------------------------------------------
(* Times and the list.                                                     *)

\* (int) of an unsigned difference
Signed(x) == IF x % Word < Half THEN x % Word ELSE (x % Word) - Word

\* time left until a pending timer, negative if it is overdue
Left(e) == Signed(e.expires - clock)

\* (mutant: expires <= now)
DueUnsigned(e, now) == e.expires <= now

Due(e, now) == Signed(e.expires - now) <= 0

Later(e, x) == Signed(e.expires - x) > 0

Listed(t) == \E i \in DOMAIN timers : timers[i].timer = t

\* xorg_list_del, which leaves a timer alone that is not pending
Without(l, t) ==
    IF \A i \in DOMAIN l : l[i].timer # t THEN l
    ELSE LET p == CHOOSE i \in DOMAIN l : l[i].timer = t
         IN  [i \in 1 .. Len(l) - 1 |-> IF i < p THEN l[i] ELSE l[i + 1]]

\* TimerSet's place: before the first timer that expires later
Place(l, x) ==
    CHOOSE p \in 1 .. Len(l) + 1 :
        /\ \A i \in 1 .. p - 1 : ~Later(l[i], x)
        /\ p <= Len(l) => Later(l[p], x)

SortedInto(l, e) ==
    LET p == Place(l, e.expires)
    IN  [i \in 1 .. Len(l) + 1 |->
            IF i < p THEN l[i] ELSE IF i = p THEN e ELSE l[i - 1]]

\* a timer set for x
At(t, x) == [timer |-> t, expires |-> x % Word, delta |-> (x - clock) % Word]

\* a callback that begins; next is what TimerForceOld still has to enter
Frame(t, next) == [timer |-> t, gone |-> FALSE, next |-> next]

-----------------------------------------------------------------------------
Init ==
    /\ clock \in Clock
    /\ timers = <<>> /\ stack = <<>>
    /\ walk = "none" /\ walkNow = 0
    /\ pc = "run" /\ timeout = -1 /\ steps = 0

\* code other than check_timers runs: the server's own or a callback's
Running == pc = "run" /\ (walk = "none" \/ stack # <<>>)

\* DoTimer, up to the callback
DoTimer(t) ==
    /\ timers' = Without(timers, t)
    /\ stack' = Append(stack, Frame(t, <<>>))

\* the end of TimerSet: the entry is sorted in, and if it is due taken out again
Enter(e, l, frames) ==
    IF Due(e, clock)
    THEN timers' = l /\ stack' = Append(frames, Frame(e.timer, <<>>))
    ELSE timers' = SortedInto(l, e) /\ stack' = frames

\* a callback that runs for TimerForceOld leaves its timer to TimerSet
Free(t) == \A i \in DOMAIN stack : stack[i].timer = t => stack[i].next = <<>>

Room == Len(stack) < MaxDepth

\* TimerSet: a time of 0 only cancels, an absolute one as well
TimerSetRelative(t, millis) ==
    /\ Running /\ Free(t)
    /\ timers' = SortedInto(Without(timers, t), At(t, clock + millis))
    /\ UNCHANGED <<clock, stack, walk, walkNow, pc, timeout, steps>>

TimerSetAbsolute(t, millis) ==
    /\ Running /\ Free(t) /\ Room
    /\ IF millis % Word = 0
       THEN timers' = Without(timers, t) /\ UNCHANGED stack
       ELSE Enter(At(t, millis), Without(timers, t), stack)
    /\ UNCHANGED <<clock, walk, walkNow, pc, timeout, steps>>

TimerSetForceOld(t, millis) ==
    /\ Running /\ Free(t) /\ Room /\ Listed(t)
    /\ timers' = Without(timers, t)
    /\ stack' = Append(stack, Frame(t, <<At(t, clock + millis)>>))
    /\ UNCHANGED <<clock, walk, walkNow, pc, timeout, steps>>

TimerForce(t) ==
    /\ Running /\ Room /\ Listed(t)
    /\ DoTimer(t)
    /\ UNCHANGED <<clock, walk, walkNow, pc, timeout, steps>>

TimerCancel(t) ==
    /\ Running
    /\ timers' = Without(timers, t)
    /\ UNCHANGED <<clock, stack, walk, walkNow, pc, timeout, steps>>

\* a callback that freed its own timer must return 0
TimerFree(t) ==
    /\ Running /\ Free(t)
    /\ timers' = Without(timers, t)
    /\ stack' = [i \in DOMAIN stack |->
                    [stack[i] EXCEPT !.gone = @ \/ stack[i].timer = t]]
    /\ UNCHANGED <<clock, walk, walkNow, pc, timeout, steps>>

-----------------------------------------------------------------------------
(* Callbacks return.                                                       *)

Outer == SubSeq(stack, 1, Len(stack) - 1)
Inner == stack[Len(stack)]

\* (mutant: a timer that its callback has set is entered once more)
RearmAgain(t, newTime) == timers' = SortedInto(timers, At(t, clock + newTime))

\* the rest of DoTimer: it sets the timer again whatever the callback did to it
Rearm(t, newTime) == timers' = SortedInto(Without(timers, t), At(t, clock + newTime))

\* a callback of DoTimer returns the time it wants to be called in, or 0
CallbackReturns(newTime) ==
    /\ pc = "run" /\ stack # <<>> /\ Inner.next = <<>>
    /\ Inner.gone => newTime = 0
    /\ newTime # 0 => Free(Inner.timer)
    /\ IF newTime = 0 THEN UNCHANGED timers ELSE Rearm(Inner.timer, newTime)
    /\ stack' = Outer
    /\ UNCHANGED <<clock, walk, walkNow, pc, timeout, steps>>

\* TimerSet ignores what a callback returns that TimerForceOld made it call
OldReturns ==
    /\ pc = "run" /\ stack # <<>> /\ Inner.next # <<>>
    /\ timers' = SortedInto(timers, Inner.next[1])
    /\ stack' = Outer
    /\ UNCHANGED <<clock, walk, walkNow, pc, timeout, steps>>

-----------------------------------------------------------------------------
(* check_timers.                                                           *)

\* (mutant: sleeps for the timer's whole interval)
WholeInterval == timers[1].delta

TimeoutOfFirst == Left(timers[1])

Sane(e) == Left(e) < e.delta + Slack

\* with no timer left WaitForSomething waits for events only
CheckTimers ==
    /\ pc = "run" /\ walk = "none" /\ stack = <<>>
    /\ \/ /\ timers = <<>>
          /\ pc' = "poll" /\ UNCHANGED <<walk, walkNow, timeout>>
       \/ /\ timers # <<>> /\ Due(timers[1], clock)
          /\ walk' = "due" /\ walkNow' = clock /\ UNCHANGED <<pc, timeout>>
       \/ /\ timers # <<>> /\ ~Due(timers[1], clock) /\ Sane(timers[1])
          /\ pc' = "poll" /\ timeout' = TimeoutOfFirst /\ UNCHANGED <<walk, walkNow>>
       \/ /\ timers # <<>> /\ ~Due(timers[1], clock) /\ ~Sane(timers[1])
          /\ walk' = "all" /\ UNCHANGED <<walkNow, pc, timeout>>
    /\ UNCHANGED <<clock, timers, stack, steps>>

\* expires - now > delta + 250, all unsigned
Affected(e) == (e.expires - clock) % Word > (e.delta + Slack) % Word

\* DoTimers's and CheckAllTimers's next timer
First(p) ==
    /\ p \in DOMAIN timers
    /\ IF walk = "due" THEN p = 1 /\ Due(timers[1], walkNow)
       ELSE Affected(timers[p]) /\ \A i \in 1 .. p - 1 : ~Affected(timers[i])

WalkCalls ==
    /\ pc = "run" /\ walk # "none" /\ stack = <<>>
    /\ \E p \in DOMAIN timers : First(p) /\ DoTimer(timers[p].timer)
    /\ UNCHANGED <<clock, walk, walkNow, pc, timeout, steps>>

WalkEnds ==
    /\ pc = "run" /\ walk # "none" /\ stack = <<>>
    /\ \A p \in DOMAIN timers : ~First(p)
    /\ walk' = "none" /\ walkNow' = 0
    /\ pc' = "poll" /\ timeout' = 0
    /\ UNCHANGED <<clock, timers, stack, steps>>

\* ospoll_wait returns: its time is up, or something else has happened
PollReturns ==
    /\ pc = "poll"
    /\ pc' = "run" /\ timeout' = -1
    /\ UNCHANGED <<clock, timers, stack, walk, walkNow, steps>>

-----------------------------------------------------------------------------
(* The clock.                                                              *)

\* every time that waits to come: of pending timers, and of those about to be
Pending ==
    {timers[i] : i \in DOMAIN timers}
        \cup UNION {{stack[i].next[j] : j \in DOMAIN stack[i].next} : i \in DOMAIN stack}

Tick ==
    /\ \A e \in Pending : Left(e) > -MaxLate
    /\ walk = "due" => Signed(clock - walkNow) < MaxLate
    /\ clock' = (clock + 1) % Word
    /\ timeout' = IF timeout > 0 THEN timeout - 1 ELSE timeout
    /\ UNCHANGED <<timers, stack, walk, walkNow, pc, steps>>

\* the clock is set back, though not in the middle of DoTimers
SetBack(r) ==
    /\ steps < MaxSteps /\ walk # "due"
    /\ \A e \in Pending : Left(e) + r <= MaxLeft
    /\ clock' = (clock - r) % Word
    /\ steps' = steps + 1
    /\ UNCHANGED <<timers, stack, walk, walkNow, pc, timeout>>

Next ==
    \/ \E t \in Timers, d \in Delays :
           TimerSetRelative(t, d) \/ TimerSetAbsolute(t, clock + d) \/ TimerSetForceOld(t, d)
    \/ \E t \in Timers : TimerSetAbsolute(t, clock)
    \/ \E t \in Timers : TimerForce(t) \/ TimerCancel(t) \/ TimerFree(t)
    \/ \E d \in Delays \cup {0} : CallbackReturns(d)
    \/ OldReturns
    \/ CheckTimers \/ WalkCalls \/ WalkEnds \/ PollReturns
    \/ Tick \/ \E r \in Steps : SetBack(r)

Spec == Init /\ [][Next]_vars
=============================================================================
