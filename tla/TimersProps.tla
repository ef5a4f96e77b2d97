----------------------------- MODULE TimersProps -----------------------------
(***************************************************************************)
(* What the timers of os/WaitFor.d promise.                                *)
(***************************************************************************)
EXTENDS Timers

Frames == [timer : Timers, gone : BOOLEAN, next : {<<>>} \cup {<<e>> : e \in Entry}]

\* Every variable has its type, and a timer is in the list at most once: a
\* second insertion would close the list into a ring.
TypeOK ==
    /\ clock \in Clock /\ walkNow \in Clock
    /\ timers \in Seq(Entry)
    /\ \A i, j \in DOMAIN timers : timers[i].timer = timers[j].timer => i = j
    /\ stack \in Seq(Frames)
    /\ walk \in {"none", "due", "all"} /\ pc \in {"run", "poll"}
    /\ timeout \in Int /\ timeout >= -1
    /\ steps \in Nat

\* The list is sorted by time left, across the wrap of the clock, whatever
\* callbacks set, cancel and force while it is walked.
TimersAreSorted ==
    \A i, j \in DOMAIN timers : i < j => Left(timers[i]) <= Left(timers[j])

\* WaitForSomething never sleeps past the time of a pending timer.
SleepEndsInTime ==
    pc = "poll" => \A i \in DOMAIN timers :
        timeout = 0 \/ timeout \in 1 .. Left(timers[i])

\* a callback runs that check_timers has called
Called == walk # "none" /\ stack # <<>>

IsUp(e) == Left(e) <= 0 /\ \A i \in DOMAIN timers : Left(e) <= Left(timers[i])
MovedAway(e) == Left(e) > e.delta + Slack

\* check_timers calls a timer only when its time is up by the clock as it
\* stands and no pending timer is due before it, or when the clock was set
\* back and left the timer further away than it was ever set for.
CallsAreDue ==
    [][~Called /\ Called' =>
           \E i \in DOMAIN timers :
               /\ timers[i].timer = stack'[1].timer
               /\ IsUp(timers[i]) \/ MovedAway(timers[i])]_vars

-----------------------------------------------------------------------------
(* What makes these properties inductive.                                  *)

\* all times that wait to come lie within a window of less than half a turn
\* of the clock, around now
InWindow ==
    \A e \in Pending : Left(e) \in -MaxLate .. MaxLeft /\ e.delta <= MaxLeft

\* a timer that TimerForceOld has yet to enter is in the list no more, and
\* is the frame's own and no other frame's
OldIsOut ==
    \A i \in DOMAIN stack : stack[i].next # <<>> =>
        /\ stack[i].next[1].timer = stack[i].timer
        /\ ~Listed(stack[i].timer)
        /\ \A j \in DOMAIN stack :
               stack[j].next # <<>> /\ stack[j].timer = stack[i].timer => j = i

\* DoTimers's now is behind the clock, but not by much
WalkIsBrief ==
    walk = "due" => Signed(clock - walkNow) \in 0 .. MaxLate

\* ospoll_wait is not called from callbacks
PollIsOuter == pc = "poll" => stack = <<>> /\ walk = "none"

IndInv ==
    /\ TypeOK /\ InWindow /\ TimersAreSorted /\ OldIsOut
    /\ WalkIsBrief /\ PollIsOuter /\ SleepEndsInTime

-----------------------------------------------------------------------------
(* Liveness.  Dispatch comes back to check_timers, callbacks return, and    *)
(* neither calls the timers without end before it does; ospoll_wait        *)
(* returns when its time is up; the clock ticks.                           *)

Returns == OldReturns \/ \E d \in Delays \cup {0} : CallbackReturns(d)

FairSpec ==
    /\ Spec
    /\ WF_vars(Tick) /\ WF_vars(WalkCalls) /\ WF_vars(WalkEnds)
    /\ WF_vars(timeout = 0 /\ PollReturns)
    /\ WF_vars(Returns) /\ SF_vars(Len(stack) = 1 /\ Returns)
    /\ SF_vars(CheckTimers)

\* A timer whose time has come is called, cancelled or set again: neither
\* callbacks that set themselves again nor timers that come and go starve it.
DueIsCalled ==
    \A t \in Timers :
        (\E e \in Pending : e.timer = t /\ Left(e) <= 0)
            ~> ~(\E e \in Pending : e.timer = t /\ Left(e) <= 0)
=============================================================================
