----------------------------- MODULE SyncProps -----------------------------
(* What the SYNC extension promises.                                       *)
EXTENDS Sync

Cond == [sync : Syncs, test : Tests, value : Int64]
Alarm == [state : {"free", "Active", "Inactive"},
          sync : Counters \cup {ServerTime, None}, type : Types, wait : Int64,
          test : Comparisons \cup Transitions, check : Comparisons \cup Transitions,
          value : Int64, delta : Int64]

\* each trigger of a list has some of the others behind it
IsList(q) == \A t \in DOMAIN q : t \in Triggers /\ q[t] \subseteq DOMAIN q \ {t}

Exists(t) ==
    IF t.of \in Alarms THEN t.i = 0 /\ alarm[t.of].state # "free"
    ELSE t.i \in DOMAIN await[t.of]

SyncOf(t) == Trigger(t, await, alarm).sync

\* Every variable has the shape its declaration in the code gives it.
TypeOK ==
    /\ live \in [Syncs -> {"free", "live", "dying"}]
    /\ value \in [Syncs -> Int64]
    /\ DOMAIN list = Syncs /\ \A s \in Syncs : IsList(list[s])
    /\ await \in [Clients -> Seq(Cond)]
    /\ alarm \in [Alarms -> Alarm]
    /\ ignored \in [Clients -> Int]
    /\ phase \in [Clients -> {"up", "closing", "gone"}]
    /\ walk \in [kind : {"none", "change", "destroy", "fence"}, sync : Syncs \cup {None},
                 at : Triggers \cup {None}, old : Int64]
    /\ clock \in 0 .. MaxNow /\ brackets \subseteq Int64

\* The triggers in the list of a counter or fence are those of the Awaits and
\* alarms there are that name it, no more and no fewer, and only an object that
\* is there has any: FreeAwait, FreeAlarm, FreeCounter, SyncAlarmCounterDestroyed
\* and SyncInitTrigger together leave no pointer to something freed.
ListsAreExact ==
    /\ \A s \in Syncs : \A t \in DOMAIN list[s] : Exists(t) /\ SyncOf(t) = s /\ live[s] # "free"
    /\ \A c \in Clients : \A i \in DOMAIN await[c] :
          [of |-> c, i |-> i] \in DOMAIN list[await[c][i].sync]
    /\ \A a \in Alarms : alarm[a].sync # None => AlarmTrigger(a) \in DOMAIN list[alarm[a].sync]

\* SyncChangeCounter remembers the next trigger before it fires one, FreeCounter
\* and miSyncDestroyFence read it after: whatever the callbacks free, the
\* trigger that a walk looks at next is still in the list.
WalkIsInList ==
    walk.kind \in {"change", "destroy"} /\ walk.at # None => walk.at \in DOMAIN list[walk.sync]

\* A client that is served is ignored once while its Await is there and not at
\* all without one: SyncAwaitTriggerFired, the end of a counter and FreeAwait
\* attend it once between them.
WaitsAreHeld ==
    \A c \in Clients : phase[c] = "up" => ignored[c] = IF await[c] = <<>> THEN 0 ELSE 1

\* With no walk under way no client sleeps for something that is already so,
\* and no active alarm has been passed: SyncAwaitEpilogue and the walks of
\* SyncChangeCounter and miSyncTriggerFence leave no true trigger behind.
NothingTrueWaits ==
    walk = Idle =>
        \A s \in Syncs : \A t \in DOMAIN list[s] :
            CheckTrigger(t, value[s]) => t.of \in Alarms /\ alarm[t.of].state = "Inactive"

\* Whoever waits for SERVERTIME to reach a value has a wakeup armed for it:
\* SyncChangeCounter "should always be used to change a counter's value so that
\* any triggers depending on the counter will be checked" (sync.d:728).
DeadlinesAreArmed ==
    walk = Idle =>
        \A t \in DOMAIN list[ServerTime] :
            LET g == Trigger(t, await, alarm)
            IN  /\ g.test = "PositiveComparison" /\ g.value < Half - 1
                /\ t.of \in Alarms => g.state = "Active"
                => \E x \in brackets : x <= g.value

\* SyncAlarmTriggerFired adds delta "until it becomes FALSE" (sync.d:583): it
\* does become so, whatever ChangeAlarm did to the alarm before.
AlarmUpdatesEnd ==
    \A a \in Alarms :
        LET r == alarm[a] IN
        r.state = "Active" =>
            \/ r.delta = 0 /\ r.test \in Comparisons
            \/ r.check \in Transitions
            \/ r.check = "PositiveComparison" /\ r.delta > 0
            \/ r.check = "NegativeComparison" /\ r.delta < 0

-----------------------------------------------------------------------------
(* The inductive invariant of the proofs.                                  *)

\* no Await names a counter or fence twice
WaitsAreDistinct ==
    \A w \in Waits : \A i, j \in DOMAIN w : w[i].sync = w[j].sync => i = j

CondsAreDistinct ==
    \A c \in Clients : \A i, j \in DOMAIN await[c] :
        await[c][i].sync = await[c][j].sync => i = j

FreeAlarmsHaveNoCounter == \A a \in Alarms : alarm[a].state = "free" => alarm[a].sync = None

\* an object is dying while FreeCounter walks its list, of which only the
\* part not yet told is left; other walks are on live objects
WalkFitsObject ==
    /\ walk.kind = "none" => walk = Idle
    /\ walk.kind \in {"change", "fence"} => walk.sync \in Syncs /\ live[walk.sync] = "live"
    /\ walk.kind = "fence" => walk.sync \in Fences
    /\ walk.kind = "destroy" =>
          /\ walk.sync \in Counters \cup Fences /\ live[walk.sync] = "dying"
          /\ LET q == list[walk.sync] IN
             IF walk.at = None THEN DOMAIN q = {}
             ELSE walk.at \in DOMAIN q /\ DOMAIN q = q[walk.at] \cup {walk.at}
    /\ \A s \in Syncs : live[s] = "dying" => walk.kind = "destroy" /\ walk.sync = s
    /\ live[ServerTime] = "live"

IndInv ==
    /\ TypeOK /\ ListsAreExact /\ WalkIsInList /\ WaitsAreHeld
    /\ CondsAreDistinct /\ FreeAlarmsHaveNoCounter /\ WalkFitsObject

\* What the truth of triggers depends on besides: clients do not change alarms
\* in a way that is refused half-way, do not ask for SERVERTIME while its wakeup
\* is due, and set no alarm on it.
QuietClients ==
    ~RefusedChanges /\ ~AskedWhenDue /\ \A ch \in Changes : ch.counter # ServerTime

\* the CheckTrigger function of an alarm is the one of its test type, whose
\* sign that of delta fits
AlarmsAgree ==
    \A a \in Alarms :
        LET r == alarm[a] IN
        /\ r.check = r.test
        /\ r.test \in {"PositiveComparison", "PositiveTransition"} => r.delta >= 0
        /\ r.test \in {"NegativeComparison", "NegativeTransition"} => r.delta <= 0

CondsFitSync ==
    \A c \in Clients : \A i \in DOMAIN await[c] :
        await[c][i].test = "Fence" <=> await[c][i].sync \in Fences

NoTimeAlarms == \A a \in Alarms : alarm[a].sync # ServerTime

\* a walk of a list of triggers has yet to look at t
Ahead(s, t) ==
    /\ walk.sync = s
    /\ \/ walk.kind = "fence"
       \/ walk.kind = "change" /\ walk.at # None /\ t \in {walk.at} \cup list[s][walk.at]

\* what is true and waits is what the walk under way has yet to look at
PassedAreFalse ==
    \A s \in Syncs : \A t \in DOMAIN list[s] :
        CheckTrigger(t, value[s]) =>
            Ahead(s, t) \/ (t.of \in Alarms /\ alarm[t.of].state = "Inactive")

\* the value of SERVERTIME lags behind the clock, and what waits for it to reach
\* a value has that value among the brackets
TimeIsBracketed ==
    /\ value[ServerTime] <= clock
    /\ \A t \in DOMAIN list[ServerTime] :
          LET g == Trigger(t, await, alarm)
          IN  /\ g.test = "PositiveComparison" /\ g.value < Half - 1
              /\ value[ServerTime] < g.value
              => g.value \in brackets

\* the inductive invariant of triggers that are true
TruthInv == CondsFitSync /\ NoTimeAlarms /\ PassedAreFalse /\ TimeIsBracketed

-----------------------------------------------------------------------------
\* The server goes on with a walk and with closing a client, and time passes.
\* However many requests there are, Dispatch comes back to WaitForSomething,
\* which ServertimeBlockHandler wakes by the deadline: SF of the wakeup.
FairSpec ==
    /\ Spec
    /\ WF_vars(WalkStep) /\ WF_vars(Tick) /\ SF_vars(Wakeup)
    /\ \A c \in Clients : WF_vars(Close(c))

SleepsUntil(c) ==
    \E i \in DOMAIN await[c] :
        /\ await[c][i].sync = ServerTime /\ await[c][i].test = "PositiveComparison"
        /\ await[c][i].value <= MaxNow

\* A client that awaits a time is served again, or gone.
TimeComes == \A c \in Clients : SleepsUntil(c) ~> ~SleepsUntil(c)
=============================================================================
