-------------------------------- MODULE Sync --------------------------------
(***************************************************************************)
(* The SYNC extension, Xext/sync.d with the fences of miext/sync/misync.d: *)
(* counters and fences, the triggers registered on them, clients that      *)
(* sleep in an Await until one of its conditions comes true, and alarms.   *)
(*                                                                         *)
(* SyncChangeCounter, FreeCounter, miSyncTriggerFence and                  *)
(* miSyncDestroyFence walk the triggers of an object while what they call  *)
(* unlinks triggers and frees what holds them: a walk takes one step per   *)
(* trigger.  ServerTime is the counter whose value is the clock; it is     *)
(* walked by a wakeup handler, armed for the earliest trigger ahead.       *)
(***************************************************************************)
EXTENDS Integers, Sequences

CONSTANTS
    Clients, Counters, Fences, Alarms,
    OwnerOf,        \* whose range a resource's id is in
    ServerTime,     \* the SERVERTIME counter
    None,           \* XID None, and the end of a list
    Keep,           \* an attribute that ChangeAlarm leaves alone
    Half,           \* 2^63
    Values,         \* values that counters are created with and set to
    Amounts,        \* by how much ChangeCounter changes one
    Waits,          \* the lists of wait conditions of Await and AwaitFence
    Changes,        \* the attributes of CreateAlarm and ChangeAlarm
    RefusedChanges, \* do clients change alarms in a way SyncInitTrigger refuses?
    AskedWhenDue,   \* may SERVERTIME be asked for between a deadline and its wakeup?
    MaxNow          \* bound: the clock

Syncs == Counters \cup Fences \cup {ServerTime}
Resources == Counters \cup Fences \cup Alarms
Int64 == -Half .. Half - 1
Comparisons == {"PositiveComparison", "NegativeComparison"}
Transitions == {"PositiveTransition", "NegativeTransition"}
Tests == Comparisons \cup Transitions \cup {"Fence"}
Types == {"absolute", "relative"}

WaitCond == [sync : Syncs, type : Types, wait : Int64, test : Tests]
Change == [counter : Counters \cup {ServerTime, None, Keep}, type : Types \cup {Keep},
           wait : Int64 \cup {Keep}, test : Comparisons \cup Transitions \cup {Keep},
           delta : Int64 \cup {Keep}]

\* a SyncTrigger: the i-th condition of a client's Await, or an alarm's only one
Triggers == [of : Clients \cup Alarms, i : Nat]
AlarmTrigger(a) == [of |-> a, i |-> 0]

ASSUME HalfAssumption == Half \in Nat \ {0}
ASSUME ValuesAssumption ==
    Values \subseteq Int64 /\ Amounts \subseteq Int64 /\ MaxNow \in Nat /\ MaxNow < Half - 1
ASSUME InputsAssumption ==
    /\ Waits \subseteq Seq(WaitCond) \ {<<>>} /\ Changes \subseteq Change
    /\ \A w \in Waits : \A i \in DOMAIN w : (w[i].test = "Fence") <=> (w[i].sync \in Fences)
ASSUME OwnerAssumption == OwnerOf \in [Resources -> Clients]
ASSUME NamesAssumption ==
    /\ Clients \cap Alarms = {} /\ Counters \cap Fences = {}
    /\ ServerTime \notin Counters \cup Fences /\ None \notin Syncs
    /\ None \notin Triggers
    /\ Keep \notin Syncs \cup {None} /\ Keep \notin Types \cup Tests /\ Keep \notin Int64

VARIABLES
    live,       \* of an object: "free", "live" or "dying" (beingDestroyed)
    value,      \* a counter's value; of a fence, 1 while triggered
    list,       \* pTriglist: of each trigger in it, those behind it
    await,      \* of a client: the conditions of its Await, <<>> if it has none
    alarm,      \* the alarms
    ignored,    \* how often a client is ignored
    phase,      \* of a client: "up", "closing" or "gone"
    walk,       \* the walk under way
    clock,      \* GetTimeInMillis
    brackets    \* test values SERVERTIME has ahead; *pnext_time is the least

vars == <<live, value, list, await, alarm, ignored, phase, walk, clock, brackets>>

Idle == [kind |-> "none", sync |-> None, at |-> None, old |-> 0]
NoAlarm == [state |-> "free", sync |-> None, type |-> "absolute", wait |-> 0,
            test |-> "PositiveComparison", check |-> "PositiveComparison",
            value |-> 0, delta |-> 0]

-----------------------------------------------------------------------------
(* Trigger lists.                                                          *)

Without(q, T) == [t \in DOMAIN q \ T |-> q[t] \ T]

\* the conditions of a client's Await are put in front, one after the other
WithConds(q, T) ==
    [t \in DOMAIN q \cup T |->
        IF t \in T THEN (DOMAIN q \ T) \cup {u \in T : u.i < t.i} ELSE q[t]]

First(q) == IF DOMAIN q = {} THEN {None} ELSE {t \in DOMAIN q : q[t] = DOMAIN q \ {t}}

NextOf(q, t) == IF q[t] = {} THEN {None} ELSE {u \in q[t] : q[t] = q[u] \cup {u}}

-----------------------------------------------------------------------------
(* Triggers.                                                               *)

\* CheckTrigger of test value x, where the counter went from old to v
Holds(test, x, v, old) ==
    \/ test = "PositiveComparison" /\ v >= x
    \/ test = "NegativeComparison" /\ v <= x
    \/ test = "PositiveTransition" /\ old < x /\ v >= x
    \/ test = "NegativeTransition" /\ old > x /\ v <= x
    \/ test = "Fence" /\ v = 1

Trigger(t, aw, al) == IF t.of \in Alarms THEN al[t.of] ELSE aw[t.of][t.i]

CheckTrigger(t, old) ==
    LET g == Trigger(t, await, alarm)
    IN  Holds(IF t.of \in Alarms THEN g.check ELSE g.test, g.value, value[g.sync], old)

\* SyncComputeBracketValues for SERVERTIME, which never decreases: a
\* PositiveTransition is not looked for
Brackets(q, now, aw, al) ==
    {x \in Int64 :
        /\ now < x /\ x < Half - 1
        /\ \E t \in DOMAIN q :
              LET g == Trigger(t, aw, al)
              IN  x = g.value /\ g.test \in {"PositiveComparison", "NegativeTransition"}}

\* (mutant: Now > *pnext_time)
DueLate == \E x \in brackets : clock > x

Due == \E x \in brackets : clock >= x

\* SERVERTIME is asked for its value when a trigger is set up on it
MayAsk(s) == s = ServerTime => AskedWhenDue \/ \A x \in brackets : clock < x
Asked(syncs) == IF ServerTime \in syncs THEN [value EXCEPT ![ServerTime] = clock] ELSE value

\* a test value of SyncInitTrigger, and what is left of one too large
TestValue(type, wait, base) == IF type = "absolute" THEN wait ELSE base + wait
Wrap(x) == ((x + Half) % (2 * Half)) - Half

-----------------------------------------------------------------------------
(* Awaits and alarms that fire, and their ends.                            *)

CondTriggers(c, s) ==
    {[of |-> c, i |-> i] : i \in {j \in DOMAIN await[c] : await[c][j].sync = s}}

\* (mutant: FreeAwait unlinks from a counter that is being destroyed, too)
UnlinkedAll(c) == [s \in Syncs |-> Without(list[s], CondTriggers(c, s))]

\* FreeAwait: FreeCounter frees the list of a counter that is being destroyed
Unlinked(c) ==
    [s \in Syncs |->
        IF live[s] = "dying" THEN list[s] ELSE Without(list[s], CondTriggers(c, s))]

AwaitsOn(c, s) == \E i \in DOMAIN await[c] : await[c][i].sync = s

FreeAwait(c, l) ==
    /\ await' = [await EXCEPT ![c] = <<>>]
    /\ list' = l
    /\ brackets' = IF AwaitsOn(c, ServerTime)
                   THEN Brackets(l[ServerTime], value[ServerTime], await, alarm)
                   ELSE brackets
    /\ UNCHANGED alarm

\* (mutant: the end of a counter does not attend the client)
FireAwaitOnce(c, l) ==
    /\ ignored' = IF walk.kind = "destroy" THEN ignored ELSE [ignored EXCEPT ![c] = @ - 1]
    /\ FreeAwait(c, l)

\* SyncAwaitTriggerFired; l is what FreeAwait leaves of the lists
FireAwait(c, l) ==
    /\ ignored' = [ignored EXCEPT ![c] = @ - 1]
    /\ FreeAwait(c, l)

Released(a) ==
    LET r == alarm[a] IN
    /\ alarm' = [alarm EXCEPT ![a] = NoAlarm]
    /\ list' = IF r.sync = None THEN list
               ELSE [list EXCEPT ![r.sync] = Without(@, {AlarmTrigger(a)})]
    /\ brackets' = IF r.sync = ServerTime
                   THEN Brackets(list'[ServerTime], value[ServerTime], await, alarm)
                   ELSE brackets

\* the test values at which "repeatedly adding delta" stops, the trigger being
\* false; none at an overflow, nor where it would go on for ever
Updates(r, v) ==
    LET x(n) == r.value + n * r.delta
        goes(n) == x(n) \in Int64 /\ Holds(r.check, x(n), v, v)
    IN  {y \in Int64 :
            \E n \in 1 .. 2 * Half :
                y = x(n) /\ ~goes(n) /\ \A m \in 1 .. n - 1 : goes(m)}

\* SyncAlarmTriggerFired of an alarm whose counter has the value v
Fired(r, v) ==
    IF r.state # "Active" THEN r
    ELSE IF \/ r.sync = None \/ (r.delta = 0 /\ r.test \in Comparisons)
            \/ Updates(r, v) = {}
    THEN [r EXCEPT !.state = "Inactive"]
    ELSE [r EXCEPT !.value = CHOOSE y \in Updates(r, v) : TRUE]

-----------------------------------------------------------------------------
Init ==
    /\ live = [s \in Syncs |-> IF s = ServerTime THEN "live" ELSE "free"]
    /\ value = [s \in Syncs |-> 0]
    /\ list = [s \in Syncs |-> <<>>]
    /\ await = [c \in Clients |-> <<>>]
    /\ alarm = [a \in Alarms |-> NoAlarm]
    /\ ignored = [c \in Clients |-> 0]
    /\ phase = [c \in Clients |-> "up"]
    /\ walk = Idle
    /\ clock = 0
    /\ brackets = {}

\* the server handles one request, wakeup or closing at a time
Resting == walk = Idle /\ \A c \in Clients : phase[c] # "closing"

Request(c) == Resting /\ phase[c] = "up" /\ ignored[c] = 0

Start(kind, s, old) ==
    \E t \in First(list[s]) : walk' = [kind |-> kind, sync |-> s, at |-> t, old |-> old]

-----------------------------------------------------------------------------
(* Counters and fences.                                                    *)

CreateSync(c, s, v) ==
    /\ Request(c) /\ OwnerOf[s] = c /\ live[s] = "free"
    /\ live' = [live EXCEPT ![s] = "live"]
    /\ value' = [value EXCEPT ![s] = v]
    /\ UNCHANGED <<list, await, alarm, ignored, phase, walk, clock, brackets>>

CreateCounter(c, k) == \E v \in Values : CreateSync(c, k, v)
CreateFence(c, f) == \E v \in {0, 1} : CreateSync(c, f, v)

\* the start of SyncChangeCounter
UpdateCounter(k, v) ==
    /\ value' = [value EXCEPT ![k] = v]
    /\ Start("change", k, value[k])
    /\ UNCHANGED <<live, list, await, alarm, ignored, phase, clock, brackets>>

SetCounter(c, k, v) == Request(c) /\ live[k] = "live" /\ UpdateCounter(k, v)

ChangeCounter(c, k, d) ==
    /\ Request(c) /\ live[k] = "live"
    /\ value[k] + d \in Int64
    /\ UpdateCounter(k, value[k] + d)

\* a user counter's value is not changed by asking for it
QueryCounter(c) ==
    /\ Request(c) /\ MayAsk(ServerTime)
    /\ value' = Asked({ServerTime})
    /\ UNCHANGED <<live, list, await, alarm, ignored, phase, walk, clock, brackets>>

TriggerFence(c, f) ==
    /\ Request(c) /\ live[f] = "live"
    /\ value' = [value EXCEPT ![f] = 1]
    /\ walk' = [kind |-> "fence", sync |-> f, at |-> None, old |-> 0]
    /\ UNCHANGED <<live, list, await, alarm, ignored, phase, clock, brackets>>

ResetFence(c, f) ==
    /\ Request(c) /\ live[f] = "live" /\ value[f] = 1
    /\ value' = [value EXCEPT ![f] = 0]
    /\ UNCHANGED <<live, list, await, alarm, ignored, phase, walk, clock, brackets>>

\* FreeResource of a counter or a fence: the start of FreeCounter and miSyncDestroyFence
FreeSync(s) ==
    /\ live' = [live EXCEPT ![s] = "dying"]
    /\ Start("destroy", s, 0)
    /\ UNCHANGED <<value, list, await, alarm, ignored, phase, clock, brackets>>

DestroySync(c, s) == Request(c) /\ live[s] = "live" /\ FreeSync(s)

-----------------------------------------------------------------------------
(* Await and AwaitFence.                                                   *)

\* (mutant: the overflow check of SyncInitTrigger is missing)
CondKnown(w) == live[w.sync] = "live"

CondAccepted(w) ==
    /\ live[w.sync] = "live"
    /\ TestValue(w.type, w.wait, Asked({w.sync})[w.sync]) \in Int64

SyncsOf(w) == {w[i].sync : i \in DOMAIN w}

\* the conditions of an Await, whose triggers are registered
Condition(w, val) ==
    [i \in DOMAIN w |->
        [sync |-> w[i].sync, test |-> w[i].test,
         value |-> TestValue(w[i].type, w[i].wait, val[w[i].sync])]]

Registered(c, w) ==
    [s \in Syncs |->
        WithConds(list[s], {[of |-> c, i |-> i] : i \in {j \in DOMAIN w : w[j].sync = s}})]

\* (mutant: only the first condition is checked)
FirstIsTrue(conds, val) ==
    LET v == val[conds[1].sync] IN Holds(conds[1].test, conds[1].value, v, v)

\* SyncAwaitEpilogue: is a condition true already?
AlreadyTrue(conds, val) ==
    \E i \in DOMAIN conds :
        LET v == val[conds[i].sync] IN Holds(conds[i].test, conds[i].value, v, v)

Await(c, w) ==
    LET val == Asked(SyncsOf(w))
        conds == Condition(w, val)
        waits == ~AlreadyTrue(conds, val)
    IN  /\ Request(c) /\ \A i \in DOMAIN w : CondAccepted(w[i]) /\ MayAsk(w[i].sync)
        /\ value' = val
        \* an Await that is over at once is unlinked and freed again, its client attended
        /\ IF waits
           THEN /\ await' = [await EXCEPT ![c] = conds]
                /\ list' = Registered(c, w)
                /\ ignored' = [ignored EXCEPT ![c] = @ + 1]
           ELSE UNCHANGED <<await, list, ignored>>
        /\ brackets' = IF ServerTime \in SyncsOf(w)
                       THEN Brackets(list'[ServerTime], clock, await', alarm)
                       ELSE brackets
        /\ UNCHANGED <<live, alarm, phase, walk, clock>>

\* the conditions before the first bad one are registered and unlinked again
AwaitRefused(c, w) ==
    \E j \in DOMAIN w :
        LET before == {w[i].sync : i \in 1 .. j - 1}
            asked == IF live[w[j].sync] = "live" THEN before \cup {w[j].sync} ELSE before
        IN  /\ Request(c) /\ \A s \in asked : MayAsk(s)
            /\ ~CondAccepted(w[j]) /\ \A i \in 1 .. j - 1 : CondAccepted(w[i])
            /\ value' = Asked(asked)
            /\ brackets' = IF ServerTime \in before
                           THEN Brackets(list[ServerTime], clock, await, alarm)
                           ELSE brackets
            /\ UNCHANGED <<live, list, await, alarm, ignored, phase, walk, clock>>

-----------------------------------------------------------------------------
(* Alarms.                                                                 *)

Or(new, old) == IF new = Keep THEN old ELSE new

\* the attributes that SyncChangeAlarmAttributes assigns before SyncInitTrigger
Assigned(r, ch) ==
    [r EXCEPT !.type = Or(ch.type, @), !.wait = Or(ch.wait, @),
              !.test = Or(ch.test, @), !.delta = Or(ch.delta, @)]

BadMatch(r, ch) ==
    /\ ch.delta # Keep \/ ch.test # Keep
    /\ \/ r.test \in {"PositiveComparison", "PositiveTransition"} /\ r.delta < 0
       \/ r.test \in {"NegativeComparison", "NegativeTransition"} /\ r.delta > 0

\* (mutant: CheckTrigger is left as it is)
OldCheck(r, ch) == r.check

\* the CheckTrigger function
Check(r, ch) == IF ch.test = Keep THEN r.check ELSE r.test

\* what SyncInitTrigger makes of an alarm, its counter being s, of value v
Initialised(r, ch, s, v) ==
    LET sets == ch.type # Keep \/ ch.wait # Keep
        x == TestValue(r.type, r.wait, v)
        unknown == ch.counter \notin {Keep, None} /\ live[ch.counter] # "live"
        baseless == sets /\ r.type = "relative" /\ s = None
        overflow == sets /\ ~baseless /\ x \notin Int64
    IN  IF unknown \/ baseless THEN [ok |-> FALSE, alarm |-> r]
        ELSE IF overflow THEN [ok |-> FALSE, alarm |-> [r EXCEPT !.value = Wrap(x)]]
        ELSE [ok |-> TRUE,
              alarm |-> [r EXCEPT !.sync = s, !.state = "Active",
                                  !.value = IF sets THEN x ELSE @,
                                  !.check = Check(r, ch)]]

\* (mutant: the trigger is left in the old object's list)
MovedAndLeft(a, from, to) ==
    [s \in Syncs |->
        IF from # to /\ s = to THEN WithConds(list[s], {AlarmTrigger(a)}) ELSE list[s]]

\* the list of each object once an alarm's trigger is moved from one to another
Moved(a, from, to) ==
    LET t == {AlarmTrigger(a)} IN
    [s \in Syncs |->
        IF from = to THEN list[s]
        ELSE IF s = to THEN WithConds(list[s], t) ELSE Without(list[s], t)]

\* SyncChangeAlarmAttributes of an alarm that was r, and what follows it
\* where it succeeds; a refused CreateAlarm frees the alarm
SetUp(a, r, ch) ==
    LET new == Assigned(r, ch)
        s == Or(ch.counter, r.sync)
        known == s = None \/ live[s] = "live"
        val == IF known /\ ~BadMatch(new, ch) THEN Asked({s}) ELSE value
        v == IF s = None THEN 0 ELSE val[s]
        init == Initialised(new, ch, s, v)
        g == init.alarm
        created == alarm[a].state = "free"
        fires == s = None \/ Holds(g.check, g.value, v, v)
    IN  /\ MayAsk(s)
        /\ value' = val
        /\ IF BadMatch(new, ch) \/ ~init.ok
           THEN /\ created \/ RefusedChanges \/ BadMatch(new, ch)
                /\ alarm' = IF created \/ BadMatch(new, ch) THEN alarm
                            ELSE [alarm EXCEPT ![a] = g]
                /\ UNCHANGED <<list, brackets>>
           ELSE /\ list' = Moved(a, r.sync, s)
                /\ brackets' = IF ServerTime \in {r.sync, s}
                               THEN Brackets(list'[ServerTime], val[ServerTime], await,
                                             [alarm EXCEPT ![a] = g])
                               ELSE brackets
                /\ alarm' = [alarm EXCEPT ![a] = IF fires THEN Fired(g, v) ELSE g]
        /\ UNCHANGED <<live, await, ignored, phase, walk, clock>>

CreateAlarm(c, a, ch) ==
    /\ Request(c) /\ OwnerOf[a] = c /\ alarm[a].state = "free"
    /\ SetUp(a, [NoAlarm EXCEPT !.state = "Inactive", !.delta = 1], ch)

ChangeAlarm(c, a, ch) ==
    /\ Request(c) /\ alarm[a].state # "free"
    /\ SetUp(a, alarm[a], ch)

DestroyAlarm(c, a) ==
    /\ Request(c) /\ alarm[a].state # "free"
    /\ Released(a)
    /\ UNCHANGED <<live, value, await, ignored, phase, walk, clock>>

-----------------------------------------------------------------------------
(* The walks.                                                              *)

\* SyncChangeCounter looks at a trigger; the next one is read before this fires
ChangeStep ==
    LET t == walk.at
        q == list[walk.sync]
    IN  /\ walk.kind = "change" /\ t \in DOMAIN q
        /\ \E next \in NextOf(q, t) : walk' = [walk EXCEPT !.at = next]
        /\ IF ~CheckTrigger(t, walk.old)
           THEN UNCHANGED <<list, await, alarm, ignored, brackets>>
           ELSE IF t.of \in Alarms
           THEN /\ alarm' = [alarm EXCEPT ![t.of] = Fired(@, value[walk.sync])]
                /\ UNCHANGED <<list, await, ignored, brackets>>
           ELSE FireAwait(t.of, Unlinked(t.of))
        /\ UNCHANGED <<live, value, phase, clock>>

ChangeEnd ==
    /\ walk.kind = "change" /\ walk.at = None
    /\ walk' = Idle
    /\ brackets' = IF walk.sync = ServerTime
                   THEN Brackets(list[ServerTime], value[ServerTime], await, alarm)
                   ELSE brackets
    /\ UNCHANGED <<live, value, list, await, alarm, ignored, phase, clock>>

\* FreeCounter and miSyncDestroyFence tell a trigger and free its entry
DestroyStep ==
    LET t == walk.at
        s == walk.sync
        told == IF t.of \in Alarms THEN list ELSE Unlinked(t.of)
        \* the next trigger is read after this was told; a freed entry has none
        after == IF t \in DOMAIN told[s] THEN NextOf(told[s], t) ELSE {t}
        l == [told EXCEPT ![s] = Without(@, {t})]
    IN  /\ walk.kind = "destroy" /\ t \in DOMAIN list[s]
        /\ \E next \in after : walk' = [walk EXCEPT !.at = next]
        /\ IF t.of \in Alarms
           THEN /\ alarm' = [alarm EXCEPT ![t.of].state = "Inactive", ![t.of].sync = None]
                /\ list' = l
                /\ UNCHANGED <<await, ignored, brackets>>
           ELSE FireAwait(t.of, l)
        /\ UNCHANGED <<live, value, phase, clock>>

DestroyEnd ==
    /\ walk.kind = "destroy" /\ walk.at = None
    /\ walk' = Idle
    /\ live' = [live EXCEPT ![walk.sync] = "free"]
    /\ value' = [value EXCEPT ![walk.sync] = 0]
    /\ UNCHANGED <<list, await, alarm, ignored, phase, clock, brackets>>

\* miSyncTriggerFence starts again at the head after each trigger it fires
FenceStep ==
    /\ walk.kind = "fence" /\ DOMAIN list[walk.sync] # {}
    /\ \E t \in First(list[walk.sync]) : FireAwait(t.of, Unlinked(t.of))
    /\ UNCHANGED <<live, value, phase, walk, clock>>

FenceEnd ==
    /\ walk.kind = "fence" /\ DOMAIN list[walk.sync] = {}
    /\ walk' = Idle
    /\ UNCHANGED <<live, value, list, await, alarm, ignored, phase, clock, brackets>>

WalkStep ==
    ChangeStep \/ ChangeEnd \/ DestroyStep \/ DestroyEnd \/ FenceStep \/ FenceEnd

-----------------------------------------------------------------------------
(* Clients that end, and time.                                             *)

\* CloseDownClient; FreeClientResources frees them in no order to rely on
CloseDown(c) ==
    /\ Resting /\ phase[c] = "up"
    /\ phase' = [phase EXCEPT ![c] = "closing"]
    /\ UNCHANGED <<live, value, list, await, alarm, ignored, walk, clock, brackets>>

Closing(c) == walk = Idle /\ phase[c] = "closing"

CloseAwait(c) ==
    /\ Closing(c) /\ await[c] # <<>>
    /\ FreeAwait(c, Unlinked(c))
    /\ UNCHANGED <<live, value, ignored, phase, walk, clock>>

CloseSync(c, s) == Closing(c) /\ OwnerOf[s] = c /\ live[s] = "live" /\ FreeSync(s)

CloseAlarm(c, a) ==
    /\ Closing(c) /\ OwnerOf[a] = c /\ alarm[a].state # "free"
    /\ Released(a)
    /\ UNCHANGED <<live, value, await, ignored, phase, walk, clock>>

CloseEnd(c) ==
    /\ Closing(c) /\ await[c] = <<>>
    /\ \A s \in Counters \cup Fences : OwnerOf[s] = c => live[s] = "free"
    /\ \A a \in Alarms : OwnerOf[a] = c => alarm[a].state = "free"
    /\ phase' = [phase EXCEPT ![c] = "gone"]
    /\ ignored' = [ignored EXCEPT ![c] = 0]
    /\ UNCHANGED <<live, value, list, await, alarm, walk, clock, brackets>>

Close(c) ==
    \/ CloseAwait(c) \/ CloseEnd(c)
    \/ \E s \in Counters \cup Fences : CloseSync(c, s)
    \/ \E a \in Alarms : CloseAlarm(c, a)

Tick ==
    /\ clock < MaxNow
    /\ clock' = clock + 1
    /\ UNCHANGED <<live, value, list, await, alarm, ignored, phase, walk, brackets>>

\* ServertimeWakeupHandler, which ServertimeBlockHandler has woken in time
Wakeup == Resting /\ Due /\ UpdateCounter(ServerTime, clock)

Next ==
    \/ \E c \in Clients :
          \/ \E k \in Counters : CreateCounter(c, k)
          \/ \E f \in Fences : CreateFence(c, f) \/ TriggerFence(c, f) \/ ResetFence(c, f)
          \/ \E k \in Counters, v \in Values : SetCounter(c, k, v)
          \/ \E k \in Counters, d \in Amounts : ChangeCounter(c, k, d)
          \/ \E s \in Counters \cup Fences : DestroySync(c, s)
          \/ QueryCounter(c)
          \/ \E w \in Waits : Await(c, w) \/ AwaitRefused(c, w)
          \/ \E a \in Alarms, ch \in Changes : CreateAlarm(c, a, ch) \/ ChangeAlarm(c, a, ch)
          \/ \E a \in Alarms : DestroyAlarm(c, a)
          \/ CloseDown(c) \/ Close(c)
    \/ WalkStep
    \/ Tick \/ Wakeup

Spec == Init /\ [][Next]_vars
=============================================================================
