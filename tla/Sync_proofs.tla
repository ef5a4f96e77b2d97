---------------------------- MODULE Sync_proofs ----------------------------
(* Proofs about the SYNC extension: its trigger lists, the walks over them,*)
(* the clients that wait, and what they wait for.                          *)
EXTENDS SyncProps, TLAPS

-----------------------------------------------------------------------------
(* Constants and lists.                                                    *)

LEMMA ConstFacts ==
    /\ Half \in Nat \ {0} /\ MaxNow \in Nat /\ MaxNow < Half - 1
    /\ Values \subseteq Int64 /\ Amounts \subseteq Int64
    /\ 0 \in Int64 /\ 1 \in Int64 /\ Int64 \subseteq Int /\ \A n \in 0 .. MaxNow : n \in Int64
    /\ ServerTime \in Syncs /\ None \notin Syncs
    /\ Counters \subseteq Syncs /\ Fences \subseteq Syncs
    /\ None \notin Triggers
  BY HalfAssumption, ValuesAssumption, NamesAssumption DEF Int64, Syncs

LEMMA WithoutFacts ==
    ASSUME NEW q, NEW T
    PROVE  /\ DOMAIN Without(q, T) = DOMAIN q \ T
           /\ \A t \in DOMAIN q \ T : Without(q, T)[t] = q[t] \ T
           /\ IsList(q) => IsList(Without(q, T))
  BY DEF Without, IsList

LEMMA WithCondsFacts ==
    ASSUME NEW q, NEW T \in SUBSET Triggers
    PROVE  /\ DOMAIN WithConds(q, T) = DOMAIN q \cup T
           /\ IsList(q) => IsList(WithConds(q, T))
  BY DEF WithConds, IsList, Triggers

LEMMA AskedType ==
    ASSUME TypeOK, NEW S
    PROVE  Asked(S) \in [Syncs -> Int64]
  BY ConstFacts DEF TypeOK, Asked

LEMMA BracketsType ==
    ASSUME NEW q, NEW now, NEW aw, NEW al
    PROVE  Brackets(q, now, aw, al) \subseteq Int64
  BY DEF Brackets

\* the parts that depend on the lists and what waits in them
LEMMA ExactUnchanged ==
    ASSUME ListsAreExact, UNCHANGED <<list, await, alarm>>,
           \A s \in Syncs : live[s] # "free" /\ DOMAIN list[s] # {} => live'[s] # "free"
    PROVE  ListsAreExact'
  BY DEF ListsAreExact, Exists, SyncOf, Trigger

LEMMA StartFacts ==
    ASSUME NEW kind, NEW s \in Syncs, NEW old, Start(kind, s, old), TypeOK
    PROVE  /\ walk' = [kind |-> kind, sync |-> s, at |-> walk'.at, old |-> old]
           /\ IF walk'.at = None THEN DOMAIN list[s] = {}
              ELSE walk'.at \in DOMAIN list[s] /\ DOMAIN list[s] = list[s][walk'.at] \cup {walk'.at}
           /\ walk'.at \in Triggers \cup {None}
<1>1. PICK t \in First(list[s]) : walk' = [kind |-> kind, sync |-> s, at |-> t, old |-> old]
  BY DEF Start
<1>2. IsList(list[s])
  BY DEF TypeOK
<1>3. CASE DOMAIN list[s] = {}
  BY <1>1, <1>3, NamesAssumption DEF First
<1>4. CASE DOMAIN list[s] # {}
  <2>1. t \in DOMAIN list[s] /\ list[s][t] = DOMAIN list[s] \ {t}
    BY <1>1, <1>4 DEF First
  <2>2. t \in Triggers
    BY <1>2, <2>1 DEF IsList
  <2> QED
    BY <1>1, <2>1, <2>2, NamesAssumption
<1> QED
  BY <1>3, <1>4

-----------------------------------------------------------------------------
(* What is in a list, and what FreeAwait leaves of it.                     *)

LEMMA InList ==
    ASSUME IndInv, NEW s \in Syncs, NEW t \in DOMAIN list[s]
    PROVE  /\ t \in Triggers /\ t # None /\ t = [of |-> t.of, i |-> t.i]
           /\ live[s] # "free" /\ list[s][t] \subseteq DOMAIN list[s] \ {t}
           /\ t.of \in Alarms => t = AlarmTrigger(t.of) /\ alarm[t.of].sync = s
           /\ t.of \notin Alarms => /\ t.of \in Clients /\ t.i \in DOMAIN await[t.of]
                                   /\ await[t.of][t.i].sync = s
<1>1. t \in Triggers /\ list[s][t] \subseteq DOMAIN list[s] \ {t}
  BY DEF IndInv, TypeOK, IsList
<1>2. Exists(t) /\ SyncOf(t) = s /\ live[s] # "free"
  BY DEF IndInv, ListsAreExact
<1> QED
  BY <1>1, <1>2, ConstFacts DEF Triggers, Exists, SyncOf, Trigger, AlarmTrigger

LEMMA OnePerList ==
    ASSUME IndInv, NEW s \in Syncs, NEW t \in DOMAIN list[s], NEW u \in DOMAIN list[s],
           t.of = u.of
    PROVE  t = u
<1>1. CASE t.of \in Alarms
  BY <1>1, InList
<1>2. CASE t.of \notin Alarms
  <2>1. t.i = u.i
    BY <1>2, InList DEF IndInv, CondsAreDistinct
  <2> QED
    BY <2>1, InList
<1> QED
  BY <1>1, <1>2

LEMMA UnlinkedFacts ==
    ASSUME IndInv, NEW c \in Clients
    PROVE  /\ DOMAIN Unlinked(c) = Syncs
           /\ \A s \in Syncs :
                 /\ IsList(Unlinked(c)[s])
                 /\ live[s] = "dying" => Unlinked(c)[s] = list[s]
                 /\ live[s] # "dying" =>
                       DOMAIN Unlinked(c)[s] = {t \in DOMAIN list[s] : t.of # c}
<1>1. DOMAIN Unlinked(c) = Syncs
  BY DEF Unlinked
<1>2. ASSUME NEW s \in Syncs
      PROVE  /\ IsList(Unlinked(c)[s])
             /\ live[s] = "dying" => Unlinked(c)[s] = list[s]
  BY WithoutFacts DEF Unlinked, IndInv, TypeOK
<1>3. ASSUME NEW s \in Syncs, live[s] # "dying"
      PROVE  DOMAIN Unlinked(c)[s] = {t \in DOMAIN list[s] : t.of # c}
  <2>1. DOMAIN Unlinked(c)[s] = DOMAIN list[s] \ CondTriggers(c, s)
    BY <1>3, WithoutFacts DEF Unlinked
  <2>2. ASSUME NEW t \in DOMAIN list[s]
        PROVE  t \in CondTriggers(c, s) <=> t.of = c
    <3>1. t.of = c => t.of \notin Alarms
      BY NamesAssumption
    <3> QED
      BY <3>1, InList DEF CondTriggers
  <2> QED
    BY <2>1, <2>2
<1> QED
  BY <1>1, <1>2, <1>3

LEMMA ExactAfterFree ==
    ASSUME IndInv, NEW c \in Clients,
           await' = [await EXCEPT ![c] = <<>>], alarm' = alarm, live' = live,
           \A s \in Syncs : DOMAIN list'[s] = {t \in DOMAIN list[s] : t.of # c}
    PROVE  ListsAreExact' /\ CondsAreDistinct' /\ FreeAlarmsHaveNoCounter'
<1>0. await \in [Clients -> Seq(Cond)] /\ alarm \in [Alarms -> Alarm]
  BY DEF IndInv, TypeOK
<1>1. ASSUME NEW s \in Syncs, NEW t \in DOMAIN list'[s]
      PROVE  Exists(t)' /\ SyncOf(t)' = s /\ live'[s] # "free"
  <2>1. t \in DOMAIN list[s] /\ t.of # c
    OBVIOUS
  <2>2. Exists(t) /\ SyncOf(t) = s /\ live[s] # "free"
    BY <2>1 DEF IndInv, ListsAreExact
  <2>3. t.of \notin Alarms => t.of \in Clients
    BY <2>1, InList
  <2> QED
    BY <1>0, <2>1, <2>2, <2>3 DEF Exists, SyncOf, Trigger
<1>2. ASSUME NEW d \in Clients, NEW i \in DOMAIN await'[d]
      PROVE  [of |-> d, i |-> i] \in DOMAIN list'[await'[d][i].sync]
  <2>1. d # c /\ await'[d] = await[d]
    BY <1>0
  <2>2. await[d][i] \in Cond
    BY <1>0, <2>1
  <2>3. await[d][i].sync \in Syncs
    BY <2>2 DEF Cond
  <2>4. [of |-> d, i |-> i] \in DOMAIN list[await[d][i].sync]
    BY <2>1 DEF IndInv, ListsAreExact
  <2> QED
    BY <2>1, <2>3, <2>4
<1>3. ASSUME NEW a \in Alarms, alarm'[a].sync # None
      PROVE  AlarmTrigger(a) \in DOMAIN list'[alarm'[a].sync]
  <2>1. alarm[a] \in Alarm
    BY <1>0
  <2>2. alarm[a].sync \in Syncs
    BY <1>3, <2>1 DEF Alarm, Syncs
  <2>3. AlarmTrigger(a) \in DOMAIN list[alarm[a].sync]
    BY <1>3 DEF IndInv, ListsAreExact
  <2>4. AlarmTrigger(a).of # c
    BY NamesAssumption DEF AlarmTrigger
  <2> QED
    BY <2>2, <2>3, <2>4
<1>4. CondsAreDistinct'
  BY <1>0 DEF IndInv, CondsAreDistinct
<1>5. FreeAlarmsHaveNoCounter'
  BY DEF IndInv, FreeAlarmsHaveNoCounter
<1> QED
  BY <1>1, <1>2, <1>3, <1>4, <1>5 DEF ListsAreExact

LEMMA FreeAwaitTypes ==
    ASSUME TypeOK, NEW c \in Clients, NEW l, FreeAwait(c, l),
           DOMAIN l = Syncs, \A s \in Syncs : IsList(l[s])
    PROVE  /\ await' \in [Clients -> Seq(Cond)] /\ alarm' \in [Alarms -> Alarm]
           /\ list' = l /\ brackets' \subseteq Int64 /\ alarm' = alarm
           /\ await' = [await EXCEPT ![c] = <<>>]
<1>1. <<>> \in Seq(Cond)
  OBVIOUS
<1> QED
  BY <1>1, BracketsType DEF TypeOK, FreeAwait

-----------------------------------------------------------------------------
(* Steps that leave lists, Awaits and alarms alone.                        *)

LEMMA QuietStep ==
    ASSUME IndInv, UNCHANGED <<list, await, alarm>>, TypeOK', WalkIsInList', WalkFitsObject',
           \A s \in Syncs : live[s] # "free" /\ DOMAIN list[s] # {} => live'[s] # "free",
           \A c \in Clients : phase'[c] = "up" => phase[c] = "up" /\ ignored'[c] = ignored[c]
    PROVE  IndInv'
<1>1. ListsAreExact'
  BY ExactUnchanged DEF IndInv
<1>2. WaitsAreHeld'
  BY DEF IndInv, WaitsAreHeld
<1>3. CondsAreDistinct' /\ FreeAlarmsHaveNoCounter'
  BY DEF IndInv, CondsAreDistinct, FreeAlarmsHaveNoCounter
<1> QED
  BY <1>1, <1>2, <1>3 DEF IndInv

LEMMA RestingFacts ==
    ASSUME IndInv, walk = Idle
    PROVE  \A s \in Syncs : live[s] # "dying"
  BY DEF IndInv, WalkFitsObject, Idle

\* what SyncChangeCounter starts with
LEMMA UpdateCounterStep ==
    ASSUME IndInv, NEW k \in Syncs, NEW v \in Int64, live[k] = "live", walk = Idle,
           UpdateCounter(k, v)
    PROVE  IndInv'
<1>0. TypeOK /\ value[k] \in Int64
  BY DEF IndInv, TypeOK
<1>1. /\ walk' = [kind |-> "change", sync |-> k, at |-> walk'.at, old |-> value[k]]
      /\ walk'.at # None => walk'.at \in DOMAIN list[k]
      /\ walk'.at \in Triggers \cup {None}
  BY <1>0, StartFacts DEF UpdateCounter
<1>2. TypeOK'
  BY <1>0, <1>1 DEF UpdateCounter, TypeOK
<1>3. WalkIsInList' /\ WalkFitsObject'
  BY <1>1, RestingFacts DEF UpdateCounter, WalkIsInList, WalkFitsObject, IndInv
<1> QED
  BY <1>2, <1>3, QuietStep DEF UpdateCounter

LEMMA FreeSyncStep ==
    ASSUME IndInv, NEW s \in Counters \cup Fences, walk = Idle, FreeSync(s)
    PROVE  IndInv'
<1>0. TypeOK /\ s \in Syncs
  BY DEF IndInv, Syncs
<1>1. /\ walk' = [kind |-> "destroy", sync |-> s, at |-> walk'.at, old |-> 0]
      /\ IF walk'.at = None THEN DOMAIN list[s] = {}
         ELSE /\ walk'.at \in DOMAIN list[s]
              /\ DOMAIN list[s] = list[s][walk'.at] \cup {walk'.at}
      /\ walk'.at \in Triggers \cup {None}
  BY <1>0, StartFacts DEF FreeSync
<1>2. TypeOK'
  BY <1>0, <1>1, ConstFacts DEF FreeSync, TypeOK
<1>3. live' = [live EXCEPT ![s] = "dying"] /\ s # ServerTime
  BY NamesAssumption DEF FreeSync
<1>4. WalkIsInList' /\ WalkFitsObject'
  BY <1>0, <1>1, <1>3, RestingFacts DEF FreeSync, WalkIsInList, WalkFitsObject, IndInv, TypeOK
<1> QED
  BY <1>2, <1>3, <1>4, QuietStep DEF FreeSync, TypeOK

LEMMA CreateSyncStep ==
    ASSUME IndInv, NEW c \in Clients, NEW s \in Counters \cup Fences, NEW v \in Int64,
           CreateSync(c, s, v)
    PROVE  IndInv'
<1>0. TypeOK /\ s \in Syncs /\ s # ServerTime /\ walk = Idle
  BY NamesAssumption DEF IndInv, Syncs, CreateSync, Request, Resting
<1>1. TypeOK'
  BY <1>0 DEF CreateSync, TypeOK
<1>2. WalkIsInList' /\ WalkFitsObject'
  BY <1>0, RestingFacts DEF CreateSync, WalkIsInList, WalkFitsObject, IndInv, TypeOK, Idle
<1> QED
  BY <1>0, <1>1, <1>2, QuietStep DEF CreateSync, TypeOK

LEMMA QueryStep ==
    ASSUME IndInv, NEW c \in Clients, QueryCounter(c)
    PROVE  IndInv'
<1>1. TypeOK'
  BY AskedType DEF IndInv, TypeOK, QueryCounter
<1>2. WalkIsInList' /\ WalkFitsObject'
  BY DEF IndInv, QueryCounter, WalkIsInList, WalkFitsObject, Idle
<1> QED
  BY <1>1, <1>2, QuietStep DEF QueryCounter

LEMMA FenceStateStep ==
    ASSUME IndInv, NEW c \in Clients, NEW f \in Fences, TriggerFence(c, f) \/ ResetFence(c, f)
    PROVE  IndInv'
<1>0. walk = Idle /\ live[f] = "live" /\ f \in Syncs
  BY ConstFacts DEF TriggerFence, ResetFence, Request, Resting
<1>a. TriggerFence(c, f) =>
          /\ value' = [value EXCEPT ![f] = 1]
          /\ walk' = [kind |-> "fence", sync |-> f, at |-> None, old |-> 0]
  BY DEF TriggerFence
<1>b. ResetFence(c, f) => value' = [value EXCEPT ![f] = 0] /\ walk' = walk
  BY DEF ResetFence
<1>c. UNCHANGED <<live, list, await, alarm, ignored, phase, clock, brackets>>
  BY DEF TriggerFence, ResetFence
<1>1. TypeOK'
  <2>1. value' \in [Syncs -> Int64]
    <3>1. value \in [Syncs -> Int64] /\ 0 \in Int64 /\ 1 \in Int64
      BY ConstFacts DEF IndInv, TypeOK
    <3>2. value' = [value EXCEPT ![f] = 1] \/ value' = [value EXCEPT ![f] = 0]
      BY <1>a, <1>b
    <3> QED
      BY <3>1, <3>2
  <2>2. walk' \in [kind : {"none", "change", "destroy", "fence"}, sync : Syncs \cup {None},
                   at : Triggers \cup {None}, old : Int64]
    BY <1>0, <1>a, <1>b, ConstFacts DEF IndInv, TypeOK
  <2> QED
    BY <1>c, <2>1, <2>2 DEF IndInv, TypeOK
<1>2. WalkIsInList' /\ WalkFitsObject'
  BY <1>0, RestingFacts DEF IndInv, TriggerFence, ResetFence, WalkIsInList, WalkFitsObject, Idle
<1> QED
  BY <1>1, <1>2, QuietStep DEF TriggerFence, ResetFence

LEMMA AwaitRefusedStep ==
    ASSUME IndInv, NEW c \in Clients, NEW w \in Waits, AwaitRefused(c, w)
    PROVE  IndInv'
<1>1. PICK j \in DOMAIN w :
        LET before == {w[i].sync : i \in 1 .. j - 1}
            asked == IF live[w[j].sync] = "live" THEN before \cup {w[j].sync} ELSE before
        IN  /\ value' = Asked(asked)
            /\ brackets' = IF ServerTime \in before
                           THEN Brackets(list[ServerTime], clock, await, alarm)
                           ELSE brackets
            /\ UNCHANGED <<live, list, await, alarm, ignored, phase, walk, clock>>
  BY DEF AwaitRefused
<1>2. TypeOK'
  BY <1>1, AskedType, BracketsType DEF IndInv, TypeOK
<1>3. WalkIsInList' /\ WalkFitsObject'
  BY <1>1 DEF IndInv, WalkIsInList, WalkFitsObject, Idle
<1> QED
  BY <1>1, <1>2, <1>3, QuietStep

LEMMA WalkEndStep ==
    ASSUME IndInv, ChangeEnd \/ FenceEnd \/ DestroyEnd
    PROVE  IndInv'
<1>1. walk' = Idle /\ UNCHANGED <<list, await, alarm, ignored, phase, clock>>
  BY DEF ChangeEnd, FenceEnd, DestroyEnd
<1>2. walk.kind # "destroy" => live' = live /\ value' = value
  BY DEF ChangeEnd, FenceEnd, DestroyEnd
<1>3. walk.kind = "destroy" => /\ walk.at = None /\ live' = [live EXCEPT ![walk.sync] = "free"]
                              /\ value' = [value EXCEPT ![walk.sync] = 0]
  BY DEF ChangeEnd, FenceEnd, DestroyEnd
<1>4. brackets' \subseteq Int64
  BY BracketsType DEF ChangeEnd, FenceEnd, DestroyEnd, IndInv, TypeOK
<1>5. walk.kind = "destroy" => /\ walk.sync \in Counters \cup Fences /\ walk.sync \in Syncs
                              /\ DOMAIN list[walk.sync] = {}
  BY <1>3 DEF IndInv, WalkFitsObject, Syncs
<1>6. TypeOK'
  <2>1. live' \in [Syncs -> {"free", "live", "dying"}] /\ value' \in [Syncs -> Int64]
    <3>0. live \in [Syncs -> {"free", "live", "dying"}] /\ value \in [Syncs -> Int64]
      BY DEF IndInv, TypeOK
    <3>1. CASE walk.kind = "destroy"
      BY <1>3, <1>5, <3>0, <3>1, ConstFacts
    <3>2. CASE walk.kind # "destroy"
      BY <1>2, <3>0, <3>2
    <3> QED
      BY <3>1, <3>2
  <2>2. walk' \in [kind : {"none", "change", "destroy", "fence"}, sync : Syncs \cup {None},
                   at : Triggers \cup {None}, old : Int64]
    BY <1>1, ConstFacts DEF Idle
  <2> QED
    BY <1>1, <1>4, <2>1, <2>2 DEF IndInv, TypeOK
<1>7. WalkIsInList'
  BY <1>1 DEF WalkIsInList, Idle
<1>8. WalkFitsObject'
  <2>1. live'[ServerTime] = "live" /\ \A s \in Syncs : live'[s] # "dying"
    <3>1. CASE walk.kind = "destroy"
      <4>1. live \in [Syncs -> {"free", "live", "dying"}] /\ ServerTime \in Syncs
        BY ConstFacts DEF IndInv, TypeOK
      <4>2. live[ServerTime] = "live" /\ \A s \in Syncs : live[s] = "dying" => walk.sync = s
        BY DEF IndInv, WalkFitsObject
      <4>3. walk.sync # ServerTime
        BY <1>5, <3>1, NamesAssumption
      <4> QED
        BY <1>3, <1>5, <3>1, <4>1, <4>2, <4>3
    <3>2. CASE walk.kind # "destroy"
      BY <1>2, <3>2 DEF IndInv, WalkFitsObject
    <3> QED
      BY <3>1, <3>2
  <2> QED
    BY <1>1, <2>1 DEF WalkFitsObject, Idle
<1>9. \A s \in Syncs : live[s] # "free" /\ DOMAIN list[s] # {} => live'[s] # "free"
  BY <1>2, <1>3, <1>5 DEF IndInv, TypeOK
<1> QED
  BY <1>1, <1>6, <1>7, <1>8, <1>9, QuietStep

LEMMA PhaseStep ==
    ASSUME IndInv, NEW c \in Clients, CloseDown(c) \/ CloseEnd(c)
    PROVE  IndInv'
<1>1. TypeOK'
  <2>1. phase' \in [Clients -> {"up", "closing", "gone"}] /\ ignored' \in [Clients -> Int]
    <3>0. phase \in [Clients -> {"up", "closing", "gone"}] /\ ignored \in [Clients -> Int]
      BY DEF IndInv, TypeOK
    <3>1. CASE CloseDown(c)
      BY <3>0, <3>1 DEF CloseDown
    <3>2. CASE CloseEnd(c)
      BY <3>0, <3>2 DEF CloseEnd
    <3> QED
      BY <3>1, <3>2
  <2>2. UNCHANGED <<live, value, list, await, alarm, walk, clock, brackets>>
    BY DEF CloseDown, CloseEnd
  <2> QED
    BY <2>1, <2>2 DEF IndInv, TypeOK
<1>2. WalkIsInList' /\ WalkFitsObject'
  BY DEF IndInv, CloseDown, CloseEnd, WalkIsInList, WalkFitsObject, Idle
<1> QED
  BY <1>1, <1>2, QuietStep DEF CloseDown, CloseEnd, IndInv, TypeOK

LEMMA TickStep == IndInv /\ Tick => IndInv'
<1> SUFFICES ASSUME IndInv, Tick PROVE IndInv'
  OBVIOUS
<1>1. TypeOK'
  BY ConstFacts DEF IndInv, TypeOK, Tick
<1>2. WalkIsInList' /\ WalkFitsObject'
  BY DEF IndInv, Tick, WalkIsInList, WalkFitsObject, Idle
<1> QED
  BY <1>1, <1>2, QuietStep DEF Tick

-----------------------------------------------------------------------------
(* Steps of a walk.                                                        *)

LEMMA FiredFacts ==
    ASSUME NEW r \in Alarm, NEW v
    PROVE  /\ Fired(r, v) \in Alarm /\ Fired(r, v).sync = r.sync
           /\ Fired(r, v).state = "free" <=> r.state = "free"
<1>1. CASE Fired(r, v) = r
  BY <1>1
<1>2. CASE r.state # "free" /\ Fired(r, v) = [r EXCEPT !.state = "Inactive"]
  BY <1>2 DEF Alarm
<1>3. CASE /\ r.state # "free" /\ Updates(r, v) # {}
           /\ Fired(r, v) = [r EXCEPT !.value = CHOOSE y \in Updates(r, v) : TRUE]
  <2>1. (CHOOSE y \in Updates(r, v) : TRUE) \in Int64
    BY <1>3 DEF Updates
  <2> QED
    BY <1>3, <2>1 DEF Alarm
<1> QED
  BY <1>1, <1>2, <1>3 DEF Fired

\* an alarm that changes without moving leaves every list exact
LEMMA ExactAfterAlarm ==
    ASSUME IndInv, NEW a \in Alarms, NEW g \in Alarm, alarm' = [alarm EXCEPT ![a] = g],
           g.sync = alarm[a].sync, g.state = "free" <=> alarm[a].state = "free",
           UNCHANGED <<list, await, live>>
    PROVE  ListsAreExact' /\ CondsAreDistinct' /\ FreeAlarmsHaveNoCounter'
<1>0. alarm \in [Alarms -> Alarm]
  BY DEF IndInv, TypeOK
<1>1. ListsAreExact'
  BY <1>0 DEF IndInv, ListsAreExact, Exists, SyncOf, Trigger
<1>2. CondsAreDistinct'
  BY DEF IndInv, CondsAreDistinct
<1>3. FreeAlarmsHaveNoCounter'
  BY <1>0 DEF IndInv, FreeAlarmsHaveNoCounter
<1> QED
  BY <1>1, <1>2, <1>3

\* the client of a trigger in a list has an Await; it is attended and freed
LEMMA AwaitEnds ==
    ASSUME IndInv, NEW s \in Syncs, NEW t \in DOMAIN list[s], t.of \notin Alarms, NEW l,
           FireAwait(t.of, l), UNCHANGED <<live, value, phase, clock>>,
           DOMAIN l = Syncs, \A u \in Syncs : IsList(l[u]),
           \A u \in Syncs : DOMAIN l[u] = {x \in DOMAIN list[u] : x.of # t.of},
           walk' \in [kind : {"none", "change", "destroy", "fence"}, sync : Syncs \cup {None},
                      at : Triggers \cup {None}, old : Int64]
    PROVE  TypeOK' /\ ListsAreExact' /\ WaitsAreHeld' /\ CondsAreDistinct' /\ FreeAlarmsHaveNoCounter'
<1> DEFINE c == t.of
<1>1. c \in Clients /\ await[c] # <<>>
  <2>1. c \in Clients /\ t.i \in DOMAIN await[c]
    BY InList
  <2> QED
    BY <2>1
<1>2. /\ await' \in [Clients -> Seq(Cond)] /\ alarm' \in [Alarms -> Alarm]
      /\ list' = l /\ brackets' \subseteq Int64 /\ alarm' = alarm
      /\ await' = [await EXCEPT ![c] = <<>>]
  BY <1>1, FreeAwaitTypes DEF FireAwait, IndInv
<1>3. ignored' = [ignored EXCEPT ![c] = @ - 1] /\ ignored \in [Clients -> Int]
  BY DEF FireAwait, IndInv, TypeOK
<1>4. TypeOK'
  BY <1>2, <1>3 DEF IndInv, TypeOK
<1>5. WaitsAreHeld'
  BY <1>1, <1>2, <1>3 DEF IndInv, TypeOK, WaitsAreHeld
<1>6. ListsAreExact' /\ CondsAreDistinct' /\ FreeAlarmsHaveNoCounter'
  BY <1>1, <1>2, ExactAfterFree
<1> QED
  BY <1>4, <1>5, <1>6

LEMMA NextFacts ==
    ASSUME NEW q, IsList(q), NEW t \in DOMAIN q, NEW u \in NextOf(q, t)
    PROVE  /\ u # None => u \in DOMAIN q /\ u # t /\ u \in q[t] /\ q[t] = q[u] \cup {u}
           /\ u = None => q[t] = {}
           /\ u \in Triggers \cup {None}
<1>1. CASE q[t] = {}
  BY <1>1 DEF NextOf
<1>2. CASE q[t] # {}
  BY <1>2, ConstFacts DEF NextOf, IsList
<1> QED
  BY <1>1, <1>2

LEMMA ChangeStepStep == IndInv /\ ChangeStep => IndInv'
<1> SUFFICES ASSUME IndInv, ChangeStep PROVE IndInv'
  OBVIOUS
<1> DEFINE t == walk.at
           s == walk.sync
           q == list[s]
<1>0. /\ walk.kind = "change" /\ t \in DOMAIN q /\ s \in Syncs /\ live[s] = "live"
      /\ UNCHANGED <<live, value, phase, clock>>
      /\ TypeOK /\ IsList(q)
  BY DEF ChangeStep, IndInv, WalkFitsObject, TypeOK
<1>1. PICK next \in NextOf(q, t) : walk' = [walk EXCEPT !.at = next]
  BY DEF ChangeStep
<1>2. /\ next # None => next \in DOMAIN q /\ next # t
      /\ next \in Triggers \cup {None}
  BY <1>0, NextFacts
<1>3. /\ walk' \in [kind : {"none", "change", "destroy", "fence"}, sync : Syncs \cup {None},
                    at : Triggers \cup {None}, old : Int64]
      /\ walk'.kind = "change" /\ walk'.sync = s /\ walk'.at = next
  BY <1>0, <1>1, <1>2 DEF TypeOK
<1>4. WalkFitsObject'
  BY <1>0, <1>3 DEF IndInv, WalkFitsObject
<1>5. CASE UNCHANGED <<list, await, alarm, ignored, brackets>>
  <2>1. TypeOK'
    BY <1>0, <1>3, <1>5 DEF TypeOK
  <2>2. WalkIsInList'
    BY <1>2, <1>3, <1>5 DEF WalkIsInList
  <2> QED
    BY <1>0, <1>4, <1>5, <2>1, <2>2, QuietStep
<1>6. CASE /\ t.of \in Alarms
           /\ alarm' = [alarm EXCEPT ![t.of] = Fired(@, value[s])]
           /\ UNCHANGED <<list, await, ignored, brackets>>
  <2> DEFINE g == Fired(alarm[t.of], value[s])
  <2>1. alarm \in [Alarms -> Alarm]
    BY <1>0 DEF TypeOK
  <2>2. alarm' = [alarm EXCEPT ![t.of] = g]
    BY <1>6, <2>1
  <2>3. g \in Alarm /\ g.sync = alarm[t.of].sync /\ (g.state = "free" <=> alarm[t.of].state = "free")
    BY <1>6, <2>1, FiredFacts
  <2> HIDE DEF g
  <2>4. alarm' \in [Alarms -> Alarm]
    BY <1>6, <2>1, <2>2, <2>3
  <2>5. TypeOK'
    BY <1>0, <1>3, <1>6, <2>4 DEF TypeOK
  <2>6. ListsAreExact' /\ CondsAreDistinct' /\ FreeAlarmsHaveNoCounter'
    BY <1>0, <1>6, <2>2, <2>3, ExactAfterAlarm
  <2>7. WaitsAreHeld' /\ WalkIsInList'
    BY <1>0, <1>2, <1>3, <1>6 DEF IndInv, WaitsAreHeld, WalkIsInList
  <2> QED
    BY <1>4, <2>5, <2>6, <2>7 DEF IndInv
<1>7. CASE t.of \notin Alarms /\ FireAwait(t.of, Unlinked(t.of))
  <2> DEFINE l == Unlinked(t.of)
  <2>1. t.of \in Clients
    BY <1>0, <1>7, InList
  <2>2. \A u \in Syncs : live[u] # "dying"
    BY <1>0 DEF IndInv, WalkFitsObject
  <2>3. /\ DOMAIN l = Syncs
        /\ \A u \in Syncs : IsList(l[u]) /\ DOMAIN l[u] = {x \in DOMAIN list[u] : x.of # t.of}
    BY <2>1, <2>2, UnlinkedFacts
  <2> HIDE DEF l
  <2>4. FireAwait(t.of, l)
    BY <1>7 DEF l
  <2>5. TypeOK' /\ ListsAreExact' /\ WaitsAreHeld' /\ CondsAreDistinct' /\ FreeAlarmsHaveNoCounter'
    BY <1>0, <1>3, <1>7, <2>3, <2>4, AwaitEnds
  <2>6. list' = l
    BY <2>4 DEF FireAwait, FreeAwait
  <2>7. WalkIsInList'
    <3>1. next # None => next.of # t.of
      BY <1>0, <1>2, OnePerList
    <3> QED
      BY <1>0, <1>2, <1>3, <2>3, <2>6, <3>1 DEF WalkIsInList
  <2> QED
    BY <1>4, <2>5, <2>7 DEF IndInv
<1> QED
  BY <1>5, <1>6, <1>7 DEF ChangeStep

\* the list that is walked loses the trigger told, and the walk goes on with
\* the first of those behind it, which are all that is left
LEMMA DestroyStepStep == IndInv /\ DestroyStep => IndInv'
<1> SUFFICES ASSUME IndInv, DestroyStep PROVE IndInv'
  OBVIOUS
<1> DEFINE t == walk.at
           s == walk.sync
           q == list[s]
           told == IF t.of \in Alarms THEN list ELSE Unlinked(t.of)
           l == [told EXCEPT ![s] = Without(@, {t})]
<1>0. /\ walk.kind = "destroy" /\ t \in DOMAIN q /\ s \in Counters \cup Fences /\ s \in Syncs
      /\ live[s] = "dying" /\ \A u \in Syncs : live[u] = "dying" => u = s
      /\ UNCHANGED <<live, value, phase, clock>>
      /\ TypeOK /\ IsList(q)
  BY DEF DestroyStep, IndInv, WalkFitsObject, TypeOK, Syncs
<1>1. DOMAIN q = q[t] \cup {t} /\ t \notin q[t]
  BY <1>0, ConstFacts DEF IndInv, WalkFitsObject, IsList
<1>2. /\ DOMAIN told = Syncs /\ told[s] = q
      /\ \A u \in Syncs : IsList(told[u])
      /\ t.of \notin Alarms =>
            \A u \in Syncs \ {s} : DOMAIN told[u] = {x \in DOMAIN list[u] : x.of # t.of}
  <2>1. CASE t.of \in Alarms
    BY <1>0, <2>1 DEF TypeOK
  <2>2. CASE t.of \notin Alarms
    <3>1. t.of \in Clients
      BY <1>0, <2>2, InList
    <3> QED
      BY <1>0, <2>2, <3>1, UnlinkedFacts
  <2> QED
    BY <2>1, <2>2
<1>3. PICK next \in NextOf(q, t) : walk' = [walk EXCEPT !.at = next]
  BY <1>0, <1>2 DEF DestroyStep
<1>4. /\ next # None => next \in DOMAIN q /\ next # t /\ q[t] = q[next] \cup {next}
      /\ next = None => q[t] = {}
      /\ next \in Triggers \cup {None}
  BY <1>0, NextFacts
<1>5. /\ walk' \in [kind : {"none", "change", "destroy", "fence"}, sync : Syncs \cup {None},
                    at : Triggers \cup {None}, old : Int64]
      /\ walk'.kind = "destroy" /\ walk'.sync = s /\ walk'.at = next
  BY <1>0, <1>3, <1>4 DEF TypeOK
<1>6. /\ DOMAIN l = Syncs /\ \A u \in Syncs : IsList(l[u])
      /\ \A u \in Syncs \ {s} : l[u] = told[u]
      /\ l[s] = Without(q, {t})
  BY <1>0, <1>2, WithoutFacts
<1>7. list' = l
  BY DEF DestroyStep, FireAwait, FreeAwait
<1> HIDE DEF l, told
<1>8. DOMAIN l[s] = DOMAIN q \ {t} /\ \A u \in DOMAIN q \ {t} : l[s][u] = q[u] \ {t}
  <2>1. DOMAIN Without(q, {t}) = DOMAIN q \ {t}
    BY WithoutFacts
  <2>2. \A u \in DOMAIN q \ {t} : Without(q, {t})[u] = q[u] \ {t}
    BY WithoutFacts
  <2> QED
    BY <1>6, <2>1, <2>2
<1>9. WalkIsInList'
  BY <1>4, <1>5, <1>7, <1>8 DEF WalkIsInList
<1>10. WalkFitsObject'
  <2>1. next = None => DOMAIN l[s] = {}
    BY <1>1, <1>4, <1>8
  <2>2. next # None => next \in DOMAIN l[s] /\ DOMAIN l[s] = l[s][next] \cup {next}
    BY <1>1, <1>4, <1>8
  <2> QED
    BY <1>0, <1>5, <1>7, <2>1, <2>2 DEF WalkFitsObject, IndInv
<1>11. CASE t.of \in Alarms
  <2> DEFINE a == t.of
             g == [alarm[a] EXCEPT !.state = "Inactive", !.sync = None]
  <2>0. alarm \in [Alarms -> Alarm] /\ alarm[a] \in Alarm
    BY <1>0, <1>11 DEF TypeOK
  <2>1. alarm' = [alarm EXCEPT ![a] = g] /\ UNCHANGED <<await, ignored, brackets>>
    BY <1>11, <2>0 DEF DestroyStep
  <2>2. g \in Alarm /\ g.sync = None /\ g.state = "Inactive"
    BY <2>0 DEF Alarm
  <2> HIDE DEF g
  <2>3. TypeOK'
    BY <1>0, <1>5, <1>6, <1>7, <1>11, <2>0, <2>1, <2>2 DEF TypeOK
  <2>4. t = AlarmTrigger(a) /\ alarm[a].sync = s
    BY <1>0, <1>11, InList
  <2>5. told = list
    BY <1>11 DEF told
  <2>6. ASSUME NEW u \in Syncs, NEW x \in DOMAIN l[u]
        PROVE  Exists(x)' /\ SyncOf(x)' = u /\ live'[u] # "free"
    <3>1. x \in DOMAIN list[u] /\ (u = s => x # t)
      BY <1>6, <1>8, <2>5, <2>6
    <3>2. Exists(x) /\ SyncOf(x) = u /\ live[u] # "free"
      BY <3>1 DEF IndInv, ListsAreExact
    <3>3. x.of # a
      <4>1. x.of = a => alarm[a].sync = u /\ x = AlarmTrigger(a)
        BY <1>11, <3>1, InList
      <4> QED
        BY <2>4, <3>1, <4>1
    <3> QED
      BY <1>0, <2>0, <2>1, <3>2, <3>3 DEF Exists, SyncOf, Trigger
  <2>7. ASSUME NEW d \in Clients, NEW i \in DOMAIN await[d]
        PROVE  [of |-> d, i |-> i] \in DOMAIN l[await[d][i].sync]
    <3>0. await[d] \in Seq(Cond)
      BY <1>0 DEF TypeOK
    <3>a. await[d][i] \in Cond
      BY <2>7, <3>0
    <3>1. await[d][i].sync \in Syncs
      BY <3>a DEF Cond
    <3>2. [of |-> d, i |-> i] \in DOMAIN list[await[d][i].sync]
      BY DEF IndInv, ListsAreExact
    <3>3. [of |-> d, i |-> i] # t
      BY <1>11, NamesAssumption
    <3> QED
      BY <1>6, <1>8, <2>5, <3>1, <3>2, <3>3
  <2>8. ASSUME NEW b \in Alarms, alarm'[b].sync # None
        PROVE  AlarmTrigger(b) \in DOMAIN l[alarm'[b].sync]
    <3>1. b # a /\ alarm'[b] = alarm[b]
      BY <2>0, <2>1, <2>2, <2>8
    <3>2. alarm[b].sync \in Syncs
      BY <2>0, <2>8, <3>1 DEF Alarm, Syncs
    <3>3. AlarmTrigger(b) \in DOMAIN list[alarm[b].sync]
      BY <2>8, <3>1 DEF IndInv, ListsAreExact
    <3>4. AlarmTrigger(b) # t
      BY <2>4, <3>1 DEF AlarmTrigger
    <3> QED
      BY <1>6, <1>8, <2>5, <3>1, <3>2, <3>3, <3>4
  <2>9. ListsAreExact'
    BY <1>7, <2>1, <2>6, <2>7, <2>8 DEF ListsAreExact
  <2>10. WaitsAreHeld' /\ CondsAreDistinct' /\ FreeAlarmsHaveNoCounter'
    BY <1>0, <2>0, <2>1, <2>2
       DEF IndInv, WaitsAreHeld, CondsAreDistinct, FreeAlarmsHaveNoCounter
  <2> QED
    BY <1>9, <1>10, <2>3, <2>9, <2>10 DEF IndInv
<1>12. CASE t.of \notin Alarms
  <2>1. FireAwait(t.of, l)
    BY <1>12 DEF DestroyStep, l, told
  <2>2. \A u \in Syncs : DOMAIN l[u] = {x \in DOMAIN list[u] : x.of # t.of}
    <3>1. \A x \in DOMAIN q : x.of = t.of => x = t
      BY <1>0, OnePerList
    <3> QED
      BY <1>0, <1>2, <1>6, <1>8, <1>12, <3>1
  <2>3. TypeOK' /\ ListsAreExact' /\ WaitsAreHeld' /\ CondsAreDistinct' /\ FreeAlarmsHaveNoCounter'
    BY <1>0, <1>5, <1>6, <1>12, <2>1, <2>2, AwaitEnds
  <2> QED
    BY <1>9, <1>10, <2>3 DEF IndInv
<1> QED
  BY <1>11, <1>12

LEMMA FenceStepStep == IndInv /\ FenceStep => IndInv'
<1> SUFFICES ASSUME IndInv, FenceStep PROVE IndInv'
  OBVIOUS
<1> DEFINE s == walk.sync
<1>0. /\ walk.kind = "fence" /\ s \in Fences /\ s \in Syncs /\ live[s] = "live"
      /\ UNCHANGED <<live, value, phase, walk, clock>> /\ TypeOK
      /\ \A u \in Syncs : live[u] # "dying"
  BY ConstFacts DEF FenceStep, IndInv, WalkFitsObject
<1>1. PICK t \in First(list[s]) : FireAwait(t.of, Unlinked(t.of))
  BY DEF FenceStep
<1>2. t \in DOMAIN list[s]
  BY <1>1 DEF FenceStep, First
<1>3. t.of \notin Alarms /\ t.of \in Clients
  <2>1. t.of \in Alarms => alarm[t.of].sync = s /\ alarm[t.of] \in Alarm
    BY <1>0, <1>2, InList DEF TypeOK
  <2>2. t.of \notin Alarms
    BY <1>0, <2>1, NamesAssumption, ConstFacts DEF Alarm
  <2> QED
    BY <1>0, <1>2, <2>2, InList
<1> DEFINE l == Unlinked(t.of)
<1>4. /\ DOMAIN l = Syncs
      /\ \A u \in Syncs : IsList(l[u]) /\ DOMAIN l[u] = {x \in DOMAIN list[u] : x.of # t.of}
  BY <1>0, <1>3, UnlinkedFacts
<1> HIDE DEF l
<1>5. FireAwait(t.of, l)
  BY <1>1 DEF l
<1>6. TypeOK' /\ ListsAreExact' /\ WaitsAreHeld' /\ CondsAreDistinct' /\ FreeAlarmsHaveNoCounter'
  <2>1. walk' \in [kind : {"none", "change", "destroy", "fence"}, sync : Syncs \cup {None},
                   at : Triggers \cup {None}, old : Int64]
    BY <1>0 DEF TypeOK
  <2> QED
    BY <1>0, <1>2, <1>3, <1>4, <1>5, <2>1, AwaitEnds
<1>7. WalkIsInList' /\ WalkFitsObject'
  BY <1>0 DEF WalkIsInList, WalkFitsObject, IndInv
<1> QED
  BY <1>6, <1>7 DEF IndInv

LEMMA CloseAwaitStep ==
    ASSUME IndInv, NEW c \in Clients, CloseAwait(c)
    PROVE  IndInv'
<1> DEFINE l == Unlinked(c)
<1>0. /\ walk = Idle /\ phase[c] = "closing" /\ FreeAwait(c, l) /\ TypeOK
      /\ UNCHANGED <<live, value, ignored, phase, walk, clock>>
  BY DEF CloseAwait, Closing, IndInv
<1>1. /\ DOMAIN l = Syncs
      /\ \A u \in Syncs : IsList(l[u]) /\ DOMAIN l[u] = {x \in DOMAIN list[u] : x.of # c}
  BY <1>0, RestingFacts, UnlinkedFacts
<1> HIDE DEF l
<1>2. /\ await' \in [Clients -> Seq(Cond)] /\ alarm' \in [Alarms -> Alarm]
      /\ list' = l /\ brackets' \subseteq Int64 /\ alarm' = alarm
      /\ await' = [await EXCEPT ![c] = <<>>]
  BY <1>0, <1>1, FreeAwaitTypes
<1>3. TypeOK'
  BY <1>0, <1>1, <1>2 DEF TypeOK
<1>4. ListsAreExact' /\ CondsAreDistinct' /\ FreeAlarmsHaveNoCounter'
  BY <1>0, <1>1, <1>2, ExactAfterFree
<1>5. WaitsAreHeld'
  BY <1>0, <1>2 DEF IndInv, WaitsAreHeld, TypeOK
<1>6. WalkIsInList' /\ WalkFitsObject'
  BY <1>0 DEF WalkIsInList, WalkFitsObject, IndInv, Idle
<1> QED
  BY <1>3, <1>4, <1>5, <1>6 DEF IndInv

-----------------------------------------------------------------------------
(* Alarms.                                                                 *)

\* an alarm that becomes g is in the list of g's counter and in no other
LEMMA AlarmMoves ==
    ASSUME IndInv, NEW a \in Alarms, NEW g \in Alarm, alarm' = [alarm EXCEPT ![a] = g],
           UNCHANGED <<await, live>>, g.state = "free" => g.sync = None,
           \A u \in Syncs : u = g.sync => live[u] # "free",
           \A u \in Syncs : DOMAIN list'[u] = IF u = g.sync THEN DOMAIN list[u] \cup {AlarmTrigger(a)}
                                              ELSE DOMAIN list[u] \ {AlarmTrigger(a)}
    PROVE  ListsAreExact' /\ CondsAreDistinct' /\ FreeAlarmsHaveNoCounter'
<1>0. alarm \in [Alarms -> Alarm] /\ await \in [Clients -> Seq(Cond)]
  BY DEF IndInv, TypeOK
<1>1. ASSUME NEW u \in Syncs, NEW x \in DOMAIN list'[u]
      PROVE  Exists(x)' /\ SyncOf(x)' = u /\ live'[u] # "free"
  <2>1. CASE x = AlarmTrigger(a)
    <3>1. u = g.sync /\ g.sync # None
      BY <1>1, <2>1, ConstFacts
    <3> QED
      BY <1>0, <2>1, <3>1 DEF Exists, SyncOf, Trigger, AlarmTrigger
  <2>2. CASE x # AlarmTrigger(a)
    <3>1. x \in DOMAIN list[u]
      BY <1>1, <2>2
    <3>2. Exists(x) /\ SyncOf(x) = u /\ live[u] # "free"
      BY <3>1 DEF IndInv, ListsAreExact
    <3>3. x.of # a
      BY <2>2, <3>1, InList
    <3> QED
      BY <1>0, <3>2, <3>3 DEF Exists, SyncOf, Trigger
  <2> QED
    BY <2>1, <2>2
<1>2. ASSUME NEW d \in Clients, NEW i \in DOMAIN await[d]
      PROVE  [of |-> d, i |-> i] \in DOMAIN list'[await[d][i].sync]
  <2>0. await[d] \in Seq(Cond)
    BY <1>0
  <2>1. await[d][i] \in Cond
    BY <1>2, <2>0
  <2>2. await[d][i].sync \in Syncs
    BY <2>1 DEF Cond
  <2>3. [of |-> d, i |-> i] \in DOMAIN list[await[d][i].sync]
    BY DEF IndInv, ListsAreExact
  <2>4. [of |-> d, i |-> i] # AlarmTrigger(a)
    BY NamesAssumption DEF AlarmTrigger
  <2> QED
    BY <2>2, <2>3, <2>4
<1>3. ASSUME NEW b \in Alarms, alarm'[b].sync # None
      PROVE  AlarmTrigger(b) \in DOMAIN list'[alarm'[b].sync]
  <2>0. alarm'[b] \in Alarm
    BY <1>0
  <2>1. alarm'[b].sync \in Syncs
    BY <1>3, <2>0 DEF Alarm, Syncs
  <2>2. CASE b = a
    BY <1>0, <2>1, <2>2
  <2>3. CASE b # a
    <3>1. alarm'[b] = alarm[b]
      BY <1>0, <2>3
    <3>2. AlarmTrigger(b) \in DOMAIN list[alarm[b].sync]
      BY <1>3, <3>1 DEF IndInv, ListsAreExact
    <3>3. AlarmTrigger(b) # AlarmTrigger(a)
      BY <2>3 DEF AlarmTrigger
    <3> QED
      BY <2>1, <3>1, <3>2, <3>3
  <2> QED
    BY <2>2, <2>3
<1>4. ListsAreExact'
  BY <1>1, <1>2, <1>3 DEF ListsAreExact
<1>5. CondsAreDistinct' /\ FreeAlarmsHaveNoCounter'
  BY <1>0 DEF IndInv, CondsAreDistinct, FreeAlarmsHaveNoCounter
<1> QED
  BY <1>4, <1>5

LEMMA ReleasedStep ==
    ASSUME IndInv, NEW a \in Alarms, Released(a), walk = Idle,
           UNCHANGED <<live, value, await, ignored, phase, walk, clock>>
    PROVE  IndInv'
<1> DEFINE r == alarm[a]
<1>0. TypeOK /\ alarm \in [Alarms -> Alarm] /\ r.sync \in Counters \cup {ServerTime, None}
  BY DEF IndInv, TypeOK, Alarm
<1>1. NoAlarm \in Alarm /\ NoAlarm.sync = None /\ NoAlarm.state = "free"
  BY ConstFacts DEF NoAlarm, Alarm, Types, Comparisons
<1>2. alarm' = [alarm EXCEPT ![a] = NoAlarm] /\ brackets' \subseteq Int64
  BY <1>0, BracketsType DEF Released, TypeOK
<1>3. r.sync = None => list' = list
  BY DEF Released
<1>4. r.sync # None =>
        r.sync \in Syncs /\ list' = [list EXCEPT ![r.sync] = Without(@, {AlarmTrigger(a)})]
  BY <1>0 DEF Released, Syncs
<1>5. /\ DOMAIN list' = Syncs
      /\ \A u \in Syncs : IsList(list'[u]) /\ DOMAIN list'[u] = DOMAIN list[u] \ {AlarmTrigger(a)}
  <2>1. ASSUME NEW u \in Syncs, u # r.sync
        PROVE  AlarmTrigger(a) \notin DOMAIN list[u]
    BY <2>1, InList DEF AlarmTrigger
  <2>2. ASSUME NEW u \in Syncs
        PROVE  IsList(list'[u]) /\ DOMAIN list'[u] = DOMAIN list[u] \ {AlarmTrigger(a)}
    <3>0. IsList(list[u]) /\ DOMAIN list = Syncs
      BY <1>0 DEF TypeOK
    <3>1. CASE u = r.sync
      <4>1. list'[u] = Without(list[u], {AlarmTrigger(a)})
        BY <1>4, <3>0, <3>1, ConstFacts
      <4>2. /\ DOMAIN Without(list[u], {AlarmTrigger(a)}) = DOMAIN list[u] \ {AlarmTrigger(a)}
            /\ IsList(list[u]) => IsList(Without(list[u], {AlarmTrigger(a)}))
        BY WithoutFacts
      <4> QED
        BY <3>0, <4>1, <4>2
    <3>2. CASE u # r.sync
      <4>1. list'[u] = list[u]
        BY <1>3, <1>4, <3>0, <3>2
      <4> QED
        BY <2>1, <3>0, <3>2, <4>1
    <3> QED
      BY <3>1, <3>2
  <2>3. DOMAIN list' = Syncs
    BY <1>0, <1>3, <1>4 DEF TypeOK
  <2> QED
    BY <2>2, <2>3
<1>6. TypeOK'
  BY <1>0, <1>1, <1>2, <1>5 DEF TypeOK
<1>7. ListsAreExact' /\ CondsAreDistinct' /\ FreeAlarmsHaveNoCounter'
  BY <1>1, <1>2, <1>5, ConstFacts, AlarmMoves
<1>8. WaitsAreHeld' /\ WalkIsInList' /\ WalkFitsObject'
  BY DEF IndInv, WaitsAreHeld, WalkIsInList, WalkFitsObject, Idle
<1> QED
  BY <1>6, <1>7, <1>8 DEF IndInv

LEMMA WrapType == \A x \in Int : Wrap(x) \in Int64
<1> SUFFICES ASSUME NEW x \in Int PROVE Wrap(x) \in Int64
  OBVIOUS
<1> DEFINE n == 2 * Half
           y == (x + Half) % n
<1>1. n \in Nat \ {0} /\ Half \in Nat /\ n = Half + Half
  BY HalfAssumption
<1>2. x + Half \in Int
  BY <1>1
<1> HIDE DEF n
<1>3. y \in 0 .. n - 1
  BY <1>1, <1>2
<1>4. Wrap(x) = y - Half
  BY DEF Wrap, n
<1> HIDE DEF y
<1> QED
  BY <1>1, <1>3, <1>4 DEF Int64

LEMMA AssignedFacts ==
    ASSUME NEW r \in Alarm, NEW ch \in Changes
    PROVE  /\ Assigned(r, ch) \in Alarm
           /\ Assigned(r, ch).sync = r.sync /\ Assigned(r, ch).state = r.state
<1>1. ch \in Change
  BY InputsAssumption
<1>2. /\ Or(ch.type, r.type) \in Types /\ Or(ch.wait, r.wait) \in Int64
      /\ Or(ch.test, r.test) \in Comparisons \cup Transitions /\ Or(ch.delta, r.delta) \in Int64
  BY <1>1 DEF Or, Alarm, Change
<1> QED
  BY <1>2 DEF Assigned, Alarm

LEMMA InitialisedFacts ==
    ASSUME NEW r \in Alarm, NEW ch \in Changes, NEW s \in Counters \cup {ServerTime, None},
           NEW v \in Int64
    PROVE  LET init == Initialised(r, ch, s, v) IN
           /\ init.alarm \in Alarm
           /\ ~init.ok => init.alarm.sync = r.sync /\ init.alarm.state = r.state
           /\ init.ok => /\ init.alarm.sync = s /\ init.alarm.state = "Active"
                         /\ ch.counter \in {Keep, None} \/ live[ch.counter] = "live"
<1> DEFINE x == TestValue(r.type, r.wait, v)
           g == [r EXCEPT !.sync = s, !.state = "Active",
                          !.value = IF ch.type # Keep \/ ch.wait # Keep THEN x ELSE @,
                          !.check = Check(r, ch)]
           init == Initialised(r, ch, s, v)
<1>1. x \in Int /\ Wrap(x) \in Int64
  <2>1. r.wait \in Int64
    BY DEF Alarm
  <2>2. r.wait \in Int /\ v \in Int
    BY <2>1, ConstFacts
  <2>3. x \in Int
    BY <2>2 DEF TestValue
  <2> QED
    BY <2>3, WrapType
<1>2. Check(r, ch) \in Comparisons \cup Transitions
  BY DEF Check, Alarm
<1>3. [r EXCEPT !.value = Wrap(x)] \in Alarm
  BY <1>1 DEF Alarm
<1>4. ((ch.type # Keep \/ ch.wait # Keep) => x \in Int64) => g \in Alarm
  BY <1>2 DEF Alarm
<1>5. g.sync = s /\ g.state = "Active"
  BY DEF Alarm
<1>6. \/ init = [ok |-> FALSE, alarm |-> r]
      \/ init = [ok |-> FALSE, alarm |-> [r EXCEPT !.value = Wrap(x)]]
      \/ /\ init = [ok |-> TRUE, alarm |-> g] /\ ((ch.type # Keep \/ ch.wait # Keep) => x \in Int64)
         /\ ch.counter \in {Keep, None} \/ live[ch.counter] = "live"
  BY DEF Initialised
<1>7. [r EXCEPT !.value = Wrap(x)].sync = r.sync /\ [r EXCEPT !.value = Wrap(x)].state = r.state
  BY DEF Alarm
<1> HIDE DEF g, x, init
<1> DEFINE Good(i) == /\ i.alarm \in Alarm
                      /\ ~i.ok => i.alarm.sync = r.sync /\ i.alarm.state = r.state
                      /\ i.ok => /\ i.alarm.sync = s /\ i.alarm.state = "Active"
                                 /\ ch.counter \in {Keep, None} \/ live[ch.counter] = "live"
<1>8. Good(init)
  <2>1. CASE init = [ok |-> FALSE, alarm |-> r]
    BY <2>1
  <2>2. CASE init = [ok |-> FALSE, alarm |-> [r EXCEPT !.value = Wrap(x)]]
    BY <1>3, <1>7, <2>2
  <2>3. CASE /\ init = [ok |-> TRUE, alarm |-> g] /\ ((ch.type # Keep \/ ch.wait # Keep) => x \in Int64)
             /\ ch.counter \in {Keep, None} \/ live[ch.counter] = "live"
    <3>1. init.alarm = g /\ init.ok
      BY <2>3
    <3>2. g \in Alarm
      BY <1>4, <2>3
    <3>3. g.sync = s /\ g.state = "Active"
      BY <1>5
    <3>4. ch.counter \in {Keep, None} \/ live[ch.counter] = "live"
      BY <2>3
    <3> QED
      BY <3>1, <3>2, <3>3, <3>4
  <2> QED
    BY <1>6, <2>1, <2>2, <2>3
<1> QED
  BY <1>8 DEF init

LEMMA MovedFacts ==
    ASSUME IndInv, NEW a \in Alarms, NEW s \in Counters \cup {ServerTime, None}
    PROVE  LET l == Moved(a, alarm[a].sync, s) IN
           /\ DOMAIN l = Syncs
           /\ \A u \in Syncs :
                 /\ IsList(l[u])
                 /\ DOMAIN l[u] = IF u = s THEN DOMAIN list[u] \cup {AlarmTrigger(a)}
                                  ELSE DOMAIN list[u] \ {AlarmTrigger(a)}
<1> DEFINE from == alarm[a].sync
           T == {AlarmTrigger(a)}
           l == Moved(a, from, s)
<1>0. DOMAIN l = Syncs
  BY DEF Moved
<1>1. ASSUME NEW u \in Syncs
      PROVE  /\ IsList(l[u])
             /\ DOMAIN l[u] = IF u = s THEN DOMAIN list[u] \cup T ELSE DOMAIN list[u] \ T
  <2>1. IsList(list[u])
    BY DEF IndInv, TypeOK
  <2>2. T \in SUBSET Triggers
    BY DEF AlarmTrigger, Triggers
  <2>3. AlarmTrigger(a) \in DOMAIN list[u] <=> u = from
    <3>1. AlarmTrigger(a) \in DOMAIN list[u] => u = from
      BY InList DEF AlarmTrigger
    <3>2. u = from => AlarmTrigger(a) \in DOMAIN list[u]
      BY ConstFacts DEF IndInv, ListsAreExact
    <3> QED
      BY <3>1, <3>2
  <2>4. CASE from = s
    <3>1. l[u] = list[u]
      BY <2>4 DEF Moved
    <3> QED
      BY <2>1, <2>3, <2>4, <3>1
  <2>5. CASE from # s /\ u = s
    <3>1. l[u] = WithConds(list[u], T)
      BY <2>5 DEF Moved
    <3>2. /\ DOMAIN WithConds(list[u], T) = DOMAIN list[u] \cup T
          /\ IsList(list[u]) => IsList(WithConds(list[u], T))
      BY <2>2, WithCondsFacts
    <3> QED
      BY <2>1, <2>5, <3>1, <3>2
  <2>6. CASE from # s /\ u # s
    <3>1. l[u] = Without(list[u], T)
      BY <2>6 DEF Moved
    <3>2. /\ DOMAIN Without(list[u], T) = DOMAIN list[u] \ T
          /\ IsList(list[u]) => IsList(Without(list[u], T))
      BY WithoutFacts
    <3> QED
      BY <2>1, <2>6, <3>1, <3>2
  <2> QED
    BY <2>4, <2>5, <2>6
<1> QED
  BY <1>0, <1>1

\* a CreateAlarm or ChangeAlarm of an alarm whose attributes were r
LEMMA SetUpStep ==
    ASSUME IndInv, NEW a \in Alarms, NEW ch \in Changes, NEW r \in Alarm,
           r.sync = alarm[a].sync, r.state # "free",
           alarm[a].state # "free" => r = alarm[a],
           walk = Idle, SetUp(a, r, ch)
    PROVE  IndInv'
<1> DEFINE new == Assigned(r, ch)
           s == Or(ch.counter, r.sync)
           known == s = None \/ live[s] = "live"
           val == IF known /\ ~BadMatch(new, ch) THEN Asked({s}) ELSE value
           v == IF s = None THEN 0 ELSE val[s]
           init == Initialised(new, ch, s, v)
           g == init.alarm
           created == alarm[a].state = "free"
           fires == s = None \/ Holds(g.check, g.value, v, v)
           f == IF fires THEN Fired(g, v) ELSE g
<1>0. TypeOK /\ alarm \in [Alarms -> Alarm]
  BY DEF IndInv, TypeOK
<1>1. s \in Counters \cup {ServerTime, None}
  <2>1. ch.counter \in Counters \cup {ServerTime, None, Keep}
    BY InputsAssumption DEF Change
  <2>2. r.sync \in Counters \cup {ServerTime, None}
    BY DEF Alarm
  <2> QED
    BY <2>1, <2>2 DEF Or
<1>2. val \in [Syncs -> Int64] /\ v \in Int64
  <2>1. val \in [Syncs -> Int64]
    BY <1>0, AskedType DEF TypeOK
  <2>2. s # None => s \in Syncs
    BY <1>1 DEF Syncs
  <2> QED
    BY <2>1, <2>2, ConstFacts
<1>3. new \in Alarm /\ new.sync = r.sync /\ new.state = r.state
  BY AssignedFacts
<1>4. /\ g \in Alarm
      /\ ~init.ok => g.sync = new.sync /\ g.state = new.state
      /\ init.ok => /\ g.sync = s /\ g.state = "Active"
                    /\ ch.counter \in {Keep, None} \/ live[ch.counter] = "live"
  <2> HIDE DEF v, s, new
  <2> QED
    BY <1>1, <1>2, <1>3, InitialisedFacts
<1>5. /\ value' = val
      /\ BadMatch(new, ch) \/ ~init.ok =>
            /\ alarm' = alarm \/ (~created /\ alarm' = [alarm EXCEPT ![a] = g] /\ ~init.ok)
            /\ UNCHANGED <<list, brackets>>
      /\ ~(BadMatch(new, ch) \/ ~init.ok) =>
            /\ list' = Moved(a, r.sync, s)
            /\ brackets' \subseteq Int64
            /\ alarm' = [alarm EXCEPT ![a] = f]
            /\ init.ok
      /\ UNCHANGED <<live, await, ignored, phase, walk, clock>>
  <2>1. brackets \subseteq Int64
    BY <1>0 DEF TypeOK
  <2>2. value' = val /\ UNCHANGED <<live, await, ignored, phase, walk, clock>>
    BY DEF SetUp
  <2>3. BadMatch(new, ch) \/ ~init.ok =>
            /\ alarm' = alarm \/ (~created /\ alarm' = [alarm EXCEPT ![a] = g] /\ ~init.ok)
            /\ UNCHANGED <<list, brackets>>
    BY DEF SetUp
  <2>4. ~(BadMatch(new, ch) \/ ~init.ok) => list' = Moved(a, r.sync, s)
    BY DEF SetUp
  <2>5. ~(BadMatch(new, ch) \/ ~init.ok) => alarm' = [alarm EXCEPT ![a] = f]
    BY DEF SetUp
  <2>6. ~(BadMatch(new, ch) \/ ~init.ok) => brackets' \subseteq Int64
    BY <2>1, BracketsType DEF SetUp
  <2> QED
    BY <2>2, <2>3, <2>4, <2>5, <2>6
<1>6. WaitsAreHeld' /\ WalkFitsObject'
  <2>1. WaitsAreHeld'
    BY <1>5 DEF IndInv, WaitsAreHeld
  <2>2. WalkFitsObject'
    BY <1>5 DEF IndInv, WalkFitsObject, Idle
  <2> QED
    BY <2>1, <2>2
<1>7. WalkIsInList'
  BY <1>5 DEF WalkIsInList, Idle
<1> HIDE DEF new, s, val, v, init, fires
<1>8. CASE alarm' = alarm /\ UNCHANGED <<list, brackets>>
  <2>1. TypeOK'
    BY <1>0, <1>2, <1>5, <1>8 DEF TypeOK
  <2>2. ListsAreExact'
    BY <1>5, <1>8, ExactUnchanged DEF IndInv
  <2>3. CondsAreDistinct' /\ FreeAlarmsHaveNoCounter'
    BY <1>5, <1>8 DEF IndInv, CondsAreDistinct, FreeAlarmsHaveNoCounter
  <2> QED
    BY <1>6, <1>7, <2>1, <2>2, <2>3 DEF IndInv
<1>9. CASE ~created /\ alarm' = [alarm EXCEPT ![a] = g] /\ ~init.ok /\ UNCHANGED <<list, brackets>>
  <2>1. g.sync = alarm[a].sync /\ (g.state = "free" <=> alarm[a].state = "free")
    BY <1>3, <1>4, <1>9
  <2>2. TypeOK'
    BY <1>0, <1>2, <1>4, <1>5, <1>9 DEF TypeOK
  <2>3. ListsAreExact' /\ CondsAreDistinct' /\ FreeAlarmsHaveNoCounter'
    BY <1>4, <1>5, <1>9, <2>1, ExactAfterAlarm
  <2> QED
    BY <1>6, <1>7, <2>2, <2>3 DEF IndInv
<1>10. CASE /\ list' = Moved(a, r.sync, s) /\ brackets' \subseteq Int64
            /\ alarm' = [alarm EXCEPT ![a] = f] /\ init.ok
  <2>1. f \in Alarm /\ f.sync = s /\ f.state # "free"
    BY <1>4, <1>10, FiredFacts
  <2>2. /\ DOMAIN list' = Syncs
        /\ \A u \in Syncs :
              /\ IsList(list'[u])
              /\ DOMAIN list'[u] = IF u = s THEN DOMAIN list[u] \cup {AlarmTrigger(a)}
                                   ELSE DOMAIN list[u] \ {AlarmTrigger(a)}
    <3>1. list' = Moved(a, alarm[a].sync, s)
      BY <1>10
    <3>2. LET l == Moved(a, alarm[a].sync, s) IN
          /\ DOMAIN l = Syncs
          /\ \A u \in Syncs :
                /\ IsList(l[u])
                /\ DOMAIN l[u] = IF u = s THEN DOMAIN list[u] \cup {AlarmTrigger(a)}
                                 ELSE DOMAIN list[u] \ {AlarmTrigger(a)}
      BY <1>1, MovedFacts
    <3> QED
      BY <3>1, <3>2
  <2>3. \A u \in Syncs : u = s => live[u] # "free"
    <3>1. ASSUME NEW u \in Syncs, u = s PROVE live[u] # "free"
      <4>1. CASE ch.counter \notin {Keep, None}
        BY <1>4, <1>10, <3>1, <4>1 DEF s, Or
      <4>2. CASE ch.counter \in {Keep, None}
        <5>1. u = alarm[a].sync /\ u # None
          BY <3>1, <4>2, ConstFacts DEF s, Or
        <5>2. AlarmTrigger(a) \in DOMAIN list[u]
          BY <5>1 DEF IndInv, ListsAreExact
        <5> QED
          BY <5>2, InList
      <4> QED
        BY <4>1, <4>2
    <3> QED
      BY <3>1
  <2> HIDE DEF f
  <2>4. TypeOK'
    BY <1>0, <1>2, <1>5, <1>10, <2>1, <2>2 DEF TypeOK
  <2>5. ListsAreExact' /\ CondsAreDistinct' /\ FreeAlarmsHaveNoCounter'
    <3>1. f.state = "free" => f.sync = None
      BY <2>1
    <3>2. \A u \in Syncs : u = f.sync => live[u] # "free"
      BY <2>1, <2>3
    <3>3. \A u \in Syncs : DOMAIN list'[u] = IF u = f.sync THEN DOMAIN list[u] \cup {AlarmTrigger(a)}
                                             ELSE DOMAIN list[u] \ {AlarmTrigger(a)}
      BY <2>1, <2>2
    <3> QED
      BY <1>5, <1>10, <2>1, <3>1, <3>2, <3>3, AlarmMoves
  <2> QED
    BY <1>6, <1>7, <2>4, <2>5 DEF IndInv
<1> QED
  BY <1>5, <1>8, <1>9, <1>10

LEMMA AlarmStep ==
    ASSUME IndInv, NEW c \in Clients, NEW a \in Alarms, NEW ch \in Changes,
           CreateAlarm(c, a, ch) \/ ChangeAlarm(c, a, ch)
    PROVE  IndInv'
<1>1. walk = Idle /\ alarm[a] \in Alarm
  BY DEF CreateAlarm, ChangeAlarm, Request, Resting, IndInv, TypeOK
<1>2. CASE CreateAlarm(c, a, ch)
  <2> DEFINE r == [NoAlarm EXCEPT !.state = "Inactive", !.delta = 1]
  <2>1. r \in Alarm /\ r.sync = None /\ r.state # "free"
    BY ConstFacts DEF NoAlarm, Alarm, Types, Comparisons
  <2>2. alarm[a].state = "free" /\ alarm[a].sync = None /\ SetUp(a, r, ch)
    BY <1>2 DEF CreateAlarm, IndInv, FreeAlarmsHaveNoCounter
  <2> HIDE DEF r
  <2> QED
    BY <1>1, <2>1, <2>2, SetUpStep
<1>3. CASE ChangeAlarm(c, a, ch)
  BY <1>1, <1>3, SetUpStep DEF ChangeAlarm
<1> QED
  BY <1>2, <1>3

-----------------------------------------------------------------------------
(* An Await.                                                               *)

\* the conditions of an Await that is accepted, and their triggers
LEMMA ConditionFacts ==
    ASSUME TypeOK, NEW w \in Waits, \A i \in DOMAIN w : CondAccepted(w[i])
    PROVE  LET conds == Condition(w, Asked(SyncsOf(w))) IN
           /\ conds \in Seq(Cond) /\ conds # <<>> /\ DOMAIN conds = DOMAIN w
           /\ \A i \in DOMAIN w : /\ w[i].sync \in Syncs /\ live[w[i].sync] = "live"
                                  /\ conds[i].sync = w[i].sync
<1> DEFINE val == Asked(SyncsOf(w))
           conds == Condition(w, val)
<1>1. w \in Seq(WaitCond) /\ w # <<>>
  BY InputsAssumption
<1>2. ASSUME NEW i \in DOMAIN w
      PROVE  /\ w[i].sync \in Syncs /\ live[w[i].sync] = "live"
             /\ TestValue(w[i].type, w[i].wait, val[w[i].sync]) \in Int64
             /\ w[i].test \in Tests
  <2>1. w[i] \in WaitCond
    BY <1>1
  <2>2. w[i].sync \in Syncs /\ w[i].test \in Tests
    BY <2>1 DEF WaitCond
  <2>3. live[w[i].sync] = "live" /\ w[i].sync \in SyncsOf(w)
    BY DEF CondAccepted, SyncsOf
  <2>4. val[w[i].sync] = Asked({w[i].sync})[w[i].sync]
    <3>1. value \in [Syncs -> Int64]
      BY DEF TypeOK
    <3>2. CASE w[i].sync = ServerTime
      BY <2>3, <3>1, <3>2, ConstFacts DEF Asked
    <3>3. CASE w[i].sync # ServerTime
      BY <2>2, <3>1, <3>3, ConstFacts DEF Asked
    <3> QED
      BY <3>2, <3>3
  <2>5. TestValue(w[i].type, w[i].wait, val[w[i].sync]) \in Int64
    BY <2>4 DEF CondAccepted
  <2> QED
    BY <2>2, <2>3, <2>5
<1>3. DOMAIN conds = DOMAIN w /\ \A i \in DOMAIN w : conds[i] \in Cond /\ conds[i].sync = w[i].sync
  BY <1>2 DEF Condition, Cond
<1>4. conds \in Seq(Cond) /\ conds # <<>>
  <2>1. DOMAIN w = 1 .. Len(w) /\ Len(w) \in Nat /\ Len(w) # 0
    BY <1>1
  <2>2. conds = [i \in 1 .. Len(w) |-> conds[i]]
    BY <2>1 DEF Condition
  <2> HIDE DEF conds
  <2>3. conds \in [1 .. Len(w) -> Cond]
    BY <1>3, <2>1, <2>2
  <2>4. conds \in Seq(Cond) /\ Len(conds) = Len(w)
    BY <2>1, <2>3
  <2> QED
    BY <2>1, <2>4
<1> QED
  BY <1>2, <1>3, <1>4

LEMMA RegisteredFacts ==
    ASSUME IndInv, NEW c \in Clients, NEW w \in Waits, DOMAIN w \subseteq Nat
    PROVE  /\ DOMAIN Registered(c, w) = Syncs
           /\ \A s \in Syncs :
                 /\ IsList(Registered(c, w)[s])
                 /\ DOMAIN Registered(c, w)[s] =
                       DOMAIN list[s] \cup {[of |-> c, i |-> i] : i \in {j \in DOMAIN w : w[j].sync = s}}
<1>1. DOMAIN Registered(c, w) = Syncs
  BY DEF Registered
<1>2. ASSUME NEW s \in Syncs
      PROVE  LET T == {[of |-> c, i |-> i] : i \in {j \in DOMAIN w : w[j].sync = s}} IN
             /\ IsList(Registered(c, w)[s])
             /\ DOMAIN Registered(c, w)[s] = DOMAIN list[s] \cup T
  <2> DEFINE T == {[of |-> c, i |-> i] : i \in {j \in DOMAIN w : w[j].sync = s}}
  <2>1. T \in SUBSET Triggers
    BY DEF Triggers
  <2>2. Registered(c, w)[s] = WithConds(list[s], T)
    BY DEF Registered
  <2> HIDE DEF T
  <2>3. /\ DOMAIN WithConds(list[s], T) = DOMAIN list[s] \cup T
        /\ IsList(list[s]) => IsList(WithConds(list[s], T))
    BY <2>1, WithCondsFacts
  <2>4. IsList(list[s])
    BY DEF IndInv, TypeOK
  <2>5. IsList(Registered(c, w)[s]) /\ DOMAIN Registered(c, w)[s] = DOMAIN list[s] \cup T
    BY <2>2, <2>3, <2>4
  <2> QED
    BY <2>5 DEF T
<1> QED
  BY <1>1, <1>2

LEMMA AwaitStep ==
    ASSUME WaitsAreDistinct, IndInv, NEW c \in Clients, NEW w \in Waits, Await(c, w)
    PROVE  IndInv'
<1> DEFINE val == Asked(SyncsOf(w))
           conds == Condition(w, val)
           waits == ~AlreadyTrue(conds, val)
<1>0. /\ TypeOK /\ walk = Idle /\ phase[c] = "up" /\ ignored[c] = 0
      /\ \A i \in DOMAIN w : CondAccepted(w[i])
      /\ w \in Seq(WaitCond)
  BY InputsAssumption DEF IndInv, Await, Request, Resting
<1>1. /\ value' = val
      /\ brackets' \subseteq Int64
      /\ UNCHANGED <<live, alarm, phase, walk, clock>>
      /\ \/ UNCHANGED <<await, list, ignored>>
         \/ /\ await' = [await EXCEPT ![c] = conds]
            /\ list' = Registered(c, w)
            /\ ignored' = [ignored EXCEPT ![c] = @ + 1]
  <2>1. brackets \subseteq Int64
    BY <1>0 DEF TypeOK
  <2> QED
    BY <2>1, BracketsType DEF Await
<1>2. val \in [Syncs -> Int64]
  BY <1>0, AskedType
<1>3. /\ conds \in Seq(Cond) /\ conds # <<>> /\ DOMAIN conds = DOMAIN w
      /\ \A i \in DOMAIN w : /\ w[i].sync \in Syncs /\ live[w[i].sync] = "live"
                             /\ conds[i].sync = w[i].sync
  <2>1. LET cs == Condition(w, Asked(SyncsOf(w))) IN
        /\ cs \in Seq(Cond) /\ cs # <<>> /\ DOMAIN cs = DOMAIN w
        /\ \A i \in DOMAIN w : /\ w[i].sync \in Syncs /\ live[w[i].sync] = "live"
                               /\ cs[i].sync = w[i].sync
    BY <1>0, ConditionFacts
  <2> QED
    BY <2>1
<1> HIDE DEF val, conds
<1>4. WalkIsInList' /\ WalkFitsObject'
  BY <1>0, <1>1 DEF WalkIsInList, WalkFitsObject, IndInv, Idle
<1>5. CASE UNCHANGED <<await, list, ignored>>
  <2>1. TypeOK'
    BY <1>0, <1>1, <1>2, <1>5 DEF TypeOK
  <2> QED
    BY <1>1, <1>4, <1>5, <2>1, QuietStep
<1>6. CASE /\ await' = [await EXCEPT ![c] = conds] /\ list' = Registered(c, w)
           /\ ignored' = [ignored EXCEPT ![c] = @ + 1]
  <2> DEFINE T(s) == {[of |-> c, i |-> i] : i \in {j \in DOMAIN w : w[j].sync = s}}
  <2>0. /\ await \in [Clients -> Seq(Cond)] /\ ignored \in [Clients -> Int]
        /\ alarm \in [Alarms -> Alarm] /\ DOMAIN w \subseteq Nat
    BY <1>0 DEF TypeOK
  <2>1. /\ DOMAIN list' = Syncs
        /\ \A s \in Syncs : IsList(list'[s]) /\ DOMAIN list'[s] = DOMAIN list[s] \cup T(s)
    BY <1>6, <2>0, RegisteredFacts
  <2>2. /\ await' \in [Clients -> Seq(Cond)] /\ await'[c] = conds
        /\ \A d \in Clients \ {c} : await'[d] = await[d]
    BY <1>3, <1>6, <2>0
  <2>3. TypeOK'
    BY <1>0, <1>1, <1>2, <1>6, <2>0, <2>1, <2>2 DEF TypeOK
  <2>4. await[c] = <<>>
    BY <1>0 DEF IndInv, WaitsAreHeld
  <2>5. WaitsAreHeld'
    BY <1>0, <1>1, <1>3, <1>6, <2>0, <2>2, <2>4 DEF IndInv, WaitsAreHeld
  <2>6. CondsAreDistinct'
    <3>1. \A i, j \in DOMAIN conds : conds[i].sync = conds[j].sync => i = j
      BY <1>3 DEF WaitsAreDistinct
    <3> QED
      BY <2>2, <3>1 DEF IndInv, CondsAreDistinct
  <2>7. FreeAlarmsHaveNoCounter'
    BY <1>1 DEF IndInv, FreeAlarmsHaveNoCounter
  <2>8. ListsAreExact'
    <3>1. ASSUME NEW s \in Syncs, NEW t \in DOMAIN list'[s]
          PROVE  Exists(t)' /\ SyncOf(t)' = s /\ live'[s] # "free"
      <4>1. CASE t \in DOMAIN list[s]
        <5>1. Exists(t) /\ SyncOf(t) = s /\ live[s] # "free"
          BY <4>1 DEF IndInv, ListsAreExact
        <5>2. t.of \notin Alarms => t.of \in Clients /\ t.i \in DOMAIN await[t.of]
          BY <4>1, InList
        <5>3. t.of \notin Alarms => await'[t.of] = await[t.of]
          BY <2>2, <2>4, <5>2
        <5> QED
          BY <1>1, <5>1, <5>2, <5>3 DEF Exists, SyncOf, Trigger
      <4>2. CASE t \in T(s)
        <5>1. PICK i \in DOMAIN w : w[i].sync = s /\ t = [of |-> c, i |-> i]
          BY <4>2
        <5>2. t.of = c /\ t.i = i /\ c \notin Alarms
          BY <5>1, NamesAssumption
        <5> QED
          BY <1>1, <1>3, <2>2, <5>1, <5>2 DEF Exists, SyncOf, Trigger
      <4> QED
        BY <2>1, <4>1, <4>2
    <3>2. ASSUME NEW d \in Clients, NEW i \in DOMAIN await'[d]
          PROVE  [of |-> d, i |-> i] \in DOMAIN list'[await'[d][i].sync]
      <4>1. CASE d = c
        <5>1. i \in DOMAIN w /\ await'[d][i].sync = w[i].sync /\ w[i].sync \in Syncs
          BY <1>3, <2>2, <3>2, <4>1
        <5>2. [of |-> d, i |-> i] \in T(w[i].sync)
          BY <4>1, <5>1
        <5> QED
          BY <2>1, <5>1, <5>2
      <4>2. CASE d # c
        <5>1. await'[d] = await[d] /\ await[d] \in Seq(Cond)
          BY <2>0, <2>2, <4>2
        <5>2. await[d][i] \in Cond
          BY <3>2, <5>1
        <5>3. await[d][i].sync \in Syncs
          BY <5>2 DEF Cond
        <5>4. [of |-> d, i |-> i] \in DOMAIN list[await[d][i].sync]
          BY <3>2, <5>1 DEF IndInv, ListsAreExact
        <5> QED
          BY <2>1, <5>1, <5>3, <5>4
      <4> QED
        BY <4>1, <4>2
    <3>3. ASSUME NEW a \in Alarms, alarm'[a].sync # None
          PROVE  AlarmTrigger(a) \in DOMAIN list'[alarm'[a].sync]
      <4>1. alarm[a] \in Alarm /\ alarm' = alarm
        BY <1>1, <2>0
      <4>2. alarm[a].sync \in Syncs
        BY <3>3, <4>1 DEF Alarm, Syncs
      <4>3. AlarmTrigger(a) \in DOMAIN list[alarm[a].sync]
        BY <3>3, <4>1 DEF IndInv, ListsAreExact
      <4> QED
        BY <2>1, <4>1, <4>2, <4>3
    <3> QED
      BY <3>1, <3>2, <3>3 DEF ListsAreExact
  <2> QED
    BY <1>4, <2>3, <2>5, <2>6, <2>7, <2>8 DEF IndInv
<1> QED
  BY <1>1, <1>5, <1>6

-----------------------------------------------------------------------------
(* The theorems.                                                           *)

LEMMA InitHolds == Init => IndInv
<1> SUFFICES ASSUME Init PROVE IndInv
  OBVIOUS
<1>1. TypeOK
  <2>1. <<>> \in Seq(Cond) /\ DOMAIN (<<>>) = {} /\ IsList(<<>>)
    BY DEF IsList
  <2>2. NoAlarm \in Alarm
    BY ConstFacts DEF NoAlarm, Alarm, Types, Comparisons
  <2>3. Idle \in [kind : {"none", "change", "destroy", "fence"}, sync : Syncs \cup {None},
                  at : Triggers \cup {None}, old : Int64]
    BY ConstFacts DEF Idle
  <2> QED
    BY <2>1, <2>2, <2>3, ConstFacts DEF Init, TypeOK
<1>2. ListsAreExact
  <2>1. DOMAIN (<<>>) = {}
    OBVIOUS
  <2>2. \A a \in Alarms : alarm[a].sync = None
    BY DEF Init, NoAlarm
  <2>3. /\ \A s \in Syncs : DOMAIN list[s] = {}
        /\ \A c \in Clients : DOMAIN await[c] = {}
    BY <2>1 DEF Init
  <2> QED
    BY <2>2, <2>3 DEF ListsAreExact
<1>3. WalkIsInList /\ WaitsAreHeld
  BY DEF Init, WalkIsInList, WaitsAreHeld, Idle
<1>4. CondsAreDistinct /\ FreeAlarmsHaveNoCounter
  BY DEF Init, CondsAreDistinct, FreeAlarmsHaveNoCounter, NoAlarm
<1>5. WalkFitsObject
  BY ConstFacts DEF Init, WalkFitsObject, Idle
<1> QED
  BY <1>1, <1>2, <1>3, <1>4, <1>5 DEF IndInv

\* a request that sets or changes a counter, and the wakeup for SERVERTIME
LEMMA CounterStep ==
    ASSUME IndInv,
           \/ \E c \in Clients, k \in Counters, v \in Values : SetCounter(c, k, v)
           \/ \E c \in Clients, k \in Counters, d \in Amounts : ChangeCounter(c, k, d)
           \/ Wakeup
    PROVE  IndInv'
<1>1. CASE \E c \in Clients, k \in Counters, v \in Values : SetCounter(c, k, v)
  <2>1. PICK k \in Counters, v \in Values :
          walk = Idle /\ live[k] = "live" /\ UpdateCounter(k, v)
    BY <1>1 DEF SetCounter, Request, Resting
  <2>2. k \in Syncs /\ v \in Int64
    BY ConstFacts
  <2> QED
    BY <2>1, <2>2, UpdateCounterStep
<1>2. CASE \E c \in Clients, k \in Counters, d \in Amounts : ChangeCounter(c, k, d)
  <2>1. PICK k \in Counters, d \in Amounts :
          /\ walk = Idle /\ live[k] = "live" /\ value[k] + d \in Int64
          /\ UpdateCounter(k, value[k] + d)
    BY <1>2 DEF ChangeCounter, Request, Resting
  <2>2. k \in Syncs
    BY ConstFacts
  <2> QED
    BY <2>1, <2>2, UpdateCounterStep
<1>3. CASE Wakeup
  <2>1. walk = Idle /\ UpdateCounter(ServerTime, clock)
    BY <1>3 DEF Wakeup, Resting
  <2>2. ServerTime \in Syncs /\ live[ServerTime] = "live" /\ clock \in Int64
    BY ConstFacts DEF IndInv, TypeOK, WalkFitsObject
  <2> QED
    BY <2>1, <2>2, UpdateCounterStep
<1> QED
  BY <1>1, <1>2, <1>3

LEMMA ObjectStep ==
    ASSUME IndInv, NEW c \in Clients,
           \/ \E k \in Counters : CreateCounter(c, k)
           \/ \E f \in Fences : CreateFence(c, f)
           \/ \E s \in Counters \cup Fences : DestroySync(c, s) \/ CloseSync(c, s)
    PROVE  IndInv'
<1>1. CASE \E k \in Counters : CreateCounter(c, k)
  BY <1>1, CreateSyncStep, ConstFacts DEF CreateCounter
<1>2. CASE \E f \in Fences : CreateFence(c, f)
  BY <1>2, CreateSyncStep, ConstFacts DEF CreateFence
<1>3. CASE \E s \in Counters \cup Fences : DestroySync(c, s) \/ CloseSync(c, s)
  <2>1. PICK s \in Counters \cup Fences : walk = Idle /\ FreeSync(s)
    BY <1>3 DEF DestroySync, CloseSync, Request, Resting, Closing
  <2> QED
    BY <2>1, FreeSyncStep
<1> QED
  BY <1>1, <1>2, <1>3

LEMMA CloseStep ==
    ASSUME IndInv, NEW c \in Clients, CloseDown(c) \/ Close(c)
    PROVE  IndInv'
<1>1. CASE CloseDown(c) \/ CloseEnd(c)
  BY <1>1, PhaseStep
<1>2. CASE CloseAwait(c)
  BY <1>2, CloseAwaitStep
<1>3. CASE \E s \in Counters \cup Fences : CloseSync(c, s)
  BY <1>3, ObjectStep
<1>4. CASE \E a \in Alarms : CloseAlarm(c, a)
  BY <1>4, ReleasedStep DEF CloseAlarm, Closing
<1> QED
  BY <1>1, <1>2, <1>3, <1>4 DEF Close

LEMMA WalkStepStep == IndInv /\ WalkStep => IndInv'
  BY ChangeStepStep, DestroyStepStep, FenceStepStep, WalkEndStep DEF WalkStep

LEMMA NextStep ==
    ASSUME WaitsAreDistinct, IndInv, [Next]_vars
    PROVE  IndInv'
<1>1. CASE UNCHANGED vars
  BY <1>1, QuietStep DEF vars, IndInv, TypeOK, WalkIsInList, WalkFitsObject
<1>2. CASE WalkStep \/ Tick \/ Wakeup
  BY <1>2, WalkStepStep, TickStep, CounterStep
<1>3. ASSUME NEW c \in Clients,
             \/ \E k \in Counters : CreateCounter(c, k)
             \/ \E f \in Fences : CreateFence(c, f)
             \/ \E s \in Counters \cup Fences : DestroySync(c, s)
      PROVE  IndInv'
  BY <1>3, ObjectStep
<1>4. ASSUME NEW c \in Clients,
             \E f \in Fences : TriggerFence(c, f) \/ ResetFence(c, f)
      PROVE  IndInv'
  BY <1>4, FenceStateStep
<1>5. ASSUME NEW c \in Clients,
             \/ \E k \in Counters, v \in Values : SetCounter(c, k, v)
             \/ \E k \in Counters, d \in Amounts : ChangeCounter(c, k, d)
      PROVE  IndInv'
  BY <1>5, CounterStep
<1>6. ASSUME NEW c \in Clients, QueryCounter(c)
      PROVE  IndInv'
  BY <1>6, QueryStep
<1>7. ASSUME NEW c \in Clients, NEW w \in Waits, Await(c, w) \/ AwaitRefused(c, w)
      PROVE  IndInv'
  BY <1>7, AwaitStep, AwaitRefusedStep
<1>8. ASSUME NEW c \in Clients,
             \E a \in Alarms, ch \in Changes : CreateAlarm(c, a, ch) \/ ChangeAlarm(c, a, ch)
      PROVE  IndInv'
  BY <1>8, AlarmStep
<1>9. ASSUME NEW c \in Clients, \E a \in Alarms : DestroyAlarm(c, a)
      PROVE  IndInv'
  BY <1>9, ReleasedStep DEF DestroyAlarm, Request, Resting
<1>10. ASSUME NEW c \in Clients, CloseDown(c) \/ Close(c)
       PROVE  IndInv'
  BY <1>10, CloseStep
<1> QED
  BY <1>1, <1>2, <1>3, <1>4, <1>5, <1>6, <1>7, <1>8, <1>9, <1>10 DEF Next

\* The inductive invariant: it holds of Init and is kept by every request,
\* walk, closing and wakeup, where no Await names an object twice.
THEOREM IndInvHolds == ASSUME WaitsAreDistinct PROVE Spec => []IndInv
<1>1. Init => IndInv
  BY InitHolds
<1>2. IndInv /\ [Next]_vars => IndInv'
  BY NextStep
<1> QED
  BY <1>1, <1>2, PTL DEF Spec

\* The variables keep the shape their declarations give them: a counter stays
\* within 64 bits although SyncInitTrigger and ChangeCounter add what clients ask.
THEOREM TypeCorrect == ASSUME WaitsAreDistinct PROVE Spec => []TypeOK
<1>1. IndInv => TypeOK
  BY DEF IndInv
<1> QED
  BY <1>1, IndInvHolds, PTL

\* No list of triggers has one whose Await or alarm is gone, misses one that is
\* there, or belongs to an object that is gone: whatever FreeCounter,
\* FreeAwait, FreeAlarm and SyncInitTrigger are interleaved with.
THEOREM ListsStayExact == ASSUME WaitsAreDistinct PROVE Spec => []ListsAreExact
<1>1. IndInv => ListsAreExact
  BY DEF IndInv
<1> QED
  BY <1>1, IndInvHolds, PTL

\* The trigger SyncChangeCounter remembered before it fired another, and the one
\* FreeCounter goes on to, is in the list still when the walk comes to it.
THEOREM WalkStaysInList == ASSUME WaitsAreDistinct PROVE Spec => []WalkIsInList
<1>1. IndInv => WalkIsInList
  BY DEF IndInv
<1> QED
  BY <1>1, IndInvHolds, PTL

\* A client is ignored exactly while it has an Await, once, whichever of its
\* conditions fires it, and whichever of its objects is destroyed.
THEOREM WaitsStayHeld == ASSUME WaitsAreDistinct PROVE Spec => []WaitsAreHeld
<1>1. IndInv => WaitsAreHeld
  BY DEF IndInv
<1> QED
  BY <1>1, IndInvHolds, PTL

-----------------------------------------------------------------------------
(* Alarms whose update ends.                                               *)

\* what SyncAlarmTriggerFired leaves of an alarm
LEMMA FiredKeeps ==
    ASSUME NEW r \in Alarm, NEW v
    PROVE  /\ Fired(r, v).check = r.check /\ Fired(r, v).test = r.test
           /\ Fired(r, v).delta = r.delta
  BY DEF Fired, Alarm

AlarmAgrees(r) ==
    /\ r.check = r.test
    /\ r.test \in {"PositiveComparison", "PositiveTransition"} => r.delta >= 0
    /\ r.test \in {"NegativeComparison", "NegativeTransition"} => r.delta <= 0

LEMMA SetUpAgrees ==
    ASSUME IndInv, AlarmsAgree, ~RefusedChanges,
           NEW a \in Alarms, NEW ch \in Changes, NEW r \in Alarm,
           r.state # "free", alarm[a].state # "free" => r = alarm[a],
           AlarmAgrees(r), SetUp(a, r, ch)
    PROVE  AlarmsAgree'
<1> DEFINE new == Assigned(r, ch)
           s == Or(ch.counter, r.sync)
           known == s = None \/ live[s] = "live"
           val == IF known /\ ~BadMatch(new, ch) THEN Asked({s}) ELSE value
           v == IF s = None THEN 0 ELSE val[s]
           init == Initialised(new, ch, s, v)
           g == init.alarm
           fires == s = None \/ Holds(g.check, g.value, v, v)
<1>0. alarm \in [Alarms -> Alarm] /\ ch \in Change
  BY InputsAssumption DEF IndInv, TypeOK
<1>1. \/ alarm' = alarm
      \/ /\ ~BadMatch(new, ch) /\ init.ok
         /\ alarm' = [alarm EXCEPT ![a] = IF fires THEN Fired(g, v) ELSE g]
  BY DEF SetUp
<1>2. CASE alarm' = alarm
  BY <1>2 DEF AlarmsAgree
<1>3. CASE /\ ~BadMatch(new, ch) /\ init.ok
           /\ alarm' = [alarm EXCEPT ![a] = IF fires THEN Fired(g, v) ELSE g]
  <2>1. new \in Alarm /\ new.check = r.check
        /\ new.test = Or(ch.test, r.test) /\ new.delta = Or(ch.delta, r.delta)
    <3>1. new.check = r.check
      BY DEF Assigned, Alarm
    <3>2. new.test = Or(ch.test, r.test) /\ new.delta = Or(ch.delta, r.delta)
      BY DEF Assigned, Alarm
    <3> QED
      BY <3>1, <3>2, AssignedFacts
  <2> HIDE DEF new, v, s
  <2>2. g.check = Check(new, ch) /\ g.test = new.test /\ g.delta = new.delta
    <3>1. /\ init.ok
          /\ g = [new EXCEPT !.sync = s, !.state = "Active",
                             !.value = IF ch.type # Keep \/ ch.wait # Keep
                                       THEN TestValue(new.type, new.wait, v) ELSE @,
                             !.check = Check(new, ch)]
      BY <1>3 DEF Initialised
    <3> HIDE DEF g
    <3> QED
      BY <2>1, <3>1 DEF Alarm
  <2>3. AlarmAgrees(g)
    <3>1. new.delta \in Int /\ r.delta \in Int
      <4>1. new.delta \in Int64 /\ r.delta \in Int64
        BY <2>1 DEF Alarm
      <4> QED
        BY <4>1, ConstFacts
    <3>2. CASE ch.test = Keep /\ ch.delta = Keep
      BY <2>1, <2>2, <3>2 DEF Or, Check, AlarmAgrees
    <3>3. CASE ch.test # Keep \/ ch.delta # Keep
      <4>1. /\ ~(new.test \in {"PositiveComparison", "PositiveTransition"} /\ new.delta < 0)
            /\ ~(new.test \in {"NegativeComparison", "NegativeTransition"} /\ new.delta > 0)
        BY <1>3, <3>3 DEF BadMatch
      <4>2. g.check = g.test
        BY <2>1, <2>2 DEF Or, Check, AlarmAgrees
      <4> QED
        BY <2>2, <3>1, <4>1, <4>2 DEF AlarmAgrees
    <3> QED
      BY <3>2, <3>3
  <2>4. g \in Alarm
    <3>1. s \in Counters \cup {ServerTime, None}
      BY <1>0 DEF s, Or, Change, Alarm
    <3>2. v \in Int64
      <4>1. val \in [Syncs -> Int64]
        BY AskedType DEF IndInv, TypeOK
      <4>2. s # None => s \in Syncs
        BY <3>1 DEF Syncs
      <4> QED
        BY <4>1, <4>2, ConstFacts DEF v
    <3> QED
      BY <2>1, <3>1, <3>2, InitialisedFacts
  <2> HIDE DEF g
  <2>5. AlarmAgrees(Fired(g, v))
    BY <2>3, <2>4, FiredKeeps DEF AlarmAgrees
  <2>6. ASSUME NEW b \in Alarms PROVE AlarmAgrees(alarm'[b])
    <3>1. CASE b = a
      BY <1>0, <1>3, <2>3, <2>5, <3>1
    <3>2. CASE b # a
      <4>1. alarm'[b] = alarm[b]
        BY <1>0, <1>3, <3>2
      <4> QED
        BY <4>1 DEF AlarmsAgree, AlarmAgrees
    <3> QED
      BY <3>1, <3>2
  <2> QED
    BY <2>6 DEF AlarmsAgree, AlarmAgrees
<1> QED
  BY <1>1, <1>2, <1>3

LEMMA AlarmsAgreeStep ==
    ASSUME IndInv, AlarmsAgree, ~RefusedChanges, [Next]_vars
    PROVE  AlarmsAgree'
<1>0. alarm \in [Alarms -> Alarm]
  BY DEF IndInv, TypeOK
<1>1. CASE alarm' = alarm
  BY <1>1 DEF AlarmsAgree
<1>2. AlarmAgrees(NoAlarm) /\ NoAlarm \in Alarm
  BY ConstFacts DEF AlarmAgrees, NoAlarm, Alarm, Types, Comparisons
<1>3. ASSUME NEW a \in Alarms, NEW g, AlarmAgrees(g), alarm' = [alarm EXCEPT ![a] = g]
      PROVE  AlarmsAgree'
  <2>1. ASSUME NEW b \in Alarms PROVE AlarmAgrees(alarm'[b])
    <3>1. CASE b = a
      BY <1>0, <1>3, <3>1
    <3>2. CASE b # a
      <4>1. alarm'[b] = alarm[b]
        BY <1>0, <1>3, <3>2
      <4> QED
        BY <4>1 DEF AlarmsAgree, AlarmAgrees
    <3> QED
      BY <3>1, <3>2
  <2> QED
    BY <2>1 DEF AlarmsAgree, AlarmAgrees
<1>4. ASSUME NEW a \in Alarms, Released(a) PROVE AlarmsAgree'
  BY <1>2, <1>3, <1>4 DEF Released
<1>5. CASE ChangeStep
  <2>1. CASE walk.at.of \in Alarms /\ alarm' # alarm
    <3> DEFINE a == walk.at.of
               g == Fired(alarm[a], value[walk.sync])
    <3>1. alarm' = [alarm EXCEPT ![a] = g]
      BY <1>0, <1>5, <2>1 DEF ChangeStep
    <3>2. AlarmAgrees(g)
      <4>1. alarm[a] \in Alarm /\ AlarmAgrees(alarm[a])
        BY <1>0, <2>1 DEF AlarmsAgree, AlarmAgrees
      <4> QED
        BY <4>1, FiredKeeps DEF AlarmAgrees
    <3> HIDE DEF g
    <3> QED
      BY <1>3, <2>1, <3>1, <3>2
  <2> QED
    BY <1>1, <1>5, <2>1 DEF ChangeStep, FireAwait, FreeAwait
<1>6. CASE DestroyStep
  <2>1. CASE walk.at.of \in Alarms
    <3> DEFINE a == walk.at.of
               g == [alarm[a] EXCEPT !.state = "Inactive", !.sync = None]
    <3>1. alarm' = [alarm EXCEPT ![a] = g]
      BY <1>0, <1>6, <2>1 DEF DestroyStep
    <3>2. AlarmAgrees(g)
      <4>1. alarm[a] \in Alarm /\ AlarmAgrees(alarm[a])
        BY <1>0, <2>1 DEF AlarmsAgree, AlarmAgrees
      <4> QED
        BY <4>1 DEF AlarmAgrees, Alarm
    <3> HIDE DEF g
    <3> QED
      BY <1>3, <2>1, <3>1, <3>2
  <2> QED
    BY <1>1, <1>6, <2>1 DEF DestroyStep, FireAwait, FreeAwait
<1>7. CASE WalkStep
  BY <1>1, <1>5, <1>6, <1>7
     DEF WalkStep, ChangeEnd, DestroyEnd, FenceStep, FenceEnd, FireAwait, FreeAwait
<1>8. ASSUME NEW c \in Clients, NEW a \in Alarms, NEW ch \in Changes, CreateAlarm(c, a, ch)
      PROVE  AlarmsAgree'
  <2> DEFINE r == [NoAlarm EXCEPT !.state = "Inactive", !.delta = 1]
  <2>1. r \in Alarm /\ r.state # "free" /\ AlarmAgrees(r)
    <3>1. r \in Alarm
      BY ConstFacts DEF NoAlarm, Alarm, Types, Comparisons
    <3>2. r.check = "PositiveComparison" /\ r.test = "PositiveComparison" /\ r.delta = 1
      BY DEF NoAlarm
    <3>3. r.state # "free"
      BY DEF NoAlarm
    <3> HIDE DEF r
    <3> QED
      BY <3>1, <3>2, <3>3 DEF AlarmAgrees
  <2>2. alarm[a].state = "free" /\ SetUp(a, r, ch)
    BY <1>8 DEF CreateAlarm
  <2> HIDE DEF r
  <2> QED
    BY <2>1, <2>2, SetUpAgrees
<1>9. ASSUME NEW c \in Clients, NEW a \in Alarms, NEW ch \in Changes, ChangeAlarm(c, a, ch)
      PROVE  AlarmsAgree'
  <2>1. alarm[a].state # "free" /\ SetUp(a, alarm[a], ch) /\ alarm[a] \in Alarm
    BY <1>0, <1>9 DEF ChangeAlarm
  <2>2. AlarmAgrees(alarm[a])
    BY DEF AlarmsAgree, AlarmAgrees
  <2> QED
    BY <2>1, <2>2, SetUpAgrees
<1>10. ASSUME NEW c \in Clients,
              \/ \E a \in Alarms : DestroyAlarm(c, a)
              \/ \E a \in Alarms : CloseAlarm(c, a)
       PROVE  AlarmsAgree'
  BY <1>4, <1>10 DEF DestroyAlarm, CloseAlarm
<1>11. ASSUME NEW c \in Clients,
              \/ \E k \in Counters : CreateCounter(c, k)
              \/ \E f \in Fences : CreateFence(c, f) \/ TriggerFence(c, f) \/ ResetFence(c, f)
              \/ \E k \in Counters, v \in Values : SetCounter(c, k, v)
              \/ \E k \in Counters, d \in Amounts : ChangeCounter(c, k, d)
              \/ \E s \in Counters \cup Fences : DestroySync(c, s)
              \/ QueryCounter(c)
              \/ \E w \in Waits : Await(c, w) \/ AwaitRefused(c, w)
              \/ CloseDown(c)
              \/ CloseAwait(c) \/ CloseEnd(c)
              \/ \E s \in Counters \cup Fences : CloseSync(c, s)
       PROVE  AlarmsAgree'
  <2>1. alarm' = alarm
    BY <1>11 DEF CreateCounter, CreateFence, CreateSync, TriggerFence, ResetFence, SetCounter,
                 ChangeCounter, UpdateCounter, DestroySync, FreeSync, QueryCounter, Await,
                 AwaitRefused, CloseDown, CloseAwait, FreeAwait, CloseEnd, CloseSync
  <2> QED
    BY <1>1, <2>1
<1>12. CASE Tick \/ Wakeup \/ UNCHANGED vars
  BY <1>1, <1>12 DEF Tick, Wakeup, UpdateCounter, vars
<1> QED
  BY <1>7, <1>8, <1>9, <1>10, <1>11, <1>12 DEF Next, Close

-----------------------------------------------------------------------------
(* Triggers that are true.                                                 *)

\* what the walk under way may leave of a trigger
MayWait(s, t) ==
    CheckTrigger(t, value[s]) =>
        Ahead(s, t) \/ (t.of \in Alarms /\ alarm[t.of].state = "Inactive")

LEMMA TriggerFacts ==
    ASSUME IndInv, NEW s \in Syncs, NEW t \in DOMAIN list[s]
    PROVE  LET g == Trigger(t, await, alarm) IN
           /\ g.sync = s /\ g.value \in Int64 /\ g.value \in Int /\ g.test \in Tests
           /\ value[s] \in Int64 /\ value[s] \in Int
           /\ t.of \in Alarms => g = alarm[t.of] /\ g \in Alarm
           /\ t.of \notin Alarms => g = await[t.of][t.i] /\ g \in Cond
<1> DEFINE g == Trigger(t, await, alarm)
<1>0. /\ alarm \in [Alarms -> Alarm] /\ await \in [Clients -> Seq(Cond)] /\ value[s] \in Int64
  BY DEF IndInv, TypeOK
<1>1. CASE t.of \in Alarms
  <2>1. g = alarm[t.of] /\ g \in Alarm /\ g.sync = s
    BY <1>0, <1>1, InList DEF Trigger
  <2>2. g.value \in Int64 /\ g.test \in Tests
    BY <2>1 DEF Alarm, Tests
  <2> HIDE DEF g
  <2> QED
    BY <1>0, <1>1, <2>1, <2>2, ConstFacts DEF g
<1>2. CASE t.of \notin Alarms
  <2>1. t.of \in Clients /\ t.i \in DOMAIN await[t.of] /\ g = await[t.of][t.i] /\ g.sync = s
    BY <1>2, InList DEF Trigger
  <2>2. g \in Cond
    BY <1>0, <2>1
  <2>3. g.value \in Int64 /\ g.test \in Tests
    BY <2>2 DEF Cond
  <2> HIDE DEF g
  <2> QED
    BY <1>0, <1>2, <2>1, <2>2, <2>3, ConstFacts DEF g
<1> QED
  BY <1>1, <1>2

\* a trigger whose object keeps its value, and that the walk has not passed
LEMMA StillMayWait ==
    ASSUME IndInv, IndInv', NEW s \in Syncs, NEW t \in DOMAIN list[s], t \in DOMAIN list'[s],
           MayWait(s, t), value'[s] = value[s],
           Trigger(t, await, alarm)' = Trigger(t, await, alarm),
           CheckTrigger(t, value[s]) /\ Ahead(s, t) => Ahead(s, t)'
    PROVE  MayWait(s, t)'
<1>1. CheckTrigger(t, value[s])' <=> CheckTrigger(t, value[s])
  <2>1. Trigger(t, await, alarm).sync = s
    BY TriggerFacts
  <2> QED
    BY <2>1 DEF CheckTrigger
<1>2. t.of \in Alarms => alarm'[t.of] = alarm[t.of]
  BY DEF Trigger
<1> QED
  BY <1>1, <1>2 DEF MayWait

\* brackets that are left alone while fewer triggers look at them, or made anew
LEMMA StillBracketed ==
    ASSUME IndInv, IndInv', TimeIsBracketed,
           value'[ServerTime] <= clock', value'[ServerTime] >= value[ServerTime],
           \A t \in DOMAIN list'[ServerTime] :
              t \in DOMAIN list[ServerTime]
              /\ Trigger(t, await, alarm)' = Trigger(t, await, alarm),
           \/ brackets' = brackets
           \/ brackets' = Brackets(list'[ServerTime], value'[ServerTime], await, alarm)
    PROVE  TimeIsBracketed'
<1>1. ASSUME NEW t \in DOMAIN list'[ServerTime],
             LET g == Trigger(t, await, alarm)' IN
             /\ g.test = "PositiveComparison" /\ g.value < Half - 1
             /\ value'[ServerTime] < g.value
      PROVE  Trigger(t, await, alarm)'.value \in brackets'
  <2> DEFINE g == Trigger(t, await, alarm)
  <2>1. g' = g /\ t \in DOMAIN list[ServerTime]
    OBVIOUS
  <2>2. g.value \in Int64 /\ g.value \in Int /\ value[ServerTime] \in Int
    BY <2>1, TriggerFacts, ConstFacts
  <2>3. value'[ServerTime] \in Int
    <3>1. value' \in [Syncs -> Int64]
      BY DEF IndInv, TypeOK
    <3> QED
      BY <3>1, ConstFacts
  <2>4. /\ g.test = "PositiveComparison" /\ g.value < Half - 1
        /\ value'[ServerTime] < g.value
    BY <1>1, <2>1
  <2> HIDE DEF g
  <2>5. CASE brackets' = brackets
    <3>1. value[ServerTime] < g.value
      BY <2>2, <2>3, <2>4
    <3>2. g.value \in brackets
      BY <2>1, <2>4, <3>1 DEF TimeIsBracketed, g
    <3> QED
      BY <2>1, <2>5, <3>2 DEF g
  <2>6. CASE brackets' = Brackets(list'[ServerTime], value'[ServerTime], await, alarm)
    <3>1. g.value \in Brackets(list'[ServerTime], value'[ServerTime], await, alarm)
      BY <1>1, <2>2, <2>4 DEF Brackets, g
    <3> QED
      BY <2>1, <2>6, <3>1 DEF g
  <2> QED
    BY <2>5, <2>6
<1> QED
  BY <1>1 DEF TimeIsBracketed

\* Steps that leave lists, Awaits and alarms alone: it is enough to know of
\* each trigger that it may wait still.
LEMMA QuietTruth ==
    ASSUME IndInv, IndInv', TruthInv, UNCHANGED <<list, await, alarm>>,
           \A s \in Syncs : \A t \in DOMAIN list[s] : MayWait(s, t)',
           value'[ServerTime] <= clock', value'[ServerTime] >= value[ServerTime],
           \/ brackets' = brackets
           \/ brackets' = Brackets(list'[ServerTime], value'[ServerTime], await, alarm)
    PROVE  TruthInv'
<1>1. CondsFitSync' /\ NoTimeAlarms'
  BY DEF TruthInv, CondsFitSync, NoTimeAlarms
<1>2. PassedAreFalse'
  BY DEF PassedAreFalse, MayWait
<1>3. TimeIsBracketed'
  <2>1. \A t : Trigger(t, await, alarm)' = Trigger(t, await, alarm)
    BY DEF Trigger
  <2> QED
    BY <2>1, StillBracketed DEF TruthInv
<1> QED
  BY <1>1, <1>2, <1>3 DEF TruthInv

\* and of those whose object keeps its value, that the walk has not passed them
LEMMA QuietWait ==
    ASSUME IndInv, IndInv', TruthInv, UNCHANGED <<list, await, alarm>>,
           NEW s \in Syncs, NEW t \in DOMAIN list[s], value'[s] = value[s],
           CheckTrigger(t, value[s]) /\ Ahead(s, t) => Ahead(s, t)'
    PROVE  MayWait(s, t)'
<1>1. MayWait(s, t)
  BY DEF TruthInv, PassedAreFalse, MayWait
<1>2. Trigger(t, await, alarm)' = Trigger(t, await, alarm)
  BY DEF Trigger
<1> QED
  BY <1>1, <1>2, StillMayWait

\* SERVERTIME is asked for while no wakeup is due: no trigger comes true
LEMMA AskedStaysFalse ==
    ASSUME IndInv, IndInv', TruthInv, walk = Idle, UNCHANGED <<await, alarm>>,
           NEW t \in DOMAIN list[ServerTime],
           \A x \in brackets : clock < x, value'[ServerTime] = clock
    PROVE  ~CheckTrigger(t, value[ServerTime])'
<1> DEFINE g == Trigger(t, await, alarm)
           v == value[ServerTime]
<1>1. /\ g.sync = ServerTime /\ g.value \in Int /\ g.test \in Tests /\ v \in Int
      /\ t.of \in Alarms => g = alarm[t.of]
      /\ t.of \notin Alarms => g = await[t.of][t.i]
  BY TriggerFacts, ConstFacts
<1>2. t.of \notin Alarms /\ g = await[t.of][t.i] /\ t.of \in Clients /\ t.i \in DOMAIN await[t.of]
  BY <1>1, InList, ConstFacts DEF TruthInv, NoTimeAlarms
<1>3. g.test # "Fence"
  BY <1>1, <1>2, NamesAssumption DEF TruthInv, CondsFitSync
<1>4. ~CheckTrigger(t, v)
  BY <1>2, ConstFacts DEF TruthInv, PassedAreFalse, Ahead, Idle
<1>5. ~Holds(g.test, g.value, v, v)
  BY <1>1, <1>2, <1>4 DEF CheckTrigger
<1>6. clock \in Int /\ clock < Half - 1 /\ v <= clock /\ Half \in Int
  BY ConstFacts DEF IndInv, TypeOK, TruthInv, TimeIsBracketed
<1>7. ASSUME Holds(g.test, g.value, clock, clock) PROVE FALSE
  <2>1. CASE g.test = "PositiveComparison"
    <3>1. g.value <= clock /\ v < g.value /\ g.value < Half - 1
      BY <1>1, <1>5, <1>6, <1>7, <2>1 DEF Holds
    <3>2. g.value \in brackets
      BY <2>1, <3>1 DEF TruthInv, TimeIsBracketed
    <3>3. clock < g.value
      BY <3>2
    <3> QED
      BY <1>1, <1>6, <3>1, <3>3
  <2>2. CASE g.test = "NegativeComparison"
    <3> HIDE DEF g, v
    <3> QED
      BY <1>1, <1>5, <1>6, <1>7, <2>2 DEF Holds
  <2>3. CASE g.test \in Transitions
    <3> HIDE DEF g, v
    <3> QED
      BY <1>1, <1>6, <1>7, <2>3 DEF Holds, Transitions
  <2> QED
    BY <1>1, <1>3, <2>1, <2>2, <2>3 DEF Tests, Comparisons
<1> HIDE DEF g, v
<1>8. Trigger(t, await, alarm)' = g
  BY DEF Trigger, g
<1> QED
  BY <1>1, <1>2, <1>7, <1>8 DEF CheckTrigger

\* a request that asks for the values of S and registers no trigger
LEMMA AskedTruth ==
    ASSUME IndInv, IndInv', TruthInv, walk = Idle, UNCHANGED <<list, await, alarm, walk, clock>>,
           NEW S, value' = Asked(S), ServerTime \in S => \A x \in brackets : clock < x,
           \/ brackets' = brackets
           \/ brackets' = Brackets(list'[ServerTime], value'[ServerTime], await, alarm)
    PROVE  TruthInv'
<1>0. value \in [Syncs -> Int64] /\ value[ServerTime] \in Int /\ clock \in Int
      /\ value[ServerTime] <= clock
  <2>1. value \in [Syncs -> Int64] /\ clock \in 0 .. MaxNow
    BY DEF IndInv, TypeOK
  <2> QED
    BY <2>1, ConstFacts DEF TruthInv, TimeIsBracketed
<1>1. /\ \A s \in Syncs \ {ServerTime} : value'[s] = value[s]
      /\ value'[ServerTime] = IF ServerTime \in S THEN clock ELSE value[ServerTime]
  BY <1>0, ConstFacts DEF Asked
<1>2. ASSUME NEW s \in Syncs, NEW t \in DOMAIN list[s]
      PROVE  MayWait(s, t)'
  <2>1. CASE value'[s] = value[s]
    BY <2>1, QuietWait DEF Ahead
  <2>2. CASE value'[s] # value[s]
    <3>1. s = ServerTime /\ ServerTime \in S
      BY <1>1, <2>2
    <3> QED
      BY <1>1, <3>1, AskedStaysFalse DEF MayWait
  <2> QED
    BY <2>1, <2>2
<1> QED
  BY <1>0, <1>1, <1>2, QuietTruth

\* steps that change neither triggers nor values, nor walks: whatever is
\* walked now is walked by a step of the walk
LEMMA SameTruth ==
    ASSUME IndInv, IndInv', TruthInv, UNCHANGED <<list, await, alarm, walk, value, brackets>>,
           clock' >= clock
    PROVE  TruthInv'
<1>1. \A s \in Syncs : \A t \in DOMAIN list[s] : MayWait(s, t)'
  BY QuietWait DEF Ahead
<1>2. value[ServerTime] \in Int /\ value[ServerTime] <= clock /\ clock \in Int /\ clock' \in Int
  <2>1. value[ServerTime] \in Int64 /\ clock \in 0 .. MaxNow /\ clock' \in 0 .. MaxNow
    BY ConstFacts DEF IndInv, TypeOK
  <2> QED
    BY <2>1, ConstFacts DEF TruthInv, TimeIsBracketed
<1> QED
  BY <1>1, <1>2, QuietTruth

LEMMA TimeFacts ==
    ASSUME IndInv, TruthInv
    PROVE  /\ value[ServerTime] \in Int /\ clock \in Int /\ value[ServerTime] <= clock
           /\ ServerTime \in Syncs /\ value \in [Syncs -> Int64]
<1>1. value \in [Syncs -> Int64] /\ clock \in 0 .. MaxNow
  BY DEF IndInv, TypeOK
<1> QED
  BY <1>1, ConstFacts DEF TruthInv, TimeIsBracketed

\* SyncChangeCounter has every trigger of the counter ahead of it
LEMMA UpdateTruth ==
    ASSUME IndInv, IndInv', TruthInv, NEW k \in Syncs, NEW v \in Int64, walk = Idle,
           UpdateCounter(k, v), k = ServerTime => v = clock
    PROVE  TruthInv'
<1>1. /\ walk' = [kind |-> "change", sync |-> k, at |-> walk'.at, old |-> value[k]]
      /\ IF walk'.at = None THEN DOMAIN list[k] = {}
         ELSE walk'.at \in DOMAIN list[k] /\ DOMAIN list[k] = list[k][walk'.at] \cup {walk'.at}
  BY StartFacts DEF UpdateCounter, IndInv
<1>2. /\ value' = [value EXCEPT ![k] = v]
      /\ UNCHANGED <<live, list, await, alarm, ignored, phase, clock, brackets>>
  BY DEF UpdateCounter
<1>3. ASSUME NEW s \in Syncs, NEW t \in DOMAIN list[s]
      PROVE  MayWait(s, t)'
  <2>1. CASE s = k
    <3>1. walk'.at # None /\ t \in {walk'.at} \cup list'[s][walk'.at]
      BY <1>1, <1>2, <2>1
    <3>2. walk'.sync = s /\ walk'.kind = "change"
      BY <1>1, <2>1
    <3> QED
      BY <3>1, <3>2 DEF MayWait, Ahead
  <2>2. CASE s # k
    <3>1. value'[s] = value[s]
      BY <1>2, <2>2, TimeFacts
    <3>2. ~Ahead(s, t)
      BY ConstFacts DEF Ahead, Idle
    <3> QED
      BY <1>2, <3>1, <3>2, QuietWait
  <2> QED
    BY <2>1, <2>2
<1>4. value'[ServerTime] <= clock' /\ value'[ServerTime] >= value[ServerTime]
  BY <1>2, TimeFacts
<1> QED
  BY <1>2, <1>3, <1>4, QuietTruth

\* Steps that give values to objects without triggers, or start or end a walk
\* with nothing ahead of it.
LEMMA RestTruth ==
    ASSUME IndInv, IndInv', TruthInv, UNCHANGED <<list, await, alarm, clock>>,
           \A s \in Syncs : DOMAIN list[s] # {} => value'[s] = value[s],
           value'[ServerTime] = value[ServerTime],
           \A s \in Syncs : \A t \in DOMAIN list[s] : ~Ahead(s, t),
           \/ brackets' = brackets
           \/ brackets' = Brackets(list'[ServerTime], value'[ServerTime], await, alarm)
    PROVE  TruthInv'
<1>1. ASSUME NEW s \in Syncs, NEW t \in DOMAIN list[s]
      PROVE  MayWait(s, t)'
  BY QuietWait
<1>2. value'[ServerTime] <= clock' /\ value'[ServerTime] >= value[ServerTime]
  BY TimeFacts
<1> QED
  BY <1>1, <1>2, QuietTruth

LEMMA IdleAhead ==
    ASSUME walk = Idle, NEW s \in Syncs, NEW t
    PROVE  ~Ahead(s, t)
  BY ConstFacts DEF Ahead, Idle

LEMMA ObjectTruth ==
    ASSUME IndInv, IndInv', TruthInv, NEW c \in Clients,
           \/ \E k \in Counters : CreateCounter(c, k)
           \/ \E f \in Fences : CreateFence(c, f)
           \/ \E s \in Counters \cup Fences : DestroySync(c, s) \/ CloseSync(c, s)
    PROVE  TruthInv'
<1>1. ASSUME NEW s \in Counters \cup Fences, NEW v, CreateSync(c, s, v)
      PROVE  TruthInv'
  <2>1. /\ walk = Idle /\ value' = [value EXCEPT ![s] = v] /\ live[s] = "free"
        /\ UNCHANGED <<list, await, alarm, clock, brackets>>
    BY <1>1 DEF CreateSync, Request, Resting
  <2>2. s # ServerTime /\ s \in Syncs
    BY NamesAssumption DEF Syncs
  <2>3. DOMAIN list[s] = {}
    BY <2>1, <2>2, InList
  <2>4. /\ \A u \in Syncs : DOMAIN list[u] # {} => value'[u] = value[u]
        /\ value'[ServerTime] = value[ServerTime]
    BY <2>1, <2>2, <2>3, TimeFacts
  <2> QED
    BY <2>1, <2>4, IdleAhead, RestTruth
<1>2. ASSUME NEW s \in Counters \cup Fences, walk = Idle, FreeSync(s)
      PROVE  TruthInv'
  <2>1. UNCHANGED <<value, list, await, alarm, clock, brackets>>
    BY <1>2 DEF FreeSync
  <2> QED
    BY <1>2, <2>1, IdleAhead, RestTruth
<1>3. CASE \E k \in Counters : CreateCounter(c, k)
  BY <1>1, <1>3 DEF CreateCounter
<1>4. CASE \E f \in Fences : CreateFence(c, f)
  BY <1>1, <1>4 DEF CreateFence
<1>5. CASE \E s \in Counters \cup Fences : DestroySync(c, s) \/ CloseSync(c, s)
  BY <1>2, <1>5 DEF DestroySync, CloseSync, Request, Resting, Closing
<1> QED
  BY <1>3, <1>4, <1>5

\* a fence that is triggered has all of its triggers ahead; one that is reset
\* has none that is true
LEMMA FenceTruth ==
    ASSUME IndInv, IndInv', TruthInv, NEW c \in Clients, NEW f \in Fences,
           TriggerFence(c, f) \/ ResetFence(c, f)
    PROVE  TruthInv'
<1>1. /\ walk = Idle /\ f \in Syncs /\ f # ServerTime
      /\ UNCHANGED <<list, await, alarm, clock, brackets>>
  BY NamesAssumption, ConstFacts DEF TriggerFence, ResetFence, Request, Resting
<1>2. \/ /\ value' = [value EXCEPT ![f] = 1]
         /\ walk' = [kind |-> "fence", sync |-> f, at |-> None, old |-> 0]
      \/ value' = [value EXCEPT ![f] = 0] /\ walk' = walk
  BY DEF TriggerFence, ResetFence
<1>3. value \in [Syncs -> Int64]
  BY TimeFacts
<1>4. \A s \in Syncs \ {f} : value'[s] = value[s]
  BY <1>2, <1>3
<1>5. ASSUME NEW s \in Syncs, NEW t \in DOMAIN list[s]
      PROVE  MayWait(s, t)'
  <2>1. CASE s # f
    BY <1>1, <1>4, <2>1, QuietWait, IdleAhead
  <2>2. CASE s = f /\ walk' = [kind |-> "fence", sync |-> f, at |-> None, old |-> 0]
    <3>1. walk'.sync = s /\ walk'.kind = "fence"
      BY <2>2
    <3> QED
      BY <3>1 DEF MayWait, Ahead
  <2>3. CASE s = f /\ value'[f] = 0
    <3> DEFINE g == Trigger(t, await, alarm)
    <3>1. /\ g.sync = f /\ t.of \in Alarms => g \in Alarm
      BY <2>3, TriggerFacts
    <3>2. t.of \notin Alarms /\ g = await[t.of][t.i] /\ t.of \in Clients /\ t.i \in DOMAIN await[t.of]
      <4>1. t.of \in Alarms => g \in Alarm /\ g.sync = f
        BY <2>3, TriggerFacts
      <4>2. t.of \notin Alarms
        BY <1>1, <4>1, NamesAssumption, ConstFacts DEF Alarm
      <4> QED
        BY <2>3, <4>2, TriggerFacts, InList
    <3>3. g.sync = f
      BY <2>3, TriggerFacts
    <3>4. g.test = "Fence"
      BY <3>2, <3>3 DEF TruthInv, CondsFitSync
    <3>5. Trigger(t, await, alarm)' = g
      BY <1>1 DEF Trigger
    <3> HIDE DEF g
    <3>6. ~CheckTrigger(t, value[s])'
      BY <2>3, <3>2, <3>3, <3>4, <3>5 DEF CheckTrigger, Holds
    <3> QED
      BY <3>6 DEF MayWait
  <2>4. CASE s = f
    BY <1>1, <1>2, <1>3, <2>2, <2>3, <2>4
  <2> QED
    BY <2>1, <2>4
<1>6. value'[ServerTime] <= clock' /\ value'[ServerTime] >= value[ServerTime]
  BY <1>1, <1>4, TimeFacts
<1> QED
  BY <1>1, <1>5, <1>6, QuietTruth

\* a walk that is at its end has nothing ahead
LEMMA WalkEndTruth ==
    ASSUME IndInv, IndInv', TruthInv, ChangeEnd \/ FenceEnd \/ DestroyEnd
    PROVE  TruthInv'
<1>1. UNCHANGED <<list, await, alarm, clock>>
  BY DEF ChangeEnd, FenceEnd, DestroyEnd
<1>2. \/ brackets' = brackets
      \/ brackets' = Brackets(list'[ServerTime], value'[ServerTime], await, alarm)
  BY DEF ChangeEnd, FenceEnd, DestroyEnd
<1>3. \A s \in Syncs : \A t \in DOMAIN list[s] : ~Ahead(s, t)
  <2>1. CASE ChangeEnd \/ DestroyEnd
    BY <2>1 DEF ChangeEnd, DestroyEnd, Ahead
  <2>2. CASE FenceEnd
    BY <2>2 DEF FenceEnd, Ahead
  <2> QED
    BY <2>1, <2>2
<1>4. /\ \A s \in Syncs : DOMAIN list[s] # {} => value'[s] = value[s]
      /\ value'[ServerTime] = value[ServerTime]
  <2>1. CASE ChangeEnd \/ FenceEnd
    BY <2>1 DEF ChangeEnd, FenceEnd
  <2>2. CASE DestroyEnd
    <3>1. /\ walk.sync \in Counters \cup Fences /\ DOMAIN list[walk.sync] = {}
          /\ value' = [value EXCEPT ![walk.sync] = 0]
      BY <2>2 DEF DestroyEnd, IndInv, WalkFitsObject
    <3>2. walk.sync # ServerTime
      BY <3>1, NamesAssumption
    <3> QED
      BY <3>1, <3>2, TimeFacts
  <2> QED
    BY <2>1, <2>2
<1> QED
  BY <1>1, <1>2, <1>3, <1>4, RestTruth

LEMMA AskTruth ==
    ASSUME IndInv, IndInv', TruthInv, ~AskedWhenDue, NEW c \in Clients,
           QueryCounter(c) \/ \E w \in Waits : AwaitRefused(c, w)
    PROVE  TruthInv'
<1>1. CASE QueryCounter(c)
  <2>1. /\ walk = Idle /\ UNCHANGED <<list, await, alarm, walk, clock>> /\ brackets' = brackets
        /\ value' = Asked({ServerTime}) /\ \A x \in brackets : clock < x
    BY <1>1 DEF QueryCounter, Request, Resting, MayAsk
  <2> QED
    BY <2>1, AskedTruth
<1>2. CASE \E w \in Waits : AwaitRefused(c, w)
  <2>0. PICK w \in Waits : AwaitRefused(c, w)
    BY <1>2
  <2>1. PICK j \in DOMAIN w :
          LET before == {w[i].sync : i \in 1 .. j - 1}
              asked == IF live[w[j].sync] = "live" THEN before \cup {w[j].sync} ELSE before
          IN  /\ walk = Idle /\ \A s \in asked : MayAsk(s)
              /\ value' = Asked(asked)
              /\ brackets' = IF ServerTime \in before
                             THEN Brackets(list[ServerTime], clock, await, alarm)
                             ELSE brackets
              /\ UNCHANGED <<live, list, await, alarm, ignored, phase, walk, clock>>
    BY <2>0 DEF AwaitRefused, Request, Resting
  <2> DEFINE before == {w[i].sync : i \in 1 .. j - 1}
             asked == IF live[w[j].sync] = "live" THEN before \cup {w[j].sync} ELSE before
  <2>2. ServerTime \in before => ServerTime \in asked
    OBVIOUS
  <2>3. /\ \A s \in asked : MayAsk(s)
        /\ value' = Asked(asked)
        /\ brackets' = IF ServerTime \in before
                       THEN Brackets(list[ServerTime], clock, await, alarm)
                       ELSE brackets
        /\ walk = Idle /\ UNCHANGED <<list, await, alarm, walk, clock>>
    BY <2>1
  <2> HIDE DEF before, asked
  <2>4. ServerTime \in asked =>
          /\ \A x \in brackets : clock < x
          /\ value'[ServerTime] = clock
    BY <2>3, TimeFacts DEF MayAsk, Asked
  <2>5. \/ brackets' = brackets
        \/ brackets' = Brackets(list'[ServerTime], value'[ServerTime], await, alarm)
    BY <2>2, <2>3, <2>4
  <2> QED
    BY <2>3, <2>4, <2>5, AskedTruth
<1> QED
  BY <1>1, <1>2

\* the end of an Await: the triggers that are left are those of others
LEMMA FreedTruth ==
    ASSUME IndInv, IndInv', TruthInv, NEW c \in Clients,
           await' = [await EXCEPT ![c] = <<>>], UNCHANGED <<alarm, value, clock>>,
           \A s \in Syncs : DOMAIN list'[s] \subseteq DOMAIN list[s],
           \A s \in Syncs : \A t \in DOMAIN list'[s] :
              CheckTrigger(t, value[s]) /\ Ahead(s, t) => Ahead(s, t)',
           \/ brackets' = brackets
           \/ brackets' = Brackets(list'[ServerTime], value'[ServerTime], await, alarm)
    PROVE  TruthInv'
<1>0. await \in [Clients -> Seq(Cond)]
  BY DEF IndInv, TypeOK
<1>1. ASSUME NEW s \in Syncs, NEW t \in DOMAIN list'[s]
      PROVE  t \in DOMAIN list[s] /\ Trigger(t, await, alarm)' = Trigger(t, await, alarm)
  <2>1. t \in DOMAIN list[s]
    OBVIOUS
  <2>2. t.of \notin Alarms => t.of # c
    <3>1. t.of \notin Alarms => t.of \in Clients /\ t.i \in DOMAIN await'[t.of]
      BY DEF IndInv, ListsAreExact, Exists, TypeOK, IsList, Triggers
    <3>2. await'[c] = <<>> /\ DOMAIN await'[c] = {}
      BY <1>0
    <3> QED
      BY <3>1, <3>2
  <2>3. t.of \notin Alarms => t.of \in Clients
    BY <2>1, InList
  <2> QED
    BY <1>0, <2>1, <2>2, <2>3 DEF Trigger
<1>2. PassedAreFalse'
  <2>1. ASSUME NEW s \in Syncs, NEW t \in DOMAIN list'[s]
        PROVE  MayWait(s, t)'
    <3>1. t \in DOMAIN list[s] /\ Trigger(t, await, alarm)' = Trigger(t, await, alarm)
      BY <1>1
    <3>2. MayWait(s, t)
      BY <3>1 DEF TruthInv, PassedAreFalse, MayWait
    <3> QED
      BY <3>1, <3>2, StillMayWait
  <2> QED
    BY <2>1 DEF PassedAreFalse, MayWait
<1>3. TimeIsBracketed'
  <2>1. \A t \in DOMAIN list'[ServerTime] :
           t \in DOMAIN list[ServerTime] /\ Trigger(t, await, alarm)' = Trigger(t, await, alarm)
    BY <1>1, ConstFacts
  <2>2. /\ value'[ServerTime] <= clock' /\ value'[ServerTime] >= value[ServerTime]
        /\ TimeIsBracketed
    BY TimeFacts DEF TruthInv
  <2>3. \/ brackets' = brackets
        \/ brackets' = Brackets(list'[ServerTime], value'[ServerTime], await, alarm)
    OBVIOUS
  <2> QED
    BY <2>1, <2>2, <2>3, StillBracketed
<1>4. NoTimeAlarms'
  BY DEF TruthInv, NoTimeAlarms
<1>5. CondsFitSync'
  <2>1. \A d \in Clients : await'[d] = await[d] \/ DOMAIN await'[d] = {}
    BY <1>0
  <2> QED
    BY <2>1 DEF TruthInv, CondsFitSync
<1> QED
  BY <1>2, <1>3, <1>4, <1>5 DEF TruthInv

\* a change of one alarm, which leaves the others' triggers where they are
LEMMA AlarmTruth ==
    ASSUME IndInv, IndInv', TruthInv, NEW a \in Alarms, NEW g \in Alarm,
           alarm' = [alarm EXCEPT ![a] = g], UNCHANGED <<await, value, clock, brackets>>,
           g.sync # ServerTime,
           \A s \in Syncs : \A t \in DOMAIN list'[s] : t.of # a => t \in DOMAIN list[s],
           \A s \in Syncs : \A t \in DOMAIN list'[s] :
              t.of # a /\ CheckTrigger(t, value[s]) /\ Ahead(s, t) => Ahead(s, t)',
           g.sync # None /\ g.state # "Inactive" =>
              ~Holds(g.check, g.value, value[g.sync], value[g.sync])
    PROVE  TruthInv'
<1>0. alarm \in [Alarms -> Alarm] /\ alarm' \in [Alarms -> Alarm] /\ alarm'[a] = g
  BY DEF IndInv, TypeOK
<1>1. ASSUME NEW s \in Syncs, NEW t \in DOMAIN list'[s]
      PROVE  /\ t.of # a => /\ t \in DOMAIN list[s]
                            /\ Trigger(t, await, alarm)' = Trigger(t, await, alarm)
             /\ t.of = a => g.sync = s /\ s # ServerTime /\ s # None /\ Trigger(t, await, alarm)' = g
  <2>1. SyncOf(t)' = s
    BY DEF IndInv, ListsAreExact
  <2>2. CASE t.of = a
    BY <1>0, <2>1, <2>2, ConstFacts DEF SyncOf, Trigger
  <2>3. CASE t.of # a
    BY <1>0, <2>3 DEF Trigger
  <2> QED
    BY <2>2, <2>3
<1>2. PassedAreFalse'
  <2>1. ASSUME NEW s \in Syncs, NEW t \in DOMAIN list'[s]
        PROVE  MayWait(s, t)'
    <3>1. CASE t.of # a
      <4>1. t \in DOMAIN list[s] /\ Trigger(t, await, alarm)' = Trigger(t, await, alarm)
        BY <1>1, <3>1
      <4>2. MayWait(s, t)
        BY <4>1 DEF TruthInv, PassedAreFalse, MayWait
      <4>3. CheckTrigger(t, value[s]) /\ Ahead(s, t) => Ahead(s, t)'
        BY <3>1
      <4>4. value'[s] = value[s]
        OBVIOUS
      <4> QED
        BY <4>1, <4>2, <4>3, <4>4, StillMayWait
    <3>2. CASE t.of = a
      <4>1. g.sync = s /\ s # None /\ Trigger(t, await, alarm)' = g
        BY <1>1, <3>2
      <4>2. g.state = "Inactive" \/ ~CheckTrigger(t, value[s])'
        BY <3>2, <4>1 DEF CheckTrigger
      <4> QED
        BY <1>0, <3>2, <4>2 DEF MayWait
    <3> QED
      BY <3>1, <3>2
  <2> QED
    BY <2>1 DEF PassedAreFalse, MayWait
<1>3. TimeIsBracketed'
  <2>1. \A t \in DOMAIN list'[ServerTime] :
           t \in DOMAIN list[ServerTime] /\ Trigger(t, await, alarm)' = Trigger(t, await, alarm)
    BY <1>1, ConstFacts
  <2>2. /\ value'[ServerTime] <= clock' /\ value'[ServerTime] >= value[ServerTime]
        /\ TimeIsBracketed
    BY TimeFacts DEF TruthInv
  <2>3. \/ brackets' = brackets
        \/ brackets' = Brackets(list'[ServerTime], value'[ServerTime], await, alarm)
    OBVIOUS
  <2> QED
    BY <2>1, <2>2, <2>3, StillBracketed
<1>4. NoTimeAlarms'
  BY <1>0 DEF TruthInv, NoTimeAlarms
<1>5. CondsFitSync'
  BY DEF TruthInv, CondsFitSync
<1> QED
  BY <1>2, <1>3, <1>4, <1>5 DEF TruthInv

\* SyncAlarmTriggerFired leaves the trigger false, or the alarm inactive
LEMMA FiredIsFalse ==
    ASSUME NEW r \in Alarm, NEW v, r.state # "free"
    PROVE  LET f == Fired(r, v) IN f.state = "Inactive" \/ ~Holds(f.check, f.value, v, v)
<1>1. CASE r.state # "Active"
  BY <1>1 DEF Fired, Alarm
<1>2. CASE Fired(r, v) = [r EXCEPT !.state = "Inactive"]
  <2>1. Fired(r, v).state = "Inactive"
    BY <1>2 DEF Alarm
  <2> QED
    BY <2>1
<1>3. CASE /\ Updates(r, v) # {}
           /\ Fired(r, v) = [r EXCEPT !.value = CHOOSE y \in Updates(r, v) : TRUE]
  <2> DEFINE y == CHOOSE y \in Updates(r, v) : TRUE
  <2>1. y \in Updates(r, v)
    BY <1>3
  <2> HIDE DEF y
  <2>2. y \in Int64 /\ ~Holds(r.check, y, v, v)
    BY <2>1 DEF Updates
  <2>3. Fired(r, v) = [r EXCEPT !.value = y]
    BY <1>3 DEF y
  <2>4. Fired(r, v).check = r.check /\ Fired(r, v).value = y
    BY <2>3 DEF Alarm
  <2> QED
    BY <2>2, <2>4
<1> QED
  BY <1>1, <1>2, <1>3 DEF Fired

LEMMA OldIsNothing ==
    ASSUME NEW test \in Tests, NEW x \in Int, NEW v \in Int, NEW old, Holds(test, x, v, v)
    PROVE  Holds(test, x, v, old)
  BY DEF Holds, Tests, Comparisons, Transitions

\* SyncChangeCounter looks at a trigger and fires it if it is true
LEMMA ChangeStepTruth ==
    ASSUME IndInv, IndInv', TruthInv, ChangeStep
    PROVE  TruthInv'
<1> DEFINE t == walk.at
           s == walk.sync
           q == list[s]
<1>0. /\ walk.kind = "change" /\ t \in DOMAIN q /\ s \in Syncs /\ live[s] = "live"
      /\ UNCHANGED <<live, value, phase, clock>> /\ IsList(q) /\ t # None
      /\ \A u \in Syncs : live[u] # "dying"
      /\ alarm \in [Alarms -> Alarm] /\ await \in [Clients -> Seq(Cond)]
  BY InList DEF ChangeStep, IndInv, WalkFitsObject, TypeOK
<1>1. PICK next \in NextOf(q, t) : walk' = [walk EXCEPT !.at = next]
  BY DEF ChangeStep
<1>2. /\ next # None => next \in DOMAIN q /\ next # t /\ q[t] = q[next] \cup {next}
      /\ next = None => q[t] = {}
  BY <1>0, NextFacts
<1>3. walk'.kind = "change" /\ walk'.sync = s /\ walk'.at = next
  BY <1>0, <1>1 DEF IndInv, TypeOK
<1>4. ASSUME UNCHANGED list, NEW x \in Syncs, NEW u \in DOMAIN list[x], u # t, Ahead(x, u)
      PROVE  Ahead(x, u)'
  BY <1>0, <1>2, <1>3, <1>4 DEF Ahead
<1>5. CASE ~CheckTrigger(t, walk.old) /\ UNCHANGED <<list, await, alarm, ignored, brackets>>
  <2>1. ~CheckTrigger(t, value[s])
    <3> DEFINE g == Trigger(t, await, alarm)
    <3>1. /\ g.sync = s /\ g.value \in Int /\ g.test \in Tests /\ value[s] \in Int
          /\ t.of \in Alarms => g \in Alarm
      BY <1>0, TriggerFacts
    <3>2. t.of \in Alarms => g.check \in Tests
      BY <3>1 DEF Alarm, Tests
    <3> HIDE DEF g
    <3> QED
      BY <1>5, <3>1, <3>2, OldIsNothing DEF CheckTrigger, g
  <2>2. ASSUME NEW x \in Syncs, NEW u \in DOMAIN list[x]
        PROVE  MayWait(x, u)'
    <3>1. u = t => x = s
      BY <1>0, InList
    <3>2. CheckTrigger(u, value[x]) /\ Ahead(x, u) => Ahead(x, u)'
      BY <1>4, <1>5, <2>1, <3>1
    <3> QED
      BY <1>0, <1>5, <3>2, QuietWait
  <2> QED
    BY <1>0, <1>5, <2>2, TimeFacts, QuietTruth
<1>6. CASE /\ t.of \in Alarms
           /\ alarm' = [alarm EXCEPT ![t.of] = Fired(@, value[s])]
           /\ UNCHANGED <<list, await, ignored, brackets>>
  <2> DEFINE a == t.of
             g == Fired(alarm[a], value[s])
  <2>1. alarm' = [alarm EXCEPT ![a] = g] /\ alarm[a] \in Alarm /\ a \in Alarms
    BY <1>0, <1>6
  <2>2. alarm[a].sync = s /\ alarm[a].state # "free" /\ t = AlarmTrigger(a)
    BY <1>0, <1>6, InList DEF IndInv, ListsAreExact, Exists
  <2>3. g \in Alarm /\ g.sync = s
    BY <2>1, <2>2, FiredFacts
  <2>4. g.state = "Inactive" \/ ~Holds(g.check, g.value, value[s], value[s])
    BY <2>1, <2>2, FiredIsFalse
  <2>5. g.sync # ServerTime
    BY <2>1, <2>2, <2>3 DEF TruthInv, NoTimeAlarms
  <2> HIDE DEF g
  <2>6. \A x \in Syncs : \A u \in DOMAIN list'[x] :
           u.of # a /\ CheckTrigger(u, value[x]) /\ Ahead(x, u) => Ahead(x, u)'
    BY <1>4, <1>6
  <2> QED
    BY <1>0, <1>6, <2>1, <2>3, <2>4, <2>5, <2>6, AlarmTruth
<1>7. CASE t.of \notin Alarms /\ FireAwait(t.of, Unlinked(t.of))
  <2> DEFINE c == t.of
             l == Unlinked(c)
  <2>1. c \in Clients
    BY <1>0, <1>7, InList
  <2>2. \A x \in Syncs : DOMAIN l[x] = {u \in DOMAIN list[x] : u.of # c}
    BY <1>0, <2>1, UnlinkedFacts
  <2>3. \A x \in Syncs : \A u \in DOMAIN l[x] : l[x][u] = list[x][u] \ CondTriggers(c, x)
    <3>1. \A x \in Syncs : l[x] = Without(list[x], CondTriggers(c, x))
      BY <1>0 DEF Unlinked
    <3>2. ASSUME NEW x \in Syncs, NEW u \in DOMAIN l[x]
          PROVE  l[x][u] = list[x][u] \ CondTriggers(c, x)
      BY <3>1, <3>2 DEF Without
    <3> QED
      BY <3>2
  <2>4. /\ list' = l /\ await' = [await EXCEPT ![c] = <<>>] /\ alarm' = alarm
        /\ \/ brackets' = brackets
           \/ brackets' = Brackets(l[ServerTime], value[ServerTime], await, alarm)
    BY <1>7 DEF FireAwait, FreeAwait
  <2>5. ASSUME NEW x \in Syncs, NEW u \in DOMAIN l[x], Ahead(x, u)
        PROVE  Ahead(x, u)'
    <3>1. x = s /\ u \in {t} \cup q[t] /\ u # t /\ u \in DOMAIN q
      BY <1>0, <2>2, <2>5 DEF Ahead
    <3>2. next # None /\ (u = next \/ u \in q[next]) /\ next \in DOMAIN q /\ next # t
      BY <1>2, <3>1
    <3>3. next.of # c
      BY <1>0, <3>2, OnePerList
    <3>4. u.of # c /\ u \notin CondTriggers(c, s)
      BY <2>2, <2>5 DEF CondTriggers
    <3>5. next \in DOMAIN l[s] /\ (u = next \/ u \in l[s][next])
      BY <1>0, <2>2, <2>3, <3>2, <3>3, <3>4
    <3> QED
      BY <1>3, <2>4, <3>1, <3>2, <3>5 DEF Ahead
  <2> HIDE DEF l
  <2> QED
    BY <1>0, <2>1, <2>2, <2>4, <2>5, FreedTruth
<1> QED
  BY <1>5, <1>6, <1>7 DEF ChangeStep

\* FreeCounter and miSyncDestroyFence tell a trigger, which is gone then
LEMMA DestroyStepTruth ==
    ASSUME IndInv, IndInv', TruthInv, DestroyStep
    PROVE  TruthInv'
<1> DEFINE t == walk.at
           s == walk.sync
           told == IF t.of \in Alarms THEN list ELSE Unlinked(t.of)
           l == [told EXCEPT ![s] = Without(@, {t})]
<1>0. /\ walk.kind = "destroy" /\ t \in DOMAIN list[s] /\ s \in Syncs
      /\ UNCHANGED <<live, value, phase, clock>>
      /\ alarm \in [Alarms -> Alarm] /\ DOMAIN list = Syncs
  BY DEF DestroyStep, IndInv, WalkFitsObject, TypeOK, Syncs
<1>1. list' = l
  BY DEF DestroyStep, FireAwait, FreeAwait
<1>2. \A x \in Syncs : DOMAIN l[x] \subseteq DOMAIN list[x]
  <2>1. DOMAIN told = Syncs /\ \A x \in Syncs : DOMAIN told[x] \subseteq DOMAIN list[x]
    <3>1. CASE t.of \in Alarms
      BY <1>0, <3>1
    <3>2. CASE t.of \notin Alarms
      BY <3>2 DEF Unlinked, Without
    <3> QED
      BY <3>1, <3>2
  <2> HIDE DEF told
  <2>2. ASSUME NEW x \in Syncs PROVE DOMAIN l[x] \subseteq DOMAIN list[x]
    <3>1. l[x] = IF x = s THEN Without(told[x], {t}) ELSE told[x]
      BY <2>1
    <3>2. DOMAIN Without(told[x], {t}) \subseteq DOMAIN told[x]
      BY DEF Without
    <3> QED
      BY <2>1, <3>1, <3>2
  <2> QED
    BY <2>2
<1> HIDE DEF l, told
<1>3. \A x, u : ~Ahead(x, u)
  BY <1>0 DEF Ahead
<1>4. CASE t.of \in Alarms
  <2> DEFINE a == t.of
             g == [alarm[a] EXCEPT !.state = "Inactive", !.sync = None]
  <2>1. alarm' = [alarm EXCEPT ![a] = g] /\ UNCHANGED <<await, ignored, brackets>>
    BY <1>0, <1>4 DEF DestroyStep
  <2>2. alarm[a] \in Alarm
    BY <1>0, <1>4
  <2>3. g \in Alarm /\ g.sync = None
    BY <2>2 DEF Alarm
  <2> HIDE DEF g
  <2>4. g.sync # ServerTime
    BY <2>3, ConstFacts
  <2> QED
    BY <1>0, <1>1, <1>2, <1>3, <1>4, <2>1, <2>3, <2>4, AlarmTruth
<1>5. CASE t.of \notin Alarms
  <2>1. FireAwait(t.of, l)
    BY <1>5 DEF DestroyStep, l, told
  <2>2. t.of \in Clients
    BY <1>0, <1>5, InList
  <2>3. /\ await' = [await EXCEPT ![t.of] = <<>>] /\ alarm' = alarm
        /\ \/ brackets' = brackets
           \/ brackets' = Brackets(l[ServerTime], value[ServerTime], await, alarm)
    BY <2>1 DEF FireAwait, FreeAwait
  <2> QED
    BY <1>0, <1>1, <1>2, <1>3, <2>2, <2>3, FreedTruth
<1> QED
  BY <1>4, <1>5

LEMMA FenceStepTruth ==
    ASSUME IndInv, IndInv', TruthInv, FenceStep
    PROVE  TruthInv'
<1> DEFINE s == walk.sync
<1>0. /\ walk.kind = "fence" /\ s \in Fences /\ s \in Syncs
      /\ UNCHANGED <<live, value, phase, walk, clock>>
      /\ \A u \in Syncs : live[u] # "dying"
      /\ alarm \in [Alarms -> Alarm]
  BY ConstFacts DEF FenceStep, IndInv, WalkFitsObject, TypeOK
<1>1. PICK t \in First(list[s]) : FireAwait(t.of, Unlinked(t.of))
  BY DEF FenceStep
<1>2. t \in DOMAIN list[s]
  BY <1>1 DEF FenceStep, First
<1>3. t.of \in Clients
  <2>1. t.of \in Alarms => alarm[t.of].sync = s /\ alarm[t.of] \in Alarm
    BY <1>0, <1>2, InList
  <2>2. t.of \notin Alarms
    BY <1>0, <2>1, NamesAssumption, ConstFacts DEF Alarm
  <2> QED
    BY <1>0, <1>2, <2>2, InList
<1>4. \A x \in Syncs : DOMAIN Unlinked(t.of)[x] = {u \in DOMAIN list[x] : u.of # t.of}
  BY <1>0, <1>3, UnlinkedFacts
<1>5. /\ list' = Unlinked(t.of) /\ await' = [await EXCEPT ![t.of] = <<>>] /\ alarm' = alarm
      /\ \/ brackets' = brackets
         \/ brackets' = Brackets(list'[ServerTime], value[ServerTime], await, alarm)
  BY <1>1 DEF FireAwait, FreeAwait
<1>6. \A x, u : Ahead(x, u) => Ahead(x, u)'
  BY <1>0 DEF Ahead
<1> QED
  BY <1>0, <1>3, <1>4, <1>5, <1>6, FreedTruth

LEMMA CloseAwaitTruth ==
    ASSUME IndInv, IndInv', TruthInv, NEW c \in Clients, CloseAwait(c)
    PROVE  TruthInv'
<1>0. /\ walk = Idle /\ FreeAwait(c, Unlinked(c))
      /\ UNCHANGED <<live, value, ignored, phase, walk, clock>>
  BY DEF CloseAwait, Closing
<1>1. \A x \in Syncs : DOMAIN Unlinked(c)[x] = {u \in DOMAIN list[x] : u.of # c}
  BY <1>0, RestingFacts, UnlinkedFacts
<1>2. /\ list' = Unlinked(c) /\ await' = [await EXCEPT ![c] = <<>>] /\ alarm' = alarm
      /\ \/ brackets' = brackets
         \/ brackets' = Brackets(list'[ServerTime], value[ServerTime], await, alarm)
  BY <1>0 DEF FreeAwait
<1> QED
  BY <1>0, <1>1, <1>2, IdleAhead, FreedTruth

LEMMA ReleasedTruth ==
    ASSUME IndInv, IndInv', TruthInv, NEW a \in Alarms, Released(a), walk = Idle,
           UNCHANGED <<live, value, await, ignored, phase, walk, clock>>
    PROVE  TruthInv'
<1>1. NoAlarm \in Alarm /\ NoAlarm.sync = None
  BY ConstFacts DEF NoAlarm, Alarm, Types, Comparisons
<1>2. alarm[a].sync # ServerTime /\ alarm[a].sync \in Counters \cup {ServerTime, None}
  BY DEF TruthInv, NoTimeAlarms, IndInv, TypeOK, Alarm
<1>3. alarm' = [alarm EXCEPT ![a] = NoAlarm] /\ brackets' = brackets
  BY <1>2 DEF Released
<1>4. ASSUME NEW x \in Syncs PROVE DOMAIN list'[x] \subseteq DOMAIN list[x]
  <2>1. \/ list' = list
        \/ list' = [list EXCEPT ![alarm[a].sync] = Without(@, {AlarmTrigger(a)})]
    BY DEF Released
  <2>2. DOMAIN Without(list[x], {AlarmTrigger(a)}) \subseteq DOMAIN list[x]
    BY DEF Without
  <2>3. DOMAIN list = Syncs
    BY DEF IndInv, TypeOK
  <2> QED
    BY <2>1, <2>2, <2>3
<1>5. None # ServerTime
  BY ConstFacts
<1> QED
  BY <1>1, <1>3, <1>4, <1>5, IdleAhead, AlarmTruth

\* an alarm that is set up is false, or has fired
LEMMA SetUpTruth ==
    ASSUME IndInv, IndInv', TruthInv, QuietClients,
           NEW a \in Alarms, NEW ch \in Changes, NEW r \in Alarm,
           r.sync = alarm[a].sync, r.state # "free", walk = Idle, SetUp(a, r, ch)
    PROVE  TruthInv'
<1> DEFINE new == Assigned(r, ch)
           s == Or(ch.counter, r.sync)
           known == s = None \/ live[s] = "live"
           val == IF known /\ ~BadMatch(new, ch) THEN Asked({s}) ELSE value
           v == IF s = None THEN 0 ELSE val[s]
           init == Initialised(new, ch, s, v)
           g == init.alarm
           fires == s = None \/ Holds(g.check, g.value, v, v)
           f == IF fires THEN Fired(g, v) ELSE g
<1>0. alarm \in [Alarms -> Alarm] /\ ch \in Change
  BY InputsAssumption DEF IndInv, TypeOK
<1>1. s \in Counters \cup {None} /\ r.sync # ServerTime /\ s # ServerTime
  <2>1. r.sync \in Counters \cup {None} /\ r.sync # ServerTime
    BY <1>0 DEF Alarm, TruthInv, NoTimeAlarms
  <2>2. ch.counter \in Counters \cup {None, Keep} /\ ch.counter # ServerTime
    BY <1>0 DEF Change, QuietClients
  <2> QED
    BY <2>1, <2>2 DEF Or
<1>2. val = value
  <2>1. Asked({s}) = value
    BY <1>1 DEF Asked
  <2> QED
    BY <2>1
<1>3. /\ value' = value /\ UNCHANGED <<live, await, ignored, phase, walk, clock, brackets>>
      /\ \/ UNCHANGED <<alarm, list>>
         \/ /\ init.ok /\ alarm' = [alarm EXCEPT ![a] = f]
            /\ list' = Moved(a, r.sync, s)
  <2>1. value' = val /\ UNCHANGED <<live, await, ignored, phase, walk, clock>>
    BY DEF SetUp
  <2>2. CASE BadMatch(new, ch) \/ ~init.ok
    <3>1. UNCHANGED <<list, brackets>>
      BY <2>2 DEF SetUp
    <3>2. /\ alarm[a].state = "free" \/ RefusedChanges \/ BadMatch(new, ch)
          /\ alarm' = IF alarm[a].state = "free" \/ BadMatch(new, ch) THEN alarm
                      ELSE [alarm EXCEPT ![a] = g]
      BY <2>2 DEF SetUp
    <3>3. alarm' = alarm
      BY <3>2 DEF QuietClients
    <3> QED
      BY <1>2, <2>1, <3>1, <3>3
  <2>3. CASE ~BadMatch(new, ch) /\ init.ok
    <3>1. list' = Moved(a, r.sync, s) /\ alarm' = [alarm EXCEPT ![a] = f]
      BY <2>3 DEF SetUp
    <3>2. brackets' = IF ServerTime \in {r.sync, s}
                      THEN Brackets(list'[ServerTime], val[ServerTime], await, [alarm EXCEPT ![a] = g])
                      ELSE brackets
      BY <2>3 DEF SetUp
    <3>3. brackets' = brackets
      BY <1>1, <3>2
    <3> QED
      BY <1>2, <2>1, <2>3, <3>1, <3>3
  <2> QED
    BY <2>2, <2>3
<1>4. v \in Int64 /\ new \in Alarm
  <2>1. s # None => s \in Syncs
    BY <1>1 DEF Syncs
  <2>2. value \in [Syncs -> Int64]
    BY TimeFacts
  <2> QED
    BY <1>2, <2>1, <2>2, ConstFacts, AssignedFacts
<1>5. g \in Alarm /\ (init.ok => g.sync = s /\ g.state = "Active")
  <2> HIDE DEF v, s, new
  <2> QED
    BY <1>1, <1>4, InitialisedFacts
<1>6. s # None => v = value[s]
  BY <1>2
<1>7. s = None \/ s # None
  OBVIOUS
<1> HIDE DEF new, s, val, v, init
<1>8. CASE UNCHANGED <<alarm, list>>
  <2>1. UNCHANGED <<list, await, alarm, walk, value, brackets>> /\ clock' >= clock
    BY <1>3, <1>8, TimeFacts
  <2> QED
    BY <2>1, SameTruth
<1>9. CASE init.ok /\ alarm' = [alarm EXCEPT ![a] = f] /\ list' = Moved(a, r.sync, s)
  <2>1. f \in Alarm /\ f.sync = s
    BY <1>5, <1>9, FiredFacts
  <2>2. f.sync # None /\ f.state # "Inactive" => ~Holds(f.check, f.value, value[f.sync], value[f.sync])
    <3>1. CASE fires
      <4>1. f = Fired(g, v) /\ g.state # "free"
        BY <1>5, <1>9, <3>1
      <4>2. f.state = "Inactive" \/ ~Holds(f.check, f.value, v, v)
        BY <1>5, <4>1, FiredIsFalse
      <4> QED
        BY <1>6, <2>1, <4>2
    <3>2. CASE ~fires
      <4>1. f = g /\ ~Holds(g.check, g.value, v, v)
        BY <3>2
      <4> QED
        BY <1>6, <2>1, <4>1
    <3> QED
      BY <3>1, <3>2
  <2> HIDE DEF f
  <2>3. ASSUME NEW x \in Syncs, NEW t \in DOMAIN list'[x], t.of # a
        PROVE  t \in DOMAIN list[x]
    <3>1. list' = Moved(a, alarm[a].sync, s)
      BY <1>9
    <3>2. LET l == Moved(a, alarm[a].sync, s) IN
          DOMAIN l[x] = IF x = s THEN DOMAIN list[x] \cup {AlarmTrigger(a)}
                        ELSE DOMAIN list[x] \ {AlarmTrigger(a)}
      BY <1>1, MovedFacts
    <3> QED
      BY <2>3, <3>1, <3>2 DEF AlarmTrigger
  <2>4. f.sync # ServerTime
    BY <1>1, <2>1
  <2> QED
    BY <1>3, <1>9, <2>1, <2>2, <2>3, <2>4, IdleAhead, AlarmTruth
<1> QED
  BY <1>3, <1>8, <1>9

LEMMA AlarmStepTruth ==
    ASSUME IndInv, IndInv', TruthInv, QuietClients,
           NEW c \in Clients, NEW a \in Alarms, NEW ch \in Changes,
           CreateAlarm(c, a, ch) \/ ChangeAlarm(c, a, ch)
    PROVE  TruthInv'
<1>1. walk = Idle /\ alarm[a] \in Alarm
  BY DEF CreateAlarm, ChangeAlarm, Request, Resting, IndInv, TypeOK
<1>2. CASE CreateAlarm(c, a, ch)
  <2> DEFINE r == [NoAlarm EXCEPT !.state = "Inactive", !.delta = 1]
  <2>1. r \in Alarm /\ r.sync = None /\ r.state # "free"
    BY ConstFacts DEF NoAlarm, Alarm, Types, Comparisons
  <2>2. alarm[a].state = "free" /\ alarm[a].sync = None /\ SetUp(a, r, ch)
    BY <1>2 DEF CreateAlarm, IndInv, FreeAlarmsHaveNoCounter
  <2> HIDE DEF r
  <2> QED
    BY <1>1, <2>1, <2>2, SetUpTruth
<1>3. CASE ChangeAlarm(c, a, ch)
  BY <1>1, <1>3, SetUpTruth DEF ChangeAlarm
<1> QED
  BY <1>2, <1>3

\* SyncAwaitEpilogue lets a client sleep only for what is false
LEMMA AwaitTruth ==
    ASSUME IndInv, IndInv', TruthInv, QuietClients,
           NEW c \in Clients, NEW w \in Waits, Await(c, w)
    PROVE  TruthInv'
<1> DEFINE val == Asked(SyncsOf(w))
           conds == Condition(w, val)
           waits == ~AlreadyTrue(conds, val)
<1>0. /\ walk = Idle /\ value' = val /\ UNCHANGED <<live, alarm, phase, walk, clock>>
      /\ \A i \in DOMAIN w : CondAccepted(w[i]) /\ MayAsk(w[i].sync)
      /\ w \in Seq(WaitCond)
      /\ \A i \in DOMAIN w : w[i].test = "Fence" <=> w[i].sync \in Fences
  BY InputsAssumption DEF Await, Request, Resting
<1>1. IF waits
      THEN await' = [await EXCEPT ![c] = conds] /\ list' = Registered(c, w)
      ELSE UNCHANGED <<await, list>>
  BY DEF Await
<1>2. brackets' = IF ServerTime \in SyncsOf(w)
                  THEN Brackets(list'[ServerTime], clock, await', alarm) ELSE brackets
  BY DEF Await
<1>3. ServerTime \in SyncsOf(w) => \A x \in brackets : clock < x
  BY <1>0 DEF SyncsOf, MayAsk, QuietClients
<1>4. /\ \A s \in Syncs \ {ServerTime} : value'[s] = value[s]
      /\ value'[ServerTime] = IF ServerTime \in SyncsOf(w) THEN clock ELSE value[ServerTime]
  BY <1>0, TimeFacts DEF Asked
<1>5. CASE ~waits
  <2>1. \/ brackets' = brackets
        \/ brackets' = Brackets(list'[ServerTime], value'[ServerTime], await, alarm)
    BY <1>1, <1>2, <1>4, <1>5
  <2> QED
    BY <1>0, <1>1, <1>3, <1>5, <2>1, AskedTruth
<1>6. CASE waits
  <2>0. await \in [Clients -> Seq(Cond)] /\ await' \in [Clients -> Seq(Cond)] /\ await'[c] = conds
        /\ \A d \in Clients \ {c} : await'[d] = await[d]
    BY <1>1, <1>6 DEF IndInv, TypeOK
  <2>1. DOMAIN conds = DOMAIN w
        /\ \A i \in DOMAIN w : conds[i].sync = w[i].sync /\ conds[i].test = w[i].test
    BY DEF Condition
  <2>2. \A i \in DOMAIN w : LET v == value'[conds[i].sync] IN
                            ~Holds(conds[i].test, conds[i].value, v, v)
    BY <1>0, <1>6, <2>1 DEF AlreadyTrue
  <2> HIDE DEF conds, val
  <2>3. ASSUME NEW s \in Syncs, NEW t \in DOMAIN list'[s]
        PROVE  \/ /\ t.of = c /\ t.of \notin Alarms /\ t.i \in DOMAIN w
                  /\ Trigger(t, await, alarm)' = conds[t.i] /\ conds[t.i].sync = s
               \/ /\ t \in DOMAIN list[s]
                  /\ Trigger(t, await, alarm)' = Trigger(t, await, alarm)
    <3>1. SyncOf(t)' = s /\ (t.of \notin Alarms => t.of \in Clients /\ t.i \in DOMAIN await'[t.of])
      BY DEF IndInv, ListsAreExact, Exists, TypeOK, IsList, Triggers
    <3>2. CASE t.of = c
      <4>1. t.of \notin Alarms
        BY <3>2, NamesAssumption
      <4>2. t.i \in DOMAIN conds /\ Trigger(t, await, alarm)' = conds[t.i]
        BY <2>0, <3>1, <3>2, <4>1 DEF Trigger
      <4> QED
        BY <2>1, <3>1, <3>2, <4>1, <4>2 DEF SyncOf
    <3>3. CASE t.of # c
      <4>1. DOMAIN w \subseteq Nat
        BY <1>0
      <4>2. DOMAIN list'[s] = DOMAIN list[s] \cup {[of |-> c, i |-> i] : i \in {j \in DOMAIN w : w[j].sync = s}}
        BY <1>1, <1>6, <4>1, RegisteredFacts
      <4>3. t \in DOMAIN list[s]
        BY <3>3, <4>2
      <4> QED
        BY <1>0, <2>0, <3>1, <3>3, <4>3 DEF Trigger
    <3> QED
      BY <3>2, <3>3
  <2>4. ASSUME NEW s \in Syncs, NEW t \in DOMAIN list'[s]
        PROVE  MayWait(s, t)'
    <3>1. CASE /\ t.of = c /\ t.of \notin Alarms /\ t.i \in DOMAIN w
               /\ Trigger(t, await, alarm)' = conds[t.i] /\ conds[t.i].sync = s
      <4>1. ~CheckTrigger(t, value[s])'
        BY <2>2, <3>1 DEF CheckTrigger
      <4> QED
        BY <4>1 DEF MayWait
    <3>2. CASE /\ t \in DOMAIN list[s]
               /\ Trigger(t, await, alarm)' = Trigger(t, await, alarm)
      <4>0. MayWait(s, t) /\ ~Ahead(s, t)
        BY <1>0, <3>2, IdleAhead DEF TruthInv, PassedAreFalse, MayWait
      <4>1. CASE value'[s] = value[s]
        BY <3>2, <4>0, <4>1, StillMayWait
      <4>2. CASE value'[s] # value[s]
        <5>1. s = ServerTime /\ value'[s] = clock /\ ServerTime \in SyncsOf(w)
          BY <1>4, <4>2
        <5> DEFINE g == Trigger(t, await, alarm)
        <5>2. /\ g.sync = s /\ g.value \in Int /\ g.test \in Tests /\ value[s] \in Int
              /\ t.of \in Alarms => g = alarm[t.of]
              /\ t.of \notin Alarms => g = await[t.of][t.i]
          BY <3>2, TriggerFacts, ConstFacts
        <5>3. t.of \notin Alarms /\ t.of \in Clients /\ t.i \in DOMAIN await[t.of]
          BY <3>2, <5>1, <5>2, InList DEF TruthInv, NoTimeAlarms
        <5>4. ~Holds(g.test, g.value, clock, clock)
          <6>1. ~Holds(g.test, g.value, value[s], value[s])
            BY <4>0, <5>2, <5>3 DEF MayWait, CheckTrigger
          <6>2. g.test = "PositiveComparison" /\ value[s] < g.value /\ g.value < Half - 1 => clock < g.value
            BY <1>3, <3>2, <5>1 DEF TruthInv, TimeIsBracketed
          <6>3. g.test # "Fence"
            BY <5>1, <5>2, <5>3, NamesAssumption DEF TruthInv, CondsFitSync
          <6>4. clock \in Int /\ clock < Half - 1 /\ value[s] <= clock /\ Half \in Int
            BY <5>1, ConstFacts DEF IndInv, TypeOK, TruthInv, TimeIsBracketed
          <6> HIDE DEF g
          <6> QED
            BY <5>2, <6>1, <6>2, <6>3, <6>4 DEF Holds
        <5> HIDE DEF g
        <5>5. Trigger(t, await, alarm)' = g
          BY <3>2 DEF g
        <5> QED
          BY <5>1, <5>2, <5>3, <5>4, <5>5 DEF MayWait, CheckTrigger
      <4> QED
        BY <4>1, <4>2
    <3> QED
      BY <2>3, <3>1, <3>2
  <2>5. PassedAreFalse'
    BY <2>4 DEF PassedAreFalse, MayWait
  <2>6. NoTimeAlarms'
    BY <1>0 DEF TruthInv, NoTimeAlarms
  <2>7. CondsFitSync'
    <3>1. ASSUME NEW d \in Clients, NEW i \in DOMAIN await'[d]
          PROVE  await'[d][i].test = "Fence" <=> await'[d][i].sync \in Fences
      <4>1. CASE d = c
        BY <1>0, <2>0, <2>1, <3>1, <4>1
      <4>2. CASE d # c
        <5>1. await'[d] = await[d]
          BY <2>0, <4>2
        <5> QED
          BY <3>1, <5>1 DEF TruthInv, CondsFitSync
      <4> QED
        BY <4>1, <4>2
    <3> QED
      BY <3>1 DEF CondsFitSync
  <2>8. value'[ServerTime] <= clock' /\ value'[ServerTime] >= value[ServerTime]
    BY <1>0, <1>4, TimeFacts
  <2>9. TimeIsBracketed'
    <3>1. CASE ServerTime \in SyncsOf(w)
      <4>1. ASSUME NEW t \in DOMAIN list'[ServerTime],
                   LET g == Trigger(t, await, alarm)' IN
                   /\ g.test = "PositiveComparison" /\ g.value < Half - 1
                   /\ value'[ServerTime] < g.value
            PROVE  Trigger(t, await, alarm)'.value \in brackets'
        <5> DEFINE g == Trigger(t, await, alarm)'
        <5>1. g.value \in Int64
          <6>1. CASE t.of = c /\ t.i \in DOMAIN w /\ g = conds[t.i]
            <7>1. conds \in Seq(Cond) /\ t.i \in DOMAIN conds
              BY <2>0, <2>1, <6>1
            <7>2. conds[t.i] \in Cond
              BY <7>1
            <7> QED
              BY <6>1, <7>2 DEF Cond
          <6>2. CASE t \in DOMAIN list[ServerTime] /\ g = Trigger(t, await, alarm)
            BY <6>2, TriggerFacts, ConstFacts
          <6> QED
            BY <2>3, <6>1, <6>2, ConstFacts
        <5>2. value'[ServerTime] = clock
          BY <1>4, <3>1
        <5>3. g.value \in Brackets(list'[ServerTime], clock, await', alarm')
          BY <4>1, <5>1, <5>2 DEF Brackets
        <5> QED
          BY <1>0, <1>2, <3>1, <5>3
      <4> QED
        BY <2>8, <4>1 DEF TimeIsBracketed
    <3>2. CASE ServerTime \notin SyncsOf(w)
      <4>1. ASSUME NEW t \in DOMAIN list'[ServerTime]
            PROVE  t \in DOMAIN list[ServerTime]
                   /\ Trigger(t, await, alarm)' = Trigger(t, await, alarm)
        <5>1. t.i \in DOMAIN w => conds[t.i].sync # ServerTime
          BY <2>1, <3>2 DEF SyncsOf
        <5> QED
          BY <2>3, <5>1, ConstFacts
      <4>2. brackets' = brackets /\ TimeIsBracketed
        BY <1>2, <3>2 DEF TruthInv
      <4> QED
        BY <2>8, <4>1, <4>2, StillBracketed
    <3> QED
      BY <3>1, <3>2
  <2> QED
    BY <2>5, <2>6, <2>7, <2>9 DEF TruthInv
<1> QED
  BY <1>5, <1>6

LEMMA TruthStep ==
    ASSUME QuietClients, IndInv, IndInv', TruthInv, [Next]_vars
    PROVE  TruthInv'
<1>1. CASE UNCHANGED vars
  BY <1>1, TimeFacts, SameTruth DEF vars
<1>2. CASE WalkStep
  BY <1>2, ChangeStepTruth, DestroyStepTruth, FenceStepTruth, WalkEndTruth DEF WalkStep
<1>3. CASE Tick
  <2>1. clock' >= clock /\ UNCHANGED <<list, await, alarm, walk, value, brackets>>
    BY <1>3, TimeFacts DEF Tick
  <2> QED
    BY <2>1, SameTruth
<1>4. ASSUME NEW k \in Counters, NEW v \in Int64, walk = Idle, UpdateCounter(k, v)
      PROVE  TruthInv'
  <2>1. k \in Syncs /\ k # ServerTime
    BY NamesAssumption DEF Syncs
  <2> QED
    BY <1>4, <2>1, UpdateTruth
<1>5. CASE Wakeup
  <2>1. walk = Idle /\ UpdateCounter(ServerTime, clock) /\ ServerTime \in Syncs /\ clock \in Int64
    BY <1>5, ConstFacts DEF Wakeup, Resting, IndInv, TypeOK
  <2> QED
    BY <2>1, UpdateTruth
<1>6. ASSUME NEW c \in Clients, NEW k \in Counters,
             \/ \E v \in Values : SetCounter(c, k, v)
             \/ \E d \in Amounts : ChangeCounter(c, k, d)
      PROVE  TruthInv'
  <2>1. CASE \E v \in Values : SetCounter(c, k, v)
    BY <1>4, <2>1, ConstFacts DEF SetCounter, Request, Resting
  <2>2. CASE \E d \in Amounts : ChangeCounter(c, k, d)
    BY <1>4, <2>2 DEF ChangeCounter, Request, Resting
  <2> QED
    BY <1>6, <2>1, <2>2
<1>7. ASSUME NEW c \in Clients,
             \/ \E k \in Counters : CreateCounter(c, k)
             \/ \E f \in Fences : CreateFence(c, f)
             \/ \E s \in Counters \cup Fences : DestroySync(c, s) \/ CloseSync(c, s)
      PROVE  TruthInv'
  BY <1>7, ObjectTruth
<1>8. ASSUME NEW c \in Clients, \E f \in Fences : TriggerFence(c, f) \/ ResetFence(c, f)
      PROVE  TruthInv'
  BY <1>8, FenceTruth
<1>9. ASSUME NEW c \in Clients, QueryCounter(c) \/ \E w \in Waits : AwaitRefused(c, w)
      PROVE  TruthInv'
  BY <1>9, AskTruth DEF QuietClients
<1>10. ASSUME NEW c \in Clients, NEW w \in Waits, Await(c, w)
       PROVE  TruthInv'
  BY <1>10, AwaitTruth
<1>11. ASSUME NEW c \in Clients, NEW a \in Alarms,
              \E ch \in Changes : CreateAlarm(c, a, ch) \/ ChangeAlarm(c, a, ch)
       PROVE  TruthInv'
  BY <1>11, AlarmStepTruth
<1>12. ASSUME NEW c \in Clients, NEW a \in Alarms, DestroyAlarm(c, a) \/ CloseAlarm(c, a)
       PROVE  TruthInv'
  BY <1>12, ReleasedTruth DEF DestroyAlarm, CloseAlarm, Request, Resting, Closing
<1>13. ASSUME NEW c \in Clients, CloseDown(c) \/ CloseEnd(c)
       PROVE  TruthInv'
  <2>1. clock' >= clock /\ UNCHANGED <<list, await, alarm, walk, value, brackets>>
    BY <1>13, TimeFacts DEF CloseDown, CloseEnd
  <2> QED
    BY <2>1, SameTruth
<1>14. ASSUME NEW c \in Clients, CloseAwait(c)
       PROVE  TruthInv'
  BY <1>14, CloseAwaitTruth
<1> QED
  BY <1>1, <1>2, <1>3, <1>5, <1>6, <1>7, <1>8, <1>9, <1>10, <1>11, <1>12, <1>13, <1>14
     DEF Next, Close

LEMMA InitTruth == Init => AlarmsAgree /\ TruthInv
<1> SUFFICES ASSUME Init PROVE AlarmsAgree /\ TruthInv
  OBVIOUS
<1>1. AlarmsAgree
  BY DEF Init, AlarmsAgree, NoAlarm
<1>2. NoTimeAlarms
  BY ConstFacts DEF Init, NoTimeAlarms, NoAlarm
<1>3. DOMAIN (<<>>) = {}
  OBVIOUS
<1>4. CondsFitSync /\ PassedAreFalse
  BY <1>3 DEF Init, CondsFitSync, PassedAreFalse
<1>5. TimeIsBracketed
  BY <1>3, ConstFacts DEF Init, TimeIsBracketed
<1> QED
  BY <1>1, <1>2, <1>4, <1>5 DEF TruthInv

\* SyncAlarmTriggerFired (sync.d:583) comes to an end: an active alarm either
\* has a delta that takes its test value past the counter's, or becomes
\* inactive at once, unless a change of it was refused half-way.
THEOREM AlarmUpdatesStayFinite ==
    ASSUME WaitsAreDistinct, ~RefusedChanges PROVE Spec => []AlarmUpdatesEnd
<1>1. Init => AlarmsAgree
  BY InitTruth
<1>2. IndInv /\ AlarmsAgree /\ [Next]_vars => AlarmsAgree'
  BY AlarmsAgreeStep
<1>3. IndInv /\ AlarmsAgree => AlarmUpdatesEnd
  <2> SUFFICES ASSUME IndInv, AlarmsAgree, NEW a \in Alarms, alarm[a].state = "Active"
               PROVE  LET r == alarm[a] IN
                      \/ r.delta = 0 /\ r.test \in Comparisons
                      \/ r.check \in Transitions
                      \/ r.check = "PositiveComparison" /\ r.delta > 0
                      \/ r.check = "NegativeComparison" /\ r.delta < 0
    BY DEF AlarmUpdatesEnd
  <2> DEFINE r == alarm[a]
  <2>1. r.delta \in Int64 /\ r.check \in Comparisons \cup Transitions
    BY DEF IndInv, TypeOK, Alarm
  <2>2. r.delta \in Int
    BY <2>1, ConstFacts
  <2>3. /\ r.check = r.test
        /\ r.test \in {"PositiveComparison", "PositiveTransition"} => r.delta >= 0
        /\ r.test \in {"NegativeComparison", "NegativeTransition"} => r.delta <= 0
    BY DEF AlarmsAgree
  <2> HIDE DEF r
  <2>4. \/ r.delta = 0 /\ r.test \in Comparisons
        \/ r.check \in Transitions
        \/ r.check = "PositiveComparison" /\ r.delta > 0
        \/ r.check = "NegativeComparison" /\ r.delta < 0
    BY <2>1, <2>2, <2>3 DEF Comparisons, Transitions
  <2> QED
    BY <2>4 DEF r
<1> QED
  BY <1>1, <1>2, <1>3, IndInvHolds, PTL DEF Spec

\* The inductive invariant of triggers that are true.
THEOREM TruthInvHolds ==
    ASSUME WaitsAreDistinct, QuietClients PROVE Spec => []TruthInv
<1>1. Init => TruthInv
  BY InitTruth
<1>2. IndInv /\ IndInv' /\ TruthInv /\ [Next]_vars => TruthInv'
  BY TruthStep
<1> QED
  BY <1>1, <1>2, IndInvHolds, PTL DEF Spec

\* When the server rests, nobody sleeps for something that is already so and no
\* active alarm has been passed: SyncAwaitEpilogue looks at every condition, and
\* the walks of SyncChangeCounter and miSyncTriggerFence at every trigger,
\* whichever of them the callbacks have freed meanwhile.
THEOREM NothingTrueEverWaits ==
    ASSUME WaitsAreDistinct, QuietClients PROVE Spec => []NothingTrueWaits
<1>1. TruthInv => NothingTrueWaits
  BY ConstFacts DEF TruthInv, PassedAreFalse, NothingTrueWaits, Ahead, Idle
<1> QED
  BY <1>1, TruthInvHolds, PTL

\* Who waits for SERVERTIME to reach a value has a wakeup armed for it, if
\* nobody asks for the time between the deadline and the wakeup and no alarm is
\* set on it (SyncComputeBracketValues, sync.d:1037).
THEOREM DeadlinesStayArmed ==
    ASSUME WaitsAreDistinct, QuietClients PROVE Spec => []DeadlinesAreArmed
<1>1. IndInv /\ TruthInv => DeadlinesAreArmed
  <2> SUFFICES ASSUME IndInv, TruthInv, walk = Idle, NEW t \in DOMAIN list[ServerTime],
                      LET g == Trigger(t, await, alarm) IN
                      g.test = "PositiveComparison" /\ g.value < Half - 1
               PROVE  \E x \in brackets : x <= Trigger(t, await, alarm).value
    BY DEF DeadlinesAreArmed
  <2> DEFINE g == Trigger(t, await, alarm)
             v == value[ServerTime]
  <2>1. /\ g.sync = ServerTime /\ g.value \in Int /\ v \in Int
        /\ t.of \in Alarms => g = alarm[t.of]
    BY TriggerFacts, ConstFacts
  <2>2. t.of \notin Alarms
    BY <2>1 DEF TruthInv, NoTimeAlarms
  <2>3. ~CheckTrigger(t, v)
    BY <2>2, ConstFacts DEF TruthInv, PassedAreFalse, Ahead, Idle
  <2>4. ~Holds(g.test, g.value, v, v)
    BY <2>1, <2>2, <2>3 DEF CheckTrigger
  <2>5. v < g.value
    BY <2>1, <2>4 DEF Holds
  <2>6. g.value \in brackets
    BY <2>5 DEF TruthInv, TimeIsBracketed
  <2>7. g.value <= g.value
    BY <2>1
  <2> HIDE DEF g
  <2> QED
    BY <2>6, <2>7 DEF g
<1> QED
  BY <1>1, TruthInvHolds, IndInvHolds, PTL
=============================================================================
