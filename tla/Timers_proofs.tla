---------------------------- MODULE Timers_proofs ----------------------------
(***************************************************************************)
(* Proofs about Timers: its arithmetic modulo the clock's word, its types, *)
(* that the list stays sorted, that calls are due and in order, and that   *)
(* the server never sleeps past a timer, for any number of timers, any     *)
(* width of the clock and any bounds in the window.                        *)
(***************************************************************************)
EXTENDS TimersProps, TLAPS, NaturalsInduction, WellFoundedInduction

-----------------------------------------------------------------------------
(* Times modulo Word.                                                      *)

LEMMA WordIsEven == Half \in Nat /\ Half > 0 /\ Word \in Nat /\ Word > 0 /\ Word = Half + Half
  BY HalfAssumption DEF Word

LEMMA Division ==
    ASSUME NEW n \in Nat, n > 0, NEW x \in Int
    PROVE  x = n * (x \div n) + (x % n) /\ x % n \in 0 .. n - 1 /\ (x \div n) \in Int
  BY Z3

\* A time less than a turn away from the clock's range comes back into it.
LEMMA ModNear ==
    ASSUME NEW n \in Nat, n > 0, NEW x \in Int, -n <= x, x < 2 * n
    PROVE  x % n = IF x < 0 THEN x + n ELSE IF x < n THEN x ELSE x - n
<1> DEFINE q == x \div n
           r == x % n
<1>1. x = n * q + r /\ r \in 0 .. n - 1 /\ q \in Int
  BY Division
<1> HIDE DEF q, r
<1>2. q <= 1
  <2>1. SUFFICES ASSUME q >= 2 PROVE FALSE
    BY <1>1
  <2>2. PICK k \in Nat : q = 2 + k
    BY <1>1, <2>1
  <2>3. n * q = n * 2 + n * k /\ n * k >= 0
    BY <2>2
  <2> QED BY <1>1, <2>3
<1>3. q >= -1
  <2>1. SUFFICES ASSUME q <= -2 PROVE FALSE
    BY <1>1
  <2>2. PICK k \in Nat : q = -2 - k
    <3>1. -2 - q \in Nat /\ q = -2 - (-2 - q)
      BY <1>1, <2>1
    <3> QED BY <3>1
  <2>3. n * q = n * (-2) - n * k /\ n * k >= 0
    BY <2>2
  <2> QED BY <1>1, <2>3
<1>4. q = -1 \/ q = 0 \/ q = 1
  BY <1>1, <1>2, <1>3
<1>5. CASE q = -1
  <2>1. n * q = -n
    BY <1>5
  <2> QED BY <1>1, <2>1 DEF r
<1>6. CASE q = 0
  <2>1. n * q = 0
    BY <1>6
  <2> QED BY <1>1, <2>1 DEF r
<1>7. CASE q = 1
  <2>1. n * q = n
    BY <1>7
  <2> QED BY <1>1, <2>1 DEF r
<1> QED BY <1>4, <1>5, <1>6, <1>7

\* The signed difference of two clock values.
Apart(d) == IF d < -Half THEN d + Word ELSE IF d < Half THEN d ELSE d - Word

LEMMA SignedApart ==
    ASSUME NEW a \in Clock, NEW b \in Clock
    PROVE  /\ Signed(a - b) = Apart(a - b)
           /\ Signed(a - b) \in -Half .. Half - 1
<1>1. a - b \in Int /\ -Word <= a - b /\ a - b < Word
  BY WordIsEven DEF Clock
<1>2. (a - b) % Word = IF a - b < 0 THEN a - b + Word ELSE a - b
  BY <1>1, ModNear, WordIsEven
<1> QED
  BY <1>1, <1>2, WordIsEven DEF Signed, Apart

LEMMA LeftApart ==
    ASSUME clock \in Clock, NEW e \in Entry
    PROVE  /\ Left(e) = Apart(e.expires - clock)
           /\ Left(e) \in -Half .. Half - 1
<1>1. e.expires \in Clock
  BY DEF Entry
<1> QED BY <1>1, SignedApart DEF Left

\* What the properties need to know of an entry.
Near(e) == Left(e) \in -MaxLate .. MaxLeft /\ e.delta <= MaxLeft

LEMMA Window == MaxLate \in Nat /\ MaxLeft \in Nat /\ Slack \in Nat
                    /\ MaxLate + MaxLeft < Half /\ Slack + MaxLeft < Half
  BY WindowAssumption, SlackAssumption

\* Of two timers in the window the comparison of TimerSet finds the later.
LEMMA LaterIsLater ==
    ASSUME clock \in Clock, NEW e \in Entry, NEW f \in Entry, Near(e), Near(f)
    PROVE  Later(e, f.expires) <=> Left(e) > Left(f)
<1>1. e.expires \in Clock /\ f.expires \in Clock
  BY DEF Entry
<1>2. Signed(e.expires - f.expires) = Apart(e.expires - f.expires)
  BY <1>1, SignedApart
<1>3. Left(e) = Apart(e.expires - clock) /\ Left(f) = Apart(f.expires - clock)
  BY LeftApart
<1>4. Apart(e.expires - f.expires) = Left(e) - Left(f)
  BY <1>1, <1>3, Window, WordIsEven DEF Apart, Clock, Near
<1>5. Left(e) \in Int /\ Left(f) \in Int
  BY LeftApart
<1> QED BY <1>2, <1>4, <1>5 DEF Later

LEMMA DueIsUp ==
    ASSUME clock \in Clock, NEW e \in Entry
    PROVE  Due(e, clock) <=> Left(e) <= 0
  BY DEF Due, Left

\* A timer set for d from now has d left, up to d = 0.
LEMMA AtFacts ==
    ASSUME clock \in Clock, NEW t \in Timers, NEW d \in 0 .. MaxLeft
    PROVE  /\ At(t, clock + d) \in Entry /\ At(t, clock + d).timer = t
           /\ Left(At(t, clock + d)) = d /\ Near(At(t, clock + d))
<1> DEFINE v == (clock + d) % Word
<1>1. clock + d \in Int /\ -Word <= clock + d /\ clock + d < 2 * Word /\ d < Word
  BY Window, WordIsEven DEF Clock
<1>2. v = IF clock + d < Word THEN clock + d ELSE clock + d - Word
  BY <1>1, ModNear, WordIsEven DEF Clock
<1>3. v \in Clock
  BY <1>1, <1>2, WordIsEven DEF Clock
<1>4. ((clock + d) - clock) % Word = d
  <2>1. (clock + d) - clock = d /\ d \in Int /\ 0 <= d
    BY Window, WordIsEven DEF Clock
  <2> QED BY <1>1, <2>1, ModNear, WordIsEven
<1>5. d \in Clock
  BY <1>1, Window, WordIsEven DEF Clock
<1>6. At(t, clock + d) = [timer |-> t, expires |-> v, delta |-> d]
  <2>1. At(t, clock + d) = [timer |-> t, expires |-> (clock + d) % Word, delta |-> ((clock + d) - clock) % Word]
    BY DEF At
  <2>2. v = (clock + d) % Word
    OBVIOUS
  <2> QED BY <1>4, <2>1, <2>2, Zenon
<1> HIDE DEF v
<1>7. At(t, clock + d) \in Entry
  BY <1>3, <1>5, <1>6 DEF Entry
<1>8. Signed(v - clock) = Apart(v - clock)
  BY <1>3, SignedApart
<1>9. Apart(v - clock) = d
  BY <1>1, <1>2, <1>3, Window, WordIsEven DEF Apart, Clock
<1>10. Left(At(t, clock + d)) = d
  BY <1>6, <1>8, <1>9 DEF Left
<1> QED
  BY <1>6, <1>7, <1>10, Window DEF Near

LEMMA DelayFacts == \A d \in Delays : d \in 0 .. MaxLeft /\ d > 0
  BY DelaysAssumption, Window

-----------------------------------------------------------------------------
(* What the operators on the list preserve.                                *)

Once(l) == \A i, j \in DOMAIN l : l[i].timer = l[j].timer => i = j
Ordered(l) == \A i, j \in DOMAIN l : i < j => Left(l[i]) <= Left(l[j])

Good(l) ==
    /\ l \in Seq(Entry) /\ Once(l) /\ Ordered(l)
    /\ \A i \in DOMAIN l : Near(l[i])

Holds(l, t) == \E i \in DOMAIN l : l[i].timer = t

\* Taking a timer out leaves the others in order.
LEMMA WithoutFacts ==
    ASSUME clock \in Clock, NEW l, Good(l), NEW t \in Timers
    PROVE  /\ Good(Without(l, t))
           /\ ~Holds(Without(l, t), t)
           /\ \A i \in DOMAIN Without(l, t) : \E j \in DOMAIN l : Without(l, t)[i] = l[j]
<1>0. l \in Seq(Entry) /\ DOMAIN l = 1 .. Len(l) /\ Len(l) \in Nat
  BY DEF Good
<1>1. CASE ~Holds(l, t)
  <2>1. Without(l, t) = l
    BY <1>1 DEF Without, Holds
  <2> QED BY <1>1, <2>1
<1>2. CASE Holds(l, t)
  <2> DEFINE p == CHOOSE i \in DOMAIN l : l[i].timer = t
             m == [i \in 1 .. Len(l) - 1 |-> IF i < p THEN l[i] ELSE l[i + 1]]
  <2>1. p \in DOMAIN l /\ l[p].timer = t
    BY <1>2 DEF Holds
  <2>2. Without(l, t) = m
    BY <1>2 DEF Without, Holds
  <2> HIDE DEF p
  <2>3. Len(l) - 1 \in Nat /\ m \in Seq(Entry) /\ DOMAIN m = 1 .. Len(l) - 1
    BY <1>0, <2>1
  <2>4. \A i \in DOMAIN m : /\ i \in 1 .. Len(l) /\ i + 1 \in 1 .. Len(l)
                            /\ i < p => m[i] = l[i]
                            /\ ~(i < p) => m[i] = l[i + 1]
    BY <1>0, <2>1, <2>3
  <2> HIDE DEF m
  <2>5. Once(m)
    BY <1>0, <2>1, <2>3, <2>4 DEF Good, Once
  <2>6. \A i \in DOMAIN l : Left(l[i]) \in Int
    BY <1>0, LeftApart
  <2>7. Ordered(m)
    <3>1. SUFFICES ASSUME NEW i \in DOMAIN m, NEW j \in DOMAIN m, i < j
                   PROVE  Left(m[i]) <= Left(m[j])
      BY DEF Ordered
    <3>2. PICK i2 \in DOMAIN l, j2 \in DOMAIN l : i2 < j2 /\ m[i] = l[i2] /\ m[j] = l[j2]
      <4>1. i \in Nat /\ j \in Nat /\ p \in Nat
        BY <1>0, <2>1, <2>3
      <4>2. CASE j < p
        BY <1>0, <2>4, <3>1, <4>1, <4>2
      <4>3. CASE i < p /\ ~(j < p)
        BY <1>0, <2>4, <3>1, <4>1, <4>3
      <4>4. CASE ~(i < p) /\ ~(j < p)
        BY <1>0, <2>4, <3>1, <4>1, <4>4
      <4> QED BY <3>1, <4>1, <4>2, <4>3, <4>4
    <3> QED BY <3>2 DEF Good, Ordered
  <2>8. \A i \in DOMAIN m : Near(m[i])
    BY <1>0, <2>3, <2>4 DEF Good
  <2>9. ~Holds(m, t)
    BY <1>0, <2>1, <2>3, <2>4 DEF Good, Once, Holds
  <2> QED
    BY <1>0, <2>2, <2>3, <2>4, <2>5, <2>7, <2>8, <2>9 DEF Good
<1> QED BY <1>1, <1>2

LEMMA LeastExists ==
    ASSUME NEW S, S \subseteq Nat, S # {}
    PROVE  \E x \in S : \A y \in S : x <= y
<1> DEFINE R == OpToRel(<, Nat)
<1>1. IsWellFoundedOn(R, Nat)
  BY NatLessThanWellFounded
<1>2. PICK x \in S : \A y \in S : ~(<<y, x>> \in R)
  <2> HIDE DEF R
  <2> QED BY <1>1, WFMin
<1>3. \A y \in S : x <= y
  <2>1. SUFFICES ASSUME NEW y \in S, y < x
                 PROVE  FALSE
    OBVIOUS
  <2>2. <<y, x>> \in R
    BY <2>1 DEF OpToRel
  <2> HIDE DEF R
  <2> QED BY <1>2, <2>2
<1> QED BY <1>3

\* TimerSet finds a place, with no later timer before it and no other behind.
LEMMA PlaceFacts ==
    ASSUME clock \in Clock, NEW l, Good(l), NEW x \in Clock
    PROVE  /\ Place(l, x) \in 1 .. Len(l) + 1
           /\ \A i \in 1 .. Place(l, x) - 1 : ~Later(l[i], x)
           /\ Place(l, x) <= Len(l) => Later(l[Place(l, x)], x)
<1>0. Len(l) \in Nat
  BY DEF Good
<1> DEFINE S == {p \in 1 .. Len(l) + 1 : p <= Len(l) => Later(l[p], x)}
<1>1. Len(l) + 1 \in S /\ S \subseteq Nat
  BY <1>0
<1>2. PICK p \in S : \A q \in S : p <= q
  <2> HIDE DEF S
  <2> QED BY <1>1, LeastExists
<1>3. \A i \in 1 .. p - 1 : ~Later(l[i], x)
  <2>1. SUFFICES ASSUME NEW i \in 1 .. p - 1, Later(l[i], x) PROVE FALSE
    OBVIOUS
  <2>2. i \in S /\ ~(p <= i)
    BY <1>0, <2>1
  <2> HIDE DEF S
  <2> QED BY <1>2, <2>2
<1>4. \E q \in 1 .. Len(l) + 1 :
        /\ \A i \in 1 .. q - 1 : ~Later(l[i], x)
        /\ q <= Len(l) => Later(l[q], x)
  BY <1>2, <1>3
<1> QED BY <1>4, Zenon DEF Place

\* Sorting an entry in keeps the list sorted.
LEMMA SortedIntoFacts ==
    ASSUME clock \in Clock, NEW l, Good(l), NEW e \in Entry, Near(e), ~Holds(l, e.timer)
    PROVE  /\ Good(SortedInto(l, e))
           /\ \A i \in DOMAIN SortedInto(l, e) :
                SortedInto(l, e)[i] = e \/ \E j \in DOMAIN l : SortedInto(l, e)[i] = l[j]
<1>0. l \in Seq(Entry) /\ DOMAIN l = 1 .. Len(l) /\ Len(l) \in Nat
  BY DEF Good
<1> DEFINE p == Place(l, e.expires)
           m == [i \in 1 .. Len(l) + 1 |-> IF i < p THEN l[i] ELSE IF i = p THEN e ELSE l[i - 1]]
<1>1. SortedInto(l, e) = m
  BY DEF SortedInto
<1>2. /\ p \in 1 .. Len(l) + 1
      /\ \A i \in 1 .. p - 1 : ~Later(l[i], e.expires)
      /\ p <= Len(l) => Later(l[p], e.expires)
  <2>1. e.expires \in Clock
    BY DEF Entry
  <2> QED BY <2>1, PlaceFacts
<1> HIDE DEF p
<1>3. m \in Seq(Entry) /\ DOMAIN m = 1 .. Len(l) + 1
  BY <1>0, <1>2
<1>4. \A i \in DOMAIN m :
        /\ i < p => i \in DOMAIN l /\ m[i] = l[i]
        /\ i = p => m[i] = e
        /\ i > p => i - 1 \in DOMAIN l /\ m[i] = l[i - 1]
  BY <1>0, <1>2, <1>3
<1> HIDE DEF m
<1>5. Once(m)
  <2>1. SUFFICES ASSUME NEW i \in DOMAIN m, NEW j \in DOMAIN m, m[i].timer = m[j].timer
                 PROVE  i = j
    BY DEF Once
  <2>2. i \in Nat /\ j \in Nat /\ p \in Nat
    BY <1>0, <1>2, <1>3
  <2>3. \A k \in DOMAIN l : l[k].timer # e.timer
    BY DEF Holds
  <2>4. \A k1, k2 \in DOMAIN l : l[k1].timer = l[k2].timer => k1 = k2
    BY DEF Good, Once
  <2>5. CASE i = p
    BY <1>4, <2>1, <2>2, <2>3, <2>5
  <2>6. CASE j = p
    BY <1>4, <2>1, <2>2, <2>3, <2>6
  <2>7. CASE i < p /\ j # p
    BY <1>0, <1>4, <2>1, <2>2, <2>4, <2>7
  <2>8. CASE i > p /\ j # p
    BY <1>0, <1>4, <2>1, <2>2, <2>4, <2>8
  <2> QED BY <2>2, <2>5, <2>6, <2>7, <2>8
<1>6. /\ Left(e) \in Int
      /\ \A i \in DOMAIN l : Left(l[i]) \in Int /\ (Later(l[i], e.expires) <=> Left(l[i]) > Left(e))
  BY <1>0, LeftApart, LaterIsLater DEF Good
<1>7. \A i \in DOMAIN l : i < p => Left(l[i]) <= Left(e)
  BY <1>0, <1>2, <1>6
<1>8. \A i \in DOMAIN l : i >= p => Left(e) <= Left(l[i])
  <2>1. SUFFICES ASSUME NEW i \in DOMAIN l, i >= p PROVE Left(e) <= Left(l[i])
    OBVIOUS
  <2>2. p \in DOMAIN l /\ Left(l[p]) > Left(e)
    BY <1>0, <1>2, <1>6, <2>1
  <2>3. Left(l[p]) <= Left(l[i])
    BY <1>0, <1>2, <1>6, <2>1, <2>2 DEF Good, Ordered
  <2> QED BY <1>6, <2>2, <2>3
<1>9. Ordered(m)
  <2>1. SUFFICES ASSUME NEW i \in DOMAIN m, NEW j \in DOMAIN m, i < j
                 PROVE  Left(m[i]) <= Left(m[j])
    BY DEF Ordered
  <2>2. i \in Nat /\ j \in Nat /\ p \in Nat
    BY <1>0, <1>2, <1>3
  <2>3. CASE j < p
    BY <1>0, <1>4, <2>1, <2>2, <2>3 DEF Good, Ordered
  <2>4. CASE j = p
    BY <1>4, <1>7, <2>1, <2>2, <2>4
  <2>5. CASE j > p /\ i < p
    <3>1. i \in DOMAIN l /\ j - 1 \in DOMAIN l /\ m[i] = l[i] /\ m[j] = l[j - 1] /\ j - 1 >= p
      BY <1>4, <2>1, <2>2, <2>5
    <3>2. Left(l[i]) <= Left(e) /\ Left(e) <= Left(l[j - 1])
      BY <1>7, <1>8, <2>5, <3>1
    <3>3. Left(l[i]) \in Int /\ Left(l[j - 1]) \in Int /\ Left(e) \in Int
      BY <1>6, <3>1
    <3> QED BY <3>1, <3>2, <3>3
  <2>6. CASE j > p /\ i = p
    <3>1. j - 1 \in DOMAIN l /\ m[i] = e /\ m[j] = l[j - 1] /\ j - 1 >= p
      BY <1>4, <2>1, <2>2, <2>6
    <3> QED BY <1>8, <3>1
  <2>7. CASE j > p /\ i > p
    <3>1. i - 1 \in DOMAIN l /\ j - 1 \in DOMAIN l /\ i - 1 < j - 1
             /\ m[i] = l[i - 1] /\ m[j] = l[j - 1]
      BY <1>4, <2>1, <2>2, <2>7
    <3> QED BY <3>1 DEF Good, Ordered
  <2> QED BY <2>2, <2>3, <2>4, <2>5, <2>6, <2>7
<1>10. \A i \in DOMAIN m : Near(m[i])
  BY <1>0, <1>2, <1>3, <1>4 DEF Good
<1> QED
  BY <1>0, <1>1, <1>2, <1>3, <1>4, <1>5, <1>9, <1>10 DEF Good
-----------------------------------------------------------------------------
(* The list and the stack of callbacks together.                           *)

Nexts(s) == \A i \in DOMAIN s : \A j \in DOMAIN s[i].next : Near(s[i].next[j])

Outs(l, s) ==
    \A i \in DOMAIN s : s[i].next # <<>> =>
        /\ s[i].next[1].timer = s[i].timer /\ ~Holds(l, s[i].timer)
        /\ \A j \in DOMAIN s : s[j].next # <<>> /\ s[j].timer = s[i].timer => j = i

ListsOf(l, s) == Good(l) /\ s \in Seq(Frames) /\ Nexts(s) /\ Outs(l, s)

Rest ==
    /\ clock \in Clock /\ walkNow \in Clock
    /\ walk \in {"none", "due", "all"} /\ pc \in {"run", "poll"}
    /\ timeout \in Int /\ timeout >= -1 /\ steps \in Nat
    /\ WalkIsBrief /\ PollIsOuter /\ SleepEndsInTime

LEMMA WindowParts ==
    InWindow <=> (\A i \in DOMAIN timers : Near(timers[i])) /\ Nexts(stack)
  BY DEF InWindow, Pending, Near, Nexts

LEMMA Parts == IndInv <=> ListsOf(timers, stack) /\ Rest
<1>1. TimersAreSorted <=> Ordered(timers)
  BY DEF TimersAreSorted, Ordered
<1>2. OldIsOut <=> Outs(timers, stack)
  BY DEF OldIsOut, Outs, Listed, Holds
<1>3. TypeOK <=> /\ clock \in Clock /\ walkNow \in Clock
                 /\ timers \in Seq(Entry) /\ Once(timers) /\ stack \in Seq(Frames)
                 /\ walk \in {"none", "due", "all"} /\ pc \in {"run", "poll"}
                 /\ timeout \in Int /\ timeout >= -1 /\ steps \in Nat
  BY DEF TypeOK, Once
<1> QED
  BY <1>1, <1>2, <1>3, WindowParts DEF IndInv, ListsOf, Rest, Good

\* While the clock stands the lists need no second look.
LEMMA Unmoved ==
    ASSUME clock' = clock, ListsOf(timers', stack')
    PROVE  ListsOf(timers, stack)'
  BY DEF ListsOf, Good, Once, Ordered, Near, Nexts, Outs, Holds, Left

LEMMA WithoutLists ==
    ASSUME clock \in Clock, NEW l, NEW s, ListsOf(l, s), NEW t \in Timers
    PROVE  ListsOf(Without(l, t), s) /\ ~Holds(Without(l, t), t)
<1>1. Good(l) /\ s \in Seq(Frames) /\ Nexts(s)
  BY DEF ListsOf
<1>2. /\ Good(Without(l, t)) /\ ~Holds(Without(l, t), t)
      /\ \A i \in DOMAIN Without(l, t) : \E j \in DOMAIN l : Without(l, t)[i] = l[j]
  BY <1>1, WithoutFacts
<1>3. Outs(Without(l, t), s)
  BY <1>2 DEF ListsOf, Outs, Holds
<1> QED BY <1>1, <1>2, <1>3 DEF ListsOf

\* a timer of which no frame will enter it
FreeIn(s, t) == \A i \in DOMAIN s : s[i].timer = t => s[i].next = <<>>

LEMMA EnterLists ==
    ASSUME clock \in Clock, NEW l, NEW s, ListsOf(l, s),
           NEW e \in Entry, Near(e), ~Holds(l, e.timer), FreeIn(s, e.timer)
    PROVE  ListsOf(SortedInto(l, e), s)
<1>1. Good(l) /\ s \in Seq(Frames) /\ Nexts(s)
  BY DEF ListsOf
<1>2. /\ Good(SortedInto(l, e))
      /\ \A i \in DOMAIN SortedInto(l, e) :
            SortedInto(l, e)[i] = e \/ \E j \in DOMAIN l : SortedInto(l, e)[i] = l[j]
  BY <1>1, SortedIntoFacts
<1>3. Outs(SortedInto(l, e), s)
  BY <1>2 DEF ListsOf, Outs, Holds, FreeIn
<1> QED BY <1>1, <1>2, <1>3 DEF ListsOf

LEMMA CallLists ==
    ASSUME NEW l, NEW s, ListsOf(l, s), NEW t \in Timers
    PROVE  ListsOf(l, Append(s, Frame(t, <<>>)))
<1> DEFINE f == Frame(t, <<>>)
           z == Append(s, f)
<1>1. f \in Frames /\ f.next = <<>> /\ DOMAIN f.next = {}
  BY DEF Frame, Frames
<1> HIDE DEF f
<1>2. /\ z \in Seq(Frames) /\ DOMAIN z = 1 .. Len(s) + 1 /\ DOMAIN s = 1 .. Len(s) /\ Len(s) \in Nat
      /\ z[Len(s) + 1] = f /\ \A i \in DOMAIN s : z[i] = s[i]
  BY <1>1 DEF ListsOf
<1> HIDE DEF z
<1>3. Nexts(z)
  BY <1>1, <1>2 DEF ListsOf, Nexts
<1>4. Outs(l, z)
  BY <1>1, <1>2 DEF ListsOf, Outs
<1> QED BY <1>2, <1>3, <1>4 DEF ListsOf, z, f

LEMMA OldLists ==
    ASSUME NEW l, NEW s, ListsOf(l, s), NEW e \in Entry, Near(e), ~Holds(l, e.timer),
           FreeIn(s, e.timer)
    PROVE  ListsOf(l, Append(s, Frame(e.timer, <<e>>)))
<1> DEFINE f == Frame(e.timer, <<e>>)
           z == Append(s, f)
<1>1. f \in Frames /\ f.timer = e.timer /\ f.next = <<e>> /\ DOMAIN f.next = {1} /\ f.next[1] = e
  <2>1. e.timer \in Timers
    BY DEF Entry
  <2> QED BY <2>1 DEF Frame, Frames
<1> HIDE DEF f
<1>2. /\ z \in Seq(Frames) /\ DOMAIN z = 1 .. Len(s) + 1 /\ DOMAIN s = 1 .. Len(s) /\ Len(s) \in Nat
      /\ z[Len(s) + 1] = f /\ \A i \in DOMAIN s : z[i] = s[i]
  BY <1>1 DEF ListsOf
<1> HIDE DEF z
<1>3. Nexts(z)
  BY <1>1, <1>2 DEF ListsOf, Nexts
<1>4. Outs(l, z)
  BY <1>1, <1>2 DEF ListsOf, Outs, FreeIn
<1> QED BY <1>2, <1>3, <1>4 DEF ListsOf, z, f

LEMMA ReturnLists ==
    ASSUME NEW l, NEW s, ListsOf(l, s), s # <<>>
    PROVE  ListsOf(l, SubSeq(s, 1, Len(s) - 1))
<1> DEFINE z == SubSeq(s, 1, Len(s) - 1)
<1>1. /\ z \in Seq(Frames) /\ Len(s) \in Nat /\ Len(s) > 0 /\ DOMAIN s = 1 .. Len(s)
      /\ DOMAIN z = 1 .. Len(s) - 1 /\ \A i \in DOMAIN z : z[i] = s[i] /\ i \in DOMAIN s
  BY DEF ListsOf
<1> HIDE DEF z
<1>2. Nexts(z) /\ Outs(l, z)
  BY <1>1 DEF ListsOf, Nexts, Outs
<1> QED BY <1>1, <1>2 DEF ListsOf, z
-----------------------------------------------------------------------------
(* Every action.                                                           *)

LEMMA InitEstablishes == Init => IndInv
<1> SUFFICES ASSUME Init PROVE IndInv
  OBVIOUS
<1>1. ListsOf(timers, stack)
  BY DEF Init, ListsOf, Good, Once, Ordered, Nexts, Outs
<1>2. Rest
  BY WordIsEven DEF Init, Rest, WalkIsBrief, PollIsOuter, SleepEndsInTime, Clock
<1> QED BY <1>1, <1>2, Parts

\* Steps of callbacks and of other code leave check_timers alone.
LEMMA RestStays ==
    ASSUME Rest, pc = "run", UNCHANGED <<clock, walk, walkNow, pc, timeout, steps>>
    PROVE  Rest'
  BY DEF Rest, WalkIsBrief, PollIsOuter, SleepEndsInTime

LEMMA PartsNext == IndInv' <=> ListsOf(timers, stack)' /\ Rest'
  BY Parts, PTL

LEMMA FreeIsFree == \A t : Free(t) <=> FreeIn(stack, t)
  BY DEF Free, FreeIn

LEMMA TimerSetRelativeKeeps ==
    ASSUME IndInv, NEW t \in Timers, NEW d \in Delays, TimerSetRelative(t, d)
    PROVE  IndInv'
<1>1. ListsOf(timers, stack) /\ Rest /\ clock \in Clock
  BY Parts DEF Rest
<1>2. ListsOf(Without(timers, t), stack) /\ ~Holds(Without(timers, t), t)
  BY <1>1, WithoutLists
<1>3. At(t, clock + d) \in Entry /\ At(t, clock + d).timer = t /\ Near(At(t, clock + d))
  BY <1>1, AtFacts, DelayFacts
<1>4. FreeIn(stack, t)
  BY FreeIsFree DEF TimerSetRelative
<1>5. ListsOf(timers', stack')
  BY <1>1, <1>2, <1>3, <1>4, EnterLists DEF TimerSetRelative
<1>6. ListsOf(timers, stack)'
  BY <1>5, Unmoved DEF TimerSetRelative
<1> QED BY <1>1, <1>6, RestStays, PartsNext DEF TimerSetRelative, Running

LEMMA EnterKeeps ==
    ASSUME clock \in Clock, NEW l, NEW s, ListsOf(l, s),
           NEW e \in Entry, Near(e), ~Holds(l, e.timer), FreeIn(s, e.timer), Enter(e, l, s)
    PROVE  ListsOf(timers', stack')
<1>1. e.timer \in Timers
  BY DEF Entry
<1>2. CASE Due(e, clock)
  BY <1>1, <1>2, CallLists DEF Enter
<1>3. CASE ~Due(e, clock)
  BY <1>3, EnterLists DEF Enter
<1> QED BY <1>2, <1>3

LEMMA TimerSetAbsoluteKeeps ==
    ASSUME IndInv, NEW t \in Timers, NEW d \in Delays \cup {0}, TimerSetAbsolute(t, clock + d)
    PROVE  IndInv'
<1>1. ListsOf(timers, stack) /\ Rest /\ clock \in Clock
  BY Parts DEF Rest
<1>2. ListsOf(Without(timers, t), stack) /\ ~Holds(Without(timers, t), t)
  BY <1>1, WithoutLists
<1>3. At(t, clock + d) \in Entry /\ At(t, clock + d).timer = t /\ Near(At(t, clock + d))
  BY <1>1, AtFacts, DelayFacts, Window
<1>4. FreeIn(stack, t)
  BY FreeIsFree DEF TimerSetAbsolute
<1>5. ListsOf(timers', stack')
  <2>1. CASE (clock + d) % Word = 0
    BY <1>2, <2>1 DEF TimerSetAbsolute
  <2>2. CASE (clock + d) % Word # 0
    <3>1. Enter(At(t, clock + d), Without(timers, t), stack)
      BY <2>2 DEF TimerSetAbsolute
    <3> QED BY <1>1, <1>2, <1>3, <1>4, <3>1, EnterKeeps
  <2> QED BY <2>1, <2>2
<1>6. ListsOf(timers, stack)'
  BY <1>5, Unmoved DEF TimerSetAbsolute
<1> QED BY <1>1, <1>6, RestStays, PartsNext DEF TimerSetAbsolute, Running

LEMMA TimerSetForceOldKeeps ==
    ASSUME IndInv, NEW t \in Timers, NEW d \in Delays, TimerSetForceOld(t, d)
    PROVE  IndInv'
<1>1. ListsOf(timers, stack) /\ Rest /\ clock \in Clock
  BY Parts DEF Rest
<1>2. ListsOf(Without(timers, t), stack) /\ ~Holds(Without(timers, t), t)
  BY <1>1, WithoutLists
<1>3. At(t, clock + d) \in Entry /\ At(t, clock + d).timer = t /\ Near(At(t, clock + d))
  BY <1>1, AtFacts, DelayFacts
<1>4. FreeIn(stack, t)
  BY FreeIsFree DEF TimerSetForceOld
<1>5. ListsOf(timers', stack')
  BY <1>2, <1>3, <1>4, OldLists DEF TimerSetForceOld
<1>6. ListsOf(timers, stack)'
  BY <1>5, Unmoved DEF TimerSetForceOld
<1> QED BY <1>1, <1>6, RestStays, PartsNext DEF TimerSetForceOld, Running

LEMMA DoTimerLists ==
    ASSUME IndInv, NEW t \in Timers, DoTimer(t), clock' = clock
    PROVE  ListsOf(timers, stack)'
<1>1. ListsOf(timers, stack) /\ clock \in Clock
  BY Parts DEF Rest
<1>2. ListsOf(Without(timers, t), stack)
  BY <1>1, WithoutLists
<1>3. ListsOf(timers', stack')
  BY <1>2, CallLists DEF DoTimer
<1> QED BY <1>3, Unmoved

LEMMA TimerForceKeeps ==
    ASSUME IndInv, NEW t \in Timers, TimerForce(t)
    PROVE  IndInv'
<1>1. ListsOf(timers, stack)'
  BY DoTimerLists DEF TimerForce
<1>2. Rest
  BY Parts
<1> QED BY <1>1, <1>2, RestStays, PartsNext DEF TimerForce, Running

LEMMA TimerCancelKeeps ==
    ASSUME IndInv, NEW t \in Timers, TimerCancel(t)
    PROVE  IndInv'
<1>1. ListsOf(timers, stack) /\ Rest /\ clock \in Clock
  BY Parts DEF Rest
<1>2. ListsOf(timers', stack')
  BY <1>1, WithoutLists DEF TimerCancel
<1>3. ListsOf(timers, stack)'
  BY <1>2, Unmoved DEF TimerCancel
<1> QED BY <1>1, <1>3, RestStays, PartsNext DEF TimerCancel, Running

LEMMA TimerFreeKeeps ==
    ASSUME IndInv, NEW t \in Timers, TimerFree(t)
    PROVE  IndInv'
<1>1. ListsOf(timers, stack) /\ Rest /\ clock \in Clock
  BY Parts DEF Rest
<1>2. ListsOf(timers', stack)
  BY <1>1, WithoutLists DEF TimerFree
<1>3. /\ stack \in Seq(Frames) /\ Len(stack) \in Nat /\ DOMAIN stack = 1 .. Len(stack)
      /\ DOMAIN stack' = 1 .. Len(stack)
  BY <1>1 DEF ListsOf, TimerFree
<1>4. \A i \in DOMAIN stack :
        /\ stack'[i] \in Frames /\ stack'[i].next = stack[i].next /\ stack'[i].timer = stack[i].timer
  <2>1. SUFFICES ASSUME NEW i \in DOMAIN stack
                 PROVE  /\ stack'[i] \in Frames
                        /\ stack'[i].next = stack[i].next /\ stack'[i].timer = stack[i].timer
    OBVIOUS
  <2> DEFINE g == stack[i].gone \/ stack[i].timer = t
  <2>2. stack'[i] = [stack[i] EXCEPT !.gone = g]
    BY <1>3 DEF TimerFree
  <2>3. g \in BOOLEAN
    BY Zenon
  <2>4. stack[i] \in Frames
    BY <1>3
  <2> HIDE DEF g
  <2> QED BY <2>2, <2>3, <2>4 DEF Frames
<1>5. stack' \in Seq(Frames)
  <2>1. stack' = [i \in 1 .. Len(stack) |-> stack'[i]]
    BY <1>3 DEF TimerFree
  <2> QED BY <1>3, <1>4, <2>1
<1>6. Nexts(stack')
  BY <1>2, <1>3, <1>4 DEF ListsOf, Nexts
<1>7. Outs(timers', stack')
  BY <1>2, <1>3, <1>4 DEF ListsOf, Outs
<1>8. ListsOf(timers', stack')
  BY <1>2, <1>5, <1>6, <1>7 DEF ListsOf
<1>9. ListsOf(timers, stack)'
  BY <1>8, Unmoved DEF TimerFree
<1> QED BY <1>1, <1>9, RestStays, PartsNext DEF TimerFree, Running

LEMMA CallbackReturnsKeeps ==
    ASSUME IndInv, NEW d \in Delays \cup {0}, CallbackReturns(d)
    PROVE  IndInv'
<1> DEFINE t == Inner.timer
<1>1. ListsOf(timers, stack) /\ Rest /\ clock \in Clock
  BY Parts DEF Rest
<1>2. t \in Timers
  <2>1. stack \in Seq(Frames) /\ stack # <<>>
    BY <1>1 DEF ListsOf, CallbackReturns
  <2>2. Inner \in Frames
    BY <2>1 DEF Inner
  <2> QED BY <2>2 DEF Frames
<1>3. ListsOf(timers', stack)
  <2>1. CASE d = 0
    BY <1>1, <2>1 DEF CallbackReturns
  <2>2. CASE d # 0
    <3>1. ListsOf(Without(timers, t), stack) /\ ~Holds(Without(timers, t), t)
      BY <1>1, <1>2, WithoutLists
    <3>2. At(t, clock + d) \in Entry /\ At(t, clock + d).timer = t /\ Near(At(t, clock + d))
      BY <1>1, <1>2, <2>2, AtFacts, DelayFacts
    <3>3. FreeIn(stack, t)
      BY <2>2, FreeIsFree DEF CallbackReturns
    <3>4. timers' = SortedInto(Without(timers, t), At(t, clock + d))
      BY <2>2 DEF CallbackReturns, Rearm
    <3> QED BY <1>1, <3>1, <3>2, <3>3, <3>4, EnterLists
  <2> QED BY <2>1, <2>2
<1>4. ListsOf(timers', stack')
  BY <1>3, ReturnLists DEF CallbackReturns, Outer
<1>5. ListsOf(timers, stack)'
  BY <1>4, Unmoved DEF CallbackReturns
<1> QED BY <1>1, <1>5, RestStays, PartsNext DEF CallbackReturns

LEMMA OldReturnsKeeps ==
    ASSUME IndInv, OldReturns
    PROVE  IndInv'
<1> DEFINE e == Inner.next[1]
           n == Len(stack)
<1>1. ListsOf(timers, stack) /\ Rest /\ clock \in Clock
  BY Parts DEF Rest
<1>2. /\ n \in DOMAIN stack /\ stack[n].next # <<>> /\ n \in Nat /\ DOMAIN stack = 1 .. n
      /\ stack[n] \in Frames
  BY <1>1 DEF ListsOf, OldReturns, Inner
<1>3. e \in Entry /\ 1 \in DOMAIN stack[n].next
  BY <1>2 DEF Frames, Inner
<1>4. Near(e)
  BY <1>1, <1>2, <1>3 DEF ListsOf, Nexts, Inner
<1>5. ~Holds(timers, e.timer)
  BY <1>1, <1>2 DEF ListsOf, Outs, Inner
<1>6. ListsOf(timers, Outer)
  BY <1>1, ReturnLists DEF OldReturns, Outer
<1>7. FreeIn(Outer, e.timer)
  <2>1. DOMAIN Outer = 1 .. n - 1 /\ \A i \in DOMAIN Outer : Outer[i] = stack[i] /\ i \in DOMAIN stack /\ i # n
    BY <1>1, <1>2 DEF ListsOf, Outer
  <2>2. e.timer = stack[n].timer
    BY <1>1, <1>2 DEF ListsOf, Outs, Inner
  <2> QED BY <1>1, <1>2, <2>1, <2>2 DEF ListsOf, Outs, FreeIn
<1>8. ListsOf(timers', stack')
  BY <1>1, <1>3, <1>4, <1>5, <1>6, <1>7, EnterLists DEF OldReturns
<1>9. ListsOf(timers, stack)'
  BY <1>8, Unmoved DEF OldReturns
<1> QED BY <1>1, <1>9, RestStays, PartsNext DEF OldReturns
-----------------------------------------------------------------------------
(* check_timers, the sleep and the clock.                                  *)

LEMMA CheckTimersKeeps ==
    ASSUME IndInv, CheckTimers
    PROVE  IndInv'
<1>1. ListsOf(timers, stack) /\ Rest /\ clock \in Clock
  BY Parts DEF Rest
<1>2. ListsOf(timers, stack)'
  BY <1>1, Unmoved DEF CheckTimers
<1>3. \A i \in DOMAIN timers : timers[i] \in Entry /\ Left(timers[i]) \in Int
  <2>1. \A i \in DOMAIN timers : timers[i] \in Entry
    BY <1>1 DEF ListsOf, Good
  <2> QED BY <1>1, <2>1, LeftApart
<1>4. CASE timers = <<>>
  <2>1. DOMAIN timers = {} /\ pc' = "poll" /\ UNCHANGED <<walk, walkNow, timeout, timers, clock, stack, steps>>
    BY <1>4 DEF CheckTimers
  <2>2. Rest'
    BY <1>1, <2>1 DEF CheckTimers, Rest, WalkIsBrief, PollIsOuter, SleepEndsInTime
  <2> QED BY <1>2, <2>2, PartsNext
<1>5. CASE timers # <<>>
  <2>1. 1 \in DOMAIN timers /\ \A i \in DOMAIN timers : Left(timers[1]) <= Left(timers[i])
    <3>1. DOMAIN timers = 1 .. Len(timers) /\ Len(timers) \in Nat /\ Len(timers) > 0
      BY <1>1, <1>5 DEF ListsOf, Good
    <3>2. \A i \in DOMAIN timers : 1 < i => Left(timers[1]) <= Left(timers[i])
      BY <1>1, <3>1 DEF ListsOf, Good, Ordered
    <3> QED BY <1>3, <3>1, <3>2
  <2>2. CASE Due(timers[1], clock)
    <3>1. walk' = "due" /\ walkNow' = clock /\ UNCHANGED <<clock, timers, stack, pc, timeout, steps>>
      BY <1>5, <2>2 DEF CheckTimers
    <3>2. Signed(clock - clock) = 0
      <4>1. Signed(clock - clock) = Apart(clock - clock)
        BY <1>1, SignedApart
      <4> QED BY <1>1, <4>1, WordIsEven DEF Apart, Clock
    <3>3. WalkIsBrief'
      BY <3>1, <3>2, Window DEF WalkIsBrief
    <3> QED BY <1>1, <1>2, <3>1, <3>3, PartsNext DEF CheckTimers, Rest, PollIsOuter, SleepEndsInTime
  <2>3. CASE ~Due(timers[1], clock) /\ Sane(timers[1])
    <3>1. /\ pc' = "poll" /\ timeout' = Left(timers[1])
          /\ UNCHANGED <<walk, walkNow, clock, timers, stack, steps>>
      BY <1>5, <2>3 DEF CheckTimers, TimeoutOfFirst
    <3>2. Left(timers[1]) > 0 /\ Left(timers[1]) \in Int
      BY <1>1, <1>3, <2>1, <2>3, DueIsUp
    <3>3. SleepEndsInTime'
      <4>1. \A i \in DOMAIN timers : Left(timers[1]) \in 1 .. Left(timers[i])
        BY <1>3, <2>1, <3>2
      <4> QED BY <3>1, <4>1 DEF SleepEndsInTime, Left
    <3>4. Rest'
      BY <1>1, <3>1, <3>2, <3>3 DEF CheckTimers, Rest, WalkIsBrief, PollIsOuter
    <3> QED BY <1>2, <3>4, PartsNext
  <2>4. CASE ~Due(timers[1], clock) /\ ~Sane(timers[1])
    BY <1>1, <1>2, <1>5, <2>4, PartsNext DEF CheckTimers, Rest, WalkIsBrief, PollIsOuter, SleepEndsInTime
  <2> QED BY <2>2, <2>3, <2>4
<1> QED BY <1>4, <1>5

LEMMA WalkCallsKeeps ==
    ASSUME IndInv, WalkCalls
    PROVE  IndInv'
<1>1. ListsOf(timers, stack) /\ Rest
  BY Parts
<1>2. PICK p \in DOMAIN timers : DoTimer(timers[p].timer)
  BY DEF WalkCalls
<1>3. timers[p].timer \in Timers
  <2>1. timers[p] \in Entry
    BY <1>1, <1>2 DEF ListsOf, Good
  <2> QED BY <2>1 DEF Entry
<1>4. ListsOf(timers, stack)'
  BY <1>2, <1>3, DoTimerLists DEF WalkCalls
<1> QED BY <1>1, <1>4, RestStays, PartsNext DEF WalkCalls

LEMMA WalkEndsKeeps ==
    ASSUME IndInv, WalkEnds
    PROVE  IndInv'
<1>1. ListsOf(timers, stack) /\ Rest
  BY Parts
<1>2. ListsOf(timers, stack)'
  BY <1>1, Unmoved DEF WalkEnds
<1>3. Rest'
  BY <1>1, WordIsEven DEF WalkEnds, Rest, WalkIsBrief, PollIsOuter, SleepEndsInTime, Clock
<1> QED BY <1>2, <1>3, PartsNext

LEMMA PollReturnsKeeps ==
    ASSUME IndInv, PollReturns
    PROVE  IndInv'
<1>1. ListsOf(timers, stack) /\ Rest
  BY Parts
<1>2. ListsOf(timers, stack)'
  BY <1>1, Unmoved DEF PollReturns
<1>3. Rest'
  BY <1>1 DEF PollReturns, Rest, WalkIsBrief, PollIsOuter, SleepEndsInTime
<1> QED BY <1>2, <1>3, PartsNext

\* When the clock moves by k all timers that stay in the window move by -k.
LEMMA Moved ==
    ASSUME clock \in Clock, NEW k \in Int, clock' = (clock + k) % Word,
           NEW e \in Entry, Left(e) \in -MaxLate .. MaxLeft, Left(e) - k \in -MaxLate .. MaxLeft
    PROVE  Left(e)' = Left(e) - k
<1>1. k < Half /\ -Half < k
  BY Window, WordIsEven
<1>2. clock + k \in Int /\ -Word <= clock + k /\ clock + k < 2 * Word
  BY <1>1, WordIsEven DEF Clock
<1>3. clock' = IF clock + k < 0 THEN (clock + k) + Word
               ELSE IF clock + k < Word THEN clock + k ELSE (clock + k) - Word
  BY <1>2, ModNear, WordIsEven
<1>4. clock' \in Clock
  BY <1>2, <1>3, WordIsEven DEF Clock
<1>5. e.expires \in Clock
  BY DEF Entry
<1>6. Left(e)' = Apart(e.expires - clock')
  BY <1>4, <1>5, SignedApart DEF Left
<1>7. Left(e) = Apart(e.expires - clock)
  BY LeftApart
<1> QED
  BY <1>1, <1>2, <1>3, <1>4, <1>5, <1>6, <1>7, Window, WordIsEven DEF Apart, Clock

LEMMA ListsMove ==
    ASSUME IndInv, NEW k \in Int, clock' = (clock + k) % Word, UNCHANGED <<timers, stack>>,
           \A e \in Pending : Left(e) - k \in -MaxLate .. MaxLeft
    PROVE  /\ ListsOf(timers, stack)'
           /\ \A i \in DOMAIN timers : Left(timers[i])' = Left(timers[i]) - k
<1>1. ListsOf(timers, stack) /\ clock \in Clock
  BY Parts DEF Rest
<1>2. \A i \in DOMAIN timers : timers[i] \in Entry /\ Near(timers[i]) /\ timers[i] \in Pending
  BY <1>1 DEF ListsOf, Good, Pending
<1>3. \A i \in DOMAIN timers : Signed(timers[i].expires - clock') = Left(timers[i]) - k
  <2>1. SUFFICES ASSUME NEW i \in DOMAIN timers
                 PROVE  Signed(timers[i].expires - clock') = Left(timers[i]) - k
    OBVIOUS
  <2>2. \A e \in Entry : Near(e) /\ e \in Pending => Signed(e.expires - clock') = Left(e) - k
    BY <1>1, Moved DEF Near, Left
  <2> QED BY <1>2, <2>2
<1>4. \A i \in DOMAIN stack : \A j \in DOMAIN stack[i].next :
        /\ stack[i].next[j] \in Entry /\ Near(stack[i].next[j]) /\ stack[i].next[j] \in Pending
  <2>1. \A i \in DOMAIN stack : stack[i] \in Frames
    BY <1>1 DEF ListsOf
  <2>2. \A i \in DOMAIN stack : \A j \in DOMAIN stack[i].next : stack[i].next[j] \in Entry
    BY <2>1 DEF Frames
  <2> QED BY <1>1, <2>2 DEF ListsOf, Nexts, Pending
<1>5. \A i \in DOMAIN stack : \A j \in DOMAIN stack[i].next :
        Signed(stack[i].next[j].expires - clock') = Left(stack[i].next[j]) - k
  <2>1. \A e \in Entry : Near(e) /\ e \in Pending => Signed(e.expires - clock') = Left(e) - k
    BY <1>1, Moved DEF Near, Left
  <2> QED BY <1>4, <2>1
<1>6. \A i \in DOMAIN timers : Left(timers[i])' = Left(timers[i]) - k
  BY <1>3 DEF Left
<1>7. Ordered(timers)'
  <2>1. \A i \in DOMAIN timers : Left(timers[i]) \in Int
    BY <1>1, <1>2, LeftApart
  <2> QED BY <1>1, <1>6, <2>1 DEF Ordered, ListsOf, Good
<1>8. (\A i \in DOMAIN timers : Near(timers[i]))'
  BY <1>2, <1>6 DEF Near
<1>9. Nexts(stack)'
  BY <1>4, <1>5 DEF Nexts, Near, Left
<1>10. (timers \in Seq(Entry) /\ Once(timers) /\ stack \in Seq(Frames) /\ Outs(timers, stack))'
  BY <1>1 DEF ListsOf, Good, Once, Outs, Holds
<1> QED BY <1>6, <1>7, <1>8, <1>9, <1>10 DEF ListsOf, Good

LEMMA TickKeeps ==
    ASSUME IndInv, Tick
    PROVE  IndInv'
<1>1. ListsOf(timers, stack) /\ Rest /\ clock \in Clock
  BY Parts DEF Rest
<1>2. \A e \in Pending : Left(e) - 1 \in -MaxLate .. MaxLeft
  BY Window DEF IndInv, InWindow, Tick
<1>3. /\ ListsOf(timers, stack)'
      /\ \A i \in DOMAIN timers : Left(timers[i])' = Left(timers[i]) - 1
  BY <1>2, ListsMove DEF Tick
<1>4. clock' = (IF clock + 1 < Word THEN clock + 1 ELSE 0) /\ clock' \in Clock
  <2>1. (clock + 1) % Word = IF clock + 1 < Word THEN clock + 1 ELSE (clock + 1) - Word
    BY <1>1, ModNear, WordIsEven DEF Clock
  <2> QED BY <1>1, <2>1, WordIsEven DEF Tick, Clock
<1>5. WalkIsBrief'
  <2>1. SUFFICES ASSUME walk = "due" PROVE Signed(clock' - walkNow) \in 0 .. MaxLate
    BY DEF WalkIsBrief, Tick
  <2>2. Signed(clock - walkNow) \in 0 .. MaxLate /\ Signed(clock - walkNow) < MaxLate /\ walkNow \in Clock
    BY <1>1, <2>1 DEF Rest, WalkIsBrief, Tick
  <2>3. Signed(clock - walkNow) = Apart(clock - walkNow) /\ Signed(clock' - walkNow) = Apart(clock' - walkNow)
    BY <1>1, <1>4, <2>2, SignedApart
  <2> QED BY <1>1, <1>4, <2>2, <2>3, Window, WordIsEven DEF Apart, Clock
<1>6. SleepEndsInTime'
  <2>1. SUFFICES ASSUME pc = "poll", NEW i \in DOMAIN timers
                 PROVE  timeout' = 0 \/ timeout' \in 1 .. Left(timers[i])'
    BY DEF SleepEndsInTime, Tick
  <2>2. timeout = 0 \/ timeout \in 1 .. Left(timers[i])
    BY <1>1, <2>1 DEF Rest, SleepEndsInTime
  <2>3. Left(timers[i])' = Left(timers[i]) - 1 /\ Left(timers[i]) \in Int
    <3>1. timers[i] \in Entry
      BY <1>1 DEF ListsOf, Good
    <3> QED BY <1>1, <1>3, <3>1, LeftApart
  <2>4. timeout' = IF timeout > 0 THEN timeout - 1 ELSE timeout
    BY DEF Tick
  <2> QED BY <2>2, <2>3, <2>4
<1>7. Rest'
  BY <1>1, <1>4, <1>5, <1>6 DEF Rest, PollIsOuter, Tick
<1> QED BY <1>3, <1>7, PartsNext

LEMMA SetBackKeeps ==
    ASSUME IndInv, NEW r \in Steps, SetBack(r)
    PROVE  IndInv'
<1>0. r \in Nat /\ -r \in Int
  BY StepsAssumption
<1>1. ListsOf(timers, stack) /\ Rest /\ clock \in Clock
  BY Parts DEF Rest
<1>2. \A e \in Pending : Left(e) - (-r) \in -MaxLate .. MaxLeft
  BY <1>0, Window DEF IndInv, InWindow, SetBack
<1>3. clock' = (clock + (-r)) % Word
  BY <1>0, <1>1 DEF SetBack, Clock
<1>4. /\ ListsOf(timers, stack)'
      /\ \A i \in DOMAIN timers : Left(timers[i])' = Left(timers[i]) - (-r)
  BY <1>0, <1>2, <1>3, ListsMove DEF SetBack
<1>5. clock' \in Clock
  BY <1>0, <1>1, <1>3, Division, WordIsEven DEF Clock
<1>6. SleepEndsInTime'
  <2>1. SUFFICES ASSUME pc = "poll", NEW i \in DOMAIN timers
                 PROVE  timeout = 0 \/ timeout \in 1 .. Left(timers[i])'
    BY DEF SleepEndsInTime, SetBack
  <2>2. timeout = 0 \/ timeout \in 1 .. Left(timers[i])
    BY <1>1, <2>1 DEF Rest, SleepEndsInTime
  <2>3. Left(timers[i])' = Left(timers[i]) - (-r) /\ Left(timers[i]) \in Int
    <3>1. timers[i] \in Entry
      BY <1>1 DEF ListsOf, Good
    <3> QED BY <1>1, <1>4, <3>1, LeftApart
  <2> QED BY <1>0, <2>2, <2>3
<1>7. Rest'
  BY <1>1, <1>5, <1>6 DEF Rest, PollIsOuter, WalkIsBrief, SetBack
<1> QED BY <1>4, <1>7, PartsNext
-----------------------------------------------------------------------------
LEMMA NextKeeps ==
    ASSUME IndInv, [Next]_vars
    PROVE  IndInv'
<1>1. CASE \E t \in Timers, d \in Delays :
              TimerSetRelative(t, d) \/ TimerSetAbsolute(t, clock + d) \/ TimerSetForceOld(t, d)
  BY <1>1, TimerSetRelativeKeeps, TimerSetAbsoluteKeeps, TimerSetForceOldKeeps
<1>2. CASE \E t \in Timers : TimerSetAbsolute(t, clock)
  <2>1. clock + 0 = clock
    BY Parts DEF Rest, Clock
  <2>2. PICK t \in Timers : TimerSetAbsolute(t, clock + 0)
    BY <1>2, <2>1
  <2> QED BY <2>2, TimerSetAbsoluteKeeps
<1>3. CASE \E t \in Timers : TimerForce(t) \/ TimerCancel(t) \/ TimerFree(t)
  BY <1>3, TimerForceKeeps, TimerCancelKeeps, TimerFreeKeeps
<1>4. CASE \E d \in Delays \cup {0} : CallbackReturns(d)
  BY <1>4, CallbackReturnsKeeps
<1>5. CASE OldReturns
  BY <1>5, OldReturnsKeeps
<1>6. CASE CheckTimers \/ WalkCalls \/ WalkEnds \/ PollReturns
  BY <1>6, CheckTimersKeeps, WalkCallsKeeps, WalkEndsKeeps, PollReturnsKeeps
<1>7. CASE Tick \/ \E r \in Steps : SetBack(r)
  BY <1>7, TickKeeps, SetBackKeeps
<1>8. CASE UNCHANGED vars
  <2>1. ListsOf(timers, stack) /\ Rest
    BY Parts
  <2>2. ListsOf(timers, stack)'
    BY <1>8, <2>1, Unmoved DEF vars
  <2>3. Rest'
    BY <1>8, <2>1 DEF vars, Rest, WalkIsBrief, PollIsOuter, SleepEndsInTime, Left
  <2> QED BY <2>2, <2>3, PartsNext
<1> QED
  BY <1>1, <1>2, <1>3, <1>4, <1>5, <1>6, <1>7, <1>8 DEF Next

\* The inductive invariant: types, the window, the order, and what callbacks
\* that are still running leave in the list.
THEOREM IndInvHolds == Spec => []IndInv
<1>1. Init => IndInv
  BY InitEstablishes
<1>2. IndInv /\ [Next]_vars => IndInv'
  BY NextKeeps
<1> QED BY <1>1, <1>2, PTL DEF Spec

\* Every variable of the timers has its type, and no timer is listed twice.
THEOREM TypeCorrect == Spec => []TypeOK
<1>1. IndInv => TypeOK
  BY DEF IndInv
<1> QED BY <1>1, IndInvHolds, PTL

\* TimerSet, DoTimer and the walks keep the list sorted across the wrap.
THEOREM TimersStaySorted == Spec => []TimersAreSorted
<1>1. IndInv => TimersAreSorted
  BY DEF IndInv
<1> QED BY <1>1, IndInvHolds, PTL

\* WaitForSomething's timeout never lets it sleep past a timer.
THEOREM SleepAlwaysEndsInTime == Spec => []SleepEndsInTime
<1>1. IndInv => SleepEndsInTime
  BY DEF IndInv
<1> QED BY <1>1, IndInvHolds, PTL

LEMMA CallIsDue ==
    ASSUME IndInv, WalkCalls
    PROVE  \E i \in DOMAIN timers :
               timers[i].timer = stack'[1].timer /\ (IsUp(timers[i]) \/ MovedAway(timers[i]))
<1>1. ListsOf(timers, stack) /\ Rest /\ clock \in Clock
  BY Parts DEF Rest
<1>2. PICK p \in DOMAIN timers : First(p) /\ DoTimer(timers[p].timer)
  BY DEF WalkCalls
<1>3. stack'[1].timer = timers[p].timer
  BY <1>2 DEF WalkCalls, DoTimer, Frame
<1>4. /\ DOMAIN timers = 1 .. Len(timers)
      /\ \A i \in DOMAIN timers : timers[i] \in Entry /\ Near(timers[i])
  BY <1>1 DEF ListsOf, Good
<1>5. \A i \in DOMAIN timers : Left(timers[i]) \in Int
  BY <1>1, <1>4, LeftApart
<1>6. \A i \in DOMAIN timers : p <= i => Left(timers[p]) <= Left(timers[i])
  BY <1>1, <1>2, <1>4, <1>5 DEF ListsOf, Good, Ordered
<1>7. CASE walk = "due"
  <2>1. p = 1 /\ Signed(timers[1].expires - walkNow) <= 0
    BY <1>2, <1>7 DEF First, Due
  <2>2. timers[1] \in Entry /\ timers[1].expires \in Clock /\ walkNow \in Clock
    BY <1>1, <1>2, <1>4, <2>1 DEF Entry, Rest
  <2>3. Signed(clock - walkNow) \in 0 .. MaxLate
    BY <1>1, <1>7 DEF Rest, WalkIsBrief
  <2>4. /\ Signed(clock - walkNow) = Apart(clock - walkNow)
        /\ Signed(timers[1].expires - walkNow) = Apart(timers[1].expires - walkNow)
        /\ Left(timers[1]) = Apart(timers[1].expires - clock)
    BY <1>1, <2>2, SignedApart, LeftApart
  <2>5. Left(timers[1]) \in -MaxLate .. MaxLeft
    BY <1>2, <1>4, <2>1 DEF Near
  <2>6. Left(timers[1]) <= 0
    BY <1>1, <2>1, <2>2, <2>3, <2>4, <2>5, Window, WordIsEven DEF Apart, Clock
  <2> QED BY <1>2, <1>3, <1>4, <1>6, <2>1, <2>6 DEF IsUp
<1>8. CASE walk # "due"
  <2>1. Affected(timers[p]) /\ \A i \in 1 .. p - 1 : ~Affected(timers[i])
    BY <1>2, <1>8 DEF First
  <2>2. \A i \in DOMAIN timers :
          LET e == timers[i] IN
          /\ Left(e) < 0 => Affected(e)
          /\ Left(e) >= 0 => (Affected(e) <=> MovedAway(e))
    <3>1. SUFFICES ASSUME NEW i \in DOMAIN timers
                   PROVE  /\ Left(timers[i]) < 0 => Affected(timers[i])
                          /\ Left(timers[i]) >= 0 => (Affected(timers[i]) <=> MovedAway(timers[i]))
      OBVIOUS
    <3> DEFINE e == timers[i]
    <3>2. e \in Entry /\ e.expires \in Clock /\ e.delta \in Clock /\ Near(e)
      BY <1>4 DEF Entry
    <3>3. Left(e) = Apart(e.expires - clock)
      BY <1>1, <3>2, LeftApart
    <3> HIDE DEF e
    <3>4. (e.expires - clock) % Word = IF e.expires - clock < 0 THEN (e.expires - clock) + Word ELSE e.expires - clock
      <4>1. e.expires - clock \in Int /\ -Word <= e.expires - clock /\ e.expires - clock < Word
        BY <1>1, <3>2, WordIsEven DEF Clock
      <4> DEFINE d == e.expires - clock
      <4>2. d \in Int /\ -Word <= d /\ d < Word
        BY <4>1
      <4> HIDE DEF d
      <4>3. d % Word = IF d < 0 THEN d + Word ELSE d
        BY <4>2, ModNear, WordIsEven
      <4> QED BY <4>3 DEF d
    <3>5. (e.delta + Slack) % Word = e.delta + Slack
      <4>1. e.delta + Slack \in Int /\ 0 <= e.delta + Slack /\ e.delta + Slack < Word
        BY <3>2, Window, WordIsEven DEF Near, Clock
      <4> QED BY <4>1, ModNear, WordIsEven
    <3>6. e.delta + Slack \in Int /\ e.delta + Slack < Half
      BY <3>2, Window, WordIsEven DEF Near, Clock
    <3>7. Left(e) \in -MaxLate .. MaxLeft
      BY <3>2 DEF Near
    <3>8. (e.expires - clock) % Word = IF Left(e) < 0 THEN Left(e) + Word ELSE Left(e)
      BY <1>1, <3>2, <3>3, <3>4, <3>7, Window, WordIsEven DEF Apart, Clock
    <3>9. Left(e) < 0 => Affected(e)
      BY <3>5, <3>6, <3>7, <3>8, Window, WordIsEven DEF Affected
    <3>10. Left(e) >= 0 => (Affected(e) <=> MovedAway(e))
      BY <3>5, <3>6, <3>7, <3>8 DEF Affected, MovedAway
    <3> QED BY <3>9, <3>10 DEF e
  <2>3. CASE Left(timers[p]) >= 0
    BY <1>2, <1>3, <2>1, <2>2, <2>3
  <2>4. CASE Left(timers[p]) < 0
    <3>1. p = 1
      <4>1. SUFFICES ASSUME p # 1 PROVE FALSE
        OBVIOUS
      <4>2. 1 \in DOMAIN timers /\ 1 \in 1 .. p - 1 /\ Left(timers[1]) <= Left(timers[p])
        BY <1>1, <1>2, <1>4, <4>1 DEF ListsOf, Good, Ordered
      <4>3. Left(timers[1]) < 0
        BY <1>2, <1>5, <2>4, <4>2
      <4> QED BY <2>1, <2>2, <4>2, <4>3
    <3> QED BY <1>2, <1>3, <1>4, <1>5, <1>6, <2>4, <3>1 DEF IsUp
  <2> QED BY <1>2, <1>5, <2>3, <2>4
<1> QED BY <1>2, <1>3, <1>7, <1>8

\* check_timers calls timers in order and never early, unless the clock was
\* set back.
THEOREM CallsAreAlwaysDue == Spec => CallsAreDue
<1> DEFINE A == ~Called /\ Called' =>
                  \E i \in DOMAIN timers :
                      /\ timers[i].timer = stack'[1].timer
                      /\ IsUp(timers[i]) \/ MovedAway(timers[i])
<1>1. IndInv /\ [Next]_vars => [A]_vars
  <2>1. SUFFICES ASSUME IndInv, Next, ~Called, Called'
                 PROVE  WalkCalls
    BY CallIsDue DEF A
  <2>2. walk = "none" => walk' = "none" \/ stack' = stack
    BY <2>1 DEF Next, TimerSetRelative, TimerSetAbsolute, TimerSetForceOld, TimerForce, TimerCancel,
         TimerFree, CallbackReturns, OldReturns, CheckTimers, WalkCalls, WalkEnds, PollReturns, Tick, SetBack
  <2>3. walk # "none" /\ stack = <<>>
    <3>1. CASE walk = "none"
      <4>1. stack' = stack /\ stack # <<>> /\ walk' # "none"
        BY <2>1, <2>2, <3>1 DEF Called
      <4>2. CheckTimers
        BY <2>1, <3>1, <4>1 DEF Next, TimerSetRelative, TimerSetAbsolute, TimerSetForceOld, TimerForce, TimerCancel,
             TimerFree, CallbackReturns, OldReturns, CheckTimers, WalkCalls, WalkEnds, PollReturns, Tick, SetBack
      <4> QED BY <4>1, <4>2 DEF CheckTimers
    <3> QED BY <2>1, <3>1 DEF Called
  <2>4. ~Running /\ stack' # <<>>
    BY <2>1, <2>3 DEF Running, Called
  <2> QED
    BY <2>1, <2>3, <2>4 DEF Next, TimerSetRelative, TimerSetAbsolute, TimerSetForceOld, TimerForce, TimerCancel,
         TimerFree, CallbackReturns, OldReturns, CheckTimers, WalkEnds, PollReturns, Tick, SetBack
<1> QED BY <1>1, IndInvHolds, PTL DEF Spec, CallsAreDue
=============================================================================
