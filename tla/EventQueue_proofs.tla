-------------------------- MODULE EventQueue_proofs --------------------------
(***************************************************************************)
(* Proofs about EventQueue: its arithmetic, its types, and that the ring   *)
(* implements the abstract FIFO for any sizes, devices and bounds.         *)
(***************************************************************************)
EXTENDS EventQueueProps, Integers, TLAPS

-----------------------------------------------------------------------------
(* Indices modulo the size of the ring.                                    *)

LEMMA Division ==
    ASSUME NEW n \in Nat, n > 0, NEW x \in Nat
    PROVE  x = n * (x \div n) + (x % n) /\ x % n \in 0 .. n - 1 /\ (x \div n) \in Nat
  BY Z3

LEMMA SmallQuotient ==
    ASSUME NEW n \in Nat, n > 0, NEW q \in Nat, NEW r \in 0 .. n - 1, n * q + r < 2 * n
    PROVE  q \in {0, 1}
<1>1. CASE q >= 2
  <2>1. PICK k \in Nat : q = 2 + k
    BY <1>1
  <2>2. n * q = n * 2 + n * k /\ n * k >= 0
    BY <2>1
  <2> QED
    BY <2>2
<1> QED
  BY <1>1

\* An index that has run past the end by less than a turn wraps around once.
LEMMA ModWrap ==
    ASSUME NEW n \in Nat, n > 0, NEW x \in Nat, x < 2 * n
    PROVE  x % n = IF x < n THEN x ELSE x - n
<1> DEFINE q == x \div n
           r == x % n
<1>1. x = n * q + r /\ r \in 0 .. n - 1 /\ q \in Nat
  BY Division
<1>2. q \in {0, 1}
  BY <1>1, SmallQuotient
<1>3. CASE q = 0
  <2> HIDE DEF q, r
  <2>1. n * q = 0
    BY <1>3
  <2> QED
    BY <1>1, <2>1 DEF r
<1>4. CASE q = 1
  <2> HIDE DEF q, r
  <2>1. n * q = n
    BY <1>4
  <2> QED
    BY <1>1, <2>1 DEF r
<1> QED
  BY <1>2, <1>3, <1>4

\* (oldtail - 1) % nevents is the slot before, thanks to 2^32 % nevents = 0.
LEMMA BeforeWraps ==
    ASSUME NEW n \in Sizes, NEW i \in 0 .. n - 1
    PROVE  ((i + Word - 1) % Word) % n = IF i = 0 THEN n - 1 ELSE i - 1
<1>1. n \in Nat /\ n > 1 /\ n <= Word /\ Word \in Nat /\ (Word - 1) % n = n - 1
  BY SizesAssumption, WordAssumption
<1>2. (i + Word - 1) % Word = IF i = 0 THEN Word - 1 ELSE i - 1
  <2>1. i + Word - 1 \in Nat /\ i + Word - 1 < 2 * Word
    BY <1>1
  <2> QED
    BY <1>1, <2>1, ModWrap
<1>3. CASE i = 0
  BY <1>1, <1>2, <1>3
<1>4. CASE i # 0
  <2>1. i - 1 \in Nat /\ i - 1 < 2 * n /\ i - 1 < n
    BY <1>1, <1>4
  <2>2. (i - 1) % n = i - 1
    BY <1>1, <2>1, ModWrap
  <2> QED
    BY <1>2, <1>4, <2>2
<1> QED
  BY <1>3, <1>4

-----------------------------------------------------------------------------
(* What each operation does to the sequence of waiting events.             *)

LEMMA NumBounds ==
    ASSUME NEW n \in Nat, n > 1, NEW h \in 0 .. n - 1, NEW t \in 0 .. n - 1
    PROVE  /\ Num(h, t, n) \in 0 .. n - 1
           /\ Num(h, t, n) = IF h <= t THEN t - h ELSE t + n - h
           /\ Num(h, t, n) = 0 <=> h = t
  BY DEF Num

LEMMA SlotInRing ==
    ASSUME NEW n \in Nat, n > 1, NEW h \in 0 .. n - 1, NEW i \in 1 .. n
    PROVE  /\ (h + i - 1) % n \in 0 .. n - 1
           /\ (h + i - 1) % n = IF h + i - 1 < n THEN h + i - 1 ELSE h + i - 1 - n
<1>1. h + i - 1 \in Nat /\ h + i - 1 < 2 * n
  OBVIOUS
<1> QED
  BY <1>1, ModWrap

LEMMA AfterInRing ==
    ASSUME NEW n \in Nat, n > 1, NEW i \in 0 .. n - 1
    PROVE  (i + 1) % n = IF i = n - 1 THEN 0 ELSE i + 1
<1>1. i + 1 \in Nat /\ i + 1 < 2 * n
  OBVIOUS
<1> QED
  BY <1>1, ModWrap

\* q is the sequence of the m entries of array a from h on
Lists(q, a, h, n, m) ==
    /\ q \in Seq(Entry) /\ Len(q) = m /\ DOMAIN q = 1 .. m
    /\ \A i \in 1 .. m : q[i] = a[(h + i - 1) % n]

\* The waiting events are a sequence with entries of the array.
LEMMA QueueType ==
    ASSUME NEW n \in Nat, n > 1, NEW h \in 0 .. n - 1, NEW t \in 0 .. n - 1,
           NEW a \in [0 .. n - 1 -> Entry]
    PROVE  Lists(QueueIn(a, h, t, n), a, h, n, Num(h, t, n))
<1> DEFINE m == Num(h, t, n)
<1>1. m \in 0 .. n - 1
  BY NumBounds
<1> HIDE DEF m
<1>2. \A i \in 1 .. m : a[(h + i - 1) % n] \in Entry
  <2> TAKE i \in 1 .. m
  <2>1. i \in 1 .. n
    BY <1>1
  <2>2. (h + i - 1) % n \in 0 .. n - 1
    BY <2>1, SlotInRing
  <2> QED
    BY <2>2
<1>3. QueueIn(a, h, t, n) = [i \in 1 .. m |-> a[(h + i - 1) % n]]
  BY DEF QueueIn, m
<1> DEFINE q == [i \in 1 .. m |-> a[(h + i - 1) % n]]
<1>4. q \in [1 .. m -> Entry]
  BY <1>2
<1>5. q \in Seq(Entry) /\ Len(q) = m /\ DOMAIN q = 1 .. m
  BY <1>1, <1>4
<1> QED
  BY <1>3, <1>5 DEF m, Lists

LEMMA AppendAt ==
    ASSUME NEW q \in Seq(Entry), NEW e \in Entry
    PROVE  /\ Append(q, e) \in Seq(Entry) /\ Len(Append(q, e)) = Len(q) + 1
           /\ \A i \in 1 .. Len(q) : Append(q, e)[i] = q[i]
           /\ Append(q, e)[Len(q) + 1] = e
  OBVIOUS

\* mieqEnqueue without growth appends.
LEMMA InsertAppends ==
    ASSUME NEW n \in Nat, n > 1, NEW h \in 0 .. n - 1, NEW t \in 0 .. n - 1,
           NEW a \in [0 .. n - 1 -> Entry], NEW e \in Entry, Num(h, t, n) + 1 # n
    PROVE  /\ Num(h, (t + 1) % n, n) = Num(h, t, n) + 1
           /\ QueueIn([a EXCEPT ![t] = e], h, (t + 1) % n, n)
                = Append(QueueIn(a, h, t, n), e)
<1> DEFINE b == [a EXCEPT ![t] = e]
           u == (t + 1) % n
<1>0. /\ b \in [0 .. n - 1 -> Entry]
      /\ b[t] = e /\ \A i \in 0 .. n - 1 : i # t => b[i] = a[i]
  OBVIOUS
<1>1. u = (IF t = n - 1 THEN 0 ELSE t + 1) /\ u \in 0 .. n - 1
  <2>1. (t + 1) % n = IF t = n - 1 THEN 0 ELSE t + 1
    BY AfterInRing
  <2> QED
    BY <2>1
<1> HIDE DEF b, u
<1> DEFINE m == Num(h, t, n)
<1>2. m \in 0 .. n - 1 /\ m = IF h <= t THEN t - h ELSE t + n - h
  BY NumBounds
<1> HIDE DEF m
<1>3. Num(h, u, n) = m + 1
  <2>1. Num(h, u, n) = IF h <= u THEN u - h ELSE u + n - h
    BY <1>1, NumBounds
  <2>2. m + 1 # n
    BY DEF m
  <2> QED
    BY <1>1, <1>2, <2>1, <2>2
<1>4. b \in [0 .. n - 1 -> Entry]
  BY <1>0
<1>5. m + 1 \in 1 .. n - 1
  <2>1. m + 1 # n
    BY DEF m
  <2> QED
    BY <1>2, <2>1
<1>6. ASSUME NEW i \in 1 .. m
      PROVE  b[(h + i - 1) % n] = a[(h + i - 1) % n]
  <2>1. i \in 1 .. n
    BY <1>2
  <2>2. /\ (h + i - 1) % n \in 0 .. n - 1
        /\ (h + i - 1) % n = IF h + i - 1 < n THEN h + i - 1 ELSE h + i - 1 - n
    BY <2>1, SlotInRing
  <2>3. (h + i - 1) % n # t
    BY <1>2, <2>2
  <2> QED
    BY <1>0, <2>2, <2>3
<1>7. b[(h + (m + 1) - 1) % n] = e
  <2>1. (h + (m + 1) - 1) % n = IF h + (m + 1) - 1 < n THEN h + (m + 1) - 1 ELSE h + (m + 1) - 1 - n
    <3> DEFINE k == m + 1
    <3>1. k \in 1 .. n
      BY <1>5
    <3> HIDE DEF k
    <3>2. (h + k - 1) % n = IF h + k - 1 < n THEN h + k - 1 ELSE h + k - 1 - n
      BY <3>1, SlotInRing
    <3> QED
      BY <3>2 DEF k
  <2>2. (h + (m + 1) - 1) % n = t
    BY <1>2, <2>1
  <2> QED
    BY <1>0, <2>2
<1> DEFINE q == QueueIn(a, h, t, n)
           p == QueueIn(b, h, u, n)
<1>8. q \in Seq(Entry) /\ Len(q) = m /\ \A i \in 1 .. m : q[i] = a[(h + i - 1) % n]
  BY QueueType DEF m, Lists
<1>9. p \in Seq(Entry) /\ Len(p) = m + 1 /\ \A i \in 1 .. m + 1 : p[i] = b[(h + i - 1) % n]
  <2>1. Lists(QueueIn(b, h, u, n), b, h, n, Num(h, u, n))
    BY <1>1, <1>4, QueueType
  <2> QED
    BY <1>3, <2>1 DEF Lists
<1> HIDE DEF p, q
<1>10. p = Append(q, e)
  <2>1. Append(q, e) \in Seq(Entry) /\ Len(Append(q, e)) = m + 1
    BY <1>8, AppendAt
  <2>2. ASSUME NEW i \in 1 .. m + 1
        PROVE  p[i] = Append(q, e)[i]
    <3>1. CASE i = m + 1
      <4>1. p[m + 1] = e
        BY <1>7, <1>9, <3>1
      <4>2. Append(q, e)[m + 1] = e
        BY <1>8, AppendAt
      <4> QED
        BY <3>1, <4>1, <4>2
    <3>2. CASE i # m + 1
      <4>1. i \in 1 .. m
        BY <1>2, <3>2
      <4>2. p[i] = a[(h + i - 1) % n]
        BY <1>6, <1>9, <4>1
      <4>3. Append(q, e)[i] = q[i]
        BY <1>8, <4>1, AppendAt
      <4> QED
        BY <1>8, <4>1, <4>2, <4>3
    <3> QED
      BY <3>1, <3>2
  <2> QED
    BY <1>9, <2>1, <2>2
<1> QED
  BY <1>3, <1>10 DEF p, q, m, b, u

\* the slot before t
Prev(t, n) == IF t = 0 THEN n - 1 ELSE t - 1

Replaced(q, i, e) == [q EXCEPT ![i] = e]

\* Merging a motion replaces the last event.
LEMMA MergeReplaces ==
    ASSUME NEW n \in Nat, n > 1, NEW h \in 0 .. n - 1, NEW t \in 0 .. n - 1, h # t,
           NEW a \in [0 .. n - 1 -> Entry], NEW e \in Entry
    PROVE  /\ (Prev(t, n) + 1) % n = t
           /\ QueueIn(Replaced(a, Prev(t, n), e), h, t, n)
                = Replaced(QueueIn(a, h, t, n), Num(h, t, n), e)
<1> DEFINE b == Prev(t, n)
<1>0. b = IF t = 0 THEN n - 1 ELSE t - 1
  BY DEF Prev
<1> HIDE DEF b
<1> DEFINE m == Num(h, t, n)
           c == [a EXCEPT ![b] = e]
           q == QueueIn(a, h, t, n)
           p == QueueIn(c, h, t, n)
<1>1. m \in 1 .. n - 1 /\ m = IF h <= t THEN t - h ELSE t + n - h
  <2>1. /\ Num(h, t, n) \in 0 .. n - 1 /\ Num(h, t, n) # 0
        /\ Num(h, t, n) = IF h <= t THEN t - h ELSE t + n - h
    BY NumBounds
  <2> QED
    BY <2>1
<1>2. b \in 0 .. n - 1 /\ (b + 1) % n = t
  <2>1. b \in 0 .. n - 1
    BY <1>0
  <2>2. (b + 1) % n = IF b = n - 1 THEN 0 ELSE b + 1
    BY <2>1, AfterInRing
  <2> QED
    BY <1>0, <2>1, <2>2
<1>3. c \in [0 .. n - 1 -> Entry]
  BY <1>2
<1> HIDE DEF c
<1>4. q \in Seq(Entry) /\ Len(q) = m /\ DOMAIN q = 1 .. m /\ \A i \in 1 .. m : q[i] = a[(h + i - 1) % n]
  BY QueueType DEF Lists
<1>5. p \in Seq(Entry) /\ Len(p) = m /\ DOMAIN p = 1 .. m /\ \A i \in 1 .. m : p[i] = c[(h + i - 1) % n]
  BY <1>3, QueueType DEF Lists
<1> HIDE DEF m, p, q
<1>6. ASSUME NEW i \in 1 .. m
      PROVE  p[i] = [q EXCEPT ![m] = e][i]
  <2>1. i \in 1 .. n
    BY <1>1
  <2>2. /\ (h + i - 1) % n \in 0 .. n - 1
        /\ (h + i - 1) % n = IF h + i - 1 < n THEN h + i - 1 ELSE h + i - 1 - n
    BY <2>1, SlotInRing
  <2>3. (h + i - 1) % n = b <=> i = m
    BY <1>0, <1>1, <1>2, <2>2
  <2>4. c[(h + i - 1) % n] = IF i = m THEN e ELSE a[(h + i - 1) % n]
    BY <2>2, <2>3 DEF c
  <2> QED
    BY <1>4, <1>5, <2>4
<1>7. p = [q EXCEPT ![m] = e]
  BY <1>4, <1>5, <1>6
<1> QED
  BY <1>2, <1>7 DEF p, q, m, c, b, Replaced

\* the array of size 2 * n that mieqGrowQueue fills from a
Doubled(a, h, n) == [i \in 0 .. 2 * n - 1 |-> IF i < n THEN a[(h + i) % n] ELSE Unused]

\* mieqGrowQueue keeps the waiting events and makes room for one more.
LEMMA GrowAppends ==
    ASSUME NEW n \in Nat, n > 1, NEW h \in 0 .. n - 1, NEW t \in 0 .. n - 1,
           NEW a \in [0 .. n - 1 -> Entry], NEW e \in Entry
    PROVE  /\ Doubled(a, h, n) \in [0 .. 2 * n - 1 -> Entry]
           /\ QueueIn([Doubled(a, h, n) EXCEPT ![Num(h, t, n)] = e], 0, (Num(h, t, n) + 1) % (2 * n), 2 * n)
                = Append(QueueIn(a, h, t, n), e)
<1> DEFINE c == Doubled(a, h, n)
           m == Num(h, t, n)
<1>0. c = [i \in 0 .. 2 * n - 1 |-> IF i < n THEN a[(h + i) % n] ELSE Unused]
  BY DEF Doubled
<1> HIDE DEF c
<1>1. m \in 0 .. n - 1
  BY NumBounds
<1>2. c \in [0 .. 2 * n - 1 -> Entry]
  <2> SUFFICES ASSUME NEW i \in 0 .. 2 * n - 1, i < n
               PROVE  a[(h + i) % n] \in Entry
    BY <1>0 DEF Entry
  <2>1. i + 1 \in 1 .. n /\ h + i = h + (i + 1) - 1
    OBVIOUS
  <2> QED
    BY <2>1, SlotInRing
<1> DEFINE d == 2 * n
<1>3. d \in Nat /\ d > 1 /\ 0 \in 0 .. d - 1 /\ m \in 0 .. d - 1 /\ n < d
  BY <1>1
<1>11. c \in [0 .. d - 1 -> Entry]
  BY <1>2
<1> DEFINE q == QueueIn(a, h, t, n)
           p == QueueIn(c, 0, m, d)
<1> HIDE DEF d, m
<1>4. Num(0, m, d) = m
  BY <1>1, <1>3, NumBounds
<1>5. q \in Seq(Entry) /\ Len(q) = m /\ \A i \in 1 .. m : q[i] = a[(h + i - 1) % n]
  BY QueueType DEF m, Lists
<1>6. p \in Seq(Entry) /\ Len(p) = m /\ \A i \in 1 .. m : p[i] = c[(0 + i - 1) % d]
  <2>1. Lists(QueueIn(c, 0, m, d), c, 0, d, Num(0, m, d))
    BY <1>11, <1>3, QueueType
  <2> QED
    BY <1>4, <2>1 DEF Lists
<1> HIDE DEF p, q
<1>7. ASSUME NEW i \in 1 .. m
      PROVE  p[i] = q[i]
  <2>1. i \in 1 .. d /\ i - 1 \in 0 .. d - 1 /\ i - 1 < n
    BY <1>1, <1>3
  <2>2. (0 + i - 1) % d = i - 1
    <3>1. (0 + i - 1) % d = IF 0 + i - 1 < d THEN 0 + i - 1 ELSE 0 + i - 1 - d
      BY <1>3, <2>1, SlotInRing
    <3> QED
      BY <1>3, <2>1, <3>1
  <2>3. c[i - 1] = a[(h + (i - 1)) % n] /\ h + (i - 1) = h + i - 1
    BY <1>0, <1>3, <2>1 DEF d
  <2> QED
    BY <1>5, <1>6, <2>2, <2>3
<1>8. p = q
  BY <1>5, <1>6, <1>7
<1>9. Num(0, m, d) + 1 # d
  BY <1>1, <1>4 DEF d
<1>10. QueueIn([c EXCEPT ![m] = e], 0, (m + 1) % d, d) = Append(p, e)
  BY <1>11, <1>3, <1>9, InsertAppends DEF p
<1> QED
  BY <1>2, <1>8, <1>10 DEF m, q, d, c

\* Moving head on takes the first event.
LEMMA TakeIsTail ==
    ASSUME NEW n \in Nat, n > 1, NEW h \in 0 .. n - 1, NEW t \in 0 .. n - 1, h # t,
           NEW a \in [0 .. n - 1 -> Entry]
    PROVE  /\ Num((h + 1) % n, t, n) = Num(h, t, n) - 1
           /\ QueueIn(a, (h + 1) % n, t, n) = Tail(QueueIn(a, h, t, n))
           /\ a[h] = QueueIn(a, h, t, n)[1]
<1> DEFINE m == Num(h, t, n)
           g == (h + 1) % n
           q == QueueIn(a, h, t, n)
           p == QueueIn(a, g, t, n)
<1>1. m \in 1 .. n - 1 /\ m = IF h <= t THEN t - h ELSE t + n - h
  BY NumBounds
<1>2. g = (IF h = n - 1 THEN 0 ELSE h + 1) /\ g \in 0 .. n - 1
  <2>1. (h + 1) % n = IF h = n - 1 THEN 0 ELSE h + 1
    BY AfterInRing
  <2> QED
    BY <2>1
<1> HIDE DEF g
<1>3. Num(g, t, n) = m - 1
  <2>1. Num(g, t, n) = IF g <= t THEN t - g ELSE t + n - g
    BY <1>2, NumBounds
  <2> HIDE DEF m
  <2> QED
    BY <1>1, <1>2, <2>1
<1>4. q \in Seq(Entry) /\ Len(q) = m /\ \A i \in 1 .. m : q[i] = a[(h + i - 1) % n]
  BY QueueType DEF Lists
<1>5. p \in Seq(Entry) /\ Len(p) = m - 1 /\ \A i \in 1 .. m - 1 : p[i] = a[(g + i - 1) % n]
  <2>1. Lists(QueueIn(a, g, t, n), a, g, n, Num(g, t, n))
    BY <1>2, QueueType
  <2> QED
    BY <1>3, <2>1 DEF Lists
<1> HIDE DEF m, p, q
<1>6. ASSUME NEW i \in 1 .. m - 1
      PROVE  p[i] = q[i + 1]
  <2>1. i \in 1 .. n /\ i + 1 \in 1 .. n /\ i + 1 \in 1 .. m
    BY <1>1
  <2>2. (g + i - 1) % n = IF g + i - 1 < n THEN g + i - 1 ELSE g + i - 1 - n
    BY <1>2, <2>1, SlotInRing
  <2>3. (h + (i + 1) - 1) % n = IF h + (i + 1) - 1 < n THEN h + (i + 1) - 1 ELSE h + (i + 1) - 1 - n
    BY <2>1, SlotInRing
  <2>4. (g + i - 1) % n = (h + (i + 1) - 1) % n
    BY <1>1, <1>2, <2>1, <2>2, <2>3
  <2> QED
    BY <1>4, <1>5, <2>1, <2>4
<1>7. p = Tail(q)
  <2>1. q # <<>> /\ Tail(q) \in Seq(Entry) /\ Len(Tail(q)) = m - 1
    BY <1>1, <1>4
  <2>2. \A i \in 1 .. m - 1 : Tail(q)[i] = q[i + 1]
    BY <1>1, <1>4
  <2> QED
    BY <1>1, <1>5, <1>6, <2>1, <2>2
<1>8. a[h] = q[1]
  <2>1. (h + 1 - 1) % n = h
    BY SlotInRing
  <2> QED
    BY <1>1, <1>4, <2>1
<1> QED
  BY <1>3, <1>7, <1>8 DEF g, m, p, q
-----------------------------------------------------------------------------
(* What each way to enqueue an event does.                                 *)

LEMMA RingFacts ==
    ASSUME RingTypes
    PROVE  /\ nevents \in Nat /\ nevents > 1
           /\ NumEnqueued \in 0 .. nevents - 1 /\ NumEnqueued = Num(head, tail, nevents)
           /\ NumEnqueued = 0 <=> head = tail
           /\ Queued \in Seq(Entry) /\ Len(Queued) = NumEnqueued
<1>1. nevents \in Nat /\ nevents > 1
  BY SizesAssumption DEF RingTypes
<1>2. Lists(QueueIn(events, head, tail, nevents), events, head, nevents, Num(head, tail, nevents))
  BY <1>1, QueueType DEF RingTypes
<1>3. /\ Num(head, tail, nevents) \in 0 .. nevents - 1
      /\ Num(head, tail, nevents) = 0 <=> head = tail
  BY <1>1, NumBounds DEF RingTypes
<1> QED
  BY <1>1, <1>2, <1>3 DEF Lists, Queued, NumEnqueued

LEMMA MergeEffect ==
    ASSUME RingTypes, NEW e \in Event, Merge(e)
    PROVE  /\ RingTypes'
           /\ Queued # <<>>
           /\ Queued' = [Queued EXCEPT ![Len(Queued)] = e]
<1> DEFINE b == Before(tail)
<1>1. nevents \in Nat /\ nevents > 1 /\ nevents \in Sizes /\ tail \in 0 .. nevents - 1
      /\ head \in 0 .. nevents - 1 /\ events \in [0 .. nevents - 1 -> Entry]
  BY RingFacts DEF RingTypes
<1>2. e \in Entry
  BY DEF Entry
<1>3. b = Prev(tail, nevents)
  BY <1>1, BeforeWraps DEF Before, Prev
<1>4. b \in 0 .. nevents - 1
  BY <1>1, <1>3 DEF Prev
<1> HIDE DEF b
<1>5. head # tail
  BY DEF Merge, Merges
<1>6. /\ (b + 1) % nevents = tail
      /\ QueueIn([events EXCEPT ![b] = e], head, tail, nevents)
            = [QueueIn(events, head, tail, nevents) EXCEPT ![Num(head, tail, nevents)] = e]
  <2>1. /\ (Prev(tail, nevents) + 1) % nevents = tail
        /\ QueueIn(Replaced(events, Prev(tail, nevents), e), head, tail, nevents)
              = Replaced(QueueIn(events, head, tail, nevents), Num(head, tail, nevents), e)
    BY <1>1, <1>2, <1>5, MergeReplaces
  <2> QED
    BY <1>3, <2>1 DEF Replaced
<1>7. /\ events' = [events EXCEPT ![b] = e] /\ tail' = tail
      /\ head' = head /\ nevents' = nevents /\ UNCHANGED dropped
      /\ lastEventTime' = e.time /\ lastMotion' = LastMotionAfter(e)
  BY <1>6 DEF Merge, Store, b
<1>8. Queued' = [Queued EXCEPT ![Len(Queued)] = e]
  BY <1>6, <1>7, RingFacts DEF Queued
<1>9. Queued # <<>>
  BY <1>5, RingFacts
<1>10. RingTypes'
  <2>1. events' \in [0 .. nevents - 1 -> Entry]
    BY <1>1, <1>2, <1>4, <1>7
  <2>2. lastEventTime' \in Times /\ lastMotion' \in Devices \cup {NoDevice}
    BY <1>7 DEF Event, LastMotionAfter
  <2> QED
    BY <1>7, <2>1, <2>2 DEF RingTypes
<1> QED
  BY <1>8, <1>9, <1>10

LEMMA InsertEffect ==
    ASSUME RingTypes, NEW e \in Event, Insert(e)
    PROVE  RingTypes' /\ Queued' = Append(Queued, e)
<1>1. nevents \in Nat /\ nevents > 1 /\ tail \in 0 .. nevents - 1
      /\ head \in 0 .. nevents - 1 /\ events \in [0 .. nevents - 1 -> Entry]
  BY RingFacts DEF RingTypes
<1>2. e \in Entry
  BY DEF Entry
<1>3. Num(head, tail, nevents) + 1 # nevents
  BY DEF Insert, NumEnqueued
<1>4. QueueIn([events EXCEPT ![tail] = e], head, (tail + 1) % nevents, nevents)
          = Append(QueueIn(events, head, tail, nevents), e)
  BY <1>1, <1>2, <1>3, InsertAppends
<1>5. /\ events' = [events EXCEPT ![tail] = e] /\ tail' = (tail + 1) % nevents
      /\ head' = head /\ nevents' = nevents /\ UNCHANGED dropped
      /\ lastEventTime' = e.time /\ lastMotion' = LastMotionAfter(e)
  BY DEF Insert, Store
<1>6. Queued' = Append(Queued, e)
  BY <1>4, <1>5 DEF Queued
<1>7. RingTypes'
  <2>1. events' \in [0 .. nevents - 1 -> Entry]
    BY <1>1, <1>2, <1>5
  <2>2. lastEventTime' \in Times /\ lastMotion' \in Devices \cup {NoDevice}
    BY <1>5 DEF Event, LastMotionAfter
  <2>3. tail' \in 0 .. nevents - 1
    <3>1. (tail + 1) % nevents = IF tail = nevents - 1 THEN 0 ELSE tail + 1
      BY <1>1, AfterInRing
    <3> QED
      BY <1>1, <1>5, <3>1
  <2> QED
    BY <1>5, <2>1, <2>2, <2>3 DEF RingTypes
<1> QED
  BY <1>6, <1>7

LEMMA GrowEffect ==
    ASSUME RingTypes, NEW e \in Event, Grow(e)
    PROVE  RingTypes' /\ Queued' = Append(Queued, e)
<1> DEFINE m == Num(head, tail, nevents)
           d == 2 * nevents
           c == Copied(d)
<1>1. nevents \in Nat /\ nevents > 1 /\ tail \in 0 .. nevents - 1
      /\ head \in 0 .. nevents - 1 /\ events \in [0 .. nevents - 1 -> Entry]
  BY RingFacts DEF RingTypes
<1>2. e \in Entry /\ Unused \in Entry
  BY DEF Entry
<1>3. c = Doubled(events, head, nevents)
  BY DEF Copied, Doubled
<1> HIDE DEF c
<1>4. /\ c \in [0 .. 2 * nevents - 1 -> Entry]
      /\ QueueIn([c EXCEPT ![m] = e], 0, (m + 1) % (2 * nevents), 2 * nevents)
            = Append(QueueIn(events, head, tail, nevents), e)
  <2> HIDE DEF d
  <2>1. /\ Doubled(events, head, nevents) \in [0 .. 2 * nevents - 1 -> Entry]
        /\ QueueIn([Doubled(events, head, nevents) EXCEPT ![Num(head, tail, nevents)] = e], 0,
                   (Num(head, tail, nevents) + 1) % (2 * nevents), 2 * nevents)
              = Append(QueueIn(events, head, tail, nevents), e)
    BY <1>1, <1>2, GrowAppends
  <2> QED
    BY <1>3, <2>1
<1>5. /\ events' = [c EXCEPT ![m] = e] /\ tail' = (m + 1) % (2 * nevents)
      /\ head' = 0 /\ nevents' = 2 * nevents /\ UNCHANGED dropped
      /\ lastEventTime' = e.time /\ lastMotion' = LastMotionAfter(e)
      /\ 2 * nevents \in Sizes
  BY DEF Grow, Store, NumEnqueued, c
<1>6. Queued' = Append(Queued, e)
  BY <1>4, <1>5 DEF Queued
<1>7. RingTypes'
  <2>1. m \in 0 .. nevents - 1
    BY <1>1, NumBounds
  <2> HIDE DEF m, d
  <2>2. events' \in [0 .. 2 * nevents - 1 -> Entry]
    BY <1>1, <1>2, <1>4, <1>5, <2>1
  <2>3. lastEventTime' \in Times /\ lastMotion' \in Devices \cup {NoDevice}
    BY <1>5 DEF Event, LastMotionAfter
  <2>4. tail' \in 0 .. 2 * nevents - 1
    <3>1. 2 * nevents \in Nat /\ 2 * nevents > 1 /\ m \in 0 .. 2 * nevents - 1
      BY <1>1, <2>1
    <3>2. (m + 1) % (2 * nevents) = IF m = 2 * nevents - 1 THEN 0 ELSE m + 1
      BY <3>1, AfterInRing
    <3> QED
      BY <3>1, <1>5, <3>2
  <2>5. 2 * nevents >= Initial /\ 0 \in 0 .. 2 * nevents - 1
    <3>1. Initial \in Nat /\ nevents >= Initial
      BY SizesAssumption DEF RingTypes
    <3> QED
      BY <1>1, <3>1
  <2> QED
    BY <1>5, <2>2, <2>3, <2>4, <2>5 DEF RingTypes
<1> QED
  BY <1>6, <1>7

LEMMA DropEffect ==
    ASSUME RingTypes, NEW e \in Event, Drop(e)
    PROVE  RingTypes' /\ Queued' = Queued /\ Len(Queued) >= Initial - 1
<1>1. UNCHANGED <<events, head, tail, nevents, lastMotion, lastEventTime>>
      /\ dropped' = dropped + 1
  BY DEF Drop, RingTypes
<1>2. Queued' = Queued
  BY <1>1 DEF Queued
<1>3. RingTypes'
  BY <1>1 DEF RingTypes
<1>4. Len(Queued) >= Initial - 1
  <2>1. Len(Queued) + 1 = nevents /\ Len(Queued) \in Nat
    BY RingFacts DEF Drop
  <2>2. Initial \in Nat /\ nevents >= Initial
    BY SizesAssumption DEF RingTypes
  <2> QED
    BY <2>1, <2>2
<1> QED
  BY <1>2, <1>3, <1>4

LEMMA DequeueEffect ==
    ASSUME RingTypes, OnlyEvents, Dequeue
    PROVE  /\ RingTypes'
           /\ Queued # <<>> /\ Queued' = Tail(Queued)
           /\ current' = Queued[1] /\ current' \in Event
<1>1. nevents \in Nat /\ nevents > 1 /\ tail \in 0 .. nevents - 1
      /\ head \in 0 .. nevents - 1 /\ events \in [0 .. nevents - 1 -> Entry]
  BY RingFacts DEF RingTypes
<1>2. head # tail
  BY DEF Dequeue
<1>3. /\ QueueIn(events, (head + 1) % nevents, tail, nevents)
            = Tail(QueueIn(events, head, tail, nevents))
      /\ events[head] = QueueIn(events, head, tail, nevents)[1]
  BY <1>1, <1>2, TakeIsTail
<1>4. /\ head' = (head + 1) % nevents /\ current' = events[head]
      /\ UNCHANGED <<events, tail, nevents, lastMotion, lastEventTime, dropped>>
  BY DEF Dequeue, After
<1>5. Queued' = Tail(Queued) /\ current' = Queued[1]
  BY <1>3, <1>4 DEF Queued
<1>6. Queued # <<>>
  BY <1>2, RingFacts
<1>7. head' \in 0 .. nevents - 1
  <2>1. (head + 1) % nevents = IF head = nevents - 1 THEN 0 ELSE head + 1
    BY <1>1, AfterInRing
  <2> QED
    BY <1>1, <1>4, <2>1
<1>8. RingTypes'
  BY <1>4, <1>7 DEF RingTypes
<1>9. current' \in Event
  <2>1. Queued \in Seq(Event) /\ Len(Queued) > 0
    BY <1>6 DEF OnlyEvents
  <2> QED
    BY <1>5, <2>1
<1> QED
  BY <1>5, <1>6, <1>8, <1>9
-----------------------------------------------------------------------------
(* The inductive invariant.                                                *)

\* what the abstract queue sees of an enqueued event
Appends(e) == Queued' = Append(Queued, e) /\ lastMotion' = LastMotionAfter(e)
Supersedes(e) ==
    /\ Queued # <<>> /\ Queued' = [Queued EXCEPT ![Len(Queued)] = e]
    /\ e.type = "Motion" /\ lastMotion = e.dev /\ lastMotion' = LastMotionAfter(e)
Tosses == Queued' = Queued /\ Len(Queued) >= Initial - 1 /\ lastMotion' = lastMotion

LEMMA EnqueueEffect ==
    ASSUME RingTypes, MainTypes, Enqueue
    PROVE  /\ RingTypes' /\ MainTypes'
           /\ UNCHANGED <<device, main>> /\ count' = count + 1
           /\ ~locked \/ pc = "process"
           /\ \E e \in Event : /\ device[e.dev] = "on" /\ e.dev \in Devices
                               /\ Appends(e) \/ Supersedes(e) \/ Tosses
<1>1. /\ count < MaxEvents /\ count' = count + 1 /\ UNCHANGED <<device, main>>
      /\ ~locked \/ pc = "process"
  BY DEF Enqueue
<1>2. PICK d \in Devices, ty \in Types, ti \in Times :
          LET e == [id |-> count + 1, dev |-> d, type |-> ty, time |-> ti]
          IN device[d] = "on" /\ (Merge(e) \/ Insert(e) \/ Grow(e) \/ Drop(e))
  BY DEF Enqueue
<1> DEFINE e == [id |-> count + 1, dev |-> d, type |-> ty, time |-> ti]
<1>3. MaxEvents \in Nat /\ count + 1 \in 1 .. MaxEvents
  BY <1>1, EventsAssumption DEF MainTypes
<1>4. e \in Event /\ e.dev = d
  BY <1>3 DEF Event
<1>5. device[e.dev] = "on" /\ e.dev \in Devices /\ (Merge(e) \/ Insert(e) \/ Grow(e) \/ Drop(e))
  BY <1>2, <1>4
<1> HIDE DEF e
<1>6. MainTypes'
  BY <1>1, <1>3 DEF MainTypes, main
<1>7. CASE Merge(e)
  <2>1. Supersedes(e)
    BY <1>4, <1>7, MergeEffect DEF Supersedes, Merge, Merges, Store
  <2> QED
    BY <1>1, <1>4, <1>5, <1>6, <1>7, <2>1, MergeEffect
<1>8. CASE Insert(e)
  <2>1. Appends(e)
    BY <1>4, <1>8, InsertEffect DEF Appends, Insert, Store
  <2> QED
    BY <1>1, <1>4, <1>5, <1>6, <1>8, <2>1, InsertEffect
<1>9. CASE Grow(e)
  <2>1. Appends(e)
    BY <1>4, <1>9, GrowEffect DEF Appends, Grow, Store
  <2> QED
    BY <1>1, <1>4, <1>5, <1>6, <1>9, <2>1, GrowEffect
<1>10. CASE Drop(e)
  <2>1. Tosses
    BY <1>4, <1>10, DropEffect DEF Tosses, Drop
  <2> QED
    BY <1>1, <1>4, <1>5, <1>6, <1>10, <2>1, DropEffect
<1> QED
  BY <1>5, <1>7, <1>8, <1>9, <1>10

LEMMA EnqueueKeeps ==
    ASSUME IndInv, Enqueue
    PROVE  IndInv'
<1>1. RingTypes /\ MainTypes
  BY DEF IndInv, TypeOK
<1>2. /\ RingTypes' /\ MainTypes' /\ UNCHANGED <<device, main>>
      /\ ~locked \/ pc = "process"
  BY <1>1, EnqueueEffect
<1>3. PICK e \in Event : /\ device[e.dev] = "on" /\ e.dev \in Devices
                         /\ Appends(e) \/ Supersedes(e) \/ Tosses
  BY <1>1, EnqueueEffect
<1>4. Queued \in Seq(Event)
  BY DEF IndInv, OnlyEvents
<1>5. OnlyEvents'
  <2>1. Queued' \in Seq(Event)
    BY <1>3, <1>4 DEF Appends, Supersedes, Tosses
  <2> QED
    BY <1>2, <2>1 DEF IndInv, OnlyEvents, main
<1>6. DrainInv'
  BY <1>2 DEF IndInv, DrainInv, main
<1>7. LastMotionIsLast'
  <2>1. CASE Appends(e)
    <3>1. Queued'[Len(Queued')] = e
      BY <1>4, <2>1 DEF Appends
    <3> QED
      BY <2>1, <3>1 DEF LastMotionIsLast, Appends, LastMotionAfter
  <2>2. CASE Supersedes(e)
    <3>1. Queued'[Len(Queued')] = e
      BY <1>4, <2>2 DEF Supersedes
    <3> QED
      BY <2>2, <3>1 DEF LastMotionIsLast, Supersedes, LastMotionAfter
  <2>3. CASE Tosses
    BY <2>3 DEF IndInv, LastMotionIsLast, Tosses
  <2> QED
    BY <1>3, <2>1, <2>2, <2>3
<1>8. DevicesOutliveTheirEvents'
  <2>1. \A i \in 1 .. Len(Queued') : device[Queued'[i].dev] # "freed"
    <3>1. \A i \in 1 .. Len(Queued) : device[Queued[i].dev] # "freed"
      BY DEF IndInv, DevicesOutliveTheirEvents
    <3>2. \A i \in 1 .. Len(Queued') : Queued'[i] = e \/ (i \in 1 .. Len(Queued) /\ Queued'[i] = Queued[i])
      <4>1. CASE Appends(e)
        BY <1>3, <1>4, <4>1 DEF Appends
      <4>2. CASE Supersedes(e)
        BY <1>4, <4>2 DEF Supersedes
      <4>3. CASE Tosses
        BY <1>4, <4>3 DEF Tosses
      <4> QED
        BY <1>3, <4>1, <4>2, <4>3
    <3> QED
      BY <1>3, <3>1, <3>2
  <2> QED
    BY <1>2, <2>1 DEF IndInv, DevicesOutliveTheirEvents, main
<1> QED
  BY <1>2, <1>5, <1>6, <1>7, <1>8 DEF IndInv, TypeOK

LEMMA DequeueKeeps ==
    ASSUME IndInv, Dequeue
    PROVE  IndInv'
<1>1. RingTypes /\ OnlyEvents
  BY DEF IndInv, TypeOK
<1>2. /\ RingTypes' /\ Queued # <<>> /\ Queued' = Tail(Queued)
      /\ current' = Queued[1] /\ current' \in Event
  BY <1>1, DequeueEffect
<1>3. /\ pc = "loop" /\ pc' = "process" /\ locked' = Holds(task)
      /\ UNCHANGED <<lastMotion, count, device, task>>
  BY DEF Dequeue
<1>4. Queued \in Seq(Event) /\ Len(Queued) > 0
  BY <1>1, <1>2 DEF OnlyEvents
<1>5. /\ Queued' \in Seq(Event) /\ Len(Queued') = Len(Queued) - 1
      /\ \A i \in 1 .. Len(Queued') : Queued'[i] = Queued[i + 1]
  BY <1>2, <1>4
<1>6. MainTypes'
  <2>1. current' \in Entry
    BY <1>2 DEF Entry
  <2>2. locked' \in BOOLEAN
    BY <1>3 DEF Holds
  <2> QED
    BY <1>3, <2>1, <2>2 DEF IndInv, TypeOK, MainTypes
<1>7. OnlyEvents'
  BY <1>2, <1>5 DEF OnlyEvents
<1>8. DrainInv'
  BY <1>3 DEF IndInv, DrainInv
<1>9. LastMotionIsLast'
  <2>1. Queued' # <<>> => Queued'[Len(Queued')] = Queued[Len(Queued)]
    BY <1>4, <1>5
  <2> QED
    BY <1>2, <1>3, <2>1 DEF IndInv, LastMotionIsLast
<1>10. DevicesOutliveTheirEvents'
  <2>1. \A i \in 1 .. Len(Queued) : device[Queued[i].dev] # "freed"
    BY DEF IndInv, DevicesOutliveTheirEvents
  <2>2. \A i \in 1 .. Len(Queued') : i + 1 \in 1 .. Len(Queued)
    BY <1>4, <1>5
  <2> QED
    BY <1>2, <1>3, <1>4, <1>5, <2>1, <2>2 DEF DevicesOutliveTheirEvents
<1> QED
  BY <1>2, <1>6, <1>7, <1>8, <1>9, <1>10 DEF IndInv, TypeOK

\* A step that leaves the ring alone leaves the waiting events alone.
LEMMA SameRing ==
    ASSUME UNCHANGED <<events, head, tail, nevents, lastMotion, lastEventTime>>
    PROVE  Queued' = Queued
  BY DEF Queued

LEMMA StartTaskKeeps ==
    ASSUME IndInv, NEW k \in {"process", "disable", "remove"},
           NEW d \in Devices \cup {NoDevice}, NEW n \in 1 .. 3,
           k # "process" => d \in Devices,
           StartTask([kind |-> k, dev |-> d, drains |-> n])
    PROVE  IndInv'
<1> DEFINE t == [kind |-> k, dev |-> d, drains |-> n]
<1>1. /\ t \in [kind : {"none", "process", "disable", "remove"},
                 dev : Devices \cup {NoDevice}, drains : 0 .. 3]
      /\ t.kind = k /\ t.dev = d /\ t.drains = n
  OBVIOUS
<1>2. /\ pc = "idle" /\ pc' = "between" /\ task' = t /\ locked' = (t.kind = "remove")
      /\ UNCHANGED <<ring, device, current>>
  BY DEF StartTask
<1> HIDE DEF t
<1>3. Queued' = Queued
  BY <1>2, SameRing DEF ring
<1>4. RingTypes'
  BY <1>2 DEF IndInv, TypeOK, RingTypes, ring
<1>5. MainTypes'
  <2>1. locked' \in BOOLEAN
    BY <1>2
  <2> QED
    BY <1>1, <1>2, <2>1 DEF IndInv, TypeOK, MainTypes, ring
<1>6. OnlyEvents' /\ LastMotionIsLast' /\ DevicesOutliveTheirEvents'
  BY <1>2, <1>3 DEF IndInv, OnlyEvents, LastMotionIsLast, DevicesOutliveTheirEvents, ring
<1>7. DrainInv'
  <2>1. task'.kind # "none" /\ task'.drains > 0 /\ (task'.kind # "process" => task'.dev \in Devices)
    BY <1>1, <1>2
  <2>2. task'.kind = "remove" => locked'
    BY <1>2
  <2> QED
    BY <1>2, <2>1, <2>2 DEF DrainInv
<1> QED
  BY <1>4, <1>5, <1>6, <1>7 DEF IndInv, TypeOK
LEMMA DrainsInRange ==
    ASSUME NEW d \in Devices
    PROVE  DrainsOfDisable(d) \in 1 .. 3 /\ DrainsBeforeRemoval(d) \in 1 .. 3
  BY DEF DrainsOfDisable, DrainsBeforeRemoval

LEMMA TasksKeep ==
    ASSUME IndInv, Process \/ \E d \in Devices : Remove(d) \/ Disable(d)
    PROVE  IndInv'
<1>1. CASE Process
  <2>1. StartTask([kind |-> "process", dev |-> NoDevice, drains |-> 1])
    BY <1>1 DEF Process
  <2>2. ASSUME NEW n \in 1 .. 3, StartTask([kind |-> "process", dev |-> NoDevice, drains |-> n])
        PROVE  IndInv'
    BY <2>2, StartTaskKeeps
  <2> QED
    BY <2>1, <2>2
<1>2. ASSUME NEW d \in Devices, Remove(d)
      PROVE  IndInv'
  BY <1>2, DrainsInRange, StartTaskKeeps DEF Remove
<1>3. ASSUME NEW d \in Devices, Disable(d)
      PROVE  IndInv'
  BY <1>3, DrainsInRange, StartTaskKeeps DEF Disable
<1> QED
  BY <1>1, <1>2, <1>3

LEMMA QueuedDevices ==
    ASSUME IndInv, NEW i \in 1 .. Len(Queued)
    PROVE  Queued[i].dev \in Devices
<1>1. Queued \in Seq(Event)
  BY DEF IndInv, OnlyEvents
<1>2. Queued[i] \in Event
  BY <1>1
<1> QED
  BY <1>2 DEF Event

LEMMA EnableKeeps ==
    ASSUME IndInv, NEW d \in Devices, Enable(d)
    PROVE  IndInv'
<1>1. /\ pc = "idle" /\ device' = [device EXCEPT ![d] = "on"] /\ UNCHANGED <<ring, main>>
  BY DEF Enable
<1>2. Queued' = Queued
  BY <1>1, SameRing DEF ring
<1>3. device' \in [Devices -> {"on", "off", "freed"}]
      /\ \A x : x \in Devices /\ device[x] # "freed" => device'[x] # "freed"
  BY <1>1 DEF IndInv, TypeOK, MainTypes
<1>4. TypeOK' /\ OnlyEvents' /\ DrainInv' /\ LastMotionIsLast'
  BY <1>1, <1>2, <1>3
     DEF IndInv, TypeOK, RingTypes, MainTypes, OnlyEvents, DrainInv, LastMotionIsLast, ring, main
<1>5. DevicesOutliveTheirEvents'
  <2>1. \A i \in 1 .. Len(Queued) : Queued[i].dev \in Devices
    BY QueuedDevices
  <2> QED
    BY <1>1, <1>2, <1>3, <2>1 DEF IndInv, DevicesOutliveTheirEvents, main
<1> QED
  BY <1>4, <1>5 DEF IndInv

LEMMA DrainKeeps ==
    ASSUME IndInv, Drain \/ Processed \/ Drained
    PROVE  IndInv'
<1>1. Queued' = Queued
  BY SameRing DEF Drain, Processed, Drained, ring
<1>2. UNCHANGED <<events, head, tail, nevents, lastMotion, lastEventTime, count, device>>
  BY DEF Drain, Processed, Drained, ring
<1>3. task \in [kind : {"none", "process", "disable", "remove"},
                dev : Devices \cup {NoDevice}, drains : 0 .. 3]
  BY DEF IndInv, TypeOK, MainTypes
<1>4. CASE Drain
  BY <1>1, <1>2, <1>4
     DEF Drain, IndInv, TypeOK, RingTypes, MainTypes, OnlyEvents, DrainInv, LastMotionIsLast,
         DevicesOutliveTheirEvents
<1>5. CASE Processed
  BY <1>1, <1>2, <1>5
     DEF Processed, IndInv, TypeOK, RingTypes, MainTypes, OnlyEvents, DrainInv, LastMotionIsLast,
         DevicesOutliveTheirEvents, ring, Entry
<1>6. CASE Drained
  <2>1. /\ pc = "loop" /\ head = tail /\ pc' = "between"
        /\ task' = [task EXCEPT !.drains = @ - 1] /\ locked' = (task.kind = "remove")
        /\ UNCHANGED <<ring, device, current>>
    BY <1>6 DEF Drained, Done
  <2>2. task.drains \in 1 .. 3
    BY <1>3, <2>1 DEF IndInv, DrainInv
  <2>3. /\ task' \in [kind : {"none", "process", "disable", "remove"},
                     dev : Devices \cup {NoDevice}, drains : 0 .. 3]
        /\ task'.kind = task.kind /\ task'.dev = task.dev
    BY <1>3, <2>1, <2>2
  <2>4. locked' \in BOOLEAN
    BY <2>1
  <2>5. TypeOK'
    BY <1>2, <2>1, <2>3, <2>4 DEF IndInv, TypeOK, RingTypes, MainTypes, ring
  <2>6. OnlyEvents' /\ LastMotionIsLast' /\ DevicesOutliveTheirEvents'
    BY <1>1, <1>2, <2>1
       DEF IndInv, OnlyEvents, LastMotionIsLast, DevicesOutliveTheirEvents
  <2>7. DrainInv'
    <3>1. task'.kind = "remove" => locked'
      BY <2>1, <2>3
    <3>2. head' = tail'
      BY <1>2, <2>1
    <3> QED
      BY <2>1, <2>3, <3>1, <3>2 DEF IndInv, DrainInv
  <2> QED
    BY <2>5, <2>6, <2>7 DEF IndInv
<1> QED
  BY <1>4, <1>5, <1>6

LEMMA FinishKeeps ==
    ASSUME IndInv, Finish
    PROVE  IndInv'
<1>1. /\ pc = "between" /\ task.drains = 0 /\ pc' = "idle" /\ task' = NoTask /\ locked' = FALSE
      /\ UNCHANGED <<ring, current>>
  BY DEF Finish
<1>2. Queued' = Queued
  BY <1>1, SameRing DEF ring
<1>3. /\ device' \in [Devices -> {"on", "off", "freed"}]
      /\ task.kind # "remove" => \A x \in Devices : device[x] # "freed" => device'[x] # "freed"
  <2>1. device \in [Devices -> {"on", "off", "freed"}]
    BY DEF IndInv, TypeOK, MainTypes
  <2>2. CASE task.kind = "disable"
    BY <2>1, <2>2 DEF Finish
  <2>3. CASE task.kind = "remove"
    BY <2>1, <2>3 DEF Finish
  <2>4. CASE task.kind \notin {"disable", "remove"}
    BY <2>1, <2>4 DEF Finish
  <2> QED
    BY <2>2, <2>3, <2>4
<1>4. TypeOK'
  <2>1. NoTask \in [kind : {"none", "process", "disable", "remove"},
                   dev : Devices \cup {NoDevice}, drains : 0 .. 3]
    BY DEF NoTask
  <2> QED
    BY <1>1, <1>3, <2>1 DEF IndInv, TypeOK, RingTypes, MainTypes, ring
<1>5. OnlyEvents' /\ LastMotionIsLast' /\ DrainInv'
  BY <1>1, <1>2 DEF IndInv, OnlyEvents, LastMotionIsLast, DrainInv, ring, NoTask
<1>6. DevicesOutliveTheirEvents'
  <2>1. CASE task.kind = "remove"
    <3>1. Len(Queued) = 0
      <4>1. head = tail
        BY <1>1, <2>1 DEF IndInv, DrainInv
      <4> QED
        BY <4>1, RingFacts DEF IndInv, TypeOK
    <3> QED
      BY <1>1, <1>2, <3>1 DEF DevicesOutliveTheirEvents
  <2>2. CASE task.kind # "remove"
    <3>1. \A i \in 1 .. Len(Queued) : Queued[i].dev \in Devices
      BY QueuedDevices
    <3> QED
      BY <1>1, <1>2, <1>3, <2>2, <3>1 DEF IndInv, DevicesOutliveTheirEvents
  <2> QED
    BY <2>1, <2>2
<1> QED
  BY <1>4, <1>5, <1>6 DEF IndInv

LEMMA EmptyQueue ==
    ASSUME Init
    PROVE  RingTypes /\ Queued = <<>> /\ count = 0
<1>1. Initial \in Nat /\ Initial > 1
  BY SizesAssumption
<1>2. RingTypes
  BY <1>1, SizesAssumption DEF Init, RingTypes, Entry
<1>3. Len(Queued) = 0 /\ Queued \in Seq(Entry)
  BY <1>2, RingFacts DEF Init
<1> QED
  BY <1>2, <1>3 DEF Init

LEMMA InitHolds ==
    ASSUME Init
    PROVE  IndInv
<1>1. RingTypes /\ Queued = <<>>
  BY EmptyQueue
<1>2. MainTypes
  <2>1. NoTask \in [kind : {"none", "process", "disable", "remove"},
                   dev : Devices \cup {NoDevice}, drains : 0 .. 3]
    BY DEF NoTask
  <2>2. 0 \in 0 .. MaxEvents
    BY EventsAssumption
  <2> QED
    BY <2>1, <2>2 DEF Init, MainTypes, Entry
<1>3. OnlyEvents /\ LastMotionIsLast /\ DevicesOutliveTheirEvents /\ DrainInv
  BY <1>1 DEF Init, OnlyEvents, LastMotionIsLast, DevicesOutliveTheirEvents, DrainInv, NoTask
<1> QED
  BY <1>1, <1>2, <1>3 DEF IndInv, TypeOK

LEMMA Stutter ==
    ASSUME IndInv, UNCHANGED vars
    PROVE  IndInv'
<1>1. Queued' = Queued
  BY SameRing DEF vars, ring
<1> QED
  BY <1>1 DEF IndInv, TypeOK, RingTypes, MainTypes, OnlyEvents, DrainInv, LastMotionIsLast,
              DevicesOutliveTheirEvents, vars, ring, main

\* In every reachable state of the event queue, for any number of devices and
\* any array sizes, the types, the merge slot and the devices of queued events
\* are as mieqEnqueue and mieqProcessInputEvents need them.
THEOREM IndInvHolds == Spec => []IndInv
<1>1. Init => IndInv
  BY InitHolds
<1>2. IndInv /\ [Next]_vars => IndInv'
  <2> SUFFICES ASSUME IndInv, [Next]_vars
               PROVE  IndInv'
    OBVIOUS
  <2>1. CASE Enqueue
    BY <2>1, EnqueueKeeps
  <2>2. CASE Process \/ \E d \in Devices : Remove(d) \/ Disable(d)
    BY <2>2, TasksKeep
  <2>3. ASSUME NEW d \in Devices, Enable(d)
        PROVE  IndInv'
    BY <2>3, EnableKeeps
  <2>4. CASE Dequeue
    BY <2>4, DequeueKeeps
  <2>5. CASE Drain \/ Processed \/ Drained
    BY <2>5, DrainKeeps
  <2>6. CASE Finish
    BY <2>6, FinishKeeps
  <2>7. CASE UNCHANGED vars
    BY <2>7, Stutter
  <2> QED
    BY <2>1, <2>2, <2>3, <2>4, <2>5, <2>6, <2>7 DEF Next, MainStep
<1> QED
  BY <1>1, <1>2, PTL DEF Spec

\* Head, tail and every entry stay inside the array and typed.
THEOREM TypeCorrect == Spec => []TypeOK
<1>1. IndInv => TypeOK
  BY DEF IndInv
<1> QED
  BY <1>1, IndInvHolds, PTL

\* A motion is only ever merged into a motion of its own device, the last event.
THEOREM LastMotionStaysLast == Spec => []LastMotionIsLast
<1>1. IndInv => LastMotionIsLast
  BY DEF IndInv
<1> QED
  BY <1>1, IndInvHolds, PTL

\* mieqProcessDeviceEvent is never given an event of a device that
\* remove_device has freed.
THEOREM DevicesAlwaysOutlive == Spec => []DevicesOutliveTheirEvents
<1>1. IndInv => DevicesOutliveTheirEvents
  BY DEF IndInv
<1> QED
  BY <1>1, IndInvHolds, PTL

-----------------------------------------------------------------------------
(* The ring implements the FIFO.                                           *)

LEMMA EnqueueRefines ==
    ASSUME IndInv, Enqueue
    PROVE  Fifo!FifoNext
<1>1. RingTypes /\ MainTypes
  BY DEF IndInv, TypeOK
<1>2. count' = count + 1
  BY <1>1, EnqueueEffect
<1>3. PICK e \in Event : /\ device[e.dev] = "on" /\ e.dev \in Devices
                         /\ Appends(e) \/ Supersedes(e) \/ Tosses
  BY <1>1, EnqueueEffect
<1>4. CASE Appends(e)
  <2>1. Fifo!Put(e)
    BY <1>2, <1>4 DEF Appends, Fifo!Put
  <2> QED
    BY <2>1 DEF Fifo!FifoNext
<1>5. CASE Supersedes(e)
  <2>1. Queued[Len(Queued)].type = "Motion" /\ Queued[Len(Queued)].dev = e.dev
    BY <1>3, <1>5, DevicesAssumption DEF IndInv, LastMotionIsLast, Supersedes
  <2>2. Fifo!Supersede(e)
    BY <1>2, <1>5, <2>1 DEF Supersedes, Fifo!Supersede
  <2> QED
    BY <2>2 DEF Fifo!FifoNext
<1>6. CASE Tosses
  <2>1. Fifo!Toss
    BY <1>2, <1>6 DEF Tosses, Fifo!Toss
  <2> QED
    BY <2>1 DEF Fifo!FifoNext
<1> QED
  BY <1>3, <1>4, <1>5, <1>6

LEMMA DequeueRefines ==
    ASSUME IndInv, Dequeue
    PROVE  Fifo!FifoNext
<1>1. Queued # <<>> /\ Queued' = Tail(Queued)
  BY DequeueEffect DEF IndInv, TypeOK
<1>2. Fifo!Take
  BY <1>1 DEF Fifo!Take, Dequeue
<1> QED
  BY <1>2 DEF Fifo!FifoNext

LEMMA OthersStutter ==
    ASSUME [Next]_vars, ~Enqueue, ~Dequeue
    PROVE  UNCHANGED <<Queued, count>>
<1>1. UNCHANGED <<events, head, tail, nevents, lastMotion, lastEventTime, count>>
  BY DEF Next, MainStep, Process, Remove, Disable, Enable, StartTask, Drain, Processed, Drained,
         Finish, vars, ring
<1> QED
  BY <1>1, SameRing

\* mieqEnqueue, mieqGrowQueue and mieqProcessInputEvents implement a FIFO:
\* wrapping, doubling and merging never reorder, repeat or lose an event, but
\* for motions superseded and for events tossed from a full queue.
THEOREM RingImplementsFifo == Spec => RingIsFifo
<1>1. Init => Fifo!FifoInit
  BY EmptyQueue DEF Fifo!FifoInit
<1>2. IndInv /\ [Next]_vars => [Fifo!FifoNext]_<<Queued, count>>
  BY EnqueueRefines, DequeueRefines, OthersStutter
<1> QED
  BY <1>1, <1>2, IndInvHolds, PTL DEF Spec, RingIsFifo, Fifo!FifoSpec
=============================================================================
