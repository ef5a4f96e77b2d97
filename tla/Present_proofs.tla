--------------------------- MODULE Present_proofs ---------------------------
(***************************************************************************)
(* Proofs about Present: the frame a request is presented in, and the      *)
(* inductive invariant of PresentProps.                                    *)
(*                                                                         *)
(* A call is a composition of small steps (With, Requeued, Restored, ...), *)
(* and may call itself back.  Of each operator, from the small steps up to *)
(* present_execute and present_flip_notify, a lemma says that it takes     *)
(* states that are Mid, with some requests in hand, to such states with    *)
(* what it deals with no longer in hand; an action begins and ends with    *)
(* none in hand.                                                           *)
(***************************************************************************)
EXTENDS PresentProps, TLAPS

LEMMA Division ==
    ASSUME NEW n \in Nat, n > 0, NEW x \in Nat
    PROVE  /\ x = n * (x \div n) + (x % n)
           /\ x % n \in 0 .. n - 1
           /\ (x \div n) \in Nat
  BY Z3

\* Two frames of one field are a whole number of periods apart, so less than a
\* period apart only if they are the same.
LEMMA OneInAPeriod ==
    ASSUME NEW n \in Nat, n > 0, NEW x \in Nat, NEW y \in Nat,
           x % n = y % n, x < y
    PROVE  x + n <= y
<1> DEFINE p == x \div n
           q == y \div n
<1>1. /\ x = n * p + (x % n) /\ y = n * q + (x % n)
      /\ x % n \in 0 .. n - 1 /\ p \in Nat /\ q \in Nat
  BY Division
<1> HIDE DEF p, q
<1>2. q > p
  <2>1. SUFFICES ASSUME q <= p PROVE FALSE
    BY <1>1
  <2>2. PICK k \in Nat : p = q + k
    BY <1>1, <2>1
  <2>3. n * p = n * q + n * k /\ n * k >= 0
    BY <1>1, <2>2
  <2> QED
    BY <1>1, <2>3
<1>3. PICK k \in Nat : q = p + 1 + k
  BY <1>1, <1>2
<1>4. n * q = n * p + n + n * k /\ n * k >= 0
  BY <1>1, <1>3
<1> QED
  BY <1>1, <1>4

\* The remainder of a frame is its place in its period.
LEMMA SameField ==
    ASSUME NEW n \in Nat, n > 0, NEW q \in Nat, NEW r \in 0 .. n - 1
    PROVE  (n * q + r) % n = r
<1> DEFINE x == n * q + r
           s == x % n
           d == x \div n
<1>1. x \in Nat
  <2>1. n * q \in Nat
    BY Z3
  <2> QED
    BY <2>1
<1>2. x = n * d + s /\ s \in 0 .. n - 1 /\ d \in Nat
  BY <1>1, Division
<1>3. n * q + r = n * d + s
  BY <1>2
<1> HIDE DEF s, d
<1>4. CASE q < d
  <2>1. PICK k \in Nat : d = q + 1 + k
    BY <1>2, <1>4
  <2>2. n * d = n * q + n + n * k /\ n * k >= 0
    BY <2>1
  <2> QED
    BY <1>2, <1>3, <2>2
<1>5. CASE d < q
  <2>1. PICK k \in Nat : q = d + 1 + k
    BY <1>2, <1>5
  <2>2. n * q = n * d + n + n * k /\ n * k >= 0
    BY <1>2, <2>1
  <2> QED
    BY <1>2, <1>3, <2>2
<1>6. CASE d = q
  BY <1>2, <1>3, <1>6 DEF s
<1> QED
  BY <1>2, <1>4, <1>5, <1>6

-----------------------------------------------------------------------------

\* u is a frame of the field asked for, and still to come or, if tearing is
\* allowed, this one.
Fits(u, now, divisor, remainder, async) ==
    /\ u > now \/ (async /\ u = now)
    /\ divisor = 0 \/ u % divisor = remainder

\* present_get_target_msc (present.d:163): a frame that is to come is the one
\* that was asked for; otherwise the request waits for the first frame of its
\* field, whatever the divisor and the remainder that proc_present_pixmap_common
\* lets through (remainder < divisor, or both 0).
THEOREM TargetIsNextField ==
    ASSUME NEW arg \in Nat, NEW now \in Nat, NEW divisor \in Nat, NEW async \in BOOLEAN,
           NEW remainder \in 0 .. IF divisor = 0 THEN 0 ELSE divisor - 1
    PROVE  LET t == TargetMSC(arg, now, divisor, remainder, async)
           IN  IF arg > now THEN t = arg
               ELSE /\ t \in Nat
                    /\ Fits(t, now, divisor, remainder, async)
                    /\ \A u \in Nat : Fits(u, now, divisor, remainder, async) => t <= u
<1> DEFINE t == TargetMSC(arg, now, divisor, remainder, async)
           field == (now - (now % divisor)) + remainder
<1>1. CASE arg > now
  BY <1>1 DEF TargetMSC
<1>2. CASE arg <= now /\ divisor = 0
  <2>1. t = IF async THEN now ELSE now + 1
    BY <1>2 DEF TargetMSC
  <2> HIDE DEF t
  <2>2. t \in Nat /\ (\A u \in Nat : Fits(u, now, divisor, remainder, async) => t <= u)
    BY <2>1 DEF Fits
  <2>3. Fits(t, now, divisor, remainder, async)
    BY <1>2, <2>1 DEF Fits
  <2> QED
    BY <1>2, <2>2, <2>3 DEF t
<1>3. CASE arg <= now /\ divisor > 0
  <2> DEFINE q == now \div divisor
  <2>1. now = divisor * q + (now % divisor) /\ now % divisor \in 0 .. divisor - 1 /\ q \in Nat
    BY <1>3, Division
  <2>2. field = divisor * q + remainder /\ field \in Nat /\ remainder \in 0 .. divisor - 1
    <3>1. divisor * q \in Nat
      BY <2>1, Z3
    <3> QED
      BY <1>3, <2>1, <3>1
  <2>3. field + divisor = divisor * (q + 1) + remainder
    BY <2>1, <2>2
  <2>4. field % divisor = remainder /\ (field + divisor) % divisor = remainder
    <3>1. q + 1 \in Nat /\ divisor > 0
      BY <1>3, <2>1
    <3>2. (divisor * q + remainder) % divisor = remainder
      BY <2>1, <2>2, <3>1, SameField
    <3>3. (divisor * (q + 1) + remainder) % divisor = remainder
      BY <2>2, <3>1, SameField
    <3> QED
      BY <2>2, <2>3, <3>2, <3>3
  <2>5. t = IF field > now \/ (async /\ field = now) THEN field ELSE field + divisor
    BY <1>3 DEF TargetMSC
  <2>6. field + divisor > now /\ field - divisor < now
    BY <2>1, <2>2
  <2> HIDE DEF q, field, t
  <2>7. t \in Nat /\ Fits(t, now, divisor, remainder, async)
    BY <1>3, <2>2, <2>4, <2>5, <2>6 DEF Fits
  <2>8. ASSUME NEW u \in Nat, Fits(u, now, divisor, remainder, async), u < t
        PROVE  FALSE
    <3>1. u % divisor = remainder /\ (u > now \/ (async /\ u = now))
      BY <1>3, <2>8 DEF Fits
    <3>2. t % divisor = remainder
      BY <2>4, <2>5
    <3>3. u + divisor <= t
      BY <1>3, <2>7, <2>8, <3>1, <3>2, OneInAPeriod
    <3> QED
      BY <2>2, <2>5, <2>6, <3>1, <3>3
  <2>9. \A u \in Nat : Fits(u, now, divisor, remainder, async) => t <= u
    BY <2>7, <2>8
  <2> QED
    BY <1>3, <2>7, <2>9 DEF t
<1> QED
  BY <1>1, <1>2, <1>3

-----------------------------------------------------------------------------
(* Requests and screens.                                                   *)

LEMMA Names ==
    /\ Root \notin Windows /\ None \notin Windows /\ None \notin Fences /\ None \notin Ids
    /\ Screen \notin Ids /\ Screen # None /\ None # Root
    /\ Ids \subseteq Nat /\ MSCs \subseteq Nat /\ 0 \in MSCs
  BY PresentNames, ShapesAssumption DEF Ids, MSCs

LEMMA NoVblankTyped == NoVblank \in Vblank /\ NoVblank.window = None /\ NoVblank.at = "none"
  BY Names DEF NoVblank, Vblank, MSCs

\* The state after one request becomes b.
With(s, v, b) == [s EXCEPT !.vb[v] = b]

LEMMA WithFields ==
    ASSUME NEW s, Typed(s), NEW v \in Ids, NEW b
    PROVE  LET t == With(s, v, b)
           IN  /\ t.vb = [s.vb EXCEPT ![v] = b] /\ t.vb[v] = b
               /\ \A u \in Ids \ {v} : t.vb[u] = s.vb[u]
               /\ t.queue = s.queue /\ t.pending = s.pending /\ t.unflip = s.unflip
               /\ t.cur = s.cur /\ t.pix = s.pix /\ t.due = s.due /\ t.flips = s.flips
               /\ t.missed = s.missed
               /\ t = [vb |-> t.vb, queue |-> t.queue, pending |-> t.pending,
                       unflip |-> t.unflip, cur |-> t.cur, pix |-> t.pix, due |-> t.due,
                       flips |-> t.flips, missed |-> t.missed]
  BY DEF With, Typed

LEMMA WithTyped ==
    ASSUME NEW s, Typed(s), NEW v \in Ids, NEW b \in Vblank, b.window \in Living(s) \cup {None}
    PROVE  Typed(With(s, v, b))
<1> DEFINE t == With(s, v, b)
<1>1. /\ t.vb = [s.vb EXCEPT ![v] = b] /\ t.vb[v] = b
      /\ \A u \in Ids \ {v} : t.vb[u] = s.vb[u]
      /\ t.queue = s.queue /\ t.pending = s.pending /\ t.unflip = s.unflip
      /\ t.cur = s.cur /\ t.pix = s.pix /\ t.due = s.due /\ t.flips = s.flips
      /\ t.missed = s.missed
      /\ t = [vb |-> t.vb, queue |-> t.queue, pending |-> t.pending,
              unflip |-> t.unflip, cur |-> t.cur, pix |-> t.pix, due |-> t.due,
              flips |-> t.flips, missed |-> t.missed]
  BY WithFields
<1> HIDE DEF t
<1>2. t.vb \in [Ids -> Vblank] /\ Living(t) = Living(s)
  BY <1>1 DEF Typed, Living
<1>3. \A u \in Ids : t.vb[u].window \in Living(s) \cup {None}
  BY <1>1 DEF Typed
<1>4. Typed(t)
  BY <1>1, <1>2, <1>3 DEF Typed
<1> QED
  BY <1>4 DEF t

\* What one request becomes concerns the rest of the screen little.
LEMMA WithMid ==
    ASSUME NEW s, NEW H, NEW y, NEW C, Mid(s, H, y, C),
           NEW G, NEW v \in Ids, H \ {v} \subseteq G, y \in G \cup {None},
           NEW b \in Vblank, b.window \in Living(s) \cup {None},
           b.at = "flip" <=> s.vb[v].at = "flip",
           b.abort => s.vb[v].abort \/ s.pix[Root] = Screen,
           Request(b, v, s.pending, s.cur.pixmap, s.due, G, y, C)
    PROVE  Mid(With(s, v, b), G, y, C)
<1> DEFINE t == With(s, v, b)
<1>0. Typed(s)
  BY DEF Mid
<1>1. /\ t.vb = [s.vb EXCEPT ![v] = b] /\ t.vb[v] = b
      /\ \A u \in Ids \ {v} : t.vb[u] = s.vb[u]
      /\ t.queue = s.queue /\ t.pending = s.pending /\ t.unflip = s.unflip
      /\ t.cur = s.cur /\ t.pix = s.pix /\ t.due = s.due
  BY <1>0, WithFields
<1>2. Typed(t)
  BY <1>0, WithTyped
<1> HIDE DEF t
<1>3. InOrder(t)
  <2>1. \A u \in Ids : t.vb[u].at = "flip" <=> s.vb[u].at = "flip"
    BY <1>1
  <2> QED
    BY <1>1, <2>1 DEF Mid, InOrder
<1>4. OneWay(t)
  BY <1>1 DEF Mid, OneWay
<1>5. Drawn(t)
  <2>1. CASE s.pix[Root] = Screen
    BY <1>1, <2>1 DEF Mid, Drawn
  <2>2. CASE s.pix[Root] # Screen
    <3>1. s.pending # None => s.pending \in Ids
      BY <1>0 DEF Typed
    <3>2. s.pending # None => (t.vb[s.pending].abort => s.vb[s.pending].abort)
      BY <1>1, <2>2, <3>1
    <3> QED
      BY <1>1, <2>2, <3>2 DEF Mid, Drawn
  <2> QED
    BY <2>1, <2>2
<1>6. ASSUME NEW u \in Ids
      PROVE  Request(t.vb[u], u, t.pending, t.cur.pixmap, t.due, G, y, C)
  <2>1. CASE u = v
    BY <1>1, <2>1
  <2>2. CASE u # v
    <3>1. Request(s.vb[u], u, s.pending, s.cur.pixmap, s.due, H, y, C)
      BY DEF Mid
    <3>2. u \notin G => u \notin H
      BY <2>2
    <3> QED
      BY <1>1, <2>2, <3>1, <3>2 DEF Request
  <2> QED
    BY <2>1, <2>2
<1>7. Mid(t, G, y, C)
  BY <1>2, <1>3, <1>4, <1>5, <1>6 DEF Mid
<1> QED
  BY <1>7 DEF t

-----------------------------------------------------------------------------
(* The flip queue.                                                         *)

LEMMA WithoutQueue ==
    ASSUME NEW q, IsQueue(q), NEW T
    PROVE  /\ DOMAIN Without(q, T) = DOMAIN q \ T /\ IsQueue(Without(q, T))
           /\ DOMAIN q \cap T = {} => \A v \in DOMAIN q : Without(q, T)[v] = q[v]
<1> DEFINE p == Without(q, T)
<1>1. DOMAIN p = DOMAIN q \ T /\ \A v \in DOMAIN q \ T : p[v] = q[v] \ T
  BY DEF Without
<1> HIDE DEF p
<1>2. ASSUME NEW u \in DOMAIN p, NEW v \in DOMAIN p
      PROVE  /\ p[v] \subseteq DOMAIN p \ {v}
             /\ u = v \/ (u \in p[v] /\ p[u] \subseteq p[v])
                      \/ (v \in p[u] /\ p[v] \subseteq p[u])
  BY <1>1 DEF IsQueue
<1>3. IsQueue(p)
  BY <1>2 DEF IsQueue
<1>4. ASSUME DOMAIN q \cap T = {}, NEW v \in DOMAIN q
      PROVE  p[v] = q[v]
  <2>1. q[v] \subseteq DOMAIN q
    BY DEF IsQueue
  <2> QED
    BY <1>1, <1>4, <2>1
<1> QED
  BY <1>1, <1>3, <1>4 DEF p

LEMMA AppendedQueue ==
    ASSUME NEW q, IsQueue(q), NEW v
    PROVE  DOMAIN Appended(q, v) = DOMAIN q \cup {v} /\ IsQueue(Appended(q, v))
<1> DEFINE p == Appended(q, v)
<1>1. /\ DOMAIN p = DOMAIN q \cup {v} /\ p[v] = DOMAIN q \ {v}
      /\ \A u \in DOMAIN q \ {v} : p[u] = q[u] \ {v}
  BY DEF Appended
<1> HIDE DEF p
<1>2. ASSUME NEW u \in DOMAIN p, NEW w \in DOMAIN p
      PROVE  /\ p[w] \subseteq DOMAIN p \ {w}
             /\ u = w \/ (u \in p[w] /\ p[u] \subseteq p[w])
                      \/ (w \in p[u] /\ p[w] \subseteq p[u])
  <2>1. p[w] \subseteq DOMAIN p \ {w}
    BY <1>1 DEF IsQueue
  <2>2. CASE u = v /\ w # v
    <3>1. q[w] \subseteq DOMAIN q \ {w}
      BY <1>1, <2>2 DEF IsQueue
    <3> QED
      BY <1>1, <2>1, <2>2, <3>1
  <2>3. CASE u # v /\ w = v
    <3>1. q[u] \subseteq DOMAIN q \ {u}
      BY <1>1, <2>3 DEF IsQueue
    <3> QED
      BY <1>1, <2>1, <2>3, <3>1
  <2>4. CASE u # v /\ w # v
    <3>1. u = w \/ (u \in q[w] /\ q[u] \subseteq q[w]) \/ (w \in q[u] /\ q[w] \subseteq q[u])
      BY <1>1, <2>4 DEF IsQueue
    <3> QED
      BY <1>1, <2>1, <2>4, <3>1
  <2> QED
    BY <2>1, <2>2, <2>3, <2>4
<1>3. IsQueue(p)
  BY <1>2 DEF IsQueue
<1> QED
  BY <1>1, <1>3 DEF p

-----------------------------------------------------------------------------
(* The small steps of a call.                                              *)

\* What a call leaves alone but for request v.
Kept(s, t, v) ==
    /\ DOMAIN t.pix = DOMAIN s.pix /\ t.missed = s.missed
    /\ \A u \in Ids \ {v} : s.vb[u].at = "none" => t.vb[u].at = "none"

LEMMA WithKept ==
    ASSUME NEW s, Typed(s), NEW v \in Ids, NEW b
    PROVE  Kept(s, With(s, v, b), v) /\ \A D : Shown(s, D) => Shown(With(s, v, b), D)
<1> DEFINE t == With(s, v, b)
<1>1. /\ t.vb = [s.vb EXCEPT ![v] = b] /\ t.vb[v] = b
      /\ \A u \in Ids \ {v} : t.vb[u] = s.vb[u]
      /\ t.pending = s.pending /\ t.unflip = s.unflip
      /\ t.cur = s.cur /\ t.pix = s.pix /\ t.missed = s.missed
  BY WithFields
<1> HIDE DEF t
<1>2. Kept(s, t, v) /\ \A D : Shown(s, D) => Shown(t, D)
  BY <1>1 DEF Kept, Shown
<1> QED
  BY <1>2 DEF t

LEMMA OneReported ==
    ASSUME NEW s, NEW H, NEW y, NEW C, Mid(s, H, y, C)
    PROVE  /\ y \in H \cup {None}
           /\ \A v \in Ids : s.vb[v].at # "none" => v # y /\ y \in (H \ {v}) \cup {None}
  BY DEF Mid, Request, Lives

LEMMA MoreInHand ==
    ASSUME NEW s, NEW H, NEW y, NEW C, Mid(s, H, y, C), NEW G, H \subseteq G
    PROVE  Mid(s, G, y, C)
<1>1. ASSUME NEW v \in Ids
      PROVE  Request(s.vb[v], v, s.pending, s.cur.pixmap, s.due, G, y, C)
  BY DEF Mid, Request
<1> QED
  BY <1>1 DEF Mid

\* What is to be executed in the next frame is so in a frame there is.
LEMMA AheadIsAFrame ==
    ASSUME NEW s, Typed(s), NEW v \in Ids, NEW now \in Nat, s.vb[v].exec = now + 1
    PROVE  s.vb[v].exec \in MSCs
<1>1. s.vb[v].exec \in MSCs \cup {-1}
  BY DEF Typed, Vblank
<1> QED
  BY <1>1

LEMMA OwedFields ==
    ASSUME NEW s, Typed(s), NEW v \in Ids
    PROVE  LET t == QueueVblank(s, v)
           IN  /\ t.vb = s.vb /\ t.queue = s.queue /\ t.pending = s.pending
               /\ t.unflip = s.unflip /\ t.cur = s.cur /\ t.pix = s.pix
               /\ t.due = s.due \cup {[id |-> v, msc |-> s.vb[v].exec]}
               /\ t.flips = s.flips /\ t.missed = s.missed
               /\ t = [vb |-> t.vb, queue |-> t.queue, pending |-> t.pending,
                       unflip |-> t.unflip, cur |-> t.cur, pix |-> t.pix, due |-> t.due,
                       flips |-> t.flips, missed |-> t.missed]
<1> DEFINE E == s.due \cup {[id |-> v, msc |-> s.vb[v].exec]}
<1>1. QueueVblank(s, v) = [s EXCEPT !.due = E]
  BY DEF QueueVblank
<1> HIDE DEF E
<1> QED
  BY <1>1 DEF Typed, E

\* The driver owes v an event: it waits for that, if it is not out of its queue.
LEMMA OwedMid ==
    ASSUME NEW s, NEW H, NEW y, NEW C, Mid(s, H, y, C), NEW v \in Ids, s.vb[v].exec \in MSCs
    PROVE  LET t == QueueVblank(s, v)
           IN  /\ Mid(t, H, y, C) /\ \A D : Shown(s, D) => Shown(t, D)
               /\ s.vb[v].at # "none" => Mid(t, H \ {v}, y, C)
               /\ Kept(s, t, v)
<1> DEFINE t == QueueVblank(s, v)
           e == [id |-> v, msc |-> s.vb[v].exec]
<1>0. Typed(s)
  BY DEF Mid
<1>1. /\ t.vb = s.vb /\ t.queue = s.queue /\ t.pending = s.pending
      /\ t.unflip = s.unflip /\ t.cur = s.cur /\ t.pix = s.pix
      /\ t.due = s.due \cup {e}
      /\ t.flips = s.flips /\ t.missed = s.missed
      /\ t = [vb |-> t.vb, queue |-> t.queue, pending |-> t.pending,
              unflip |-> t.unflip, cur |-> t.cur, pix |-> t.pix, due |-> t.due,
              flips |-> t.flips, missed |-> t.missed]
  BY <1>0, OwedFields
<1>2. e \in [id : Ids, msc : MSCs] /\ e.id = v
  OBVIOUS
<1> HIDE DEF t, e
<1>3. Typed(t)
  BY <1>0, <1>1, <1>2 DEF Typed, Living
<1>4. InOrder(t) /\ OneWay(t) /\ Drawn(t)
  BY <1>1 DEF Mid, InOrder, OneWay, Drawn
<1>5. ASSUME NEW u \in Ids
      PROVE  /\ Request(t.vb[u], u, t.pending, t.cur.pixmap, t.due, H, y, C)
             /\ s.vb[v].at # "none" =>
                   Request(t.vb[u], u, t.pending, t.cur.pixmap, t.due, H \ {v}, y, C)
  <2>1. Request(s.vb[u], u, s.pending, s.cur.pixmap, s.due, H, y, C)
    BY DEF Mid
  <2>2. Awaited(s.vb[u], u, s.due) \/ u = v => Awaited(t.vb[u], u, t.due)
    BY <1>1, <1>2 DEF Awaited
  <2> QED
    BY <1>1, <2>1, <2>2 DEF Request
<1>6. Mid(t, H, y, C) /\ (s.vb[v].at # "none" => Mid(t, H \ {v}, y, C))
  <2>1. /\ y \in H \cup {None}
        /\ s.vb[v].at # "none" => y \in (H \ {v}) \cup {None}
    BY OneReported
  <2> QED
    BY <1>3, <1>4, <1>5, <2>1 DEF Mid
<1>7. Kept(s, t, v) /\ \A D : Shown(s, D) => Shown(t, D)
  BY <1>1 DEF Kept, Shown
<1> QED
  BY <1>6, <1>7 DEF t

LEMMA RefusedMid ==
    ASSUME NEW s, NEW H, NEW y, NEW C, Mid(s, H, y, C), NEW v \in Ids, v \in H
    PROVE  LET t == Refused(s, v)
           IN  /\ t = With(s, v, [s.vb[v] EXCEPT !.refused = TRUE])
               /\ Mid(t, H, y, C) /\ \A D : Shown(s, D) => Shown(t, D)
               /\ Kept(s, t, v)
<1> DEFINE r == s.vb[v]
           b == [r EXCEPT !.refused = TRUE]
<1>0. Typed(s) /\ r \in Vblank /\ r.window \in Living(s) \cup {None}
  BY DEF Mid, Typed
<1>1. /\ b \in Vblank /\ b.window = r.window /\ b.at = r.at /\ b.abort = r.abort
      /\ b.flip = r.flip /\ b.pixmap = r.pixmap /\ b.idled = r.idled
      /\ b.completed = r.completed /\ b.mode = r.mode
  BY <1>0 DEF Vblank
<1>2. Refused(s, v) = With(s, v, b)
  BY DEF Refused, With
<1> HIDE DEF b
<1>3. Request(b, v, s.pending, s.cur.pixmap, s.due, H, y, C)
  <2>1. Request(r, v, s.pending, s.cur.pixmap, s.due, H, y, C)
    BY DEF Mid
  <2> QED
    BY <1>1, <2>1 DEF Request, Lives, Covered
<1>4. Mid(With(s, v, b), H, y, C)
  <2>1. y \in H \cup {None}
    BY OneReported
  <2> QED
    BY <1>0, <1>1, <1>3, <2>1, WithMid
<1> QED
  BY <1>0, <1>2, <1>4, WithKept DEF b

\* t differs from s in the flip queue and in requests of T.
Changed(s, t, T) ==
    /\ t = [vb |-> t.vb, queue |-> t.queue, pending |-> t.pending,
            unflip |-> t.unflip, cur |-> t.cur, pix |-> t.pix, due |-> t.due,
            flips |-> t.flips, missed |-> t.missed]
    /\ t.pending = s.pending /\ t.unflip = s.unflip /\ t.cur = s.cur /\ t.pix = s.pix
    /\ t.due = s.due /\ t.flips = s.flips /\ t.missed = s.missed
    /\ t.vb \in [Ids -> Vblank] /\ \A v \in Ids \ T : t.vb[v] = s.vb[v]
    /\ \A v \in Ids \cap T : /\ t.vb[v].window \in Living(s) \cup {None}
                             /\ t.vb[v].abort => s.vb[v].abort \/ s.pix[Root] = Screen

LEMMA ChangedMid ==
    ASSUME NEW s, NEW H, NEW y, NEW C, Mid(s, H, y, C),
           NEW t, NEW T, NEW G, NEW z, Changed(s, t, T), H \ T \subseteq G,
           z = y \/ (y \in T /\ z = None), z \in G \cup {None},
           InOrder(t),
           \A v \in Ids \cap T : Request(t.vb[v], v, s.pending, s.cur.pixmap, s.due, G, z, C)
    PROVE  Mid(t, G, z, C)
<1>1. Typed(t)
  BY DEF Mid, Changed, Typed, Living
<1>2. OneWay(t)
  BY DEF Mid, Changed, OneWay
<1>3. Drawn(t)
  <2>0. Typed(s)
    BY DEF Mid
  <2>1. CASE s.pix[Root] = Screen
    BY <2>1 DEF Mid, Drawn, Changed
  <2>2. CASE s.pix[Root] # Screen
    <3>1. s.pending # None => s.pending \in Ids
      BY <2>0 DEF Typed
    <3>2. s.pending # None => (t.vb[s.pending].abort => s.vb[s.pending].abort)
      BY <2>2, <3>1 DEF Changed
    <3> QED
      BY <2>2, <3>2 DEF Mid, Drawn, Changed
  <2> QED
    BY <2>1, <2>2
<1>4. ASSUME NEW u \in Ids
      PROVE  Request(t.vb[u], u, t.pending, t.cur.pixmap, t.due, G, z, C)
  <2>1. CASE u \in T
    BY <2>1 DEF Changed
  <2>2. CASE u \notin T
    <3>1. Request(s.vb[u], u, s.pending, s.cur.pixmap, s.due, H, y, C)
      BY DEF Mid
    <3>2. (u \notin G => u \notin H) /\ (u = y <=> u = z)
      BY <2>2, Names
    <3>3. t.vb[u] = s.vb[u] /\ t.pending = s.pending /\ t.cur = s.cur /\ t.due = s.due
      BY <2>2 DEF Changed
    <3> QED
      BY <3>1, <3>2, <3>3 DEF Request, Lives
  <2> QED
    BY <2>1, <2>2
<1> QED
  BY <1>1, <1>2, <1>3, <1>4 DEF Mid

LEMMA CallbackMid ==
    ASSUME NEW s, NEW H, NEW y, NEW C, Mid(s, H, y, C), NEW v \in Ids,
           s.vb[v].at # "none", FenceWaits(s.vb[v])
    PROVE  LET t == [s EXCEPT !.vb[v].callback = TRUE]
           IN  /\ Mid(t, H \ {v}, y, C) /\ \A D : Shown(s, D) => Shown(t, D)
               /\ Kept(s, t, v)
<1> DEFINE r == s.vb[v]
           b == [r EXCEPT !.callback = TRUE]
<1>0. Typed(s) /\ r \in Vblank /\ r.window \in Living(s) \cup {None}
  BY DEF Mid, Typed
<1>1. /\ b \in Vblank /\ b.window = r.window /\ b.at = r.at /\ b.abort = r.abort
      /\ b.flip = r.flip /\ b.pixmap = r.pixmap /\ b.idled = r.idled
      /\ b.completed = r.completed /\ b.mode = r.mode /\ b.callback /\ b.fence = r.fence
  BY <1>0 DEF Vblank
<1>2. [s EXCEPT !.vb[v].callback = TRUE] = With(s, v, b)
  BY DEF With
<1> HIDE DEF b
<1>3. Request(b, v, s.pending, s.cur.pixmap, s.due, H \ {v}, y, C)
  <2>1. Request(r, v, s.pending, s.cur.pixmap, s.due, H, y, C)
    BY DEF Mid
  <2>2. Awaited(b, v, s.due)
    BY <1>1 DEF Awaited, FenceWaits
  <2> QED
    BY <1>1, <2>1, <2>2 DEF Request, Lives, Covered
<1>4. Mid(With(s, v, b), H \ {v}, y, C)
  <2>1. y \in (H \ {v}) \cup {None}
    BY OneReported
  <2> QED
    BY <1>0, <1>1, <1>3, <2>1, WithMid
<1>5. Kept(s, With(s, v, b), v) /\ \A D : Shown(s, D) => Shown(With(s, v, b), D)
  BY <1>0, WithKept
<1> QED
  BY <1>2, <1>4, <1>5

\* The state after one request becomes b and the flip queue q.
Requeued(s, v, b, q) == [s EXCEPT !.queue = q, !.vb[v] = b]

LEMMA QueueChange ==
    ASSUME NEW s, Typed(s), InOrder(s), NEW v \in Ids, NEW b \in Vblank,
           b.window \in Living(s) \cup {None}, b.abort => s.vb[v].abort,
           NEW q, IsQueue(q),
           \A u : u \in DOMAIN q <=> (u # v /\ u \in DOMAIN s.queue) \/ (u = v /\ b.at = "flip")
    PROVE  LET t == Requeued(s, v, b, q)
           IN  /\ t.vb[v] = b /\ t.queue = q
               /\ Changed(s, t, {v}) /\ InOrder(t)
               /\ Kept(s, t, v) /\ \A D : Shown(s, D) => Shown(t, D)
<1> DEFINE g == [s.vb EXCEPT ![v] = b]
           t == Requeued(s, v, b, q)
<1>0. t = [s EXCEPT !.queue = q, !.vb = g]
  BY DEF Requeued
<1> HIDE DEF g, t
<1>1. /\ t.vb = g /\ t.queue = q
      /\ t.pending = s.pending /\ t.unflip = s.unflip
      /\ t.cur = s.cur /\ t.pix = s.pix /\ t.due = s.due /\ t.flips = s.flips
      /\ t.missed = s.missed
      /\ t = [vb |-> t.vb, queue |-> t.queue, pending |-> t.pending,
              unflip |-> t.unflip, cur |-> t.cur, pix |-> t.pix, due |-> t.due,
              flips |-> t.flips, missed |-> t.missed]
  BY <1>0 DEF Typed
<1>2. t.vb \in [Ids -> Vblank] /\ t.vb[v] = b /\ \A u \in Ids \ {v} : t.vb[u] = s.vb[u]
  BY <1>1 DEF Typed, g
<1>3. Changed(s, t, {v})
  BY <1>1, <1>2 DEF Changed
<1>4. InOrder(t)
  <2>1. ASSUME NEW u \in Ids PROVE u \in DOMAIN q <=> t.vb[u].at = "flip"
    BY <1>2 DEF InOrder
  <2>2. DOMAIN q \subseteq Ids
    BY DEF InOrder
  <2> QED
    BY <1>1, <2>1, <2>2 DEF InOrder
<1>5. Kept(s, t, v) /\ \A D : Shown(s, D) => Shown(t, D)
  BY <1>1, <1>2 DEF Kept, Shown
<1> QED
  BY <1>1, <1>2, <1>3, <1>4, <1>5 DEF t

LEMMA WaitMid ==
    ASSUME NEW s, NEW H, NEW y, NEW C, Mid(s, H, y, C), NEW v \in Ids,
           s.vb[v].at \in {"exec", "flip", "pending"}
    PROVE  LET t == WaitForFlip(s, v)
           IN  /\ Mid(t, H \ {v}, y, C) /\ \A D : Shown(s, D) => Shown(t, D)
               /\ Kept(s, t, v)
<1> DEFINE r == s.vb[v]
           b == [r EXCEPT !.ready = TRUE]
           g == [b EXCEPT !.at = "flip"]
<1>0. Typed(s) /\ InOrder(s) /\ r \in Vblank /\ r.window \in Living(s) \cup {None}
  BY DEF Mid, Typed
<1>1. Request(r, v, s.pending, s.cur.pixmap, s.due, H, y, C)
  BY DEF Mid
<1>9. y \in (H \ {v}) \cup {None}
  BY OneReported
<1>2. CASE v = s.pending
  <2>1. /\ b \in Vblank /\ b.window = r.window /\ b.at = r.at /\ b.abort = r.abort
        /\ b.flip = r.flip /\ b.pixmap = r.pixmap /\ b.idled = r.idled
        /\ b.completed = r.completed /\ b.mode = r.mode
    BY <1>0 DEF Vblank
  <2>2. WaitForFlip(s, v) = With(s, v, b)
    BY <1>2 DEF WaitForFlip, With
  <2> HIDE DEF b
  <2>3. Request(b, v, s.pending, s.cur.pixmap, s.due, H \ {v}, y, C)
    BY <1>1, <1>2, <2>1 DEF Request, Lives, Covered, Awaited
  <2>4. Mid(With(s, v, b), H \ {v}, y, C)
    BY <1>0, <1>9, <2>1, <2>3, WithMid
  <2> QED
    BY <1>0, <2>2, <2>4, WithKept
<1>3. CASE v # s.pending
  <2>1. /\ g \in Vblank /\ g.window = r.window /\ g.at = "flip" /\ g.abort = r.abort
        /\ g.flip = r.flip /\ g.pixmap = r.pixmap /\ g.idled = r.idled
        /\ g.completed = r.completed /\ g.mode = r.mode
    BY <1>0 DEF Vblank
  <2> DEFINE q == Appended(s.queue, v)
             t == Requeued(s, v, g, q)
  <2>2. WaitForFlip(s, v) = t
    BY <1>3 DEF WaitForFlip, Requeued
  <2> HIDE DEF g
  <2>3. /\ \A u : u \in DOMAIN q <=> (u # v /\ u \in DOMAIN s.queue) \/ (u = v /\ g.at = "flip")
        /\ IsQueue(q)
    <3>1. DOMAIN q = DOMAIN s.queue \cup {v} /\ IsQueue(q)
      BY <1>0, AppendedQueue DEF InOrder
    <3> HIDE DEF q
    <3> QED
      BY <2>1, <3>1
  <2> HIDE DEF q
  <2>9. g.window \in Living(s) \cup {None} /\ (g.abort => s.vb[v].abort)
    BY <1>0, <2>1
  <2>4. /\ t.vb[v] = g /\ Changed(s, t, {v}) /\ InOrder(t)
        /\ Kept(s, t, v) /\ \A D : Shown(s, D) => Shown(t, D)
    BY <1>0, <2>1, <2>3, <2>9, QueueChange
  <2> HIDE DEF t
  <2>5. Request(g, v, s.pending, s.cur.pixmap, s.due, H \ {v}, y, C)
    BY <1>1, <1>3, <2>1 DEF Request, Lives, Covered, Awaited
  <2>6. v # y
    BY <1>1 DEF Request, Lives
  <2>7. Mid(t, H \ {v}, y, C)
    <3>1. \A u \in Ids \cap {v} :
              Request(t.vb[u], u, s.pending, s.cur.pixmap, s.due, H \ {v}, y, C)
      BY <2>4, <2>5
    <3> QED
      BY <1>9, <2>4, <2>6, <3>1, ChangedMid
  <2> QED
    BY <2>2, <2>4, <2>7
<1> QED
  BY <1>2, <1>3

LEMMA TakenOutMid ==
    ASSUME NEW s, NEW H, NEW y, NEW C, Mid(s, H, y, C), NEW v \in Ids, v \in H,
           s.vb[v].at \in {"exec", "flip"}
    PROVE  LET t == TakenOut(s, v)
           IN  /\ Mid(t, H, y, C) /\ \A D : Shown(s, D) => Shown(t, D)
               /\ Kept(s, t, v)
               /\ t.vb[v] = [s.vb[v] EXCEPT !.at = "none"] /\ Changed(s, t, {v})
<1> DEFINE r == s.vb[v]
           g == [r EXCEPT !.at = "none"]
           q == Without(s.queue, {v})
           t == Requeued(s, v, g, q)
<1>0. /\ Typed(s) /\ InOrder(s) /\ r \in Vblank /\ r.window \in Living(s) \cup {None}
      /\ v \in Ids
  BY DEF Mid, Typed
<1>1. Request(r, v, s.pending, s.cur.pixmap, s.due, H, y, C)
  BY DEF Mid
<1>2. /\ g \in Vblank /\ g.window = r.window /\ g.at = "none" /\ g.abort = r.abort
      /\ g.flip = r.flip /\ g.pixmap = r.pixmap /\ g.idled = r.idled
      /\ g.completed = r.completed /\ g.mode = r.mode
  BY <1>0 DEF Vblank
<1>3. TakenOut(s, v) = t
  BY DEF TakenOut, Requeued
<1>4. t.vb[v] = g => t.vb[v] = [s.vb[v] EXCEPT !.at = "none"]
  OBVIOUS
<1> HIDE DEF g
<1>5. /\ \A u : u \in DOMAIN q <=> (u # v /\ u \in DOMAIN s.queue) \/ (u = v /\ g.at = "flip")
      /\ IsQueue(q)
  <2>1. DOMAIN q = DOMAIN s.queue \ {v} /\ IsQueue(q)
    BY <1>0, WithoutQueue DEF InOrder
  <2> HIDE DEF q
  <2> QED
    BY <1>2, <2>1
<1>6. /\ g \in Vblank /\ g.window \in Living(s) \cup {None} /\ (g.abort => s.vb[v].abort)
      /\ Typed(s) /\ InOrder(s)
  BY <1>0, <1>2
<1> HIDE DEF q
<1>7. /\ t.vb[v] = g /\ Changed(s, t, {v}) /\ InOrder(t)
      /\ Kept(s, t, v) /\ \A D : Shown(s, D) => Shown(t, D)
  <2>1. Changed(s, t, {v}) /\ InOrder(t)
    BY <1>5, <1>6, QueueChange
  <2>3. t.vb[v] = g
    BY <1>6 DEF Requeued, Typed
  <2>2. Kept(s, t, v) /\ \A D : Shown(s, D) => Shown(t, D)
    BY <1>5, <1>6, QueueChange
  <2> QED
    BY <2>1, <2>2, <2>3
<1> HIDE DEF t
<1>8. Request(g, v, s.pending, s.cur.pixmap, s.due, H, y, C)
  BY <1>1, <1>2 DEF Request, Lives, Covered
<1>9. Mid(t, H, y, C)
  <2>1. \A u \in Ids \cap {v} : Request(t.vb[u], u, s.pending, s.cur.pixmap, s.due, H, y, C)
    BY <1>7, <1>8
  <2> QED
    BY <1>7, <2>1, OneReported, ChangedMid
<1> QED
  BY <1>3, <1>4, <1>7, <1>9

\* What is left of a request that is destroyed.
Remains(b, how) ==
    [NoVblank EXCEPT !.at = how, !.idled = b.idled, !.completed = b.completed,
                     !.mode = b.mode, !.refused = b.refused]

LEMMA RemainsFields ==
    ASSUME NEW b \in Vblank, NEW how \in {"gone", "dropped"}
    PROVE  LET d == Remains(b, how)
           IN  /\ d \in Vblank /\ d.at = how /\ d.window = None /\ ~d.flip /\ ~d.pixmap
               /\ ~d.abort /\ d.idled = b.idled /\ d.completed = b.completed
               /\ d.refused = b.refused /\ d.mode = b.mode
<1> DEFINE E == MSCs \cup {-1}
           W == Windows \cup {None}
           F == Fences \cup {None}
<1>1. 0 \in MSCs /\ 0 \in E /\ None \in W /\ None \in F
  BY ShapesAssumption DEF MSCs
<1>2. Vblank = [at : {"none", "exec", "flip", "pending", "gone", "dropped"},
                window : W, pixmap : BOOLEAN, fence : F,
                target : MSCs, exec : E, sync : BOOLEAN, flip : BOOLEAN, ready : BOOLEAN,
                abort : BOOLEAN, callback : BOOLEAN, refused : BOOLEAN,
                idled : Nat, completed : Nat, mode : {"none", "copy", "skip", "flip"}]
  BY DEF Vblank
<1> HIDE DEF E, W, F
<1> QED
  BY <1>1, <1>2 DEF Remains, NoVblank

LEMMA DestroyedFields ==
    ASSUME NEW s, Typed(s), InOrder(s), NEW T, NEW how \in {"gone", "dropped"}
    PROVE  LET t == Destroyed(s, T, how)
           IN  /\ Changed(s, t, T) /\ InOrder(t)
               /\ \A v \in Ids \cap T : t.vb[v] = Remains(s.vb[v], how)
               /\ \A v : (\A u \in T : u = v \/ s.vb[u].at # "none") => Kept(s, t, v)
               /\ \A D : Shown(s, D) => Shown(t, D)
<1> DEFINE q == Without(s.queue, T)
           f == [v \in Ids |-> IF v \in T THEN Remains(s.vb[v], how) ELSE s.vb[v]]
           t == Destroyed(s, T, how)
<1>1. t = [s EXCEPT !.queue = q, !.vb = f]
  BY DEF Destroyed, Remains
<1>2. f \in [Ids -> Vblank]
  BY RemainsFields DEF Typed
<1>3. /\ \A v \in Ids \cap T : f[v] = Remains(s.vb[v], how)
      /\ \A v \in Ids \ T : f[v] = s.vb[v]
  OBVIOUS
<1>4. DOMAIN q = DOMAIN s.queue \ T /\ IsQueue(q)
  BY WithoutQueue DEF InOrder
<1> HIDE DEF q, f, t
<1>5. /\ t.vb = f /\ t.queue = q /\ t.pending = s.pending /\ t.unflip = s.unflip
      /\ t.cur = s.cur /\ t.pix = s.pix /\ t.due = s.due /\ t.flips = s.flips
      /\ t.missed = s.missed
      /\ t = [vb |-> t.vb, queue |-> t.queue, pending |-> t.pending,
              unflip |-> t.unflip, cur |-> t.cur, pix |-> t.pix, due |-> t.due,
              flips |-> t.flips, missed |-> t.missed]
  BY <1>1 DEF Typed
<1>6. \A v \in Ids \cap T : s.vb[v] \in Vblank
  BY DEF Typed
<1>7. \A v \in Ids \cap T : /\ f[v].window = None /\ ~f[v].abort /\ f[v].at = how
  BY <1>3, <1>6, RemainsFields
<1>8. Changed(s, t, T)
  BY <1>2, <1>3, <1>5, <1>7 DEF Changed
<1>9. InOrder(t)
  <2>1. ASSUME NEW u \in Ids PROVE u \in DOMAIN q <=> f[u].at = "flip"
    BY <1>3, <1>4, <1>7 DEF InOrder
  <2>2. DOMAIN q \subseteq Ids
    BY <1>4 DEF InOrder
  <2> QED
    BY <1>4, <1>5, <2>1, <2>2 DEF InOrder
<1>10. ASSUME NEW v, \A u \in T : u = v \/ s.vb[u].at # "none"
       PROVE  Kept(s, t, v)
  <2>1. ASSUME NEW u \in Ids \ {v}, s.vb[u].at = "none" PROVE t.vb[u].at = "none"
    BY <1>3, <1>5, <1>10, <2>1
  <2> QED
    BY <1>5, <2>1 DEF Kept
<1>11. \A D : Shown(s, D) => Shown(t, D)
  BY <1>5 DEF Shown
<1>12. \A v \in Ids \cap T : t.vb[v] = Remains(s.vb[v], how)
  BY <1>3, <1>5
<1> QED
  BY <1>8, <1>9, <1>10, <1>11, <1>12 DEF t

\* Requests that are destroyed concern nobody else.
LEMMA DestroyedMid ==
    ASSUME NEW s, NEW H, NEW y, NEW C, Mid(s, H, y, C), None \in C,
           NEW T, NEW how \in {"gone", "dropped"}, NEW z, z = y \/ (y \in T /\ z = None),
           z \notin T,
           \A v \in Ids \cap T :
               /\ s.vb[v].at # "pending" /\ s.vb[v].completed = IF how = "gone" THEN 1 ELSE 0
               /\ s.vb[v].idled = (IF s.cur.pixmap = v THEN 0 ELSE 1)
                  \/ (how = "dropped" /\ s.vb[v].idled = 0)
    PROVE  LET t == Destroyed(s, T, how)
           IN  Mid(t, H \ T, z, C)
<1> DEFINE t == Destroyed(s, T, how)
<1>0. Typed(s) /\ InOrder(s)
  BY DEF Mid
<1>1. /\ Changed(s, t, T) /\ InOrder(t)
      /\ \A v \in Ids \cap T : t.vb[v] = Remains(s.vb[v], how)
  BY <1>0, DestroyedFields
<1> HIDE DEF t
<1>2. ASSUME NEW v \in Ids \cap T
      PROVE  Request(t.vb[v], v, s.pending, s.cur.pixmap, s.due, H \ T, z, C)
  <2> DEFINE r == s.vb[v]
             d == Remains(r, how)
  <2>1. r \in Vblank
    BY <1>0 DEF Typed
  <2>2. /\ d.at = how /\ d.window = None /\ ~d.flip /\ d.idled = r.idled
        /\ d.completed = r.completed
    BY <2>1, RemainsFields
  <2>3. t.vb[v] = d
    BY <1>1
  <2> HIDE DEF d
  <2>4. Request(r, v, s.pending, s.cur.pixmap, s.due, H, y, C)
    BY DEF Mid
  <2>5. v # s.pending /\ v # z
    BY <2>4 DEF Request, Lives
  <2>6. r.idled \in Nat
    BY <2>1 DEF Vblank
  <2>7. Lives(d, v, s.pending, s.cur.pixmap, z)
    BY <2>2, <2>5, <2>6 DEF Lives
  <2>8. Awaited(d, v, s.due) /\ Covered(d, C)
    BY <2>2 DEF Awaited, Covered
  <2> QED
    BY <2>2, <2>3, <2>7, <2>8 DEF Request
<1>3. Mid(t, H \ T, z, C)
  <2>1. z \in (H \ T) \cup {None}
    BY OneReported
  <2> QED
    BY <1>1, <1>2, <2>1, ChangedMid
<1> QED
  BY <1>3 DEF t

LEMMA TreeFacts ==
    ASSUME NEW pix, NEW w \in DOMAIN pix, NEW new
    PROVE  LET p == SetTree(pix, w, new)
           IN  /\ DOMAIN p = DOMAIN pix /\ p[w] = new
               /\ \A u \in DOMAIN pix : p[u] \in {pix[u], new}
               /\ w = Root => \A u \in DOMAIN pix : p[u] = IF pix[u] = pix[Root] THEN new ELSE pix[u]
               /\ w # Root => \A u \in DOMAIN pix \ {w} : p[u] = pix[u]
  BY DEF SetTree

LEMMA RestoredFields ==
    ASSUME NEW s, Typed(s), Drawn(s)
    PROVE  LET t == Restored(s)
           IN  /\ t.vb = s.vb /\ t.queue = s.queue /\ t.pending = s.pending
               /\ t.unflip = s.unflip /\ t.cur = s.cur /\ DOMAIN t.pix = DOMAIN s.pix
               /\ \A u \in DOMAIN s.pix : t.pix[u] = Screen
               /\ t.due = s.due /\ t.flips = s.flips /\ t.missed = s.missed
               /\ t = [vb |-> t.vb, queue |-> t.queue, pending |-> t.pending,
                       unflip |-> t.unflip, cur |-> t.cur, pix |-> t.pix, due |-> t.due,
                       flips |-> t.flips, missed |-> t.missed]
<1> DEFINE f == IF s.pending = None THEN s.cur
                ELSE [window |-> s.vb[s.pending].window, pixmap |-> s.pending]
           w == f.window
           p == IF w = None THEN s.pix ELSE SetTreeFrom(s.pix, w, f.pixmap, Screen)
           q == SetTree(p, Root, Screen)
           t == Restored(s)
<1>1. w \in Living(s) \cup {None} /\ Root \in DOMAIN s.pix
  <2>1. CASE s.pending = None
    BY <2>1 DEF Typed
  <2>2. CASE s.pending # None
    <3>1. s.pending \in Ids
      BY <2>2 DEF Typed
    <3> QED
      BY <2>2, <3>1 DEF Typed
  <2> QED
    BY <2>1, <2>2
<1>2. t = [s EXCEPT !.pix = q]
  BY DEF Restored
<1> HIDE DEF f
<1>3. /\ DOMAIN p = DOMAIN s.pix /\ p[Root] = s.pix[Root]
      /\ \A u \in DOMAIN p : p[u] \in {Screen, s.pix[Root]}
  <2>1. \A u \in DOMAIN s.pix : s.pix[u] \in {Screen, s.pix[Root]}
    BY DEF Drawn
  <2>2. CASE p = s.pix
    BY <2>1, <2>2
  <2>3. CASE p = SetTree(s.pix, w, Screen) /\ w # None
    <3>1. w \in DOMAIN s.pix /\ w # Root
      BY <1>1, <2>3 DEF Living
    <3> QED
      BY <1>1, <2>1, <2>3, <3>1, TreeFacts
  <2> QED
    BY <2>2, <2>3 DEF SetTreeFrom
<1> HIDE DEF p
<1>4. DOMAIN q = DOMAIN s.pix /\ \A u \in DOMAIN s.pix : q[u] = Screen
  <2>1. Root \in DOMAIN p
    BY <1>1, <1>3
  <2>2. /\ DOMAIN q = DOMAIN p
        /\ \A u \in DOMAIN p : q[u] = IF p[u] = p[Root] THEN Screen ELSE p[u]
    BY <2>1, TreeFacts
  <2> QED
    BY <1>3, <2>2
<1> HIDE DEF q, t
<1>5. /\ t.vb = s.vb /\ t.queue = s.queue /\ t.pending = s.pending
      /\ t.unflip = s.unflip /\ t.cur = s.cur /\ t.pix = q
      /\ t.due = s.due /\ t.flips = s.flips /\ t.missed = s.missed
      /\ t = [vb |-> t.vb, queue |-> t.queue, pending |-> t.pending,
              unflip |-> t.unflip, cur |-> t.cur, pix |-> t.pix, due |-> t.due,
              flips |-> t.flips, missed |-> t.missed]
  BY <1>2 DEF Typed
<1> QED
  BY <1>4, <1>5 DEF t

LEMMA RestoredMid ==
    ASSUME NEW s, NEW H, NEW y, NEW C, Mid(s, H, y, C)
    PROVE  LET t == Restored(s)
           IN  /\ Mid(t, H, y, C) /\ \A D : Shown(s, D) => Shown(t, D)
               /\ \A v : Kept(s, t, v)
               /\ t.vb = s.vb /\ t.pending = s.pending /\ t.unflip = s.unflip
               /\ t.cur = s.cur /\ t.pix[Root] = Screen
<1> DEFINE t == Restored(s)
<1>0. Typed(s) /\ Drawn(s)
  BY DEF Mid
<1>1. /\ t.vb = s.vb /\ t.queue = s.queue /\ t.pending = s.pending
      /\ t.unflip = s.unflip /\ t.cur = s.cur /\ DOMAIN t.pix = DOMAIN s.pix
      /\ \A u \in DOMAIN s.pix : t.pix[u] = Screen
      /\ t.due = s.due /\ t.flips = s.flips /\ t.missed = s.missed
      /\ t = [vb |-> t.vb, queue |-> t.queue, pending |-> t.pending,
              unflip |-> t.unflip, cur |-> t.cur, pix |-> t.pix, due |-> t.due,
              flips |-> t.flips, missed |-> t.missed]
  BY <1>0, RestoredFields
<1> HIDE DEF t
<1>2. Typed(t)
  BY <1>0, <1>1 DEF Typed, Living
<1>3. InOrder(t) /\ OneWay(t)
  BY <1>1 DEF Mid, InOrder, OneWay
<1>4. Drawn(t) /\ t.pix[Root] = Screen
  BY <1>0, <1>1 DEF Drawn, Typed
<1>5. Mid(t, H, y, C)
  BY <1>1, <1>2, <1>3, <1>4 DEF Mid
<1>6. (\A v : Kept(s, t, v)) /\ \A D : Shown(s, D) => Shown(t, D)
  BY <1>1 DEF Kept, Shown
<1> QED
  BY <1>1, <1>4, <1>5, <1>6 DEF t

LEMMA AbortMid ==
    ASSUME NEW s, NEW H, NEW y, NEW C, Mid(s, H, y, C), s.pending # None
    PROVE  LET t == AbortFlip(s)
           IN  /\ Mid(t, H, y, C) /\ \A D : Shown(t, D)
               /\ \A v : Kept(s, t, v)
               /\ \A v \in Ids \ {s.pending} : t.vb[v] = s.vb[v]
               /\ t.vb[s.pending].abort /\ t.vb[s.pending].window = s.vb[s.pending].window
               /\ t.pending = s.pending /\ t.unflip = s.unflip /\ t.cur = s.cur
<1> DEFINE p == s.pending
           r == Restored(s)
           b == [s.vb[p] EXCEPT !.abort = TRUE]
           t == AbortFlip(s)
<1>0. Typed(s) /\ p \in Ids /\ s.vb[p] \in Vblank
  BY DEF Mid, Typed
<1>1. Request(s.vb[p], p, s.pending, s.cur.pixmap, s.due, H, y, C)
  BY <1>0 DEF Mid
<1>2. CASE s.vb[p].abort
  BY <1>2 DEF AbortFlip, Kept, Shown
<1>3. CASE ~s.vb[p].abort
  <2>1. /\ Mid(r, H, y, C) /\ (\A v : Kept(s, r, v)) /\ r.vb = s.vb /\ r.pending = p
        /\ r.unflip = s.unflip /\ r.cur = s.cur /\ r.pix[Root] = Screen
    BY RestoredMid
  <2>2. t = With(r, p, [r.vb[p] EXCEPT !.abort = TRUE])
    BY <1>3 DEF AbortFlip, With
  <2>3. t = With(r, p, b)
    BY <2>1, <2>2
  <2>4. /\ b \in Vblank /\ b.window = s.vb[p].window /\ b.at = s.vb[p].at /\ b.abort
        /\ b.flip = s.vb[p].flip /\ b.pixmap = s.vb[p].pixmap /\ b.idled = s.vb[p].idled
        /\ b.completed = s.vb[p].completed /\ b.mode = s.vb[p].mode
    BY <1>0 DEF Vblank
  <2> HIDE DEF b, r, p, t
  <2>5. Typed(r) /\ b.window \in Living(r) \cup {None}
    BY <1>0, <2>1, <2>4 DEF Mid, Typed
  <2>6. Request(b, p, r.pending, r.cur.pixmap, r.due, H, y, C)
    <3>1. Request(r.vb[p], p, r.pending, r.cur.pixmap, r.due, H, y, C)
      BY <1>0, <2>1 DEF Mid
    <3>2. r.vb[p] = s.vb[p] /\ r.vb[p].at = "pending"
      BY <2>1, <3>1 DEF Request, Lives
    <3> QED
      BY <2>1, <2>4, <3>1, <3>2 DEF Request, Lives, Covered, Awaited
  <2>7. Mid(With(r, p, b), H, y, C)
    BY <1>0, <2>1, <2>4, <2>5, <2>6, OneReported, WithMid
  <2>8. /\ t.vb[p] = b /\ (\A u \in Ids \ {p} : t.vb[u] = r.vb[u])
        /\ t.pending = r.pending /\ t.unflip = r.unflip /\ t.cur = r.cur
        /\ t.pix = r.pix /\ t.missed = r.missed
    <3>1. LET g == With(r, p, b)
          IN  /\ g.vb = [r.vb EXCEPT ![p] = b] /\ g.vb[p] = b
              /\ \A u \in Ids \ {p} : g.vb[u] = r.vb[u]
              /\ g.queue = r.queue /\ g.pending = r.pending /\ g.unflip = r.unflip
              /\ g.cur = r.cur /\ g.pix = r.pix /\ g.due = r.due /\ g.flips = r.flips
              /\ g.missed = r.missed
      BY <1>0, <2>5, WithFields
    <3> QED
      BY <2>3, <3>1
  <2>9. \A v : Kept(s, t, v)
    <3>1. ASSUME NEW u \in Ids, s.vb[u].at = "none" PROVE t.vb[u].at = "none"
      BY <1>0, <2>1, <2>4, <2>8, <3>1
    <3> QED
      BY <2>1, <2>8, <3>1 DEF Kept
  <2>10. \A D : Shown(t, D)
    BY <1>0, <2>1, <2>8, Names DEF Shown
  <2> QED
    BY <2>1, <2>3, <2>4, <2>7, <2>8, <2>9, <2>10 DEF p, t
<1> QED
  BY <1>2, <1>3

\* The pixmap that was shown goes back to its client.
LEMMA FlipIdleMid ==
    ASSUME NEW s, NEW H, NEW y, NEW C, Mid(s, H, y, C), None \in C,
           ~s.unflip, s.pending # None \/ s.pix[Root] = Screen
    PROVE  LET t == FlipIdle(s)
           IN  /\ Mid(t, H, y, C) /\ Shown(t, C)
               /\ \A v : Kept(s, t, v)
               /\ t.pending = s.pending /\ t.unflip = s.unflip /\ t.cur = NoFlip
               /\ t.pix = s.pix /\ t.flips = s.flips
               /\ \A v \in Ids : v # s.cur.pixmap => t.vb[v] = s.vb[v]
<1> DEFINE c == s.cur.pixmap
           t == FlipIdle(s)
           r == s.vb[c]
           b == [r EXCEPT !.idled = @ + 1]
           g == [s.vb EXCEPT ![c] = b]
<1>0. Typed(s) /\ s.cur \in [window : Living(s) \cup {None}, pixmap : Ids \cup {None}]
  BY DEF Mid, Typed
<1>1. CASE c = None
  <2>1. s.cur.window = None
    BY <1>1 DEF Mid, OneWay
  <2>2. s.cur = NoFlip
    BY <1>0, <1>1, <2>1 DEF NoFlip
  <2>3. t = s
    BY <1>1 DEF FlipIdle
  <2> QED
    BY <2>1, <2>2, <2>3 DEF Kept, Shown
<1>2. CASE c # None
  <2>0. c \in Ids /\ r \in Vblank
    BY <1>0, <1>2 DEF Typed
  <2>1. /\ b \in Vblank /\ b.window = r.window /\ b.at = r.at /\ b.abort = r.abort
        /\ b.flip = r.flip /\ b.pixmap = r.pixmap /\ b.idled = r.idled + 1
        /\ b.completed = r.completed /\ b.mode = r.mode /\ b.callback = r.callback
        /\ b.fence = r.fence /\ r.idled \in Nat
    BY <2>0 DEF Vblank
  <2>2. t = [s EXCEPT !.vb = g, !.cur = NoFlip]
    BY <1>2 DEF FlipIdle, Idled
  <2>3. g \in [Ids -> Vblank] /\ g[c] = b /\ \A u \in Ids \ {c} : g[u] = s.vb[u]
    BY <1>0, <2>0, <2>1 DEF Typed
  <2> HIDE DEF g, t, b
  <2>4. /\ t.vb = g /\ t.queue = s.queue /\ t.pending = s.pending
        /\ t.unflip = s.unflip /\ t.cur = NoFlip /\ t.pix = s.pix
        /\ t.due = s.due /\ t.flips = s.flips /\ t.missed = s.missed
        /\ t = [vb |-> t.vb, queue |-> t.queue, pending |-> t.pending,
                unflip |-> t.unflip, cur |-> t.cur, pix |-> t.pix, due |-> t.due,
                flips |-> t.flips, missed |-> t.missed]
    BY <1>0, <2>2 DEF Typed
  <2>5. \A u \in Ids : g[u].window = s.vb[u].window /\ g[u].at = s.vb[u].at /\ g[u].abort = s.vb[u].abort
    BY <2>0, <2>1, <2>3
  <2> HIDE DEF c, r
  <2>6. Typed(t)
    BY <1>0, <2>3, <2>4, <2>5 DEF Typed, Living, NoFlip
  <2>7. InOrder(t) /\ OneWay(t)
    BY <2>4, <2>5 DEF Mid, InOrder, OneWay, NoFlip
  <2>8. Drawn(t)
    <3>1. s.pending # None => s.pending \in Ids
      BY <1>0 DEF Typed
    <3>2. Drawn(s)
      BY DEF Mid
    <3> QED
      BY <2>4, <2>5, <3>1, <3>2 DEF Drawn
  <2>9. ASSUME NEW u \in Ids
        PROVE  Request(t.vb[u], u, t.pending, t.cur.pixmap, t.due, H, y, C)
    <3>0. Request(s.vb[u], u, s.pending, c, s.due, H, y, C)
      BY DEF Mid, c
    <3>1. t.cur.pixmap = None
      BY <2>4 DEF NoFlip
    <3>2. u # None
      BY Names
    <3>3. CASE u # c
      <4>1. Lives(s.vb[u], u, s.pending, c, y) => Lives(s.vb[u], u, s.pending, None, y)
        BY <3>2, <3>3 DEF Lives
      <4> QED
        BY <2>3, <2>4, <3>0, <3>1, <3>3, <4>1 DEF Request
    <3>4. CASE u = c
      <4>1. t.vb[u] = b /\ s.vb[u] = r
        BY <2>3, <2>4, <3>4 DEF c, r
      <4>2. Lives(r, u, s.pending, u, y) => Lives(b, u, s.pending, None, y)
        BY <2>1, <3>2 DEF Lives
      <4>3. r.at # "none" \/ u = y
        BY <3>0, <3>4, <4>1 DEF Request, Lives
      <4>4. y \in H \cup {None}
        BY DEF Mid
      <4>5. Awaited(r, u, s.due) => Awaited(b, u, s.due)
        BY <2>1 DEF Awaited
      <4>6. Covered(r, C) => Covered(b, C)
        BY <2>1 DEF Covered
      <4>7. u \notin H => b.at # "none"
        BY <2>1, <3>2, <4>3, <4>4
      <4> QED
        BY <2>4, <3>0, <3>1, <3>4, <4>1, <4>2, <4>5, <4>6, <4>7 DEF Request
    <3> QED
      BY <3>3, <3>4
  <2>10. Mid(t, H, y, C)
    BY <2>6, <2>7, <2>8, <2>9, OneReported DEF Mid
  <2>11. (\A v : Kept(s, t, v)) /\ Shown(t, C)
    BY <2>4, <2>5 DEF Kept, Shown, NoFlip
  <2>12. \A v \in Ids : v # c => t.vb[v] = s.vb[v]
    BY <2>3, <2>4
  <2> QED
    BY <2>4, <2>10, <2>11, <2>12 DEF t, c
<1> QED
  BY <1>1, <1>2

\* A request in hand completes.
LEMMA PostMid ==
    ASSUME NEW s, NEW H, NEW y, NEW C, Mid(s, H, y, C), None \in C,
           NEW v \in Ids, v \in H, s.vb[v].at = "none", s.vb[v].completed = 0,
           s.vb[v].idled = IF s.cur.pixmap = v THEN 0 ELSE 1,
           NEW mode \in {"copy", "skip", "flip"}, NEW z, z = IF v = y THEN None ELSE y
    PROVE  LET t == Post(s, v, mode)
           IN  /\ Mid(t, H \ {v}, z, C) /\ \A D : Shown(s, D) => Shown(t, D)
               /\ Kept(s, t, v)
<1> DEFINE r == s.vb[v]
           g == [[r EXCEPT !.completed = @ + 1] EXCEPT !.mode = mode]
           u == With(s, v, g)
           t == Destroyed(u, {v}, "gone")
<1>0. Typed(s) /\ InOrder(s) /\ r \in Vblank /\ r.window \in Living(s) \cup {None}
  BY DEF Mid, Typed
<1>1. Post(s, v, mode) = t
  BY DEF Post, With
<1>2. /\ g \in Vblank /\ g.window = r.window /\ g.at = "none" /\ g.abort = r.abort
      /\ g.idled = r.idled /\ g.completed = 1
  <2> DEFINE m == [r EXCEPT !.completed = @ + 1]
  <2>1. /\ m \in Vblank /\ m.window = r.window /\ m.at = "none" /\ m.abort = r.abort
        /\ m.idled = r.idled /\ m.completed = 1
    BY <1>0 DEF Vblank
  <2>2. g = [m EXCEPT !.mode = mode]
    OBVIOUS
  <2> HIDE DEF m, g
  <2> QED
    BY <2>1, <2>2 DEF Vblank
<1> HIDE DEF g
<1>3. /\ u.vb[v] = g /\ \A x \in Ids \ {v} : u.vb[x] = s.vb[x]
      /\ u.queue = s.queue /\ u.pending = s.pending /\ u.unflip = s.unflip
      /\ u.cur = s.cur /\ u.pix = s.pix /\ u.due = s.due /\ u.flips = s.flips
      /\ u.missed = s.missed
  <2>1. LET w == With(s, v, g)
        IN  /\ w.vb = [s.vb EXCEPT ![v] = g] /\ w.vb[v] = g
            /\ \A x \in Ids \ {v} : w.vb[x] = s.vb[x]
            /\ w.queue = s.queue /\ w.pending = s.pending /\ w.unflip = s.unflip
            /\ w.cur = s.cur /\ w.pix = s.pix /\ w.due = s.due /\ w.flips = s.flips
            /\ w.missed = s.missed
    BY <1>0, WithFields
  <2> QED
    BY <2>1
<1>4. Typed(u)
  BY <1>0, <1>2, WithTyped
<1> HIDE DEF u
<1>5. InOrder(u)
  <2>1. \A x \in Ids : u.vb[x].at = "flip" <=> s.vb[x].at = "flip"
    BY <1>2, <1>3
  <2> QED
    BY <1>0, <1>3, <2>1 DEF InOrder
<1>6. /\ Changed(u, t, {v}) /\ InOrder(t)
      /\ \A x \in Ids \cap {v} : t.vb[x] = Remains(u.vb[x], "gone")
      /\ \A x : (\A a \in {v} : a = x \/ u.vb[a].at # "none") => Kept(u, t, x)
      /\ \A D : Shown(u, D) => Shown(t, D)
  BY <1>4, <1>5, DestroyedFields
<1> HIDE DEF t
<1> DEFINE d == Remains(g, "gone")
<1>7. /\ d.at = "gone" /\ d.window = None /\ ~d.flip /\ ~d.abort /\ d.idled = r.idled
      /\ d.completed = 1 /\ d \in Vblank
  BY <1>2, RemainsFields
<1>8. t.vb[v] = d
  BY <1>3, <1>6
<1> HIDE DEF d
<1>9. Changed(s, t, {v})
  <2>1. Living(u) = Living(s)
    BY <1>3 DEF Living
  <2> QED
    BY <1>3, <1>6, <1>7, <1>8, <2>1 DEF Changed
<1>10. Request(d, v, s.pending, s.cur.pixmap, s.due, H \ {v}, z, C)
  <2>1. v # s.pending
    <3>1. Request(r, v, s.pending, s.cur.pixmap, s.due, H, y, C)
      BY DEF Mid
    <3> QED
      BY <3>1 DEF Request, Lives
  <2>2. v # z
    BY Names
  <2>3. Lives(d, v, s.pending, s.cur.pixmap, z)
    BY <1>7, <2>1, <2>2 DEF Lives
  <2> QED
    BY <1>7, <2>3 DEF Request, Awaited, Covered
<1>11. Mid(t, H \ {v}, z, C)
  <2>1. \A x \in Ids \cap {v} :
            Request(t.vb[x], x, s.pending, s.cur.pixmap, s.due, H \ {v}, z, C)
    BY <1>8, <1>10
  <2>2. z \in (H \ {v}) \cup {None} /\ (z = y \/ (y \in {v} /\ z = None))
    BY OneReported
  <2>3. H \ {v} \subseteq H \ {v}
    OBVIOUS
  <2> QED
    BY <1>6, <1>9, <2>1, <2>2, <2>3, ChangedMid
<1>12. Kept(s, t, v) /\ \A D : Shown(s, D) => Shown(t, D)
  <2>1. \A x \in Ids \ {v} : t.vb[x] = s.vb[x]
    BY <1>9 DEF Changed
  <2> QED
    BY <1>9, <2>1 DEF Kept, Shown, Changed
<1> QED
  BY <1>1, <1>11, <1>12

\* A request that is taken out of its queue and has no flip.
Copyable(b) ==
    /\ b.at = "none" /\ b.completed = 0 /\ b.mode = "none" /\ b.idled = 0
    /\ b.pixmap /\ ~b.flip /\ ~b.abort /\ b.window # None

\* A request in hand waits for the driver's event.
LEMMA ExecMid ==
    ASSUME NEW s, NEW H, NEW y, NEW C, Mid(s, H, y, C),
           NEW v \in Ids, v \in H, v # y, Copyable(s.vb[v]), s.vb[v].exec \in MSCs
    PROVE  LET t == [QueueVblank(s, v) EXCEPT !.vb[v].at = "exec"]
           IN  /\ Mid(t, H \ {v}, y, C) /\ \A D : Shown(s, D) => Shown(t, D)
               /\ Kept(s, t, v)
<1> DEFINE r == s.vb[v]
           u == QueueVblank(s, v)
           b == [r EXCEPT !.at = "exec"]
           t == With(u, v, b)
<1>0. Typed(s) /\ r \in Vblank /\ r.window \in Living(s) \cup {None}
  BY DEF Mid, Typed
<1>1. /\ u.vb = s.vb /\ u.queue = s.queue /\ u.pending = s.pending
      /\ u.unflip = s.unflip /\ u.cur = s.cur /\ u.pix = s.pix
      /\ u.due = s.due \cup {[id |-> v, msc |-> s.vb[v].exec]}
      /\ u.flips = s.flips /\ u.missed = s.missed
  BY <1>0, OwedFields
<1>2. Mid(u, H, y, C)
  BY OwedMid
<1>3. [QueueVblank(s, v) EXCEPT !.vb[v].at = "exec"] = t
  <2>1. [u EXCEPT !.vb[v].at = "exec"] = With(u, v, [u.vb[v] EXCEPT !.at = "exec"])
    BY DEF With
  <2> HIDE DEF u
  <2>2. [u EXCEPT !.vb[v].at = "exec"] = With(u, v, b)
    BY <1>1, <2>1
  <2> QED
    BY <2>2 DEF u
<1>4. /\ b \in Vblank /\ b.window = r.window /\ b.at = "exec" /\ b.abort = r.abort
      /\ b.flip = r.flip /\ b.pixmap = r.pixmap /\ b.idled = r.idled
      /\ b.completed = r.completed /\ b.mode = r.mode
  BY <1>0 DEF Vblank
<1> HIDE DEF u, b
<1>5. Request(b, v, u.pending, u.cur.pixmap, u.due, H \ {v}, y, C)
  <2>1. Request(r, v, s.pending, s.cur.pixmap, s.due, H, y, C)
    BY DEF Mid
  <2>2. v # s.pending /\ s.cur.pixmap # v
    BY <2>1 DEF Request, Lives, Copyable
  <2>3. Lives(b, v, s.pending, s.cur.pixmap, y)
    BY <1>4, <2>2 DEF Lives, Copyable
  <2>4. \E e \in u.due : e.id = v
    <3> DEFINE e == [id |-> v, msc |-> s.vb[v].exec]
    <3>1. e.id = v /\ e \in u.due
      BY <1>1
    <3> QED
      BY <3>1
  <2> QED
    BY <1>1, <1>4, <2>3, <2>4 DEF Request, Awaited, Covered, Copyable
<1>6. Mid(t, H \ {v}, y, C)
  <2>1. y \in (H \ {v}) \cup {None}
    BY OneReported
  <2>2. b.window \in Living(u) \cup {None} /\ b.at # "flip" /\ u.vb[v].at # "flip" /\ ~b.abort
    BY <1>0, <1>1, <1>4 DEF Living, Copyable
  <2> QED
    BY <1>2, <1>4, <1>5, <2>1, <2>2, WithMid
<1>7. Typed(u)
  BY <1>2 DEF Mid
<1>8. Kept(u, t, v) /\ \A D : Shown(u, D) => Shown(t, D)
  BY <1>7, WithKept
<1>9. Kept(s, t, v) /\ \A D : Shown(s, D) => Shown(t, D)
  <2>1. \A D : Shown(s, D) => Shown(u, D)
    BY <1>1 DEF Shown
  <2>2. DOMAIN t.pix = DOMAIN s.pix /\ t.missed = s.missed
    BY <1>1, <1>8 DEF Kept
  <2>3. \A x \in Ids \ {v} : s.vb[x].at = "none" => t.vb[x].at = "none"
    BY <1>1, <1>8 DEF Kept
  <2> HIDE DEF t
  <2> QED
    BY <1>8, <2>1, <2>2, <2>3 DEF Kept
<1> QED
  BY <1>3, <1>6, <1>9

\* The driver takes the flip.
LEMMA FlippedMid ==
    ASSUME NEW s, NEW H, NEW y, NEW C, Mid(s, H, y, C),
           NEW v \in Ids, v \in H, v # y, s.pending = None, ~s.unflip,
           s.vb[v].at = "none", s.vb[v].completed = 0, s.vb[v].mode = "none",
           s.vb[v].idled = 0, s.vb[v].pixmap, s.vb[v].flip, ~s.vb[v].abort,
           s.vb[v].window # None
    PROVE  LET t == Flipped(s, v)
           IN  /\ Mid(t, H \ {v}, y, C) /\ \A D : Shown(t, D)
               /\ Kept(s, t, v)
<1> DEFINE r == s.vb[v]
           w == r.window
           b == [r EXCEPT !.at = "pending"]
           g == [s.vb EXCEPT ![v] = b]
           p == IF s.cur.window \in {None, w} THEN s.pix
                ELSE SetTreeFrom(s.pix, s.cur.window, s.cur.pixmap, Screen)
           q == SetTree(p, w, v)
           a == SetTree(q, Root, v)
           t == Flipped(s, v)
<1>0. /\ Typed(s) /\ Drawn(s) /\ r \in Vblank /\ w \in Living(s) /\ v # None
      /\ Root \in DOMAIN s.pix /\ w \in DOMAIN s.pix /\ w # Root
  BY Names DEF Mid, Typed, Living
<1>1. t = [s EXCEPT !.pending = v, !.flips = @ \cup {v}, !.vb = g, !.pix = a]
  BY DEF Flipped
<1>2. /\ b \in Vblank /\ b.window = r.window /\ b.at = "pending" /\ b.abort = r.abort
      /\ b.flip = r.flip /\ b.pixmap = r.pixmap /\ b.idled = r.idled
      /\ b.completed = r.completed /\ b.mode = r.mode
  BY <1>0 DEF Vblank
<1>3. g \in [Ids -> Vblank] /\ g[v] = b /\ \A u \in Ids \ {v} : g[u] = s.vb[u]
  BY <1>0, <1>2 DEF Typed
<1> HIDE DEF g, b
<1>4. /\ DOMAIN p = DOMAIN s.pix /\ p[Root] = s.pix[Root]
      /\ \A u \in DOMAIN p : p[u] \in {Screen, s.pix[Root]}
  <2>1. \A u \in DOMAIN s.pix : s.pix[u] \in {Screen, s.pix[Root]}
    BY <1>0 DEF Drawn
  <2>2. CASE p = s.pix
    BY <2>1, <2>2
  <2>3. CASE p = SetTree(s.pix, s.cur.window, Screen) /\ s.cur.window # None
    <3>1. s.cur.window \in DOMAIN s.pix /\ s.cur.window # Root
      BY <1>0, <2>3 DEF Typed, Living
    <3>2. LET f == SetTree(s.pix, s.cur.window, Screen)
          IN  /\ DOMAIN f = DOMAIN s.pix /\ \A u \in DOMAIN s.pix : f[u] \in {s.pix[u], Screen}
              /\ f[Root] = s.pix[Root]
      BY <1>0, <3>1, TreeFacts
    <3> QED
      BY <2>1, <2>3, <3>2
  <2> QED
    BY <2>2, <2>3 DEF SetTreeFrom
<1> HIDE DEF p
<1>5. /\ DOMAIN q = DOMAIN s.pix /\ q[Root] = s.pix[Root]
      /\ \A u \in DOMAIN q : q[u] \in {Screen, s.pix[Root], v}
  <2>1. /\ DOMAIN q = DOMAIN p /\ \A u \in DOMAIN p : q[u] \in {p[u], v}
        /\ \A u \in DOMAIN p \ {w} : q[u] = p[u]
    <3>1. w \in DOMAIN p
      BY <1>0, <1>4
    <3> HIDE DEF w
    <3> QED
      BY <1>0, <3>1, TreeFacts
  <2> HIDE DEF q
  <2> QED
    BY <1>0, <1>4, <2>1
<1> HIDE DEF q
<1>6. /\ DOMAIN a = DOMAIN s.pix /\ a[Root] = v
      /\ \A u \in DOMAIN a : a[u] \in {Screen, v}
  <2>1. /\ DOMAIN a = DOMAIN q /\ a[Root] = v
        /\ \A u \in DOMAIN q : a[u] = IF q[u] = q[Root] THEN v ELSE q[u]
    BY <1>0, <1>5, TreeFacts
  <2> HIDE DEF a
  <2> QED
    BY <1>5, <2>1
<1> HIDE DEF a, t
<1>7. /\ t.vb = g /\ t.queue = s.queue /\ t.pending = v
      /\ t.unflip = s.unflip /\ t.cur = s.cur /\ t.pix = a
      /\ t.due = s.due /\ t.flips = s.flips \cup {v} /\ t.missed = s.missed
      /\ t = [vb |-> t.vb, queue |-> t.queue, pending |-> t.pending,
              unflip |-> t.unflip, cur |-> t.cur, pix |-> t.pix, due |-> t.due,
              flips |-> t.flips, missed |-> t.missed]
  BY <1>0, <1>1 DEF Typed
<1>8. \A u \in Ids : g[u].window = s.vb[u].window /\ (u # v => g[u].at = s.vb[u].at)
  BY <1>2, <1>3
<1>9. Typed(t)
  BY <1>0, <1>3, <1>6, <1>7, <1>8 DEF Typed, Living
<1>10. InOrder(t)
  <2>1. \A u \in Ids : g[u].at = "flip" <=> s.vb[u].at = "flip"
    BY <1>2, <1>3
  <2> QED
    BY <1>7, <2>1 DEF Mid, InOrder
<1>11. OneWay(t)
  BY <1>7 DEF Mid, OneWay
<1>12. Drawn(t)
  BY <1>0, <1>2, <1>3, <1>6, <1>7 DEF Drawn
<1>13. ASSUME NEW u \in Ids
       PROVE  Request(t.vb[u], u, t.pending, t.cur.pixmap, t.due, H \ {v}, y, C)
  <2>1. Request(s.vb[u], u, s.pending, s.cur.pixmap, s.due, H, y, C)
    BY DEF Mid
  <2>2. CASE u # v
    <3>1. Lives(s.vb[u], u, None, s.cur.pixmap, y) => Lives(s.vb[u], u, v, s.cur.pixmap, y)
      BY <2>2, Names DEF Lives
    <3> QED
      BY <1>3, <1>7, <2>1, <2>2, <3>1 DEF Request
  <2>3. CASE u = v
    <3>1. r.window \in C /\ s.cur.pixmap # v
      BY <2>1, <2>3 DEF Request, Lives, Covered
    <3>2. Lives(b, v, v, s.cur.pixmap, y)
      BY <1>2, <3>1 DEF Lives
    <3>3. Awaited(b, v, s.due) /\ Covered(b, C)
      BY <1>2, <3>1 DEF Awaited, Covered
    <3> QED
      BY <1>2, <1>3, <1>7, <2>3, <3>2, <3>3 DEF Request
  <2> QED
    BY <2>2, <2>3
<1>14. Mid(t, H \ {v}, y, C)
  <2>1. y \in (H \ {v}) \cup {None}
    BY OneReported
  <2> QED
    BY <1>9, <1>10, <1>11, <1>12, <1>13, <2>1 DEF Mid
<1>15. Kept(s, t, v) /\ \A D : Shown(t, D)
  BY <1>0, <1>3, <1>6, <1>7 DEF Kept, Shown
<1> QED
  BY <1>14, <1>15 DEF t

-----------------------------------------------------------------------------
(* Calls.                                                                  *)

Good(s, H, y, C) == Mid(s, H, y, C) /\ Shown(s, C) /\ None \in C /\ msc \in Nat

LEMMA KeptTwice ==
    ASSUME NEW r, NEW s, NEW t, NEW v, Kept(r, s, v), Kept(s, t, v)
    PROVE  Kept(r, t, v)
  BY DEF Kept

LEMMA CopyDone ==
    ASSUME NEW s, NEW H, NEW y, NEW C, Good(s, H, y, C),
           NEW v \in Ids, v \in H, v # y, Copyable(s.vb[v])
    PROVE  LET t == Post(Idled(s, v), v, "copy")
           IN  Good(t, H \ {v}, y, C) /\ Kept(s, t, v)
<1> DEFINE r == s.vb[v]
           b == [r EXCEPT !.idled = @ + 1]
           u == Idled(s, v)
           t == Post(u, v, "copy")
<1>0. /\ Mid(s, H, y, C) /\ Typed(s) /\ r \in Vblank /\ r.window \in Living(s) \cup {None}
      /\ None \in C /\ Shown(s, C) /\ y \in H \cup {None}
  BY OneReported DEF Good, Mid, Typed
<1>1. u = With(s, v, b)
  BY DEF Idled, With
<1>2. /\ b \in Vblank /\ b.window = r.window /\ b.at = "none" /\ b.abort = r.abort
      /\ b.flip = r.flip /\ b.idled = 1 /\ b.completed = 0
  BY <1>0 DEF Vblank, Copyable
<1> HIDE DEF b, u
<1>3. s.cur.pixmap # v /\ s.pending # v
  BY <1>0 DEF Mid, Request, Lives, Copyable
<1>4. Request(b, v, s.pending, s.cur.pixmap, s.due, H, y, C)
  BY <1>2, <1>3 DEF Request, Lives, Covered, Copyable
<1>5. b.at # "flip" /\ r.at # "flip" /\ ~b.abort /\ b.window \in Living(s) \cup {None}
  BY <1>0, <1>2 DEF Copyable
<1>6. Mid(u, H, y, C)
  BY <1>0, <1>1, <1>2, <1>4, <1>5, WithMid
<1>7. u.vb[v] = b /\ u.cur = s.cur
  <2>1. LET w == With(s, v, b)
        IN  /\ w.vb = [s.vb EXCEPT ![v] = b] /\ w.vb[v] = b
            /\ \A x \in Ids \ {v} : w.vb[x] = s.vb[x]
            /\ w.queue = s.queue /\ w.pending = s.pending /\ w.unflip = s.unflip
            /\ w.cur = s.cur
    BY <1>0, WithFields
  <2> QED
    BY <1>1, <2>1
<1>8. Kept(s, u, v) /\ Shown(u, C)
  BY <1>0, <1>1, WithKept
<1>9. /\ Mid(t, H \ {v}, y, C) /\ \A D : Shown(u, D) => Shown(t, D)
      /\ Kept(u, t, v)
  <2>1. u.vb[v].idled = IF u.cur.pixmap = v THEN 0 ELSE 1
    BY <1>2, <1>3, <1>7
  <2>2. u.vb[v].at = "none" /\ u.vb[v].completed = 0 /\ y = IF v = y THEN None ELSE y
    BY <1>2, <1>7
  <2> QED
    BY <1>0, <1>6, <2>1, <2>2, PostMid
<1> HIDE DEF t
<1>10. Good(t, H \ {v}, y, C) /\ Kept(s, t, v)
  BY <1>0, <1>8, <1>9, KeptTwice DEF Good
<1> QED
  BY <1>10 DEF t, u

\* What present_unflip leaves behind, for a copy to the window that was flipped.
Unflips(s, v, U, H, y, C) ==
    s.pending = None /\ ~s.unflip /\ s.cur.window = s.vb[v].window =>
        \A u \in U : Good(u, H, y, C) /\ Kept(s, u, v) /\ u.vb[v].at = "none"

LEMMA CopyTargetGood ==
    ASSUME NEW s, NEW H, NEW y, NEW C, Good(s, H, y, C),
           NEW v \in Ids, v \in H, v # y, Copyable(s.vb[v]),
           NEW U, Unflips(s, v, U, H, y, C), NEW t \in CopyTarget(s, v, U)
    PROVE  Good(t, H, y, C) /\ Kept(s, t, v) /\ t.vb[v] = s.vb[v]
<1>0. /\ Mid(s, H, y, C) /\ Typed(s) /\ s.vb[v] \in Vblank
      /\ s.vb[v].window \in Living(s) \cup {None}
      /\ None \in C /\ y \in H \cup {None}
  BY OneReported DEF Good, Mid, Typed
<1>1. CASE t = s
  BY <1>1 DEF Kept
<1>2. CASE t = AbortFlip(s) /\ s.pending # None
  <2>1. v # s.pending
    BY <1>0 DEF Mid, Request, Lives, Copyable
  <2>2. /\ Mid(t, H, y, C) /\ Shown(t, C) /\ Kept(s, t, v)
        /\ \A x \in Ids \ {s.pending} : t.vb[x] = s.vb[x]
    BY <1>0, <1>2, AbortMid
  <2> QED
    BY <1>0, <2>1, <2>2 DEF Good
<1>3. ASSUME s.pending = None, ~s.unflip, s.cur.window = s.vb[v].window,
             NEW u \in U, t = [u EXCEPT !.vb[v] = s.vb[v]]
      PROVE  Good(t, H, y, C) /\ Kept(s, t, v) /\ t.vb[v] = s.vb[v]
  <2> DEFINE b == s.vb[v]
  <2>1. Good(u, H, y, C) /\ Kept(s, u, v) /\ u.vb[v].at = "none"
    BY <1>3 DEF Unflips
  <2>2. t = With(u, v, b)
    BY <1>3 DEF With
  <2>3. Mid(u, H, y, C) /\ Typed(u) /\ Living(u) = Living(s)
    BY <2>1 DEF Good, Mid, Kept, Living
  <2>4. Request(b, v, u.pending, u.cur.pixmap, u.due, H, y, C)
    <3>1. u.pending # v /\ u.cur.pixmap # v
      BY <2>1, <2>3 DEF Mid, Request, Lives
    <3> QED
      BY <3>1 DEF Request, Lives, Covered, Copyable
  <2>5. b.at # "flip" /\ u.vb[v].at # "flip" /\ ~b.abort /\ b.window \in Living(u) \cup {None}
    BY <1>0, <2>1, <2>3 DEF Copyable
  <2> HIDE DEF b
  <2>6. b \in Vblank
    BY <1>0 DEF b
  <2>7. Mid(With(u, v, b), H, y, C)
    BY <1>0, <2>3, <2>4, <2>5, <2>6, WithMid
  <2>8. Kept(u, With(u, v, b), v) /\ \A D : Shown(u, D) => Shown(With(u, v, b), D)
    BY <2>3, WithKept
  <2>9. With(u, v, b).vb[v] = b
    BY <2>3 DEF With, Typed
  <2> QED
    BY <1>0, <2>1, <2>2, <2>7, <2>8, <2>9, KeptTwice DEF Good, b
<1> QED
  BY <1>1, <1>2, <1>3 DEF CopyTarget

LEMMA CopiedGood ==
    ASSUME NEW s, NEW H, NEW y, NEW C, Good(s, H, y, C),
           NEW v \in Ids, v \in H, v # y, Copyable(s.vb[v]), NEW now \in Nat,
           NEW U, Unflips(s, v, U, H, y, C), NEW t \in Copied(s, v, now, U)
    PROVE  Good(t, H \ {v}, y, C) /\ Kept(s, t, v)
<1>1. PICK a \in CopyTarget(s, v, U) :
          \/ \E u \in Early(a, v, now) : t = [u EXCEPT !.vb[v].at = "exec"]
          \/ \E u \in OnTime(a, v, now) : t = Post(Idled(u, v), v, "copy")
  BY DEF Copied
<1>2. Good(a, H, y, C) /\ Kept(s, a, v) /\ Copyable(a.vb[v])
  BY CopyTargetGood
<1>3. CASE \E u \in Early(a, v, now) : t = [u EXCEPT !.vb[v].at = "exec"]
  <2>1. t = [QueueVblank(a, v) EXCEPT !.vb[v].at = "exec"]
    BY <1>3 DEF Early
  <2>2. /\ Mid(t, H \ {v}, y, C) /\ \A D : Shown(a, D) => Shown(t, D)
        /\ Kept(a, t, v)
    <3>1. Mid(a, H, y, C) /\ Typed(a)
      BY <1>2 DEF Good, Mid
    <3>2. a.vb[v].exec \in MSCs
      BY <1>3, <3>1, AheadIsAFrame DEF Early
    <3> QED
      BY <1>2, <2>1, <3>1, <3>2, ExecMid
  <2> QED
    BY <1>2, <2>2, KeptTwice DEF Good
<1>4. ASSUME NEW u \in OnTime(a, v, now), t = Post(Idled(u, v), v, "copy")
      PROVE  Good(t, H \ {v}, y, C) /\ Kept(s, t, v)
  <2>1. Good(u, H, y, C) /\ Kept(s, u, v) /\ Copyable(u.vb[v])
    <3>1. CASE u = a
      BY <1>2, <3>1
    <3>2. CASE u = Refused(a, v)
      <4> DEFINE b == [a.vb[v] EXCEPT !.refused = TRUE]
      <4>1. Mid(a, H, y, C) /\ Typed(a) /\ a.vb[v] \in Vblank
        BY <1>2 DEF Good, Mid, Typed
      <4>2. /\ u = With(a, v, b) /\ Mid(u, H, y, C) /\ (\A D : Shown(a, D) => Shown(u, D))
            /\ Kept(a, u, v)
        BY <3>2, <4>1, RefusedMid
      <4>3. u.vb[v] = b
        BY <4>1, <4>2 DEF With, Typed
      <4>4. Copyable(b)
        BY <1>2, <4>1 DEF Copyable, Vblank
      <4> QED
        BY <1>2, <4>2, <4>3, <4>4, KeptTwice DEF Good
    <3> QED
      BY <3>1, <3>2 DEF OnTime
  <2>2. Good(t, H \ {v}, y, C) /\ Kept(u, t, v)
    BY <1>4, <2>1, CopyDone
  <2> QED
    BY <2>1, <2>2, KeptTwice
<1> QED
  BY <1>1, <1>3, <1>4

\* States that differ in request v and in the queues only.
Alike(s, t, v) ==
    /\ t.pending = s.pending /\ t.unflip = s.unflip /\ t.cur = s.cur
    /\ DOMAIN t.pix = DOMAIN s.pix /\ t.missed = s.missed
    /\ t.vb[v].window = s.vb[v].window
    /\ \A u \in Ids \ {v} : t.vb[u] = s.vb[u]

LEMMA AlikeUnflips ==
    ASSUME NEW s, NEW t, NEW v, Alike(s, t, v), NEW U, NEW H, NEW y, NEW C,
           Unflips(s, v, U, H, y, C)
    PROVE  Unflips(t, v, U, H, y, C)
  BY DEF Unflips, Alike, Kept

LEMMA WithAlike ==
    ASSUME NEW s, Typed(s), NEW v \in Ids, NEW b, b.window = s.vb[v].window
    PROVE  Alike(s, With(s, v, b), v) /\ With(s, v, b).vb[v] = b
<1> DEFINE t == With(s, v, b)
<1>1. /\ t.vb = [s.vb EXCEPT ![v] = b] /\ t.vb[v] = b
      /\ \A u \in Ids \ {v} : t.vb[u] = s.vb[u]
      /\ t.queue = s.queue /\ t.pending = s.pending /\ t.unflip = s.unflip
      /\ t.cur = s.cur /\ t.pix = s.pix /\ t.due = s.due /\ t.flips = s.flips
      /\ t.missed = s.missed
  BY WithFields
<1> HIDE DEF t
<1>2. Alike(s, t, v) /\ t.vb[v] = b
  BY <1>1 DEF Alike
<1> QED
  BY <1>2 DEF t

LEMMA PerformedGood ==
    ASSUME NEW s, NEW H, NEW y, NEW C, Good(s, H, y, C),
           NEW v \in Ids, v \in H, s.vb[v].at \in {"exec", "flip"},
           ~MustWait(s, s.vb[v]), NEW now \in Nat,
           NEW U, Unflips(s, v, U, H, y, C), NEW t \in Performed(s, v, now, U)
    PROVE  Good(t, H \ {v}, y, C) /\ Kept(s, t, v)
<1> DEFINE b == s.vb[v]
           n == [b EXCEPT !.at = "none"]
           a == TakenOut(s, v)
           m == [[n EXCEPT !.flip = FALSE] EXCEPT !.exec = b.target]
           failed == [a EXCEPT !.vb[v].flip = FALSE, !.vb[v].exec = b.target]
<1>0. Mid(s, H, y, C) /\ Typed(s) /\ b \in Vblank /\ b.window \in Living(s) \cup {None} /\ v # y
  <2>1. Mid(s, H, y, C)
    BY DEF Good
  <2>2. v # y
    BY <2>1, OneReported
  <2> QED
    BY <2>1, <2>2 DEF Mid, Typed
<1>1. /\ Good(a, H, y, C) /\ Kept(s, a, v) /\ a.vb[v] = n /\ Changed(s, a, {v})
  <2>1. /\ Mid(a, H, y, C) /\ \A D : Shown(s, D) => Shown(a, D)
        /\ Kept(s, a, v)
        /\ a.vb[v] = n /\ Changed(s, a, {v})
    BY <1>0, TakenOutMid
  <2> QED
    BY <2>1 DEF Good
<1>2. /\ n \in Vblank /\ n.at = "none" /\ n.window = b.window /\ n.abort = b.abort
      /\ n.flip = b.flip /\ n.pixmap = b.pixmap /\ n.idled = b.idled
      /\ n.completed = b.completed /\ n.mode = b.mode
  BY <1>0 DEF Vblank
<1>3. Alike(s, a, v)
  BY <1>1, <1>2 DEF Alike, Changed
<1>4. Unflips(a, v, U, H, y, C)
  BY <1>3, AlikeUnflips
<1>5. /\ b.window # None /\ ~b.abort /\ b.idled = (IF b.pixmap THEN 0 ELSE 1)
      /\ b.completed = 0 /\ b.mode = "none" /\ a.cur.pixmap # v
  <2>1. Request(b, v, s.pending, s.cur.pixmap, s.due, H, y, C)
    BY <1>0 DEF Mid
  <2> QED
    BY <1>0, <1>3, <2>1 DEF Request, Lives, Alike
<1>6. CASE ~b.pixmap
  <2>1. t = Post(a, v, "skip")
    BY <1>6 DEF Performed
  <2>2. a.vb[v].idled = IF a.cur.pixmap = v THEN 0 ELSE 1
    BY <1>1, <1>2, <1>5, <1>6
  <2>3. Mid(a, H, y, C) /\ None \in C /\ a.vb[v].at = "none" /\ a.vb[v].completed = 0
    BY <1>1, <1>2, <1>5 DEF Good
  <2> HIDE DEF a
  <2>4. /\ Mid(Post(a, v, "skip"), H \ {v}, y, C)
        /\ \A D : Shown(a, D) => Shown(Post(a, v, "skip"), D)
        /\ Kept(a, Post(a, v, "skip"), v)
    BY <1>0, <2>2, <2>3, PostMid
  <2> QED
    BY <1>1, <2>1, <2>4, KeptTwice DEF Good
<1>7. CASE b.pixmap /\ ~b.flip
  <2>1. t \in Copied(a, v, now, U)
    BY <1>7 DEF Performed
  <2>2. Copyable(a.vb[v])
    BY <1>1, <1>2, <1>5, <1>7 DEF Copyable
  <2> HIDE DEF a
  <2>3. Good(t, H \ {v}, y, C) /\ Kept(a, t, v)
    BY <1>0, <1>1, <1>4, <2>1, <2>2, CopiedGood
  <2> QED
    BY <1>1, <2>3, KeptTwice
<1>8. CASE b.pixmap /\ b.flip
  <2>1. s.pending = None /\ ~s.unflip
    BY <1>8 DEF MustWait
  <2>2. t = Flipped(a, v) \/ t \in Copied(failed, v, now, U)
    BY <1>8 DEF Performed
  <2>3. CASE t = Flipped(a, v)
    <3>1. /\ Mid(a, H, y, C) /\ None \in C /\ a.vb[v].at = "none" /\ a.vb[v].completed = 0
          /\ a.vb[v].mode = "none" /\ a.vb[v].idled = 0 /\ a.vb[v].pixmap /\ a.vb[v].flip
          /\ ~a.vb[v].abort /\ a.vb[v].window # None /\ a.pending = None /\ ~a.unflip
      BY <1>1, <1>2, <1>3, <1>5, <1>8, <2>1 DEF Good, Alike
    <3> HIDE DEF a
    <3>2. /\ Mid(Flipped(a, v), H \ {v}, y, C) /\ \A D : Shown(Flipped(a, v), D)
          /\ Kept(a, Flipped(a, v), v)
      BY <1>0, <3>1, FlippedMid
    <3> QED
      BY <1>1, <2>3, <3>1, <3>2, KeptTwice DEF Good
  <2>4. CASE t \in Copied(failed, v, now, U)
    <3>1. failed = With(a, v, m)
      <4>1. failed = With(a, v, [[a.vb[v] EXCEPT !.flip = FALSE] EXCEPT !.exec = b.target])
        <5>1. Typed(a)
          BY <1>1 DEF Good, Mid
        <5> HIDE DEF a
        <5> QED
          BY <5>1 DEF With, Typed
      <4> QED
        BY <1>1, <4>1
    <3>2. /\ m \in Vblank /\ m.window = b.window /\ m.at = "none" /\ ~m.abort /\ ~m.flip
          /\ m.pixmap /\ m.idled = 0 /\ m.completed = 0 /\ m.mode = "none"
      <4> DEFINE k == [n EXCEPT !.flip = FALSE]
      <4>1. /\ k \in Vblank /\ k.window = b.window /\ k.at = "none" /\ ~k.abort /\ ~k.flip
            /\ k.pixmap /\ k.idled = 0 /\ k.completed = 0 /\ k.mode = "none"
        BY <1>2, <1>5, <1>8 DEF Vblank
      <4>2. m = [k EXCEPT !.exec = b.target] /\ b.target \in MSCs
        BY <1>0 DEF Vblank
      <4> HIDE DEF k, m
      <4> QED
        BY <4>1, <4>2 DEF Vblank
    <3> HIDE DEF m, failed, a, n
    <3>3. Mid(a, H, y, C) /\ Typed(a) /\ Shown(a, C) /\ None \in C
      BY <1>1 DEF Good, Mid
    <3>4. Request(m, v, a.pending, a.cur.pixmap, a.due, H, y, C)
      <4>1. Request(a.vb[v], v, a.pending, a.cur.pixmap, a.due, H, y, C)
        BY <3>3 DEF Mid
      <4> QED
        BY <1>0, <1>1, <1>2, <3>2, <4>1 DEF Request, Lives, Covered
    <3>5. m.at # "flip" /\ a.vb[v].at # "flip" /\ m.window \in Living(a) \cup {None} /\ y \in H \cup {None}
      BY <1>0, <1>1, <1>2, <3>2, OneReported DEF Changed, Living
    <3>6. Mid(With(a, v, m), H, y, C)
      BY <3>2, <3>3, <3>4, <3>5, WithMid
    <3>7. /\ Kept(a, With(a, v, m), v)
          /\ \A D : Shown(a, D) => Shown(With(a, v, m), D)
      BY <3>3, WithKept
    <3>8. Alike(a, With(a, v, m), v) /\ With(a, v, m).vb[v] = m
      <4>1. m.window = a.vb[v].window
        BY <1>1, <1>2, <3>2
      <4> QED
        BY <3>3, <4>1, WithAlike
    <3>9. Good(failed, H, y, C) /\ Kept(a, failed, v) /\ Copyable(failed.vb[v])
      BY <1>5, <3>1, <3>2, <3>3, <3>6, <3>7, <3>8 DEF Good, Copyable
    <3>10. Unflips(failed, v, U, H, y, C)
      BY <1>4, <3>1, <3>8, AlikeUnflips
    <3>11. Good(t, H \ {v}, y, C) /\ Kept(failed, t, v)
      BY <1>0, <2>4, <3>9, <3>10, CopiedGood
    <3>12. Kept(a, t, v)
      BY <3>9, <3>11, KeptTwice
    <3> QED
      BY <1>1, <3>11, <3>12, KeptTwice
  <2> QED
    BY <2>2, <2>3, <2>4
<1> QED
  BY <1>6, <1>7, <1>8

LEMMA ExecutedGood ==
    ASSUME NEW s, NEW H, NEW y, NEW C, Good(s, H, y, C),
           NEW v \in Ids, v \in H, s.vb[v].at \in {"exec", "flip", "pending"}, NEW now \in Nat,
           NEW U, Unflips(s, v, U, H, y, C), NEW t \in Executed(s, v, now, U)
    PROVE  Good(t, H \ {v}, y, C) /\ \A w : Kept(s, t, w)
<1>0. Mid(s, H, y, C)
  BY DEF Good
<1>1. CASE t \in Early(s, v, now)
  <2>1. t = QueueVblank(s, v)
    BY <1>1 DEF Early
  <2>2. /\ \A D : Shown(s, D) => Shown(t, D)
        /\ Mid(t, H \ {v}, y, C) /\ Kept(s, t, v)
    <3>1. s.vb[v].exec \in MSCs
      BY <1>0, <1>1, AheadIsAFrame DEF Early, Mid
    <3> QED
      BY <1>0, <2>1, <3>1, OwedMid
  <2> QED
    BY <2>2 DEF Good, Kept
<1>2. ASSUME NEW a \in OnTime(s, v, now),
             t \in (IF FenceWaits(a.vb[v]) THEN {[a EXCEPT !.vb[v].callback = TRUE]}
                    ELSE IF MustWait(a, a.vb[v]) THEN {WaitForFlip(a, v)}
                    ELSE Performed(a, v, now, U))
      PROVE  Good(t, H \ {v}, y, C) /\ Kept(s, t, v)
  <2>1. /\ Good(a, H, y, C) /\ Kept(s, a, v) /\ a.vb[v].at = s.vb[v].at
        /\ Unflips(a, v, U, H, y, C)
    <3>1. CASE a = s
      BY <3>1 DEF Kept
    <3>2. CASE a = Refused(s, v)
      <4> DEFINE b == [s.vb[v] EXCEPT !.refused = TRUE]
      <4>1. Typed(s) /\ s.vb[v] \in Vblank
        BY <1>0 DEF Mid, Typed
      <4>2. /\ a = With(s, v, b) /\ Mid(a, H, y, C) /\ (\A D : Shown(s, D) => Shown(a, D))
            /\ Kept(s, a, v)
        BY <1>0, <3>2, RefusedMid
      <4>3. b.at = s.vb[v].at /\ b.window = s.vb[v].window
        BY <4>1 DEF Vblank
      <4> HIDE DEF b
      <4>4. Alike(s, a, v) /\ a.vb[v] = b
        BY <4>1, <4>2, <4>3, WithAlike
      <4> QED
        BY <4>2, <4>3, <4>4, AlikeUnflips DEF Good
    <3> QED
      BY <3>1, <3>2 DEF OnTime
  <2>2. Mid(a, H, y, C)
    BY <2>1 DEF Good
  <2>3. CASE FenceWaits(a.vb[v])
    <3>1. t = [a EXCEPT !.vb[v].callback = TRUE]
      BY <1>2, <2>3
    <3>2. /\ Mid(t, H \ {v}, y, C) /\ \A D : Shown(a, D) => Shown(t, D)
          /\ Kept(a, t, v)
      BY <2>1, <2>2, <2>3, <3>1, CallbackMid
    <3> QED
      BY <2>1, <3>2, KeptTwice DEF Good
  <2>4. CASE ~FenceWaits(a.vb[v]) /\ MustWait(a, a.vb[v])
    <3>1. t = WaitForFlip(a, v)
      BY <1>2, <2>4
    <3>2. /\ Mid(t, H \ {v}, y, C) /\ \A D : Shown(a, D) => Shown(t, D)
          /\ Kept(a, t, v)
      BY <2>1, <2>2, <3>1, WaitMid
    <3> QED
      BY <2>1, <3>2, KeptTwice DEF Good
  <2>5. CASE ~FenceWaits(a.vb[v]) /\ ~MustWait(a, a.vb[v])
    <3>1. a.vb[v].at # "pending"
      <4>1. Request(a.vb[v], v, a.pending, a.cur.pixmap, a.due, H, y, C)
        BY <2>2 DEF Mid
      <4> QED
        BY <2>5, <4>1, Names DEF Request, Lives, MustWait
    <3>2. t \in Performed(a, v, now, U)
      BY <1>2, <2>5
    <3>3. Good(t, H \ {v}, y, C) /\ Kept(a, t, v)
      BY <2>1, <2>5, <3>1, <3>2, PerformedGood
    <3> QED
      BY <2>1, <3>3, KeptTwice
  <2> QED
    BY <2>3, <2>4, <2>5
<1>3. CASE Good(t, H \ {v}, y, C) /\ Kept(s, t, v)
  BY <1>3 DEF Kept
<1> QED
  BY <1>1, <1>2, <1>3 DEF Executed

LEMMA MoreGood ==
    ASSUME NEW s, NEW H, NEW y, NEW C, Good(s, H, y, C), NEW G, H \subseteq G
    PROVE  Good(s, G, y, C)
<1>1. y \in G \cup {None} /\ Mid(s, H, y, C)
  BY OneReported DEF Good
<1>2. Mid(s, G, y, C)
  BY <1>1, MoreInHand
<1> QED
  BY <1>2 DEF Good

\* The first of the flip queue is tried, with nothing to unflip.
LEMMA TryUnflippedGood ==
    ASSUME NEW s, NEW H, NEW y, NEW C, Good(s, H, y, C), NEW t \in TryUnflipped(s)
    PROVE  Good(t, H, y, C) /\ \A w : Kept(s, t, w)
<1>1. CASE t = s
  BY <1>1 DEF Kept
<1>2. ASSUME NEW v \in FirstToFlip(s), t \in Executed(s, v, msc, {})
      PROVE  Good(t, H, y, C) /\ \A w : Kept(s, t, w)
  <2>1. v \in Ids /\ s.vb[v].at = "flip"
    BY DEF FirstToFlip, Good, Mid, InOrder
  <2>2. Good(s, H \cup {v}, y, C)
    BY MoreGood
  <2>3. Unflips(s, v, {}, H \cup {v}, y, C)
    BY DEF Unflips
  <2>4. v \in H \cup {v} /\ msc \in Nat
    BY DEF Good
  <2>5. Good(t, (H \cup {v}) \ {v}, y, C) /\ \A w : Kept(s, t, w)
    <3> DEFINE G == H \cup {v}
    <3>1. Good(s, G, y, C) /\ Unflips(s, v, {}, G, y, C) /\ v \in G
      BY <2>2, <2>3
    <3> HIDE DEF G
    <3>2. Good(t, G \ {v}, y, C) /\ \A w : Kept(s, t, w)
      BY <1>2, <2>1, <2>4, <3>1, ExecutedGood
    <3> QED
      BY <3>2 DEF G
  <2> QED
    <3> DEFINE G == (H \cup {v}) \ {v}
    <3>1. G \subseteq H /\ Good(t, G, y, C)
      BY <2>5
    <3> HIDE DEF G
    <3>2. Good(t, H, y, C)
      BY <3>1, MoreGood
    <3> QED
      BY <2>5, <3>2
<1> QED
  BY <1>1, <1>2 DEF TryUnflipped

LEMMA UnflippedGood ==
    ASSUME NEW s, NEW H, NEW y, NEW C, Mid(s, H, y, C), None \in C, msc \in Nat,
           s.pending = None, ~s.unflip, s.cur.pixmap # None, NEW t \in Unflipped(s)
    PROVE  Good(t, H, y, C) /\ \A w : Kept(s, t, w)
<1> DEFINE r == Restored(s)
<1>1. /\ Mid(r, H, y, C) /\ (\A w : Kept(s, r, w)) /\ r.pending = None /\ ~r.unflip
      /\ r.cur = s.cur /\ r.pix[Root] = Screen
  BY RestoredMid
<1>2. t = [r EXCEPT !.unflip = TRUE] \/ t \in TryUnflipped(FlipIdle(r))
  BY DEF Unflipped
<1> HIDE DEF r
<1>3. CASE t = [r EXCEPT !.unflip = TRUE]
  <2>1. /\ t.vb = r.vb /\ t.queue = r.queue /\ t.pending = r.pending /\ t.unflip
        /\ t.unflip \in BOOLEAN
        /\ t.cur = r.cur /\ t.pix = r.pix /\ t.due = r.due /\ t.flips = r.flips
        /\ t.missed = r.missed
        /\ t = [vb |-> t.vb, queue |-> t.queue, pending |-> t.pending,
                unflip |-> t.unflip, cur |-> t.cur, pix |-> t.pix, due |-> t.due,
                flips |-> t.flips, missed |-> t.missed]
    BY <1>1, <1>3 DEF Mid, Typed
  <2>2. Typed(t) /\ InOrder(t) /\ OneWay(t) /\ Drawn(t)
    BY <1>1, <2>1 DEF Mid, Typed, Living, InOrder, OneWay, Drawn
  <2>3. Mid(t, H, y, C)
    BY <1>1, <2>1, <2>2 DEF Mid
  <2>4. Shown(t, C) /\ \A w : Kept(s, t, w)
    BY <1>1, <2>1 DEF Shown, Kept
  <2> QED
    BY <2>3, <2>4 DEF Good
<1>4. CASE t \in TryUnflipped(FlipIdle(r))
  <2> DEFINE f == FlipIdle(r)
  <2>1. Mid(f, H, y, C) /\ Shown(f, C) /\ \A w : Kept(r, f, w)
    BY <1>1, FlipIdleMid
  <2> HIDE DEF f
  <2>2. Good(f, H, y, C)
    BY <2>1 DEF Good
  <2>3. Good(t, H, y, C) /\ \A w : Kept(f, t, w)
    BY <1>4, <2>2, TryUnflippedGood DEF f
  <2> QED
    BY <1>1, <2>1, <2>3 DEF Kept
<1> QED
  BY <1>2, <1>3, <1>4

\* Whatever has to be unflipped for a copy: present_execute.
LEMMA ExecuteGood ==
    ASSUME NEW s, NEW H, NEW y, NEW C, Good(s, H, y, C),
           NEW v \in Ids, v \in H, s.vb[v].at \in {"exec", "flip", "pending"},
           NEW now \in Nat, NEW t \in Execute(s, v, now)
    PROVE  Good(t, H \ {v}, y, C) /\ \A w : Kept(s, t, w)
<1> DEFINE a == TakenOut(s, v)
           U == Unflipped(a)
<1>1. Unflips(s, v, U, H, y, C)
  <2> SUFFICES ASSUME s.pending = None, ~s.unflip, s.cur.window = s.vb[v].window,
                      NEW u \in U
               PROVE  Good(u, H, y, C) /\ Kept(s, u, v) /\ u.vb[v].at = "none"
    BY DEF Unflips
  <2>1. Mid(s, H, y, C) /\ None \in C /\ msc \in Nat /\ s.vb[v] \in Vblank
    BY DEF Good, Mid, Typed
  <2>2. s.vb[v].at # "pending" /\ s.vb[v].window # None
    BY <2>1, Names DEF Mid, Request, Lives
  <2>3. s.cur.pixmap # None
    BY <2>1, <2>2 DEF Mid, OneWay
  <2>4. /\ Mid(a, H, y, C) /\ Kept(s, a, v) /\ a.vb[v] = [s.vb[v] EXCEPT !.at = "none"]
        /\ Changed(s, a, {v})
    BY <2>1, <2>2, TakenOutMid
  <2> HIDE DEF a
  <2>5. a.vb[v].at = "none" /\ a.pending = None /\ ~a.unflip /\ a.cur.pixmap # None
    BY <2>1, <2>3, <2>4 DEF Changed, Vblank
  <2>6. Good(u, H, y, C) /\ \A w : Kept(a, u, w)
    BY <2>1, <2>4, <2>5, UnflippedGood
  <2>7. u.vb[v].at = "none"
    <3>1. Kept(a, u, None) /\ v # None
      BY <2>6, Names
    <3> QED
      BY <2>5, <3>1 DEF Kept
  <2> QED
    BY <2>4, <2>6, <2>7, KeptTwice
<1>2. t \in Executed(s, v, now, U)
  BY DEF Execute
<1> HIDE DEF U
<1> QED
  BY <1>1, <1>2, ExecutedGood

LEMMA TryReadyGood ==
    ASSUME NEW s, NEW H, NEW y, NEW C, Good(s, H, y, C), NEW t \in TryReady(s)
    PROVE  Good(t, H, y, C) /\ \A w : Kept(s, t, w)
<1>1. CASE t = s
  BY <1>1 DEF Kept
<1>2. ASSUME NEW v \in FirstToFlip(s), t \in Execute(s, v, msc)
      PROVE  Good(t, H, y, C) /\ \A w : Kept(s, t, w)
  <2>1. v \in Ids /\ s.vb[v].at = "flip"
    BY DEF FirstToFlip, Good, Mid, InOrder
  <2> DEFINE G == H \cup {v}
  <2>2. Good(s, G, y, C) /\ v \in G
    BY MoreGood
  <2>3. G \ {v} \subseteq H /\ msc \in Nat
    BY DEF Good
  <2> HIDE DEF G
  <2>4. Good(t, G \ {v}, y, C) /\ \A w : Kept(s, t, w)
    BY <1>2, <2>1, <2>2, <2>3, ExecuteGood
  <2>5. Good(t, H, y, C)
    BY <2>3, <2>4, MoreGood
  <2> QED
    BY <2>4, <2>5
<1> QED
  BY <1>1, <1>2 DEF TryReady

\* present_flip_notify, up to the answer to the flip's own abort.
Reported(s, v) ==
    [FlipIdle(s) EXCEPT !.cur = [window |-> s.vb[v].window, pixmap |-> v],
                        !.pending = None, !.vb[v].at = "none"]

LEMMA ReportedMid ==
    ASSUME NEW s, NEW C, Good(s, {}, None, C), NEW v \in Ids, v = s.pending
    PROVE  LET t == Reported(s, v)
           IN  /\ Mid(t, {v}, v, C) /\ (~s.vb[v].abort => Shown(t, C))
               /\ Kept(s, t, v)
               /\ t.pending = None /\ ~t.unflip /\ t.cur.pixmap # None
<1> DEFINE f == FlipIdle(s)
           r == f.vb[v]
           b == [r EXCEPT !.at = "none"]
           g == [f.vb EXCEPT ![v] = b]
           k == [window |-> s.vb[v].window, pixmap |-> v]
           t == Reported(s, v)
<1>0. Mid(s, {}, None, C) /\ None \in C /\ Typed(s) /\ v # None
  BY Names DEF Good, Mid
<1>1. Request(s.vb[v], v, v, s.cur.pixmap, s.due, {}, None, C) /\ s.vb[v].at = "pending"
  BY <1>0 DEF Mid, Request, Lives
<1>2. v # s.cur.pixmap /\ ~s.unflip
  BY <1>0, <1>1 DEF Request, Lives, Mid, OneWay
<1>3. /\ Mid(f, {}, None, C) /\ (\A w : Kept(s, f, w)) /\ f.pending = v /\ ~f.unflip
      /\ f.cur = NoFlip /\ f.pix = s.pix /\ r = s.vb[v]
  BY <1>0, <1>2, FlipIdleMid
<1>4. t = [f EXCEPT !.cur = k, !.pending = None, !.vb = g]
  BY DEF Reported
<1> HIDE DEF f
<1>5. /\ b \in Vblank /\ b.window = r.window /\ b.at = "none" /\ b.abort = r.abort
      /\ b.flip = r.flip /\ b.pixmap = r.pixmap /\ b.idled = r.idled
      /\ b.completed = r.completed /\ b.mode = r.mode
  BY <1>3 DEF Mid, Typed, Vblank
<1>6. g \in [Ids -> Vblank] /\ g[v] = b /\ \A u \in Ids \ {v} : g[u] = f.vb[u]
  BY <1>3, <1>5 DEF Mid, Typed
<1>7. k \in [window : Living(f) \cup {None}, pixmap : Ids \cup {None}] /\ k.pixmap = v /\ k.window = r.window
  BY <1>3 DEF Mid, Typed
<1> HIDE DEF b, g, k, t
<1>8. /\ t.vb = g /\ t.queue = f.queue /\ t.pending = None /\ t.unflip = f.unflip
      /\ t.cur = k /\ t.pix = f.pix /\ t.due = f.due /\ t.flips = f.flips
      /\ t.missed = f.missed
      /\ t = [vb |-> t.vb, queue |-> t.queue, pending |-> t.pending,
              unflip |-> t.unflip, cur |-> t.cur, pix |-> t.pix, due |-> t.due,
              flips |-> t.flips, missed |-> t.missed]
  BY <1>3, <1>4 DEF Mid, Typed
<1> HIDE DEF r
<1>9. \A u \in Ids : g[u].window = f.vb[u].window /\ (u # v => g[u].at = f.vb[u].at)
  BY <1>5, <1>6 DEF r
<1>10. Typed(t)
  BY <1>3, <1>6, <1>7, <1>8, <1>9 DEF Mid, Typed, Living
<1>11. InOrder(t)
  <2>1. r.at = "pending" /\ f.vb[v] = r
    BY <1>1, <1>3 DEF r
  <2>2. \A u \in Ids : g[u].at = "flip" <=> f.vb[u].at = "flip"
    BY <1>5, <1>6, <2>1
  <2> QED
    BY <1>3, <1>8, <2>2 DEF Mid, InOrder
<1>12. OneWay(t)
  BY <1>0, <1>3, <1>7, <1>8 DEF OneWay
<1>13. Drawn(t)
  <2>1. Drawn(f)
    BY <1>3 DEF Mid
  <2>2. \/ f.pix[Root] = Screen
        \/ f.pix[Root] = v /\ ~f.vb[v].abort
    BY <1>0, <1>3, <2>1 DEF Drawn
  <2> QED
    BY <1>3, <1>7, <1>8, <2>1, <2>2 DEF Drawn
<1>14. ASSUME NEW u \in Ids
       PROVE  Request(t.vb[u], u, t.pending, t.cur.pixmap, t.due, {v}, v, C)
  <2>0. u # None
    BY Names
  <2>1. Request(f.vb[u], u, v, None, f.due, {}, None, C)
    BY <1>3 DEF Mid, NoFlip
  <2>2. CASE u # v
    <3>1. Lives(f.vb[u], u, v, None, None) => Lives(f.vb[u], u, None, v, v)
      BY <2>0, <2>2 DEF Lives
    <3> QED
      BY <1>6, <1>7, <1>8, <2>0, <2>1, <2>2, <3>1 DEF Request
  <2>3. CASE u = v
    <3>1. r.idled = 0 /\ r.completed = 0
      BY <1>1, <1>3 DEF Request, Lives
    <3>2. Lives(b, v, None, v, v)
      BY <1>0, <1>5, <3>1 DEF Lives
    <3> QED
      BY <1>6, <1>7, <1>8, <2>3, <3>2 DEF Request
  <2> QED
    BY <2>2, <2>3
<1>15. Mid(t, {v}, v, C)
  BY <1>10, <1>11, <1>12, <1>13, <1>14 DEF Mid
<1>16. ~s.vb[v].abort => Shown(t, C)
  <2>1. ~s.vb[v].abort => r.window \in C
    BY <1>0, <1>1, <1>3 DEF Request, Covered
  <2> QED
    BY <1>7, <1>8, <2>1 DEF Shown
<1>17. Kept(s, t, v)
  <2>1. Kept(s, f, v)
    BY <1>3
  <2> QED
    BY <1>8, <1>9, <2>1 DEF Kept
<1> QED
  BY <1>0, <1>3, <1>7, <1>8, <1>15, <1>16, <1>17 DEF t

LEMMA FlipNotifyGood ==
    ASSUME NEW s, NEW C, Good(s, {}, None, C), NEW v \in Ids, v = s.pending,
           NEW t \in FlipNotify(s, v)
    PROVE  Good(t, {}, None, C) /\ \A w : Kept(s, t, w)
<1> DEFINE b == s.vb[v]
           a == Reported(s, v)
           End(u) == IF b.window = None THEN Destroyed(u, {v}, "dropped") ELSE Post(u, v, "flip")
<1>1. PICK u \in (IF b.abort THEN Unflipped(a) ELSE {a}) : t \in TryReady(End(u))
  BY DEF FlipNotify, Reported
<1>2. /\ Mid(a, {v}, v, C) /\ (~b.abort => Shown(a, C)) /\ Kept(s, a, v) /\ None \in C
      /\ a.pending = None /\ ~a.unflip /\ a.cur.pixmap # None
  BY ReportedMid DEF Good
<1>3. Good(u, {v}, v, C) /\ Kept(a, u, v)
  <2> HIDE DEF a
  <2>1. CASE b.abort
    <3>1. u \in Unflipped(a)
      BY <1>1, <2>1
    <3> QED
      BY <1>2, <3>1, UnflippedGood DEF Good
  <2>2. CASE ~b.abort
    BY <1>1, <1>2, <2>2 DEF Good, Kept
  <2> QED
    BY <2>1, <2>2
<1>4. /\ u.vb[v].at = "none" /\ u.vb[v].completed = 0
      /\ u.vb[v].idled = (IF u.cur.pixmap = v THEN 0 ELSE 1)
      /\ Mid(u, {v}, v, C) /\ Typed(u) /\ InOrder(u) /\ None \in C /\ Shown(u, C)
  BY <1>3 DEF Good, Mid, Request, Lives
<1> HIDE DEF a
<1>5. Good(End(u), {}, None, C) /\ Kept(u, End(u), v)
  <2>1. {v} \ {v} = {}
    OBVIOUS
  <2>2. CASE b.window = None
    <3> DEFINE d == Destroyed(u, {v}, "dropped")
    <3>1. /\ (\A x : (\A y \in {v} : y = x \/ u.vb[y].at # "none") => Kept(u, d, x))
          /\ (\A D : Shown(u, D) => Shown(d, D))
      BY <1>4, DestroyedFields
    <3>2. Mid(d, {v} \ {v}, None, C)
      <4>1. \A x \in Ids \cap {v} :
               /\ u.vb[x].at # "pending" /\ u.vb[x].completed = IF "dropped" = "gone" THEN 1 ELSE 0
               /\ u.vb[x].idled = (IF u.cur.pixmap = x THEN 0 ELSE 1)
                  \/ ("dropped" = "dropped" /\ u.vb[x].idled = 0)
        BY <1>4
      <4>2. None \notin {v} /\ v \in {v} /\ "dropped" \in {"gone", "dropped"}
        BY Names
      <4> QED
        BY <1>4, <4>1, <4>2, DestroyedMid
    <3> HIDE DEF d
    <3>3. Kept(u, d, v) /\ Shown(d, C)
      BY <1>4, <3>1
    <3>4. End(u) = d
      BY <2>2 DEF d
    <3> QED
      BY <1>4, <2>1, <3>2, <3>3, <3>4 DEF Good
  <2>3. CASE b.window # None
    <3> DEFINE d == Post(u, v, "flip")
    <3>1. Mid(d, {v} \ {v}, None, C) /\ (\A D : Shown(u, D) => Shown(d, D)) /\ Kept(u, d, v)
      <4>1. v \in {v} /\ "flip" \in {"copy", "skip", "flip"} /\ None = IF v = v THEN None ELSE v
        OBVIOUS
      <4> QED
        BY <1>4, <4>1, PostMid
    <3> HIDE DEF d
    <3>2. End(u) = d
      BY <2>3 DEF d
    <3> QED
      BY <1>4, <2>1, <3>1, <3>2 DEF Good
  <2> QED
    BY <2>2, <2>3
<1> HIDE DEF End
<1>6. Good(t, {}, None, C) /\ \A w : Kept(End(u), t, w)
  BY <1>1, <1>5, TryReadyGood
<1>7. Kept(s, t, v)
  BY <1>2, <1>3, <1>5, <1>6, KeptTwice
<1>8. s.vb[v].at = "pending"
  BY DEF Good, Mid, Request, Lives
<1> QED
  BY <1>6, <1>7, <1>8 DEF Kept
-----------------------------------------------------------------------------
(* What calls the screen: the driver.                                      *)

\* A request that is not on the exec queue need not be waited for.
LEMMA OutOfHand ==
    ASSUME NEW s, NEW H, NEW y, NEW C, Good(s, H, y, C), NEW v \in Ids,
           s.vb[v].at \notin {"none", "exec"}
    PROVE  Good(s, H \ {v}, y, C)
<1>1. ASSUME NEW u \in Ids
      PROVE  Request(s.vb[u], u, s.pending, s.cur.pixmap, s.due, H \ {v}, y, C)
  <2>1. Request(s.vb[u], u, s.pending, s.cur.pixmap, s.due, H, y, C)
    BY DEF Good, Mid
  <2>2. u \notin H \ {v} => u \notin H \/ (s.vb[u].at # "exec" /\ s.vb[u].at # "none")
    OBVIOUS
  <2> QED
    BY <2>1, <2>2 DEF Request, Awaited
<1>2. y \in (H \ {v}) \cup {None}
  BY OneReported DEF Good
<1> QED
  BY <1>1, <1>2 DEF Good, Mid

LEMMA EventNotifyGood ==
    ASSUME NEW s, NEW C, NEW v \in Ids, Good(s, {v}, None, C),
           s.vb[v].at # "exec" => Good(s, {}, None, C),
           NEW now \in Nat, NEW t \in EventNotify(s, v, now)
    PROVE  Good(t, {}, None, C) /\ \A w : Kept(s, t, w)
<1>1. CASE v \in Queued(s)
  <2>1. t \in Execute(s, v, now) /\ s.vb[v].at \in {"exec", "flip", "pending"} /\ v \in {v}
    BY <1>1 DEF EventNotify, Queued
  <2>2. Good(t, {v} \ {v}, None, C) /\ \A w : Kept(s, t, w)
    BY <2>1, ExecuteGood
  <2>3. {v} \ {v} = {}
    OBVIOUS
  <2> QED
    BY <2>2, <2>3
<1>2. CASE v \notin Queued(s)
  <2>1. Good(s, {}, None, C)
    BY <1>2 DEF Queued
  <2>2. CASE v = s.pending
    BY <1>2, <2>1, <2>2, FlipNotifyGood DEF EventNotify
  <2>3. CASE v # s.pending
    <3>1. t = s
      BY <1>2, <2>3 DEF EventNotify
    <3> QED
      BY <2>1, <3>1 DEF Kept
  <2> QED
    BY <2>2, <2>3
<1> QED
  BY <1>1, <1>2

\* The driver has sent the event e.
Sent(s, e) == [s EXCEPT !.due = @ \ {e}]

LEMMA SentGood ==
    ASSUME NEW s, NEW C, Good(s, {}, None, C), NEW e \in s.due
    PROVE  LET t == Sent(s, e)
           IN  /\ Good(t, {e.id}, None, C) /\ (t.vb[e.id].at # "exec" => Good(t, {}, None, C))
               /\ e.id \in Ids /\ \A w : Kept(s, t, w)
<1> DEFINE t == Sent(s, e)
           D == s.due \ {e}
<1>0. Typed(s) /\ Mid(s, {}, None, C) /\ Shown(s, C) /\ None \in C /\ e.id \in Ids
  BY DEF Good, Mid, Typed
<1>1. t = [s EXCEPT !.due = D]
  BY DEF Sent
<1> HIDE DEF t
<1>2. /\ t.vb = s.vb /\ t.queue = s.queue /\ t.pending = s.pending /\ t.unflip = s.unflip
      /\ t.cur = s.cur /\ t.pix = s.pix /\ t.due = D /\ t.flips = s.flips
      /\ t.missed = s.missed
      /\ t = [vb |-> t.vb, queue |-> t.queue, pending |-> t.pending,
              unflip |-> t.unflip, cur |-> t.cur, pix |-> t.pix, due |-> t.due,
              flips |-> t.flips, missed |-> t.missed]
  BY <1>0, <1>1 DEF Typed
<1>3. Typed(t) /\ InOrder(t) /\ OneWay(t) /\ Drawn(t)
  BY <1>0, <1>2 DEF Mid, Typed, Living, InOrder, OneWay, Drawn
<1>4. ASSUME NEW u \in Ids
      PROVE  /\ Request(t.vb[u], u, t.pending, t.cur.pixmap, t.due, {e.id}, None, C)
             /\ t.vb[e.id].at # "exec" =>
                    Request(t.vb[u], u, t.pending, t.cur.pixmap, t.due, {}, None, C)
  <2>1. Request(s.vb[u], u, s.pending, s.cur.pixmap, s.due, {}, None, C)
    BY <1>0 DEF Mid
  <2>2. u # e.id => Awaited(t.vb[u], u, D)
    <3>1. u # e.id => \A d \in s.due : d.id = u => d \in D
      OBVIOUS
    <3>2. Awaited(s.vb[u], u, s.due)
      BY <2>1 DEF Request
    <3> HIDE DEF D
    <3> QED
      BY <1>2, <3>1, <3>2 DEF Awaited
  <2>3. t.vb[u].at # "exec" => Awaited(t.vb[u], u, D)
    BY DEF Awaited
  <2> HIDE DEF D
  <2> QED
    BY <1>2, <2>1, <2>2, <2>3 DEF Request
<1>5. Mid(t, {e.id}, None, C) /\ (t.vb[e.id].at # "exec" => Mid(t, {}, None, C))
  BY <1>3, <1>4 DEF Mid
<1>6. Shown(t, C) /\ \A w : Kept(s, t, w)
  BY <1>0, <1>2 DEF Shown, Kept
<1> QED
  BY <1>0, <1>5, <1>6 DEF Good, t

\* The driver has reported the flip of v.
Done(s, v) == [s EXCEPT !.flips = @ \ {v}]

LEMMA DoneGood ==
    ASSUME NEW s, NEW C, Good(s, {}, None, C), NEW v
    PROVE  Good(Done(s, v), {}, None, C) /\ \A w : Kept(s, Done(s, v), w)
<1> DEFINE t == Done(s, v)
           D == s.flips \ {v}
<1>0. Typed(s) /\ Mid(s, {}, None, C) /\ Shown(s, C) /\ None \in C
  BY DEF Good, Mid
<1>1. t = [s EXCEPT !.flips = D] /\ D \subseteq Ids
  BY <1>0 DEF Done, Typed
<1> HIDE DEF t, D
<1>2. /\ t.vb = s.vb /\ t.queue = s.queue /\ t.pending = s.pending /\ t.unflip = s.unflip
      /\ t.cur = s.cur /\ t.pix = s.pix /\ t.due = s.due /\ t.flips = D
      /\ t.missed = s.missed
      /\ t = [vb |-> t.vb, queue |-> t.queue, pending |-> t.pending,
              unflip |-> t.unflip, cur |-> t.cur, pix |-> t.pix, due |-> t.due,
              flips |-> t.flips, missed |-> t.missed]
  BY <1>0, <1>1 DEF Typed
<1>3. Mid(t, {}, None, C)
  BY <1>0, <1>1, <1>2 DEF Mid, Typed, Living, InOrder, OneWay, Drawn
<1>4. Shown(t, C) /\ \A w : Kept(s, t, w)
  BY <1>0, <1>2 DEF Shown, Kept
<1> QED
  BY <1>0, <1>3, <1>4 DEF Good, t

\* The driver has reported the flip back.
Unflown(s) == [s EXCEPT !.unflip = FALSE]

LEMMA UnflownMid ==
    ASSUME NEW s, NEW C, Good(s, {}, None, C), s.unflip
    PROVE  LET t == Unflown(s)
           IN  /\ Mid(t, {}, None, C) /\ ~t.unflip /\ t.pix[Root] = Screen
               /\ \A w : Kept(s, t, w)
<1> DEFINE t == Unflown(s)
<1>0. Typed(s) /\ Mid(s, {}, None, C)
  BY DEF Good, Mid
<1>1. t = [s EXCEPT !.unflip = FALSE]
  BY DEF Unflown
<1> HIDE DEF t
<1>2. /\ t.vb = s.vb /\ t.queue = s.queue /\ t.pending = s.pending /\ ~t.unflip
      /\ t.unflip \in BOOLEAN
      /\ t.cur = s.cur /\ t.pix = s.pix /\ t.due = s.due /\ t.flips = s.flips
      /\ t.missed = s.missed
      /\ t = [vb |-> t.vb, queue |-> t.queue, pending |-> t.pending,
              unflip |-> t.unflip, cur |-> t.cur, pix |-> t.pix, due |-> t.due,
              flips |-> t.flips, missed |-> t.missed]
  BY <1>0, <1>1 DEF Typed
<1>3. s.pix[Root] = Screen
  BY <1>0 DEF Mid, Drawn, OneWay
<1>4. Typed(t) /\ InOrder(t)
  BY <1>0, <1>2 DEF Mid, Typed, Living, InOrder
<1>5. OneWay(t) /\ Drawn(t)
  BY <1>0, <1>2, <1>3 DEF Mid, OneWay, Drawn
<1>6. \A u \in Ids : Request(t.vb[u], u, t.pending, t.cur.pixmap, t.due, {}, None, C)
  BY <1>0, <1>2 DEF Mid
<1>7. Mid(t, {}, None, C)
  BY <1>0, <1>4, <1>5, <1>6 DEF Mid
<1>8. \A w : Kept(s, t, w)
  BY <1>2 DEF Kept
<1> QED
  BY <1>2, <1>3, <1>7, <1>8 DEF t
-----------------------------------------------------------------------------
(* What calls the screen: windows that are reconfigured.                   *)

\* Only what flips, or plans to, needs a window to flip to.
LEMMA Recovered ==
    ASSUME NEW s, NEW H, NEW y, NEW C, Mid(s, H, y, C), NEW D,
           \A v \in Ids : Covered(s.vb[v], D)
    PROVE  Mid(s, H, y, D)
<1>1. ASSUME NEW v \in Ids
      PROVE  Request(s.vb[v], v, s.pending, s.cur.pixmap, s.due, H, y, D)
  BY DEF Mid, Request
<1> QED
  BY <1>1 DEF Mid

\* the state after the windows whose change was missed become M
Missed(s, M) == [s EXCEPT !.missed = M]

LEMMA MissedMid ==
    ASSUME NEW s, NEW H, NEW y, NEW C, Mid(s, H, y, C), NEW M, M \subseteq Living(s)
    PROVE  LET t == Missed(s, M)
           IN  /\ Mid(t, H, y, C) /\ (\A D : Shown(s, D) => Shown(t, D))
               /\ t.missed = M /\ DOMAIN t.pix = DOMAIN s.pix
               /\ (\A v \in Ids : s.vb[v].at = "none" => t.vb[v].at = "none")
               /\ t.vb = s.vb
<1> DEFINE t == Missed(s, M)
<1>0. Typed(s)
  BY DEF Mid
<1>1. /\ t.vb = s.vb /\ t.queue = s.queue /\ t.pending = s.pending /\ t.unflip = s.unflip
      /\ t.cur = s.cur /\ t.pix = s.pix /\ t.due = s.due /\ t.flips = s.flips
      /\ t.missed = M
      /\ t = [vb |-> t.vb, queue |-> t.queue, pending |-> t.pending,
              unflip |-> t.unflip, cur |-> t.cur, pix |-> t.pix, due |-> t.due,
              flips |-> t.flips, missed |-> t.missed]
  BY <1>0 DEF Missed, Typed
<1> HIDE DEF t
<1>2. Mid(t, H, y, C)
  BY <1>1 DEF Mid, Typed, Living, InOrder, OneWay, Drawn
<1>3. \A D : Shown(s, D) => Shown(t, D)
  BY <1>1 DEF Shown
<1> QED
  BY <1>1, <1>2, <1>3 DEF t

LEMMA UnplannedMid ==
    ASSUME NEW s, NEW C, Mid(s, {}, None, C), NEW w, NEW whole
    PROVE  LET t == Unplanned(s, w, whole)
           IN  /\ Mid(t, {}, None, C) /\ (\A D : Shown(s, D) => Shown(t, D))
               /\ \A v : Kept(s, t, v)
               /\ t.pending = s.pending
               /\ \A v \in Ids : /\ t.vb[v].at = s.vb[v].at /\ t.vb[v].window = s.vb[v].window
                                 /\ t.vb[v].abort = s.vb[v].abort
                                 /\ (s.vb[v].window = w /\ v \in Queued(s))
                                       => ~t.vb[v].flip \/ CheckFlip(s, w, whole)
<1> DEFINE t == Unplanned(s, w, whole)
<1>0. Typed(s)
  BY DEF Mid
<1>1. CASE CheckFlip(s, w, whole)
  BY <1>1 DEF Unplanned, Kept
<1>2. CASE ~CheckFlip(s, w, whole)
  <2> DEFINE T == {v \in Ids : v \in Queued(s) /\ s.vb[v].window = w /\ s.vb[v].flip}
             un(b) == [b EXCEPT !.flip = FALSE, !.exec = IF b.sync THEN b.target ELSE @]
             g == [v \in Ids |-> IF v \in T THEN un(s.vb[v]) ELSE s.vb[v]]
  <2>1. t = [s EXCEPT !.vb = g]
    BY <1>2 DEF Unplanned
  <2>2. ASSUME NEW b \in Vblank
        PROVE  /\ un(b) \in Vblank /\ ~un(b).flip
               /\ un(b).at = b.at /\ un(b).window = b.window /\ un(b).pixmap = b.pixmap
               /\ un(b).fence = b.fence /\ un(b).abort = b.abort /\ un(b).callback = b.callback
               /\ un(b).idled = b.idled /\ un(b).completed = b.completed /\ un(b).mode = b.mode
    BY DEF Vblank
  <2> HIDE DEF t, un
  <2>3. /\ \A v \in Ids : s.vb[v] \in Vblank
        /\ \A v \in Ids \cap T : g[v] = un(s.vb[v])
        /\ \A v \in Ids \ T : g[v] = s.vb[v]
    BY <1>0 DEF Typed
  <2>4. g \in [Ids -> Vblank]
    BY <2>2, <2>3
  <2>5. \A v \in T : v \in Ids /\ v \in Queued(s) /\ s.vb[v].window = w /\ s.vb[v].flip
    OBVIOUS
  <2>6. \A v \in Ids : v \in Queued(s) /\ s.vb[v].window = w /\ s.vb[v].flip => v \in T
    OBVIOUS
  <2> HIDE DEF g, T
  <2>7. /\ t.vb = g /\ t.queue = s.queue /\ t.pending = s.pending /\ t.unflip = s.unflip
        /\ t.cur = s.cur /\ t.pix = s.pix /\ t.due = s.due /\ t.flips = s.flips
        /\ t.missed = s.missed
        /\ t = [vb |-> t.vb, queue |-> t.queue, pending |-> t.pending,
                unflip |-> t.unflip, cur |-> t.cur, pix |-> t.pix, due |-> t.due,
                flips |-> t.flips, missed |-> t.missed]
    BY <1>0, <2>1 DEF Typed
  <2>8. \A v \in Ids : /\ g[v].at = s.vb[v].at /\ g[v].window = s.vb[v].window
                       /\ g[v].abort = s.vb[v].abort
                       /\ v \in T => ~g[v].flip
    BY <2>2, <2>3
  <2>9. Changed(s, t, T)
    BY <1>0, <2>3, <2>4, <2>7, <2>8 DEF Changed, Typed
  <2>10. InOrder(t)
    BY <2>7, <2>8 DEF Mid, InOrder
  <2>11. ASSUME NEW v \in Ids, v \in T
         PROVE  Request(t.vb[v], v, s.pending, s.cur.pixmap, s.due, {}, None, C)
    <3>1. Request(s.vb[v], v, s.pending, s.cur.pixmap, s.due, {}, None, C)
      BY DEF Mid
    <3>2. s.vb[v].at # "pending" /\ s.vb[v].at # "none"
      BY <2>5, <2>11 DEF Queued
    <3>3. /\ g[v].at = s.vb[v].at /\ g[v].window = s.vb[v].window /\ g[v].abort = s.vb[v].abort
          /\ g[v].pixmap = s.vb[v].pixmap /\ g[v].fence = s.vb[v].fence
          /\ g[v].callback = s.vb[v].callback /\ ~g[v].flip
          /\ g[v].idled = s.vb[v].idled /\ g[v].completed = s.vb[v].completed
          /\ g[v].mode = s.vb[v].mode
      BY <2>2, <2>3, <2>11
    <3>4. Lives(g[v], v, s.pending, s.cur.pixmap, None)
      BY <3>1, <3>2, <3>3 DEF Request, Lives
    <3>5. Awaited(g[v], v, s.due) /\ Covered(g[v], C)
      BY <3>1, <3>2, <3>3 DEF Request, Awaited, Covered
    <3> QED
      BY <2>7, <3>2, <3>3, <3>4, <3>5 DEF Request
  <2>12. Mid(t, {}, None, C)
    <3>1. {} \ T \subseteq {} /\ None \in {} \cup {None}
      OBVIOUS
    <3> QED
      BY <2>9, <2>10, <2>11, <3>1, ChangedMid
  <2>13. (\A D : Shown(s, D) => Shown(t, D)) /\ \A v : Kept(s, t, v)
    BY <2>7, <2>8 DEF Shown, Kept
  <2>14. \A v \in Ids : s.vb[v].window = w /\ v \in Queued(s) => ~g[v].flip
    <3>1. \A v \in Ids : v \notin T /\ s.vb[v].window = w /\ v \in Queued(s) => ~s.vb[v].flip
      BY <2>6
    <3>2. \A v \in Ids : v \notin T => g[v] = s.vb[v]
      BY <2>3
    <3> QED
      BY <2>8, <3>1, <3>2
  <2> QED
    BY <2>7, <2>8, <2>12, <2>13, <2>14 DEF t
<1> QED
  BY <1>1, <1>2

\* Flipping back forgets what was shown, whatever waited for that.
Forgets(s, t) ==
    /\ DOMAIN t = DOMAIN s /\ t.cur = s.cur

LEMMA StepsForget ==
    ASSUME NEW s, {"vb", "queue", "pending", "cur", "pix", "due", "flips"} \subseteq DOMAIN s,
           NEW v
    PROVE  /\ Forgets(s, QueueVblank(s, v)) /\ Forgets(s, Refused(s, v))
           /\ Forgets(s, Restored(s)) /\ Forgets(s, AbortFlip(s))
           /\ Forgets(s, Idled(s, v)) /\ Forgets(s, TakenOut(s, v))
           /\ \A T, how : Forgets(s, Destroyed(s, T, how))
           /\ Forgets(s, Flipped(s, v)) /\ Forgets(s, WaitForFlip(s, v))
           /\ \A b : Forgets(s, [s EXCEPT !.vb[v] = b])
<1>1. Forgets(s, QueueVblank(s, v))
  BY DEF Forgets, QueueVblank
<1>2. Forgets(s, Refused(s, v)) /\ \A b : Forgets(s, [s EXCEPT !.vb[v] = b])
  BY DEF Forgets, Refused
<1>3. \A p : Forgets(s, [s EXCEPT !.pix = p])
  BY DEF Forgets
<1>4. Forgets(s, Restored(s))
  BY <1>3 DEF Restored
<1>5. \A r : Forgets(s, r) => Forgets(s, [r EXCEPT !.vb[s.pending].abort = TRUE])
  BY DEF Forgets
<1>6. Forgets(s, AbortFlip(s))
  <2>1. CASE s.vb[s.pending].abort
    BY <2>1 DEF AbortFlip, Forgets
  <2>2. CASE ~s.vb[s.pending].abort
    <3>1. AbortFlip(s) = [Restored(s) EXCEPT !.vb[s.pending].abort = TRUE]
      BY <2>2 DEF AbortFlip
    <3> QED
      BY <1>4, <1>5, <3>1
  <2> QED
    BY <2>1, <2>2
<1>7. Forgets(s, Idled(s, v)) /\ Forgets(s, TakenOut(s, v))
  BY DEF Forgets, Idled, TakenOut
<1>8. \A q, g : Forgets(s, [s EXCEPT !.queue = q, !.vb = g])
  BY DEF Forgets
<1>9. \A T, how : Forgets(s, Destroyed(s, T, how))
  BY <1>8 DEF Destroyed
<1>10. \A F, b, p : Forgets(s, [s EXCEPT !.pending = v, !.flips = F, !.vb[v].at = b, !.pix = p])
  BY DEF Forgets
<1>11. Forgets(s, Flipped(s, v))
  BY <1>10 DEF Flipped
<1>12. Forgets(s, WaitForFlip(s, v))
  BY DEF WaitForFlip, Forgets
<1> QED
  BY <1>1, <1>2, <1>4, <1>6, <1>7, <1>9, <1>11, <1>12

\* the fields of scr
Scr == {"vb", "queue", "pending", "unflip", "cur", "pix", "due", "flips", "missed"}

LEMMA ForgetsTwice ==
    ASSUME NEW r, NEW s, NEW t, Forgets(r, s), Forgets(s, t), DOMAIN r = Scr
    PROVE  Forgets(r, t) /\ DOMAIN s = Scr /\ DOMAIN t = Scr
  BY DEF Forgets

LEMMA PostForgets ==
    ASSUME NEW s, DOMAIN s = Scr, NEW v, NEW mode
    PROVE  Forgets(s, Post(s, v, mode))
<1> DEFINE d == [s EXCEPT !.vb[v].completed = @ + 1, !.vb[v].mode = mode]
<1>1. Forgets(s, d)
  BY DEF Forgets, Scr
<1>2. Post(s, v, mode) = Destroyed(d, {v}, "gone")
  BY DEF Post
<1> HIDE DEF d
<1>3. DOMAIN d = Scr
  BY <1>1 DEF Forgets
<1>4. Forgets(d, Destroyed(d, {v}, "gone"))
  BY <1>3, StepsForget DEF Scr
<1> QED
  BY <1>1, <1>2, <1>4, ForgetsTwice

LEMMA CopiedForgets ==
    ASSUME NEW s, DOMAIN s = Scr, NEW v, NEW now, NEW t \in Copied(s, v, now, {})
    PROVE  Forgets(s, t)
<1>1. PICK a \in CopyTarget(s, v, {}) :
         \/ \E u \in Early(a, v, now) : t = [u EXCEPT !.vb[v].at = "exec"]
         \/ \E u \in OnTime(a, v, now) : t = Post(Idled(u, v), v, "copy")
  BY DEF Copied
<1>2. a = s \/ a = AbortFlip(s)
  BY DEF CopyTarget
<1>3. Forgets(s, a) /\ DOMAIN a = Scr
  <2>1. Forgets(s, AbortFlip(s)) /\ Forgets(s, s)
    BY StepsForget DEF Forgets, Scr
  <2> QED
    BY <1>2, <2>1 DEF Forgets
<1>4. CASE \E u \in Early(a, v, now) : t = [u EXCEPT !.vb[v].at = "exec"]
  <2> DEFINE u == QueueVblank(a, v)
  <2>1. t = [u EXCEPT !.vb[v].at = "exec"]
    BY <1>4 DEF Early
  <2>2. Forgets(a, u)
    BY <1>3, StepsForget DEF Scr
  <2> HIDE DEF u
  <2>3. Forgets(u, t) /\ Forgets(s, u)
    BY <1>3, <2>1, <2>2, ForgetsTwice DEF Forgets, Scr
  <2> QED
    BY <2>3, ForgetsTwice
<1>5. ASSUME NEW u \in OnTime(a, v, now), t = Post(Idled(u, v), v, "copy")
      PROVE  Forgets(s, t)
  <2>1. Forgets(a, Refused(a, v)) /\ Forgets(a, a)
    BY <1>3, StepsForget DEF Forgets, Scr
  <2>2. Forgets(a, u)
    BY <2>1 DEF OnTime
  <2>3. Forgets(s, u) /\ DOMAIN u = Scr
    BY <1>3, <2>2, ForgetsTwice
  <2> DEFINE i == Idled(u, v)
  <2>4. Forgets(u, i)
    BY <2>3, StepsForget DEF Scr
  <2> HIDE DEF i
  <2>5. Forgets(i, t)
    <3>1. DOMAIN i = Scr
      BY <2>3, <2>4 DEF Forgets
    <3>2. t = Post(i, v, "copy")
      BY <1>5 DEF i
    <3> QED
      BY <3>1, <3>2, PostForgets
  <2> QED
    BY <2>3, <2>4, <2>5, ForgetsTwice
<1> QED
  BY <1>1, <1>4, <1>5

LEMMA ExecutedForgets ==
    ASSUME NEW s, DOMAIN s = Scr, NEW v, NEW now, NEW t \in Executed(s, v, now, {})
    PROVE  Forgets(s, t)
<1>1. CASE t \in Early(s, v, now)
  <2>1. t = QueueVblank(s, v)
    BY <1>1 DEF Early
  <2> QED
    BY <2>1, StepsForget DEF Scr
<1>2. ASSUME NEW a \in OnTime(s, v, now),
             t \in IF FenceWaits(a.vb[v]) THEN {[a EXCEPT !.vb[v].callback = TRUE]}
                   ELSE IF MustWait(a, a.vb[v]) THEN {WaitForFlip(a, v)}
                   ELSE Performed(a, v, now, {})
      PROVE  Forgets(s, t)
  <2>1. Forgets(s, Refused(s, v)) /\ Forgets(s, s)
    BY StepsForget DEF Forgets, Scr
  <2>2. Forgets(s, a) /\ DOMAIN a = Scr
    BY <2>1 DEF OnTime, Forgets
  <2>3. CASE t = [a EXCEPT !.vb[v].callback = TRUE] \/ t = WaitForFlip(a, v)
    <3>1. Forgets(a, t)
      BY <2>2, <2>3, StepsForget DEF Forgets, Scr
    <3> QED
      BY <2>2, <3>1, ForgetsTwice
  <2>4. CASE t \in Performed(a, v, now, {})
    <3> DEFINE b == TakenOut(a, v)
               failed == [b EXCEPT !.vb[v].flip = FALSE, !.vb[v].exec = a.vb[v].target]
    <3>1. Forgets(a, b)
      BY <2>2, StepsForget DEF Scr
    <3>2. \/ t = Post(b, v, "skip") \/ t = Flipped(b, v)
          \/ t \in Copied(b, v, now, {}) \/ t \in Copied(failed, v, now, {})
      BY <2>4 DEF Performed
    <3> HIDE DEF b
    <3>3. DOMAIN b = Scr /\ Forgets(s, b)
      BY <2>2, <3>1, ForgetsTwice
    <3>4. Forgets(b, failed)
      BY <3>3 DEF Forgets, Scr
    <3> HIDE DEF failed
    <3>5. Forgets(b, Post(b, v, "skip")) /\ Forgets(b, Flipped(b, v))
      BY <3>3, PostForgets, StepsForget DEF Scr
    <3>6. t \in Copied(b, v, now, {}) => Forgets(b, t)
      BY <3>3, CopiedForgets
    <3>7. DOMAIN failed = Scr
      BY <3>3, <3>4 DEF Forgets
    <3>8. t \in Copied(failed, v, now, {}) => Forgets(failed, t)
      BY <3>7, CopiedForgets
    <3>9. Forgets(b, t)
      BY <3>2, <3>3, <3>4, <3>5, <3>6, <3>8, ForgetsTwice
    <3> QED
      BY <2>2, <3>3, <3>9, ForgetsTwice
  <2> QED
    BY <1>2, <2>3, <2>4
<1> QED
  BY <1>1, <1>2 DEF Executed

LEMMA UnflippedForgets ==
    ASSUME NEW s, Typed(s), s.cur.pixmap # None, NEW t \in Unflipped(s)
    PROVE  t.unflip \/ t.cur.window = None
<1> DEFINE r == Restored(s)
           f == FlipIdle(r)
<1>1. DOMAIN s = Scr
  BY DEF Typed, Scr
<1>2. Forgets(s, r)
  BY <1>1, StepsForget DEF Scr
<1>3. t = [r EXCEPT !.unflip = TRUE] \/ t \in TryUnflipped(f)
  BY DEF Unflipped
<1> HIDE DEF r
<1>4. CASE t = [r EXCEPT !.unflip = TRUE]
  BY <1>1, <1>2, <1>4 DEF Forgets, Scr
<1>5. CASE t \in TryUnflipped(f)
  <2>1. DOMAIN r = Scr /\ r.cur.pixmap # None
    BY <1>1, <1>2 DEF Forgets
  <2>2. f = [Idled(r, r.cur.pixmap) EXCEPT !.cur = NoFlip]
    BY <2>1 DEF FlipIdle
  <2> HIDE DEF f
  <2>3. DOMAIN f = Scr /\ f.cur = NoFlip
    BY <2>1, <2>2 DEF Idled, Scr
  <2>4. t = f \/ \E v : t \in Executed(f, v, msc, {})
    BY <1>5 DEF TryUnflipped
  <2>5. t = f \/ Forgets(f, t)
    BY <2>3, <2>4, ExecutedForgets
  <2> QED
    BY <2>3, <2>5 DEF Forgets, NoFlip
<1> QED
  BY <1>3, <1>4, <1>5

\* present_check_flip_window: afterwards the windows that requests flip or plan
\* to flip to are those of D.
LEMMA CheckFlipWindowGood ==
    ASSUME NEW s, NEW C, Good(s, {}, None, C), NEW w \in Living(s), NEW whole,
           NEW t \in CheckFlipWindow(s, w, whole),
           NEW D, C \ {w} \subseteq D, whole = w => w \in D,
           \A x : x \in t.missed => x \in D
    PROVE  /\ Good(t, {}, None, D) /\ DOMAIN t.pix = DOMAIN s.pix
           /\ \A x : x \in s.missed /\ x # w => x \in t.missed
           /\ \A v \in Ids : s.vb[v].at = "none" => t.vb[v].at = "none"
<1>0. Typed(s) /\ Mid(s, {}, None, C) /\ Shown(s, C) /\ None \in C /\ w # None /\ w \in Windows
  BY Names DEF Good, Mid, Typed, Living
<1>1. None \in D
  BY <1>0
<1>2. CASE s.unflip
  <2> DEFINE M == s.missed \cup {w}
  <2>1. t = Missed(s, M) /\ M \subseteq Living(s)
    BY <1>0, <1>2 DEF CheckFlipWindow, Missed, Typed
  <2>2. \A x : x \in s.missed => x \in M
    OBVIOUS
  <2>3. w \in M
    OBVIOUS
  <2> HIDE DEF M
  <2>4. /\ Mid(t, {}, None, C) /\ (\A E : Shown(s, E) => Shown(t, E))
        /\ t.missed = M /\ DOMAIN t.pix = DOMAIN s.pix
        /\ \A v \in Ids : s.vb[v].at = "none" => t.vb[v].at = "none"
    BY <1>0, <2>1, MissedMid
  <2>5. C \subseteq D
    BY <2>3, <2>4
  <2>6. Mid(t, {}, None, D)
    <3>1. \A v \in Ids : Covered(t.vb[v], D)
      BY <2>4, <2>5, Names DEF Mid, Request, Covered
    <3> QED
      BY <2>4, <3>1, Recovered
  <2>7. Shown(t, D)
    BY <1>0, <2>4, <2>5 DEF Shown
  <2> QED
    BY <1>1, <2>2, <2>4, <2>6, <2>7 DEF Good
<1>3. CASE ~s.unflip
  <2>1. PICK u \in Unshown(s, w, whole) :
           t = Missed(Unplanned(u, w, whole),
                      IF FlippedMeanwhile(s, u, w) THEN Unplanned(u, w, whole).missed \cup {w}
                      ELSE Unplanned(u, w, whole).missed \ {w})
    BY <1>3 DEF CheckFlipWindow, Missed
  <2>2. \/ u = s /\ (CheckFlip(s, w, whole) \/ (s.pending # None /\ s.vb[s.pending].window # w)
                         \/ (s.pending = None /\ s.cur.window # w))
        \/ u = AbortFlip(s) /\ s.pending # None /\ s.vb[s.pending].window = w
        \/ u \in Unflipped(s) /\ s.pending = None /\ s.cur.window = w
    BY DEF Unshown
  <2>3. Good(u, {}, None, C) /\ \A v : Kept(s, u, v)
    <3>1. CASE u = s
      BY <3>1 DEF Kept
    <3>2. CASE u = AbortFlip(s) /\ s.pending # None
      BY <1>0, <3>2, AbortMid DEF Good
    <3>3. CASE u \in Unflipped(s) /\ s.pending = None /\ s.cur.window = w
      <4>1. s.cur.pixmap # None
        BY <1>0, <3>3 DEF Mid, OneWay
      <4> QED
        BY <1>0, <1>3, <3>3, <4>1, UnflippedGood DEF Good
    <3> QED
      BY <2>2, <3>1, <3>2, <3>3
  <2> DEFINE p == Unplanned(u, w, whole)
             M == IF FlippedMeanwhile(s, u, w) THEN p.missed \cup {w} ELSE p.missed \ {w}
  <2>4. /\ Mid(p, {}, None, C) /\ (\A E : Shown(u, E) => Shown(p, E))
        /\ \A v : Kept(u, p, v)
        /\ p.pending = u.pending
        /\ \A v \in Ids : /\ p.vb[v].at = u.vb[v].at /\ p.vb[v].window = u.vb[v].window
                          /\ p.vb[v].abort = u.vb[v].abort
                          /\ (u.vb[v].window = w /\ v \in Queued(u))
                                => ~p.vb[v].flip \/ CheckFlip(u, w, whole)
    BY <2>3, UnplannedMid DEF Good
  <2>5. t = Missed(p, M)
    BY <2>1
  <2> HIDE DEF p
  <2>6. p.missed = s.missed /\ DOMAIN p.pix = DOMAIN s.pix
    BY <2>3, <2>4 DEF Kept
  <2>7. M \subseteq Living(p)
    BY <1>0, <2>6 DEF Typed, Living
  <2>8. /\ \A x : x \in s.missed /\ x # w => x \in M
        /\ FlippedMeanwhile(s, u, w) => w \in M
    BY <2>6
  <2> HIDE DEF M
  <2>9. /\ Mid(t, {}, None, C) /\ (\A E : Shown(p, E) => Shown(t, E))
        /\ t.missed = M /\ DOMAIN t.pix = DOMAIN p.pix
        /\ \A v \in Ids : p.vb[v].at = "none" => t.vb[v].at = "none"
        /\ t.vb = p.vb
    BY <2>4, <2>5, <2>7, MissedMid
  <2>10. \A v \in Ids : s.vb[v].at = "none" => t.vb[v].at = "none"
    <3>1. Kept(s, u, None) /\ Kept(u, p, None)
      BY <2>3, <2>4
    <3> QED
      BY <2>9, <3>1, Names DEF Kept
  <2>11. Mid(t, {}, None, D) /\ Shown(t, D)
    <3>1. CASE w \in D
      <4>1. C \subseteq D
        BY <3>1
      <4>2. \A v \in Ids : Covered(t.vb[v], D)
        BY <2>9, <4>1, Names DEF Mid, Request, Covered
      <4>3. Shown(t, C)
        BY <2>3, <2>4, <2>9 DEF Good
      <4> QED
        BY <2>9, <4>1, <4>2, <4>3, Recovered DEF Shown
    <3>2. CASE w \notin D
      <4>1. ~CheckFlip(u, w, whole) /\ ~CheckFlip(s, w, whole) /\ ~FlippedMeanwhile(s, u, w)
        BY <2>8, <2>9, <3>2 DEF CheckFlip
      <4>2. ASSUME NEW v \in Ids
            PROVE  Covered(t.vb[v], D)
        <5>1. Request(t.vb[v], v, t.pending, t.cur.pixmap, t.due, {}, None, C) /\ v # None
          BY <2>9, Names DEF Mid
        <5>2. Covered(t.vb[v], C)
          BY <5>1 DEF Request
        <5>3. CASE t.vb[v].window # w
          BY <5>2, <5>3 DEF Covered
        <5>4. CASE t.vb[v].window = w
          <6>1. t.vb[v].at \in {"exec", "flip", "pending"}
            <7>1. t.vb[v].at \in {"none", "exec", "flip", "pending", "gone", "dropped"}
              BY <2>9 DEF Mid, Typed, Vblank
            <7>2. t.vb[v].at \notin {"none", "gone", "dropped"}
              BY <1>0, <5>1, <5>4 DEF Request, Lives, NoVblank
            <7> QED
              BY <7>1, <7>2
          <6>2. CASE t.vb[v].at # "pending"
            BY <2>4, <2>9, <4>1, <5>4, <6>1, <6>2 DEF Covered, Queued
          <6>3. CASE t.vb[v].at = "pending"
            <7>1. u.vb[v].at = "pending" /\ u.vb[v].window = w /\ v = u.pending
              BY <2>3, <2>4, <2>9, <5>4, <6>3 DEF Good, Mid, Request, Lives
            <7>2. v = s.pending
              BY <4>1, <5>1, <7>1 DEF FlippedMeanwhile
            <7>3. u = AbortFlip(s) /\ s.pending # None
              BY <2>2, <4>1, <5>1, <7>1, <7>2
            <7>4. u.vb[v].abort
              BY <1>0, <7>2, <7>3, AbortMid
            <7> QED
              BY <2>4, <2>9, <6>3, <7>4 DEF Covered
          <6> QED
            BY <6>2, <6>3
        <5> QED
          BY <5>3, <5>4
      <4>3. Shown(u, D)
        <5>1. CASE u = s /\ (s.pending = None => s.cur.window # w)
          BY <1>0, <5>1 DEF Shown
        <5>2. CASE u = AbortFlip(s) /\ s.pending # None
          BY <1>0, <5>2, AbortMid
        <5>3. CASE u \in Unflipped(s) /\ s.pending = None /\ s.cur.window = w
          <6>1. s.cur.pixmap # None
            BY <1>0, <5>3 DEF Mid, OneWay
          <6>2. u.unflip \/ u.cur.window = None
            BY <1>0, <5>3, <6>1, UnflippedForgets
          <6> QED
            BY <1>1, <6>2 DEF Shown
        <5> QED
          BY <2>2, <4>1, <5>1, <5>2, <5>3
      <4> QED
        BY <2>4, <2>9, <4>2, <4>3, Recovered
    <3> QED
      BY <3>1, <3>2
  <2> QED
    BY <1>1, <2>6, <2>8, <2>9, <2>10, <2>11 DEF Good
<1> QED
  BY <1>2, <1>3

\* Only w is looked at.
LEMMA MissedOnly ==
    ASSUME NEW s, NEW C, Good(s, {}, None, C), NEW w \in Living(s), NEW whole,
           NEW t \in CheckFlipWindow(s, w, whole)
    PROVE  \A x : x \in s.missed /\ x # w => x \in t.missed
<1> DEFINE D == C \cup {w} \cup t.missed
<1>1. C \ {w} \subseteq D /\ w \in D /\ \A x : x \in t.missed => x \in D
  OBVIOUS
<1> HIDE DEF D
<1> QED
  BY <1>1, CheckFlipWindowGood

\* The events of requests that are gone are not sent.
Unsent(s, T) == [s EXCEPT !.due = {e \in @ : e.id \notin T}]

LEMMA UnsentMid ==
    ASSUME NEW s, NEW C, Mid(s, {}, None, C), NEW T,
           \A v \in Ids \cap T : s.vb[v].at # "exec"
    PROVE  LET t == Unsent(s, T)
           IN  /\ Mid(t, {}, None, C) /\ \A D : Shown(s, D) => Shown(t, D)
               /\ t.vb = s.vb /\ t.pending = s.pending /\ t.cur = s.cur
               /\ \A w : Kept(s, t, w)
<1> DEFINE t == Unsent(s, T)
           E == {e \in s.due : e.id \notin T}
<1>0. Typed(s)
  BY DEF Mid
<1>1. t = [s EXCEPT !.due = E]
  BY DEF Unsent
<1>2. E \subseteq s.due /\ \A e \in s.due : e.id \notin T => e \in E
  OBVIOUS
<1> HIDE DEF t, E
<1>3. /\ t.vb = s.vb /\ t.queue = s.queue /\ t.pending = s.pending /\ t.unflip = s.unflip
      /\ t.cur = s.cur /\ t.pix = s.pix /\ t.due = E /\ t.flips = s.flips
      /\ t.missed = s.missed
      /\ t = [vb |-> t.vb, queue |-> t.queue, pending |-> t.pending,
              unflip |-> t.unflip, cur |-> t.cur, pix |-> t.pix, due |-> t.due,
              flips |-> t.flips, missed |-> t.missed]
  BY <1>0, <1>1 DEF Typed
<1>4. E \subseteq [id : Ids, msc : MSCs]
  BY <1>0, <1>2 DEF Typed
<1>5. Typed(t) /\ InOrder(t) /\ OneWay(t) /\ Drawn(t)
  BY <1>3, <1>4 DEF Mid, Typed, Living, InOrder, OneWay, Drawn
<1>6. ASSUME NEW u \in Ids
      PROVE  Request(t.vb[u], u, t.pending, t.cur.pixmap, t.due, {}, None, C)
  <2>1. Request(s.vb[u], u, s.pending, s.cur.pixmap, s.due, {}, None, C)
    BY DEF Mid
  <2>2. Awaited(s.vb[u], u, s.due)
    BY <2>1 DEF Request
  <2>3. Awaited(t.vb[u], u, t.due)
    <3>1. CASE u \in T
      BY <1>3, <3>1 DEF Awaited
    <3>2. CASE u \notin T
      BY <1>2, <1>3, <2>2, <3>2 DEF Awaited
    <3> QED
      BY <3>1, <3>2
  <2> QED
    BY <1>3, <2>1, <2>3 DEF Request
<1>7. Mid(t, {}, None, C)
  BY <1>5, <1>6 DEF Mid
<1>8. (\A D : Shown(s, D) => Shown(t, D)) /\ \A w : Kept(s, t, w)
  BY <1>3 DEF Shown, Kept
<1> QED
  BY <1>3, <1>7, <1>8 DEF t

\* The flip that is pending goes on without its window.
LEMMA WindowlessMid ==
    ASSUME NEW s, NEW C, Mid(s, {}, None, C), None \in C, NEW v \in Ids, v = s.pending,
           NEW b, b = [s.vb[v] EXCEPT !.window = None]
    PROVE  LET t == With(s, v, b)
           IN  /\ Mid(t, {}, None, C) /\ \A D : Shown(s, D) => Shown(t, D)
               /\ Kept(s, t, v) /\ t.vb[v].window = None
               /\ \A u \in Ids \ {v} : t.vb[u] = s.vb[u]
<1> DEFINE r == s.vb[v]
           t == With(s, v, b)
<1>0. Typed(s) /\ r \in Vblank /\ Request(r, v, s.pending, s.cur.pixmap, s.due, {}, None, C)
  BY DEF Mid, Typed
<1>1. /\ b \in Vblank /\ b.window = None /\ b.at = r.at /\ b.abort = r.abort
      /\ b.flip = r.flip /\ b.pixmap = r.pixmap /\ b.idled = r.idled
      /\ b.completed = r.completed /\ b.mode = r.mode
  BY <1>0 DEF Vblank
<1>2. r.at = "pending"
  BY <1>0 DEF Request, Lives
<1> HIDE DEF r
<1>3. Request(b, v, s.pending, s.cur.pixmap, s.due, {}, None, C)
  BY <1>0, <1>1, <1>2 DEF Request, Lives, Awaited, Covered
<1>4. {} \ {v} \subseteq {} /\ None \in {} \cup {None}
  OBVIOUS
<1>5. (b.at = "flip" <=> s.vb[v].at = "flip") /\ (b.abort => s.vb[v].abort \/ s.pix[Root] = Screen)
  BY <1>1 DEF r
<1>6. b.window \in Living(s) \cup {None}
  BY <1>1
<1>7. Mid(t, {}, None, C)
  BY <1>1, <1>3, <1>4, <1>5, <1>6, WithMid
<1>8. t.vb[v] = b /\ \A u \in Ids \ {v} : t.vb[u] = s.vb[u]
  <2>1. t.vb = [s.vb EXCEPT ![v] = b] /\ t.vb[v] = b
    BY <1>0, WithFields
  <2> QED
    BY <2>1, <1>0 DEF Typed
<1>9. Kept(s, t, v) /\ \A D : Shown(s, D) => Shown(t, D)
  BY <1>0, WithKept
<1> HIDE DEF t
<1>10. t.vb[v].window = None
  BY <1>1, <1>8
<1> QED
  BY <1>7, <1>8, <1>9, <1>10 DEF t

\* What is shown has no window.
Unowned(s) == [s EXCEPT !.cur.window = None]

LEMMA UnownedMid ==
    ASSUME NEW s, NEW C, Mid(s, {}, None, C), s.pix[Root] = Screen
    PROVE  LET t == Unowned(s)
           IN  /\ Mid(t, {}, None, C) /\ \A D : None \in D => Shown(t, D)
               /\ t.vb = s.vb /\ t.cur.window = None /\ \A w : Kept(s, t, w)
<1> DEFINE t == Unowned(s)
           k == [s.cur EXCEPT !.window = None]
<1>0. Typed(s)
  BY DEF Mid
<1>1. t = [s EXCEPT !.cur = k]
  BY DEF Unowned
<1>2. /\ k \in [window : Living(s) \cup {None}, pixmap : Ids \cup {None}]
      /\ k.window = None /\ k.pixmap = s.cur.pixmap
  BY <1>0 DEF Typed
<1> HIDE DEF t, k
<1>3. /\ t.vb = s.vb /\ t.queue = s.queue /\ t.pending = s.pending /\ t.unflip = s.unflip
      /\ t.cur = k /\ t.pix = s.pix /\ t.due = s.due /\ t.flips = s.flips
      /\ t.missed = s.missed
      /\ t = [vb |-> t.vb, queue |-> t.queue, pending |-> t.pending,
              unflip |-> t.unflip, cur |-> t.cur, pix |-> t.pix, due |-> t.due,
              flips |-> t.flips, missed |-> t.missed]
  BY <1>0, <1>1 DEF Typed
<1>4. Typed(t) /\ InOrder(t)
  BY <1>0, <1>2, <1>3 DEF Mid, Typed, Living, InOrder
<1>5. OneWay(t) /\ Drawn(t)
  BY <1>2, <1>3 DEF Mid, OneWay, Drawn
<1>6. Mid(t, {}, None, C)
  BY <1>2, <1>3, <1>4, <1>5 DEF Mid
<1>7. (\A D : None \in D => Shown(t, D)) /\ \A w : Kept(s, t, w)
  BY <1>2, <1>3 DEF Shown, Kept
<1> QED
  BY <1>2, <1>3, <1>6, <1>7 DEF t

\* The window w is no more.
Unliving(s, w) ==
    [s EXCEPT !.missed = @ \ {w}, !.pix = [u \in DOMAIN @ \ {w} |-> @[u]]]

LEMMA UnlivingGood ==
    ASSUME NEW s, NEW C, Good(s, {}, None, C), NEW w \in Living(s),
           \A v \in Ids : s.vb[v].window # w, s.cur.window # w
    PROVE  LET t == Unliving(s, w)
           IN  /\ Good(t, {}, None, C \ {w}) /\ t.vb = s.vb
               /\ t.missed = s.missed \ {w} /\ Living(t) = Living(s) \ {w}
<1> DEFINE t == Unliving(s, w)
           M == s.missed \ {w}
           p == [u \in DOMAIN s.pix \ {w} |-> s.pix[u]]
<1>0. Typed(s) /\ Mid(s, {}, None, C) /\ Shown(s, C) /\ None \in C /\ w # None /\ w # Root
  BY Names DEF Good, Mid, Typed, Living
<1>1. t = [s EXCEPT !.missed = M, !.pix = p]
  BY DEF Unliving
<1>2. DOMAIN p = DOMAIN s.pix \ {w} /\ \A u \in DOMAIN p : p[u] = s.pix[u]
  OBVIOUS
<1> HIDE DEF t, p
<1>3. /\ t.vb = s.vb /\ t.queue = s.queue /\ t.pending = s.pending /\ t.unflip = s.unflip
      /\ t.cur = s.cur /\ t.pix = p /\ t.due = s.due /\ t.flips = s.flips
      /\ t.missed = M
      /\ t = [vb |-> t.vb, queue |-> t.queue, pending |-> t.pending,
              unflip |-> t.unflip, cur |-> t.cur, pix |-> t.pix, due |-> t.due,
              flips |-> t.flips, missed |-> t.missed]
  BY <1>0, <1>1 DEF Typed
<1>4. Living(t) = Living(s) \ {w} /\ M \subseteq Living(t) /\ Root \in DOMAIN p
  BY <1>0, <1>2, <1>3 DEF Typed, Living
<1>5. s.cur.window \in Living(t) \cup {None} /\ \A v \in Ids : s.vb[v].window \in Living(t) \cup {None}
  BY <1>0, <1>4 DEF Typed
<1>6. s.cur \in [window : Living(t) \cup {None}, pixmap : Ids \cup {None}]
  BY <1>0, <1>5 DEF Typed
<1>7. Typed(t)
  BY <1>0, <1>2, <1>3, <1>4, <1>5, <1>6 DEF Typed
<1>8. InOrder(t) /\ OneWay(t) /\ Drawn(t)
  BY <1>0, <1>2, <1>3, <1>4 DEF Mid, InOrder, OneWay, Drawn
<1> DEFINE D == C \ {w}
<1>9. None \in D /\ \A x : x \in C /\ x # w => x \in D
  BY <1>0
<1> HIDE DEF D
<1>10. Mid(t, {}, None, D)
  <2>1. ASSUME NEW v \in Ids
        PROVE  Request(t.vb[v], v, t.pending, t.cur.pixmap, t.due, {}, None, D)
    BY <1>0, <1>3, <1>9 DEF Mid, Request, Covered
  <2> QED
    BY <1>7, <1>8, <2>1 DEF Mid
<1>11. Shown(t, D)
  BY <1>0, <1>3, <1>9 DEF Shown
<1> QED
  BY <1>3, <1>4, <1>9, <1>10, <1>11 DEF Good, t, D

\* present_scmd_clear_window_flip
LEMMA ClearWindowFlipGood ==
    ASSUME NEW s, NEW C, Good(s, {}, None, C), NEW w \in Living(s)
    PROVE  LET t == ClearWindowFlip(s, w)
           IN  /\ Good(t, {}, None, C) /\ (\A v : Kept(s, t, v)) /\ t.cur.window # w
               /\ \A v \in Ids : s.vb[v].window # w \/ v = s.pending => t.vb[v].window # w
<1> DEFINE flips == s.pending # None /\ s.vb[s.pending].window = w
           a == AbortFlip(s)
           b == [a.vb[s.pending] EXCEPT !.window = None]
           t == IF flips THEN With(a, s.pending, b) ELSE s
<1>0. Mid(s, {}, None, C) /\ Shown(s, C) /\ None \in C /\ w # None /\ Typed(s)
  BY Names DEF Good, Living, Mid, Typed
<1>1. /\ Good(t, {}, None, C) /\ \A v : Kept(s, t, v)
      /\ \A v \in Ids : s.vb[v].window # w \/ v = s.pending => t.vb[v].window # w
  <2>1. CASE ~flips
    <3>1. t = s
      BY <2>1
    <3>2. \A v \in Ids : s.vb[v].window # w \/ v = s.pending => s.vb[v].window # w
      BY <2>1, Names
    <3> QED
      BY <3>1, <3>2 DEF Kept
  <2>2. CASE flips
    <3>1. s.pending \in Ids /\ s.pending # None
      BY <1>0, <2>2 DEF Typed
    <3>2. /\ Mid(a, {}, None, C) /\ (\A D : Shown(a, D)) /\ (\A v : Kept(s, a, v))
          /\ (\A v \in Ids \ {s.pending} : a.vb[v] = s.vb[v])
          /\ a.pending = s.pending /\ a.cur = s.cur
      BY <1>0, <3>1, AbortMid
    <3> HIDE DEF a
    <3>3. Typed(a) /\ a.vb[s.pending].at = "pending"
      BY <3>1, <3>2 DEF Mid, Request, Lives
    <3>4. b = [a.vb[s.pending] EXCEPT !.window = None]
      OBVIOUS
    <3> HIDE DEF b
    <3> DEFINE x == With(a, s.pending, b)
    <3>5. /\ Mid(x, {}, None, C) /\ (\A D : Shown(a, D) => Shown(x, D))
          /\ Kept(a, x, s.pending) /\ x.vb[s.pending].window = None
          /\ \A u \in Ids \ {s.pending} : x.vb[u] = a.vb[u]
      BY <1>0, <3>1, <3>2, <3>4, WindowlessMid
    <3>6. t = x
      BY <2>2
    <3> HIDE DEF t, x
    <3>7. /\ Mid(t, {}, None, C) /\ Shown(t, C) /\ Kept(a, t, s.pending)
          /\ t.vb[s.pending].window = None
          /\ \A u \in Ids \ {s.pending} : t.vb[u] = a.vb[u]
      BY <3>2, <3>5, <3>6
    <3>8. \A v : Kept(s, t, v)
      <4>1. s.vb[s.pending].at = "pending"
        BY <1>0, <3>1 DEF Mid, Request, Lives
      <4>2. Kept(s, t, s.pending)
        BY <3>2, <3>7, KeptTwice
      <4> QED
        BY <4>1, <4>2 DEF Kept
    <3>9. \A v \in Ids : s.vb[v].window # w \/ v = s.pending => t.vb[v].window # w
      BY <1>0, <3>2, <3>7
    <3> QED
      BY <1>0, <3>7, <3>8, <3>9 DEF Good
  <2> QED
    BY <2>1, <2>2
<1>2. ClearWindowFlip(s, w) = IF t.cur.window = w THEN Unowned(Restored(t)) ELSE t
  BY DEF ClearWindowFlip, With, Unowned
<1> HIDE DEF t
<1>3. CASE t.cur.window # w
  BY <1>1, <1>2, <1>3
<1>4. CASE t.cur.window = w
  <2> DEFINE r == Restored(t)
             u == Unowned(r)
  <2>1. /\ Mid(r, {}, None, C) /\ (\A v : Kept(t, r, v)) /\ r.vb = t.vb /\ r.pix[Root] = Screen
    BY <1>1, RestoredMid DEF Good
  <2> HIDE DEF r
  <2>2. /\ Mid(u, {}, None, C) /\ (\A D : None \in D => Shown(u, D))
        /\ u.vb = r.vb /\ u.cur.window = None /\ \A v : Kept(r, u, v)
    BY <2>1, UnownedMid
  <2> HIDE DEF u
  <2>3. \A v : Kept(s, u, v)
    BY <1>1, <2>1, <2>2, KeptTwice
  <2>4. ClearWindowFlip(s, w) = u
    BY <1>2, <1>4 DEF r, u
  <2> QED
    BY <1>0, <1>1, <2>1, <2>2, <2>3, <2>4 DEF Good
<1> QED
  BY <1>3, <1>4

\* present_destroy_window
LEMMA WindowGoneGood ==
    ASSUME NEW s, NEW C, Good(s, {}, None, C), NEW w \in Living(s)
    PROVE  LET t == WindowGone(s, w)
           IN  /\ Good(t, {}, None, C \ {w})
               /\ t.missed = s.missed \ {w} /\ Living(t) = Living(s) \ {w}
               /\ \A v \in Ids : s.vb[v].at = "none" => t.vb[v].at = "none"
<1> DEFINE T == WindowRequests(s, w)
           d == Destroyed(s, T, "dropped")
           u == Unsent(d, T)
           c == ClearWindowFlip(u, w)
<1>0. /\ Mid(s, {}, None, C) /\ Shown(s, C) /\ None \in C /\ w # None
      /\ Typed(s) /\ InOrder(s) /\ "dropped" \in {"gone", "dropped"}
  BY Names DEF Good, Living, Mid, Typed
<1>1. WindowGone(s, w) = Unliving(c, w)
  BY DEF WindowGone, Unliving, Unsent
<1>2. \A v \in Ids : v \in T <=> s.vb[v].at \in {"exec", "flip"} /\ s.vb[v].window = w
  BY DEF WindowRequests, Queued
<1>3. T \subseteq Ids /\ None \notin T
  BY Names DEF WindowRequests, Queued
<1> HIDE DEF T
<1>4. ASSUME NEW v \in Ids \cap T
      PROVE  /\ s.vb[v].at # "pending" /\ s.vb[v].at # "none"
             /\ s.vb[v].completed = IF "dropped" = "gone" THEN 1 ELSE 0
             /\ s.vb[v].idled = (IF s.cur.pixmap = v THEN 0 ELSE 1)
                \/ ("dropped" = "dropped" /\ s.vb[v].idled = 0)
  <2>1. Lives(s.vb[v], v, s.pending, s.cur.pixmap, None) /\ s.vb[v].at \in {"exec", "flip"}
    BY <1>0, <1>2 DEF Mid, Request
  <2>2. s.cur.pixmap # v
    BY <2>1, Names DEF Lives
  <2>3. s.vb[v].idled = 1 \/ s.vb[v].idled = 0
    BY <2>1 DEF Lives
  <2>4. s.vb[v].completed = 0
    BY <2>1 DEF Lives
  <2> QED
    BY <2>1, <2>2, <2>3, <2>4
<1>5. Mid(d, {} \ T, None, C)
  BY <1>0, <1>3, <1>4, DestroyedMid
<1>6. /\ Changed(s, d, T)
      /\ \A v \in Ids \cap T : d.vb[v] = Remains(s.vb[v], "dropped")
      /\ \A v : (\A x \in T : x = v \/ s.vb[x].at # "none") => Kept(s, d, v)
      /\ \A D : Shown(s, D) => Shown(d, D)
  BY <1>0, DestroyedFields
<1>7. (\A v : Kept(s, d, v)) /\ Shown(d, C)
  BY <1>0, <1>3, <1>4, <1>6
<1>8. \A v \in Ids \cap T : d.vb[v].at = "dropped" /\ d.vb[v].window = None
  BY <1>0, <1>6, RemainsFields DEF Typed
<1>9. {} \ T = {}
  OBVIOUS
<1>10. \A v \in Ids : d.vb[v].window # w \/ v = d.pending
  <2> SUFFICES ASSUME NEW v \in Ids, d.vb[v].window = w
               PROVE  v = d.pending
    OBVIOUS
  <2>1. v \notin T
    BY <1>0, <1>8
  <2>2. d.vb[v] = s.vb[v] /\ d.pending = s.pending
    BY <1>6, <2>1 DEF Changed
  <2>3. s.vb[v].at \in {"none", "exec", "flip", "pending", "gone", "dropped"}
    BY <1>0 DEF Typed, Vblank
  <2>4. Request(s.vb[v], v, s.pending, s.cur.pixmap, s.due, {}, None, C)
    BY <1>0 DEF Mid
  <2>5. s.vb[v].at = "pending"
    BY <1>0, <1>2, <2>1, <2>2, <2>3, <2>4 DEF Request, Lives, NoVblank
  <2> QED
    BY <2>2, <2>4, <2>5 DEF Request, Lives
<1> HIDE DEF d
<1>11. /\ Mid(u, {}, None, C) /\ Shown(u, C) /\ u.vb = d.vb /\ u.pending = d.pending
       /\ u.cur = d.cur /\ \A v : Kept(d, u, v)
  <2>1. \A v \in Ids \cap T : d.vb[v].at # "exec"
    BY <1>8
  <2>2. Mid(d, {}, None, C)
    BY <1>5, <1>9
  <2> QED
    BY <1>7, <2>1, <2>2, UnsentMid
<1> HIDE DEF u
<1>12. w \in Living(u)
  <2>1. Kept(s, d, None) /\ Kept(d, u, None)
    BY <1>7, <1>11
  <2> QED
    BY <2>1 DEF Kept, Living
<1>13. /\ Good(c, {}, None, C) /\ (\A v : Kept(u, c, v)) /\ c.cur.window # w
       /\ \A v \in Ids : c.vb[v].window # w
  <2>1. Good(u, {}, None, C)
    BY <1>0, <1>11 DEF Good
  <2>2. /\ Good(c, {}, None, C) /\ (\A v : Kept(u, c, v)) /\ c.cur.window # w
        /\ \A v \in Ids : u.vb[v].window # w \/ v = u.pending => c.vb[v].window # w
    BY <1>12, <2>1, ClearWindowFlipGood
  <2> QED
    BY <1>10, <1>11, <2>2
<1> HIDE DEF c
<1>14. Kept(s, c, None)
  <2>1. Kept(s, d, None) /\ Kept(d, u, None) /\ Kept(u, c, None)
    BY <1>7, <1>11, <1>13
  <2> QED
    BY <2>1, KeptTwice
<1>15. w \in Living(c) /\ Living(c) = Living(s) /\ c.missed = s.missed
  BY <1>14 DEF Kept, Living
<1> DEFINE t == Unliving(c, w)
<1>16. /\ Good(t, {}, None, C \ {w}) /\ t.vb = c.vb
       /\ t.missed = c.missed \ {w} /\ Living(t) = Living(c) \ {w}
  BY <1>13, <1>15, UnlivingGood
<1> HIDE DEF t
<1>17. \A v \in Ids : s.vb[v].at = "none" => t.vb[v].at = "none"
  BY <1>14, <1>16, Names DEF Kept
<1>18. WindowGone(s, w) = t
  BY <1>1 DEF t
<1> QED
  BY <1>15, <1>16, <1>17, <1>18

-----------------------------------------------------------------------------
(* What calls the screen: requests.                                        *)

LEMMA ScrapFields ==
    ASSUME NEW b \in Vblank
    PROVE  LET c == Scrap(b)
           IN  /\ c \in Vblank /\ c.at = b.at /\ c.window = b.window /\ ~c.pixmap
               /\ c.fence = b.fence /\ ~c.flip /\ c.abort = b.abort /\ c.callback = b.callback
               /\ c.idled = b.idled + 1 /\ c.completed = b.completed /\ c.mode = b.mode
<1>1. b.idled + 1 \in Nat
  BY DEF Vblank
<1> DEFINE n == b.idled + 1
<1>2. Scrap(b) = [b EXCEPT !.idled = n, !.flip = FALSE, !.pixmap = FALSE]
  BY DEF Scrap, Vblank
<1> HIDE DEF n
<1>3. LET c == Scrap(b)
      IN  /\ c \in Vblank /\ c.at = b.at /\ c.window = b.window /\ ~c.pixmap
          /\ c.fence = b.fence /\ ~c.flip /\ c.abort = b.abort /\ c.callback = b.callback
          /\ c.idled = n /\ c.completed = b.completed /\ c.mode = b.mode
  <2>1. n \in Nat
    BY <1>1 DEF n
  <2> QED
    BY <1>2, <2>1 DEF Vblank
<1> QED
  BY <1>3 DEF n

\* The driver owes the events N, too.
Owed(s, N) == [s EXCEPT !.due = @ \cup N]

LEMMA OwedGood ==
    ASSUME NEW s, NEW C, Good(s, {}, None, C), NEW N, N \subseteq [id : Ids, msc : MSCs]
    PROVE  Good(Owed(s, N), {}, None, C) /\ \A w : Kept(s, Owed(s, N), w)
<1> DEFINE t == Owed(s, N)
           E == s.due \cup N
<1>0. Typed(s) /\ Mid(s, {}, None, C) /\ Shown(s, C) /\ None \in C
  BY DEF Good, Mid
<1>1. t = [s EXCEPT !.due = E]
  BY DEF Owed
<1>2. E \subseteq [id : Ids, msc : MSCs] /\ \A e \in s.due : e \in E
  BY <1>0 DEF Typed
<1> HIDE DEF t, E
<1>3. /\ t.vb = s.vb /\ t.queue = s.queue /\ t.pending = s.pending /\ t.unflip = s.unflip
      /\ t.cur = s.cur /\ t.pix = s.pix /\ t.due = E /\ t.flips = s.flips
      /\ t.missed = s.missed
      /\ t = [vb |-> t.vb, queue |-> t.queue, pending |-> t.pending,
              unflip |-> t.unflip, cur |-> t.cur, pix |-> t.pix, due |-> t.due,
              flips |-> t.flips, missed |-> t.missed]
  BY <1>0, <1>1 DEF Typed
<1>4. Typed(t) /\ InOrder(t) /\ OneWay(t) /\ Drawn(t)
  BY <1>0, <1>2, <1>3 DEF Mid, Typed, Living, InOrder, OneWay, Drawn
<1>5. ASSUME NEW u \in Ids
      PROVE  Request(t.vb[u], u, t.pending, t.cur.pixmap, t.due, {}, None, C)
  <2>1. Request(s.vb[u], u, s.pending, s.cur.pixmap, s.due, {}, None, C)
    BY <1>0 DEF Mid
  <2>2. Awaited(s.vb[u], u, s.due) => Awaited(t.vb[u], u, t.due)
    BY <1>2, <1>3 DEF Awaited
  <2> QED
    BY <1>3, <2>1, <2>2 DEF Request
<1>6. Mid(t, {}, None, C)
  BY <1>4, <1>5 DEF Mid
<1>7. Shown(t, C) /\ \A w : Kept(s, t, w)
  BY <1>0, <1>3 DEF Shown, Kept
<1> QED
  BY <1>0, <1>6, <1>7 DEF Good, t

\* a request that is scrapped and done
Skipped(b) == Skip(Remains(Scrap(b), "gone"))

LEMMA SkippedFields ==
    ASSUME NEW b \in Vblank
    PROVE  LET c == Skipped(b)
           IN  /\ c \in Vblank /\ c.at = "gone" /\ c.window = None /\ ~c.flip /\ ~c.pixmap
               /\ ~c.abort /\ c.idled = b.idled + 1 /\ c.completed = b.completed + 1
<1> DEFINE r == Remains(Scrap(b), "gone")
           n == r.completed + 1
<1>1. /\ r \in Vblank /\ r.at = "gone" /\ r.window = None /\ ~r.flip /\ ~r.pixmap /\ ~r.abort
      /\ r.idled = b.idled + 1 /\ r.completed = b.completed
  BY ScrapFields, RemainsFields
<1>2. Skipped(b) = [r EXCEPT !.completed = n, !.mode = "skip"]
  BY <1>1 DEF Skipped, Skip, Vblank
<1>3. n \in Nat /\ n = b.completed + 1
  BY <1>1 DEF Vblank
<1> HIDE DEF r, n
<1>4. LET c == Skipped(b)
      IN  /\ c \in Vblank /\ c.at = "gone" /\ c.window = None /\ ~c.flip /\ ~c.pixmap
          /\ ~c.abort /\ c.idled = r.idled /\ c.completed = n
  BY <1>1, <1>2, <1>3 DEF Vblank
<1> QED
  BY <1>1, <1>3, <1>4

\* Requests that are scrapped: those of over are done, those of waiting wait for
\* their fences, and the driver owes N to the rest that waited for a flip.
Scraps(s, T, waiting, over) ==
    LET a == [s EXCEPT !.vb = [v \in Ids |-> IF v \in T THEN Scrap(s.vb[v]) ELSE s.vb[v]]]
    IN  [Destroyed(a, over, "gone") EXCEPT
            !.vb = [v \in Ids |->
                       IF v \in waiting THEN [@[v] EXCEPT !.callback = TRUE]
                       ELSE IF v \in over THEN Skip(@[v]) ELSE @[v]]]

LEMMA ScrapsFields ==
    ASSUME NEW s, Typed(s), NEW T, NEW waiting, NEW over, over \subseteq T,
           waiting \cap over = {}
    PROVE  LET t == Scraps(s, T, waiting, over)
           IN  /\ t.queue = Without(s.queue, over) /\ DOMAIN t.vb = Ids
               /\ t.vb = [v \in Ids |-> t.vb[v]]
               /\ \A v \in Ids :
                     t.vb[v] = IF v \in waiting
                               THEN [(IF v \in T THEN Scrap(s.vb[v]) ELSE s.vb[v])
                                         EXCEPT !.callback = TRUE]
                               ELSE IF v \in over THEN Skipped(s.vb[v])
                               ELSE IF v \in T THEN Scrap(s.vb[v]) ELSE s.vb[v]
               /\ t.pending = s.pending /\ t.unflip = s.unflip
               /\ t.cur = s.cur /\ t.pix = s.pix /\ t.due = s.due /\ t.flips = s.flips
               /\ t.missed = s.missed
               /\ t = [vb |-> t.vb, queue |-> t.queue, pending |-> t.pending,
                       unflip |-> t.unflip, cur |-> t.cur, pix |-> t.pix, due |-> t.due,
                       flips |-> t.flips, missed |-> t.missed]
<1> DEFINE t == Scraps(s, T, waiting, over)
           g == [v \in Ids |-> IF v \in T THEN Scrap(s.vb[v]) ELSE s.vb[v]]
           a == [s EXCEPT !.vb = g]
           h == [v \in Ids |-> IF v \in over THEN Remains(a.vb[v], "gone") ELSE a.vb[v]]
           d == Destroyed(a, over, "gone")
           k == [v \in Ids |->
                       IF v \in waiting THEN [d.vb[v] EXCEPT !.callback = TRUE]
                       ELSE IF v \in over THEN Skip(d.vb[v]) ELSE d.vb[v]]
<1> HIDE DEF g
<1>1. /\ a.vb = g /\ a.queue = s.queue /\ a.pending = s.pending /\ a.unflip = s.unflip
      /\ a.cur = s.cur /\ a.pix = s.pix /\ a.due = s.due /\ a.flips = s.flips
      /\ a.missed = s.missed
      /\ a = [vb |-> a.vb, queue |-> a.queue, pending |-> a.pending,
              unflip |-> a.unflip, cur |-> a.cur, pix |-> a.pix, due |-> a.due,
              flips |-> a.flips, missed |-> a.missed]
  BY DEF Typed
<1>2. t = [d EXCEPT !.vb = k]
  BY DEF Scraps, g
<1> HIDE DEF a
<1>3. d = [a EXCEPT !.queue = Without(@, over), !.vb = h]
  BY DEF Destroyed, Remains
<1> HIDE DEF h
<1>4. /\ d.vb = h /\ d.queue = Without(s.queue, over) /\ d.pending = s.pending
      /\ d.unflip = s.unflip
      /\ d.cur = s.cur /\ d.pix = s.pix /\ d.due = s.due /\ d.flips = s.flips
      /\ d.missed = s.missed
      /\ d = [vb |-> d.vb, queue |-> d.queue, pending |-> d.pending,
              unflip |-> d.unflip, cur |-> d.cur, pix |-> d.pix, due |-> d.due,
              flips |-> d.flips, missed |-> d.missed]
  BY <1>1, <1>3
<1> HIDE DEF d, k, t
<1>6. /\ t.vb = k /\ t.queue = d.queue /\ t.pending = d.pending /\ t.unflip = d.unflip
      /\ t.cur = d.cur /\ t.pix = d.pix /\ t.due = d.due /\ t.flips = d.flips
      /\ t.missed = d.missed
      /\ t = [vb |-> t.vb, queue |-> t.queue, pending |-> t.pending,
              unflip |-> t.unflip, cur |-> t.cur, pix |-> t.pix, due |-> t.due,
              flips |-> t.flips, missed |-> t.missed]
  BY <1>2, <1>4
<1>7. ASSUME NEW v \in Ids
      PROVE  k[v] = IF v \in waiting
                    THEN [(IF v \in T THEN Scrap(s.vb[v]) ELSE s.vb[v])
                              EXCEPT !.callback = TRUE]
                    ELSE IF v \in over THEN Skipped(s.vb[v])
                    ELSE IF v \in T THEN Scrap(s.vb[v]) ELSE s.vb[v]
  <2>1. g[v] = IF v \in T THEN Scrap(s.vb[v]) ELSE s.vb[v]
    BY DEF g
  <2>2. h[v] = IF v \in over THEN Remains(g[v], "gone") ELSE g[v]
    BY <1>1 DEF h
  <2>3. CASE v \in waiting
    <3>1. v \notin over
      BY <2>3
    <3> QED
      BY <1>4, <2>1, <2>2, <2>3, <3>1 DEF k
  <2>4. CASE v \notin waiting /\ v \in over
    <3>1. h[v] = Remains(Scrap(s.vb[v]), "gone")
      BY <2>1, <2>2, <2>4
    <3> QED
      BY <1>4, <2>4, <3>1 DEF k, Skipped
  <2>5. CASE v \notin waiting /\ v \notin over
    BY <1>4, <2>1, <2>2, <2>5 DEF k
  <2> QED
    BY <2>3, <2>4, <2>5
<1>8. k = [v \in Ids |-> k[v]] /\ DOMAIN k = Ids
  BY DEF k
<1> QED
  BY <1>4, <1>6, <1>7, <1>8 DEF t

LEMMA ScrapsGood ==
    ASSUME NEW s, NEW C, Good(s, {}, None, C), NEW T, T \subseteq Ids,
           \A v \in T : s.vb[v].at \in {"exec", "flip"} /\ s.vb[v].pixmap,
           NEW waiting, NEW over, waiting \subseteq T, over \subseteq T,
           waiting \cap over = {}
    PROVE  LET t == Scraps(s, T, waiting, over)
           IN  Good(t, {}, None, C) /\ \A w : Kept(s, t, w)
<1> DEFINE t == Scraps(s, T, waiting, over)
<1>0. Typed(s) /\ Mid(s, {}, None, C) /\ Shown(s, C) /\ None \in C /\ InOrder(s)
  BY DEF Good, Mid
<1>1. /\ t.queue = Without(s.queue, over) /\ DOMAIN t.vb = Ids
      /\ t.vb = [v \in Ids |-> t.vb[v]]
      /\ \A v \in Ids :
            t.vb[v] = IF v \in waiting
                      THEN [(IF v \in T THEN Scrap(s.vb[v]) ELSE s.vb[v])
                                EXCEPT !.callback = TRUE]
                      ELSE IF v \in over THEN Skipped(s.vb[v])
                      ELSE IF v \in T THEN Scrap(s.vb[v]) ELSE s.vb[v]
      /\ t.pending = s.pending /\ t.unflip = s.unflip
      /\ t.cur = s.cur /\ t.pix = s.pix /\ t.due = s.due /\ t.flips = s.flips
      /\ t.missed = s.missed
      /\ t = [vb |-> t.vb, queue |-> t.queue, pending |-> t.pending,
              unflip |-> t.unflip, cur |-> t.cur, pix |-> t.pix, due |-> t.due,
              flips |-> t.flips, missed |-> t.missed]
  BY <1>0, ScrapsFields
<1> HIDE DEF t
<1>2. ASSUME NEW v \in Ids, v \in T, v \notin over
      PROVE  LET b == s.vb[v]
                 c == t.vb[v]
             IN  /\ c \in Vblank /\ c.at = b.at /\ c.window = b.window /\ ~c.pixmap
                 /\ c.fence = b.fence /\ ~c.flip /\ c.abort = b.abort
                 /\ (b.callback => c.callback)
                 /\ c.idled = b.idled + 1 /\ c.completed = b.completed /\ c.mode = b.mode
  <2> DEFINE b == s.vb[v]
             c == Scrap(b)
  <2>1. /\ c \in Vblank /\ c.at = b.at /\ c.window = b.window /\ ~c.pixmap
        /\ c.fence = b.fence /\ ~c.flip /\ c.abort = b.abort /\ c.callback = b.callback
        /\ c.idled = b.idled + 1 /\ c.completed = b.completed /\ c.mode = b.mode
    <3>1. b \in Vblank
      BY <1>0 DEF Typed
    <3> QED
      BY <3>1, ScrapFields
  <2> DEFINE d == t.vb[v]
  <2>2. d = IF v \in waiting THEN [c EXCEPT !.callback = TRUE] ELSE c
    BY <1>1, <1>2
  <2> HIDE DEF b, c, d
  <2>3. /\ d \in Vblank /\ d.at = c.at /\ d.window = c.window /\ d.pixmap = c.pixmap
        /\ d.fence = c.fence /\ d.flip = c.flip /\ d.abort = c.abort
        /\ (c.callback => d.callback)
        /\ d.idled = c.idled /\ d.completed = c.completed /\ d.mode = c.mode
    <3>1. c \in Vblank
      BY <2>1
    <3>2. CASE v \in waiting
      BY <2>2, <3>1, <3>2 DEF Vblank
    <3>3. CASE v \notin waiting
      BY <2>2, <3>1, <3>3
    <3> QED
      BY <3>2, <3>3
  <2>4. /\ d \in Vblank /\ d.at = b.at /\ d.window = b.window /\ ~d.pixmap
        /\ d.fence = b.fence /\ ~d.flip /\ d.abort = b.abort
        /\ (b.callback => d.callback)
        /\ d.idled = b.idled + 1 /\ d.completed = b.completed /\ d.mode = b.mode
    BY <2>1, <2>3
  <2> QED
    BY <2>4 DEF b, d
<1>3. ASSUME NEW v \in Ids, v \in over
      PROVE  LET b == s.vb[v]
                 c == t.vb[v]
             IN  /\ c \in Vblank /\ c.at = "gone" /\ c.window = None /\ ~c.flip /\ ~c.pixmap
                 /\ ~c.abort /\ c.idled = b.idled + 1 /\ c.completed = b.completed + 1
  <2>1. t.vb[v] = Skipped(s.vb[v])
    BY <1>1, <1>3
  <2>2. s.vb[v] \in Vblank
    BY <1>0 DEF Typed
  <2> QED
    BY <2>1, <2>2, SkippedFields
<1>4. \A v \in Ids : v \notin T => t.vb[v] = s.vb[v]
  BY <1>1
<1>5. t.vb \in [Ids -> Vblank]
  <2>1. \A v \in Ids : t.vb[v] \in Vblank
    BY <1>0, <1>2, <1>3, <1>4 DEF Typed
  <2> QED
    BY <1>1, <2>1
<1>6. Changed(s, t, T)
  <2>1. \A v \in Ids \cap T : /\ t.vb[v].window \in Living(s) \cup {None}
                              /\ t.vb[v].abort => s.vb[v].abort
    BY <1>0, <1>2, <1>3 DEF Typed
  <2> QED
    BY <1>1, <1>4, <1>5, <2>1 DEF Changed
<1>7. InOrder(t)
  <2>1. DOMAIN t.queue = DOMAIN s.queue \ over /\ IsQueue(t.queue)
    <3>1. IsQueue(s.queue)
      BY <1>0 DEF InOrder
    <3>2. /\ DOMAIN Without(s.queue, over) = DOMAIN s.queue \ over
          /\ IsQueue(Without(s.queue, over))
      BY <3>1, WithoutQueue
    <3> QED
      BY <1>1, <3>2
  <2>2. \A v \in Ids : t.vb[v].at = "flip" <=> s.vb[v].at = "flip" /\ v \notin over
    BY <1>2, <1>3, <1>4
  <2> QED
    BY <1>0, <2>1, <2>2 DEF InOrder
<1>8. ASSUME NEW v \in Ids \cap T
      PROVE  Request(t.vb[v], v, s.pending, s.cur.pixmap, s.due, {}, None, C)
  <2> DEFINE b == s.vb[v]
             c == t.vb[v]
  <2>1. Request(b, v, s.pending, s.cur.pixmap, s.due, {}, None, C)
    BY <1>0 DEF Mid
  <2>2. b.at \in {"exec", "flip"} /\ b.pixmap /\ v # None
    BY Names
  <2>3. b.idled = 0 /\ b.completed = 0 /\ s.cur.pixmap # v /\ v # s.pending
    BY <2>1, <2>2 DEF Request, Lives
  <2>4. CASE v \in over
    <3>1. /\ c.at = "gone" /\ c.window = None /\ ~c.flip /\ ~c.pixmap
          /\ ~c.abort /\ c.idled = 1 /\ c.completed = 1
      BY <1>3, <2>3, <2>4
    <3> HIDE DEF b, c
    <3>2. Request(c, v, s.pending, s.cur.pixmap, s.due, {}, None, C)
      BY <1>0, <2>2, <2>3, <3>1 DEF Request, Lives, Awaited, Covered
    <3> QED
      BY <3>2 DEF c
  <2>5. CASE v \notin over
    <3>1. /\ c.at = b.at /\ c.window = b.window /\ ~c.pixmap
          /\ c.fence = b.fence /\ ~c.flip /\ c.abort = b.abort
          /\ (b.callback => c.callback)
          /\ c.idled = 1 /\ c.completed = 0 /\ c.mode = b.mode
      BY <1>2, <2>3, <2>5
    <3> HIDE DEF b, c
    <3>2. Lives(c, v, s.pending, s.cur.pixmap, None)
      BY <2>1, <2>2, <2>3, <3>1 DEF Request, Lives
    <3>3. Awaited(c, v, s.due) /\ Covered(c, C)
      BY <2>1, <2>2, <3>1 DEF Request, Awaited, Covered
    <3>4. Request(c, v, s.pending, s.cur.pixmap, s.due, {}, None, C)
      BY <2>2, <3>1, <3>2, <3>3 DEF Request
    <3> QED
      BY <3>4 DEF c
  <2> QED
    BY <2>4, <2>5
<1>9. Mid(t, {}, None, C)
  <2>1. {} \ T \subseteq {} /\ None \in {} \cup {None}
    OBVIOUS
  <2> QED
    BY <1>0, <1>6, <1>7, <1>8, <2>1, ChangedMid
<1>10. Shown(t, C) /\ \A w : Kept(s, t, w)
  BY <1>0, <1>1, <1>4 DEF Shown, Kept
<1> QED
  BY <1>0, <1>9, <1>10 DEF Good, t

LEMMA ScrappedGood ==
    ASSUME NEW s, NEW C, Good(s, {}, None, C), NEW T, T \subseteq Ids,
           \A v \in T : s.vb[v].at \in {"exec", "flip"} /\ s.vb[v].pixmap,
           NEW t \in Scrapped(s, T)
    PROVE  Good(t, {}, None, C) /\ \A w : Kept(s, t, w)
<1>0. Typed(s)
  BY DEF Good, Mid
<1> DEFINE again == {v \in T : s.vb[v].ready}
           N(E) == {[id |-> v, msc |-> s.vb[v].exec] : v \in E}
           waiting(E) == {v \in again \ E : FenceWaits(s.vb[v])}
           over(E) == again \ (E \cup waiting(E))
<1>1. PICK E \in SUBSET T : /\ \A v \in E : s.vb[v].exec = msc + 1
                           /\ t = Owed(Scraps(s, T, waiting(E), over(E)), N(E))
  <2> DEFINE a == [s EXCEPT !.vb = [v \in Ids |-> IF v \in T THEN Scrap(s.vb[v]) ELSE s.vb[v]]]
             O(E) == [Destroyed(a, over(E), "gone") EXCEPT
                         !.due = @ \cup N(E),
                         !.vb = [v \in Ids |->
                                   IF v \in waiting(E) THEN [@[v] EXCEPT !.callback = TRUE]
                                   ELSE IF v \in over(E) THEN Skip(@[v]) ELSE @[v]]]
             early == {v \in again : s.vb[v].exec = msc + 1}
  <2>1. PICK E \in (IF "queue" \in Refusals THEN SUBSET early ELSE {early}) : t = O(E)
    BY DEF Scrapped
  <2>2. E \in SUBSET T /\ \A v \in E : s.vb[v].exec = msc + 1
    BY <2>1
  <2>3. O(E) = Owed(Scraps(s, T, waiting(E), over(E)), N(E))
    BY DEF Owed, Scraps
  <2> QED
    BY <2>1, <2>2, <2>3
<1> DEFINE W == waiting(E)
           V == over(E)
           M == N(E)
<1>2. W \subseteq T /\ V \subseteq T /\ W \cap V = {}
  OBVIOUS
<1>3. M \subseteq [id : Ids, msc : MSCs]
  <2>1. \A v \in E : s.vb[v].exec \in MSCs
    BY <1>0, <1>1, AheadIsAFrame DEF Good
  <2> QED
    BY <2>1
<1>4. t = Owed(Scraps(s, T, W, V), M)
  BY <1>1
<1> HIDE DEF W, V, M
<1> DEFINE u == Scraps(s, T, W, V)
<1>5. Good(u, {}, None, C) /\ \A w : Kept(s, u, w)
  BY <1>2, ScrapsGood
<1> HIDE DEF u
<1>6. t = Owed(u, M)
  BY <1>4 DEF u
<1>7. Good(t, {}, None, C) /\ \A w : Kept(u, t, w)
  BY <1>3, <1>5, <1>6, OwedGood
<1> QED
  BY <1>5, <1>7, KeptTwice

LEMMA NewVblankFields ==
    ASSUME NEW s, Typed(s), NEW w \in Living(s), NEW shape \in Shapes, NEW target \in MSCs
    PROVE  LET b == NewVblank(s, w, target, shape)
           IN  /\ b \in Vblank /\ b.at = "exec" /\ b.window = w /\ b.pixmap /\ ~b.abort
               /\ b.idled = 0 /\ b.completed = 0 /\ b.mode = "none" /\ ~b.refused
               /\ b.target = target /\ ~b.callback /\ ~b.ready
               /\ b.exec = IF b.sync THEN target - 1 ELSE target
               /\ b.sync => b.flip
               /\ b.flip => full = w
<1> DEFINE b == NewVblank(s, w, target, shape)
           flip == ~shape.copy /\ CheckFlip(s, w, full)
           sync == flip /\ ~WantAsyncFlip(shape)
           exec == IF flip /\ ~WantAsyncFlip(shape) THEN target - 1 ELSE target
           f == shape.fence
<1>1. b = [NoVblank EXCEPT !.at = "exec", !.window = w, !.pixmap = TRUE, !.fence = f,
                           !.target = target, !.sync = sync, !.flip = flip, !.exec = exec]
  BY DEF NewVblank
<1>2. f \in Fences \cup {None}
  BY ShapesAssumption DEF Shape
<1>3. exec \in MSCs \cup {-1}
  BY ShapesAssumption DEF MSCs
<1>4. w \in Windows
  BY DEF Typed, Living
<1>5. flip \in BOOLEAN /\ sync \in BOOLEAN /\ (sync => flip) /\ (flip => full = w)
  BY DEF CheckFlip
<1>6. exec = IF sync THEN target - 1 ELSE target
  BY DEF sync
<1> HIDE DEF b, flip, sync, exec, f
<1>7. /\ b.at = "exec" /\ b.window = w /\ b.pixmap /\ b.fence = f /\ b.target = target
      /\ b.sync = sync /\ b.flip = flip /\ b.exec = exec /\ ~b.abort
      /\ b.idled = 0 /\ b.completed = 0 /\ b.mode = "none" /\ ~b.refused
      /\ ~b.callback /\ ~b.ready
  BY <1>1 DEF NoVblank
<1>8. b \in Vblank
  BY <1>1, <1>2, <1>3, <1>4, <1>5, Names DEF NoVblank, Vblank
<1> QED
  BY <1>5, <1>6, <1>7, <1>8 DEF b

LEMMA QueueGood ==
    ASSUME NEW s, NEW C, Good(s, {}, None, C), full \in C,
           NEW v \in Ids, s.vb[v].at = "none",
           NEW w \in Living(s), NEW shape \in Shapes, NEW target \in MSCs, NEW t \in Queue(s, v, w, target, shape)
    PROVE  Good(t, {}, None, C) /\ Kept(s, t, v)
<1> DEFINE b == NewVblank(s, w, target, shape)
           a == With(s, v, b)
<1>0. Mid(s, {}, None, C) /\ Shown(s, C) /\ None \in C /\ Typed(s) /\ w # None /\ v # None
  BY Names DEF Good, Mid, Typed, Living
<1>1. /\ b \in Vblank /\ b.at = "exec" /\ b.window = w /\ b.pixmap /\ ~b.abort
      /\ b.idled = 0 /\ b.completed = 0 /\ b.mode = "none"
      /\ b.flip => full = w
  BY <1>0, NewVblankFields
<1>2. t \in (IF a.vb[v].exec <= msc THEN Execute(a, v, msc)
             ELSE {QueueVblank(a, v)}
                  \cup (IF "queue" \in Refusals THEN Execute(Refused(a, v), v, msc) ELSE {}))
  BY DEF Queue, With
<1> HIDE DEF b
<1>3. a.vb = [s.vb EXCEPT ![v] = b] /\ a.vb[v] = b
  BY <1>0, WithFields
<1>4. Mid(a, {v}, None, C)
  <2>1. Request(s.vb[v], v, s.pending, s.cur.pixmap, s.due, {}, None, C)
    BY <1>0 DEF Mid
  <2>2. Request(b, v, s.pending, s.cur.pixmap, s.due, {v}, None, C)
    BY <1>0, <1>1, <2>1 DEF Request, Lives, Covered
  <2>3. {} \ {v} \subseteq {v} /\ None \in {v} \cup {None}
    OBVIOUS
  <2>4. (b.at = "flip" <=> s.vb[v].at = "flip") /\ (b.abort => s.vb[v].abort \/ s.pix[Root] = Screen)
    BY <1>1
  <2>5. b.window \in Living(s) \cup {None}
    BY <1>1
  <2> QED
    BY <1>0, <1>1, <2>2, <2>3, <2>4, <2>5, WithMid
<1>5. Kept(s, a, v) /\ Shown(a, C)
  BY <1>0, WithKept
<1> HIDE DEF a
<1>6. Good(a, {v}, None, C) /\ a.vb[v].at \in {"exec", "flip", "pending"} /\ a.vb[v].at # "none"
      /\ v \in {v} /\ {v} \ {v} = {} /\ msc \in Nat
  BY <1>0, <1>1, <1>3, <1>4, <1>5 DEF Good
<1>7. CASE t \in Execute(a, v, msc)
  <2>1. Good(t, {v} \ {v}, None, C) /\ \A x : Kept(a, t, x)
    BY <1>6, <1>7, ExecuteGood
  <2> QED
    BY <1>5, <1>6, <2>1, KeptTwice
<1>8. CASE t = QueueVblank(a, v) /\ ~(a.vb[v].exec <= msc)
  <2>1. Mid(t, {v} \ {v}, None, C) /\ Kept(a, t, v) /\ \A D : Shown(a, D) => Shown(t, D)
    <3>1. b.exec \in MSCs
      BY <1>1, <1>3, <1>6, <1>8 DEF Vblank
    <3> QED
      BY <1>3, <1>4, <1>6, <1>8, <3>1, OwedMid
  <2> QED
    BY <1>0, <1>5, <1>6, <2>1, KeptTwice DEF Good
<1>9. CASE t \in Execute(Refused(a, v), v, msc)
  <2> DEFINE r == Refused(a, v)
  <2>1. /\ r = With(a, v, [a.vb[v] EXCEPT !.refused = TRUE])
        /\ Mid(r, {v}, None, C) /\ (\A D : Shown(a, D) => Shown(r, D)) /\ Kept(a, r, v)
    BY <1>4, <1>6, RefusedMid
  <2>2. r.vb[v].at = "exec"
    <3>1. Typed(a) /\ a.vb[v] \in Vblank
      BY <1>4 DEF Mid, Typed
    <3>2. r.vb[v] = [a.vb[v] EXCEPT !.refused = TRUE]
      BY <3>1 DEF Typed, r, Refused
    <3> QED
      BY <1>1, <1>3, <3>1, <3>2 DEF Vblank
  <2> HIDE DEF r
  <2>3. Good(r, {v}, None, C) /\ r.vb[v].at \in {"exec", "flip", "pending"}
    BY <1>0, <1>5, <2>1, <2>2 DEF Good
  <2>4. t \in Execute(r, v, msc)
    BY <1>9 DEF r
  <2>5. Good(t, {v} \ {v}, None, C) /\ \A x : Kept(r, t, x)
    BY <1>6, <2>3, <2>4, ExecuteGood
  <2> QED
    BY <1>5, <1>6, <2>1, <2>5, KeptTwice
<1> QED
  BY <1>2, <1>7, <1>8, <1>9

-----------------------------------------------------------------------------
(* The invariant is inductive.                                             *)

\* a call that leaves the fences alone
LEMMA CallHolds ==
    ASSUME IndInv, UNCHANGED <<fence, walk>>,
           NEW C, C = {full', None} \cup scr'.missed, Good(scr', {}, None, C),
           full' \in Living(scr') \cup {None}, msc' \in MSCs, last' \in 0 .. MaxRequests,
           \A v \in Ids : v > last' => scr'.vb[v].at = "none"
    PROVE  IndInv'
<1>1. Typed(scr') /\ InOrder(scr') /\ OneWay(scr') /\ Drawn(scr') /\ Shown(scr', C)
  BY DEF Good, Mid
<1>2. \A v \in Ids : Request(scr'.vb[v], v, scr'.pending, scr'.cur.pixmap, scr'.due, {}, None, C)
  BY DEF Good, Mid
<1>3. \A v \in Ids : Lives(scr'.vb[v], v, scr'.pending, scr'.cur.pixmap, None)
  BY <1>2 DEF Request
<1>4. TypeOK'
  <2>1. \A v \in Queued(scr') : scr'.vb[v].window # None
    BY <1>3 DEF Queued, Lives
  <2> QED
    BY <1>1, <2>1 DEF TypeOK, IndInv, Typed, InOrder, IsQueue, Living, Queued
<1>5. ASSUME NEW v \in Ids
      PROVE  Request(scr.vb[v], v, scr.pending, scr.cur.pixmap, scr.due, {}, None, Coverable(scr))'
  BY <1>2 DEF Request, Awaited, Covered, Coverable, Lives
<1>6. Mid(scr, {}, None, Coverable(scr))'
  BY <1>1, <1>5 DEF Mid, Typed, InOrder, IsQueue, Living, OneWay, Drawn
<1>7. Shown(scr, Coverable(scr))'
  BY <1>1 DEF Shown, Coverable
<1> QED
  BY <1>4, <1>6, <1>7 DEF IndInv

LEMMA Whole ==
    ASSUME IndInv
    PROVE  /\ Good(scr, {}, None, Coverable(scr)) /\ Typed(scr) /\ None \in Coverable(scr)
           /\ full \in Living(scr) \cup {None} /\ msc \in MSCs /\ last \in 0 .. MaxRequests
           /\ walk \in Fences \cup {None}
           /\ fence \in [Fences -> {"reset", "triggered", "destroyed"}]
           /\ \A v \in Ids : v > last => scr.vb[v].at = "none"
           /\ walk # None => fence[walk] = "triggered"
<1>1. None \in Coverable(scr)
  BY DEF Coverable
<1> QED
  BY <1>1, Names DEF IndInv, TypeOK, Good, Mid

\* a step that changes the fences
LEMMA FenceHolds ==
    ASSUME IndInv, UNCHANGED <<msc, full, last>>,
           NEW C, C = Coverable(scr), Good(scr', {}, None, C), \A w : Kept(scr, scr', w),
           fence' \in [Fences -> {"reset", "triggered", "destroyed"}],
           walk' \in Fences \cup {None}, walk' # None => fence'[walk'] = "triggered",
           \A v \in Ids :
               LET f == scr'.vb[v].fence
               IN  scr'.vb[v].callback /\ f # None /\ (fence[f] = "reset" \/ walk = f)
                       => fence'[f] = "reset" \/ walk' = f
    PROVE  IndInv'
<1>1. Typed(scr') /\ InOrder(scr') /\ OneWay(scr') /\ Drawn(scr') /\ Shown(scr', C)
  BY DEF Good, Mid
<1>2. \A v \in Ids : Request(scr'.vb[v], v, scr'.pending, scr'.cur.pixmap, scr'.due, {}, None, C)
  BY DEF Good, Mid
<1>3. \A v \in Ids : Lives(scr'.vb[v], v, scr'.pending, scr'.cur.pixmap, None)
  BY <1>2 DEF Request
<1>4. Kept(scr, scr', None)
  OBVIOUS
<1>5. C = Coverable(scr)' /\ Living(scr') = Living(scr)
  BY <1>4 DEF Kept, Coverable, Living
<1>6. \A v \in Ids : v > last => scr'.vb[v].at = "none"
  BY <1>4, Whole, Names DEF Kept
<1>7. TypeOK'
  <2>1. \A v \in Queued(scr') : scr'.vb[v].window # None
    BY <1>3 DEF Queued, Lives
  <2> QED
    BY <1>1, <1>5, <2>1, Whole DEF TypeOK, Typed, InOrder, IsQueue, Living, Queued
<1>8. ASSUME NEW v \in Ids
      PROVE  Request(scr.vb[v], v, scr.pending, scr.cur.pixmap, scr.due, {}, None, Coverable(scr))'
  BY <1>2, <1>5 DEF Request, Awaited, Covered, Lives
<1>9. Mid(scr, {}, None, Coverable(scr))'
  BY <1>1, <1>8 DEF Mid, Typed, InOrder, IsQueue, Living, OneWay, Drawn
<1>10. Shown(scr, Coverable(scr))'
  BY <1>1, <1>5 DEF Shown
<1> QED
  BY <1>6, <1>7, <1>9, <1>10 DEF IndInv

LEMMA TriggerFenceHolds ==
    ASSUME IndInv, NEW f \in Fences, TriggerFence(f)
    PROVE  IndInv'
<1> DEFINE C == Coverable(scr)
<1>1. Good(scr', {}, None, C) /\ \A w : Kept(scr, scr', w)
  BY Whole DEF TriggerFence, Kept
<1>2. /\ fence' \in [Fences -> {"reset", "triggered", "destroyed"}] /\ walk' \in Fences \cup {None}
      /\ fence'[walk'] = "triggered"
  BY Whole DEF TriggerFence
<1>3. ASSUME NEW v \in Ids
      PROVE  LET g == scr'.vb[v].fence
             IN  scr'.vb[v].callback /\ g # None /\ (fence[g] = "reset" \/ walk = g)
                     => fence'[g] = "reset" \/ walk' = g
  <2>1. scr.vb[v].fence \in Fences \cup {None}
    BY Whole DEF Typed, Vblank
  <2> QED
    BY <2>1, Whole DEF TriggerFence
<1> QED
  BY <1>1, <1>2, <1>3, FenceHolds DEF TriggerFence

LEMMA ResetFenceHolds ==
    ASSUME IndInv, NEW f \in Fences, ResetFence(f)
    PROVE  IndInv'
<1> DEFINE C == Coverable(scr)
<1>1. Good(scr', {}, None, C) /\ \A w : Kept(scr, scr', w)
  BY Whole DEF ResetFence, Kept
<1>2. /\ fence' \in [Fences -> {"reset", "triggered", "destroyed"}] /\ walk' \in Fences \cup {None}
      /\ walk' = None
  BY Whole DEF ResetFence
<1>3. ASSUME NEW v \in Ids
      PROVE  LET g == scr'.vb[v].fence
             IN  scr'.vb[v].callback /\ g # None /\ (fence[g] = "reset" \/ walk = g)
                     => fence'[g] = "reset" \/ walk' = g
  <2>1. scr.vb[v].fence \in Fences \cup {None}
    BY Whole DEF Typed, Vblank
  <2> QED
    BY <2>1, Whole DEF ResetFence
<1> QED
  BY <1>1, <1>2, <1>3, FenceHolds DEF ResetFence

LEMMA FenceDoneHolds ==
    ASSUME IndInv, FenceDone
    PROVE  IndInv'
<1> DEFINE C == Coverable(scr)
<1>1. Good(scr', {}, None, C) /\ \A w : Kept(scr, scr', w)
  BY Whole DEF FenceDone, Kept
<1>2. /\ fence' \in [Fences -> {"reset", "triggered", "destroyed"}] /\ walk' \in Fences \cup {None}
      /\ walk' = None
  BY Whole DEF FenceDone
<1>3. ASSUME NEW v \in Ids
      PROVE  LET g == scr'.vb[v].fence
             IN  scr'.vb[v].callback /\ g # None /\ (fence[g] = "reset" \/ walk = g)
                     => fence'[g] = "reset" \/ walk' = g
  <2>1. ~(scr.vb[v].fence = walk /\ scr.vb[v].callback)
    BY DEF FenceDone, Callbacks
  <2> QED
    BY <2>1 DEF FenceDone
<1> QED
  BY <1>1, <1>2, <1>3, FenceHolds DEF FenceDone

\* The requests of a fence that is destroyed.
Unfenced(s, f) ==
    [s EXCEPT !.vb = [v \in Ids |-> IF @[v].fence = f
                                    THEN [@[v] EXCEPT !.fence = None] ELSE @[v]]]

LEMMA UnfencedGood ==
    ASSUME NEW s, NEW C, Good(s, {}, None, C), NEW f \in Fences
    PROVE  LET t == Unfenced(s, f)
           IN  /\ Good(t, {}, None, C) /\ \A w : Kept(s, t, w)
               /\ \A v \in Ids : t.vb[v].fence # f
                                 /\ (t.vb[v].fence = s.vb[v].fence \/ t.vb[v].fence = None)
<1> DEFINE t == Unfenced(s, f)
           un(b) == IF b.fence = f THEN [b EXCEPT !.fence = None] ELSE b
           g == [v \in Ids |-> un(s.vb[v])]
<1>0. Typed(s) /\ Mid(s, {}, None, C) /\ Shown(s, C) /\ None \in C /\ f # None
  BY Names DEF Good, Mid
<1>1. t = [s EXCEPT !.vb = g]
  BY DEF Unfenced
<1>2. ASSUME NEW b \in Vblank
      PROVE  /\ un(b) \in Vblank /\ un(b).flip = b.flip
             /\ un(b).at = b.at /\ un(b).window = b.window /\ un(b).pixmap = b.pixmap
             /\ un(b).fence # f /\ (un(b).fence = b.fence \/ un(b).fence = None)
             /\ un(b).abort = b.abort /\ un(b).callback = b.callback
             /\ un(b).idled = b.idled /\ un(b).completed = b.completed /\ un(b).mode = b.mode
  <2>1. CASE b.fence = f
    BY <1>0, <2>1 DEF Vblank
  <2>2. CASE b.fence # f
    BY <2>2
  <2> QED
    BY <2>1, <2>2
<1>3. un(NoVblank) = NoVblank
  BY <1>0 DEF NoVblank
<1> HIDE DEF t, un
<1>4. \A v \in Ids : g[v] = un(s.vb[v])
  OBVIOUS
<1>5. g \in [Ids -> Vblank]
  BY <1>0, <1>2 DEF Typed
<1> HIDE DEF g
<1>6. /\ t.vb = g /\ t.queue = s.queue /\ t.pending = s.pending /\ t.unflip = s.unflip
      /\ t.cur = s.cur /\ t.pix = s.pix /\ t.due = s.due /\ t.flips = s.flips
      /\ t.missed = s.missed
      /\ t = [vb |-> t.vb, queue |-> t.queue, pending |-> t.pending,
              unflip |-> t.unflip, cur |-> t.cur, pix |-> t.pix, due |-> t.due,
              flips |-> t.flips, missed |-> t.missed]
  BY <1>0, <1>1 DEF Typed
<1>7. \A v \in Ids :
         /\ t.vb[v].flip = s.vb[v].flip
         /\ t.vb[v].at = s.vb[v].at /\ t.vb[v].window = s.vb[v].window
         /\ t.vb[v].pixmap = s.vb[v].pixmap
         /\ t.vb[v].fence # f /\ (t.vb[v].fence = s.vb[v].fence \/ t.vb[v].fence = None)
         /\ t.vb[v].abort = s.vb[v].abort /\ t.vb[v].callback = s.vb[v].callback
         /\ t.vb[v].idled = s.vb[v].idled /\ t.vb[v].completed = s.vb[v].completed
         /\ t.vb[v].mode = s.vb[v].mode
  BY <1>0, <1>2, <1>4, <1>6 DEF Typed
<1>8. Changed(s, t, Ids)
  BY <1>0, <1>5, <1>6, <1>7 DEF Changed, Typed
<1>9. InOrder(t)
  BY <1>0, <1>6, <1>7 DEF Mid, InOrder
<1>10. ASSUME NEW v \in Ids \cap Ids
       PROVE  Request(t.vb[v], v, s.pending, s.cur.pixmap, s.due, {}, None, C)
  <2>1. Request(s.vb[v], v, s.pending, s.cur.pixmap, s.due, {}, None, C)
    BY <1>0 DEF Mid
  <2>2. Lives(t.vb[v], v, s.pending, s.cur.pixmap, None)
    BY <1>7, <2>1 DEF Request, Lives
  <2>3. Awaited(t.vb[v], v, s.due) /\ Covered(t.vb[v], C)
    <3>1. Awaited(s.vb[v], v, s.due) /\ Covered(s.vb[v], C)
      <4>1. v \notin {} /\ v # None
        BY Names
      <4> QED
        BY <2>1, <4>1 DEF Request
    <3>2. Covered(t.vb[v], C)
      BY <1>7, <3>1 DEF Covered
    <3>3. t.vb[v].callback = s.vb[v].callback /\ t.vb[v].at = s.vb[v].at
          /\ (t.vb[v].fence = s.vb[v].fence \/ t.vb[v].fence = None)
      BY <1>7
    <3>4. Awaited(t.vb[v], v, s.due)
      BY <3>1, <3>3 DEF Awaited
    <3> QED
      BY <3>2, <3>4
  <2>4. t.vb[v].at = "none" => t.vb[v] = NoVblank
    BY <1>3, <1>4, <1>6, <1>7, <2>1 DEF Request
  <2> QED
    BY <2>2, <2>3, <2>4 DEF Request
<1>11. Mid(t, {}, None, C)
  <2>1. {} \ Ids \subseteq {} /\ None \in {} \cup {None}
    OBVIOUS
  <2> QED
    BY <1>0, <1>8, <1>9, <1>10, <2>1, ChangedMid
<1>12. Shown(t, C) /\ \A w : Kept(s, t, w)
  BY <1>0, <1>6, <1>7 DEF Shown, Kept
<1> QED
  BY <1>0, <1>7, <1>11, <1>12 DEF Good, t

LEMMA DestroyFenceHolds ==
    ASSUME IndInv, NEW f \in Fences, DestroyFence(f)
    PROVE  IndInv'
<1> DEFINE C == Coverable(scr)
<1>1. scr' = Unfenced(scr, f)
  BY DEF DestroyFence, Unfenced
<1>2. /\ Good(scr', {}, None, C) /\ \A w : Kept(scr, scr', w)
      /\ \A v \in Ids : scr'.vb[v].fence # f
                        /\ (scr'.vb[v].fence = scr.vb[v].fence \/ scr'.vb[v].fence = None)
  BY <1>1, Whole, UnfencedGood
<1>3. /\ fence' \in [Fences -> {"reset", "triggered", "destroyed"}] /\ walk' \in Fences \cup {None}
      /\ walk' = None
  BY Whole DEF DestroyFence
<1>4. ASSUME NEW v \in Ids
      PROVE  LET g == scr'.vb[v].fence
             IN  scr'.vb[v].callback /\ g # None /\ (fence[g] = "reset" \/ walk = g)
                     => fence'[g] = "reset" \/ walk' = g
  <2>1. scr.vb[v].fence \in Fences \cup {None}
    BY Whole DEF Typed, Vblank
  <2> QED
    BY <1>2, <2>1, Whole DEF DestroyFence
<1> QED
  BY <1>2, <1>3, <1>4, FenceHolds DEF DestroyFence

\* proc_present_pixmap_common asks for a frame that the bound allows.
LEMMA TargetTyped ==
    ASSUME IndInv, NEW shape \in Shapes, NEW arg \in MSCs, NEW field \in Fields,
           NEW target, target = TargetMSC(arg, msc, field[1], field[2], shape.async # {}),
           target <= MaxMSC
    PROVE  target \in MSCs
<1>1. field[1] \in Nat /\ field[2] \in 0 .. IF field[1] = 0 THEN 0 ELSE field[1] - 1
  BY ShapesAssumption
<1>2. arg \in Nat /\ msc \in Nat
  BY Whole, ShapesAssumption DEF MSCs
<1> DEFINE d == field[1]
           r == field[2]
<1>3. d \in Nat /\ r \in 0 .. (IF d = 0 THEN 0 ELSE d - 1)
  BY <1>1, <1>2
<1>4. PICK async \in BOOLEAN : target = TargetMSC(arg, msc, d, r, async)
  OBVIOUS
<1> HIDE DEF d, r
<1>5. LET t == TargetMSC(arg, msc, d, r, async)
      IN  IF arg > msc THEN t = arg ELSE t \in Nat /\ Fits(t, msc, d, r, async)
  BY <1>2, <1>3, <1>4, TargetIsNextField
<1>6. target \in Nat
  BY <1>2, <1>4, <1>5
<1> QED
  BY <1>6, ShapesAssumption DEF MSCs

LEMMA PresentPixmapHolds ==
    ASSUME IndInv, NEW w \in Living(scr), NEW shape \in Shapes, NEW arg \in MSCs,
           NEW field \in Fields, PresentPixmap(w, shape, arg, field)
    PROVE  IndInv'
<1> DEFINE target == TargetMSC(arg, msc, field[1], field[2], shape.async # {})
           T == Overwritten(scr, w, target, shape)
           C == Coverable(scr)
           v == last + 1
<1>1. PICK s \in Scrapped(scr, T) : scr' \in Queue(s, v, w, target, shape)
  BY DEF PresentPixmap
<1>2. target \in MSCs
  BY TargetTyped DEF PresentPixmap
<1>3. T \subseteq Ids /\ \A u \in T : scr.vb[u].at \in {"exec", "flip"} /\ scr.vb[u].pixmap
  BY DEF Overwritten, Queued
<1> HIDE DEF target, T
<1>4. Good(s, {}, None, C) /\ \A x : Kept(scr, s, x)
  BY <1>1, <1>3, Whole, ScrappedGood
<1>5. v \in Ids /\ last' = v /\ v > last
  BY Whole, ShapesAssumption DEF PresentPixmap, Ids
<1>6. s.vb[v].at = "none" /\ w \in Living(s) /\ full \in C
  <2>1. Kept(scr, s, None)
    BY <1>4
  <2> QED
    BY <1>5, <2>1, Whole, Names DEF Kept, Living, Coverable
<1> HIDE DEF C
<1>7. Good(scr', {}, None, C) /\ Kept(s, scr', v)
  BY <1>1, <1>2, <1>4, <1>5, <1>6, QueueGood
<1>8. Kept(scr, scr', v)
  BY <1>4, <1>7, KeptTwice
<1>9. C = {full'} \cup {None} \cup scr'.missed /\ Living(scr') = Living(scr)
  BY <1>8 DEF C, Coverable, Kept, Living, PresentPixmap
<1>10. \A u \in Ids : u > last' => scr'.vb[u].at = "none"
  <2>1. \A u \in Ids : u > last' => u > last /\ u # v
    <3>1. last \in Nat /\ Ids \subseteq Nat
      BY Whole, Names
    <3> QED
      BY <1>5, <3>1
  <2> QED
    BY <1>8, <2>1, Whole DEF Kept
<1>11. last' \in 0 .. MaxRequests
  BY <1>5 DEF Ids
<1> QED
  BY <1>7, <1>9, <1>10, <1>11, Whole, CallHolds DEF PresentPixmap

LEMMA FrameHolds ==
    ASSUME IndInv, Frame
    PROVE  IndInv'
<1>1. msc' \in MSCs
  BY Whole, ShapesAssumption DEF Frame, MSCs
<1> QED
  BY <1>1, Whole, CallHolds DEF Frame, Coverable

\* a call that changes no window
LEMMA EventHolds ==
    ASSUME IndInv, UNCHANGED <<fence, walk, msc, full, last>>,
           NEW C, C = Coverable(scr), Good(scr', {}, None, C), \A w : Kept(scr, scr', w)
    PROVE  IndInv'
<1>1. Kept(scr, scr', None)
  OBVIOUS
<1>2. C = {full', None} \cup scr'.missed /\ Living(scr') = Living(scr)
  BY <1>1 DEF Kept, Coverable, Living
<1>3. \A v \in Ids : v > last' => scr'.vb[v].at = "none"
  BY <1>1, Whole, Names DEF Kept
<1> QED
  BY <1>2, <1>3, Whole, CallHolds

LEMMA VblankEventHolds ==
    ASSUME IndInv, VblankEvent
    PROVE  IndInv'
<1> DEFINE C == Coverable(scr)
<1>1. PICK e \in scr.due : \E now \in e.msc .. msc :
                              scr' \in EventNotify(Sent(scr, e), e.id, now)
  BY DEF VblankEvent, Sent
<1>2. PICK now \in e.msc .. msc : scr' \in EventNotify(Sent(scr, e), e.id, now)
  BY <1>1
<1>0. now \in Nat
  BY Whole DEF Typed, MSCs
<1> DEFINE s == Sent(scr, e)
<1>3. /\ Good(s, {e.id}, None, C) /\ (s.vb[e.id].at # "exec" => Good(s, {}, None, C))
      /\ e.id \in Ids /\ \A w : Kept(scr, s, w)
  BY Whole, SentGood
<1> HIDE DEF s
<1>4. Good(scr', {}, None, C) /\ \A w : Kept(s, scr', w)
  <2>1. scr' \in EventNotify(s, e.id, now)
    BY <1>2 DEF s
  <2> QED
    BY <1>0, <1>3, <2>1, EventNotifyGood
<1>5. \A w : Kept(scr, scr', w)
  BY <1>3, <1>4, KeptTwice
<1> QED
  BY <1>4, <1>5, EventHolds DEF VblankEvent

LEMMA FlipEventHolds ==
    ASSUME IndInv, FlipEvent
    PROVE  IndInv'
<1> DEFINE C == Coverable(scr)
<1>1. PICK v \in scr.flips : scr' \in EventNotify(Done(scr, v), v, msc)
  BY DEF FlipEvent, Done
<1> DEFINE s == Done(scr, v)
<1>2. Good(s, {}, None, C) /\ \A w : Kept(scr, s, w)
  BY Whole, DoneGood
<1>3. v \in Ids /\ msc \in Nat
  BY Whole DEF Typed, Good
<1> HIDE DEF s
<1>4. {} \subseteq {v}
  OBVIOUS
<1>5. Good(s, {v}, None, C)
  BY <1>2, <1>4, MoreGood
<1>6. Good(scr', {}, None, C) /\ \A w : Kept(s, scr', w)
  <2>1. scr' \in EventNotify(s, v, msc)
    BY <1>1 DEF s
  <2> QED
    BY <1>2, <1>3, <1>5, <2>1, EventNotifyGood
<1>7. \A w : Kept(scr, scr', w)
  BY <1>2, <1>6, KeptTwice
<1> QED
  BY <1>6, <1>7, EventHolds DEF FlipEvent

LEMMA UnflipEventHolds ==
    ASSUME IndInv, UnflipEvent
    PROVE  IndInv'
<1> DEFINE C == Coverable(scr)
           s == Unflown(scr)
           f == FlipIdle(s)
<1>1. scr' \in TryReady(f) /\ scr.unflip
  BY DEF UnflipEvent, Unflown
<1>2. Mid(s, {}, None, C) /\ ~s.unflip /\ s.pix[Root] = Screen /\ \A w : Kept(scr, s, w)
  BY <1>1, Whole, UnflownMid
<1> HIDE DEF s
<1>3. Mid(f, {}, None, C) /\ Shown(f, C) /\ \A w : Kept(s, f, w)
  BY <1>2, Whole, FlipIdleMid
<1> HIDE DEF f
<1>4. Good(scr', {}, None, C) /\ \A w : Kept(f, scr', w)
  <2>1. Good(f, {}, None, C)
    BY <1>3, Whole DEF Good
  <2> QED
    BY <1>1, <2>1, TryReadyGood
<1>5. \A w : Kept(scr, scr', w)
  <2>1. \A w : Kept(scr, f, w)
    BY <1>2, <1>3, KeptTwice
  <2> QED
    BY <1>4, <2>1, KeptTwice
<1> QED
  BY <1>4, <1>5, EventHolds DEF UnflipEvent

LEMMA FenceFiresHolds ==
    ASSUME IndInv, FenceFires
    PROVE  IndInv'
<1> DEFINE C == Coverable(scr)
<1>1. PICK v \in Callbacks(walk) : scr.vb[v].window # None /\ scr' \in Execute(scr, v, msc)
  BY DEF FenceFires
<1>2. v \in Ids /\ msc \in Nat
  BY Whole DEF Callbacks, Good
<1>3. scr.vb[v].at \in {"exec", "flip", "pending"}
  <2>1. scr.vb[v].at \in {"none", "exec", "flip", "pending", "gone", "dropped"}
    BY <1>2, Whole DEF Typed, Vblank
  <2>2. Request(scr.vb[v], v, scr.pending, scr.cur.pixmap, scr.due, {}, None, C)
    BY <1>2, Whole DEF Good, Mid
  <2> QED
    BY <1>1, <2>1, <2>2 DEF Request, Lives, NoVblank
<1>4. {} \subseteq {v} /\ {v} \ {v} = {} /\ v \in {v}
  OBVIOUS
<1>5. Good(scr, {v}, None, C)
  BY <1>4, Whole, MoreGood
<1> HIDE DEF C
<1>6. Good(scr', {v} \ {v}, None, C) /\ \A w : Kept(scr, scr', w)
  BY <1>1, <1>2, <1>3, <1>4, <1>5, ExecuteGood
<1> QED
  BY <1>4, <1>6, EventHolds DEF FenceFires, C

LEMMA ClipNotifyHolds ==
    ASSUME IndInv, NEW w \in Living(scr), ClipNotify(w)
    PROVE  IndInv'
<1> DEFINE C == Coverable(scr)
           D == {full', None} \cup scr'.missed
<1>1. scr' \in CheckFlipWindow(scr, w, full) /\ full' = full
  BY DEF ClipNotify
<1>2. Good(scr, {}, None, C)
  BY Whole
<1>3. \A x : x \in scr'.missed => x \in D
  OBVIOUS
<1>4. full = w => w \in D
  BY <1>1
<1>5. (\A x : x \in scr.missed /\ x # w => x \in scr'.missed) => C \ {w} \subseteq D
  BY <1>1 DEF Coverable
<1>6. \A x : x \in scr.missed /\ x # w => x \in scr'.missed
  BY <1>1, <1>2, MissedOnly
<1> HIDE DEF C, D
<1>7. /\ Good(scr', {}, None, D) /\ DOMAIN scr'.pix = DOMAIN scr.pix
      /\ \A v \in Ids : scr.vb[v].at = "none" => scr'.vb[v].at = "none"
  BY <1>1, <1>2, <1>3, <1>4, <1>5, <1>6, CheckFlipWindowGood
<1>8. Living(scr') = Living(scr)
  BY <1>7 DEF Living
<1>9. \A v \in Ids : v > last' => scr'.vb[v].at = "none"
  BY <1>7, Whole DEF ClipNotify
<1> QED
  BY <1>1, <1>7, <1>8, <1>9, Whole, CallHolds DEF ClipNotify, D

LEMMA CoverHolds ==
    ASSUME IndInv, NEW w \in Living(scr) \cup {None}, Cover(w)
    PROVE  IndInv'
<1> DEFINE C == Coverable(scr)
           B == C \cup {w}
           D == {w, None} \cup scr'.missed
<1>0. Good(scr, {}, None, C) /\ full' = w /\ w # full /\ None \in C
  BY Whole DEF Cover
<1>1. PICK s \in (IF w = None THEN {scr} ELSE CheckFlipWindow(scr, w, w)) :
         scr' \in IF full = None THEN {s} ELSE CheckFlipWindow(s, full, w)
  BY DEF Cover
<1>2. /\ Good(s, {}, None, B \cup s.missed) /\ DOMAIN s.pix = DOMAIN scr.pix
      /\ \A x : x \in scr.missed /\ x # w => x \in s.missed
      /\ \A v \in Ids : scr.vb[v].at = "none" => s.vb[v].at = "none"
  <2>1. CASE w = None
    <3>1. s = scr
      BY <1>1, <2>1
    <3>2. B \cup s.missed = C
      BY <1>0, <2>1, <3>1 DEF Coverable
    <3> QED
      BY <1>0, <3>1, <3>2
  <2>2. CASE w # None
    <3> DEFINE E == B \cup s.missed
    <3>1. C \ {w} \subseteq E /\ w \in E /\ \A x : x \in s.missed => x \in E
      OBVIOUS
    <3>2. s \in CheckFlipWindow(scr, w, w) /\ w \in Living(scr)
      BY <1>1, <2>2
    <3> HIDE DEF E, C
    <3>3. /\ Good(s, {}, None, E) /\ DOMAIN s.pix = DOMAIN scr.pix
          /\ \A x : x \in scr.missed /\ x # w => x \in s.missed
          /\ \A v \in Ids : scr.vb[v].at = "none" => s.vb[v].at = "none"
      BY <1>0, <3>1, <3>2, CheckFlipWindowGood
    <3> QED
      BY <3>3 DEF E
  <2> QED
    BY <2>1, <2>2
<1>3. \A x : x \in B \cup s.missed /\ x # full => x = w \/ x = None \/ x \in s.missed
  BY <1>2 DEF Coverable
<1>4. /\ Good(scr', {}, None, D) /\ DOMAIN scr'.pix = DOMAIN s.pix
      /\ \A v \in Ids : s.vb[v].at = "none" => scr'.vb[v].at = "none"
  <2> DEFINE E == B \cup s.missed
  <2>1. CASE full = None
    <3>1. scr' = s
      BY <1>1, <2>1
    <3>2. E = D
      BY <1>0, <1>3, <2>1, <3>1
    <3> QED
      BY <1>2, <3>1, <3>2
  <2>2. CASE full # None
    <3>1. scr' \in CheckFlipWindow(s, full, w) /\ full \in Living(s)
      BY <1>1, <1>2, <2>2, Whole DEF Living
    <3>2. Good(s, {}, None, E)
      BY <1>2
    <3>3. \A x : x \in E /\ x # full => x = w \/ x = None \/ x \in s.missed
      BY <1>3
    <3> HIDE DEF E
    <3>4. \A x : x \in s.missed /\ x # full => x \in scr'.missed
      BY <3>1, <3>2, MissedOnly
    <3>5. E \ {full} \subseteq D /\ (w = full => full \in D) /\ \A x : x \in scr'.missed => x \in D
      BY <3>3, <3>4
    <3> HIDE DEF D
    <3>6. /\ Good(scr', {}, None, D) /\ DOMAIN scr'.pix = DOMAIN s.pix
          /\ \A v \in Ids : s.vb[v].at = "none" => scr'.vb[v].at = "none"
      BY <3>1, <3>2, <3>5, CheckFlipWindowGood
    <3> QED
      BY <3>6
  <2> QED
    BY <2>1, <2>2
<1> HIDE DEF C, B
<1>5. Living(scr') = Living(scr)
  BY <1>2, <1>4 DEF Living
<1>6. \A v \in Ids : v > last' => scr'.vb[v].at = "none"
  BY <1>2, <1>4, Whole DEF Cover
<1>7. D = {full', None} \cup scr'.missed
  BY <1>0
<1> HIDE DEF D
<1> QED
  BY <1>0, <1>4, <1>5, <1>6, <1>7, Whole, CallHolds DEF Cover

LEMMA DestroyWindowHolds ==
    ASSUME IndInv, NEW w \in Living(scr), DestroyWindow(w)
    PROVE  IndInv'
<1> DEFINE C == Coverable(scr)
<1>0. /\ Good(scr, {}, None, C) /\ w # None /\ None \in C
      /\ full' = (IF full = w THEN None ELSE full) /\ full' # w
  BY Whole, Names DEF DestroyWindow, Typed, Living
<1>1. PICK s \in CheckFlipWindow(scr, w, full') \cup (IF full = w THEN {} ELSE {scr}) :
         scr' = WindowGone(s, w)
  BY DEF DestroyWindow
<1> DEFINE E == {full', None} \cup s.missed
<1>2. /\ Good(s, {}, None, E) /\ DOMAIN s.pix = DOMAIN scr.pix
      /\ \A v \in Ids : scr.vb[v].at = "none" => s.vb[v].at = "none"
  <2>1. CASE s = scr /\ full # w
    <3>1. E = C
      BY <1>0, <2>1 DEF Coverable
    <3> QED
      BY <1>0, <2>1, <3>1
  <2>2. CASE s \in CheckFlipWindow(scr, w, full')
    <3>1. \A x : x \in scr.missed /\ x # w => x \in s.missed
      BY <1>0, <2>2, MissedOnly
    <3>2. C \ {w} \subseteq E /\ (full' = w => w \in E) /\ \A x : x \in s.missed => x \in E
      BY <1>0, <3>1 DEF Coverable
    <3> HIDE DEF E, C
    <3> DEFINE whole == full'
    <3>3. s \in CheckFlipWindow(scr, w, whole) /\ (whole = w => w \in E)
      BY <2>2, <3>2
    <3> HIDE DEF whole
    <3>4. /\ Good(s, {}, None, E) /\ DOMAIN s.pix = DOMAIN scr.pix
          /\ \A v \in Ids : scr.vb[v].at = "none" => s.vb[v].at = "none"
      BY <1>0, <3>2, <3>3, CheckFlipWindowGood
    <3> QED
      BY <3>4
  <2> QED
    BY <1>1, <2>1, <2>2
<1>3. w \in Living(s)
  BY <1>2 DEF Living
<1> HIDE DEF E
<1>4. /\ Good(scr', {}, None, E \ {w})
      /\ scr'.missed = s.missed \ {w} /\ Living(scr') = Living(s) \ {w}
      /\ \A v \in Ids : s.vb[v].at = "none" => scr'.vb[v].at = "none"
  BY <1>1, <1>2, <1>3, WindowGoneGood
<1>5. E \ {w} = {full', None} \cup scr'.missed
  BY <1>0, <1>4 DEF E
<1>6. full' \in Living(scr') \cup {None}
  BY <1>0, <1>2, <1>4, Whole DEF Living
<1>7. \A v \in Ids : v > last' => scr'.vb[v].at = "none"
  BY <1>2, <1>4, Whole DEF DestroyWindow
<1> QED
  BY <1>4, <1>5, <1>6, <1>7, Whole, CallHolds DEF DestroyWindow

LEMMA InitHolds ==
    ASSUME Init
    PROVE  IndInv
<1>1. /\ scr.vb = [v \in Ids |-> NoVblank] /\ scr.queue = [v \in {} |-> {}]
      /\ scr.pending = None /\ scr.unflip = FALSE /\ scr.cur = NoFlip
      /\ scr.pix = [w \in Windows \cup {Root} |-> Screen]
      /\ scr.due = {} /\ scr.flips = {} /\ scr.missed = {}
      /\ scr = [vb |-> scr.vb, queue |-> scr.queue, pending |-> scr.pending,
                unflip |-> scr.unflip, cur |-> scr.cur, pix |-> scr.pix, due |-> scr.due,
                flips |-> scr.flips, missed |-> scr.missed]
  BY DEF Init
<1>2. Living(scr) = Windows /\ Root \in DOMAIN scr.pix
  BY <1>1, Names DEF Living
<1>3. \A v \in Ids : scr.vb[v] = NoVblank
  BY <1>1
<1>4. NoFlip.window = None /\ NoFlip.pixmap = None
  BY DEF NoFlip
<1>5. Typed(scr)
  <2>1. scr.cur \in [window : Living(scr) \cup {None}, pixmap : Ids \cup {None}]
    BY <1>1 DEF NoFlip
  <2>2. scr.vb \in [Ids -> Vblank]
    BY <1>1, NoVblankTyped
  <2>3. \A v \in Ids : scr.vb[v].window \in Living(scr) \cup {None}
    BY <1>3, NoVblankTyped
  <2> QED
    BY <1>1, <1>2, <2>1, <2>2, <2>3 DEF Typed
<1>6. InOrder(scr)
  BY <1>1, <1>3 DEF InOrder, IsQueue, NoVblank
<1>7. OneWay(scr) /\ Drawn(scr)
  BY <1>1, <1>2, <1>4 DEF OneWay, Drawn
<1>8. None \in Coverable(scr)
  BY DEF Coverable
<1>9. ASSUME NEW v \in Ids
      PROVE  Request(scr.vb[v], v, scr.pending, scr.cur.pixmap, scr.due, {}, None, Coverable(scr))
  BY <1>1, <1>3, <1>4, <1>8, Names DEF Request, Lives, Awaited, Covered, NoVblank
<1>10. Mid(scr, {}, None, Coverable(scr))
  BY <1>5, <1>6, <1>7, <1>9 DEF Mid
<1>11. Shown(scr, Coverable(scr))
  BY <1>1, <1>4, <1>8 DEF Shown
<1>12. TypeOK
  <2>1. msc \in MSCs /\ last \in 0 .. MaxRequests
    BY ShapesAssumption DEF Init, MSCs
  <2>2. \A v \in Queued(scr) : scr.vb[v].window # None
    BY <1>3 DEF Queued, NoVblank
  <2> QED
    BY <1>2, <1>5, <1>6, <2>1, <2>2 DEF TypeOK, Init
<1> QED
  BY <1>3, <1>10, <1>11, <1>12 DEF IndInv, NoVblank, Init

LEMMA StutterHolds ==
    ASSUME IndInv, UNCHANGED vars
    PROVE  IndInv'
<1>1. UNCHANGED <<fence, walk, msc, full, last>> /\ scr' = scr
  BY DEF vars
<1>2. Good(scr', {}, None, Coverable(scr)) /\ \A w : Kept(scr, scr', w)
  BY <1>1, Whole DEF Kept
<1> QED
  BY <1>1, <1>2, EventHolds

\* The inductive invariant (PresentProps.IndInv) holds, whatever the windows,
\* the requests and what the driver refuses.
THEOREM IndInvHolds == Spec => []IndInv
<1>1. Init => IndInv
  BY InitHolds
<1>2. IndInv /\ [Next]_vars => IndInv'
  <2> SUFFICES ASSUME IndInv, [Next]_vars
               PROVE  IndInv'
    OBVIOUS
  <2>1. CASE \E w \in Living(scr), shape \in Shapes, arg \in MSCs, field \in Fields :
                 PresentPixmap(w, shape, arg, field)
    BY <2>1, PresentPixmapHolds
  <2>2. CASE Frame
    BY <2>2, FrameHolds
  <2>3. CASE VblankEvent
    BY <2>3, VblankEventHolds
  <2>4. CASE FlipEvent
    BY <2>4, FlipEventHolds
  <2>5. CASE UnflipEvent
    BY <2>5, UnflipEventHolds
  <2>6. CASE \E w \in Living(scr) : ClipNotify(w)
    BY <2>6, ClipNotifyHolds
  <2>7. CASE Cover(None) \/ \E w \in Living(scr) : Cover(w)
    BY <2>7, CoverHolds
  <2>8. CASE \E w \in Living(scr) : DestroyWindow(w)
    BY <2>8, DestroyWindowHolds
  <2>9. CASE \E f \in Fences : TriggerFence(f)
    BY <2>9, TriggerFenceHolds
  <2>10. CASE \E f \in Fences : ResetFence(f)
    BY <2>10, ResetFenceHolds
  <2>11. CASE \E f \in Fences : DestroyFence(f)
    BY <2>11, DestroyFenceHolds
  <2>12. CASE FenceFires
    BY <2>12, FenceFiresHolds
  <2>13. CASE FenceDone
    BY <2>13, FenceDoneHolds
  <2>14. CASE UNCHANGED vars
    BY <2>14, StutterHolds
  <2> QED
    BY <2>1, <2>2, <2>3, <2>4, <2>5, <2>6, <2>7, <2>8, <2>9, <2>10, <2>11, <2>12, <2>13, <2>14
    DEF Next
<1> QED
  BY <1>1, <1>2, PTL DEF Spec

\* Nothing names a window that is gone, and the flip queue stays a queue
\* (present_destroy_window, present_execute_wait).
THEOREM TypesHold == Spec => []TypeOK
<1>1. IndInv => TypeOK
  BY DEF IndInv
<1> QED
  BY <1>1, IndInvHolds, PTL

\* A request on the exec queue is always executed again: the driver owes it an
\* event, or it waits for a fence that will still be triggered, or whose
\* triggers are being run through (present_execute_wait).
THEOREM NothingIsForgotten == Spec => []QueuedIsAwaited
<1>1. IndInv => QueuedIsAwaited
  <2> SUFFICES ASSUME IndInv, NEW v \in Ids, scr.vb[v].at = "exec"
               PROVE  \/ \E e \in scr.due : e.id = v
                      \/ /\ scr.vb[v].callback
                         /\ scr.vb[v].fence # None =>
                              fence[scr.vb[v].fence] = "reset" \/ walk = scr.vb[v].fence
    BY DEF QueuedIsAwaited
  <2>1. Request(scr.vb[v], v, scr.pending, scr.cur.pixmap, scr.due, {}, None, Coverable(scr))
    BY DEF IndInv, Mid
  <2>2. v \notin {}
    OBVIOUS
  <2> QED
    BY <2>1, <2>2 DEF Request, Awaited
<1> QED
  BY <1>1, IndInvHolds, PTL

\* Every pixmap goes back to its client once and every request completes once,
\* whatever flips, copies, aborts and retries they go through
\* (present_pixmap_idle, present_vblank_notify).
THEOREM PixmapsComeBackOnce == Spec => []BackOnce
<1>1. IndInv => BackOnce
  <2> SUFFICES ASSUME IndInv, NEW v \in Ids
               PROVE  LET b == scr.vb[v] IN
                        /\ b.idled <= 1 /\ b.completed <= 1
                        /\ b.at \in {"none", "exec", "flip"} => b.completed = 0
                        /\ b.at \in {"none", "exec", "flip"} /\ b.pixmap => b.idled = 0
                        /\ b.at \in {"pending"} => b.idled = 0 /\ b.completed = 0
                        /\ b.at = "gone" =>
                              b.completed = 1 /\ (b.idled = 1 <=> scr.cur.pixmap # v)
    BY DEF BackOnce
  <2>1. Request(scr.vb[v], v, scr.pending, scr.cur.pixmap, scr.due, {}, None, Coverable(scr))
    BY DEF IndInv, Mid
  <2>2. Lives(scr.vb[v], v, scr.pending, scr.cur.pixmap, None)
        /\ (scr.vb[v].at = "none" => scr.vb[v] = NoVblank)
    <3>1. v \notin {}
      OBVIOUS
    <3> QED
      BY <2>1, <3>1 DEF Request
  <2>3. /\ scr.vb[v].at \in {"none", "exec", "flip", "pending", "gone", "dropped"}
        /\ scr.vb[v].idled \in Nat /\ scr.vb[v].completed \in Nat
    BY Whole DEF Typed, Vblank
  <2>4. CASE scr.vb[v].at = "none"
    <3>1. scr.vb[v] = NoVblank
      BY <2>2, <2>4
    <3> QED
      BY <2>4, <3>1 DEF NoVblank
  <2>5. CASE scr.vb[v].at # "none"
    BY <2>2, <2>3, <2>5 DEF Lives
  <2> QED
    BY <2>4, <2>5
<1> QED
  BY <1>1, IndInvHolds, PTL

\* No window draws to a pixmap that its client may have got back
\* (present_restore_screen_pixmap, present_set_abort_flip).
THEOREM NobodyDrawsBehind == Spec => []DrawnIsShown
<1>1. IndInv => DrawnIsShown
  <2> SUFFICES ASSUME IndInv, NEW w \in DOMAIN scr.pix
               PROVE  \/ scr.pix[w] = Screen
                      \/ scr.pending # None /\ scr.pix[w] = scr.pending
                         /\ ~scr.vb[scr.pending].abort
                      \/ scr.pending = None /\ scr.pix[w] = scr.cur.pixmap /\ ~scr.unflip
    BY DEF DrawnIsShown
  <2> QED
    BY DEF IndInv, Mid, Drawn
<1> QED
  BY <1>1, IndInvHolds, PTL

\* The screen is flipped, or about to be, only to a window that covers it, or
\* whose change of clip present_check_flip_window missed.
THEOREM FlipsCover == Spec => []FlipsCoverTheScreen
<1>1. IndInv => FlipsCoverTheScreen
  <2> SUFFICES ASSUME IndInv
               PROVE  FlipsCoverTheScreen
    OBVIOUS
  <2> DEFINE C == Coverable(scr)
  <2>1. ASSUME NEW v \in Ids
        PROVE  Covered(scr.vb[v], C) /\ Lives(scr.vb[v], v, scr.pending, scr.cur.pixmap, None)
    <3>1. v # None
      BY Names
    <3> QED
      BY <3>1 DEF IndInv, Mid, Request
  <2>2. Shown(scr, C) /\ scr.pending \in Ids \cup {None}
    BY DEF IndInv, Mid, Typed
  <2>3. \A v \in Queued(scr) : scr.vb[v].flip => scr.vb[v].window \in C
    BY <2>1 DEF Queued, Covered
  <2>4. scr.pending # None => scr.vb[scr.pending].abort \/ scr.vb[scr.pending].window \in C
    BY <2>1, <2>2 DEF Covered, Lives
  <2>5. scr.pending = None /\ ~scr.unflip => scr.cur.window \in C
    BY <2>2 DEF Shown
  <2> QED
    BY <2>3, <2>4, <2>5 DEF FlipsCoverTheScreen, Coverable
<1> QED
  BY <1>1, IndInvHolds, PTL
=============================================================================
