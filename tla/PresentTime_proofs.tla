------------------------- MODULE PresentTime_proofs -------------------------
(***************************************************************************)
(* Proofs about what a step of Present may do: requests are not shown      *)
(* before their time, the driver flips one way at a time, and what is      *)
(* copied in a step is not hidden behind a flip after it.                  *)
(*                                                                         *)
(* The lemmas follow those of Present_proofs, operator by operator.  Of    *)
(* each the first part says that it keeps the frames right (InTime), with  *)
(* what it deals with no longer in hand, if the request it executes is     *)
(* Ripe; the second part, which has a heading of its own, that no flip     *)
(* faces a window that was copied to (Veiled).                             *)
(***************************************************************************)
EXTENDS Present_proofs

\* Nothing that concerns the time of request u has changed.
Same(s, t, u) ==
    LET a == s.vb[u]
        b == t.vb[u]
    IN  /\ b.at = a.at /\ b.pixmap = a.pixmap /\ b.target = a.target /\ b.exec = a.exec
        /\ b.sync = a.sync /\ b.flip = a.flip /\ b.callback = a.callback
        /\ b.refused = a.refused /\ b.mode = a.mode
        /\ Events(u, t.due) = Events(u, s.due)
        /\ u \in t.flips => u \in s.flips

\* Nothing is owed to a request but v that is not on a queue.
Steady(s, t, v) ==
    \A u \in Ids \ {v} : s.vb[u].at = "none" => Events(u, t.due) = Events(u, s.due)

LEMMA SteadyTwice ==
    ASSUME NEW r, NEW s, NEW t, NEW v, Kept(r, s, v), Steady(r, s, v), Steady(s, t, v)
    PROVE  Steady(r, t, v)
  BY DEF Steady, Kept

LEMMA SameFares ==
    ASSUME NEW s, NEW t, NEW u, NEW H, NEW G, NEW y, NEW z, NEW r,
           Fares(s, u, H, y, r), Same(s, t, u), u \in H => u \in G, u = y => u = z
    PROVE  Fares(t, u, G, z, r)
<1>1. Planned(t.vb[u], u, r)
  BY DEF Fares, Same, Planned
<1>2. u \notin G => Timed(t.vb[u], Events(u, t.due))
  BY DEF Fares, Same, Timed
<1> QED
  BY <1>1, <1>2 DEF Fares, Same

\* What changes the requests of T.
LEMMA TimeChange ==
    ASSUME NEW s, NEW t, NEW T, NEW H, NEW G, NEW y, NEW z, NEW r, InTime(s, H, y, r),
           \A u \in Ids \ T : Same(s, t, u) /\ (u \in H => u \in G) /\ (u = y => u = z),
           \A u \in Ids \cap T : Fares(t, u, G, z, r),
           Flown(t)
    PROVE  InTime(t, G, z, r)
<1>1. ASSUME NEW u \in Ids \ T PROVE Fares(t, u, G, z, r)
  BY SameFares DEF InTime
<1> QED
  BY <1>1 DEF InTime

LEMMA MoreInTime ==
    ASSUME NEW s, NEW H, NEW G, NEW y, NEW r, InTime(s, H, y, r), H \subseteq G
    PROVE  InTime(s, G, y, r)
  BY DEF InTime, Fares

\* What changes request v only, and has nothing owed.
Alters(s, t, v) ==
    /\ t.due = s.due /\ t.flips = s.flips /\ t.pending = s.pending
    /\ \A u \in Ids \ {v} : t.vb[u] = s.vb[u]

LEMMA AltersTime ==
    ASSUME NEW s, NEW t, NEW v \in Ids, NEW H, NEW G, NEW y, NEW r, InTime(s, H, y, r),
           Alters(s, t, v), H \ {v} \subseteq G, Fares(t, v, G, y, r)
    PROVE  InTime(t, G, y, r) /\ \A w : Steady(s, t, w)
<1>1. \A u \in Ids \ {v} : Same(s, t, u)
  BY DEF Alters, Same
<1>2. Flown(t)
  BY DEF InTime, Flown, Alters
<1>3. InTime(t, G, y, r)
  <2> DEFINE T == {v}
  <2>1. /\ \A u \in Ids \ T : Same(s, t, u) /\ (u \in H => u \in G) /\ (u = y => u = y)
        /\ \A u \in Ids \cap T : Fares(t, u, G, y, r)
    BY <1>1
  <2> HIDE DEF T
  <2> QED
    BY <1>2, <2>1, TimeChange
<1> QED
  BY <1>3 DEF Steady, Alters

LEMMA WithAlters ==
    ASSUME NEW s, Typed(s), NEW v \in Ids, NEW b
    PROVE  Alters(s, With(s, v, b), v) /\ With(s, v, b).vb[v] = b
<1> DEFINE t == With(s, v, b)
<1>1. /\ t.vb = [s.vb EXCEPT ![v] = b] /\ t.vb[v] = b
      /\ \A u \in Ids \ {v} : t.vb[u] = s.vb[u]
      /\ t.queue = s.queue /\ t.pending = s.pending /\ t.unflip = s.unflip
      /\ t.cur = s.cur /\ t.pix = s.pix /\ t.due = s.due /\ t.flips = s.flips
      /\ t.missed = s.missed
  BY WithFields
<1> HIDE DEF t
<1>2. Alters(s, t, v) /\ t.vb[v] = b
  BY <1>1 DEF Alters
<1> QED
  BY <1>2 DEF t

LEMMA ChangedAlters ==
    ASSUME NEW s, NEW t, NEW v, Changed(s, t, {v})
    PROVE  Alters(s, t, v)
  BY DEF Changed, Alters

\* What changes no request, as far as time goes.
Unmoved(s, t) ==
    /\ \A u \in Ids : Same(s, t, u)
    /\ t.flips = s.flips /\ t.pending = s.pending

LEMMA UnmovedTime ==
    ASSUME NEW s, NEW t, NEW H, NEW y, NEW r, InTime(s, H, y, r), Unmoved(s, t)
    PROVE  InTime(t, H, y, r) /\ \A w : Steady(s, t, w)
<1>1. \A u \in Ids : Fares(t, u, H, y, r)
  BY SameFares DEF InTime, Unmoved
<1>2. Flown(t)
  BY DEF InTime, Flown, Unmoved
<1> QED
  BY <1>1, <1>2 DEF InTime, Steady, Unmoved, Same

LEMMA UnmovedTwice ==
    ASSUME NEW r, NEW s, NEW t, Unmoved(r, s), Unmoved(s, t)
    PROVE  Unmoved(r, t)
  BY DEF Unmoved, Same

-----------------------------------------------------------------------------
(* The small steps of a call.                                              *)

LEMMA SmallSteps ==
    ASSUME NEW s, Typed(s)
    PROVE  /\ \A v \in Ids : Unmoved(s, Idled(s, v))
           /\ Drawn(s) => Unmoved(s, Restored(s))
           /\ Drawn(s) /\ s.pending # None => Unmoved(s, AbortFlip(s))
           /\ Unmoved(s, FlipIdle(s))
<1>1. ASSUME NEW v \in Ids PROVE Unmoved(s, Idled(s, v))
  <2> DEFINE b == [s.vb[v] EXCEPT !.idled = @ + 1]
             t == With(s, v, b)
  <2>1. Idled(s, v) = t
    BY DEF Idled, With
  <2>2. /\ b.at = s.vb[v].at /\ b.pixmap = s.vb[v].pixmap /\ b.target = s.vb[v].target
        /\ b.exec = s.vb[v].exec /\ b.sync = s.vb[v].sync /\ b.flip = s.vb[v].flip
        /\ b.callback = s.vb[v].callback /\ b.refused = s.vb[v].refused /\ b.mode = s.vb[v].mode
    <3>1. s.vb[v] \in Vblank
      BY DEF Typed
    <3> QED
      BY <3>1 DEF Vblank
  <2> HIDE DEF b
  <2>3. Alters(s, t, v) /\ t.vb[v] = b
    BY WithAlters
  <2> HIDE DEF t
  <2> QED
    BY <2>1, <2>2, <2>3 DEF Unmoved, Same, Alters
<1>2. ASSUME Drawn(s) PROVE Unmoved(s, Restored(s))
  <2> DEFINE t == Restored(s)
  <2>1. t.vb = s.vb /\ t.pending = s.pending /\ t.due = s.due /\ t.flips = s.flips
    BY <1>2, RestoredFields
  <2> HIDE DEF t
  <2>2. Unmoved(s, t)
    BY <2>1 DEF Unmoved, Same
  <2> QED
    BY <2>2 DEF t
<1>3. ASSUME Drawn(s), s.pending # None PROVE Unmoved(s, AbortFlip(s))
  <2>1. CASE s.vb[s.pending].abort
    BY <2>1 DEF AbortFlip, Unmoved, Same
  <2>2. CASE ~s.vb[s.pending].abort
    <3> DEFINE a == Restored(s)
               v == s.pending
               b == [s.vb[v] EXCEPT !.abort = TRUE]
               g == [a.vb EXCEPT ![v] = b]
               t == AbortFlip(s)
    <3>0. v \in Ids /\ s.vb[v] \in Vblank
      BY <1>3 DEF Typed
    <3>1. /\ a.vb = s.vb /\ a.pending = s.pending /\ a.due = s.due /\ a.flips = s.flips
          /\ a = [vb |-> a.vb, queue |-> a.queue, pending |-> a.pending,
                  unflip |-> a.unflip, cur |-> a.cur, pix |-> a.pix, due |-> a.due,
                  flips |-> a.flips, missed |-> a.missed]
      BY <1>3, RestoredFields
    <3>2. t = [a EXCEPT !.vb[v].abort = TRUE]
      BY <2>2 DEF AbortFlip
    <3> HIDE DEF a, t
    <3>3. t = [a EXCEPT !.vb = g]
      BY <3>1, <3>2
    <3> HIDE DEF g
    <3>4. t.vb = g /\ t.pending = s.pending /\ t.due = s.due /\ t.flips = s.flips
      BY <3>1, <3>3
    <3>5. /\ b.at = s.vb[v].at /\ b.pixmap = s.vb[v].pixmap /\ b.target = s.vb[v].target
          /\ b.exec = s.vb[v].exec /\ b.sync = s.vb[v].sync /\ b.flip = s.vb[v].flip
          /\ b.callback = s.vb[v].callback /\ b.refused = s.vb[v].refused
          /\ b.mode = s.vb[v].mode
      BY <3>0 DEF Vblank
    <3> HIDE DEF b
    <3>6. g[v] = b /\ \A u \in Ids \ {v} : g[u] = s.vb[u]
      BY <3>0, <3>1 DEF g, Typed
    <3> HIDE DEF v
    <3>7. \A u \in Ids : Same(s, t, u)
      BY <3>4, <3>5, <3>6 DEF Same
    <3> QED
      BY <3>4, <3>7 DEF Unmoved, t
  <2> QED
    BY <2>1, <2>2
<1>4. Unmoved(s, FlipIdle(s))
  <2>1. CASE s.cur.pixmap = None
    BY <2>1 DEF FlipIdle, Unmoved, Same
  <2>2. CASE s.cur.pixmap # None
    <3> DEFINE a == Idled(s, s.cur.pixmap)
               t == [a EXCEPT !.cur = NoFlip]
    <3>1. s.cur.pixmap \in Ids
      BY <2>2 DEF Typed
    <3>2. Unmoved(s, a)
      BY <1>1, <3>1
    <3>3. DOMAIN a = DOMAIN s
      BY DEF Idled
    <3>4. FlipIdle(s) = t
      BY <2>2 DEF FlipIdle
    <3> HIDE DEF a
    <3>5. t.vb = a.vb /\ t.pending = a.pending /\ t.due = a.due /\ t.flips = a.flips
      <4>1. {"vb", "pending", "due", "flips"} \subseteq DOMAIN s
        BY DEF Typed
      <4> QED
        BY <3>3, <4>1
    <3> HIDE DEF t
    <3> QED
      BY <3>2, <3>4, <3>5 DEF Unmoved, Same
  <2> QED
    BY <2>1, <2>2
<1> QED
  BY <1>1, <1>2, <1>3, <1>4

\* The frame a request is executed in is right, if it has E left of its events.
Ripe(b, E, now) ==
    \/ b.refused
    \/ /\ b.pixmap /\ b.flip => E = {} /\ b.exec <= now
       /\ b.pixmap /\ ~b.flip => b.exec <= now + 1 /\ \A e \in E : b.exec <= e.msc + 1

Now(now) == now \in Nat /\ msc \in Nat /\ now <= msc

LEMMA NumberFacts ==
    ASSUME NEW s, Typed(s), NEW v \in Ids
    PROVE  /\ s.vb[v].exec \in Int /\ s.vb[v].target \in Int
           /\ s.vb[v].pixmap \in BOOLEAN /\ s.vb[v].flip \in BOOLEAN
           /\ s.vb[v].callback \in BOOLEAN /\ s.vb[v].refused \in BOOLEAN
           /\ s.vb[v].sync \in BOOLEAN
           /\ \A e \in Events(v, s.due) : e.msc \in Int /\ e.id = v
<1>1. s.vb[v] \in Vblank /\ s.due \subseteq [id : Ids, msc : MSCs] /\ MSCs \subseteq Int
  BY DEF Typed, MSCs
<1>2. MSCs \cup {-1} \subseteq Int
  BY <1>1
<1> QED
  BY <1>1, <1>2 DEF Vblank, Events

\* A flip that is reported is not queued or in hand, but for the one that y is.
LEMMA NotFlipped ==
    ASSUME NEW s, NEW v \in Ids, NEW H, NEW y, NEW r, InTime(s, H, y, r),
           v # y, s.vb[v].at \in {"none", "exec", "flip"}
    PROVE  v \notin s.flips
  BY DEF InTime, Fares

LEMMA OwedEvents ==
    ASSUME NEW s, Typed(s), NEW v \in Ids
    PROVE  LET t == QueueVblank(s, v)
           IN  /\ \A u \in Ids \ {v} : Same(s, t, u)
               /\ t.vb = s.vb /\ t.flips = s.flips /\ t.pending = s.pending
               /\ Events(v, t.due) = Events(v, s.due) \cup {[id |-> v, msc |-> s.vb[v].exec]}
<1> DEFINE t == QueueVblank(s, v)
           e == [id |-> v, msc |-> s.vb[v].exec]
<1>1. t.vb = s.vb /\ t.flips = s.flips /\ t.pending = s.pending /\ t.due = s.due \cup {e}
  BY OwedFields
<1>2. e.id = v
  OBVIOUS
<1> HIDE DEF t, e
<1>3. /\ \A u \in Ids \ {v} : Events(u, t.due) = Events(u, s.due)
      /\ Events(v, t.due) = Events(v, s.due) \cup {e}
  BY <1>1, <1>2 DEF Events
<1>4. \A u \in Ids \ {v} : Same(s, t, u)
  BY <1>1, <1>3 DEF Same
<1> QED
  BY <1>1, <1>3, <1>4 DEF t, e

\* A request that waits, as a copy, for the driver's event at its frame.
LEMMA OwedTime ==
    ASSUME NEW s, Typed(s), NEW H, NEW y, NEW r, InTime(s, H, y, r),
           NEW v \in Ids, v \in H, s.vb[v].at \in {"exec", "flip", "pending"},
           NEW now, Now(now), Ripe(s.vb[v], Events(v, s.due), now), s.vb[v].exec = now + 1
    PROVE  LET t == QueueVblank(s, v)
           IN  InTime(t, H \ {v}, y, r) /\ Steady(s, t, v)
<1> DEFINE t == QueueVblank(s, v)
           b == s.vb[v]
           D == Events(v, s.due)
           e == [id |-> v, msc |-> b.exec]
           E == Events(v, t.due)
<1>1. /\ \A u \in Ids \ {v} : Same(s, t, u)
      /\ t.vb = s.vb /\ t.flips = s.flips /\ t.pending = s.pending
      /\ E = D \cup {e}
  BY OwedEvents
<1>2. e.msc = b.exec
  OBVIOUS
<1>3. /\ b.exec \in Int /\ b.target \in Int /\ b.pixmap \in BOOLEAN /\ b.flip \in BOOLEAN
      /\ \A d \in D : d.msc \in Int
  BY NumberFacts
<1>4. Fares(s, v, H, y, r)
  BY DEF InTime
<1>5. b.refused \/ ~(b.pixmap /\ b.flip)
  BY <1>3 DEF Ripe, Now
<1> HIDE DEF t, e, D, E
<1>6. Timed(b, E)
  <2>1. b.pixmap /\ ~b.flip /\ ~b.refused =>
            b.exec <= now + 1 /\ \A d \in D : b.exec <= d.msc + 1
    BY DEF Ripe, D
  <2>2. b.pixmap /\ ~b.flip /\ ~b.refused => \A d \in E : b.exec <= d.msc + 1
    BY <1>1, <1>2, <1>3, <2>1
  <2>3. b.exec <= msc + 1
    BY DEF Now
  <2> QED
    BY <1>5, <2>2, <2>3 DEF Timed
<1>7. Fares(t, v, H \ {v}, y, r)
  BY <1>1, <1>4, <1>6 DEF Fares, E
<1>8. InTime(t, H \ {v}, y, r)
  <2> DEFINE T == {v}
             G == H \ {v}
  <2>1. /\ \A u \in Ids \ T : Same(s, t, u) /\ (u \in H => u \in G) /\ (u = y => u = y)
        /\ \A u \in Ids \cap T : Fares(t, u, G, y, r)
    BY <1>1, <1>7
  <2>2. Flown(t)
    BY <1>1 DEF InTime, Flown
  <2> HIDE DEF T, G
  <2>3. InTime(t, G, y, r)
    BY <2>1, <2>2, TimeChange
  <2> QED
    BY <2>3 DEF G
<1>9. Steady(s, t, v)
  BY <1>1 DEF Steady, Same
<1> QED
  BY <1>8, <1>9 DEF t

LEMMA RefusedTime ==
    ASSUME NEW s, Typed(s), NEW H, NEW y, NEW r, InTime(s, H, y, r),
           NEW v \in Ids, v \in H, "queue" \in Refusals
    PROVE  LET t == Refused(s, v)
           IN  InTime(t, H, y, r) /\ (\A w : Steady(s, t, w)) /\ t.vb[v].refused
<1> DEFINE b == s.vb[v]
           c == [b EXCEPT !.refused = TRUE]
           t == With(s, v, c)
<1>1. Refused(s, v) = t
  BY DEF Refused, With
<1>2. /\ c.at = b.at /\ c.pixmap = b.pixmap /\ c.target = b.target /\ c.exec = b.exec
      /\ c.sync = b.sync /\ c.flip = b.flip /\ c.mode = b.mode /\ c.refused
  <2>1. b \in Vblank
    BY DEF Typed
  <2> QED
    BY <2>1 DEF Vblank
<1> HIDE DEF c
<1>3. Alters(s, t, v) /\ t.vb[v] = c
  BY WithAlters
<1> HIDE DEF t
<1>4. Fares(s, v, H, y, r)
  BY DEF InTime
<1>5. Fares(t, v, H, y, r)
  BY <1>2, <1>3, <1>4 DEF Fares, Planned, Alters
<1>6. H \ {v} \subseteq H
  OBVIOUS
<1> QED
  BY <1>1, <1>2, <1>3, <1>5, <1>6, AltersTime

LEMMA CallbackTime ==
    ASSUME NEW s, Typed(s), NEW H, NEW y, NEW r, InTime(s, H, y, r),
           NEW v \in Ids, v \in H, s.vb[v].at \in {"exec", "flip", "pending"},
           NEW now, Now(now), Ripe(s.vb[v], Events(v, s.due), now)
    PROVE  LET t == [s EXCEPT !.vb[v].callback = TRUE]
           IN  InTime(t, H \ {v}, y, r) /\ \A w : Steady(s, t, w)
<1> DEFINE b == s.vb[v]
           c == [b EXCEPT !.callback = TRUE]
           t == With(s, v, c)
           E == Events(v, s.due)
<1>1. [s EXCEPT !.vb[v].callback = TRUE] = t
  BY DEF With
<1>2. /\ c.at = b.at /\ c.pixmap = b.pixmap /\ c.target = b.target /\ c.exec = b.exec
      /\ c.sync = b.sync /\ c.flip = b.flip /\ c.mode = b.mode /\ c.refused = b.refused
  <2>1. b \in Vblank
    BY DEF Typed
  <2> QED
    BY <2>1 DEF Vblank
<1> HIDE DEF c
<1>3. Alters(s, t, v) /\ t.vb[v] = c
  BY WithAlters
<1>4. b.exec \in Int
  BY NumberFacts
<1> HIDE DEF t, E
<1>5. Fares(s, v, H, y, r)
  BY DEF InTime
<1>6. Timed(c, E)
  <2>1. b.refused \/ /\ b.pixmap /\ b.flip => E = {} /\ b.exec <= now
                     /\ b.pixmap /\ ~b.flip => b.exec <= now + 1 /\ \A e \in E : b.exec <= e.msc + 1
    BY DEF Ripe, E
  <2>2. (b.exec <= now => b.exec <= msc) /\ (b.exec <= now + 1 => b.exec <= msc + 1)
    BY <1>4 DEF Now
  <2> QED
    BY <1>2, <2>1, <2>2 DEF Timed
<1>7. Fares(t, v, H \ {v}, y, r)
  BY <1>2, <1>3, <1>5, <1>6 DEF Fares, Planned, Alters, E
<1>8. H \ {v} \subseteq H \ {v}
  OBVIOUS
<1> DEFINE G == H \ {v}
<1> HIDE DEF G
<1>9. InTime(t, G, y, r) /\ \A w : Steady(s, t, w)
  BY <1>3, <1>7, <1>8, AltersTime DEF G
<1> QED
  BY <1>1, <1>9 DEF G

LEMMA RequeuedAlters ==
    ASSUME NEW s, Typed(s), NEW v \in Ids, NEW b, NEW q
    PROVE  Alters(s, Requeued(s, v, b, q), v) /\ Requeued(s, v, b, q).vb[v] = b
<1> DEFINE g == [s.vb EXCEPT ![v] = b]
           t == Requeued(s, v, b, q)
<1>1. t = [s EXCEPT !.queue = q, !.vb = g]
  BY DEF Requeued
<1>2. g[v] = b /\ \A u \in Ids \ {v} : g[u] = s.vb[u]
  BY DEF Typed
<1> HIDE DEF g, t
<1>3. t.vb = g /\ t.pending = s.pending /\ t.due = s.due /\ t.flips = s.flips
  BY <1>1 DEF Typed
<1> QED
  BY <1>2, <1>3 DEF Alters, t

\* A flip that waits for another has none of its events left to come.
LEMMA WaitTime ==
    ASSUME NEW s, Typed(s), NEW H, NEW y, NEW r, InTime(s, H, y, r),
           NEW v \in Ids, v \in H, v # y, s.vb[v].at \in {"exec", "flip", "pending"},
           v = s.pending => s.vb[v].at = "pending", v # s.pending => s.vb[v].at # "pending",
           s.vb[v].flip, s.vb[v].pixmap,
           NEW now, Now(now), Ripe(s.vb[v], Events(v, s.due), now)
    PROVE  LET t == WaitForFlip(s, v)
           IN  InTime(t, H \ {v}, y, r) /\ \A w : Steady(s, t, w)
<1> DEFINE b == s.vb[v]
           E == Events(v, s.due)
           c == [b EXCEPT !.ready = TRUE]
           g == [c EXCEPT !.at = "flip"]
           q == Appended(s.queue, v)
           G == H \ {v}
<1>0. b \in Vblank
  BY DEF Typed
<1>1. /\ c.at = b.at /\ c.pixmap = b.pixmap /\ c.target = b.target /\ c.exec = b.exec
      /\ c.sync = b.sync /\ c.flip = b.flip /\ c.mode = b.mode /\ c.refused = b.refused
      /\ c.callback = b.callback
      /\ g.at = "flip" /\ g.pixmap = b.pixmap /\ g.target = b.target /\ g.exec = b.exec
      /\ g.sync = b.sync /\ g.flip = b.flip /\ g.mode = b.mode /\ g.refused = b.refused
  BY <1>0 DEF Vblank
<1>2. b.exec \in Int
  BY NumberFacts
<1>3. b.refused \/ (E = {} /\ b.exec <= msc)
  <2>1. b.refused \/ (E = {} /\ b.exec <= now)
    BY DEF Ripe
  <2> QED
    BY <1>2, <2>1 DEF Now
<1>4. Fares(s, v, H, y, r) /\ H \ {v} \subseteq G
  BY DEF InTime
<1> DEFINE t == WaitForFlip(s, v)
<1> HIDE DEF E, G
<1>5. CASE v = s.pending
  <2>1. t = With(s, v, c)
    BY <1>5 DEF WaitForFlip, With
  <2> HIDE DEF c, t
  <2>2. Alters(s, t, v) /\ t.vb[v] = c
    BY <2>1, WithAlters
  <2>3. Timed(c, E)
    BY <1>1, <1>3, <1>5 DEF Timed
  <2>4. Fares(t, v, G, y, r)
    BY <1>1, <1>4, <2>2, <2>3 DEF Fares, Planned, Alters, E
  <2>5. InTime(t, G, y, r) /\ \A w : Steady(s, t, w)
    BY <1>4, <2>2, <2>4, AltersTime
  <2> QED
    BY <2>5 DEF t, G
<1>6. CASE v # s.pending
  <2>1. t = Requeued(s, v, g, q)
    BY <1>6 DEF WaitForFlip, Requeued
  <2> HIDE DEF g, t, q
  <2>2. Alters(s, t, v) /\ t.vb[v] = g
    BY <2>1, RequeuedAlters
  <2>3. Timed(g, E)
    BY <1>1, <1>3, <1>6 DEF Timed
  <2>4. v \notin s.flips
    BY <1>6, NotFlipped
  <2>5. Fares(t, v, G, y, r)
    BY <1>1, <1>4, <2>2, <2>3, <2>4 DEF Fares, Planned, Alters, E
  <2>6. InTime(t, G, y, r) /\ \A w : Steady(s, t, w)
    BY <1>4, <2>2, <2>5, AltersTime
  <2> QED
    BY <2>6 DEF t, G
<1> QED
  BY <1>5, <1>6

LEMMA TakenOutTime ==
    ASSUME NEW s, Typed(s), NEW H, NEW y, NEW r, InTime(s, H, y, r),
           NEW v \in Ids, v \in H, v # y, s.vb[v].at \in {"exec", "flip"}
    PROVE  LET t == TakenOut(s, v)
           IN  InTime(t, H, y, r) /\ (\A w : Steady(s, t, w)) /\ Alters(s, t, v)
<1> DEFINE b == s.vb[v]
           g == [b EXCEPT !.at = "none"]
           q == Without(s.queue, {v})
           t == TakenOut(s, v)
<1>1. t = Requeued(s, v, g, q)
  BY DEF TakenOut, Requeued
<1>2. /\ g.at = "none" /\ g.pixmap = b.pixmap /\ g.target = b.target /\ g.exec = b.exec
      /\ g.sync = b.sync /\ g.flip = b.flip /\ g.mode = b.mode /\ g.refused = b.refused
  <2>1. b \in Vblank
    BY DEF Typed
  <2> QED
    BY <2>1 DEF Vblank
<1> HIDE DEF g, q, t
<1>3. Alters(s, t, v) /\ t.vb[v] = g
  BY <1>1, RequeuedAlters
<1>4. v \notin s.flips
  BY NotFlipped
<1>5. Fares(t, v, H, y, r)
  BY <1>2, <1>3, <1>4 DEF InTime, Fares, Planned, Alters
<1>6. H \ {v} \subseteq H
  OBVIOUS
<1> QED
  BY <1>3, <1>5, <1>6, AltersTime DEF t

LEMMA PostAlters ==
    ASSUME NEW s, Typed(s), NEW v \in Ids, NEW mode
    PROVE  LET t == Post(s, v, mode)
           IN  /\ Alters(s, t, v) /\ t.vb[v].at = "gone" /\ ~t.vb[v].pixmap
               /\ t.vb[v].mode = mode /\ t.vb[v].refused = s.vb[v].refused
<1> DEFINE b == s.vb[v]
           c == [[b EXCEPT !.completed = @ + 1] EXCEPT !.mode = mode]
           u == With(s, v, c)
           d == Remains(c, "gone")
           f == [x \in Ids |-> IF x \in {v} THEN Remains(u.vb[x], "gone") ELSE u.vb[x]]
           q == Without(u.queue, {v})
           t == Post(s, v, mode)
<1>1. t = Destroyed(u, {v}, "gone")
  BY DEF Post, With
<1>2. t = [u EXCEPT !.queue = q, !.vb = f]
  BY <1>1 DEF Destroyed, Remains
<1>3. c.mode = mode /\ c.refused = b.refused
  <2>1. b \in Vblank
    BY DEF Typed
  <2> QED
    BY <2>1 DEF Vblank
<1>4. d.at = "gone" /\ ~d.pixmap /\ d.mode = c.mode /\ d.refused = c.refused
  BY DEF Remains, NoVblank
<1> HIDE DEF c, q
<1>5. Alters(s, u, v) /\ u.vb[v] = c
  BY WithAlters
<1>6. DOMAIN u = DOMAIN s
  BY DEF With
<1> HIDE DEF u, d
<1>7. f[v] = d /\ \A x \in Ids \ {v} : f[x] = u.vb[x]
  BY <1>5 DEF d
<1> HIDE DEF f, t
<1>8. t.vb = f /\ t.due = u.due /\ t.flips = u.flips /\ t.pending = u.pending
  <2>1. {"queue", "vb", "due", "flips", "pending"} \subseteq DOMAIN s
    BY DEF Typed
  <2> QED
    BY <1>2, <1>6, <2>1
<1>9. Alters(s, t, v) /\ t.vb[v] = d
  BY <1>5, <1>7, <1>8 DEF Alters
<1> QED
  BY <1>3, <1>4, <1>9 DEF t

\* A request that completes has no frame any more.
LEMMA PostTime ==
    ASSUME NEW s, Typed(s), NEW H, NEW y, NEW r, InTime(s, H, y, r),
           NEW v \in Ids, NEW mode,
           mode = "copy" /\ r[v].at \in {"exec", "flip"} =>
               s.vb[v].refused \/ r[v].target <= msc
    PROVE  LET t == Post(s, v, mode)
           IN  /\ InTime(t, H \ {v}, IF v = y THEN None ELSE y, r)
               /\ \A w : Steady(s, t, w)
<1> DEFINE t == Post(s, v, mode)
           b == s.vb[v]
           d == t.vb[v]
           G == H \ {v}
           z == IF v = y THEN None ELSE y
<1>1. Alters(s, t, v) /\ d.at = "gone" /\ ~d.pixmap /\ d.mode = mode /\ d.refused = b.refused
  BY PostAlters
<1> HIDE DEF t, G
<1>2. Fares(t, v, G, z, r)
  <2>1. Planned(d, v, r)
    BY <1>1 DEF Planned
  <2>2. Timed(d, Events(v, t.due))
    BY <1>1 DEF Timed
  <2> QED
    BY <1>1, <2>1, <2>2 DEF InTime, Fares
<1>3. InTime(t, G, z, r)
  <2> DEFINE T == {v}
  <2>1. /\ \A u \in Ids \ T : Same(s, t, u) /\ (u \in H => u \in G) /\ (u = y => u = z)
        /\ \A u \in Ids \cap T : Fares(t, u, G, z, r)
    BY <1>1, <1>2 DEF Alters, Same, G
  <2>2. Flown(t)
    BY <1>1 DEF InTime, Flown, Alters
  <2> HIDE DEF T, z
  <2> QED
    BY <2>1, <2>2, TimeChange
<1>4. \A w : Steady(s, t, w)
  BY <1>1 DEF Steady, Alters
<1> QED
  BY <1>3, <1>4 DEF t, G

LEMMA ExecTime ==
    ASSUME NEW s, Typed(s), NEW H, NEW y, NEW r, InTime(s, H, y, r),
           NEW v \in Ids, v \in H, v # y, Copyable(s.vb[v]),
           NEW now, Now(now), Ripe(s.vb[v], Events(v, s.due), now), s.vb[v].exec = now + 1
    PROVE  LET t == [QueueVblank(s, v) EXCEPT !.vb[v].at = "exec"]
           IN  InTime(t, H \ {v}, y, r) /\ Steady(s, t, v)
<1> DEFINE b == s.vb[v]
           D == Events(v, s.due)
           e == [id |-> v, msc |-> b.exec]
           u == QueueVblank(s, v)
           E == Events(v, u.due)
           c == [b EXCEPT !.at = "exec"]
           t == [u EXCEPT !.vb[v].at = "exec"]
           G == H \ {v}
<1>0. b \in Vblank /\ v \notin s.flips
  BY NotFlipped DEF Typed, Copyable
<1>1. /\ \A x \in Ids \ {v} : Same(s, u, x)
      /\ u.vb = s.vb /\ u.flips = s.flips /\ u.pending = s.pending
      /\ E = D \cup {e}
  BY OwedEvents
<1>2. u = [vb |-> u.vb, queue |-> u.queue, pending |-> u.pending,
           unflip |-> u.unflip, cur |-> u.cur, pix |-> u.pix, due |-> u.due,
           flips |-> u.flips, missed |-> u.missed]
  BY OwedFields
<1>3. e.msc = b.exec
  OBVIOUS
<1>4. /\ b.exec \in Int /\ b.target \in Int /\ b.pixmap \in BOOLEAN /\ b.flip \in BOOLEAN
      /\ \A d \in D : d.msc \in Int
  BY NumberFacts
<1>5. /\ c.at = "exec" /\ c.pixmap = b.pixmap /\ c.target = b.target /\ c.exec = b.exec
      /\ c.sync = b.sync /\ c.flip = b.flip /\ c.mode = b.mode /\ c.refused = b.refused
  BY <1>0 DEF Vblank
<1> HIDE DEF u
<1>6. t = With(u, v, [u.vb[v] EXCEPT !.at = "exec"])
  BY DEF With
<1>7. t = With(u, v, c)
  BY <1>1, <1>6
<1> HIDE DEF c, e, D, t
<1>8. t.vb[v] = c /\ t.due = u.due /\ t.flips = s.flips /\ t.pending = s.pending
      /\ \A x \in Ids \ {v} : t.vb[x] = u.vb[x]
  <2>1. DOMAIN u.vb = Ids
    BY <1>1 DEF Typed
  <2> QED
    BY <1>1, <1>2, <1>7, <2>1 DEF With
<1>9. Timed(c, E)
  <2>1. b.refused \/ (b.exec <= now + 1 /\ \A d \in D : b.exec <= d.msc + 1)
    BY DEF Ripe, D, Copyable
  <2>2. b.refused \/ \A d \in E : b.exec <= d.msc + 1
    BY <1>1, <1>3, <1>4, <2>1
  <2>3. b.exec <= msc + 1
    BY DEF Now
  <2> HIDE DEF E
  <2> QED
    BY <1>5, <2>2, <2>3 DEF Timed, Copyable
<1>10. Fares(t, v, G, y, r)
  <2>1. Fares(s, v, H, y, r)
    BY DEF InTime
  <2> HIDE DEF G
  <2> QED
    BY <1>0, <1>5, <1>8, <1>9, <2>1 DEF Fares, Planned
<1> HIDE DEF G, E
<1>11. \A x \in Ids \ {v} : Same(s, t, x)
  BY <1>1, <1>8 DEF Same
<1>12. InTime(t, G, y, r)
  <2> DEFINE T == {v}
  <2>1. /\ \A x \in Ids \ T : Same(s, t, x) /\ (x \in H => x \in G) /\ (x = y => x = y)
        /\ \A x \in Ids \cap T : Fares(t, x, G, y, r)
    BY <1>10, <1>11 DEF G
  <2>2. Flown(t)
    BY <1>8 DEF InTime, Flown
  <2> HIDE DEF T
  <2> QED
    BY <2>1, <2>2, TimeChange
<1>13. Steady(s, t, v)
  BY <1>11 DEF Steady, Same
<1> QED
  BY <1>12, <1>13 DEF t, u, G

\* The driver takes a flip of which no event is left to come.
LEMMA FlippedTime ==
    ASSUME NEW s, Typed(s), NEW H, NEW y, NEW r, InTime(s, H, y, r),
           NEW v \in Ids, v \in H, s.pending = None,
           s.vb[v].pixmap, s.vb[v].flip,
           NEW now, Now(now), Ripe(s.vb[v], Events(v, s.due), now)
    PROVE  LET t == Flipped(s, v)
           IN  InTime(t, H \ {v}, y, r) /\ \A w : Steady(s, t, w)
<1> DEFINE b == s.vb[v]
           w == b.window
           c == [b EXCEPT !.at = "pending"]
           g == [s.vb EXCEPT ![v] = c]
           p == IF s.cur.window \in {None, w} THEN s.pix
                ELSE SetTreeFrom(s.pix, s.cur.window, s.cur.pixmap, Screen)
           a == SetTree(SetTree(p, w, v), Root, v)
           t == Flipped(s, v)
           E == Events(v, s.due)
           G == H \ {v}
<1>1. t = [s EXCEPT !.pending = v, !.flips = @ \cup {v}, !.vb = g, !.pix = a]
  BY DEF Flipped
<1>2. /\ c.at = "pending" /\ c.pixmap = b.pixmap /\ c.target = b.target /\ c.exec = b.exec
      /\ c.sync = b.sync /\ c.flip = b.flip /\ c.mode = b.mode /\ c.refused = b.refused
  <2>1. b \in Vblank
    BY DEF Typed
  <2> QED
    BY <2>1 DEF Vblank
<1> HIDE DEF c, a
<1>3. g[v] = c /\ \A u \in Ids \ {v} : g[u] = s.vb[u]
  BY DEF Typed
<1> HIDE DEF g, t, E, G
<1>4. t.vb = g /\ t.due = s.due /\ t.flips = s.flips \cup {v} /\ t.pending = v
  BY <1>1 DEF Typed
<1>5. Timed(c, E)
  <2>1. b.exec \in Int
    BY NumberFacts
  <2>2. b.refused \/ (E = {} /\ b.exec <= msc)
    BY <2>1 DEF Ripe, Now, E
  <2> QED
    BY <1>2, <2>2 DEF Timed
<1>6. Fares(t, v, G, y, r)
  <2>1. Fares(s, v, H, y, r) /\ t.vb[v] = c
    BY <1>3, <1>4 DEF InTime
  <2>2. Planned(c, v, r)
    BY <1>2, <2>1 DEF Fares, Planned
  <2>3. Events(v, t.due) = E
    BY <1>4 DEF E
  <2> HIDE DEF b
  <2> QED
    BY <1>2, <1>5, <2>1, <2>2, <2>3 DEF Fares, b
<1>7. \A u \in Ids \ {v} : Same(s, t, u)
  BY <1>3, <1>4 DEF Same
<1>8. Flown(t)
  BY <1>4, Names DEF InTime, Flown
<1>9. InTime(t, G, y, r)
  <2> DEFINE T == {v}
  <2>1. /\ \A u \in Ids \ T : Same(s, t, u) /\ (u \in H => u \in G) /\ (u = y => u = y)
        /\ \A u \in Ids \cap T : Fares(t, u, G, y, r)
    BY <1>6, <1>7 DEF G
  <2> HIDE DEF T
  <2> QED
    BY <1>8, <2>1, TimeChange
<1>10. \A x : Steady(s, t, x)
  BY <1>4 DEF Steady
<1> QED
  BY <1>9, <1>10 DEF t, G

LEMMA CopyDoneTime ==
    ASSUME NEW s, Typed(s), NEW H, NEW y, NEW r, InTime(s, H, y, r),
           NEW v \in Ids, v # y,
           r[v].at \in {"exec", "flip"} => s.vb[v].refused \/ r[v].target <= msc
    PROVE  LET t == Post(Idled(s, v), v, "copy")
           IN  InTime(t, H \ {v}, y, r) /\ \A w : Steady(s, t, w)
<1> DEFINE u == Idled(s, v)
           t == Post(u, v, "copy")
           b == [s.vb[v] EXCEPT !.idled = @ + 1]
<1>1. Unmoved(s, u) /\ u = With(s, v, b)
  BY SmallSteps DEF Idled, With
<1>2. b \in Vblank /\ b.window \in Living(s) \cup {None}
  <2>1. s.vb[v] \in Vblank /\ s.vb[v].window \in Living(s) \cup {None}
    BY DEF Typed
  <2> QED
    BY <2>1 DEF Vblank
<1> HIDE DEF b, u
<1>3. Typed(u)
  BY <1>1, <1>2, WithTyped
<1>4. InTime(u, H, y, r) /\ (\A w : Steady(s, u, w)) /\ u.vb[v].refused = s.vb[v].refused
  BY <1>1, UnmovedTime DEF Unmoved, Same
<1>5. InTime(t, H \ {v}, IF v = y THEN None ELSE y, r) /\ \A w : Steady(u, t, w)
  BY <1>3, <1>4, PostTime
<1>6. \A w : Steady(s, t, w)
  BY <1>1, <1>5 DEF Steady, Unmoved, Same
<1> QED
  BY <1>5, <1>6 DEF u

-----------------------------------------------------------------------------
(* Calls that call back.                                                   *)

\* What present_unflip leaves behind, for a copy to the window that was flipped.
UnflipsInTime(s, v, U, H, y, r) ==
    s.pending = None /\ ~s.unflip /\ s.cur.window = s.vb[v].window =>
        \A u \in U : /\ InTime(u, H, y, r) /\ Steady(s, u, v)
                     /\ Events(v, u.due) = Events(v, s.due)

LEMMA AlikeInTime ==
    ASSUME NEW s, NEW t, NEW v, Alike(s, t, v), Alters(s, t, v),
           NEW U, NEW H, NEW y, NEW r, UnflipsInTime(s, v, U, H, y, r)
    PROVE  UnflipsInTime(t, v, U, H, y, r)
<1>1. \A u : Steady(s, u, v) => Steady(t, u, v)
  BY DEF Steady, Alters
<1> QED
  BY <1>1 DEF UnflipsInTime, Alike, Alters

LEMMA CopyTargetTime ==
    ASSUME NEW s, NEW H, NEW y, NEW C, Good(s, H, y, C), NEW r, InTime(s, H, y, r),
           NEW v \in Ids, v \in H, v # y, Copyable(s.vb[v]),
           NEW U, Unflips(s, v, U, H, y, C), UnflipsInTime(s, v, U, H, y, r),
           NEW t \in CopyTarget(s, v, U)
    PROVE  /\ InTime(t, H, y, r) /\ Steady(s, t, v)
           /\ Events(v, t.due) = Events(v, s.due)
<1>0. Mid(s, H, y, C) /\ Typed(s) /\ Drawn(s)
  BY DEF Good, Mid
<1>1. CASE t = s
  BY <1>1 DEF Steady
<1>2. CASE t = AbortFlip(s) /\ s.pending # None
  <2>1. Unmoved(s, t)
    BY <1>0, <1>2, SmallSteps
  <2> QED
    BY <2>1, UnmovedTime DEF Unmoved, Same
<1>3. ASSUME s.pending = None, ~s.unflip, s.cur.window = s.vb[v].window,
             NEW u \in U, t = [u EXCEPT !.vb[v] = s.vb[v]]
      PROVE  /\ InTime(t, H, y, r) /\ Steady(s, t, v)
             /\ Events(v, t.due) = Events(v, s.due)
  <2> DEFINE b == s.vb[v]
  <2>1. Good(u, H, y, C) /\ Kept(s, u, v) /\ u.vb[v].at = "none" /\ Typed(u)
    BY <1>3 DEF Unflips, Good, Mid
  <2>2. InTime(u, H, y, r) /\ Steady(s, u, v) /\ Events(v, u.due) = Events(v, s.due)
    BY <1>3 DEF UnflipsInTime
  <2>3. t = With(u, v, b)
    BY <1>3 DEF With
  <2>4. Alters(u, t, v) /\ t.vb[v] = b
    BY <2>1, <2>3, WithAlters
  <2>5. v \notin u.flips
    BY <2>1, <2>2, NotFlipped
  <2>6. Fares(t, v, H, y, r)
    BY <2>4, <2>5 DEF InTime, Fares, Alters
  <2>7. InTime(t, H, y, r) /\ \A w : Steady(u, t, w)
    BY <2>2, <2>4, <2>6, AltersTime
  <2> QED
    BY <2>1, <2>2, <2>4, <2>7, SteadyTwice DEF Alters
<1> QED
  BY <1>1, <1>2, <1>3 DEF CopyTarget

LEMMA CopiedTime ==
    ASSUME NEW s, NEW H, NEW y, NEW C, Good(s, H, y, C), NEW r, InTime(s, H, y, r),
           NEW v \in Ids, v \in H, v # y, Copyable(s.vb[v]),
           NEW now, Now(now), Ripe(s.vb[v], Events(v, s.due), now),
           NEW U, Unflips(s, v, U, H, y, C), UnflipsInTime(s, v, U, H, y, r),
           NEW t \in Copied(s, v, now, U)
    PROVE  InTime(t, H \ {v}, y, r) /\ Steady(s, t, v)
<1>1. PICK a \in CopyTarget(s, v, U) :
          \/ \E u \in Early(a, v, now) : t = [u EXCEPT !.vb[v].at = "exec"]
          \/ \E u \in OnTime(a, v, now) : t = Post(Idled(u, v), v, "copy")
  BY DEF Copied
<1>2. /\ Good(a, H, y, C) /\ Kept(s, a, v) /\ Copyable(a.vb[v]) /\ a.vb[v] = s.vb[v]
      /\ Typed(a)
  <2>1. Good(a, H, y, C) /\ Kept(s, a, v) /\ a.vb[v] = s.vb[v]
    BY CopyTargetGood
  <2> QED
    BY <2>1 DEF Good, Mid
<1>3. /\ InTime(a, H, y, r) /\ Steady(s, a, v)
      /\ Ripe(a.vb[v], Events(v, a.due), now)
  <2>1. InTime(a, H, y, r) /\ Steady(s, a, v) /\ Events(v, a.due) = Events(v, s.due)
    BY CopyTargetTime
  <2> QED
    BY <1>2, <2>1
<1>4. CASE \E u \in Early(a, v, now) : t = [u EXCEPT !.vb[v].at = "exec"]
  <2>1. t = [QueueVblank(a, v) EXCEPT !.vb[v].at = "exec"] /\ a.vb[v].exec = now + 1
    BY <1>4 DEF Early
  <2>2. InTime(t, H \ {v}, y, r) /\ Steady(a, t, v)
    BY <1>2, <1>3, <2>1, ExecTime
  <2> QED
    BY <1>2, <1>3, <2>2, SteadyTwice
<1>5. ASSUME NEW u \in OnTime(a, v, now), t = Post(Idled(u, v), v, "copy")
      PROVE  InTime(t, H \ {v}, y, r) /\ Steady(s, t, v)
  <2>1. /\ Typed(u) /\ InTime(u, H, y, r) /\ Kept(a, u, v) /\ Steady(a, u, v)
        /\ u.vb[v].refused \/ (u.vb[v].exec <= msc /\ u.vb[v].pixmap /\ ~u.vb[v].flip)
    <3>1. CASE u = a /\ a.vb[v].exec # now + 1
      <4>1. a.vb[v].refused \/ a.vb[v].exec <= now + 1
        BY <1>2, <1>3 DEF Ripe, Copyable
      <4>2. a.vb[v].refused \/ a.vb[v].exec <= msc
        BY <1>2, <3>1, <4>1, NumberFacts DEF Now
      <4> QED
        BY <1>2, <1>3, <3>1, <4>2 DEF Kept, Steady, Copyable
    <3>2. CASE u = Refused(a, v) /\ "queue" \in Refusals
      <4>1. Mid(a, H, y, C)
        BY <1>2 DEF Good
      <4>2. Mid(u, H, y, C) /\ Kept(a, u, v)
        BY <3>2, <4>1, RefusedMid
      <4>3. InTime(u, H, y, r) /\ (\A w : Steady(a, u, w)) /\ u.vb[v].refused
        BY <1>2, <1>3, <3>2, RefusedTime
      <4> QED
        BY <4>2, <4>3 DEF Mid
    <3> QED
      BY <3>1, <3>2 DEF OnTime
  <2>2. r[v].at \in {"exec", "flip"} => u.vb[v].refused \/ r[v].target <= msc
    <3>1. Planned(u.vb[v], v, r)
      BY <2>1 DEF InTime, Fares
    <3> QED
      BY <2>1, <3>1 DEF Planned
  <2>3. InTime(t, H \ {v}, y, r) /\ \A w : Steady(u, t, w)
    BY <1>5, <2>1, <2>2, CopyDoneTime
  <2>4. Steady(a, t, v)
    BY <2>1, <2>3, SteadyTwice
  <2> QED
    BY <1>2, <1>3, <2>3, <2>4, SteadyTwice
<1> QED
  BY <1>1, <1>4, <1>5

LEMMA PerformedTime ==
    ASSUME NEW s, NEW H, NEW y, NEW C, Good(s, H, y, C), NEW r, InTime(s, H, y, r),
           NEW v \in Ids, v \in H, s.vb[v].at \in {"exec", "flip"},
           ~MustWait(s, s.vb[v]),
           NEW now, Now(now), Ripe(s.vb[v], Events(v, s.due), now),
           NEW U, Unflips(s, v, U, H, y, C), UnflipsInTime(s, v, U, H, y, r),
           NEW t \in Performed(s, v, now, U)
    PROVE  InTime(t, H \ {v}, y, r) /\ Steady(s, t, v)
<1> DEFINE b == s.vb[v]
           n == [b EXCEPT !.at = "none"]
           a == TakenOut(s, v)
           m == [[n EXCEPT !.flip = FALSE] EXCEPT !.exec = b.target]
           failed == [a EXCEPT !.vb[v].flip = FALSE, !.vb[v].exec = b.target]
           E == Events(v, s.due)
<1>0. Mid(s, H, y, C) /\ Typed(s) /\ b \in Vblank /\ b.window \in Living(s) \cup {None} /\ v # y
  <2>1. Mid(s, H, y, C)
    BY DEF Good
  <2>2. v # y
    BY <2>1, OneReported
  <2> QED
    BY <2>1, <2>2 DEF Mid, Typed
<1>1. /\ Good(a, H, y, C) /\ Kept(s, a, v) /\ a.vb[v] = n /\ Changed(s, a, {v}) /\ Typed(a)
  <2>1. /\ Mid(a, H, y, C) /\ \A D : Shown(s, D) => Shown(a, D)
        /\ Kept(s, a, v)
        /\ a.vb[v] = n /\ Changed(s, a, {v})
    BY <1>0, TakenOutMid
  <2> QED
    BY <2>1 DEF Good, Mid
<1>2. InTime(a, H, y, r) /\ (\A w : Steady(s, a, w)) /\ Alters(s, a, v)
  BY <1>0, TakenOutTime
<1>3. /\ n \in Vblank /\ n.at = "none" /\ n.window = b.window /\ n.abort = b.abort
      /\ n.flip = b.flip /\ n.pixmap = b.pixmap /\ n.idled = b.idled
      /\ n.completed = b.completed /\ n.mode = b.mode
      /\ n.exec = b.exec /\ n.refused = b.refused /\ n.target = b.target /\ n.sync = b.sync
  BY <1>0 DEF Vblank
<1>4. Alike(s, a, v) /\ Events(v, a.due) = E
  BY <1>1, <1>2, <1>3 DEF Alike, Changed, Alters
<1>5. Unflips(a, v, U, H, y, C) /\ UnflipsInTime(a, v, U, H, y, r)
  BY <1>2, <1>4, AlikeUnflips, AlikeInTime
<1>6. /\ b.window # None /\ ~b.abort /\ b.idled = (IF b.pixmap THEN 0 ELSE 1)
      /\ b.completed = 0 /\ b.mode = "none"
  <2>1. Request(b, v, s.pending, s.cur.pixmap, s.due, H, y, C)
    BY <1>0 DEF Mid
  <2> QED
    BY <1>0, <2>1 DEF Request, Lives
<1>7. Ripe(n, E, now)
  BY <1>3 DEF Ripe
<1>8. CASE ~b.pixmap
  <2>1. t = Post(a, v, "skip")
    BY <1>8 DEF Performed
  <2> HIDE DEF a
  <2>2. InTime(t, H \ {v}, IF v = y THEN None ELSE y, r) /\ \A w : Steady(a, t, w)
    BY <1>1, <1>2, <2>1, PostTime
  <2> QED
    BY <1>0, <1>1, <1>2, <2>2, SteadyTwice
<1>9. CASE b.pixmap /\ ~b.flip
  <2>1. t \in Copied(a, v, now, U)
    BY <1>9 DEF Performed
  <2>2. Copyable(a.vb[v])
    BY <1>1, <1>3, <1>6, <1>9 DEF Copyable
  <2>3. Ripe(a.vb[v], Events(v, a.due), now)
    BY <1>1, <1>4, <1>7
  <2> HIDE DEF a
  <2>4. InTime(t, H \ {v}, y, r) /\ Steady(a, t, v)
    BY <1>0, <1>1, <1>2, <1>5, <2>1, <2>2, <2>3, CopiedTime
  <2> QED
    BY <1>1, <1>2, <2>4, SteadyTwice
<1>10. CASE b.pixmap /\ b.flip
  <2>1. s.pending = None /\ ~s.unflip
    BY <1>10 DEF MustWait
  <2>2. t = Flipped(a, v) \/ t \in Copied(failed, v, now, U)
    BY <1>10 DEF Performed
  <2>3. Ripe(a.vb[v], Events(v, a.due), now) /\ a.vb[v].flip /\ a.vb[v].pixmap /\ a.pending = None
    BY <1>1, <1>3, <1>4, <1>7, <1>10, <2>1 DEF Alike
  <2>4. CASE t = Flipped(a, v)
    <3> HIDE DEF a
    <3>1. InTime(t, H \ {v}, y, r) /\ \A w : Steady(a, t, w)
      BY <1>1, <1>2, <2>3, <2>4, FlippedTime
    <3> QED
      BY <1>1, <1>2, <3>1, SteadyTwice
  <2>5. CASE t \in Copied(failed, v, now, U)
    <3>1. failed = With(a, v, m)
      <4>1. failed = With(a, v, [[a.vb[v] EXCEPT !.flip = FALSE] EXCEPT !.exec = b.target])
        <5> HIDE DEF a
        <5> QED
          BY <1>1 DEF With, Typed
      <4> QED
        BY <1>1, <4>1
    <3>2. /\ m \in Vblank /\ m.window = b.window /\ m.at = "none" /\ ~m.abort /\ ~m.flip
          /\ m.pixmap /\ m.idled = 0 /\ m.completed = 0 /\ m.mode = "none"
          /\ m.exec = b.target /\ m.target = b.target /\ m.sync = b.sync
          /\ m.refused = b.refused
      <4> DEFINE k == [n EXCEPT !.flip = FALSE]
      <4>1. /\ k \in Vblank /\ k.window = b.window /\ k.at = "none" /\ ~k.abort /\ ~k.flip
            /\ k.pixmap /\ k.idled = 0 /\ k.completed = 0 /\ k.mode = "none"
            /\ k.target = b.target /\ k.sync = b.sync /\ k.refused = b.refused
        BY <1>3, <1>6, <1>10 DEF Vblank
      <4>2. m = [k EXCEPT !.exec = b.target] /\ b.target \in MSCs
        BY <1>0 DEF Vblank
      <4> HIDE DEF k, m
      <4> QED
        BY <4>1, <4>2 DEF Vblank
    <3> HIDE DEF m, failed, a, n
    <3>3. Mid(a, H, y, C) /\ Typed(a) /\ Shown(a, C) /\ None \in C
      BY <1>1 DEF Good, Mid
    <3>4. Request(m, v, a.pending, a.cur.pixmap, a.due, H, y, C)
      <4>1. Request(a.vb[v], v, a.pending, a.cur.pixmap, a.due, H, y, C)
        BY <3>3 DEF Mid
      <4> QED
        BY <1>0, <1>1, <1>3, <3>2, <4>1 DEF Request, Lives, Covered
    <3>5. m.at # "flip" /\ a.vb[v].at # "flip" /\ m.window \in Living(a) \cup {None} /\ y \in H \cup {None}
      BY <1>0, <1>1, <1>3, <3>2, OneReported DEF Changed, Living
    <3>6. Mid(With(a, v, m), H, y, C)
      BY <3>2, <3>3, <3>4, <3>5, WithMid
    <3>7. /\ Kept(a, With(a, v, m), v)
          /\ \A D : Shown(a, D) => Shown(With(a, v, m), D)
      BY <3>3, WithKept
    <3>8. /\ Alike(a, With(a, v, m), v) /\ With(a, v, m).vb[v] = m
          /\ Alters(a, With(a, v, m), v)
      <4>1. m.window = a.vb[v].window
        BY <1>1, <1>3, <3>2
      <4> QED
        BY <3>3, <4>1, WithAlike, WithAlters
    <3>9. Good(failed, H, y, C) /\ Kept(a, failed, v) /\ Copyable(failed.vb[v])
      BY <1>6, <3>1, <3>2, <3>3, <3>6, <3>7, <3>8 DEF Good, Copyable
    <3>10. Unflips(failed, v, U, H, y, C) /\ UnflipsInTime(failed, v, U, H, y, r)
      BY <1>5, <3>1, <3>8, AlikeUnflips, AlikeInTime
    <3>11. v \notin a.flips
      BY <1>0, <1>1, <1>2, <1>3, NotFlipped
    <3>12. Fares(failed, v, H, y, r)
      <4>1. Fares(a, v, H, y, r)
        BY <1>2 DEF InTime
      <4>2. failed.vb[v] = m /\ failed.flips = a.flips
        BY <3>1, <3>8 DEF Alters
      <4> QED
        BY <1>1, <1>3, <1>10, <3>2, <3>11, <4>1, <4>2 DEF Fares, Planned
    <3>13. InTime(failed, H, y, r) /\ \A w : Steady(a, failed, w)
      <4>1. H \ {v} \subseteq H
        OBVIOUS
      <4> QED
        BY <1>2, <3>1, <3>8, <3>12, <4>1, AltersTime
    <3>14. Ripe(failed.vb[v], Events(v, failed.due), now)
      <4>1. failed.vb[v] = m /\ failed.due = a.due
        BY <3>1, <3>8 DEF Alters
      <4>2. b.exec = IF b.sync THEN b.target - 1 ELSE b.target
        BY <1>1, <1>2, <1>3, <1>10 DEF InTime, Fares, Planned
      <4>3. b.refused \/ (Events(v, a.due) = {} /\ b.exec <= now)
        BY <1>1, <1>3, <1>10, <2>3 DEF Ripe
      <4>4. b.exec \in Int /\ b.target \in Int /\ b.sync \in BOOLEAN /\ now \in Int
        BY <1>0, NumberFacts DEF Now
      <4>5. b.exec <= now => b.target <= now + 1
        BY <4>2, <4>4
      <4> HIDE DEF b
      <4> QED
        BY <3>2, <4>1, <4>3, <4>5 DEF Ripe
    <3>15. InTime(t, H \ {v}, y, r) /\ Steady(failed, t, v)
      BY <1>0, <2>5, <3>9, <3>10, <3>13, <3>14, CopiedTime
    <3>16. Steady(a, t, v)
      BY <3>9, <3>13, <3>15, SteadyTwice
    <3> QED
      BY <1>1, <1>2, <3>15, <3>16, SteadyTwice
  <2> QED
    BY <2>2, <2>4, <2>5
<1> QED
  BY <1>8, <1>9, <1>10

LEMMA ExecutedTime ==
    ASSUME NEW s, NEW H, NEW y, NEW C, Good(s, H, y, C), NEW r, InTime(s, H, y, r),
           NEW v \in Ids, v \in H, s.vb[v].at \in {"exec", "flip", "pending"},
           NEW now, Now(now), Ripe(s.vb[v], Events(v, s.due), now),
           NEW U, Unflips(s, v, U, H, y, C), UnflipsInTime(s, v, U, H, y, r),
           NEW t \in Executed(s, v, now, U)
    PROVE  InTime(t, H \ {v}, y, r) /\ \A w : Steady(s, t, w)
<1>0. Mid(s, H, y, C) /\ Typed(s)
  BY DEF Good, Mid
<1>1. CASE t \in Early(s, v, now)
  <2>1. t = QueueVblank(s, v) /\ s.vb[v].exec = now + 1
    BY <1>1 DEF Early
  <2>2. InTime(t, H \ {v}, y, r) /\ Steady(s, t, v)
    BY <1>0, <2>1, OwedTime
  <2> QED
    BY <2>2 DEF Steady
<1>2. ASSUME NEW a \in OnTime(s, v, now),
             t \in (IF FenceWaits(a.vb[v]) THEN {[a EXCEPT !.vb[v].callback = TRUE]}
                    ELSE IF MustWait(a, a.vb[v]) THEN {WaitForFlip(a, v)}
                    ELSE Performed(a, v, now, U))
      PROVE  InTime(t, H \ {v}, y, r) /\ Steady(s, t, v)
  <2>1. /\ Good(a, H, y, C) /\ Kept(s, a, v) /\ a.vb[v].at = s.vb[v].at
        /\ Unflips(a, v, U, H, y, C)
        /\ InTime(a, H, y, r) /\ (\A w : Steady(s, a, w))
        /\ Ripe(a.vb[v], Events(v, a.due), now)
        /\ UnflipsInTime(a, v, U, H, y, r)
    <3>1. CASE a = s
      BY <3>1 DEF Kept, Steady
    <3>2. CASE a = Refused(s, v) /\ "queue" \in Refusals
      <4> DEFINE b == [s.vb[v] EXCEPT !.refused = TRUE]
      <4>1. s.vb[v] \in Vblank
        BY <1>0 DEF Mid, Typed
      <4>2. /\ a = With(s, v, b) /\ Mid(a, H, y, C) /\ (\A D : Shown(s, D) => Shown(a, D))
            /\ Kept(s, a, v)
        BY <1>0, <3>2, RefusedMid
      <4>3. b.at = s.vb[v].at /\ b.window = s.vb[v].window
        BY <4>1 DEF Vblank
      <4> HIDE DEF b
      <4>4. Alike(s, a, v) /\ a.vb[v] = b /\ Alters(s, a, v)
        BY <1>0, <4>2, <4>3, WithAlike, WithAlters
      <4>5. InTime(a, H, y, r) /\ (\A w : Steady(s, a, w)) /\ a.vb[v].refused
        BY <1>0, <3>2, RefusedTime
      <4>6. Ripe(a.vb[v], Events(v, a.due), now)
        BY <4>5 DEF Ripe
      <4>7. Unflips(a, v, U, H, y, C) /\ UnflipsInTime(a, v, U, H, y, r)
        BY <4>4, AlikeUnflips, AlikeInTime
      <4> QED
        BY <4>2, <4>3, <4>4, <4>5, <4>6, <4>7 DEF Good
    <3> QED
      BY <3>1, <3>2 DEF OnTime
  <2>2. Mid(a, H, y, C) /\ Typed(a)
    BY <2>1 DEF Good, Mid
  <2>3. CASE FenceWaits(a.vb[v])
    <3>1. t = [a EXCEPT !.vb[v].callback = TRUE]
      BY <1>2, <2>3
    <3>2. InTime(t, H \ {v}, y, r) /\ \A w : Steady(a, t, w)
      BY <2>1, <2>2, <3>1, CallbackTime
    <3> QED
      BY <2>1, <3>2, SteadyTwice
  <2>4. /\ v = a.pending <=> a.vb[v].at = "pending"
        /\ a.vb[v].at = "pending" => a.vb[v].flip /\ a.vb[v].pixmap
        /\ v # y
    <3>1. Request(a.vb[v], v, a.pending, a.cur.pixmap, a.due, H, y, C)
      BY <2>2 DEF Mid
    <3> QED
      BY <2>1, <3>1 DEF Request, Lives
  <2>5. CASE ~FenceWaits(a.vb[v]) /\ MustWait(a, a.vb[v])
    <3>1. t = WaitForFlip(a, v) /\ a.vb[v].flip /\ a.vb[v].pixmap
      BY <1>2, <2>5 DEF MustWait
    <3>2. InTime(t, H \ {v}, y, r) /\ \A w : Steady(a, t, w)
      BY <2>1, <2>2, <2>4, <3>1, WaitTime
    <3> QED
      BY <2>1, <3>2, SteadyTwice
  <2>6. CASE ~FenceWaits(a.vb[v]) /\ ~MustWait(a, a.vb[v])
    <3>1. a.vb[v].at # "pending"
      BY <2>4, <2>6, Names DEF MustWait
    <3>2. t \in Performed(a, v, now, U)
      BY <1>2, <2>6
    <3>3. InTime(t, H \ {v}, y, r) /\ Steady(a, t, v)
      BY <2>1, <2>6, <3>1, <3>2, PerformedTime
    <3> QED
      BY <2>1, <3>3, SteadyTwice
  <2> QED
    BY <2>3, <2>5, <2>6
<1>3. CASE InTime(t, H \ {v}, y, r) /\ Steady(s, t, v)
  BY <1>3 DEF Steady
<1> QED
  BY <1>1, <1>2, <1>3 DEF Executed

\* The first of the flip queue has none of its events left to come.
LEMMA FirstIsRipe ==
    ASSUME NEW s, NEW H, NEW y, NEW C, Good(s, H, y, C), NEW r, InTime(s, H, y, r),
           \A v \in H : s.vb[v].at # "flip", NEW v \in FirstToFlip(s)
    PROVE  /\ v \in Ids /\ s.vb[v].at = "flip" /\ v \notin H
           /\ Ripe(s.vb[v], Events(v, s.due), msc)
<1>1. v \in Ids /\ s.vb[v].at = "flip" /\ v \notin H
  BY DEF FirstToFlip, Good, Mid, InOrder
<1>2. Timed(s.vb[v], Events(v, s.due))
  BY <1>1 DEF InTime, Fares
<1> QED
  BY <1>1, <1>2 DEF Timed, Ripe

LEMMA TryUnflippedTime ==
    ASSUME NEW s, NEW H, NEW y, NEW C, Good(s, H, y, C), NEW r, InTime(s, H, y, r),
           \A v \in H : s.vb[v].at # "flip", Now(msc), NEW t \in TryUnflipped(s)
    PROVE  InTime(t, H, y, r) /\ \A w : Steady(s, t, w)
<1>1. CASE t = s
  BY <1>1 DEF Steady
<1>2. ASSUME NEW v \in FirstToFlip(s), t \in Executed(s, v, msc, {})
      PROVE  InTime(t, H, y, r) /\ \A w : Steady(s, t, w)
  <2>1. /\ v \in Ids /\ s.vb[v].at = "flip" /\ v \notin H
        /\ Ripe(s.vb[v], Events(v, s.due), msc)
    BY FirstIsRipe
  <2> DEFINE G == H \cup {v}
  <2>2. Good(s, G, y, C) /\ InTime(s, G, y, r) /\ v \in G
    BY MoreGood, MoreInTime
  <2>3. G \ {v} = H
    BY <2>1
  <2> HIDE DEF G
  <2>4. Unflips(s, v, {}, G, y, C) /\ UnflipsInTime(s, v, {}, G, y, r)
    BY DEF Unflips, UnflipsInTime
  <2>5. InTime(t, G \ {v}, y, r) /\ \A w : Steady(s, t, w)
    BY <1>2, <2>1, <2>2, <2>4, ExecutedTime
  <2> QED
    BY <2>3, <2>5
<1> QED
  BY <1>1, <1>2 DEF TryUnflipped

LEMMA UnflippedTime ==
    ASSUME NEW s, NEW H, NEW y, NEW C, Mid(s, H, y, C), None \in C,
           s.pending = None, ~s.unflip, NEW r, InTime(s, H, y, r), H \subseteq Ids,
           \A v \in H : s.vb[v].at # "flip", Now(msc), NEW t \in Unflipped(s)
    PROVE  InTime(t, H, y, r) /\ \A w : Steady(s, t, w)
<1> DEFINE a == Restored(s)
<1>0. Typed(s) /\ Drawn(s)
  BY DEF Mid
<1>1. /\ Mid(a, H, y, C) /\ (\A w : Kept(s, a, w)) /\ a.pending = None /\ ~a.unflip
      /\ a.cur = s.cur /\ a.pix[Root] = Screen
  BY RestoredMid
<1>2. Unmoved(s, a)
  BY <1>0, SmallSteps
<1>3. InTime(a, H, y, r) /\ \A w : Steady(s, a, w)
  BY <1>2, UnmovedTime
<1>4. t = [a EXCEPT !.unflip = TRUE] \/ t \in TryUnflipped(FlipIdle(a))
  BY DEF Unflipped
<1> HIDE DEF a
<1>5. CASE t = [a EXCEPT !.unflip = TRUE]
  <2>1. t.vb = a.vb /\ t.pending = a.pending /\ t.due = a.due /\ t.flips = a.flips
    BY <1>1, <1>5 DEF Mid, Typed
  <2>2. Unmoved(a, t)
    BY <2>1 DEF Unmoved, Same
  <2>3. InTime(t, H, y, r) /\ \A w : Steady(a, t, w)
    BY <1>3, <2>2, UnmovedTime
  <2> QED
    BY <1>1, <1>3, <2>3, SteadyTwice
<1>6. CASE t \in TryUnflipped(FlipIdle(a))
  <2> DEFINE f == FlipIdle(a)
  <2>1. Mid(f, H, y, C) /\ Shown(f, C) /\ \A w : Kept(a, f, w)
    BY <1>1, FlipIdleMid
  <2>2. Unmoved(a, f)
    BY <1>1, SmallSteps DEF Mid
  <2> HIDE DEF f
  <2>3. Good(f, H, y, C) /\ InTime(f, H, y, r) /\ \A w : Steady(a, f, w)
    BY <1>3, <2>1, <2>2, UnmovedTime DEF Good, Now
  <2>4. \A v \in H : f.vb[v].at # "flip"
    BY <1>2, <2>2 DEF Unmoved, Same
  <2>5. InTime(t, H, y, r) /\ \A w : Steady(f, t, w)
    BY <1>6, <2>3, <2>4, TryUnflippedTime DEF f
  <2>6. \A w : Steady(a, t, w)
    BY <2>1, <2>3, <2>5, SteadyTwice
  <2> QED
    BY <1>1, <1>3, <2>5, <2>6, SteadyTwice
<1> QED
  BY <1>4, <1>5, <1>6

LEMMA ExecuteTime ==
    ASSUME NEW s, NEW H, NEW y, NEW C, Good(s, H, y, C), NEW r, InTime(s, H, y, r),
           NEW v \in Ids, v \in H, s.vb[v].at \in {"exec", "flip", "pending"},
           H \subseteq Ids, \A x \in H \ {v} : s.vb[x].at # "flip", Now(msc),
           NEW now, Now(now), Ripe(s.vb[v], Events(v, s.due), now), NEW t \in Execute(s, v, now)
    PROVE  InTime(t, H \ {v}, y, r) /\ \A w : Steady(s, t, w)
<1> DEFINE a == TakenOut(s, v)
           U == Unflipped(a)
<1>1. Unflips(s, v, U, H, y, C) /\ UnflipsInTime(s, v, U, H, y, r)
  <2> SUFFICES ASSUME s.pending = None, ~s.unflip, s.cur.window = s.vb[v].window,
                      NEW u \in U
               PROVE  /\ Good(u, H, y, C) /\ Kept(s, u, v) /\ u.vb[v].at = "none"
                      /\ InTime(u, H, y, r) /\ Steady(s, u, v)
                      /\ Events(v, u.due) = Events(v, s.due)
    BY DEF Unflips, UnflipsInTime
  <2>1. Mid(s, H, y, C) /\ None \in C /\ msc \in Nat /\ s.vb[v] \in Vblank /\ Typed(s)
    BY DEF Good, Mid, Typed
  <2>2. s.vb[v].at # "pending" /\ s.vb[v].window # None /\ v # y
    BY <2>1, Names DEF Mid, Request, Lives
  <2>3. s.cur.pixmap # None
    BY <2>1, <2>2 DEF Mid, OneWay
  <2>4. /\ Mid(a, H, y, C) /\ Kept(s, a, v) /\ a.vb[v] = [s.vb[v] EXCEPT !.at = "none"]
        /\ Changed(s, a, {v})
    BY <2>1, <2>2, TakenOutMid
  <2>5. InTime(a, H, y, r) /\ (\A w : Steady(s, a, w)) /\ Alters(s, a, v)
    BY <2>1, <2>2, TakenOutTime
  <2> HIDE DEF a
  <2>6. a.vb[v].at = "none" /\ a.pending = None /\ ~a.unflip /\ a.cur.pixmap # None
    BY <2>1, <2>3, <2>4 DEF Changed, Vblank
  <2>7. Good(u, H, y, C) /\ \A w : Kept(a, u, w)
    BY <2>1, <2>4, <2>6, UnflippedGood
  <2>8. u.vb[v].at = "none"
    <3>1. Kept(a, u, None) /\ v # None
      BY <2>7, Names
    <3> QED
      BY <2>6, <3>1 DEF Kept
  <2>9. \A x \in H : a.vb[x].at # "flip"
    BY <2>5, <2>6 DEF Alters
  <2>10. InTime(u, H, y, r) /\ \A w : Steady(a, u, w)
    BY <2>1, <2>4, <2>5, <2>6, <2>9, UnflippedTime
  <2>11. Events(v, u.due) = Events(v, s.due)
    <3>1. Steady(a, u, None) /\ v # None
      BY <2>10, Names
    <3> QED
      BY <2>5, <2>6, <3>1 DEF Steady, Alters
  <2>12. Kept(s, u, v) /\ Steady(s, u, v)
    BY <2>4, <2>5, <2>7, <2>10, KeptTwice, SteadyTwice
  <2> QED
    BY <2>7, <2>8, <2>10, <2>11, <2>12
<1>2. t \in Executed(s, v, now, U)
  BY DEF Execute
<1> HIDE DEF U
<1> QED
  BY <1>1, <1>2, ExecutedTime

LEMMA TryReadyTime ==
    ASSUME NEW s, NEW C, Good(s, {}, None, C), NEW r, InTime(s, {}, None, r), Now(msc),
           NEW t \in TryReady(s)
    PROVE  InTime(t, {}, None, r)
<1>1. CASE t = s
  BY <1>1
<1>2. ASSUME NEW v \in FirstToFlip(s), t \in Execute(s, v, msc)
      PROVE  InTime(t, {}, None, r)
  <2>1. \A x \in {} : s.vb[x].at # "flip"
    OBVIOUS
  <2>2. /\ v \in Ids /\ s.vb[v].at = "flip" /\ Ripe(s.vb[v], Events(v, s.due), msc)
    <3> DEFINE H == {}
    <3>1. Good(s, H, None, C) /\ InTime(s, H, None, r) /\ \A x \in H : s.vb[x].at # "flip"
      BY <2>1
    <3> HIDE DEF H
    <3> QED
      BY <3>1, FirstIsRipe
  <2> DEFINE G == {v}
  <2>3. Good(s, G, None, C) /\ InTime(s, G, None, r) /\ v \in G /\ G \subseteq Ids
    BY <2>2, MoreGood, MoreInTime
  <2>4. G \ {v} = {} /\ \A x \in G \ {v} : s.vb[x].at # "flip"
    OBVIOUS
  <2> HIDE DEF G
  <2>5. InTime(t, G \ {v}, None, r)
    BY <1>2, <2>2, <2>3, <2>4, ExecuteTime
  <2> QED
    BY <2>4, <2>5
<1> QED
  BY <1>1, <1>2 DEF TryReady

\* A flip that is reported is the last one, if the driver never refuses events.
LEMMA ReportedTime ==
    ASSUME NEW s, NEW C, Good(s, {}, None, C), NEW v \in Ids, v = s.pending, NEW r,
           \A u \in Ids : Fares(s, u, {v}, None, r),
           "queue" \notin Refusals => s.flips = {}
    PROVE  InTime(Reported(s, v), {v}, v, r)
<1> DEFINE f == FlipIdle(s)
           b == [f.vb[v] EXCEPT !.at = "none"]
           g == [f.vb EXCEPT ![v] = b]
           k == [window |-> s.vb[v].window, pixmap |-> v]
           t == Reported(s, v)
<1>0. Mid(s, {}, None, C) /\ None \in C /\ Typed(s) /\ v # None /\ Drawn(s)
  BY Names DEF Good, Mid
<1>1. ~s.unflip
  BY <1>0 DEF Mid, OneWay
<1>2. Mid(f, {}, None, C)
  BY <1>0, <1>1, FlipIdleMid
<1>3. Unmoved(s, f)
  BY <1>0, SmallSteps
<1>4. t = [f EXCEPT !.cur = k, !.pending = None, !.vb = g]
  BY DEF Reported
<1> HIDE DEF f, k
<1>5. /\ b.at = "none" /\ b.pixmap = f.vb[v].pixmap /\ b.target = f.vb[v].target
      /\ b.exec = f.vb[v].exec /\ b.sync = f.vb[v].sync /\ b.flip = f.vb[v].flip
      /\ b.mode = f.vb[v].mode /\ b.refused = f.vb[v].refused
  <2>1. f.vb[v] \in Vblank
    BY <1>2 DEF Mid, Typed
  <2> QED
    BY <2>1 DEF Vblank
<1> HIDE DEF b
<1>6. g[v] = b /\ \A u \in Ids \ {v} : g[u] = f.vb[u]
  BY <1>2 DEF Mid, Typed
<1> HIDE DEF g, t
<1>7. t.vb = g /\ t.pending = None /\ t.due = f.due /\ t.flips = f.flips
  BY <1>2, <1>4 DEF Mid, Typed
<1>8. ASSUME NEW u \in Ids PROVE Fares(t, u, {v}, v, r)
  <2>1. Fares(f, u, {v}, None, r)
    <3> DEFINE H == {v}
    <3>1. Fares(s, u, H, None, r) /\ Same(s, f, u)
      BY <1>3 DEF Unmoved
    <3> HIDE DEF H
    <3>2. Fares(f, u, H, None, r)
      BY <3>1, SameFares
    <3> QED
      BY <3>2 DEF H
  <2>2. CASE u # v
    BY <1>6, <1>7, <2>1, <2>2, Names DEF Fares
  <2>3. CASE u = v
    BY <1>5, <1>6, <1>7, <2>1, <2>3 DEF Fares, Planned
  <2> QED
    BY <2>2, <2>3
<1>9. Flown(t)
  BY <1>3, <1>7 DEF Flown, Unmoved
<1> QED
  BY <1>8, <1>9 DEF InTime, t

LEMMA FlipNotifyTime ==
    ASSUME NEW s, NEW C, Good(s, {}, None, C), NEW v \in Ids, v = s.pending, NEW r,
           \A u \in Ids : Fares(s, u, {v}, None, r),
           "queue" \notin Refusals => s.flips = {}, Now(msc),
           NEW t \in FlipNotify(s, v)
    PROVE  InTime(t, {}, None, r)
<1> DEFINE b == s.vb[v]
           a == Reported(s, v)
           End(u) == IF b.window = None THEN Destroyed(u, {v}, "dropped") ELSE Post(u, v, "flip")
<1>1. PICK u \in (IF b.abort THEN Unflipped(a) ELSE {a}) : t \in TryReady(End(u))
  BY DEF FlipNotify, Reported
<1>2. /\ Mid(a, {v}, v, C) /\ (~b.abort => Shown(a, C)) /\ Kept(s, a, v) /\ None \in C
      /\ a.pending = None /\ ~a.unflip /\ a.cur.pixmap # None
  BY ReportedMid DEF Good
<1>3. InTime(a, {v}, v, r) /\ a.vb[v].at = "none"
  BY <1>2, ReportedTime DEF Mid, Request, Lives
<1>4. Good(u, {v}, v, C) /\ InTime(u, {v}, v, r)
  <2> HIDE DEF a
  <2>1. CASE b.abort
    <3>1. u \in Unflipped(a)
      BY <1>1, <2>1
    <3> DEFINE H == {v}
    <3>2. /\ Mid(a, H, v, C) /\ InTime(a, H, v, r) /\ H \subseteq Ids
          /\ msc \in Nat /\ \A x \in H : a.vb[x].at # "flip"
      BY <1>2, <1>3 DEF Good
    <3> HIDE DEF H
    <3>3. Good(u, H, v, C) /\ InTime(u, H, v, r)
      BY <1>2, <3>1, <3>2, UnflippedGood, UnflippedTime
    <3> QED
      BY <3>3 DEF H
  <2>2. CASE ~b.abort
    BY <1>1, <1>2, <1>3, <2>2 DEF Good
  <2> QED
    BY <2>1, <2>2
<1>5. /\ u.vb[v].at = "none" /\ u.vb[v].completed = 0
      /\ u.vb[v].idled = (IF u.cur.pixmap = v THEN 0 ELSE 1)
      /\ Mid(u, {v}, v, C) /\ Typed(u) /\ InOrder(u) /\ None \in C /\ Shown(u, C)
  BY <1>4 DEF Good, Mid, Request, Lives
<1> HIDE DEF a
<1>6. {v} \ {v} = {}
  OBVIOUS
<1>7. Good(End(u), {}, None, C) /\ InTime(End(u), {}, None, r)
  <2>1. CASE b.window = None
    <3> DEFINE d == Destroyed(u, {v}, "dropped")
    <3>1. /\ (\A D : Shown(u, D) => Shown(d, D)) /\ Changed(u, d, {v})
          /\ \A x \in Ids \cap {v} : d.vb[x] = Remains(u.vb[x], "dropped")
      BY <1>5, DestroyedFields
    <3>2. Mid(d, {v} \ {v}, None, C)
      <4>1. \A x \in Ids \cap {v} :
               /\ u.vb[x].at # "pending" /\ u.vb[x].completed = IF "dropped" = "gone" THEN 1 ELSE 0
               /\ u.vb[x].idled = (IF u.cur.pixmap = x THEN 0 ELSE 1)
                  \/ ("dropped" = "dropped" /\ u.vb[x].idled = 0)
        BY <1>5
      <4>2. None \notin {v} /\ v \in {v} /\ "dropped" \in {"gone", "dropped"}
        BY Names
      <4> QED
        BY <1>5, <4>1, <4>2, DestroyedMid
    <3> HIDE DEF d
    <3>3. /\ d.vb[v].at = "dropped" /\ ~d.vb[v].pixmap /\ d.vb[v].mode = u.vb[v].mode
          /\ d.vb[v].refused = u.vb[v].refused
      <4>1. u.vb[v] \in Vblank
        BY <1>5 DEF Typed
      <4> QED
        BY <3>1, <4>1, RemainsFields
    <3>4. Fares(d, v, {}, None, r)
      <4>1. Fares(u, v, {v}, v, r)
        BY <1>4 DEF InTime
      <4>2. Planned(d.vb[v], v, r)
        BY <3>3, <4>1 DEF Fares, Planned
      <4>3. Timed(d.vb[v], Events(v, d.due))
        BY <3>3 DEF Timed
      <4> QED
        BY <3>3, <4>1, <4>2, <4>3 DEF Fares
    <3>5. InTime(d, {}, None, r)
      <4>1. Alters(u, d, v)
        BY <3>1, ChangedAlters
      <4>2. \A x \in Ids \ {v} : Same(u, d, x)
        BY <4>1 DEF Alters, Same
      <4>3. Flown(d)
        BY <1>4, <4>1 DEF InTime, Flown, Alters
      <4>4. ASSUME NEW x \in Ids PROVE Fares(d, x, {}, None, r)
        <5>1. CASE x = v
          BY <3>4, <5>1
        <5>2. CASE x # v
          <6> DEFINE H == {v}
                     G == {}
          <6>1. Fares(u, x, H, v, r) /\ Same(u, d, x) /\ x \notin H
            BY <1>4, <4>2, <5>2 DEF InTime
          <6> HIDE DEF H, G
          <6>2. Fares(d, x, G, None, r)
            BY <5>2, <6>1, SameFares
          <6> QED
            BY <6>2 DEF G
        <5> QED
          BY <5>1, <5>2
      <4> QED
        BY <4>3, <4>4 DEF InTime
    <3>6. End(u) = d
      BY <2>1 DEF d
    <3> QED
      BY <1>5, <1>6, <3>1, <3>2, <3>5, <3>6 DEF Good
  <2>2. CASE b.window # None
    <3> DEFINE d == Post(u, v, "flip")
    <3>1. Mid(d, {v} \ {v}, None, C) /\ (\A D : Shown(u, D) => Shown(d, D)) /\ Kept(u, d, v)
      <4>1. v \in {v} /\ "flip" \in {"copy", "skip", "flip"} /\ None = IF v = v THEN None ELSE v
        OBVIOUS
      <4> QED
        BY <1>5, <4>1, PostMid
    <3>2. InTime(d, {v} \ {v}, None, r)
      <4> DEFINE H == {v}
      <4>1. InTime(u, H, v, r)
        BY <1>4
      <4> HIDE DEF H
      <4>2. InTime(d, H \ {v}, IF v = v THEN None ELSE v, r)
        BY <1>5, <4>1, PostTime
      <4> HIDE DEF d
      <4>3. InTime(d, H \ {v}, None, r)
        BY <4>2
      <4> QED
        BY <4>3 DEF H
    <3> HIDE DEF d
    <3>3. End(u) = d
      BY <2>2 DEF d
    <3> QED
      BY <1>5, <1>6, <3>1, <3>2, <3>3 DEF Good
  <2> QED
    BY <2>1, <2>2
<1> HIDE DEF End
<1> QED
  BY <1>1, <1>7, TryReadyTime

-----------------------------------------------------------------------------
(* What calls the screen: the driver.                                      *)

LEMMA EventNotifyTime ==
    ASSUME NEW s, NEW C, NEW v \in Ids, Good(s, {v}, None, C),
           s.vb[v].at # "exec" => Good(s, {}, None, C), NEW r,
           \A u \in Ids : Fares(s, u, {v}, None, r),
           NEW now, Now(now), Now(msc),
           v \in Queued(s) => Flown(s) /\ Ripe(s.vb[v], Events(v, s.due), now),
           v = s.pending => ("queue" \notin Refusals => s.flips = {}),
           v \notin Queued(s) /\ v # s.pending => InTime(s, {}, None, r),
           NEW t \in EventNotify(s, v, now)
    PROVE  InTime(t, {}, None, r)
<1>1. CASE v \in Queued(s)
  <2> DEFINE H == {v}
  <2>1. t \in Execute(s, v, now) /\ s.vb[v].at \in {"exec", "flip", "pending"} /\ v \in H
    BY <1>1 DEF EventNotify, Queued
  <2>2. Good(s, H, None, C) /\ InTime(s, H, None, r) /\ H \subseteq Ids
    BY <1>1 DEF InTime
  <2>3. H \ {v} = {} /\ \A x \in H \ {v} : s.vb[x].at # "flip"
    OBVIOUS
  <2> HIDE DEF H
  <2>4. InTime(t, H \ {v}, None, r)
    BY <1>1, <2>1, <2>2, <2>3, ExecuteTime
  <2> QED
    BY <2>3, <2>4
<1>2. CASE v \notin Queued(s)
  <2>1. Good(s, {}, None, C)
    BY <1>2 DEF Queued
  <2>2. CASE v = s.pending
    BY <1>2, <2>1, <2>2, FlipNotifyTime DEF EventNotify
  <2>3. CASE v # s.pending
    BY <1>2, <2>3 DEF EventNotify
  <2> QED
    BY <2>2, <2>3
<1> QED
  BY <1>1, <1>2

-----------------------------------------------------------------------------
(* Windows that are reconfigured.                                          *)

\* A request that does not flip any more is executed at most a frame later.
LEMMA UnplannedTime ==
    ASSUME NEW s, Typed(s), NEW r, InTime(s, {}, None, r), msc \in Nat, NEW w, NEW whole
    PROVE  InTime(Unplanned(s, w, whole), {}, None, r)
<1> DEFINE t == Unplanned(s, w, whole)
<1>1. CASE CheckFlip(s, w, whole)
  BY <1>1 DEF Unplanned
<1>2. CASE ~CheckFlip(s, w, whole)
  <2> DEFINE T == {v \in Ids : v \in Queued(s) /\ s.vb[v].window = w /\ s.vb[v].flip}
             un(b) == [b EXCEPT !.flip = FALSE, !.exec = IF b.sync THEN b.target ELSE @]
             g == [v \in Ids |-> IF v \in T THEN un(s.vb[v]) ELSE s.vb[v]]
             H == {}
  <2>1. t = [s EXCEPT !.vb = g]
    BY <1>2 DEF Unplanned
  <2>2. ASSUME NEW b \in Vblank
        PROVE  /\ ~un(b).flip /\ un(b).exec = (IF b.sync THEN b.target ELSE b.exec)
               /\ un(b).at = b.at /\ un(b).pixmap = b.pixmap /\ un(b).callback = b.callback
               /\ un(b).target = b.target /\ un(b).sync = b.sync
               /\ un(b).refused = b.refused /\ un(b).mode = b.mode
    BY DEF Vblank
  <2> HIDE DEF t, un
  <2>3. /\ \A v \in Ids \cap T : g[v] = un(s.vb[v])
        /\ \A v \in Ids \ T : g[v] = s.vb[v]
        /\ \A v \in T : v \in Ids /\ s.vb[v].at \in {"exec", "flip"} /\ s.vb[v].flip
    BY DEF Queued
  <2> HIDE DEF g, T
  <2>4. t.vb = g /\ t.pending = s.pending /\ t.due = s.due /\ t.flips = s.flips
    BY <2>1 DEF Typed
  <2>5. ASSUME NEW v \in Ids \ T PROVE Same(s, t, v)
    BY <2>3, <2>4 DEF Same
  <2>6. ASSUME NEW v \in Ids \cap T PROVE Fares(t, v, H, None, r)
    <3> DEFINE b == s.vb[v]
               c == t.vb[v]
               E == Events(v, s.due)
    <3>1. /\ Fares(s, v, H, None, r) /\ v \notin H /\ b.at \in {"exec", "flip"} /\ b.flip
          /\ Events(v, t.due) = E
      BY <2>3, <2>4, <2>6 DEF InTime
    <3>2. /\ ~c.flip /\ c.exec = (IF b.sync THEN b.target ELSE b.exec)
          /\ c.at = b.at /\ c.pixmap = b.pixmap /\ c.callback = b.callback
          /\ c.target = b.target /\ c.sync = b.sync
          /\ c.refused = b.refused /\ c.mode = b.mode
      <4>1. c = un(b) /\ b \in Vblank
        BY <2>3, <2>4, <2>6 DEF Typed
      <4> QED
        BY <2>2, <4>1
    <3>3. b.exec \in Int /\ b.target \in Int /\ \A e \in E : e.msc \in Int
      BY NumberFacts
    <3> HIDE DEF b, c, E, H
    <3>4. Planned(b, v, r) /\ Timed(b, E)
      BY <3>1 DEF Fares, b, E
    <3>5. Planned(c, v, r) /\ (c.pixmap => c.exec <= b.exec + 1)
      BY <3>1, <3>2, <3>3, <3>4 DEF Planned
    <3>6. Timed(c, E)
      BY <3>1, <3>2, <3>3, <3>4, <3>5 DEF Timed
    <3> QED
      BY <2>4, <3>1, <3>2, <3>5, <3>6 DEF Fares, b, c
  <2>7. Flown(t)
    BY <2>4 DEF InTime, Flown
  <2>8. InTime(s, H, None, r)
    OBVIOUS
  <2> HIDE DEF H
  <2>9. InTime(t, H, None, r)
    BY <2>5, <2>6, <2>7, <2>8, TimeChange
  <2> QED
    BY <2>9 DEF H, t
<1> QED
  BY <1>1, <1>2

LEMMA MissedUnmoved ==
    ASSUME NEW s, Typed(s), NEW M
    PROVE  Unmoved(s, Missed(s, M))
<1> DEFINE t == Missed(s, M)
<1>1. t.vb = s.vb /\ t.pending = s.pending /\ t.due = s.due /\ t.flips = s.flips
  BY DEF Typed, Missed
<1> HIDE DEF t
<1>2. Unmoved(s, t)
  BY <1>1 DEF Unmoved, Same
<1> QED
  BY <1>2 DEF t

LEMMA CheckFlipWindowTime ==
    ASSUME NEW s, NEW C, Good(s, {}, None, C), NEW w \in Living(s), NEW whole,
           NEW r, InTime(s, {}, None, r), Now(msc), NEW t \in CheckFlipWindow(s, w, whole)
    PROVE  InTime(t, {}, None, r)
<1> DEFINE H == {}
<1>0. /\ Typed(s) /\ Mid(s, H, None, C) /\ Drawn(s) /\ None \in C /\ InTime(s, H, None, r)
      /\ msc \in Nat /\ w # None
  BY Names DEF Good, Mid, Now, Typed, Living
<1>1. CASE s.unflip
  <2>1. t = Missed(s, s.missed \cup {w})
    BY <1>1 DEF CheckFlipWindow, Missed
  <2>2. Unmoved(s, t)
    BY <1>0, <2>1, MissedUnmoved
  <2> HIDE DEF H
  <2>3. InTime(t, H, None, r)
    BY <1>0, <2>2, UnmovedTime
  <2> QED
    BY <2>3 DEF H
<1>2. CASE ~s.unflip
  <2>1. PICK u \in Unshown(s, w, whole) :
           \E M : t = Missed(Unplanned(u, w, whole), M)
    <3>1. PICK u \in Unshown(s, w, whole) :
             t = Missed(Unplanned(u, w, whole),
                        IF FlippedMeanwhile(s, u, w) THEN Unplanned(u, w, whole).missed \cup {w}
                        ELSE Unplanned(u, w, whole).missed \ {w})
      BY <1>2 DEF CheckFlipWindow, Missed
    <3> QED
      BY <3>1
  <2>2. \/ u = s
        \/ u = AbortFlip(s) /\ s.pending # None
        \/ u \in Unflipped(s) /\ s.pending = None /\ s.cur.window = w
    BY DEF Unshown
  <2>3. Mid(u, {}, None, C) /\ Typed(u) /\ InTime(u, {}, None, r)
    <3>1. CASE u = s
      BY <1>0, <3>1
    <3>2. CASE u = AbortFlip(s) /\ s.pending # None
      <4>1. Mid(u, {}, None, C) /\ Unmoved(s, u)
        BY <1>0, <3>2, AbortMid, SmallSteps
      <4> HIDE DEF H
      <4>2. InTime(u, H, None, r)
        BY <1>0, <4>1, UnmovedTime
      <4> QED
        BY <4>1, <4>2 DEF H, Mid
    <3>3. CASE u \in Unflipped(s) /\ s.pending = None /\ s.cur.window = w
      <4>1. H \subseteq Ids /\ \A x \in H : s.vb[x].at # "flip"
        OBVIOUS
      <4> HIDE DEF H
      <4>2. InTime(u, H, None, r)
        BY <1>0, <1>2, <3>3, <4>1, UnflippedTime
      <4>3. s.cur.pixmap # None \/ s.cur.window = None
        BY <1>0 DEF Mid, OneWay
      <4>4. s.cur.pixmap # None => Good(u, H, None, C)
        BY <1>0, <1>2, <3>3, UnflippedGood
      <4>5. Good(u, H, None, C)
        BY <1>0, <3>3, <4>3, <4>4
      <4> QED
        BY <4>2, <4>5 DEF H, Good, Mid
    <3> QED
      BY <2>2, <3>1, <3>2, <3>3
  <2> DEFINE p == Unplanned(u, w, whole)
  <2>4. Typed(p) /\ InTime(p, H, None, r)
    BY <1>0, <2>3, UnplannedMid, UnplannedTime DEF Mid
  <2>5. PICK M : t = Missed(p, M)
    BY <2>1
  <2> HIDE DEF p, H
  <2>6. Unmoved(p, t)
    BY <2>4, <2>5, MissedUnmoved
  <2>7. InTime(t, H, None, r)
    BY <2>4, <2>6, UnmovedTime
  <2> QED
    BY <2>7 DEF H
<1> QED
  BY <1>1, <1>2

\* Requests that go with their window show nothing any more.
LEMMA DroppedTime ==
    ASSUME NEW s, Typed(s), InOrder(s), NEW r, InTime(s, {}, None, r), NEW T, None \notin T
    PROVE  InTime(Unsent(Destroyed(s, T, "dropped"), T), {}, None, r)
<1> DEFINE d == Destroyed(s, T, "dropped")
           t == Unsent(d, T)
           E == {e \in d.due : e.id \notin T}
           H == {}
<1>1. /\ Changed(s, d, T)
      /\ \A v \in Ids \cap T : d.vb[v] = Remains(s.vb[v], "dropped")
  BY DestroyedFields
<1>2. t = [d EXCEPT !.due = E]
  BY DEF Unsent
<1>3. \A v \in Ids \ T : \A e : e \in E /\ e.id = v <=> e \in d.due /\ e.id = v
  OBVIOUS
<1> HIDE DEF d, t, E, H
<1>4. t.vb = d.vb /\ t.pending = s.pending /\ t.due = E /\ t.flips = s.flips /\ d.due = s.due
  BY <1>1, <1>2 DEF Changed, Typed
<1>5. ASSUME NEW v \in Ids \ T PROVE Same(s, t, v)
  <2>1. Events(v, t.due) = Events(v, s.due)
    BY <1>3, <1>4 DEF Events
  <2> QED
    BY <1>1, <1>4, <2>1 DEF Same, Changed
<1>6. ASSUME NEW v \in Ids \cap T PROVE Fares(t, v, H, None, r)
  <2>1. /\ t.vb[v].at = "dropped" /\ ~t.vb[v].pixmap /\ t.vb[v].mode = s.vb[v].mode
        /\ t.vb[v].refused = s.vb[v].refused
    <3>1. s.vb[v] \in Vblank
      BY DEF Typed
    <3> QED
      BY <1>1, <1>4, <3>1, RemainsFields
  <2>2. Fares(s, v, H, None, r)
    BY DEF InTime, H
  <2>3. Planned(t.vb[v], v, r)
    BY <2>1, <2>2 DEF Fares, Planned
  <2>4. Timed(t.vb[v], Events(v, t.due))
    BY <2>1 DEF Timed
  <2> QED
    BY <2>1, <2>2, <2>3, <2>4 DEF Fares
<1>7. Flown(t)
  BY <1>4 DEF InTime, Flown
<1>8. InTime(s, H, None, r)
  BY DEF H
<1>9. InTime(t, H, None, r)
  BY <1>5, <1>6, <1>7, <1>8, TimeChange
<1> QED
  BY <1>9 DEF H, t, d

LEMMA ClearWindowFlipUnmoved ==
    ASSUME NEW s, NEW C, Good(s, {}, None, C), NEW w
    PROVE  Unmoved(s, ClearWindowFlip(s, w))
<1> DEFINE flips == s.pending # None /\ s.vb[s.pending].window = w
           p == s.pending
           a == AbortFlip(s)
           b == [a.vb[p] EXCEPT !.window = None]
           x == With(a, p, b)
           t == IF flips THEN x ELSE s
<1>0. Mid(s, {}, None, C) /\ None \in C /\ Typed(s) /\ Drawn(s)
  BY DEF Good, Mid
<1>1. Unmoved(s, t) /\ Mid(t, {}, None, C)
  <2>1. CASE ~flips
    BY <1>0, <2>1 DEF Unmoved, Same
  <2>2. CASE flips
    <3>1. p \in Ids /\ p # None
      BY <1>0, <2>2 DEF Typed
    <3>2. Mid(a, {}, None, C) /\ a.pending = p /\ Unmoved(s, a) /\ a.vb[p] \in Vblank
      BY <1>0, <3>1, AbortMid, SmallSteps DEF Mid, Typed
    <3>3. t = x
      BY <2>2
    <3> HIDE DEF a, p, t
    <3>4. /\ b.at = a.vb[p].at /\ b.pixmap = a.vb[p].pixmap /\ b.target = a.vb[p].target
          /\ b.exec = a.vb[p].exec /\ b.sync = a.vb[p].sync /\ b.flip = a.vb[p].flip
          /\ b.callback = a.vb[p].callback /\ b.refused = a.vb[p].refused
          /\ b.mode = a.vb[p].mode
      BY <3>2 DEF Vblank
    <3>5. b = [a.vb[p] EXCEPT !.window = None]
      OBVIOUS
    <3> HIDE DEF b
    <3>6. Mid(x, {}, None, C)
      BY <1>0, <3>1, <3>2, <3>5, WindowlessMid
    <3>7. Alters(a, x, p) /\ x.vb[p] = b
      BY <3>1, <3>2, WithAlters DEF Mid
    <3> HIDE DEF x
    <3>8. Unmoved(a, x)
      BY <3>4, <3>7 DEF Unmoved, Same, Alters
    <3> QED
      BY <3>2, <3>3, <3>6, <3>8, UnmovedTwice
  <2> QED
    BY <2>1, <2>2
<1>2. ClearWindowFlip(s, w) = IF t.cur.window = w THEN Unowned(Restored(t)) ELSE t
  BY DEF ClearWindowFlip, With, Unowned
<1> HIDE DEF t
<1> DEFINE q == Restored(t)
           u == Unowned(q)
<1>3. Unmoved(s, q) /\ Typed(q)
  BY <1>0, <1>1, RestoredMid, SmallSteps, UnmovedTwice DEF Mid
<1> HIDE DEF q
<1>4. u.vb = q.vb /\ u.pending = q.pending /\ u.due = q.due /\ u.flips = q.flips
  BY <1>3 DEF Unowned, Typed
<1> HIDE DEF u
<1>5. Unmoved(s, u)
  <2>1. Unmoved(q, u)
    BY <1>4 DEF Unmoved, Same
  <2> QED
    BY <1>3, <2>1, UnmovedTwice
<1>6. ClearWindowFlip(s, w) = u \/ ClearWindowFlip(s, w) = t
  BY <1>2 DEF u, q
<1> QED
  BY <1>1, <1>5, <1>6

LEMMA WindowGoneTime ==
    ASSUME NEW s, NEW C, Good(s, {}, None, C), NEW w \in Living(s),
           NEW r, InTime(s, {}, None, r)
    PROVE  InTime(WindowGone(s, w), {}, None, r)
<1> DEFINE T == WindowRequests(s, w)
           d == Destroyed(s, T, "dropped")
           u == Unsent(d, T)
           c == ClearWindowFlip(u, w)
           t == Unliving(c, w)
           H == {}
<1>0. /\ Mid(s, {}, None, C) /\ Shown(s, C) /\ None \in C /\ w # None
      /\ Typed(s) /\ InOrder(s) /\ "dropped" \in {"gone", "dropped"}
  BY Names DEF Good, Living, Mid, Typed
<1>1. WindowGone(s, w) = t
  BY DEF WindowGone, Unliving, Unsent
<1>2. \A v \in Ids : v \in T => s.vb[v].at \in {"exec", "flip"}
  BY DEF WindowRequests, Queued
<1>3. None \notin T
  BY Names DEF WindowRequests, Queued
<1> HIDE DEF T
<1>4. ASSUME NEW v \in Ids \cap T
      PROVE  /\ s.vb[v].at # "pending" /\ s.vb[v].at # "none"
             /\ s.vb[v].completed = IF "dropped" = "gone" THEN 1 ELSE 0
             /\ s.vb[v].idled = (IF s.cur.pixmap = v THEN 0 ELSE 1)
                \/ ("dropped" = "dropped" /\ s.vb[v].idled = 0)
  <2>1. Lives(s.vb[v], v, s.pending, s.cur.pixmap, None) /\ s.vb[v].at \in {"exec", "flip"}
    BY <1>0, <1>2 DEF Mid, Request
  <2>2. s.cur.pixmap # v
    BY <2>1, Names DEF Lives
  <2>3. s.vb[v].idled = 1 \/ s.vb[v].idled = 0
    BY <2>1 DEF Lives
  <2>4. s.vb[v].completed = 0
    BY <2>1 DEF Lives
  <2> QED
    BY <2>1, <2>2, <2>3, <2>4
<1>5. Mid(d, {} \ T, None, C)
  BY <1>0, <1>3, <1>4, DestroyedMid
<1>6. /\ \A v \in Ids \cap T : d.vb[v] = Remains(s.vb[v], "dropped")
      /\ \A D : Shown(s, D) => Shown(d, D)
  BY <1>0, DestroyedFields
<1>7. \A v \in Ids \cap T : d.vb[v].at # "exec"
  BY <1>0, <1>6, RemainsFields DEF Typed
<1>8. InTime(u, {}, None, r)
  BY <1>0, <1>3, DroppedTime
<1> HIDE DEF d
<1>9. Good(u, {}, None, C)
  <2>1. {} \ T = {}
    OBVIOUS
  <2>2. Mid(d, {}, None, C)
    BY <1>5, <2>1
  <2>3. Mid(u, {}, None, C) /\ Shown(u, C)
    BY <1>0, <1>6, <1>7, <2>2, UnsentMid
  <2> QED
    BY <1>0, <2>3 DEF Good
<1> HIDE DEF u
<1>10. Unmoved(u, c)
  BY <1>9, ClearWindowFlipUnmoved
<1>11. Typed(c)
  <2>1. Kept(s, d, None) /\ Kept(d, u, None)
    <3>1. \A x \in T : x = None \/ s.vb[x].at # "none"
      BY <1>4 DEF T, WindowRequests, Queued
    <3>2. Kept(s, d, None)
      BY <1>0, <3>1, DestroyedFields DEF d
    <3>3. {} \ T = {}
      OBVIOUS
    <3>4. Mid(d, {}, None, C)
      BY <1>5, <3>3
    <3> QED
      BY <1>7, <3>2, <3>4, UnsentMid DEF u
  <2>2. w \in Living(u)
    BY <2>1 DEF Kept, Living
  <2>3. Good(c, {}, None, C)
    BY <1>9, <2>2, ClearWindowFlipGood
  <2> QED
    BY <2>3 DEF Good, Mid
<1> HIDE DEF c
<1>12. t.vb = c.vb /\ t.pending = c.pending /\ t.due = c.due /\ t.flips = c.flips
  BY <1>11 DEF Unliving, Typed
<1> HIDE DEF t
<1>13. Unmoved(u, t)
  <2>1. Unmoved(c, t)
    BY <1>12 DEF Unmoved, Same
  <2> QED
    BY <1>10, <2>1, UnmovedTwice
<1>14. InTime(u, H, None, r)
  BY <1>8
<1> HIDE DEF H
<1>15. InTime(t, H, None, r)
  BY <1>13, <1>14, UnmovedTime
<1> QED
  BY <1>1, <1>15 DEF H

-----------------------------------------------------------------------------
(* Requests.                                                               *)

LEMMA ScrapTimeFields ==
    ASSUME NEW b \in Vblank
    PROVE  /\ Scrap(b).at = b.at /\ ~Scrap(b).pixmap /\ Scrap(b).mode = b.mode
           /\ Scrap(b).refused = b.refused /\ Scrap(b) \in Vblank
           /\ Skipped(b).at = "gone" /\ ~Skipped(b).pixmap /\ Skipped(b).mode = "skip"
           /\ Skipped(b).refused = b.refused
<1> DEFINE c == Scrap(b)
           r == Remains(c, "gone")
           n == r.completed + 1
           d == Skipped(b)
<1>1. c \in Vblank /\ c.at = b.at /\ ~c.pixmap /\ c.mode = b.mode
  BY ScrapFields
<1>2. c.refused = b.refused
  BY DEF Scrap, Vblank
<1> HIDE DEF c
<1>3. r \in Vblank /\ r.at = "gone" /\ ~r.pixmap /\ r.refused = c.refused
  BY <1>1, RemainsFields
<1>4. d = [r EXCEPT !.completed = n, !.mode = "skip"]
  BY <1>3 DEF Skipped, Skip, Vblank, c
<1> HIDE DEF d, r, n
<1>5. d.at = "gone" /\ ~d.pixmap /\ d.mode = "skip" /\ d.refused = r.refused
  BY <1>3, <1>4 DEF Vblank
<1> QED
  BY <1>1, <1>2, <1>3, <1>5 DEF c, d

\* The requests of T are scrapped: some wait for fences, some are done, and the
\* events of N are for some.
Scrapping(s, T, waiting, over, N) ==
    /\ T \subseteq Ids /\ waiting \subseteq T /\ over \subseteq T /\ waiting \cap over = {}
    /\ \A v \in T : s.vb[v].at \in {"exec", "flip"}
    /\ \A e \in N : e.id \in T

\* Requests that are overwritten show nothing any more.
LEMMA ScrapsTime ==
    ASSUME NEW s, Typed(s), NEW r, InTime(s, {}, None, r),
           NEW T, NEW waiting, NEW over, NEW N, Scrapping(s, T, waiting, over, N),
           NEW t, t = Owed(Scraps(s, T, waiting, over), N)
    PROVE  /\ InTime(t, {}, None, r)
           /\ \A u \in Ids \ T : t.vb[u] = s.vb[u] /\ Events(u, t.due) = Events(u, s.due)
<1> DEFINE a == Scraps(s, T, waiting, over)
           D == s.due \cup N
           H == {}
<1>0. /\ T \subseteq Ids /\ waiting \subseteq T /\ over \subseteq T /\ waiting \cap over = {}
      /\ \A v \in T : s.vb[v].at \in {"exec", "flip"}
      /\ \A e \in N : e.id \in T
      /\ t = Owed(a, N)
  BY DEF Scrapping
<1> HIDE DEF D, H
<1>1. /\ a.queue = Without(s.queue, over) /\ DOMAIN a.vb = Ids
      /\ a.vb = [v \in Ids |-> a.vb[v]]
      /\ \A v \in Ids :
            a.vb[v] = IF v \in waiting
                      THEN [(IF v \in T THEN Scrap(s.vb[v]) ELSE s.vb[v])
                                EXCEPT !.callback = TRUE]
                      ELSE IF v \in over THEN Skipped(s.vb[v])
                      ELSE IF v \in T THEN Scrap(s.vb[v]) ELSE s.vb[v]
      /\ a.pending = s.pending /\ a.unflip = s.unflip
      /\ a.cur = s.cur /\ a.pix = s.pix /\ a.due = s.due /\ a.flips = s.flips
      /\ a.missed = s.missed
      /\ a = [vb |-> a.vb, queue |-> a.queue, pending |-> a.pending,
              unflip |-> a.unflip, cur |-> a.cur, pix |-> a.pix, due |-> a.due,
              flips |-> a.flips, missed |-> a.missed]
  BY <1>0, ScrapsFields
<1> HIDE DEF a
<1>2. t = [a EXCEPT !.due = D]
  BY <1>0, <1>1 DEF Owed, D
<1>3. \A u \in Ids \ T : \A e : e \in D /\ e.id = u <=> e \in s.due /\ e.id = u
  BY <1>0 DEF D
<1>4. t.vb = a.vb /\ t.pending = s.pending /\ t.due = D /\ t.flips = s.flips
  BY <1>1, <1>2
<1>5. ASSUME NEW u \in Ids \ T
      PROVE  t.vb[u] = s.vb[u] /\ Events(u, t.due) = Events(u, s.due) /\ Same(s, t, u)
  <2>1. t.vb[u] = s.vb[u]
    BY <1>0, <1>1, <1>4
  <2>2. Events(u, t.due) = Events(u, s.due)
    BY <1>3, <1>4 DEF Events
  <2> QED
    BY <1>4, <2>1, <2>2 DEF Same
<1>6. ASSUME NEW v \in Ids \cap T PROVE Fares(t, v, H, None, r)
  <2> DEFINE b == s.vb[v]
             c == Scrap(b)
             d == t.vb[v]
  <2>1. /\ c.at = b.at /\ ~c.pixmap /\ c.mode = b.mode /\ c.refused = b.refused /\ c \in Vblank
        /\ Skipped(b).at = "gone" /\ ~Skipped(b).pixmap /\ Skipped(b).mode = "skip"
        /\ Skipped(b).refused = b.refused
    <3>1. b \in Vblank
      BY DEF Typed
    <3> QED
      BY <3>1, ScrapTimeFields
  <2>2. d = IF v \in waiting THEN [c EXCEPT !.callback = TRUE]
            ELSE IF v \in over THEN Skipped(b) ELSE c
    BY <1>1, <1>4
  <2>3. b.at \in {"exec", "flip"} /\ Fares(s, v, H, None, r) /\ v # None
    BY <1>0, Names DEF InTime, H
  <2> HIDE DEF c, d
  <2>4. /\ ~d.pixmap /\ d.at \in {"exec", "flip", "gone"} /\ d.refused = b.refused
        /\ d.mode = b.mode \/ d.mode = "skip"
    BY <2>1, <2>2, <2>3 DEF Vblank
  <2>5. Planned(d, v, r)
    BY <2>3, <2>4 DEF Fares, Planned
  <2>6. Timed(d, Events(v, t.due))
    BY <2>4 DEF Timed
  <2>7. v \notin t.flips
    BY <1>4, <2>3 DEF Fares
  <2> QED
    BY <2>3, <2>4, <2>5, <2>6, <2>7 DEF Fares, d
<1>7. Flown(t)
  BY <1>4 DEF InTime, Flown
<1>8. InTime(s, H, None, r)
  BY DEF H
<1>9. InTime(t, H, None, r)
  BY <1>5, <1>6, <1>7, <1>8, TimeChange
<1> QED
  BY <1>5, <1>9 DEF H

LEMMA ScrappedTime ==
    ASSUME NEW s, Typed(s), NEW r, InTime(s, {}, None, r), NEW T, T \subseteq Ids,
           \A v \in T : s.vb[v].at \in {"exec", "flip"}, NEW t \in Scrapped(s, T)
    PROVE  /\ InTime(t, {}, None, r)
           /\ \A u \in Ids \ T : t.vb[u] = s.vb[u] /\ Events(u, t.due) = Events(u, s.due)
<1> DEFINE again == {v \in T : s.vb[v].ready}
           N(E) == {[id |-> v, msc |-> s.vb[v].exec] : v \in E}
           waiting(E) == {v \in again \ E : FenceWaits(s.vb[v])}
           over(E) == again \ (E \cup waiting(E))
<1>1. PICK E \in SUBSET T : t = Owed(Scraps(s, T, waiting(E), over(E)), N(E))
  <2> DEFINE a == [s EXCEPT !.vb = [v \in Ids |-> IF v \in T THEN Scrap(s.vb[v]) ELSE s.vb[v]]]
             O(E) == [Destroyed(a, over(E), "gone") EXCEPT
                         !.due = @ \cup N(E),
                         !.vb = [v \in Ids |->
                                   IF v \in waiting(E) THEN [@[v] EXCEPT !.callback = TRUE]
                                   ELSE IF v \in over(E) THEN Skip(@[v]) ELSE @[v]]]
             early == {v \in again : s.vb[v].exec = msc + 1}
  <2>1. PICK E \in (IF "queue" \in Refusals THEN SUBSET early ELSE {early}) : t = O(E)
    BY DEF Scrapped
  <2>2. E \in SUBSET T
    BY <2>1
  <2>3. O(E) = Owed(Scraps(s, T, waiting(E), over(E)), N(E))
    BY DEF Owed, Scraps
  <2> QED
    BY <2>1, <2>2, <2>3
<1> DEFINE W == waiting(E)
           V == over(E)
           M == N(E)
<1>2. Scrapping(s, T, W, V, M)
  BY DEF Scrapping
<1>3. t = Owed(Scraps(s, T, W, V), M)
  BY <1>1
<1> HIDE DEF W, V, M, again, N, waiting, over
<1> QED
  BY <1>2, <1>3, ScrapsTime

\* present_scmd_pixmap: a new request waits for its frame, or is executed in it.
LEMMA QueueTime ==
    ASSUME NEW s, NEW C, Good(s, {}, None, C), full \in C,
           NEW r, InTime(s, {}, None, r), Now(msc),
           NEW v \in Ids, s.vb[v].at = "none", r[v].at = "none",
           NEW w \in Living(s), NEW shape \in Shapes, NEW target \in MSCs, NEW t \in Queue(s, v, w, target, shape)
    PROVE  InTime(t, {}, None, r)
<1> DEFINE b == NewVblank(s, w, target, shape)
           a == With(s, v, b)
           H == {}
           G == {v}
<1>0. /\ Mid(s, {}, None, C) /\ Shown(s, C) /\ None \in C /\ Typed(s) /\ w # None /\ v # None
      /\ v \notin H /\ v \in G /\ H \ {v} \subseteq G /\ G \ {v} = H /\ G \subseteq Ids
      /\ \A x \in G \ {v} : FALSE
  BY Names DEF Good, Mid, Typed, Living
<1>1. /\ b \in Vblank /\ b.at = "exec" /\ b.window = w /\ b.pixmap /\ ~b.abort
      /\ b.idled = 0 /\ b.completed = 0 /\ b.mode = "none" /\ ~b.refused
      /\ b.target = target /\ ~b.callback
      /\ b.exec = IF b.sync THEN target - 1 ELSE target
      /\ b.sync => b.flip
      /\ b.flip => full = w
  BY <1>0, NewVblankFields
<1>2. t \in (IF a.vb[v].exec <= msc THEN Execute(a, v, msc)
             ELSE {QueueVblank(a, v)}
                  \cup (IF "queue" \in Refusals THEN Execute(Refused(a, v), v, msc) ELSE {}))
  BY DEF Queue, With
<1> HIDE DEF b
<1>3. a.vb[v] = b /\ Alters(s, a, v)
  BY <1>0, WithAlters
<1>4. Good(a, G, None, C)
  <2>1. Request(s.vb[v], v, s.pending, s.cur.pixmap, s.due, {}, None, C)
    BY <1>0 DEF Mid
  <2>2. Request(b, v, s.pending, s.cur.pixmap, s.due, {v}, None, C)
    BY <1>0, <1>1, <2>1 DEF Request, Lives, Covered
  <2>3. {} \ {v} \subseteq {v} /\ None \in {v} \cup {None}
    OBVIOUS
  <2>4. (b.at = "flip" <=> s.vb[v].at = "flip") /\ (b.abort => s.vb[v].abort \/ s.pix[Root] = Screen)
    BY <1>1
  <2>5. b.window \in Living(s) \cup {None}
    BY <1>1
  <2>6. Mid(a, {v}, None, C)
    BY <1>0, <1>1, <2>2, <2>3, <2>4, <2>5, WithMid
  <2>7. Shown(a, C)
    BY <1>0, WithKept
  <2> QED
    BY <1>0, <2>6, <2>7 DEF Good
<1> HIDE DEF a
<1>5. Events(v, a.due) = {}
  <2>1. Request(s.vb[v], v, s.pending, s.cur.pixmap, s.due, {}, None, C)
    BY <1>0 DEF Mid
  <2>2. ~s.vb[v].refused
    BY <1>0, <2>1 DEF Request, NoVblank
  <2>3. Fares(s, v, H, None, r)
    BY DEF InTime
  <2> HIDE DEF H
  <2>4. Timed(s.vb[v], Events(v, s.due))
    BY <1>0, <2>3 DEF Fares
  <2> QED
    BY <1>3, <2>2, <2>4 DEF Timed, Alters
<1>6. Fares(a, v, G, None, r)
  <2>1. InTime(s, H, None, r)
    OBVIOUS
  <2>2. v \notin s.flips
    BY <1>0, <2>1, NotFlipped
  <2>3. Planned(b, v, r)
    BY <1>1 DEF Planned
  <2> QED
    BY <1>0, <1>1, <1>3, <2>2, <2>3 DEF Fares, Alters
<1>7. InTime(a, G, None, r)
  <2>1. InTime(s, H, None, r)
    OBVIOUS
  <2> HIDE DEF H, G
  <2> QED
    BY <1>0, <1>3, <1>6, <2>1, AltersTime
<1>8. b.exec \in Int /\ msc \in Nat /\ b.flip \in BOOLEAN
  BY <1>1 DEF Vblank, MSCs, Now
<1> HIDE DEF H, G
<1>9. CASE a.vb[v].exec <= msc /\ t \in Execute(a, v, msc)
  <2>1. Ripe(a.vb[v], Events(v, a.due), msc) /\ a.vb[v].at \in {"exec", "flip", "pending"}
    BY <1>1, <1>3, <1>5, <1>8, <1>9 DEF Ripe
  <2>2. InTime(t, G \ {v}, None, r)
    BY <1>0, <1>4, <1>7, <1>9, <2>1, ExecuteTime
  <2> QED
    BY <1>0, <2>2 DEF H
<1>10. CASE t = QueueVblank(a, v)
  <2> DEFINE e == [id |-> v, msc |-> a.vb[v].exec]
  <2>1. /\ \A u \in Ids \ {v} : Same(a, t, u)
        /\ t.vb = a.vb /\ t.flips = a.flips /\ t.pending = a.pending
        /\ Events(v, t.due) = Events(v, a.due) \cup {e}
    BY <1>4, <1>10, OwedEvents DEF Good, Mid
  <2>2. e.msc = b.exec
    BY <1>3
  <2> HIDE DEF e
  <2>3. Events(v, t.due) = {e}
    BY <1>5, <2>1
  <2>4. Timed(t.vb[v], Events(v, t.due))
    BY <1>1, <1>3, <1>8, <2>1, <2>2, <2>3 DEF Timed
  <2>5. Fares(t, v, H, None, r)
    BY <1>6, <2>1, <2>4 DEF Fares
  <2>6. ASSUME NEW u \in Ids PROVE Fares(t, u, H, None, r)
    <3>1. CASE u = v
      BY <2>5, <3>1
    <3>2. CASE u # v
      <4>1. u \in G => u \in H
        BY <3>2 DEF G
      <4> QED
        BY <1>7, <2>1, <3>2, <4>1, SameFares DEF InTime
    <3> QED
      BY <3>1, <3>2
  <2>7. Flown(t)
    BY <1>7, <2>1 DEF InTime, Flown
  <2> QED
    BY <2>6, <2>7 DEF InTime, H
<1>11. CASE "queue" \in Refusals /\ t \in Execute(Refused(a, v), v, msc)
  <2> DEFINE f == Refused(a, v)
  <2>1. InTime(f, G, None, r) /\ f.vb[v].refused
    BY <1>0, <1>4, <1>7, <1>11, RefusedTime DEF Good, Mid
  <2>2. f.vb[v].at = "exec"
    <3>1. Typed(a) /\ a.vb[v] \in Vblank
      BY <1>4 DEF Good, Mid, Typed
    <3>2. f.vb[v] = [a.vb[v] EXCEPT !.refused = TRUE]
      BY <3>1 DEF Typed, f, Refused
    <3> QED
      BY <1>1, <1>3, <3>1, <3>2 DEF Vblank
  <2>3. Good(f, G, None, C)
    <3>1. Mid(f, G, None, C) /\ \A D : Shown(a, D) => Shown(f, D)
      BY <1>0, <1>4, RefusedMid DEF Good
    <3> HIDE DEF f
    <3> QED
      BY <1>0, <1>4, <3>1 DEF Good
  <2>4. t \in Execute(f, v, msc)
    BY <1>11
  <2> HIDE DEF f
  <2>5. Ripe(f.vb[v], Events(v, f.due), msc) /\ f.vb[v].at \in {"exec", "flip", "pending"}
    BY <2>1, <2>2 DEF Ripe
  <2>6. InTime(t, G \ {v}, None, r)
    BY <1>0, <2>1, <2>3, <2>4, <2>5, ExecuteTime
  <2> QED
    BY <1>0, <2>6 DEF H
<1> QED
  BY <1>2, <1>9, <1>10, <1>11

-----------------------------------------------------------------------------
(* The actions.                                                            *)

LEMMA Begins ==
    ASSUME IndInv, TimeInv
    PROVE  /\ Good(scr, {}, None, Coverable(scr)) /\ InTime(scr, {}, None, scr.vb)
           /\ Now(msc) /\ Typed(scr)
           /\ \A v \in Ids : Fares(scr, v, {}, None, scr.vb) /\ Timed(scr.vb[v], Events(v, scr.due))
           /\ \A v \in Ids : Lives(scr.vb[v], v, scr.pending, scr.cur.pixmap, None)
<1>1. Good(scr, {}, None, Coverable(scr)) /\ Typed(scr) /\ msc \in Nat
  BY Whole DEF MSCs
<1>2. InTime(scr, {}, None, scr.vb)
  BY DEF TimeInv
<1>3. ASSUME NEW v \in Ids
      PROVE  /\ Fares(scr, v, {}, None, scr.vb) /\ Timed(scr.vb[v], Events(v, scr.due))
             /\ Lives(scr.vb[v], v, scr.pending, scr.cur.pixmap, None)
  <2>1. v \notin {}
    OBVIOUS
  <2>2. Fares(scr, v, {}, None, scr.vb)
    BY <1>2 DEF InTime
  <2>3. Timed(scr.vb[v], Events(v, scr.due))
    BY <2>1, <2>2 DEF Fares
  <2>4. Lives(scr.vb[v], v, scr.pending, scr.cur.pixmap, None)
    BY <1>1 DEF Good, Mid, Request
  <2> QED
    BY <2>2, <2>3, <2>4
<1> QED
  BY <1>1, <1>2, <1>3 DEF Now

LEMMA PresentPixmapTime ==
    ASSUME IndInv, TimeInv, NEW w \in Living(scr), NEW shape \in Shapes, NEW arg \in MSCs,
           NEW field \in Fields, PresentPixmap(w, shape, arg, field)
    PROVE  InTime(scr', {}, None, scr.vb)
<1> DEFINE target == TargetMSC(arg, msc, field[1], field[2], shape.async # {})
           T == Overwritten(scr, w, target, shape)
           C == Coverable(scr)
           v == last + 1
           r == scr.vb
<1>1. PICK s \in Scrapped(scr, T) : scr' \in Queue(s, v, w, target, shape)
  BY DEF PresentPixmap
<1>2. target \in MSCs
  BY TargetTyped DEF PresentPixmap
<1>3. T \subseteq Ids /\ \A u \in T : scr.vb[u].at \in {"exec", "flip"} /\ scr.vb[u].pixmap
  BY DEF Overwritten, Queued
<1> HIDE DEF target, T
<1>4. Good(s, {}, None, C) /\ \A x : Kept(scr, s, x)
  BY <1>1, <1>3, Whole, ScrappedGood
<1>5. v \in Ids /\ v > last
  BY Whole, ShapesAssumption DEF PresentPixmap, Ids
<1>6. s.vb[v].at = "none" /\ w \in Living(s) /\ full \in C /\ r[v].at = "none"
  <2>1. Kept(scr, s, None)
    BY <1>4
  <2> QED
    BY <1>5, <2>1, Whole, Names DEF Kept, Living, Coverable
<1>7. InTime(scr, {}, None, r) /\ Typed(scr) /\ Now(msc)
  BY Begins
<1> HIDE DEF r, C
<1>8. \A u \in T : scr.vb[u].at \in {"exec", "flip"}
  BY <1>3
<1>9. InTime(s, {}, None, r)
  BY <1>1, <1>3, <1>7, <1>8, ScrappedTime
<1>10. InTime(scr', {}, None, r)
  BY <1>1, <1>2, <1>4, <1>5, <1>6, <1>7, <1>9, QueueTime
<1> QED
  BY <1>10 DEF r

\* An event of a request is sent at the frame asked for, or late, and there is
\* one of a flip.
LEMMA SentTime ==
    ASSUME IndInv, TimeInv, NEW e \in scr.due, NEW now \in e.msc .. msc
    PROVE  LET s == Sent(scr, e)
               v == e.id
           IN  /\ \A u \in Ids : Fares(s, u, {v}, None, scr.vb)
               /\ Now(now)
               /\ v \in Queued(s) => Flown(s) /\ Ripe(s.vb[v], Events(v, s.due), now)
               /\ v = s.pending => ("queue" \notin Refusals => s.flips = {})
               /\ v \notin Queued(s) /\ v # s.pending => InTime(s, {}, None, scr.vb)
<1> DEFINE s == Sent(scr, e)
           v == e.id
           b == scr.vb[v]
           r == scr.vb
           E == Events(v, scr.due)
           F == Events(v, s.due)
           H == {}
           G == {v}
<1>0. /\ Typed(scr) /\ Now(msc) /\ v \in Ids /\ e = [id |-> v, msc |-> e.msc] /\ e.msc \in Nat
      /\ \A u : u \in H => u \in G
      /\ \A u : u # v => u \notin G
  BY Begins DEF Typed, MSCs
<1>1. Now(now)
  BY <1>0 DEF Now
<1>2. \A u \in Ids : Fares(scr, u, H, None, r)
  BY Begins
<1>3. Timed(b, E) /\ Lives(b, v, scr.pending, scr.cur.pixmap, None)
  BY <1>0, Begins
<1>4. Flown(scr)
  BY Begins DEF InTime
<1>5. /\ b.exec \in Int /\ b.pixmap \in BOOLEAN /\ b.flip \in BOOLEAN /\ b.refused \in BOOLEAN
      /\ b.at \in {"none", "exec", "flip", "pending", "gone", "dropped"}
      /\ \A d \in E : d.msc \in Int /\ d.id = v
  BY <1>0, NumberFacts DEF Typed, Vblank
<1>6. s.vb = scr.vb /\ s.pending = scr.pending /\ s.flips = scr.flips /\ s.due = scr.due \ {e}
  BY <1>0 DEF Sent, Typed
<1>7. e \in E /\ F = E \ {e}
  BY <1>6 DEF Events
<1>8. \A d \in E : d = [id |-> v, msc |-> d.msc]
  BY <1>0 DEF Events, Typed
<1>9. \A u \in Ids \ {v} : Same(scr, s, u)
  <2>1. \A u \in Ids \ {v} : Events(u, s.due) = Events(u, scr.due)
    BY <1>6 DEF Events
  <2> QED
    BY <1>6, <2>1 DEF Same
<1> HIDE DEF s, v, b, r, E, F, H, G
<1>10. b.refused => "queue" \in Refusals
  BY <1>0, <1>2 DEF Fares, b
<1>11. b.pixmap /\ b.flip /\ ~b.refused => b.at = "exec" /\ F = {} /\ b.exec = e.msc
  <2> SUFFICES ASSUME b.pixmap, b.flip, ~b.refused
               PROVE  b.at = "exec" /\ F = {} /\ b.exec = e.msc
    OBVIOUS
  <2>1. \A d \in E : b.at = "exec" /\ d.msc = b.exec
    BY <1>3 DEF Timed
  <2>2. \A d \in E : d = e
    BY <1>0, <1>7, <1>8, <2>1
  <2> QED
    BY <1>7, <2>1, <2>2
<1>12. Ripe(b, F, now)
  <2>1. now \in Nat /\ e.msc <= now
    BY <1>0, <1>1 DEF Now
  <2>2. b.pixmap /\ ~b.flip /\ ~b.refused => \A d \in E : b.exec <= d.msc + 1
    BY <1>3 DEF Timed
  <2>3. b.pixmap /\ ~b.flip /\ ~b.refused => b.exec <= now + 1 /\ \A d \in F : b.exec <= d.msc + 1
    BY <1>0, <1>5, <1>7, <2>1, <2>2
  <2> QED
    BY <1>5, <1>11, <2>1, <2>3 DEF Ripe
<1>13. ASSUME NEW u \in Ids PROVE Fares(s, u, G, None, r)
  <2>1. CASE u # v
    BY <1>0, <1>2, <1>9, <2>1, SameFares
  <2>2. CASE u = v
    <3>1. v \in G
      BY DEF G
    <3> QED
      BY <1>0, <1>2, <1>6, <2>2, <3>1 DEF Fares
  <2> QED
    BY <2>1, <2>2
<1>14. Flown(s)
  BY <1>4, <1>6 DEF Flown
<1>15. v \in Queued(s) => Flown(s) /\ Ripe(s.vb[v], F, now)
  BY <1>6, <1>12, <1>14 DEF b
<1>16. v = s.pending => ("queue" \notin Refusals => s.flips = {})
  BY <1>3, <1>6, <1>10, <1>11 DEF Lives
<1>17. v \notin Queued(s) /\ v # s.pending => InTime(s, H, None, r)
  <2> SUFFICES ASSUME v \notin Queued(s), v # s.pending
               PROVE  InTime(s, H, None, r)
    OBVIOUS
  <2>1. b.at \in {"none", "gone", "dropped"}
    BY <1>0, <1>3, <1>5, <1>6 DEF Queued, Lives, b
  <2>2. Timed(b, F)
    BY <1>3, <1>7, <2>1 DEF Timed
  <2>3. Fares(s, v, H, None, r)
    BY <1>0, <1>2, <1>6, <2>2 DEF Fares, b, F
  <2>4. \A u \in Ids : Fares(s, u, H, None, r)
    <3>1. ASSUME NEW u \in Ids, u # v PROVE Fares(s, u, H, None, r)
      BY <1>2, <1>9, <3>1, SameFares
    <3> QED
      BY <2>3, <3>1
  <2> QED
    BY <1>14, <2>4 DEF InTime
<1> QED
  BY <1>1, <1>13, <1>15, <1>16, <1>17 DEF s, v, r, H, G, F

LEMMA VblankEventTime ==
    ASSUME IndInv, TimeInv, VblankEvent
    PROVE  InTime(scr', {}, None, scr.vb)
<1> DEFINE C == Coverable(scr)
           r == scr.vb
<1>1. PICK e \in scr.due : \E now \in e.msc .. msc :
                              scr' \in EventNotify(Sent(scr, e), e.id, now)
  BY DEF VblankEvent, Sent
<1>2. PICK now \in e.msc .. msc : scr' \in EventNotify(Sent(scr, e), e.id, now)
  BY <1>1
<1> DEFINE s == Sent(scr, e)
           v == e.id
<1>3. /\ Good(s, {v}, None, C) /\ (s.vb[v].at # "exec" => Good(s, {}, None, C))
      /\ v \in Ids
  BY Whole, SentGood
<1>4. /\ \A u \in Ids : Fares(s, u, {v}, None, r)
      /\ Now(now)
      /\ v \in Queued(s) => Flown(s) /\ Ripe(s.vb[v], Events(v, s.due), now)
      /\ v = s.pending => ("queue" \notin Refusals => s.flips = {})
      /\ v \notin Queued(s) /\ v # s.pending => InTime(s, {}, None, r)
  BY SentTime
<1>5. Now(msc)
  BY Begins
<1>6. scr' \in EventNotify(s, v, now)
  BY <1>2
<1> HIDE DEF s, v, r, C
<1>7. InTime(scr', {}, None, r)
  BY <1>3, <1>4, <1>5, <1>6, EventNotifyTime
<1> QED
  BY <1>7 DEF r

LEMMA FlipEventTime ==
    ASSUME IndInv, TimeInv, FlipEvent
    PROVE  InTime(scr', {}, None, scr.vb)
<1> DEFINE C == Coverable(scr)
           r == scr.vb
           H == {}
<1>1. PICK v \in scr.flips : scr' \in EventNotify(Done(scr, v), v, msc)
  BY DEF FlipEvent, Done
<1> DEFINE s == Done(scr, v)
           G == {v}
<1>2. Good(s, H, None, C)
  BY Whole, DoneGood
<1>3. v \in Ids /\ Typed(scr) /\ Now(msc) /\ v # None
  BY Begins, Names DEF Typed
<1>4. /\ s.vb = scr.vb /\ s.pending = scr.pending /\ s.due = scr.due
      /\ s.flips = scr.flips \ {v}
  BY <1>3 DEF Done, Typed
<1>5. \A u \in Ids : Same(scr, s, u)
  BY <1>4 DEF Same
<1>6. /\ \A u \in Ids : Fares(scr, u, H, None, r)
      /\ Flown(scr) /\ H \subseteq G
  BY Begins DEF InTime
<1>7. "queue" \notin Refusals => v = s.pending /\ s.flips = {}
  BY <1>4, <1>6 DEF Flown
<1>8. v \notin Queued(s)
  <2>1. scr.vb[v].at \in {"pending", "gone", "dropped"}
    BY <1>3, <1>6 DEF Fares
  <2> QED
    BY <1>4, <2>1 DEF Queued
<1>9. scr' \in EventNotify(s, v, msc)
  BY <1>1
<1> HIDE DEF s, r, C, H, G
<1>10. Good(s, G, None, C)
  BY <1>2, <1>6, MoreGood
<1>11. \A u \in Ids : Fares(s, u, G, None, r) /\ Fares(s, u, H, None, r)
  BY <1>5, <1>6, SameFares
<1>12. v # s.pending => InTime(s, H, None, r)
  BY <1>7, <1>11 DEF InTime, Flown
<1>13. InTime(scr', {}, None, r)
  <2>1. Good(s, {v}, None, C) /\ (s.vb[v].at # "exec" => Good(s, {}, None, C))
    BY <1>2, <1>10 DEF G, H
  <2>2. \A u \in Ids : Fares(s, u, {v}, None, r)
    BY <1>11 DEF G
  <2>3. v \in Queued(s) => Flown(s) /\ Ripe(s.vb[v], Events(v, s.due), msc)
    BY <1>8
  <2>4. v = s.pending => ("queue" \notin Refusals => s.flips = {})
    BY <1>7
  <2>5. v \notin Queued(s) /\ v # s.pending => InTime(s, {}, None, r)
    BY <1>12 DEF H
  <2> QED
    BY <1>3, <1>9, <2>1, <2>2, <2>3, <2>4, <2>5, EventNotifyTime
<1> QED
  BY <1>13 DEF r

LEMMA UnflipEventTime ==
    ASSUME IndInv, TimeInv, UnflipEvent
    PROVE  InTime(scr', {}, None, scr.vb)
<1> DEFINE C == Coverable(scr)
           r == scr.vb
           s == Unflown(scr)
           f == FlipIdle(s)
<1>1. scr' \in TryReady(f) /\ scr.unflip
  BY DEF UnflipEvent, Unflown
<1>2. Mid(s, {}, None, C) /\ ~s.unflip /\ s.pix[Root] = Screen
  BY <1>1, Whole, UnflownMid
<1>3. s.vb = scr.vb /\ s.pending = scr.pending /\ s.due = scr.due /\ s.flips = scr.flips
  BY Begins DEF Unflown, Typed
<1> HIDE DEF s
<1>4. Unmoved(scr, s)
  BY <1>3 DEF Unmoved, Same
<1>5. Mid(f, {}, None, C) /\ Shown(f, C)
  BY <1>2, Whole, FlipIdleMid
<1>6. Unmoved(s, f)
  BY <1>2, SmallSteps DEF Mid
<1> HIDE DEF f
<1>7. Unmoved(scr, f)
  BY <1>4, <1>6, UnmovedTwice
<1>8. Good(f, {}, None, C) /\ Now(msc) /\ InTime(scr, {}, None, r)
  BY <1>5, Whole, Begins DEF Good
<1> HIDE DEF r, C
<1>9. InTime(f, {}, None, r)
  <2> DEFINE H == {}
  <2>1. InTime(scr, H, None, r)
    BY <1>8
  <2> HIDE DEF H
  <2>2. InTime(f, H, None, r)
    BY <1>7, <2>1, UnmovedTime
  <2> QED
    BY <2>2 DEF H
<1>10. InTime(scr', {}, None, r)
  BY <1>1, <1>8, <1>9, TryReadyTime
<1> QED
  BY <1>10 DEF r

\* A fence that a request waits for may fire early, but not before its frame.
LEMMA FenceFiresTime ==
    ASSUME IndInv, TimeInv, FenceFires
    PROVE  InTime(scr', {}, None, scr.vb)
<1> DEFINE C == Coverable(scr)
           r == scr.vb
           H == {}
<1>1. PICK v \in Callbacks(walk) : scr.vb[v].window # None /\ scr' \in Execute(scr, v, msc)
  BY DEF FenceFires
<1> DEFINE G == {v}
           b == scr.vb[v]
           E == Events(v, scr.due)
<1>2. /\ v \in Ids /\ b.callback /\ v \in G /\ G \ {v} = H /\ H \subseteq G /\ G \subseteq Ids
      /\ \A x \in G \ {v} : FALSE
  BY DEF Callbacks
<1>3. Good(scr, H, None, C) /\ InTime(scr, H, None, r) /\ Now(msc) /\ Timed(b, E) /\ Typed(scr)
  BY <1>2, Begins
<1>4. scr.vb[v].at \in {"exec", "flip", "pending"}
  <2>1. scr.vb[v].at \in {"none", "exec", "flip", "pending", "gone", "dropped"}
    BY <1>2, Whole DEF Typed, Vblank
  <2>2. Request(scr.vb[v], v, scr.pending, scr.cur.pixmap, scr.due, {}, None, C)
    BY <1>2, Whole DEF Good, Mid
  <2> QED
    BY <1>1, <2>1, <2>2 DEF Request, Lives, NoVblank
<1>5. b.exec \in Int /\ b.pixmap \in BOOLEAN /\ b.flip \in BOOLEAN /\ b.refused \in BOOLEAN
  BY <1>2, <1>3, NumberFacts
<1> HIDE DEF E
<1>6. Ripe(b, E, msc)
  BY <1>2, <1>3, <1>5 DEF Ripe, Timed
<1> HIDE DEF H, G, C, r
<1>7. Good(scr, G, None, C) /\ InTime(scr, G, None, r)
  BY <1>2, <1>3, MoreGood, MoreInTime
<1>8. InTime(scr', G \ {v}, None, r)
  BY <1>1, <1>2, <1>3, <1>4, <1>6, <1>7, ExecuteTime DEF E
<1> QED
  BY <1>2, <1>8 DEF H, r

LEMMA CheckedTime ==
    ASSUME NEW s, NEW C, Good(s, {}, None, C), NEW w \in Living(s), NEW whole,
           NEW r, InTime(s, {}, None, r), Now(msc), NEW t \in CheckFlipWindow(s, w, whole)
    PROVE  /\ InTime(t, {}, None, r) /\ DOMAIN t.pix = DOMAIN s.pix
           /\ Good(t, {}, None, C \cup {w} \cup t.missed)
<1> DEFINE D == C \cup {w} \cup t.missed
<1>1. C \ {w} \subseteq D /\ w \in D /\ \A x : x \in t.missed => x \in D
  OBVIOUS
<1> HIDE DEF D
<1>2. Good(t, {}, None, D) /\ DOMAIN t.pix = DOMAIN s.pix
  BY <1>1, CheckFlipWindowGood
<1>3. InTime(t, {}, None, r)
  BY CheckFlipWindowTime
<1> QED
  BY <1>2, <1>3 DEF D

LEMMA ClipNotifyTime ==
    ASSUME IndInv, TimeInv, NEW w \in Living(scr), ClipNotify(w)
    PROVE  InTime(scr', {}, None, scr.vb)
<1> DEFINE r == scr.vb
           C == Coverable(scr)
<1>1. scr' \in CheckFlipWindow(scr, w, full)
  BY DEF ClipNotify
<1>2. Good(scr, {}, None, C) /\ InTime(scr, {}, None, r) /\ Now(msc)
  BY Begins
<1> HIDE DEF r, C
<1>3. InTime(scr', {}, None, r)
  BY <1>1, <1>2, CheckFlipWindowTime
<1> QED
  BY <1>3 DEF r

LEMMA CoverTime ==
    ASSUME IndInv, TimeInv, NEW w \in Living(scr) \cup {None}, Cover(w)
    PROVE  InTime(scr', {}, None, scr.vb)
<1> DEFINE r == scr.vb
           C == Coverable(scr)
<1>1. PICK s \in (IF w = None THEN {scr} ELSE CheckFlipWindow(scr, w, w)) :
         scr' \in IF full = None THEN {s} ELSE CheckFlipWindow(s, full, w)
  BY DEF Cover
<1>2. /\ Good(scr, {}, None, C) /\ InTime(scr, {}, None, r) /\ Now(msc)
      /\ full \in Living(scr) \cup {None}
  BY Begins, Whole
<1> HIDE DEF r, C
<1>3. PICK D : Good(s, {}, None, D) /\ InTime(s, {}, None, r) /\ DOMAIN s.pix = DOMAIN scr.pix
  <2>1. CASE w = None
    BY <1>1, <1>2, <2>1
  <2>2. CASE w # None
    <3>1. s \in CheckFlipWindow(scr, w, w) /\ w \in Living(scr)
      BY <1>1, <2>2
    <3>2. /\ InTime(s, {}, None, r) /\ DOMAIN s.pix = DOMAIN scr.pix
          /\ Good(s, {}, None, C \cup {w} \cup s.missed)
      BY <1>2, <3>1, CheckedTime
    <3> QED
      BY <3>2
  <2> QED
    BY <2>1, <2>2
<1>4. InTime(scr', {}, None, r)
  <2>1. CASE full = None
    BY <1>1, <1>3, <2>1
  <2>2. CASE full # None
    <3>1. scr' \in CheckFlipWindow(s, full, w) /\ full \in Living(s)
      BY <1>1, <1>2, <1>3, <2>2 DEF Living
    <3> QED
      BY <1>2, <1>3, <3>1, CheckFlipWindowTime
  <2> QED
    BY <2>1, <2>2
<1> QED
  BY <1>4 DEF r

LEMMA DestroyWindowTime ==
    ASSUME IndInv, TimeInv, NEW w \in Living(scr), DestroyWindow(w)
    PROVE  InTime(scr', {}, None, scr.vb)
<1> DEFINE r == scr.vb
           C == Coverable(scr)
           whole == full'
<1>1. PICK s \in CheckFlipWindow(scr, w, whole) \cup (IF full = w THEN {} ELSE {scr}) :
         scr' = WindowGone(s, w)
  BY DEF DestroyWindow
<1>2. Good(scr, {}, None, C) /\ InTime(scr, {}, None, r) /\ Now(msc)
  BY Begins
<1> HIDE DEF r, C, whole
<1>3. PICK D : Good(s, {}, None, D) /\ InTime(s, {}, None, r) /\ DOMAIN s.pix = DOMAIN scr.pix
  <2>1. CASE s = scr
    BY <1>2, <2>1
  <2>2. CASE s \in CheckFlipWindow(scr, w, whole)
    <3>1. /\ InTime(s, {}, None, r) /\ DOMAIN s.pix = DOMAIN scr.pix
          /\ Good(s, {}, None, C \cup {w} \cup s.missed)
      BY <1>2, <2>2, CheckedTime
    <3> QED
      BY <3>1
  <2> QED
    BY <1>1, <2>1, <2>2
<1>4. w \in Living(s)
  BY <1>3 DEF Living
<1>5. InTime(scr', {}, None, r)
  BY <1>1, <1>3, <1>4, WindowGoneTime
<1> QED
  BY <1>5 DEF r

LEMMA DestroyFenceTime ==
    ASSUME IndInv, TimeInv, NEW f \in Fences, DestroyFence(f)
    PROVE  InTime(scr', {}, None, scr.vb)
<1> DEFINE r == scr.vb
           H == {}
           un(b) == IF b.fence = f THEN [b EXCEPT !.fence = None] ELSE b
           g == [v \in Ids |-> un(scr.vb[v])]
           s == Unfenced(scr, f)
<1>1. scr' = s
  BY DEF DestroyFence, Unfenced
<1>2. InTime(scr, H, None, r) /\ Typed(scr)
  BY Begins
<1>3. s = [scr EXCEPT !.vb = g]
  BY DEF Unfenced
<1>4. ASSUME NEW b \in Vblank
      PROVE  /\ un(b).at = b.at /\ un(b).pixmap = b.pixmap /\ un(b).target = b.target
             /\ un(b).exec = b.exec /\ un(b).sync = b.sync /\ un(b).flip = b.flip
             /\ un(b).callback = b.callback /\ un(b).refused = b.refused /\ un(b).mode = b.mode
  <2>1. CASE b.fence = f
    BY <2>1 DEF Vblank
  <2>2. CASE b.fence # f
    BY <2>2
  <2> QED
    BY <2>1, <2>2
<1> HIDE DEF un, s
<1>5. \A v \in Ids : g[v] = un(scr.vb[v])
  OBVIOUS
<1> HIDE DEF g
<1>6. s.vb = g /\ s.pending = scr.pending /\ s.due = scr.due /\ s.flips = scr.flips
  BY <1>2, <1>3 DEF Typed
<1>7. ASSUME NEW v \in Ids PROVE Same(scr, s, v)
  <2>1. scr.vb[v] \in Vblank /\ s.vb[v] = un(scr.vb[v])
    BY <1>2, <1>5, <1>6 DEF Typed
  <2> QED
    BY <1>4, <1>6, <2>1 DEF Same
<1>8. Unmoved(scr, s)
  BY <1>6, <1>7 DEF Unmoved
<1> HIDE DEF r, H
<1>9. InTime(s, H, None, r)
  BY <1>2, <1>8, UnmovedTime
<1> QED
  BY <1>1, <1>9 DEF r, H

-----------------------------------------------------------------------------
(* Steps.                                                                  *)

\* After a step, everything is right as compared to what was before it.
LEMMA StepTime ==
    ASSUME IndInv, TimeInv, [Next]_vars
    PROVE  InTime(scr', {}, None, scr.vb) /\ msc' \in Nat /\ msc <= msc' /\ (scr' = scr \/ msc' = msc)
<1>0. msc \in Nat /\ InTime(scr, {}, None, scr.vb)
  BY Whole DEF MSCs, TimeInv
<1>1. CASE \E w \in Living(scr), shape \in Shapes, arg \in MSCs, field \in Fields :
               PresentPixmap(w, shape, arg, field)
  <2>1. InTime(scr', {}, None, scr.vb)
    BY <1>1, PresentPixmapTime
  <2> QED
    BY <1>0, <1>1, <2>1 DEF PresentPixmap
<1>2. CASE Frame
  BY <1>0, <1>2 DEF Frame
<1>3. CASE VblankEvent
  <2>1. InTime(scr', {}, None, scr.vb)
    BY <1>3, VblankEventTime
  <2> QED
    BY <1>0, <1>3, <2>1 DEF VblankEvent
<1>4. CASE FlipEvent
  <2>1. InTime(scr', {}, None, scr.vb)
    BY <1>4, FlipEventTime
  <2> QED
    BY <1>0, <1>4, <2>1 DEF FlipEvent
<1>5. CASE UnflipEvent
  <2>1. InTime(scr', {}, None, scr.vb)
    BY <1>5, UnflipEventTime
  <2> QED
    BY <1>0, <1>5, <2>1 DEF UnflipEvent
<1>6. CASE \E w \in Living(scr) : ClipNotify(w)
  <2>1. InTime(scr', {}, None, scr.vb)
    BY <1>6, ClipNotifyTime
  <2> QED
    BY <1>0, <1>6, <2>1 DEF ClipNotify
<1>7. CASE Cover(None) \/ \E w \in Living(scr) : Cover(w)
  <2>1. InTime(scr', {}, None, scr.vb)
    BY <1>7, CoverTime
  <2> QED
    BY <1>0, <1>7, <2>1 DEF Cover
<1>8. CASE \E w \in Living(scr) : DestroyWindow(w)
  <2>1. InTime(scr', {}, None, scr.vb)
    BY <1>8, DestroyWindowTime
  <2> QED
    BY <1>0, <1>8, <2>1 DEF DestroyWindow
<1>9. CASE \E f \in Fences : DestroyFence(f)
  <2>1. InTime(scr', {}, None, scr.vb)
    BY <1>9, DestroyFenceTime
  <2> QED
    BY <1>0, <1>9, <2>1 DEF DestroyFence
<1>10. CASE FenceFires
  <2>1. InTime(scr', {}, None, scr.vb)
    BY <1>10, FenceFiresTime
  <2> QED
    BY <1>0, <1>10, <2>1 DEF FenceFires
<1>11. CASE FenceDone \/ \E f \in Fences : TriggerFence(f) \/ ResetFence(f)
  BY <1>0, <1>11 DEF FenceDone, TriggerFence, ResetFence
<1>12. CASE UNCHANGED vars
  BY <1>0, <1>12 DEF vars
<1> QED
  BY <1>1, <1>2, <1>3, <1>4, <1>5, <1>6, <1>7, <1>8, <1>9, <1>10, <1>11, <1>12 DEF Next

\* What is right as compared to what was before a step is right after it,
\* whatever frame it is by then.
LEMMA LaterTime ==
    ASSUME IndInv, IndInv', msc \in Nat, msc' \in Nat, msc <= msc', InTime(scr', {}, None, scr.vb)
    PROVE  TimeInv'
<1> DEFINE H == {}
<1>1. /\ Typed(scr')
      /\ \A v \in Ids : Lives(scr'.vb[v], v, scr'.pending, scr'.cur.pixmap, None)
  BY DEF IndInv, Mid, Request
<1>2. \A v \in Ids : Fares(scr', v, H, None, scr.vb)
  BY DEF InTime
<1>3. \A v \in Ids : v \notin H
  OBVIOUS
<1> HIDE DEF H
<1>4. ASSUME NEW v \in Ids
      PROVE  /\ Planned(scr.vb[v], v, scr.vb)'
             /\ Timed(scr.vb[v], Events(v, scr.due))'
             /\ v \in scr'.flips => scr'.vb[v].at \in {"pending", "gone", "dropped"} \/ v = None
             /\ scr'.vb[v].refused => "queue" \in Refusals
  <2> DEFINE b == scr'.vb[v]
             E == Events(v, scr'.due)
  <2>1. Planned(b, v, scr.vb) /\ Timed(b, E)
        /\ (v \in scr'.flips => b.at \in {"pending", "gone", "dropped"} \/ v = None)
        /\ (b.refused => "queue" \in Refusals)
    BY <1>2, <1>3 DEF Fares
  <2>2. b \in Vblank /\ Lives(b, v, scr'.pending, scr'.cur.pixmap, None)
    BY <1>1 DEF Typed
  <2>3. b.at \in {"exec", "flip"} => b.mode = "none"
    BY <2>2 DEF Lives
  <2>4. /\ b.pixmap => b.exec = IF b.flip /\ b.sync THEN b.target - 1 ELSE b.target
    BY <2>1 DEF Planned
  <2>5. b.exec \in Int
    BY <2>2 DEF Vblank, MSCs
  <2> HIDE DEF b, E
  <2>6. \/ b.refused
        \/ /\ b.at = "none" => E = {}
           /\ b.at \in {"gone", "dropped"} => ~b.pixmap
           /\ b.pixmap /\ b.flip =>
                 /\ \A e \in E : b.at = "exec" /\ ~b.callback /\ e.msc = b.exec
                 /\ E = {} => b.exec <= msc'
           /\ b.pixmap /\ ~b.flip =>
                 /\ \A e \in E : b.exec <= e.msc + 1
                 /\ E = {} \/ b.callback \/ b.at = "flip" => b.exec <= msc' + 1
    <3>1. Timed(b, E)
      BY <2>1
    <3> QED
      BY <2>5, <3>1 DEF Timed
  <2>7. Timed(scr.vb[v], Events(v, scr.due))'
    BY <2>6 DEF Timed, b, E, Events
  <2>8. Planned(scr.vb[v], v, scr.vb)'
    BY <2>3, <2>4 DEF Planned, b
  <2> QED
    BY <2>1, <2>7, <2>8 DEF b, E
<1>5. \A v \in Ids : Fares(scr, v, {}, None, scr.vb)'
  BY <1>4 DEF Fares
<1>6. Flown(scr)'
  BY DEF InTime, Flown
<1> QED
  BY <1>5, <1>6 DEF TimeInv, InTime

LEMMA InitTime ==
    ASSUME Init
    PROVE  TimeInv
<1>1. /\ scr.vb = [v \in Ids |-> NoVblank] /\ scr.due = {} /\ scr.flips = {} /\ scr.pending = None
  BY DEF Init
<1>2. ASSUME NEW v \in Ids PROVE Fares(scr, v, {}, None, scr.vb)
  <2>1. scr.vb[v] = NoVblank /\ Events(v, scr.due) = {}
    BY <1>1 DEF Events
  <2> QED
    BY <1>1, <2>1 DEF Fares, Planned, Timed, NoVblank
<1>3. Flown(scr)
  BY <1>1 DEF Flown
<1> QED
  BY <1>2, <1>3 DEF TimeInv, InTime

-----------------------------------------------------------------------------
(* Theorems.                                                               *)

\* What each request plans to do, at which frame, and what the driver owes it
\* for that go together in every state, whatever the driver refuses
\* (present_execute_wait, present_queue_vblank, present_check_flip_window).
THEOREM TimeInvHolds == Spec => []TimeInv
<1>1. Init => TimeInv
  BY InitTime
<1>2. IndInv /\ IndInv' /\ TimeInv /\ [Next]_vars => TimeInv'
  <2> SUFFICES ASSUME IndInv, IndInv', TimeInv, [Next]_vars
               PROVE  TimeInv'
    OBVIOUS
  <2>1. InTime(scr', {}, None, scr.vb) /\ msc' \in Nat /\ msc <= msc'
    BY StepTime
  <2>2. msc \in Nat
    BY Whole DEF MSCs
  <2> QED
    BY <2>1, <2>2, LaterTime
<1> QED
  BY <1>1, <1>2, IndInvHolds, PTL DEF Spec

\* No request is copied before its frame, or flipped to before the frame that
\* comes first, unless the driver would not queue an event for it
\* (present_execute, present_execute_wait).
THEOREM NothingIsShownEarly == Spec => NotBeforeItsTime
<1> DEFINE InItsTime(v) ==
               v \in Queued(scr) /\ ~scr'.vb[v].refused =>
                   /\ scr.vb[v].mode = "none" /\ scr'.vb[v].mode = "copy" => msc >= scr.vb[v].target
                   /\ scr'.pending = v =>
                         msc >= scr.vb[v].target - (IF scr.vb[v].sync THEN 1 ELSE 0)
<1>1. IndInv /\ IndInv' /\ TimeInv /\ [Next]_vars => [\A v \in Ids : InItsTime(v)]_vars
  <2> SUFFICES ASSUME IndInv, IndInv', TimeInv, [Next]_vars,
                      NEW v \in Ids, v \in Queued(scr), ~scr'.vb[v].refused
               PROVE  /\ scr.vb[v].mode = "none" /\ scr'.vb[v].mode = "copy"
                            => msc >= scr.vb[v].target
                      /\ scr'.pending = v =>
                            msc >= scr.vb[v].target - (IF scr.vb[v].sync THEN 1 ELSE 0)
    OBVIOUS
  <2> DEFINE a == scr.vb[v]
             b == scr'.vb[v]
             E == Events(v, scr'.due)
             H == {}
  <2>1. /\ Typed(scr) /\ Typed(scr') /\ msc \in Nat
        /\ Lives(a, v, scr.pending, scr.cur.pixmap, None)
        /\ Lives(b, v, scr'.pending, scr'.cur.pixmap, None)
    BY Whole DEF IndInv, Mid, Request, MSCs
  <2>2. InTime(scr', H, None, scr.vb)
    BY StepTime
  <2>3. v \notin H
    OBVIOUS
  <2> HIDE DEF H
  <2>4. Planned(b, v, scr.vb) /\ Timed(b, E)
    BY <2>2, <2>3 DEF InTime, Fares
  <2>5. a.at \in {"exec", "flip"} /\ ~b.refused
    BY DEF Queued
  <2>6. a.target \in Nat /\ b.exec \in Int /\ a.sync \in BOOLEAN
    BY <2>1 DEF Typed, Vblank, MSCs
  <2>7. b.mode = "copy" => a.target <= msc
    BY <2>4, <2>5 DEF Planned
  <2>8. ASSUME scr'.pending = v
        PROVE  msc >= a.target - (IF a.sync THEN 1 ELSE 0)
    <3>1. b.at = "pending" /\ b.flip /\ b.pixmap
      BY <2>1, <2>8 DEF Lives
    <3>2. /\ b.exec = IF b.sync THEN b.target - 1 ELSE b.target
          /\ b.target = a.target /\ b.sync = a.sync
      BY <2>4, <2>5, <3>1 DEF Planned
    <3> HIDE DEF b, E, a
    <3>3. b.exec <= msc
      BY <2>4, <2>5, <3>1 DEF Timed
    <3> QED
      BY <2>1, <2>6, <3>2, <3>3
  <2> QED
    BY <2>6, <2>7, <2>8, <2>1
<1> QED
  BY <1>1, IndInvHolds, TimeInvHolds, PTL DEF Spec, NotBeforeItsTime

\* What present_unflip, present_flip_notify and present_restore_screen_pixmap
\* assert holds whenever they may be called, if the driver queues every event
\* it is asked for.
THEOREM AssertionsHold ==
    ASSUME "queue" \notin Refusals
    PROVE  Spec => []AssertsHold
<1>1. IndInv /\ TimeInv => AssertsHold
  <2> SUFFICES ASSUME IndInv, TimeInv
               PROVE  AssertsHold
    OBVIOUS
  <2>1. /\ OneWay(scr)
        /\ \A v \in Ids : Lives(scr.vb[v], v, scr.pending, scr.cur.pixmap, None)
    BY DEF IndInv, Mid, Request
  <2>2. scr.flips = {scr.pending} \ {None}
    BY DEF TimeInv, InTime, Flown
  <2>3. \A v \in Ids : scr.vb[v].at = "pending" <=> v = scr.pending
    BY <2>1 DEF Lives
  <2> QED
    BY <2>1, <2>2, <2>3 DEF OneWay, AssertsHold
<1> QED
  BY <1>1, IndInvHolds, TimeInvHolds, PTL

-----------------------------------------------------------------------------
(***************************************************************************)
(* What is copied is not hidden behind a flip.  r are the requests as they *)
(* were before the step.  Of a call these lemmas say that it dims the      *)
(* screen (Dims: no flip shows a window that none showed, and nothing is   *)
(* copied), or goes Onward: copies too, to windows that no flip shows.     *)
(***************************************************************************)

\* the window that a flip shows, and that no unflip or other flip under way or
\* made since the step began takes the screen from
Facing(s, r) ==
    IF s.pending = None
    THEN IF s.unflip THEN None ELSE s.cur.window
    ELSE IF s.vb[s.pending].abort \/ r[s.pending].at # "pending" THEN None
    ELSE s.vb[s.pending].window

\* Request v may have been copied since only to a window that no flip shows, and
\* does not become the flip that was pending.
Spared(s, v, r) ==
    LET b == s.vb[v]
    IN  /\ r[v].at \in {"exec", "flip"} =>
              /\ r[v].window # None /\ b.window \in {r[v].window, None}
              /\ b.mode = "copy" => Facing(s, r) # r[v].window
        /\ r[v].at = "pending" => b.at \notin {"exec", "flip"}

Veiled(s, r) == \A v \in Ids : Spared(s, v, r)

\* Nothing is copied, or shown by a flip, that was not.
Still(s, t, u) ==
    /\ t.vb[u].at \in {"exec", "flip"} => s.vb[u].at \in {"exec", "flip"}
    /\ t.vb[u].window \in {s.vb[u].window, None}
    /\ t.vb[u].mode = "copy" => s.vb[u].mode = "copy"

Dims(s, t, r) ==
    /\ \A u \in Ids : Still(s, t, u)
    /\ Facing(t, r) \in {Facing(s, r), None}

\* What may be copied since is not shown by a flip.
Onward(s, t, r) == Veiled(t, r) /\ Facing(t, r) \in {Facing(s, r), None}

LEMMA DimsTwice ==
    ASSUME NEW r, NEW s, NEW t, NEW u, Dims(s, t, r), Dims(t, u, r)
    PROVE  Dims(s, u, r)
  BY DEF Dims, Still

LEMMA OnwardTwice ==
    ASSUME NEW r, NEW s, NEW t, NEW u, Onward(s, t, r), Onward(t, u, r)
    PROVE  Onward(s, u, r)
  BY DEF Onward

\* What changes request v only, otherwise dims.
LEMMA SpareOne ==
    ASSUME NEW r, NEW s, NEW t, NEW v, Veiled(s, r), \A u \in Ids \ {v} : Still(s, t, u),
           Facing(t, r) \in {Facing(s, r), None}, v \in Ids => Spared(t, v, r)
    PROVE  Onward(s, t, r)
<1>1. ASSUME NEW u \in Ids \ {v} PROVE Spared(t, u, r)
  <2>1. Spared(s, u, r) /\ Still(s, t, u)
    BY DEF Veiled
  <2> QED
    BY <2>1 DEF Spared, Still
<1> QED
  BY <1>1 DEF Onward, Veiled

LEMMA DimsOnward ==
    ASSUME NEW r, NEW s, NEW t, Veiled(s, r), Dims(s, t, r)
    PROVE  Onward(s, t, r)
<1>1. ASSUME NEW u \in Ids PROVE Spared(t, u, r)
  <2>1. Spared(s, u, r) /\ Still(s, t, u)
    BY DEF Veiled, Dims
  <2>2. Facing(t, r) \in {Facing(s, r), None}
    BY DEF Dims
  <2> QED
    BY <2>1, <2>2 DEF Spared, Still
<1> QED
  BY <1>1 DEF Onward, Veiled, Dims

\* What changes request v only.
Rewrites(s, t, v) ==
    /\ t.pending = s.pending /\ t.unflip = s.unflip /\ t.cur = s.cur
    /\ \A u \in Ids \ {v} : t.vb[u] = s.vb[u]

LEMMA RewritesFacing ==
    ASSUME NEW s, Typed(s), NEW t, NEW v, NEW r, Rewrites(s, t, v),
           v = s.pending => /\ t.vb[v].window \in {s.vb[v].window, None}
                            /\ s.vb[v].abort => t.vb[v].abort \/ t.vb[v].window = None
    PROVE  Facing(t, r) \in {Facing(s, r), None}
<1>1. CASE s.pending = None
  BY <1>1 DEF Rewrites, Facing
<1>2. CASE s.pending # None /\ s.pending # v
  <2>1. s.pending \in Ids \ {v}
    BY <1>2 DEF Typed
  <2> QED
    BY <1>2, <2>1 DEF Rewrites, Facing
<1>3. CASE s.pending # None /\ s.pending = v
  BY <1>3 DEF Rewrites, Facing
<1> QED
  BY <1>1, <1>2, <1>3

LEMMA RewritesDims ==
    ASSUME NEW s, Typed(s), NEW t, NEW v \in Ids, NEW r, Rewrites(s, t, v), Still(s, t, v),
           s.vb[v].abort => t.vb[v].abort \/ t.vb[v].window = None
    PROVE  Dims(s, t, r)
<1>1. \A u \in Ids : Still(s, t, u)
  BY DEF Rewrites, Still
<1>2. Facing(t, r) \in {Facing(s, r), None}
  BY RewritesFacing DEF Still
<1> QED
  BY <1>1, <1>2 DEF Dims

LEMMA WithRewrites ==
    ASSUME NEW s, Typed(s), NEW v \in Ids, NEW b
    PROVE  Rewrites(s, With(s, v, b), v) /\ With(s, v, b).vb[v] = b
<1> DEFINE t == With(s, v, b)
<1>1. /\ t.vb = [s.vb EXCEPT ![v] = b] /\ t.vb[v] = b
      /\ \A u \in Ids \ {v} : t.vb[u] = s.vb[u]
      /\ t.pending = s.pending /\ t.unflip = s.unflip /\ t.cur = s.cur
  BY WithFields
<1> HIDE DEF t
<1>2. Rewrites(s, t, v) /\ t.vb[v] = b
  BY <1>1 DEF Rewrites
<1> QED
  BY <1>2 DEF t

LEMMA WithDims ==
    ASSUME NEW s, Typed(s), NEW v \in Ids, NEW b, NEW r,
           b.at \in {s.vb[v].at, "none"}, b.window = s.vb[v].window,
           b.mode = s.vb[v].mode, b.abort = s.vb[v].abort
    PROVE  Dims(s, With(s, v, b), r) /\ With(s, v, b).vb[v] = b
<1> DEFINE t == With(s, v, b)
<1>1. Rewrites(s, t, v) /\ t.vb[v] = b
  BY WithRewrites
<1> HIDE DEF t
<1>2. Still(s, t, v)
  BY <1>1 DEF Still
<1>3. Dims(s, t, r)
  BY <1>1, <1>2, RewritesDims
<1> QED
  BY <1>1, <1>3 DEF t

LEMMA RequeuedRewrites ==
    ASSUME NEW s, Typed(s), NEW v \in Ids, NEW b, NEW q
    PROVE  Rewrites(s, Requeued(s, v, b, q), v) /\ Requeued(s, v, b, q).vb[v] = b
<1> DEFINE g == [s.vb EXCEPT ![v] = b]
           t == Requeued(s, v, b, q)
<1>1. t = [s EXCEPT !.queue = q, !.vb = g]
  BY DEF Requeued
<1>2. g[v] = b /\ \A u \in Ids \ {v} : g[u] = s.vb[u]
  BY DEF Typed
<1> HIDE DEF g, t
<1>3. t.vb = g /\ t.pending = s.pending /\ t.unflip = s.unflip /\ t.cur = s.cur
  BY <1>1 DEF Typed
<1> QED
  BY <1>2, <1>3 DEF Rewrites, t

LEMMA PostRewrites ==
    ASSUME NEW s, Typed(s), NEW v \in Ids, NEW mode
    PROVE  LET t == Post(s, v, mode)
           IN  Rewrites(s, t, v) /\ t.vb[v].at = "gone" /\ t.vb[v].window = None /\ t.vb[v].mode = mode
<1> DEFINE b == s.vb[v]
           c == [[b EXCEPT !.completed = @ + 1] EXCEPT !.mode = mode]
           u == With(s, v, c)
           d == Remains(c, "gone")
           f == [x \in Ids |-> IF x \in {v} THEN Remains(u.vb[x], "gone") ELSE u.vb[x]]
           q == Without(u.queue, {v})
           t == Post(s, v, mode)
<1>1. t = Destroyed(u, {v}, "gone")
  BY DEF Post, With
<1>2. t = [u EXCEPT !.queue = q, !.vb = f]
  BY <1>1 DEF Destroyed, Remains
<1>3. c.mode = mode
  <2>1. b \in Vblank
    BY DEF Typed
  <2> QED
    BY <2>1 DEF Vblank
<1>4. d.at = "gone" /\ d.window = None /\ d.mode = c.mode
  BY DEF Remains, NoVblank
<1> HIDE DEF c, q
<1>5. Rewrites(s, u, v) /\ u.vb[v] = c
  BY WithRewrites
<1>6. DOMAIN u = DOMAIN s
  BY DEF With
<1> HIDE DEF u, d
<1>7. f[v] = d /\ \A x \in Ids \ {v} : f[x] = u.vb[x]
  BY <1>5 DEF d
<1> HIDE DEF f, t
<1>8. t.vb = f /\ t.pending = u.pending /\ t.unflip = u.unflip /\ t.cur = u.cur
  <2>1. {"queue", "vb", "pending", "unflip", "cur"} \subseteq DOMAIN s
    BY DEF Typed
  <2> QED
    BY <1>2, <1>6, <2>1
<1>9. Rewrites(s, t, v) /\ t.vb[v] = d
  BY <1>5, <1>7, <1>8 DEF Rewrites
<1> QED
  BY <1>3, <1>4, <1>9 DEF t

-----------------------------------------------------------------------------
(* The small steps of a call.                                              *)

LEMMA SmallDims ==
    ASSUME NEW s, Typed(s), NEW v \in Ids, NEW r
    PROVE  /\ Dims(s, QueueVblank(s, v), r) /\ QueueVblank(s, v).vb = s.vb
           /\ Dims(s, Refused(s, v), r) /\ Refused(s, v).vb[v].window = s.vb[v].window
           /\ Dims(s, [s EXCEPT !.vb[v].callback = TRUE], r)
           /\ Dims(s, Idled(s, v), r) /\ Idled(s, v).vb[v].window = s.vb[v].window
           /\ Dims(s, TakenOut(s, v), r) /\ TakenOut(s, v).vb[v].window = s.vb[v].window
<1> DEFINE b == s.vb[v]
           refused == [b EXCEPT !.refused = TRUE]
           called == [b EXCEPT !.callback = TRUE]
           idled == [b EXCEPT !.idled = @ + 1]
           out == [b EXCEPT !.at = "none"]
<1>1. b \in Vblank
  BY DEF Typed
<1>2. /\ refused.at = b.at /\ refused.window = b.window /\ refused.mode = b.mode
      /\ refused.abort = b.abort
      /\ called.at = b.at /\ called.window = b.window /\ called.mode = b.mode
      /\ called.abort = b.abort
      /\ idled.at = b.at /\ idled.window = b.window /\ idled.mode = b.mode
      /\ idled.abort = b.abort
      /\ out.at = "none" /\ out.window = b.window /\ out.mode = b.mode /\ out.abort = b.abort
  BY <1>1 DEF Vblank
<1>3. /\ Refused(s, v) = With(s, v, refused) /\ Idled(s, v) = With(s, v, idled)
      /\ [s EXCEPT !.vb[v].callback = TRUE] = With(s, v, called)
  BY DEF Refused, Idled, With
<1> HIDE DEF refused, called, idled, out
<1>4. /\ Dims(s, Refused(s, v), r) /\ Refused(s, v).vb[v].window = b.window
      /\ Dims(s, [s EXCEPT !.vb[v].callback = TRUE], r)
      /\ Dims(s, Idled(s, v), r) /\ Idled(s, v).vb[v].window = b.window
  <2>1. Dims(s, With(s, v, refused), r) /\ With(s, v, refused).vb[v] = refused
    BY <1>2, WithDims
  <2>2. Dims(s, With(s, v, idled), r) /\ With(s, v, idled).vb[v] = idled
    BY <1>2, WithDims
  <2>3. Dims(s, With(s, v, called), r) /\ With(s, v, called).vb[v] = called
    BY <1>2, WithDims
  <2> QED
    BY <1>2, <1>3, <2>1, <2>2, <2>3
<1>5. Dims(s, QueueVblank(s, v), r) /\ QueueVblank(s, v).vb = s.vb
  <2> DEFINE t == QueueVblank(s, v)
  <2>1. t.vb = s.vb /\ t.pending = s.pending /\ t.unflip = s.unflip /\ t.cur = s.cur
    BY OwedFields
  <2> HIDE DEF t
  <2>2. Dims(s, t, r)
    BY <2>1 DEF Dims, Still, Facing
  <2> QED
    BY <2>1, <2>2 DEF t
<1>6. Dims(s, TakenOut(s, v), r) /\ TakenOut(s, v).vb[v].window = b.window
  <2> DEFINE q == Without(s.queue, {v})
             t == Requeued(s, v, out, q)
  <2>1. TakenOut(s, v) = t
    BY DEF TakenOut, Requeued, out
  <2> HIDE DEF q
  <2>2. Rewrites(s, t, v) /\ t.vb[v] = out
    BY RequeuedRewrites
  <2> HIDE DEF t
  <2>3. Still(s, t, v)
    BY <1>2, <2>2 DEF Still
  <2> QED
    BY <1>2, <2>1, <2>2, <2>3, RewritesDims
<1> QED
  BY <1>4, <1>5, <1>6

LEMMA PostDims ==
    ASSUME NEW s, Typed(s), NEW v \in Ids, NEW r, NEW mode, mode # "copy"
    PROVE  Dims(s, Post(s, v, mode), r)
<1> DEFINE t == Post(s, v, mode)
<1>1. Rewrites(s, t, v) /\ t.vb[v].at = "gone" /\ t.vb[v].window = None /\ t.vb[v].mode = mode
  BY PostRewrites
<1> HIDE DEF t
<1>2. Still(s, t, v)
  BY <1>1 DEF Still
<1>3. Dims(s, t, r)
  BY <1>1, <1>2, RewritesDims
<1> QED
  BY <1>3 DEF t

LEMMA WaitDims ==
    ASSUME NEW s, Typed(s), NEW v \in Ids, NEW r,
           s.vb[v].at \in {"exec", "flip", "pending"}, v = s.pending <=> s.vb[v].at = "pending"
    PROVE  Dims(s, WaitForFlip(s, v), r)
<1> DEFINE b == s.vb[v]
           c == [b EXCEPT !.ready = TRUE]
           d == [[b EXCEPT !.ready = TRUE] EXCEPT !.at = "flip"]
           q == Appended(s.queue, v)
<1>1. b \in Vblank
  BY DEF Typed
<1>2. /\ c.at = b.at /\ c.window = b.window /\ c.mode = b.mode /\ c.abort = b.abort
      /\ d.at = "flip" /\ d.window = b.window /\ d.mode = b.mode /\ d.abort = b.abort
  BY <1>1 DEF Vblank
<1>3. WaitForFlip(s, v) = IF v = s.pending THEN With(s, v, c) ELSE Requeued(s, v, d, q)
  BY DEF WaitForFlip, With, Requeued, Typed
<1> HIDE DEF c, d, q
<1>4. CASE v = s.pending
  BY <1>2, <1>3, <1>4, WithDims
<1>5. CASE v # s.pending
  <2> DEFINE t == Requeued(s, v, d, q)
  <2>1. Rewrites(s, t, v) /\ t.vb[v] = d
    BY RequeuedRewrites
  <2> HIDE DEF t
  <2>2. Still(s, t, v)
    BY <1>2, <1>5, <2>1 DEF Still
  <2>3. Dims(s, t, r)
    BY <1>2, <2>1, <2>2, RewritesDims
  <2> QED
    BY <1>3, <1>5, <2>3 DEF t
<1> QED
  BY <1>4, <1>5

LEMMA RestoredDims ==
    ASSUME NEW s, Typed(s), Drawn(s), NEW r
    PROVE  Dims(s, Restored(s), r)
<1> DEFINE t == Restored(s)
<1>1. t.vb = s.vb /\ t.pending = s.pending /\ t.unflip = s.unflip /\ t.cur = s.cur
  BY RestoredFields
<1> HIDE DEF t
<1>2. Dims(s, t, r)
  BY <1>1 DEF Dims, Still, Facing
<1> QED
  BY <1>2 DEF t

\* An aborted flip faces no window.
LEMMA AbortDims ==
    ASSUME NEW s, NEW H, NEW y, NEW C, Mid(s, H, y, C), s.pending # None, NEW r
    PROVE  LET t == AbortFlip(s)
           IN  /\ Dims(s, t, r) /\ Facing(t, r) = None
               /\ \A u \in Ids : t.vb[u].window = s.vb[u].window
<1> DEFINE t == AbortFlip(s)
           p == s.pending
<1>1. /\ \A u \in Ids \ {p} : t.vb[u] = s.vb[u]
      /\ t.vb[p].abort /\ t.vb[p].window = s.vb[p].window
      /\ t.pending = p /\ t.unflip = s.unflip /\ t.cur = s.cur
  BY AbortMid
<1>2. Unmoved(s, t)
  BY SmallSteps DEF Mid
<1> HIDE DEF t
<1>3. Facing(t, r) = None
  BY <1>1 DEF Facing
<1>4. \A u \in Ids : t.vb[u].window = s.vb[u].window
  BY <1>1
<1>5. ASSUME NEW u \in Ids PROVE Still(s, t, u)
  BY <1>2, <1>4 DEF Unmoved, Same, Still
<1> QED
  BY <1>3, <1>4, <1>5 DEF Dims, t

LEMMA FlipIdleDims ==
    ASSUME NEW s, Typed(s), OneWay(s), NEW r
    PROVE  LET t == FlipIdle(s)
           IN  /\ Dims(s, t, r) /\ t.pending = s.pending
               /\ s.pending = None => Facing(t, r) = None
               /\ \A u \in Ids : t.vb[u].window = s.vb[u].window /\ t.vb[u].abort = s.vb[u].abort
<1> DEFINE t == FlipIdle(s)
           v == s.cur.pixmap
<1>1. CASE v = None
  <2>1. t = s /\ s.cur.window = None
    BY <1>1 DEF FlipIdle, OneWay
  <2>2. Dims(s, s, r)
    BY DEF Dims, Still
  <2>3. s.pending = None => Facing(s, r) = None
    BY <2>1 DEF Facing
  <2> QED
    BY <2>1, <2>2, <2>3
<1>2. CASE v # None
  <2> DEFINE b == [s.vb[v] EXCEPT !.idled = @ + 1]
             a == With(s, v, b)
  <2>1. v \in Ids /\ s.vb[v] \in Vblank
    BY <1>2 DEF Typed
  <2>2. /\ b.at = s.vb[v].at /\ b.window = s.vb[v].window /\ b.mode = s.vb[v].mode
        /\ b.abort = s.vb[v].abort
    BY <2>1 DEF Vblank
  <2>3. t = [a EXCEPT !.cur = NoFlip]
    BY <1>2 DEF FlipIdle, Idled, With
  <2> HIDE DEF b
  <2>4. Rewrites(s, a, v) /\ a.vb[v] = b
    BY <2>1, WithRewrites
  <2>5. DOMAIN a = DOMAIN s
    BY DEF With
  <2> HIDE DEF a, t, v
  <2>6. t.vb = a.vb /\ t.pending = a.pending /\ t.unflip = a.unflip /\ t.cur = NoFlip
    BY <2>3, <2>5 DEF Typed
  <2>7. NoFlip.window = None
    BY DEF NoFlip
  <2>8. ASSUME NEW u \in Ids
        PROVE  /\ Still(s, t, u)
               /\ t.vb[u].window = s.vb[u].window /\ t.vb[u].abort = s.vb[u].abort
    BY <2>2, <2>4, <2>6 DEF Rewrites, Still
  <2>9. s.pending \in Ids \cup {None}
    BY DEF Typed
  <2>10. Facing(t, r) \in {Facing(s, r), None} /\ (s.pending = None => Facing(t, r) = None)
    BY <2>4, <2>6, <2>7, <2>8, <2>9 DEF Facing, Rewrites
  <2>11. t.pending = s.pending
    BY <2>4, <2>6 DEF Rewrites
  <2> QED
    BY <2>8, <2>10, <2>11 DEF Dims, t
<1> QED
  BY <1>1, <1>2

LEMMA AsideDims ==
    ASSUME NEW s, NEW t, NEW r,
           t.vb = s.vb, t.pending = s.pending, t.unflip = s.unflip, t.cur = s.cur
    PROVE  Dims(s, t, r)
  BY DEF Dims, Still, Facing

LEMMA DestroyedDims ==
    ASSUME NEW s, Typed(s), InOrder(s), NEW T, NEW how \in {"gone", "dropped"}, NEW r
    PROVE  Dims(s, Destroyed(s, T, how), r)
<1> DEFINE t == Destroyed(s, T, how)
<1>1. /\ Changed(s, t, T) /\ InOrder(t)
      /\ \A v \in Ids \cap T : t.vb[v] = Remains(s.vb[v], how)
  BY DestroyedFields
<1> HIDE DEF t
<1>2. ASSUME NEW v \in Ids \cap T
      PROVE  t.vb[v].at = how /\ t.vb[v].window = None /\ t.vb[v].mode = s.vb[v].mode
  <2>1. s.vb[v] \in Vblank
    BY DEF Typed
  <2> QED
    BY <1>1, <2>1, RemainsFields
<1>3. ASSUME NEW v \in Ids PROVE Still(s, t, v)
  <2>1. CASE v \in T
    BY <1>2, <2>1 DEF Still
  <2>2. CASE v \notin T
    BY <1>1, <2>2 DEF Changed, Still
  <2> QED
    BY <2>1, <2>2
<1>4. Facing(t, r) \in {Facing(s, r), None}
  <2>1. t.pending = s.pending /\ t.unflip = s.unflip /\ t.cur = s.cur /\ s.pending \in Ids \cup {None}
    BY <1>1 DEF Changed, Typed
  <2>2. CASE s.pending \in Ids \cap T
    BY <1>2, <2>1, <2>2, Names DEF Facing
  <2>3. CASE s.pending \in Ids \ T
    BY <1>1, <2>1, <2>3, Names DEF Facing, Changed
  <2>4. CASE s.pending = None
    BY <2>1, <2>4 DEF Facing
  <2> QED
    BY <2>1, <2>2, <2>3, <2>4
<1> QED
  BY <1>3, <1>4 DEF Dims, t

\* A flip that the driver takes has not been shown before.
LEMMA FlippedDims ==
    ASSUME NEW s, Typed(s), s.pending = None, NEW v \in Ids, NEW r, r[v].at # "pending"
    PROVE  Dims(s, Flipped(s, v), r)
<1> DEFINE b == s.vb[v]
           w == b.window
           c == [b EXCEPT !.at = "pending"]
           g == [s.vb EXCEPT ![v] = c]
           p == IF s.cur.window \in {None, w} THEN s.pix
                ELSE SetTreeFrom(s.pix, s.cur.window, s.cur.pixmap, Screen)
           a == SetTree(SetTree(p, w, v), Root, v)
           t == Flipped(s, v)
<1>1. t = [s EXCEPT !.pending = v, !.flips = @ \cup {v}, !.vb = g, !.pix = a]
  BY DEF Flipped
<1>2. c.at = "pending" /\ c.window = b.window /\ c.mode = b.mode
  <2>1. b \in Vblank
    BY DEF Typed
  <2> QED
    BY <2>1 DEF Vblank
<1> HIDE DEF c, a
<1>3. g[v] = c /\ \A u \in Ids \ {v} : g[u] = s.vb[u]
  BY DEF Typed
<1> HIDE DEF g, t
<1>4. t.vb = g /\ t.pending = v
  BY <1>1 DEF Typed
<1>5. \A u \in Ids : Still(s, t, u)
  BY <1>2, <1>3, <1>4 DEF Still
<1>6. Facing(t, r) = None
  BY <1>4, Names DEF Facing
<1> QED
  BY <1>5, <1>6 DEF Dims, t

\* A copy that waits again.
LEMMA ExecVeil ==
    ASSUME NEW s, Typed(s), NEW r, Veiled(s, r), NEW v \in Ids, Copyable(s.vb[v]),
           r[v].at # "pending", v # s.pending
    PROVE  Onward(s, [QueueVblank(s, v) EXCEPT !.vb[v].at = "exec"], r)
<1> DEFINE b == s.vb[v]
           u == QueueVblank(s, v)
           c == [b EXCEPT !.at = "exec"]
           t == [u EXCEPT !.vb[v].at = "exec"]
<1>1. u.vb = s.vb /\ u.pending = s.pending /\ u.unflip = s.unflip /\ u.cur = s.cur
  BY OwedFields
<1>2. u = [vb |-> u.vb, queue |-> u.queue, pending |-> u.pending,
           unflip |-> u.unflip, cur |-> u.cur, pix |-> u.pix, due |-> u.due,
           flips |-> u.flips, missed |-> u.missed]
  BY OwedFields
<1>3. c.at = "exec" /\ c.window = b.window /\ c.mode = b.mode
  <2>1. b \in Vblank
    BY DEF Typed
  <2> QED
    BY <2>1 DEF Vblank
<1> HIDE DEF u
<1>4. t = With(u, v, [u.vb[v] EXCEPT !.at = "exec"])
  BY DEF With
<1>5. t = With(u, v, c)
  BY <1>1, <1>4
<1> HIDE DEF c, t
<1>6. /\ t.vb[v] = c /\ t.pending = s.pending /\ t.unflip = s.unflip /\ t.cur = s.cur
      /\ \A x \in Ids \ {v} : t.vb[x] = s.vb[x]
  <2>1. DOMAIN u.vb = Ids
    BY <1>1 DEF Typed
  <2> QED
    BY <1>1, <1>2, <1>5, <2>1 DEF With
<1>7. Rewrites(s, t, v)
  BY <1>6 DEF Rewrites
<1>8. Facing(t, r) \in {Facing(s, r), None}
  BY <1>7, RewritesFacing
<1>9. \A x \in Ids \ {v} : Still(s, t, x)
  BY <1>6 DEF Still
<1>10. Spared(t, v, r)
  <2>1. Spared(s, v, r) /\ b.mode # "copy"
    BY DEF Veiled, Copyable
  <2> QED
    BY <1>3, <1>6, <2>1 DEF Spared
<1>11. Onward(s, t, r)
  BY <1>8, <1>9, <1>10, SpareOne
<1> QED
  BY <1>11 DEF t, u

\* A copy to a window that no flip shows.
LEMMA CopyDoneVeil ==
    ASSUME NEW s, Typed(s), NEW r, Veiled(s, r), NEW v \in Ids, s.vb[v].window # None,
           Facing(s, r) # s.vb[v].window
    PROVE  Onward(s, Post(Idled(s, v), v, "copy"), r)
<1> DEFINE u == Idled(s, v)
           t == Post(u, v, "copy")
           b == [s.vb[v] EXCEPT !.idled = @ + 1]
<1>1. u = With(s, v, b)
  BY DEF Idled, With
<1>2. /\ b \in Vblank /\ b.window \in Living(s) \cup {None} /\ b.window = s.vb[v].window
      /\ b.abort = s.vb[v].abort
  <2>1. s.vb[v] \in Vblank /\ s.vb[v].window \in Living(s) \cup {None}
    BY DEF Typed
  <2> QED
    BY <2>1 DEF Vblank
<1> HIDE DEF b, u
<1>3. Typed(u) /\ Rewrites(s, u, v)
  BY <1>1, <1>2, WithTyped, WithRewrites
<1>4. Rewrites(u, t, v) /\ t.vb[v].at = "gone" /\ t.vb[v].window = None /\ t.vb[v].mode = "copy"
  BY <1>3, PostRewrites
<1> HIDE DEF t
<1>5. Rewrites(s, t, v)
  BY <1>3, <1>4 DEF Rewrites
<1>6. Facing(t, r) \in {Facing(s, r), None}
  BY <1>4, <1>5, RewritesFacing
<1>7. \A x \in Ids \ {v} : Still(s, t, x)
  BY <1>5 DEF Rewrites, Still
<1>8. Spared(t, v, r)
  <2>1. Spared(s, v, r)
    BY DEF Veiled
  <2> QED
    BY <1>4, <1>6, <2>1 DEF Spared
<1>9. Onward(s, t, r)
  BY <1>6, <1>7, <1>8, SpareOne
<1> QED
  BY <1>9 DEF t, u


-----------------------------------------------------------------------------
(* Calls that call back.                                                   *)

\* What present_unflip leaves behind, for a copy to the window that was flipped.
UnflipsVeiled(s, v, U, r) ==
    s.pending = None /\ ~s.unflip /\ s.cur.window = s.vb[v].window =>
        \A u \in U : Veiled(u, r) /\ Facing(u, r) = None

LEMMA AlikeVeil ==
    ASSUME NEW s, NEW t, NEW v, Alike(s, t, v), NEW U, NEW r, UnflipsVeiled(s, v, U, r)
    PROVE  UnflipsVeiled(t, v, U, r)
  BY DEF UnflipsVeiled, Alike

LEMMA CopyTargetVeil ==
    ASSUME NEW s, NEW H, NEW y, NEW C, Good(s, H, y, C), NEW r, Veiled(s, r),
           NEW v \in Ids, v \in H, v # y, Copyable(s.vb[v]),
           NEW U, Unflips(s, v, U, H, y, C), UnflipsVeiled(s, v, U, r),
           NEW t \in CopyTarget(s, v, U)
    PROVE  Onward(s, t, r) /\ Facing(t, r) # s.vb[v].window
<1> DEFINE w == s.vb[v].window
<1>0. Mid(s, H, y, C) /\ Typed(s) /\ w # None
  BY DEF Good, Mid, Copyable
<1>1. CASE t = s /\ (s.pending # None \/ s.unflip \/ w # s.cur.window)
           /\ (s.pending # None => w # s.vb[s.pending].window)
  BY <1>0, <1>1 DEF Onward, Facing
<1>2. CASE t = AbortFlip(s) /\ s.pending # None
  <2>1. Dims(s, t, r) /\ Facing(t, r) = None
    BY <1>0, <1>2, AbortDims
  <2> QED
    BY <1>0, <2>1, DimsOnward
<1>3. ASSUME s.pending = None, ~s.unflip, s.cur.window = s.vb[v].window,
             NEW u \in U, t = [u EXCEPT !.vb[v] = s.vb[v]]
      PROVE  Onward(s, t, r) /\ Facing(t, r) # s.vb[v].window
  <2> DEFINE b == s.vb[v]
  <2>1. Good(u, H, y, C) /\ u.vb[v].at = "none"
    BY <1>3 DEF Unflips
  <2>2. Mid(u, H, y, C) /\ Typed(u) /\ v # u.pending
    BY <2>1 DEF Good, Mid, Request, Lives
  <2>3. Veiled(u, r) /\ Facing(u, r) = None
    BY <1>3 DEF UnflipsVeiled
  <2>4. t = With(u, v, b)
    BY <1>3 DEF With
  <2>5. Rewrites(u, t, v) /\ t.vb[v] = b
    BY <2>2, <2>4, WithRewrites
  <2>6. Facing(t, r) = None
    BY <2>2, <2>3, <2>5, RewritesFacing
  <2>7. \A x \in Ids \ {v} : Still(u, t, x)
    BY <2>5 DEF Rewrites, Still
  <2>8. Spared(t, v, r)
    <3>1. Spared(s, v, r) /\ b.mode # "copy"
      BY DEF Veiled, Copyable
    <3> QED
      BY <2>5, <3>1 DEF Spared
  <2>9. Onward(u, t, r)
    BY <2>3, <2>6, <2>7, <2>8, SpareOne
  <2> QED
    BY <1>0, <2>6, <2>9 DEF Onward
<1> QED
  BY <1>1, <1>2, <1>3 DEF CopyTarget

LEMMA CopiedVeil ==
    ASSUME NEW s, NEW H, NEW y, NEW C, Good(s, H, y, C), NEW r, Veiled(s, r),
           NEW v \in Ids, v \in H, v # y, Copyable(s.vb[v]), r[v].at # "pending", NEW now \in Nat,
           NEW U, Unflips(s, v, U, H, y, C), UnflipsVeiled(s, v, U, r),
           NEW t \in Copied(s, v, now, U)
    PROVE  Onward(s, t, r)
<1>1. PICK a \in CopyTarget(s, v, U) :
          \/ \E u \in Early(a, v, now) : t = [u EXCEPT !.vb[v].at = "exec"]
          \/ \E u \in OnTime(a, v, now) : t = Post(Idled(u, v), v, "copy")
  BY DEF Copied
<1>2. /\ Good(a, H, y, C) /\ a.vb[v] = s.vb[v] /\ Copyable(a.vb[v])
      /\ Mid(a, H, y, C) /\ Typed(a) /\ v # a.pending
  <2>1. Good(a, H, y, C) /\ Kept(s, a, v) /\ a.vb[v] = s.vb[v]
    BY CopyTargetGood
  <2>2. Mid(a, H, y, C) /\ Copyable(a.vb[v])
    BY <2>1 DEF Good
  <2>3. Typed(a) /\ v # a.pending
    BY <2>2 DEF Mid, Request, Lives, Copyable
  <2> QED
    BY <2>1, <2>2, <2>3
<1>3. Onward(s, a, r) /\ Facing(a, r) # a.vb[v].window /\ a.vb[v].window # None
  <2>1. Onward(s, a, r) /\ Facing(a, r) # s.vb[v].window
    BY CopyTargetVeil
  <2> QED
    BY <1>2, <2>1 DEF Copyable
<1>4. CASE \E u \in Early(a, v, now) : t = [u EXCEPT !.vb[v].at = "exec"]
  <2>1. t = [QueueVblank(a, v) EXCEPT !.vb[v].at = "exec"]
    BY <1>4 DEF Early
  <2>2. Onward(a, t, r)
    BY <1>2, <1>3, <2>1, ExecVeil DEF Onward
  <2> QED
    BY <1>3, <2>2, OnwardTwice
<1>5. ASSUME NEW u \in OnTime(a, v, now), t = Post(Idled(u, v), v, "copy")
      PROVE  Onward(s, t, r)
  <2>1. Typed(u) /\ Dims(a, u, r) /\ u.vb[v].window = a.vb[v].window
    <3>1. CASE u = a
      <4>1. Dims(a, a, r)
        BY DEF Dims, Still
      <4> QED
        BY <1>2, <3>1, <4>1
    <3>2. CASE u = Refused(a, v)
      <4>1. Mid(u, H, y, C)
        BY <1>2, <3>2, RefusedMid
      <4>2. Dims(a, Refused(a, v), r) /\ Refused(a, v).vb[v].window = a.vb[v].window
        BY <1>2, SmallDims
      <4> QED
        BY <3>2, <4>1, <4>2 DEF Mid
    <3> QED
      BY <3>1, <3>2 DEF OnTime
  <2>2. Onward(a, u, r)
    BY <1>3, <2>1, DimsOnward DEF Onward
  <2>3. Facing(u, r) # u.vb[v].window /\ u.vb[v].window # None
    BY <1>3, <2>1, <2>2 DEF Onward
  <2>4. Onward(u, t, r)
    BY <1>5, <2>1, <2>2, <2>3, CopyDoneVeil DEF Onward
  <2> QED
    BY <1>3, <2>2, <2>4, OnwardTwice
<1> QED
  BY <1>1, <1>4, <1>5

LEMMA PerformedVeil ==
    ASSUME NEW s, NEW H, NEW y, NEW C, Good(s, H, y, C), NEW r, Veiled(s, r),
           NEW v \in Ids, v \in H, s.vb[v].at \in {"exec", "flip"},
           ~MustWait(s, s.vb[v]), NEW now \in Nat,
           NEW U, Unflips(s, v, U, H, y, C), UnflipsVeiled(s, v, U, r),
           NEW t \in Performed(s, v, now, U)
    PROVE  Onward(s, t, r)
<1> DEFINE b == s.vb[v]
           n == [b EXCEPT !.at = "none"]
           a == TakenOut(s, v)
           m == [[n EXCEPT !.flip = FALSE] EXCEPT !.exec = b.target]
           failed == [a EXCEPT !.vb[v].flip = FALSE, !.vb[v].exec = b.target]
<1>0. /\ Mid(s, H, y, C) /\ Typed(s) /\ b \in Vblank /\ b.window \in Living(s) \cup {None}
      /\ v # y /\ r[v].at # "pending"
  <2>1. Mid(s, H, y, C)
    BY DEF Good
  <2>2. v # y
    BY <2>1, OneReported
  <2>3. Spared(s, v, r)
    BY DEF Veiled
  <2> QED
    BY <2>1, <2>2, <2>3 DEF Mid, Typed, Spared
<1>1. /\ Good(a, H, y, C) /\ a.vb[v] = n /\ Changed(s, a, {v}) /\ Typed(a)
  <2>1. /\ Mid(a, H, y, C) /\ \A D : Shown(s, D) => Shown(a, D)
        /\ Kept(s, a, v)
        /\ a.vb[v] = n /\ Changed(s, a, {v})
    BY <1>0, TakenOutMid
  <2> QED
    BY <2>1 DEF Good, Mid
<1>2. Dims(s, a, r)
  BY <1>0, SmallDims
<1>3. /\ n \in Vblank /\ n.at = "none" /\ n.window = b.window /\ n.abort = b.abort
      /\ n.flip = b.flip /\ n.pixmap = b.pixmap /\ n.idled = b.idled
      /\ n.completed = b.completed /\ n.mode = b.mode
  BY <1>0 DEF Vblank
<1>4. Alike(s, a, v)
  BY <1>1, <1>3 DEF Alike, Changed
<1>5. Unflips(a, v, U, H, y, C) /\ UnflipsVeiled(a, v, U, r)
  BY <1>4, AlikeUnflips, AlikeVeil
<1>6. /\ b.window # None /\ ~b.abort /\ b.idled = (IF b.pixmap THEN 0 ELSE 1)
      /\ b.completed = 0 /\ b.mode = "none"
  <2>1. Request(b, v, s.pending, s.cur.pixmap, s.due, H, y, C)
    BY <1>0 DEF Mid
  <2> QED
    BY <1>0, <2>1 DEF Request, Lives
<1>7. Onward(s, a, r) /\ Veiled(a, r)
  BY <1>2, DimsOnward DEF Onward
<1>8. CASE ~b.pixmap
  <2>1. t = Post(a, v, "skip")
    BY <1>8 DEF Performed
  <2> HIDE DEF a
  <2>2. Dims(a, t, r)
    BY <1>1, <2>1, PostDims
  <2> QED
    BY <1>2, <2>2, DimsTwice, DimsOnward
<1>9. CASE b.pixmap /\ ~b.flip
  <2>1. t \in Copied(a, v, now, U)
    BY <1>9 DEF Performed
  <2>2. Copyable(a.vb[v])
    BY <1>1, <1>3, <1>6, <1>9 DEF Copyable
  <2> HIDE DEF a
  <2>3. Onward(a, t, r)
    BY <1>0, <1>1, <1>5, <1>7, <2>1, <2>2, CopiedVeil
  <2> QED
    BY <1>7, <2>3, OnwardTwice
<1>10. CASE b.pixmap /\ b.flip
  <2>1. s.pending = None /\ a.pending = None
    BY <1>1, <1>10 DEF MustWait, Changed
  <2>2. t = Flipped(a, v) \/ t \in Copied(failed, v, now, U)
    BY <1>10 DEF Performed
  <2>3. CASE t = Flipped(a, v)
    <3> HIDE DEF a
    <3>1. Dims(a, t, r)
      BY <1>0, <1>1, <2>1, <2>3, FlippedDims
    <3> QED
      BY <1>2, <3>1, DimsTwice, DimsOnward
  <2>4. CASE t \in Copied(failed, v, now, U)
    <3>1. failed = With(a, v, m)
      <4>1. failed = With(a, v, [[a.vb[v] EXCEPT !.flip = FALSE] EXCEPT !.exec = b.target])
        <5> HIDE DEF a
        <5> QED
          BY <1>1 DEF With, Typed
      <4> QED
        BY <1>1, <4>1
    <3>2. /\ m \in Vblank /\ m.window = b.window /\ m.at = "none" /\ ~m.abort /\ ~m.flip
          /\ m.pixmap /\ m.idled = 0 /\ m.completed = 0 /\ m.mode = "none"
      <4> DEFINE k == [n EXCEPT !.flip = FALSE]
      <4>1. /\ k \in Vblank /\ k.window = b.window /\ k.at = "none" /\ ~k.abort /\ ~k.flip
            /\ k.pixmap /\ k.idled = 0 /\ k.completed = 0 /\ k.mode = "none"
        BY <1>3, <1>6, <1>10 DEF Vblank
      <4>2. m = [k EXCEPT !.exec = b.target] /\ b.target \in MSCs
        BY <1>0 DEF Vblank
      <4> HIDE DEF k, m
      <4> QED
        BY <4>1, <4>2 DEF Vblank
    <3> HIDE DEF m, failed, a, n
    <3>3. Mid(a, H, y, C) /\ Typed(a) /\ Shown(a, C) /\ None \in C
      BY <1>1 DEF Good, Mid
    <3>4. Request(m, v, a.pending, a.cur.pixmap, a.due, H, y, C)
      <4>1. Request(a.vb[v], v, a.pending, a.cur.pixmap, a.due, H, y, C)
        BY <3>3 DEF Mid
      <4> QED
        BY <1>0, <1>1, <1>3, <3>2, <4>1 DEF Request, Lives, Covered
    <3>5. m.at # "flip" /\ a.vb[v].at # "flip" /\ m.window \in Living(a) \cup {None} /\ y \in H \cup {None}
      BY <1>0, <1>1, <1>3, <3>2, OneReported DEF Changed, Living
    <3>6. Mid(With(a, v, m), H, y, C)
      BY <3>2, <3>3, <3>4, <3>5, WithMid
    <3>7. /\ Kept(a, With(a, v, m), v)
          /\ \A D : Shown(a, D) => Shown(With(a, v, m), D)
      BY <3>3, WithKept
    <3>8. m.window = a.vb[v].window /\ m.at = a.vb[v].at /\ m.mode = a.vb[v].mode /\ m.abort = a.vb[v].abort
      <4>1. m.abort = FALSE /\ n.abort = FALSE
        BY <1>3, <1>6, <3>2 DEF Vblank
      <4> QED
        BY <1>1, <1>3, <1>6, <3>2, <4>1
    <3>9. Alike(a, With(a, v, m), v) /\ With(a, v, m).vb[v] = m
      BY <3>3, <3>8, WithAlike
    <3>10. Dims(a, With(a, v, m), r) /\ With(a, v, m).vb[v] = m
      BY <3>3, <3>8, WithDims
    <3>11. Good(failed, H, y, C) /\ Copyable(failed.vb[v])
      BY <1>6, <3>1, <3>2, <3>3, <3>6, <3>7, <3>9 DEF Good, Copyable
    <3>12. Unflips(failed, v, U, H, y, C) /\ UnflipsVeiled(failed, v, U, r)
      BY <1>5, <3>1, <3>9, AlikeUnflips, AlikeVeil
    <3>13. Onward(a, failed, r) /\ Veiled(failed, r)
      BY <1>7, <3>1, <3>10, DimsOnward DEF Onward
    <3>14. Onward(failed, t, r)
      BY <1>0, <2>4, <3>11, <3>12, <3>13, CopiedVeil
    <3> QED
      BY <1>7, <3>13, <3>14, OnwardTwice
  <2> QED
    BY <2>2, <2>3, <2>4
<1> QED
  BY <1>8, <1>9, <1>10

LEMMA ExecutedVeil ==
    ASSUME NEW s, NEW H, NEW y, NEW C, Good(s, H, y, C), NEW r, Veiled(s, r),
           NEW v \in Ids, v \in H, s.vb[v].at \in {"exec", "flip", "pending"}, NEW now \in Nat,
           NEW U, Unflips(s, v, U, H, y, C), UnflipsVeiled(s, v, U, r),
           NEW t \in Executed(s, v, now, U)
    PROVE  Onward(s, t, r)
<1>0. Mid(s, H, y, C) /\ Typed(s)
  BY DEF Good, Mid
<1>1. CASE t \in Early(s, v, now)
  <2>1. t = QueueVblank(s, v)
    BY <1>1 DEF Early
  <2>2. Dims(s, t, r)
    BY <1>0, <2>1, SmallDims
  <2> QED
    BY <2>2, DimsOnward
<1>2. ASSUME NEW a \in OnTime(s, v, now),
             t \in (IF FenceWaits(a.vb[v]) THEN {[a EXCEPT !.vb[v].callback = TRUE]}
                    ELSE IF MustWait(a, a.vb[v]) THEN {WaitForFlip(a, v)}
                    ELSE Performed(a, v, now, U))
      PROVE  Onward(s, t, r)
  <2>1. /\ Good(a, H, y, C) /\ a.vb[v].at = s.vb[v].at
        /\ Unflips(a, v, U, H, y, C) /\ UnflipsVeiled(a, v, U, r)
        /\ Onward(s, a, r)
    <3>1. CASE a = s
      BY <3>1 DEF Onward
    <3>2. CASE a = Refused(s, v)
      <4> DEFINE b == [s.vb[v] EXCEPT !.refused = TRUE]
      <4>1. s.vb[v] \in Vblank
        BY <1>0 DEF Mid, Typed
      <4>2. /\ a = With(s, v, b) /\ Mid(a, H, y, C) /\ (\A D : Shown(s, D) => Shown(a, D))
            /\ Kept(s, a, v)
        BY <1>0, <3>2, RefusedMid
      <4>3. b.at = s.vb[v].at /\ b.window = s.vb[v].window
        BY <4>1 DEF Vblank
      <4> HIDE DEF b
      <4>4. Alike(s, a, v) /\ a.vb[v] = b
        BY <1>0, <4>2, <4>3, WithAlike
      <4>5. Unflips(a, v, U, H, y, C) /\ UnflipsVeiled(a, v, U, r)
        BY <4>4, AlikeUnflips, AlikeVeil
      <4>6. Dims(s, a, r)
        BY <1>0, <3>2, SmallDims
      <4>7. Onward(s, a, r)
        BY <4>6, DimsOnward
      <4> QED
        BY <4>2, <4>3, <4>4, <4>5, <4>7 DEF Good
    <3> QED
      BY <3>1, <3>2 DEF OnTime
  <2>2. Mid(a, H, y, C) /\ Typed(a) /\ Veiled(a, r)
    BY <2>1 DEF Good, Mid, Onward
  <2>3. CASE FenceWaits(a.vb[v])
    <3>1. t = [a EXCEPT !.vb[v].callback = TRUE]
      BY <1>2, <2>3
    <3>2. Dims(a, [a EXCEPT !.vb[v].callback = TRUE], r)
      BY <2>2, SmallDims
    <3>3. Onward(a, t, r)
      BY <2>2, <3>1, <3>2, DimsOnward
    <3> QED
      BY <2>1, <3>3, OnwardTwice
  <2>4. /\ v = a.pending <=> a.vb[v].at = "pending"
        /\ a.vb[v].at = "pending" => a.vb[v].flip /\ a.vb[v].pixmap
    <3>1. Request(a.vb[v], v, a.pending, a.cur.pixmap, a.due, H, y, C)
      BY <2>2 DEF Mid
    <3> QED
      BY <3>1 DEF Request, Lives
  <2>5. CASE ~FenceWaits(a.vb[v]) /\ MustWait(a, a.vb[v])
    <3>1. t = WaitForFlip(a, v)
      BY <1>2, <2>5
    <3>2. Dims(a, t, r)
      BY <2>1, <2>2, <2>4, <3>1, WaitDims
    <3>3. Onward(a, t, r)
      BY <2>2, <3>2, DimsOnward
    <3> QED
      BY <2>1, <3>3, OnwardTwice
  <2>6. CASE ~FenceWaits(a.vb[v]) /\ ~MustWait(a, a.vb[v])
    <3>1. a.vb[v].at # "pending"
      BY <2>4, <2>6, Names DEF MustWait
    <3>2. t \in Performed(a, v, now, U)
      BY <1>2, <2>6
    <3>3. Onward(a, t, r)
      BY <2>1, <2>2, <2>6, <3>1, <3>2, PerformedVeil
    <3> QED
      BY <2>1, <3>3, OnwardTwice
  <2> QED
    BY <2>3, <2>5, <2>6
<1> QED
  BY <1>1, <1>2 DEF Executed

LEMMA TryUnflippedVeil ==
    ASSUME NEW s, NEW H, NEW y, NEW C, Good(s, H, y, C), NEW r, Veiled(s, r),
           NEW t \in TryUnflipped(s)
    PROVE  Onward(s, t, r)
<1>1. CASE t = s
  BY <1>1 DEF Onward
<1>2. ASSUME NEW v \in FirstToFlip(s), t \in Executed(s, v, msc, {})
      PROVE  Onward(s, t, r)
  <2>1. v \in Ids /\ s.vb[v].at = "flip"
    BY DEF FirstToFlip, Good, Mid, InOrder
  <2> DEFINE G == H \cup {v}
  <2>2. Good(s, G, y, C) /\ v \in G
    BY MoreGood
  <2> HIDE DEF G
  <2>3. Unflips(s, v, {}, G, y, C) /\ UnflipsVeiled(s, v, {}, r)
    BY DEF Unflips, UnflipsVeiled
  <2> QED
    BY <1>2, <2>1, <2>2, <2>3, ExecutedVeil DEF Good
<1> QED
  BY <1>1, <1>2 DEF TryUnflipped

\* After present_unflip no flip that was there before shows a window.
LEMMA UnflippedVeil ==
    ASSUME NEW s, NEW H, NEW y, NEW C, Mid(s, H, y, C), None \in C, msc \in Nat,
           s.pending = None, ~s.unflip, NEW r, Veiled(s, r), NEW t \in Unflipped(s)
    PROVE  Onward(s, t, r) /\ Facing(t, r) = None
<1> DEFINE a == Restored(s)
<1>0. Typed(s) /\ Drawn(s)
  BY DEF Mid
<1>1. /\ Mid(a, H, y, C) /\ (\A w : Kept(s, a, w)) /\ a.pending = None /\ ~a.unflip
      /\ a.pix[Root] = Screen
  BY RestoredMid
<1>2. Dims(s, a, r)
  BY <1>0, RestoredDims
<1>3. Onward(s, a, r) /\ Veiled(a, r)
  BY <1>2, DimsOnward DEF Onward
<1>4. t = [a EXCEPT !.unflip = TRUE] \/ t \in TryUnflipped(FlipIdle(a))
  BY DEF Unflipped
<1> HIDE DEF a
<1>5. CASE t = [a EXCEPT !.unflip = TRUE]
  <2>1. t.vb = a.vb /\ t.pending = None /\ t.unflip
    BY <1>1, <1>5 DEF Mid, Typed
  <2>2. Facing(t, r) = None /\ Dims(a, t, r)
    BY <2>1 DEF Facing, Dims, Still
  <2> QED
    BY <1>3, <2>2, DimsOnward, OnwardTwice
<1>6. CASE t \in TryUnflipped(FlipIdle(a))
  <2> DEFINE f == FlipIdle(a)
  <2>1. Mid(f, H, y, C) /\ Shown(f, C)
    BY <1>1, FlipIdleMid
  <2>2. Dims(a, f, r) /\ (a.pending = None => Facing(f, r) = None)
    BY <1>1, FlipIdleDims DEF Mid
  <2> HIDE DEF f
  <2>3. Good(f, H, y, C) /\ Onward(a, f, r) /\ Veiled(f, r)
    BY <1>3, <2>1, <2>2, DimsOnward DEF Good, Onward
  <2>4. Onward(f, t, r)
    BY <1>6, <2>3, TryUnflippedVeil DEF f
  <2>5. Facing(t, r) = None
    BY <1>1, <2>2, <2>4 DEF Onward
  <2>6. Onward(s, f, r)
    BY <1>3, <2>3, OnwardTwice
  <2> QED
    BY <2>4, <2>5, <2>6, OnwardTwice
<1> QED
  BY <1>4, <1>5, <1>6

LEMMA ExecuteVeil ==
    ASSUME NEW s, NEW H, NEW y, NEW C, Good(s, H, y, C), NEW r, Veiled(s, r),
           NEW v \in Ids, v \in H, s.vb[v].at \in {"exec", "flip", "pending"},
           NEW now \in Nat, NEW t \in Execute(s, v, now)
    PROVE  Onward(s, t, r)
<1> DEFINE a == TakenOut(s, v)
           U == Unflipped(a)
<1>1. Unflips(s, v, U, H, y, C) /\ UnflipsVeiled(s, v, U, r)
  <2> SUFFICES ASSUME s.pending = None, ~s.unflip, s.cur.window = s.vb[v].window,
                      NEW u \in U
               PROVE  /\ Good(u, H, y, C) /\ Kept(s, u, v) /\ u.vb[v].at = "none"
                      /\ Veiled(u, r) /\ Facing(u, r) = None
    BY DEF Unflips, UnflipsVeiled
  <2>1. Mid(s, H, y, C) /\ None \in C /\ msc \in Nat /\ s.vb[v] \in Vblank /\ Typed(s)
    BY DEF Good, Mid, Typed
  <2>2. s.vb[v].at \in {"exec", "flip"} /\ s.vb[v].window # None
    BY <2>1, Names DEF Mid, Request, Lives
  <2>3. s.cur.pixmap # None
    BY <2>1, <2>2 DEF Mid, OneWay
  <2>4. /\ Mid(a, H, y, C) /\ Kept(s, a, v) /\ a.vb[v] = [s.vb[v] EXCEPT !.at = "none"]
        /\ Changed(s, a, {v})
    BY <2>1, <2>2, TakenOutMid
  <2>5. Dims(s, a, r)
    BY <2>1, SmallDims
  <2> HIDE DEF a
  <2>6. a.vb[v].at = "none" /\ a.pending = None /\ ~a.unflip /\ a.cur.pixmap # None
    BY <2>1, <2>3, <2>4 DEF Changed, Vblank
  <2>7. Good(u, H, y, C) /\ \A w : Kept(a, u, w)
    BY <2>1, <2>4, <2>6, UnflippedGood
  <2>8. u.vb[v].at = "none"
    <3>1. Kept(a, u, None) /\ v # None
      BY <2>7, Names
    <3> QED
      BY <2>6, <3>1 DEF Kept
  <2>9. Veiled(a, r)
    BY <2>5, DimsOnward DEF Onward
  <2>10. Onward(a, u, r) /\ Facing(u, r) = None
    BY <2>1, <2>4, <2>6, <2>9, UnflippedVeil
  <2>11. Kept(s, u, v)
    BY <2>4, <2>7, KeptTwice
  <2> QED
    BY <2>7, <2>8, <2>10, <2>11 DEF Onward
<1>2. t \in Executed(s, v, now, U)
  BY DEF Execute
<1> HIDE DEF U
<1> QED
  BY <1>1, <1>2, ExecutedVeil

LEMMA TryReadyVeil ==
    ASSUME NEW s, NEW H, NEW y, NEW C, Good(s, H, y, C), NEW r, Veiled(s, r),
           NEW t \in TryReady(s)
    PROVE  Onward(s, t, r)
<1>1. CASE t = s
  BY <1>1 DEF Onward
<1>2. ASSUME NEW v \in FirstToFlip(s), t \in Execute(s, v, msc)
      PROVE  Onward(s, t, r)
  <2>1. v \in Ids /\ s.vb[v].at = "flip"
    BY DEF FirstToFlip, Good, Mid, InOrder
  <2> DEFINE G == H \cup {v}
  <2>2. Good(s, G, y, C) /\ v \in G
    BY MoreGood
  <2> HIDE DEF G
  <2> QED
    BY <1>2, <2>1, <2>2, ExecuteVeil DEF Good
<1> QED
  BY <1>1, <1>2 DEF TryReady


\* Nothing that waits before a step has been copied.
Fresh(r) ==
    \A v \in Ids : r[v].at \in {"exec", "flip"} => r[v].window # None /\ r[v].mode # "copy"

LEMMA FreshMid ==
    ASSUME NEW s, NEW H, NEW y, NEW C, Mid(s, H, y, C)
    PROVE  Fresh(s.vb)
  BY DEF Mid, Request, Lives, Fresh

LEMMA StillVeiled ==
    ASSUME NEW s, NEW t, NEW r, Fresh(r), s.vb = r, \A u \in Ids : Still(s, t, u)
    PROVE  Veiled(t, r)
  BY DEF Fresh, Still, Veiled, Spared

LEMMA FlipNotifyVeil ==
    ASSUME NEW s, NEW C, Good(s, {}, None, C), NEW v \in Ids, v = s.pending, NEW r, s.vb = r,
           NEW t \in FlipNotify(s, v)
    PROVE  Veiled(t, r)
<1> DEFINE b == s.vb[v]
           a == Reported(s, v)
           End(u) == IF b.window = None THEN Destroyed(u, {v}, "dropped") ELSE Post(u, v, "flip")
<1>1. PICK u \in (IF b.abort THEN Unflipped(a) ELSE {a}) : t \in TryReady(End(u))
  BY DEF FlipNotify, Reported
<1>2. /\ Mid(a, {v}, v, C) /\ (~b.abort => Shown(a, C)) /\ Kept(s, a, v) /\ None \in C
      /\ a.pending = None /\ ~a.unflip /\ a.cur.pixmap # None
  BY ReportedMid DEF Good
<1>3. Veiled(a, r)
  <2> DEFINE f == FlipIdle(s)
             c == [f.vb[v] EXCEPT !.at = "none"]
             g == [f.vb EXCEPT ![v] = c]
             k == [window |-> s.vb[v].window, pixmap |-> v]
             H == {}
  <2>0. Mid(s, H, None, C) /\ None \in C /\ Typed(s) /\ v # None /\ OneWay(s)
    BY Names DEF Good, Mid
  <2>1. ~s.unflip
    BY <2>0 DEF OneWay
  <2> HIDE DEF H
  <2>2. Mid(f, H, None, C)
    BY <2>0, <2>1, FlipIdleMid
  <2>3. Dims(s, f, r)
    BY <2>0, FlipIdleDims
  <2>4. a = [f EXCEPT !.cur = k, !.pending = None, !.vb = g]
    BY DEF Reported
  <2> HIDE DEF f, k
  <2>5. c.at = "none" /\ c.window = f.vb[v].window /\ c.mode = f.vb[v].mode
    <3>1. f.vb[v] \in Vblank
      BY <2>2 DEF Mid, Typed
    <3> QED
      BY <3>1 DEF Vblank
  <2> HIDE DEF c
  <2>6. g[v] = c /\ \A x \in Ids \ {v} : g[x] = f.vb[x]
    BY <2>2 DEF Mid, Typed
  <2> HIDE DEF g, a
  <2>7. a.vb = g
    BY <2>2, <2>4 DEF Mid, Typed
  <2>8. \A x \in Ids : Still(s, a, x)
    BY <2>3, <2>5, <2>6, <2>7 DEF Dims, Still
  <2>9. Fresh(r)
    BY <2>0, FreshMid
  <2> QED
    BY <2>8, <2>9, StillVeiled
<1>4. Good(u, {v}, v, C) /\ Veiled(u, r)
  <2> HIDE DEF a
  <2>1. CASE b.abort
    <3>1. u \in Unflipped(a)
      BY <1>1, <2>1
    <3> DEFINE H == {v}
    <3>2. Mid(a, H, v, C) /\ msc \in Nat
      BY <1>2 DEF Good
    <3> HIDE DEF H
    <3>3. Good(u, H, v, C) /\ Onward(a, u, r)
      BY <1>2, <1>3, <3>1, <3>2, UnflippedGood, UnflippedVeil
    <3> QED
      BY <3>3 DEF H, Onward
  <2>2. CASE ~b.abort
    BY <1>1, <1>2, <1>3, <2>2 DEF Good
  <2> QED
    BY <2>1, <2>2
<1>5. /\ u.vb[v].at = "none" /\ u.vb[v].completed = 0
      /\ u.vb[v].idled = (IF u.cur.pixmap = v THEN 0 ELSE 1)
      /\ Mid(u, {v}, v, C) /\ Typed(u) /\ InOrder(u) /\ None \in C /\ Shown(u, C)
  BY <1>4 DEF Good, Mid, Request, Lives
<1> HIDE DEF a
<1>6. {v} \ {v} = {}
  OBVIOUS
<1>7. Good(End(u), {}, None, C) /\ Veiled(End(u), r)
  <2>1. CASE b.window = None
    <3> DEFINE T == {v}
               d == Destroyed(u, T, "dropped")
    <3>1. \A D : Shown(u, D) => Shown(d, D)
      BY <1>5, DestroyedFields
    <3>2. Mid(d, {v} \ {v}, None, C)
      <4>1. \A x \in Ids \cap {v} :
               /\ u.vb[x].at # "pending" /\ u.vb[x].completed = IF "dropped" = "gone" THEN 1 ELSE 0
               /\ u.vb[x].idled = (IF u.cur.pixmap = x THEN 0 ELSE 1)
                  \/ ("dropped" = "dropped" /\ u.vb[x].idled = 0)
        BY <1>5
      <4>2. None \notin {v} /\ v \in {v} /\ "dropped" \in {"gone", "dropped"}
        BY Names
      <4> QED
        BY <1>5, <4>1, <4>2, DestroyedMid
    <3>3. End(u) = d
      BY <2>1
    <3> HIDE DEF T
    <3>4. Dims(u, d, r)
      BY <1>5, DestroyedDims
    <3> HIDE DEF d
    <3>5. Veiled(d, r)
      BY <1>4, <3>4, DimsOnward DEF Onward
    <3> QED
      BY <1>5, <1>6, <3>1, <3>2, <3>3, <3>5 DEF Good
  <2>2. CASE b.window # None
    <3> DEFINE d == Post(u, v, "flip")
    <3>1. Mid(d, {v} \ {v}, None, C) /\ (\A D : Shown(u, D) => Shown(d, D)) /\ Kept(u, d, v)
      <4>1. v \in {v} /\ "flip" \in {"copy", "skip", "flip"} /\ None = IF v = v THEN None ELSE v
        OBVIOUS
      <4> QED
        BY <1>5, <4>1, PostMid
    <3>2. Dims(u, d, r)
      BY <1>5, PostDims
    <3> HIDE DEF d
    <3>3. End(u) = d
      BY <2>2 DEF d
    <3>4. Veiled(d, r)
      BY <1>4, <3>2, DimsOnward DEF Onward
    <3> QED
      BY <1>5, <1>6, <3>1, <3>3, <3>4 DEF Good
  <2> QED
    BY <2>1, <2>2
<1> HIDE DEF End
<1> DEFINE H == {}
<1>8. Good(End(u), H, None, C)
  BY <1>7
<1> HIDE DEF H
<1>9. Onward(End(u), t, r)
  BY <1>1, <1>7, <1>8, TryReadyVeil
<1> QED
  BY <1>9 DEF Onward

-----------------------------------------------------------------------------
(* What calls the screen: the driver.                                      *)

LEMMA EventNotifyVeil ==
    ASSUME NEW s, NEW C, NEW v \in Ids, Good(s, {v}, None, C),
           s.vb[v].at # "exec" => Good(s, {}, None, C), NEW r, s.vb = r,
           NEW now \in Nat, NEW t \in EventNotify(s, v, now)
    PROVE  Veiled(t, r)
<1>0. Veiled(s, r)
  <2>1. Fresh(r)
    BY FreshMid DEF Good
  <2>2. \A u \in Ids : Still(s, s, u)
    BY DEF Still
  <2> QED
    BY <2>1, <2>2, StillVeiled
<1>1. CASE v \in Queued(s)
  <2> DEFINE H == {v}
  <2>1. t \in Execute(s, v, now) /\ s.vb[v].at \in {"exec", "flip", "pending"} /\ v \in H
    BY <1>1 DEF EventNotify, Queued
  <2>2. Good(s, H, None, C)
    OBVIOUS
  <2> HIDE DEF H
  <2>3. Onward(s, t, r)
    BY <1>0, <2>1, <2>2, ExecuteVeil
  <2> QED
    BY <2>3 DEF Onward
<1>2. CASE v \notin Queued(s)
  <2>1. Good(s, {}, None, C)
    BY <1>2 DEF Queued
  <2>2. CASE v = s.pending
    <3>1. t \in FlipNotify(s, v)
      BY <1>2, <2>2 DEF EventNotify
    <3> QED
      BY <2>1, <2>2, <3>1, FlipNotifyVeil
  <2>3. CASE v # s.pending
    BY <1>0, <1>2, <2>3 DEF EventNotify
  <2> QED
    BY <2>2, <2>3
<1> QED
  BY <1>1, <1>2


-----------------------------------------------------------------------------
(* Windows that are reconfigured.                                          *)

LEMMA UnplannedDims ==
    ASSUME NEW s, Typed(s), NEW w, NEW whole, NEW r
    PROVE  Dims(s, Unplanned(s, w, whole), r)
<1> DEFINE t == Unplanned(s, w, whole)
<1>1. CASE CheckFlip(s, w, whole)
  <2>1. t = s
    BY <1>1 DEF Unplanned
  <2>2. Dims(s, s, r)
    BY DEF Dims, Still
  <2> QED
    BY <2>1, <2>2
<1>2. CASE ~CheckFlip(s, w, whole)
  <2> DEFINE un(b) == [b EXCEPT !.flip = FALSE, !.exec = IF b.sync THEN b.target ELSE @]
             g == [v \in Ids |-> IF v \in Queued(s) /\ s.vb[v].window = w /\ s.vb[v].flip
                                 THEN un(s.vb[v]) ELSE s.vb[v]]
  <2>1. t = [s EXCEPT !.vb = g]
    BY <1>2 DEF Unplanned
  <2>2. ASSUME NEW b \in Vblank
        PROVE  un(b).at = b.at /\ un(b).window = b.window /\ un(b).mode = b.mode /\ un(b).abort = b.abort
    BY DEF Vblank
  <2> HIDE DEF t, un
  <2>3. \A v \in Ids : g[v] \in {un(s.vb[v]), s.vb[v]}
    OBVIOUS
  <2> HIDE DEF g
  <2>4. /\ t.vb = g /\ t.pending = s.pending /\ t.unflip = s.unflip /\ t.cur = s.cur
        /\ s.pending \in Ids \cup {None}
    BY <2>1 DEF Typed
  <2>5. ASSUME NEW v \in Ids
        PROVE  /\ t.vb[v].at = s.vb[v].at /\ t.vb[v].window = s.vb[v].window
               /\ t.vb[v].mode = s.vb[v].mode /\ t.vb[v].abort = s.vb[v].abort
    <3>1. s.vb[v] \in Vblank /\ g[v] \in {un(s.vb[v]), s.vb[v]}
      BY <2>3 DEF Typed
    <3> QED
      BY <2>2, <2>4, <3>1
  <2>6. Facing(t, r) \in {Facing(s, r), None}
    BY <2>4, <2>5 DEF Facing
  <2> QED
    BY <2>5, <2>6 DEF Dims, Still, t
<1> QED
  BY <1>1, <1>2

LEMMA MissedDims ==
    ASSUME NEW s, Typed(s), NEW M, NEW r
    PROVE  Dims(s, Missed(s, M), r)
<1> DEFINE t == Missed(s, M)
<1>1. t.vb = s.vb /\ t.pending = s.pending /\ t.unflip = s.unflip /\ t.cur = s.cur
  BY DEF Typed, Missed
<1> HIDE DEF t
<1>2. Dims(s, t, r)
  BY <1>1, AsideDims
<1> QED
  BY <1>2 DEF t

LEMMA CheckFlipWindowVeil ==
    ASSUME NEW s, NEW C, Good(s, {}, None, C), NEW w \in Living(s), NEW whole,
           NEW r, Veiled(s, r), NEW t \in CheckFlipWindow(s, w, whole)
    PROVE  Onward(s, t, r)
<1> DEFINE H == {}
<1>0. /\ Typed(s) /\ Mid(s, H, None, C) /\ None \in C /\ w # None /\ OneWay(s)
      /\ Good(s, H, None, C)
  BY Names DEF Good, Mid, Typed, Living
<1> HIDE DEF H
<1>1. CASE s.unflip
  <2>1. t = Missed(s, s.missed \cup {w})
    BY <1>1 DEF CheckFlipWindow, Missed
  <2>2. Dims(s, t, r)
    BY <1>0, <2>1, MissedDims
  <2> QED
    BY <2>2, DimsOnward
<1>2. CASE ~s.unflip
  <2>1. PICK u \in Unshown(s, w, whole) :
           \E M : t = Missed(Unplanned(u, w, whole), M)
    <3>1. PICK u \in Unshown(s, w, whole) :
             t = Missed(Unplanned(u, w, whole),
                        IF FlippedMeanwhile(s, u, w) THEN Unplanned(u, w, whole).missed \cup {w}
                        ELSE Unplanned(u, w, whole).missed \ {w})
      BY <1>2 DEF CheckFlipWindow, Missed
    <3> QED
      BY <3>1
  <2>2. \/ u = s
        \/ u = AbortFlip(s) /\ s.pending # None
        \/ u \in Unflipped(s) /\ s.pending = None /\ s.cur.window = w
    BY DEF Unshown
  <2>3. Mid(u, H, None, C) /\ Onward(s, u, r)
    <3>1. CASE u = s
      BY <1>0, <3>1 DEF Onward
    <3>2. CASE u = AbortFlip(s) /\ s.pending # None
      <4>1. Mid(u, H, None, C) /\ Dims(s, u, r)
        BY <1>0, <3>2, AbortMid, AbortDims
      <4> QED
        BY <4>1, DimsOnward
    <3>3. CASE u \in Unflipped(s) /\ s.pending = None /\ s.cur.window = w
      <4>1. s.cur.pixmap # None
        BY <1>0, <3>3 DEF OneWay
      <4>2. Good(u, H, None, C) /\ Onward(s, u, r)
        BY <1>0, <1>2, <3>3, <4>1, UnflippedGood, UnflippedVeil DEF Good
      <4> QED
        BY <4>2 DEF Good
    <3> QED
      BY <2>2, <3>1, <3>2, <3>3
  <2> DEFINE p == Unplanned(u, w, whole)
  <2>4. Typed(p) /\ Dims(u, p, r)
    <3>1. Mid(u, {}, None, C) /\ Typed(u)
      BY <2>3 DEF H, Mid
    <3> QED
      BY <3>1, UnplannedMid, UnplannedDims DEF Mid
  <2>5. PICK M : t = Missed(p, M)
    BY <2>1
  <2> HIDE DEF p
  <2>6. Dims(p, t, r)
    BY <2>4, <2>5, MissedDims
  <2>7. Dims(u, t, r)
    BY <2>4, <2>6, DimsTwice
  <2>8. Onward(u, t, r)
    BY <2>3, <2>7, DimsOnward DEF Onward
  <2> QED
    BY <2>3, <2>8, OnwardTwice
<1> QED
  BY <1>1, <1>2

LEMMA ClearWindowFlipDims ==
    ASSUME NEW s, NEW C, Good(s, {}, None, C), NEW w, NEW r
    PROVE  Dims(s, ClearWindowFlip(s, w), r)
<1> DEFINE flips == s.pending # None /\ s.vb[s.pending].window = w
           p == s.pending
           a == AbortFlip(s)
           b == [a.vb[p] EXCEPT !.window = None]
           x == With(a, p, b)
           t == IF flips THEN x ELSE s
<1>0. Mid(s, {}, None, C) /\ None \in C /\ Typed(s) /\ Drawn(s)
  BY DEF Good, Mid
<1>1. Dims(s, t, r) /\ Mid(t, {}, None, C)
  <2>1. CASE ~flips
    BY <1>0, <2>1 DEF Dims, Still
  <2>2. CASE flips
    <3>1. p \in Ids /\ p # None
      BY <1>0, <2>2 DEF Typed
    <3>2. Mid(a, {}, None, C) /\ a.pending = p /\ a.vb[p] \in Vblank
      BY <1>0, <3>1, AbortMid DEF Mid, Typed
    <3>3. Dims(s, a, r)
      BY <1>0, <3>1, AbortDims
    <3>4. t = x
      BY <2>2
    <3> HIDE DEF a, p, t
    <3>5. b.at = a.vb[p].at /\ b.window = None /\ b.mode = a.vb[p].mode
      BY <3>2 DEF Vblank
    <3>6. b = [a.vb[p] EXCEPT !.window = None]
      OBVIOUS
    <3> HIDE DEF b
    <3>7. Mid(x, {}, None, C)
      BY <1>0, <3>1, <3>2, <3>6, WindowlessMid
    <3>8. Rewrites(a, x, p) /\ x.vb[p] = b /\ Typed(a)
      BY <3>1, <3>2, WithRewrites DEF Mid
    <3> HIDE DEF x
    <3>9. Still(a, x, p)
      BY <3>5, <3>8 DEF Still
    <3>10. Dims(a, x, r)
      BY <3>1, <3>5, <3>8, <3>9, RewritesDims
    <3> QED
      BY <3>3, <3>4, <3>7, <3>10, DimsTwice
  <2> QED
    BY <2>1, <2>2
<1>2. ClearWindowFlip(s, w) = IF t.cur.window = w THEN Unowned(Restored(t)) ELSE t
  BY DEF ClearWindowFlip, With, Unowned
<1> HIDE DEF t
<1> DEFINE q == Restored(t)
           u == Unowned(q)
<1>3. Dims(t, q, r) /\ Typed(q)
  BY <1>1, RestoredMid, RestoredDims DEF Mid
<1> HIDE DEF q
<1>4. u.vb = q.vb /\ u.pending = q.pending /\ u.unflip = q.unflip /\ u.cur.window = None
  BY <1>3 DEF Unowned, Typed
<1> HIDE DEF u
<1>5. Dims(q, u, r)
  BY <1>4 DEF Dims, Still, Facing
<1>6. Dims(s, u, r)
  BY <1>1, <1>3, <1>5, DimsTwice
<1>7. ClearWindowFlip(s, w) = u \/ ClearWindowFlip(s, w) = t
  BY <1>2 DEF u, q
<1> QED
  BY <1>1, <1>6, <1>7

LEMMA WindowGoneDims ==
    ASSUME NEW s, NEW C, Good(s, {}, None, C), NEW w \in Living(s), NEW r
    PROVE  Dims(s, WindowGone(s, w), r)
<1> DEFINE T == WindowRequests(s, w)
           d == Destroyed(s, T, "dropped")
           u == Unsent(d, T)
           c == ClearWindowFlip(u, w)
           t == Unliving(c, w)
<1>0. /\ Mid(s, {}, None, C) /\ Shown(s, C) /\ None \in C
      /\ Typed(s) /\ InOrder(s) /\ "dropped" \in {"gone", "dropped"}
  BY DEF Good, Mid
<1>1. WindowGone(s, w) = t
  BY DEF WindowGone, Unliving, Unsent
<1>2. \A v \in Ids : v \in T => s.vb[v].at \in {"exec", "flip"}
  BY DEF WindowRequests, Queued
<1>3. None \notin T /\ \A x \in T : x = None \/ s.vb[x].at # "none"
  BY Names DEF WindowRequests, Queued
<1> HIDE DEF T
<1>4. ASSUME NEW v \in Ids \cap T
      PROVE  /\ s.vb[v].at # "pending"
             /\ s.vb[v].completed = IF "dropped" = "gone" THEN 1 ELSE 0
             /\ s.vb[v].idled = (IF s.cur.pixmap = v THEN 0 ELSE 1)
                \/ ("dropped" = "dropped" /\ s.vb[v].idled = 0)
  <2>1. Lives(s.vb[v], v, s.pending, s.cur.pixmap, None) /\ s.vb[v].at \in {"exec", "flip"}
    BY <1>0, <1>2 DEF Mid, Request
  <2>2. s.cur.pixmap # v
    BY <2>1, Names DEF Lives
  <2>3. s.vb[v].idled = 1 \/ s.vb[v].idled = 0
    BY <2>1 DEF Lives
  <2>4. s.vb[v].completed = 0
    BY <2>1 DEF Lives
  <2> QED
    BY <2>1, <2>2, <2>3, <2>4
<1>5. Mid(d, {}, None, C)
  <2>1. {} \ T = {}
    OBVIOUS
  <2>2. Mid(d, {} \ T, None, C)
    BY <1>0, <1>3, <1>4, DestroyedMid
  <2> QED
    BY <2>1, <2>2
<1>6. /\ \A v \in Ids \cap T : d.vb[v] = Remains(s.vb[v], "dropped")
      /\ \A D : Shown(s, D) => Shown(d, D)
      /\ Kept(s, d, None)
  BY <1>0, <1>3, DestroyedFields
<1>7. \A v \in Ids \cap T : d.vb[v].at # "exec"
  BY <1>0, <1>6, RemainsFields DEF Typed
<1>8. Dims(s, d, r)
  BY <1>0, DestroyedDims
<1> HIDE DEF d
<1>9. Good(u, {}, None, C) /\ w \in Living(u)
  <2>1. Mid(u, {}, None, C) /\ Shown(u, C) /\ Kept(d, u, None)
    BY <1>0, <1>5, <1>6, <1>7, UnsentMid
  <2> QED
    BY <1>0, <1>6, <2>1 DEF Good, Kept, Living
<1>10. Dims(d, u, r)
  <2>1. u.vb = d.vb /\ u.pending = d.pending /\ u.unflip = d.unflip /\ u.cur = d.cur
    BY <1>5 DEF Unsent, Mid, Typed
  <2> HIDE DEF u
  <2> QED
    BY <2>1, AsideDims
<1> HIDE DEF u
<1>11. Dims(u, c, r) /\ Typed(c)
  <2>1. Good(c, {}, None, C)
    BY <1>9, ClearWindowFlipGood
  <2>2. Dims(u, c, r)
    BY <1>9, ClearWindowFlipDims
  <2> QED
    BY <2>1, <2>2 DEF Good, Mid
<1> HIDE DEF c
<1>12. t.vb = c.vb /\ t.pending = c.pending /\ t.unflip = c.unflip /\ t.cur = c.cur
  BY <1>11 DEF Unliving, Typed
<1> HIDE DEF t
<1>13. Dims(c, t, r)
  BY <1>12, AsideDims
<1>14. Dims(s, u, r) /\ Dims(u, t, r)
  BY <1>8, <1>10, <1>11, <1>13, DimsTwice
<1> QED
  BY <1>1, <1>14, DimsTwice


-----------------------------------------------------------------------------
(* Requests.                                                               *)

LEMMA ScrapsStill ==
    ASSUME NEW s, Typed(s), NEW T, NEW waiting, NEW over, NEW N,
           Scrapping(s, T, waiting, over, N),
           NEW t, t = Owed(Scraps(s, T, waiting, over), N), NEW v \in Ids
    PROVE  Still(s, t, v)
<1> DEFINE a == Scraps(s, T, waiting, over)
           b == s.vb[v]
           c == Scrap(b)
<1>0. over \subseteq T /\ waiting \cap over = {} /\ t = Owed(a, N)
  BY DEF Scrapping
<1>1. /\ a.queue = Without(s.queue, over) /\ DOMAIN a.vb = Ids
      /\ a.vb = [x \in Ids |-> a.vb[x]]
      /\ \A x \in Ids :
            a.vb[x] = IF x \in waiting
                      THEN [(IF x \in T THEN Scrap(s.vb[x]) ELSE s.vb[x])
                                EXCEPT !.callback = TRUE]
                      ELSE IF x \in over THEN Skipped(s.vb[x])
                      ELSE IF x \in T THEN Scrap(s.vb[x]) ELSE s.vb[x]
      /\ a.pending = s.pending /\ a.unflip = s.unflip
      /\ a.cur = s.cur /\ a.pix = s.pix /\ a.due = s.due /\ a.flips = s.flips
      /\ a.missed = s.missed
      /\ a = [vb |-> a.vb, queue |-> a.queue, pending |-> a.pending,
              unflip |-> a.unflip, cur |-> a.cur, pix |-> a.pix, due |-> a.due,
              flips |-> a.flips, missed |-> a.missed]
  BY <1>0, ScrapsFields
<1> HIDE DEF a
<1>2. t.vb[v] = IF v \in waiting THEN [(IF v \in T THEN c ELSE b) EXCEPT !.callback = TRUE]
                ELSE IF v \in over THEN Skipped(b) ELSE IF v \in T THEN c ELSE b
  <2>1. t.vb = a.vb
    BY <1>0, <1>1 DEF Owed
  <2> QED
    BY <1>1, <2>1
<1>3. b \in Vblank
  BY DEF Typed
<1>4. c \in Vblank /\ c.at = b.at /\ c.window = b.window /\ c.mode = b.mode
  BY <1>3, ScrapFields
<1>5. Skipped(b).at = "gone" /\ Skipped(b).window = None /\ Skipped(b).mode = "skip"
  <2> DEFINE d == Remains(c, "gone")
  <2>1. d \in Vblank /\ d.at = "gone" /\ d.window = None
    BY <1>4, RemainsFields
  <2> HIDE DEF c, d
  <2>2. Skip(d).at = "gone" /\ Skip(d).window = None /\ Skip(d).mode = "skip"
    BY <2>1 DEF Skip, Vblank
  <2> QED
    BY <2>2 DEF d, c, Skipped
<1> HIDE DEF b, c
<1>6. CASE v \in waiting
  <2> DEFINE e == IF v \in T THEN c ELSE b
             f == [e EXCEPT !.callback = TRUE]
  <2>1. e \in Vblank /\ e.at = b.at /\ e.window = b.window /\ e.mode = b.mode
    BY <1>3, <1>4
  <2> HIDE DEF e
  <2>2. f.at = b.at /\ f.window = b.window /\ f.mode = b.mode
    BY <2>1 DEF Vblank
  <2>3. t.vb[v] = f
    BY <1>2, <1>6 DEF e
  <2> HIDE DEF f
  <2> QED
    BY <2>2, <2>3 DEF Still, b
<1>7. CASE v \notin waiting
  BY <1>2, <1>4, <1>5, <1>7 DEF Still, b
<1> QED
  BY <1>6, <1>7

LEMMA ScrappedStill ==
    ASSUME NEW s, Typed(s), NEW T, T \subseteq Ids,
           \A v \in T : s.vb[v].at \in {"exec", "flip"}, NEW t \in Scrapped(s, T), NEW u \in Ids
    PROVE  Still(s, t, u)
<1> DEFINE again == {v \in T : s.vb[v].ready}
           N(E) == {[id |-> v, msc |-> s.vb[v].exec] : v \in E}
           waiting(E) == {v \in again \ E : FenceWaits(s.vb[v])}
           over(E) == again \ (E \cup waiting(E))
<1>1. PICK E \in SUBSET T : t = Owed(Scraps(s, T, waiting(E), over(E)), N(E))
  <2> DEFINE a == [s EXCEPT !.vb = [v \in Ids |-> IF v \in T THEN Scrap(s.vb[v]) ELSE s.vb[v]]]
             O(E) == [Destroyed(a, over(E), "gone") EXCEPT
                         !.due = @ \cup N(E),
                         !.vb = [v \in Ids |->
                                   IF v \in waiting(E) THEN [@[v] EXCEPT !.callback = TRUE]
                                   ELSE IF v \in over(E) THEN Skip(@[v]) ELSE @[v]]]
             early == {v \in again : s.vb[v].exec = msc + 1}
  <2>1. PICK E \in (IF "queue" \in Refusals THEN SUBSET early ELSE {early}) : t = O(E)
    BY DEF Scrapped
  <2>2. E \in SUBSET T
    BY <2>1
  <2>3. O(E) = Owed(Scraps(s, T, waiting(E), over(E)), N(E))
    BY DEF Owed, Scraps
  <2> QED
    BY <2>1, <2>2, <2>3
<1> DEFINE W == waiting(E)
           V == over(E)
           M == N(E)
<1>2. Scrapping(s, T, W, V, M)
  BY DEF Scrapping
<1>3. t = Owed(Scraps(s, T, W, V), M)
  BY <1>1
<1> HIDE DEF W, V, M, again, N, waiting, over
<1> QED
  BY <1>2, <1>3, ScrapsStill

\* A new request has not been copied yet.
LEMMA QueueVeil ==
    ASSUME NEW s, NEW C, Good(s, {}, None, C), full \in C, NEW r, Veiled(s, r),
           NEW v \in Ids, s.vb[v].at = "none", r[v].at = "none",
           NEW w \in Living(s), NEW shape \in Shapes, NEW target \in MSCs, NEW t \in Queue(s, v, w, target, shape)
    PROVE  Veiled(t, r)
<1> DEFINE b == NewVblank(s, w, target, shape)
           a == With(s, v, b)
           G == {v}
<1>0. /\ Mid(s, {}, None, C) /\ Shown(s, C) /\ None \in C /\ Typed(s) /\ w # None /\ v # None /\ v \in G
  BY Names DEF Good, Mid, Typed, Living
<1>1. /\ b \in Vblank /\ b.at = "exec" /\ b.window = w /\ b.pixmap /\ ~b.abort
      /\ b.idled = 0 /\ b.completed = 0 /\ b.mode = "none"
      /\ b.flip => full = w
  BY <1>0, NewVblankFields
<1>2. t \in (IF a.vb[v].exec <= msc THEN Execute(a, v, msc)
             ELSE {QueueVblank(a, v)}
                  \cup (IF "queue" \in Refusals THEN Execute(Refused(a, v), v, msc) ELSE {}))
  BY DEF Queue, With
<1> HIDE DEF b
<1>3. Rewrites(s, a, v) /\ a.vb[v] = b
  BY <1>0, WithRewrites
<1>4. Good(a, G, None, C)
  <2>1. Request(s.vb[v], v, s.pending, s.cur.pixmap, s.due, {}, None, C)
    BY <1>0 DEF Mid
  <2>2. Request(b, v, s.pending, s.cur.pixmap, s.due, {v}, None, C)
    BY <1>0, <1>1, <2>1 DEF Request, Lives, Covered
  <2>3. {} \ {v} \subseteq {v} /\ None \in {v} \cup {None}
    OBVIOUS
  <2>4. (b.at = "flip" <=> s.vb[v].at = "flip") /\ (b.abort => s.vb[v].abort \/ s.pix[Root] = Screen)
    BY <1>1
  <2>5. b.window \in Living(s) \cup {None}
    BY <1>1
  <2>6. Mid(a, {v}, None, C)
    BY <1>0, <1>1, <2>2, <2>3, <2>4, <2>5, WithMid
  <2>7. Shown(a, C)
    BY <1>0, WithKept
  <2> QED
    BY <1>0, <2>6, <2>7 DEF Good
<1> HIDE DEF a
<1>5. Veiled(a, r)
  <2>1. v # s.pending
    BY <1>0 DEF Mid, Request, Lives
  <2>2. Facing(a, r) \in {Facing(s, r), None}
    BY <1>0, <1>3, <2>1, RewritesFacing
  <2>3. \A u \in Ids \ {v} : Still(s, a, u)
    BY <1>3 DEF Rewrites, Still
  <2>4. Spared(a, v, r)
    BY DEF Spared
  <2> QED
    BY <2>2, <2>3, <2>4, SpareOne DEF Onward
<1> HIDE DEF G
<1>6. a.vb[v].at \in {"exec", "flip", "pending"} /\ Typed(a) /\ Mid(a, G, None, C)
  BY <1>1, <1>3, <1>4 DEF Good, Mid
<1>7. CASE t \in Execute(a, v, msc)
  BY <1>0, <1>4, <1>5, <1>6, <1>7, ExecuteVeil DEF Onward, Good
<1>8. CASE t = QueueVblank(a, v)
  BY <1>5, <1>6, <1>8, SmallDims, DimsOnward DEF Onward
<1>9. CASE t \in Execute(Refused(a, v), v, msc)
  <2> DEFINE f == Refused(a, v)
  <2>1. Dims(a, f, r)
    BY <1>6, SmallDims
  <2>2. f.vb[v].at = "exec"
    <3>1. a.vb[v] \in Vblank
      BY <1>6 DEF Typed
    <3>2. f.vb[v] = [a.vb[v] EXCEPT !.refused = TRUE]
      BY <1>6 DEF Typed, f, Refused
    <3> QED
      BY <1>1, <1>3, <3>1, <3>2 DEF Vblank
  <2>3. Mid(f, G, None, C) /\ \A D : Shown(a, D) => Shown(f, D)
    BY <1>0, <1>6, RefusedMid
  <2>4. t \in Execute(f, v, msc)
    BY <1>9
  <2> HIDE DEF f
  <2>5. Good(f, G, None, C) /\ Veiled(f, r) /\ f.vb[v].at \in {"exec", "flip", "pending"}
    BY <1>4, <1>5, <2>1, <2>2, <2>3, DimsOnward DEF Good, Onward
  <2> QED
    BY <1>0, <2>4, <2>5, ExecuteVeil DEF Onward, Good
<1> QED
  BY <1>2, <1>7, <1>8, <1>9


-----------------------------------------------------------------------------
(* The actions.                                                            *)

LEMMA Clear ==
    ASSUME IndInv
    PROVE  /\ Good(scr, {}, None, Coverable(scr)) /\ Typed(scr)
           /\ Fresh(scr.vb) /\ Veiled(scr, scr.vb)
<1>1. Good(scr, {}, None, Coverable(scr)) /\ Typed(scr)
  BY Whole
<1>2. Fresh(scr.vb)
  BY <1>1, FreshMid DEF Good
<1>3. \A u \in Ids : Still(scr, scr, u)
  BY DEF Still
<1> QED
  BY <1>1, <1>2, <1>3, StillVeiled

LEMMA PresentPixmapVeil ==
    ASSUME IndInv, NEW w \in Living(scr), NEW shape \in Shapes, NEW arg \in MSCs,
           NEW field \in Fields, PresentPixmap(w, shape, arg, field)
    PROVE  Veiled(scr', scr.vb)
<1> DEFINE target == TargetMSC(arg, msc, field[1], field[2], shape.async # {})
           T == Overwritten(scr, w, target, shape)
           C == Coverable(scr)
           v == last + 1
           r == scr.vb
<1>1. PICK s \in Scrapped(scr, T) : scr' \in Queue(s, v, w, target, shape)
  BY DEF PresentPixmap
<1>2. target \in MSCs
  BY TargetTyped DEF PresentPixmap
<1>3. T \subseteq Ids /\ \A u \in T : scr.vb[u].at \in {"exec", "flip"} /\ scr.vb[u].pixmap
  BY DEF Overwritten, Queued
<1> HIDE DEF target, T
<1>4. Good(s, {}, None, C) /\ \A x : Kept(scr, s, x)
  BY <1>1, <1>3, Whole, ScrappedGood
<1>5. v \in Ids /\ v > last
  BY Whole, ShapesAssumption DEF PresentPixmap, Ids
<1>6. s.vb[v].at = "none" /\ w \in Living(s) /\ full \in C /\ r[v].at = "none"
  <2>1. Kept(scr, s, None)
    BY <1>4
  <2> QED
    BY <1>5, <2>1, Whole, Names DEF Kept, Living, Coverable
<1>7. \A u \in T : scr.vb[u].at \in {"exec", "flip"}
  BY <1>3
<1>8. \A u \in Ids : Still(scr, s, u)
  BY <1>1, <1>3, <1>7, Clear, ScrappedStill
<1>9. Veiled(s, r)
  BY <1>8, Clear, StillVeiled
<1> HIDE DEF r, C
<1>10. Veiled(scr', r)
  BY <1>1, <1>2, <1>4, <1>5, <1>6, <1>9, QueueVeil
<1> QED
  BY <1>10 DEF r

LEMMA VblankEventVeil ==
    ASSUME IndInv, VblankEvent
    PROVE  Veiled(scr', scr.vb)
<1> DEFINE C == Coverable(scr)
<1>1. PICK e \in scr.due : \E now \in e.msc .. msc :
                              scr' \in EventNotify(Sent(scr, e), e.id, now)
  BY DEF VblankEvent, Sent
<1>2. PICK now \in e.msc .. msc : scr' \in EventNotify(Sent(scr, e), e.id, now)
  BY <1>1
<1> DEFINE s == Sent(scr, e)
           v == e.id
<1>3. /\ Good(s, {v}, None, C) /\ (s.vb[v].at # "exec" => Good(s, {}, None, C))
      /\ v \in Ids
  BY Whole, SentGood
<1>4. s.vb = scr.vb
  BY Whole DEF Sent, Typed
<1>5. scr' \in EventNotify(s, v, now)
  BY <1>2
<1>6. now \in Nat
  BY Whole DEF Typed, MSCs
<1> HIDE DEF s, v, C
<1> QED
  BY <1>3, <1>4, <1>5, <1>6, EventNotifyVeil

LEMMA FlipEventVeil ==
    ASSUME IndInv, FlipEvent
    PROVE  Veiled(scr', scr.vb)
<1> DEFINE C == Coverable(scr)
           H == {}
<1>1. PICK v \in scr.flips : scr' \in EventNotify(Done(scr, v), v, msc)
  BY DEF FlipEvent, Done
<1> DEFINE s == Done(scr, v)
           G == {v}
<1>2. Good(s, H, None, C) /\ H \subseteq G
  BY Whole, DoneGood
<1>3. v \in Ids
  BY Whole DEF Typed
<1>4. s.vb = scr.vb
  BY Whole DEF Done, Typed
<1>5. scr' \in EventNotify(s, v, msc)
  BY <1>1
<1> HIDE DEF s, C, H, G
<1>6. Good(s, G, None, C)
  BY <1>2, MoreGood
<1>7. Good(s, {v}, None, C) /\ (s.vb[v].at # "exec" => Good(s, {}, None, C))
  BY <1>2, <1>6 DEF H, G
<1> QED
  BY <1>3, <1>4, <1>5, <1>7, EventNotifyVeil DEF Good

LEMMA UnflipEventVeil ==
    ASSUME IndInv, UnflipEvent
    PROVE  Veiled(scr', scr.vb)
<1> DEFINE C == Coverable(scr)
           r == scr.vb
           s == Unflown(scr)
           f == FlipIdle(s)
           H == {}
<1>1. scr' \in TryReady(f) /\ scr.unflip
  BY DEF UnflipEvent, Unflown
<1>2. Mid(s, H, None, C) /\ ~s.unflip /\ s.pix[Root] = Screen
  BY <1>1, Whole, UnflownMid
<1>3. s.vb = scr.vb
  BY Whole DEF Unflown, Typed
<1> HIDE DEF s, H
<1>4. Mid(f, H, None, C) /\ Shown(f, C)
  BY <1>2, Whole, FlipIdleMid
<1>5. Dims(s, f, r)
  BY <1>2, FlipIdleDims DEF Mid
<1> HIDE DEF f
<1>6. \A u \in Ids : Still(scr, f, u)
  BY <1>3, <1>5 DEF Dims, Still
<1>7. Veiled(f, r) /\ Good(f, H, None, C)
  BY <1>4, <1>6, Whole, Clear, StillVeiled DEF Good
<1> HIDE DEF r, C
<1>8. Onward(f, scr', r)
  BY <1>1, <1>7, TryReadyVeil
<1> QED
  BY <1>8 DEF Onward, r

LEMMA FenceFiresVeil ==
    ASSUME IndInv, FenceFires
    PROVE  Veiled(scr', scr.vb)
<1> DEFINE C == Coverable(scr)
           r == scr.vb
           H == {}
<1>1. PICK v \in Callbacks(walk) : scr.vb[v].window # None /\ scr' \in Execute(scr, v, msc)
  BY DEF FenceFires
<1> DEFINE G == {v}
<1>2. v \in Ids /\ scr.vb[v].callback /\ v \in G /\ H \subseteq G
  BY DEF Callbacks
<1>3. Good(scr, H, None, C) /\ Veiled(scr, r)
  BY Clear
<1>4. scr.vb[v].at \in {"exec", "flip", "pending"}
  <2>1. scr.vb[v].at \in {"none", "exec", "flip", "pending", "gone", "dropped"}
    BY <1>2, Whole DEF Typed, Vblank
  <2>2. Request(scr.vb[v], v, scr.pending, scr.cur.pixmap, scr.due, {}, None, C)
    BY <1>2, Whole DEF Good, Mid
  <2> QED
    BY <1>1, <2>1, <2>2 DEF Request, Lives, NoVblank
<1> HIDE DEF H, G, C, r
<1>5. Good(scr, G, None, C)
  BY <1>2, <1>3, MoreGood
<1>6. Onward(scr, scr', r)
  BY <1>1, <1>2, <1>3, <1>4, <1>5, ExecuteVeil DEF Good
<1> QED
  BY <1>6 DEF Onward, r

LEMMA CheckedVeil ==
    ASSUME NEW s, NEW C, Good(s, {}, None, C), NEW w \in Living(s), NEW whole,
           NEW r, Veiled(s, r), NEW t \in CheckFlipWindow(s, w, whole)
    PROVE  /\ Veiled(t, r) /\ DOMAIN t.pix = DOMAIN s.pix
           /\ Good(t, {}, None, C \cup {w} \cup t.missed)
<1> DEFINE D == C \cup {w} \cup t.missed
<1>1. C \ {w} \subseteq D /\ w \in D /\ \A x : x \in t.missed => x \in D
  OBVIOUS
<1> HIDE DEF D
<1>2. Good(t, {}, None, D) /\ DOMAIN t.pix = DOMAIN s.pix
  BY <1>1, CheckFlipWindowGood
<1>3. Veiled(t, r)
  BY CheckFlipWindowVeil DEF Onward
<1> QED
  BY <1>2, <1>3 DEF D

LEMMA ClipNotifyVeil ==
    ASSUME IndInv, NEW w \in Living(scr), ClipNotify(w)
    PROVE  Veiled(scr', scr.vb)
<1> DEFINE r == scr.vb
           C == Coverable(scr)
<1>1. scr' \in CheckFlipWindow(scr, w, full)
  BY DEF ClipNotify
<1>2. Good(scr, {}, None, C) /\ Veiled(scr, r)
  BY Clear
<1> HIDE DEF r, C
<1>3. Veiled(scr', r)
  BY <1>1, <1>2, CheckedVeil
<1> QED
  BY <1>3 DEF r

LEMMA CoverVeil ==
    ASSUME IndInv, NEW w \in Living(scr) \cup {None}, Cover(w)
    PROVE  Veiled(scr', scr.vb)
<1> DEFINE r == scr.vb
           C == Coverable(scr)
<1>1. PICK s \in (IF w = None THEN {scr} ELSE CheckFlipWindow(scr, w, w)) :
         scr' \in IF full = None THEN {s} ELSE CheckFlipWindow(s, full, w)
  BY DEF Cover
<1>2. Good(scr, {}, None, C) /\ Veiled(scr, r) /\ full \in Living(scr) \cup {None}
  BY Clear, Whole
<1> HIDE DEF r, C
<1>3. PICK D : Good(s, {}, None, D) /\ Veiled(s, r) /\ DOMAIN s.pix = DOMAIN scr.pix
  <2>1. CASE w = None
    BY <1>1, <1>2, <2>1
  <2>2. CASE w # None
    <3>1. s \in CheckFlipWindow(scr, w, w) /\ w \in Living(scr)
      BY <1>1, <2>2
    <3>2. /\ Veiled(s, r) /\ DOMAIN s.pix = DOMAIN scr.pix
          /\ Good(s, {}, None, C \cup {w} \cup s.missed)
      BY <1>2, <3>1, CheckedVeil
    <3> QED
      BY <3>2
  <2> QED
    BY <2>1, <2>2
<1>4. Veiled(scr', r)
  <2>1. CASE full = None
    BY <1>1, <1>3, <2>1
  <2>2. CASE full # None
    <3>1. scr' \in CheckFlipWindow(s, full, w) /\ full \in Living(s)
      BY <1>1, <1>2, <1>3, <2>2 DEF Living
    <3> QED
      BY <1>3, <3>1, CheckedVeil
  <2> QED
    BY <2>1, <2>2
<1> QED
  BY <1>4 DEF r

LEMMA DestroyWindowVeil ==
    ASSUME IndInv, NEW w \in Living(scr), DestroyWindow(w)
    PROVE  Veiled(scr', scr.vb)
<1> DEFINE r == scr.vb
           C == Coverable(scr)
           whole == full'
<1>1. PICK s \in CheckFlipWindow(scr, w, whole) \cup (IF full = w THEN {} ELSE {scr}) :
         scr' = WindowGone(s, w)
  BY DEF DestroyWindow
<1>2. Good(scr, {}, None, C) /\ Veiled(scr, r)
  BY Clear
<1> HIDE DEF r, C, whole
<1>3. PICK D : Good(s, {}, None, D) /\ Veiled(s, r) /\ DOMAIN s.pix = DOMAIN scr.pix
  <2>1. CASE s = scr
    BY <1>2, <2>1
  <2>2. CASE s \in CheckFlipWindow(scr, w, whole)
    <3>1. /\ Veiled(s, r) /\ DOMAIN s.pix = DOMAIN scr.pix
          /\ Good(s, {}, None, C \cup {w} \cup s.missed)
      BY <1>2, <2>2, CheckedVeil
    <3> QED
      BY <3>1
  <2> QED
    BY <1>1, <2>1, <2>2
<1>4. w \in Living(s)
  BY <1>3 DEF Living
<1>5. Dims(s, scr', r)
  BY <1>1, <1>3, <1>4, WindowGoneDims
<1> QED
  BY <1>3, <1>5, DimsOnward DEF Onward, r

LEMMA DestroyFenceVeil ==
    ASSUME IndInv, NEW f \in Fences, DestroyFence(f)
    PROVE  Veiled(scr', scr.vb)
<1> DEFINE un(b) == IF b.fence = f THEN [b EXCEPT !.fence = None] ELSE b
           g == [v \in Ids |-> un(scr.vb[v])]
           s == Unfenced(scr, f)
<1>1. scr' = s
  BY DEF DestroyFence, Unfenced
<1>2. Typed(scr)
  BY Clear
<1>3. s = [scr EXCEPT !.vb = g]
  BY DEF Unfenced
<1>4. ASSUME NEW b \in Vblank
      PROVE  un(b).at = b.at /\ un(b).window = b.window /\ un(b).mode = b.mode
  BY DEF Vblank
<1> HIDE DEF un, s
<1>5. \A v \in Ids : g[v] = un(scr.vb[v])
  OBVIOUS
<1> HIDE DEF g
<1>6. s.vb = g
  BY <1>2, <1>3 DEF Typed
<1>7. ASSUME NEW v \in Ids PROVE Still(scr, s, v)
  <2>1. scr.vb[v] \in Vblank /\ s.vb[v] = un(scr.vb[v])
    BY <1>2, <1>5, <1>6 DEF Typed
  <2> QED
    BY <1>4, <2>1 DEF Still
<1> QED
  BY <1>1, <1>7, Clear, StillVeiled


-----------------------------------------------------------------------------
(* Steps.                                                                  *)

\* After a step, no flip shows a window that was copied to in it.
LEMMA StepVeil ==
    ASSUME IndInv, [Next]_vars
    PROVE  Veiled(scr', scr.vb)
<1>0. Veiled(scr, scr.vb)
  BY Clear
<1>1. CASE \E w \in Living(scr), shape \in Shapes, arg \in MSCs, field \in Fields :
               PresentPixmap(w, shape, arg, field)
  BY <1>1, PresentPixmapVeil
<1>2. CASE VblankEvent
  BY <1>2, VblankEventVeil
<1>3. CASE FlipEvent
  BY <1>3, FlipEventVeil
<1>4. CASE UnflipEvent
  BY <1>4, UnflipEventVeil
<1>5. CASE \E w \in Living(scr) : ClipNotify(w)
  BY <1>5, ClipNotifyVeil
<1>6. CASE Cover(None) \/ \E w \in Living(scr) : Cover(w)
  BY <1>6, CoverVeil
<1>7. CASE \E w \in Living(scr) : DestroyWindow(w)
  BY <1>7, DestroyWindowVeil
<1>8. CASE \E f \in Fences : DestroyFence(f)
  BY <1>8, DestroyFenceVeil
<1>9. CASE FenceFires
  BY <1>9, FenceFiresVeil
<1>10. CASE Frame \/ FenceDone \/ (\E f \in Fences : TriggerFence(f) \/ ResetFence(f)) \/ UNCHANGED vars
  <2>1. scr' = scr
    BY <1>10 DEF Frame, FenceDone, TriggerFence, ResetFence, vars
  <2> QED
    BY <1>0, <2>1
<1> QED
  BY <1>1, <1>2, <1>3, <1>4, <1>5, <1>6, <1>7, <1>8, <1>9, <1>10 DEF Next

\* When a window has been copied to, the flip to it that was pending before is
\* being aborted, and the flip that was shown is gone or being flipped away
\* from, whatever the driver refuses or reports at once (present_execute_copy,
\* present_execute, present_unflip, present_set_abort_flip).
THEOREM CopiesAreSeen == Spec => CopiedIsNotFlipped
<1> DEFINE Away(v) ==
               scr.vb[v].mode = "none" /\ scr'.vb[v].mode = "copy" =>
                   LET w == scr.vb[v].window
                   IN  /\ scr.pending # None /\ scr'.pending = scr.pending
                              /\ scr'.vb[scr.pending].window = w => scr'.vb[scr.pending].abort
                       /\ scr'.pending = None /\ scr'.cur.window = w => scr'.unflip
<1>1. IndInv /\ [Next]_vars => [\A v \in Queued(scr) : Away(v)]_vars
  <2> SUFFICES ASSUME IndInv, [Next]_vars, NEW v \in Queued(scr),
                      scr.vb[v].mode = "none", scr'.vb[v].mode = "copy"
               PROVE  LET w == scr.vb[v].window
                      IN  /\ scr.pending # None /\ scr'.pending = scr.pending
                                 /\ scr'.vb[scr.pending].window = w => scr'.vb[scr.pending].abort
                          /\ scr'.pending = None /\ scr'.cur.window = w => scr'.unflip
    OBVIOUS
  <2> DEFINE w == scr.vb[v].window
             p == scr.pending
  <2>1. v \in Ids /\ scr.vb[v].at \in {"exec", "flip"}
    BY DEF Queued
  <2>2. Mid(scr, {}, None, Coverable(scr)) /\ Typed(scr)
    BY Whole DEF Good
  <2>3. w # None
    BY <2>1, <2>2 DEF Mid, Request, Lives
  <2>4. p # None => scr.vb[p].at = "pending"
    BY <2>2 DEF Mid, Typed, Request, Lives
  <2>5. Spared(scr', v, scr.vb)
    BY <2>1, StepVeil DEF Veiled
  <2>6. Facing(scr', scr.vb) # w
    BY <2>1, <2>5 DEF Spared
  <2>7. p # None /\ scr'.pending = p /\ scr'.vb[p].window = w => scr'.vb[p].abort
    BY <2>4, <2>6 DEF Facing
  <2>8. scr'.pending = None /\ scr'.cur.window = w => scr'.unflip
    BY <2>6 DEF Facing
  <2> QED
    BY <2>7, <2>8
<1> QED
  BY <1>1, IndInvHolds, PTL DEF Spec, CopiedIsNotFlipped
=============================================================================
