---------------------------- MODULE PresentProps ----------------------------
(* What the Present extension promises. *)
EXTENDS Present

Vblank == [at : {"none", "exec", "flip", "pending", "gone", "dropped"},
           window : Windows \cup {None}, pixmap : BOOLEAN, fence : Fences \cup {None},
           target : MSCs, exec : MSCs \cup {-1}, sync : BOOLEAN, flip : BOOLEAN, ready : BOOLEAN,
           abort : BOOLEAN, callback : BOOLEAN, refused : BOOLEAN,
           idled : Nat, completed : Nat, mode : {"none", "copy", "skip", "flip"}]

\* The fields of requests and screen have their types: nothing names a window
\* that is gone.
Typed(s) ==
    /\ s = [vb |-> s.vb, queue |-> s.queue, pending |-> s.pending, unflip |-> s.unflip,
            cur |-> s.cur, pix |-> s.pix, due |-> s.due, flips |-> s.flips, missed |-> s.missed]
    /\ s.vb \in [Ids -> Vblank]
    /\ \A v \in Ids : s.vb[v].window \in Living(s) \cup {None}
    /\ s.pending \in Ids \cup {None} /\ s.unflip \in BOOLEAN
    /\ s.cur \in [window : Living(s) \cup {None}, pixmap : Ids \cup {None}]
    /\ Root \in DOMAIN s.pix /\ DOMAIN s.pix \subseteq Windows \cup {Root}
    /\ \A w \in DOMAIN s.pix : s.pix[w] \in Ids \cup {Screen}
    /\ s.due \subseteq [id : Ids, msc : MSCs] /\ s.flips \subseteq Ids
    /\ s.missed \subseteq Living(s)

\* The flip queue is a queue.
IsQueue(q) ==
    \A u, v \in DOMAIN q :
        /\ q[v] \subseteq DOMAIN q \ {v}
        /\ u = v \/ (u \in q[v] /\ q[u] \subseteq q[v]) \/ (v \in q[u] /\ q[v] \subseteq q[u])

InOrder(s) == DOMAIN s.queue = {v \in Ids : s.vb[v].at = "flip"} /\ IsQueue(s.queue)

\* The fields of requests and screen have their types: the frames that requests
\* are to be executed in and that the driver is asked for are frames, but that a
\* flip for frame 0 is executed in the one before (the code's counter wraps, and
\* msc_is_after takes the difference as signed), the flip queue is a queue, and
\* nothing names a window that is gone (present_destroy_window).
TypeOK ==
    /\ Typed(scr) /\ InOrder(scr)
    /\ \A v \in Queued(scr) : scr.vb[v].window # None
    /\ fence \in [Fences -> {"reset", "triggered", "destroyed"}]
    /\ walk \in Fences \cup {None} /\ msc \in MSCs
    /\ full \in Living(scr) \cup {None} /\ last \in 0 .. MaxRequests

\* What present_unflip (present_scmd.d:315), present_flip_notify (335) and
\* present_restore_screen_pixmap (283) assert: the driver never flips both
\* ways, what it flips to is flip_pending, and what is flipped away from is
\* some pixmap.
AssertsHold ==
    /\ ~(scr.pending # None /\ scr.unflip)
    /\ scr.flips = {scr.pending} \ {None}
    /\ scr.unflip => scr.cur.pixmap # None
    /\ scr.cur.window # None => scr.cur.pixmap # None
    /\ \A v \in Ids : scr.vb[v].at = "pending" <=> v = scr.pending

\* A request that is on the exec queue is executed again: the driver owes it an
\* event, or it has a callback on a fence that is not triggered yet, unless that
\* fence was destroyed under it (present_execute_wait, 57 to 66).
QueuedIsAwaited ==
    \A v \in Ids : scr.vb[v].at = "exec" =>
        \/ \E e \in scr.due : e.id = v
        \/ /\ scr.vb[v].callback
           /\ scr.vb[v].fence # None =>
                 fence[scr.vb[v].fence] = "reset" \/ walk = scr.vb[v].fence

\* A client gets every pixmap back once, by a copy, by being scrapped or by the
\* next flip, and every request completes once; a window that is destroyed takes
\* its events with it.
BackOnce ==
    \A v \in Ids : LET b == scr.vb[v] IN
        /\ b.idled <= 1 /\ b.completed <= 1
        /\ b.at \in {"none", "exec", "flip"} => b.completed = 0
        /\ b.at \in {"none", "exec", "flip"} /\ b.pixmap => b.idled = 0
        /\ b.at \in {"pending"} => b.idled = 0 /\ b.completed = 0
        /\ b.at = "gone" => b.completed = 1 /\ (b.idled = 1 <=> scr.cur.pixmap # v)

\* Nobody draws to a pixmap that the client may have got back: what windows draw
\* to is the screen's pixmap, or the one that is being flipped to, or the one
\* that is shown and not being flipped away from.
DrawnIsShown ==
    \A w \in DOMAIN scr.pix :
        \/ scr.pix[w] = Screen
        \/ scr.pending # None /\ scr.pix[w] = scr.pending /\ ~scr.vb[scr.pending].abort
        \/ scr.pending = None /\ scr.pix[w] = scr.cur.pixmap /\ ~scr.unflip

\* The screen is flipped, and requests plan to flip it, only to a window that
\* covers it, unless present_check_flip_window was called for the window during
\* an unflip and did not look (419), or unflipped the screen itself and that let
\* a waiting request flip to the window before the queue was looked at (437).
FlipsCoverTheScreen ==
    LET Covers(w) == w \in {full, None} \cup scr.missed
    IN  /\ \A v \in Queued(scr) : scr.vb[v].flip => Covers(scr.vb[v].window)
        /\ scr.pending # None =>
              scr.vb[scr.pending].abort \/ Covers(scr.vb[scr.pending].window)
        /\ scr.pending = None /\ ~scr.unflip => Covers(scr.cur.window)

\* No request is shown before its frame, or the one before if it flips at the
\* end of that, unless the driver would not queue an event for it.
NotBeforeItsTime ==
    [][\A v \in Ids : v \in Queued(scr) /\ ~scr'.vb[v].refused =>
          /\ scr.vb[v].mode = "none" /\ scr'.vb[v].mode = "copy" => msc >= scr.vb[v].target
          /\ scr'.pending = v =>
                msc >= scr.vb[v].target - (IF scr.vb[v].sync THEN 1 ELSE 0)]_vars

\* When a window has been copied to, the flip to it that was pending before is
\* being aborted, and the flip that was shown is gone or being flipped away
\* from.  (A request that waited may flip to it in the meantime, if the driver
\* refuses a flip, reports the unflip at once and then takes the next flip.)
CopiedIsNotFlipped ==
    [][\A v \in Queued(scr) :
          scr.vb[v].mode = "none" /\ scr'.vb[v].mode = "copy" =>
              LET w == scr.vb[v].window
              IN  /\ scr.pending # None /\ scr'.pending = scr.pending /\ scr'.vb[scr.pending].window = w
                         => scr'.vb[scr.pending].abort
                  /\ scr'.pending = None /\ scr'.cur.window = w => scr'.unflip]_vars

\* TriggerFence returns: miSyncTriggerFence runs through the triggers of the
\* fence again and again until none fires (misync.d:131).
TriggerFenceReturns == walk # None ~> walk = None
-----------------------------------------------------------------------------
(***************************************************************************)
(* The inductive invariant, as it is in the middle of a call, when some    *)
(* requests are in hand: out of the queues, or in one with nothing owed    *)
(* that would execute them again.  H are those in hand, y the one of them  *)
(* whose flip is being reported, or None.                                  *)
(***************************************************************************)

\* how often request v has been idled and completed, if it is b, p is pending
\* and c is the pixmap that is shown
Lives(b, v, p, c, y) ==
    /\ b.at = "pending" <=> v = p
    /\ b.at = "pending" => b.flip /\ b.pixmap /\ b.idled = 0
    /\ b.at \in {"exec", "flip"} =>
          b.window # None /\ ~b.abort /\ b.idled = IF b.pixmap THEN 0 ELSE 1
    /\ b.at \in {"exec", "flip", "pending"} => b.completed = 0 /\ b.mode = "none"
    /\ b.at \in {"gone", "dropped"} => b.window = None
    /\ b.at = "gone" => b.completed = 1
    /\ b.at = "gone" \/ v = y => b.idled = IF c = v THEN 0 ELSE 1
    /\ b.at = "dropped" => b.completed = 0 /\ b.idled <= IF c = v THEN 0 ELSE 1
    /\ v = y => b.at = "none" /\ b.completed = 0
    /\ c = v => b.at \in {"gone", "dropped"} \/ v = y

Awaited(b, v, due) ==
    \/ b.at # "exec"
    \/ \E e \in due : e.id = v
    \/ b.callback /\ (b.fence # None => fence[b.fence] = "reset" \/ walk = b.fence)

\* C are the windows that may be flipped to
Covered(b, C) ==
    \/ b.window \in C
    \/ b.at = "pending" /\ b.abort
    \/ b.at # "pending" /\ ~b.flip

Request(b, v, p, c, due, H, y, C) ==
    /\ Lives(b, v, p, c, y)
    /\ v \notin H => Awaited(b, v, due) /\ (b.at = "none" => b = NoVblank)
    /\ v # y => Covered(b, C)

OneWay(s) ==
    /\ ~(s.pending # None /\ s.unflip)
    /\ s.unflip => s.cur.pixmap # None
    /\ s.cur.window # None => s.cur.pixmap # None

\* Every window draws to the screen's pixmap or to what the root window does.
Drawn(s) ==
    /\ \A w \in DOMAIN s.pix : s.pix[w] \in {Screen, s.pix[Root]}
    /\ \/ s.pix[Root] = Screen
       \/ s.pending # None /\ s.pix[Root] = s.pending /\ ~s.vb[s.pending].abort
       \/ s.pending = None /\ s.pix[Root] = s.cur.pixmap /\ ~s.unflip

Mid(s, H, y, C) ==
    /\ y \in H \cup {None} /\ Typed(s) /\ InOrder(s) /\ OneWay(s) /\ Drawn(s)
    /\ \A v \in Ids : Request(s.vb[v], v, s.pending, s.cur.pixmap, s.due, H, y, C)

\* what is shown is shown in a window of C
Shown(s, C) == s.pending = None /\ ~s.unflip => s.cur.window \in C

Coverable(s) == {full, None} \cup s.missed

IndInv ==
    /\ TypeOK
    /\ Mid(scr, {}, None, Coverable(scr)) /\ Shown(scr, Coverable(scr))
    /\ \A v \in Ids : v > last => scr.vb[v].at = "none"
    /\ walk # None => fence[walk] = "triggered"

-----------------------------------------------------------------------------
(***************************************************************************)
(* The frames requests are executed in, as they are in the middle of a     *)
(* call; r are the requests as they were before the step.                  *)
(***************************************************************************)
Events(v, due) == {e \in due : e.id = v}

\* what request v, now b, plans to do at which frame, and what it has done
Planned(b, v, r) ==
    LET old == r[v].at \in {"exec", "flip"}
    IN  /\ b.pixmap => b.exec = IF b.flip /\ b.sync THEN b.target - 1 ELSE b.target
        /\ b.pixmap /\ old => b.target = r[v].target /\ b.sync = r[v].sync
        /\ b.mode = "copy" /\ old => b.refused \/ r[v].target <= msc

\* E are the events it is owed.  A flip is executed when its event comes, and
\* then its frame has come; only the copy it may be turned into can be one frame
\* early, and waits again.
Timed(b, E) ==
    \/ b.refused
    \/ /\ b.at = "none" => E = {}
       /\ b.at \in {"gone", "dropped"} => ~b.pixmap
       /\ b.pixmap /\ b.flip =>
             /\ \A e \in E : b.at = "exec" /\ ~b.callback /\ e.msc = b.exec
             /\ E = {} => b.exec <= msc
       /\ b.pixmap /\ ~b.flip =>
             /\ \A e \in E : b.exec <= e.msc + 1
             /\ E = {} \/ b.callback \/ b.at = "flip" => b.exec <= msc + 1

Fares(s, v, H, y, r) ==
    LET b == s.vb[v]
    IN  /\ Planned(b, v, r)
        /\ v \notin H => Timed(b, Events(v, s.due))
        /\ v \in s.flips => b.at \in {"pending", "gone", "dropped"} \/ v = y
        /\ b.refused => "queue" \in Refusals

\* the driver reports each flip once, if no request is executed before its time
Flown(s) == "queue" \notin Refusals => s.flips = {s.pending} \ {None}

InTime(s, H, y, r) == (\A v \in Ids : Fares(s, v, H, y, r)) /\ Flown(s)

TimeInv == InTime(scr, {}, None, scr.vb)
=============================================================================
