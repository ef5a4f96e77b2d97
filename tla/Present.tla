------------------------------ MODULE Present ------------------------------
(***************************************************************************)
(* The Present extension's screen flip mode, Xext/present/present_scmd.d   *)
(* with present_execute.d, present_vblank.d, present_fence.d and the       *)
(* window hooks of present_screen.d: requests that show a pixmap in a      *)
(* window at a given frame, by a copy or by flipping the whole screen to   *)
(* the pixmap and back.                                                    *)
(*                                                                         *)
(* One thread runs it.  What it calls may call it back: a driver that      *)
(* cannot flip back says at once that it has, which retries a request that *)
(* waited.  An operator named for what was done, such as Executed, is the  *)
(* set of the states the call may leave behind.                            *)
(*                                                                         *)
(* One screen, one CRTC with a driver that flips, and no TearFree; every   *)
(* request shows a pixmap of its own and has the pixmap's name.            *)
(***************************************************************************)
EXTENDS Integers, FiniteSets

CONSTANTS
    Windows, Fences,
    Root, Screen,   \* the root window; the screen's own pixmap
    None,
    Shapes,         \* the kinds of PresentPixmap requests that clients send
    Capabilities,   \* of the driver: which of AsyncKinds it can do
    Fields,         \* the pairs <<divisor, remainder>> they ask for
    Refusals,       \* what the driver may refuse, a subset of {"flip", "queue"}
    MaxRequests,    \* bound: requests made
    MaxMSC          \* bound: frames of the CRTC

Ids == 1 .. MaxRequests
MSCs == 0 .. MaxMSC

\* PresentAllAsyncOptions, and the capabilities of the same names
AsyncKinds == {"Async", "AsyncMayTear"}

\* copy: it cannot flip (PresentOptionCopy, an offset, a part of the screen);
\* async: which options say that it need not wait for the frame; update: it
\* shows a part of the pixmap
Shape == [copy : BOOLEAN, async : SUBSET AsyncKinds, update : BOOLEAN,
          fence : Fences \cup {None}]

ASSUME ShapesAssumption ==
    /\ Shapes \subseteq Shape /\ Capabilities \subseteq AsyncKinds
    /\ Refusals \subseteq {"flip", "queue"}
    /\ MaxRequests \in Nat /\ MaxMSC \in Nat
    /\ \A f \in Fields : f \in Nat \X Nat /\ (f[1] = 0 => f[2] = 0) /\ (f[1] # 0 => f[2] < f[1])
ASSUME PresentNames ==
    /\ Root \notin Windows /\ None \notin Windows \cup Fences \cup Ids
    /\ Screen \notin Ids \cup {None} /\ None # Root

VARIABLES
    scr,        \* present_screen_priv, the requests, and what the driver owes it
    fence,      \* of a fence: "reset", "triggered" or "destroyed"
    walk,       \* the fence whose triggers are being run through, or None
    msc,        \* the CRTC's frame counter
    full,       \* the window whose clip list is the whole screen, or None
    last        \* the newest request

vars == <<scr, fence, walk, msc, full, last>>

(***************************************************************************)
(* scr.vb       the requests: where each one is ("none" before it is made, *)
(*              "exec" and "flip" on the queue of that name, "pending" when *)
(*              it is flip_pending, "gone" when it is done, "dropped" when *)
(*              it went with its window) and the fields of present_vblank; *)
(*              refused: the driver would not queue its event; idled,      *)
(*              completed: how many such events it has caused; mode: what  *)
(*              the last complete event said                               *)
(* scr.queue    present_flip_queue but for the pending flip: of each       *)
(*              request in it, those in front                              *)
(* scr.pending, scr.unflip, scr.cur     flip_pending; is unflip_event_id   *)
(*              set; flip_window and flip_pixmap                           *)
(* scr.pix      the pixmap each living window draws to                     *)
(* scr.due      events the driver owes: frame msc for request id           *)
(* scr.flips    flips the driver has yet to report                         *)
(* scr.missed   windows whose last change of clip present_check_flip_window *)
(*              did not look at, or which a request flipped to meanwhile   *)
(***************************************************************************)
NoVblank == [at |-> "none", window |-> None, pixmap |-> FALSE, fence |-> None,
             target |-> 0, exec |-> 0, sync |-> FALSE, flip |-> FALSE,
             ready |-> FALSE, abort |-> FALSE, callback |-> FALSE,
             refused |-> FALSE, idled |-> 0, completed |-> 0, mode |-> "none"]
NoFlip == [window |-> None, pixmap |-> None]

Living(s) == DOMAIN s.pix \ {Root}
Queued(s) == {v \in Ids : s.vb[v].at \in {"exec", "flip"}}

\* (mutant: those behind it still follow it)
WithoutGap(q, T) == [v \in DOMAIN q \ T |-> q[v]]

Without(q, T) == [v \in DOMAIN q \ T |-> q[v] \ T]
Appended(q, v) ==
    [u \in DOMAIN q \cup {v} |-> IF u = v THEN DOMAIN q \ {v} ELSE q[u] \ {v}]

-----------------------------------------------------------------------------
(* Frames.                                                                 *)

\* present_get_target_msc
TargetMSC(arg, now, divisor, remainder, async) ==
    LET field == (now - (now % divisor)) + remainder
    IN  IF arg > now THEN arg
        ELSE IF divisor = 0 THEN IF async THEN now ELSE now + 1
        ELSE IF field > now \/ (async /\ field = now) THEN field ELSE field + divisor

\* present_queue_vblank, and what follows if the driver refuses
QueueVblank(s, v) == [s EXCEPT !.due = @ \cup {[id |-> v, msc |-> s.vb[v].exec]}]
Refused(s, v) == [s EXCEPT !.vb[v].refused = TRUE]

-----------------------------------------------------------------------------
(* Pixmaps: which one a window draws to, and when a client gets its back.  *)

\* present_set_tree_pixmap
SetTree(pix, w, new) ==
    [u \in DOMAIN pix |->
        IF u \in (IF w = Root THEN DOMAIN pix ELSE {w}) /\ pix[u] = pix[w] THEN new ELSE pix[u]]

SetTreeFrom(pix, w, expected, new) == IF pix[w] = expected THEN SetTree(pix, w, new) ELSE pix

\* (mutant: the windows go on drawing to the pixmap that is flipped away)
RestoredNot(s) == s

\* present_restore_screen_pixmap
Restored(s) ==
    LET f == IF s.pending = None THEN s.cur
             ELSE [window |-> s.vb[s.pending].window, pixmap |-> s.pending]
        p == IF f.window = None THEN s.pix ELSE SetTreeFrom(s.pix, f.window, f.pixmap, Screen)
    IN  [s EXCEPT !.pix = SetTree(p, Root, Screen)]

\* (mutant: the flag is not set)
AbortFlipUnmarked(s) == IF s.vb[s.pending].abort THEN s ELSE Restored(s)

\* present_set_abort_flip
AbortFlip(s) ==
    IF s.vb[s.pending].abort THEN s
    ELSE [Restored(s) EXCEPT !.vb[s.pending].abort = TRUE]

Idled(s, v) == [s EXCEPT !.vb[v].idled = @ + 1]

\* (mutant: the pixmap is not forgotten)
FlipIdleKept(s) == IF s.cur.pixmap = None THEN s ELSE Idled(s, s.cur.pixmap)

\* present_flip_idle
FlipIdle(s) ==
    IF s.cur.pixmap = None THEN s ELSE [Idled(s, s.cur.pixmap) EXCEPT !.cur = NoFlip]

\* present_vblank_destroy of requests that are done, or go with their window
Destroyed(s, T, how) ==
    [s EXCEPT !.queue = Without(@, T),
              !.vb = [v \in Ids |->
                         IF v \in T
                         THEN [NoVblank EXCEPT !.at = how, !.idled = s.vb[v].idled,
                                               !.completed = s.vb[v].completed,
                                               !.mode = s.vb[v].mode,
                                               !.refused = s.vb[v].refused]
                         ELSE s.vb[v]]]

\* the complete event, and the end
Post(s, v, mode) ==
    Destroyed([s EXCEPT !.vb[v].completed = @ + 1, !.vb[v].mode = mode], {v}, "gone")

-----------------------------------------------------------------------------
(* Execution.                                                              *)

\* (mutant: it waits for an event that was not asked for)
EarlyLost(s, v, now) == IF s.vb[v].exec = now + 1 THEN {s} ELSE {}

\* asked for the next frame: wait for it, unless the driver refuses
Early(s, v, now) == IF s.vb[v].exec = now + 1 THEN {QueueVblank(s, v)} ELSE {}
OnTime(s, v, now) ==
    IF s.vb[v].exec # now + 1 THEN {s}
    ELSE IF "queue" \in Refusals THEN {Refused(s, v)} ELSE {}

\* the driver takes the flip
Flipped(s, v) ==
    LET w == s.vb[v].window
        p == IF s.cur.window \in {None, w} THEN s.pix
             ELSE SetTreeFrom(s.pix, s.cur.window, s.cur.pixmap, Screen)
    IN  [s EXCEPT !.pending = v, !.flips = @ \cup {v}, !.vb[v].at = "pending",
                  !.pix = SetTree(SetTree(p, w, v), Root, v)]

\* A window that is copied to is not flipped to: what becomes of its flip.
\* unflipped is what present_unflip, which knows nothing of v, would leave.
CopyTarget(s, v, unflipped) ==
    LET w == s.vb[v].window
    IN  IF s.pending # None
        THEN IF w = s.vb[s.pending].window THEN {AbortFlip(s)} ELSE {s}
        ELSE IF ~s.unflip /\ w = s.cur.window
        THEN {[u EXCEPT !.vb[v] = s.vb[v]] : u \in unflipped}
        ELSE {s}

\* present_execute_copy, after a look at the window's flips
Copied(s, v, now, unflipped) ==
    UNION {{[u EXCEPT !.vb[v].at = "exec"] : u \in Early(t, v, now)}
           \cup {Post(Idled(u, v), v, "copy") : u \in OnTime(t, v, now)} :
               t \in CopyTarget(s, v, unflipped)}

\* the request leaves its queue
TakenOut(s, v) == [s EXCEPT !.queue = Without(@, {v}), !.vb[v].at = "none"]

\* present_execute of a request that waits for nothing any more
Performed(s, v, now, unflipped) ==
    LET b == s.vb[v]
        t == TakenOut(s, v)
        failed == [t EXCEPT !.vb[v].flip = FALSE, !.vb[v].exec = b.target]
    IN  IF ~b.pixmap THEN {Post(t, v, "skip")}
        ELSE IF ~b.flip THEN Copied(t, v, now, unflipped)
        ELSE {Flipped(t, v)}
             \cup (IF "flip" \in Refusals THEN Copied(failed, v, now, unflipped) ELSE {})

FenceWaits(b) == b.fence # None /\ fence[b.fence] = "reset"

\* to the end of the flip queue, where the pending flip may be already
WaitForFlip(s, v) ==
    IF v = s.pending THEN [s EXCEPT !.vb[v].ready = TRUE]
    ELSE [s EXCEPT !.queue = Appended(@, v), !.vb[v].ready = TRUE, !.vb[v].at = "flip"]

\* (mutant: an unflip under way does not keep a request from flipping)
MustWaitNot(s, b) == b.flip /\ b.pixmap /\ s.pending # None

MustWait(s, b) == b.flip /\ b.pixmap /\ (s.pending # None \/ s.unflip)

\* present_execute
Executed(s, v, now, unflipped) ==
    Early(s, v, now)
    \cup UNION {IF FenceWaits(t.vb[v]) THEN {[t EXCEPT !.vb[v].callback = TRUE]}
                ELSE IF MustWait(t, t.vb[v]) THEN {WaitForFlip(t, v)}
                ELSE Performed(t, v, now, unflipped) : t \in OnTime(s, v, now)}

FirstToFlip(s) == {v \in DOMAIN s.queue : s.queue[v] = {}}

\* present_flip_try_ready when the screen is not flipped any more, so that the
\* request finds nothing to unflip in its turn
TryUnflipped(s) ==
    IF DOMAIN s.queue = {} THEN {s} ELSE UNION {Executed(s, v, msc, {}) : v \in FirstToFlip(s)}

\* present_unflip, by a driver that reports it later or at once
Unflipped(s) ==
    {[Restored(s) EXCEPT !.unflip = TRUE]} \cup TryUnflipped(FlipIdle(Restored(s)))

Execute(s, v, now) == Executed(s, v, now, Unflipped(TakenOut(s, v)))

\* present_flip_try_ready: the first request of the queue, and no other
TryReady(s) ==
    IF DOMAIN s.queue = {} THEN {s} ELSE UNION {Execute(s, v, msc) : v \in FirstToFlip(s)}

\* present_flip_notify
FlipNotify(s, v) ==
    LET b == s.vb[v]
        t == [FlipIdle(s) EXCEPT !.cur = [window |-> b.window, pixmap |-> v],
                                 !.pending = None, !.vb[v].at = "none"]
    IN  UNION {TryReady(IF b.window = None THEN Destroyed(u, {v}, "dropped") ELSE Post(u, v, "flip")) :
                   u \in IF b.abort THEN Unflipped(t) ELSE {t}}

\* present_event_notify of a request's event
EventNotify(s, v, now) ==
    IF v \in Queued(s) THEN Execute(s, v, now)
    ELSE IF v = s.pending THEN FlipNotify(s, v) ELSE {s}

-----------------------------------------------------------------------------
(* Windows that are reconfigured.                                          *)

\* present_check_flip, as far as it may change once a request is made
CheckFlip(s, w, whole) ==
    whole = w /\ s.pix[w] \in {Screen, s.cur.pixmap, s.pending}

\* present_check_flip_window: what becomes of the flips of w
Unshown(s, w, whole) ==
    IF CheckFlip(s, w, whole) THEN {s}
    ELSE IF s.pending # None
    THEN IF s.vb[s.pending].window = w THEN {AbortFlip(s)} ELSE {s}
    ELSE IF s.cur.window = w THEN Unflipped(s) ELSE {s}

\* (mutant: requests that are queued are not looked at)
UnplannedNot(s, w, whole) == s

\* and of the requests that planned to flip to it
Unplanned(s, w, whole) ==
    IF CheckFlip(s, w, whole) THEN s
    ELSE [s EXCEPT !.vb =
             [v \in Ids |->
                 IF v \in Queued(s) /\ s.vb[v].window = w /\ s.vb[v].flip
                 THEN [s.vb[v] EXCEPT !.flip = FALSE, !.exec = IF s.vb[v].sync
                                                               THEN s.vb[v].target ELSE @]
                 ELSE s.vb[v]]]

\* present_unflip let a request flip to w that waited, and is not queued now
FlippedMeanwhile(s, t, w) ==
    t.pending \notin {None, s.pending} /\ t.vb[t.pending].window = w

CheckFlipWindow(s, w, whole) ==
    IF s.unflip THEN {[s EXCEPT !.missed = @ \cup {w}]}
    ELSE {[Unplanned(t, w, whole) EXCEPT
              !.missed = IF FlippedMeanwhile(s, t, w) THEN @ \cup {w} ELSE @ \ {w}] :
                  t \in Unshown(s, w, whole)}

\* present_scmd_clear_window_flip
ClearWindowFlip(s, w) ==
    LET t == IF s.pending # None /\ s.vb[s.pending].window = w
             THEN [AbortFlip(s) EXCEPT !.vb[s.pending].window = None] ELSE s
    IN  IF t.cur.window = w THEN [Restored(t) EXCEPT !.cur.window = None] ELSE t

\* present_free_window_vblank: the requests on the window's list
WindowRequests(s, w) == {v \in Queued(s) : s.vb[v].window = w}

\* present_destroy_window
WindowGone(s, w) ==
    LET T == WindowRequests(s, w)
        t == ClearWindowFlip([Destroyed(s, T, "dropped") EXCEPT
                                 !.due = {e \in @ : e.id \notin T}], w)
    IN  [t EXCEPT !.missed = @ \ {w},
                  !.pix = [u \in DOMAIN @ \ {w} |-> @[u]]]

-----------------------------------------------------------------------------
(* Requests.                                                               *)

\* the requests that one for the whole window at the same frame overwrites
Overwritten(s, w, target, shape) ==
    IF shape.update THEN {}
    ELSE {v \in Queued(s) : s.vb[v].window = w /\ s.vb[v].pixmap /\ s.vb[v].target = target}

\* present_vblank_scrap
Scrap(b) == [b EXCEPT !.idled = @ + 1, !.flip = FALSE, !.pixmap = FALSE]

\* the complete event of a request that has no pixmap any more
Skip(b) == [b EXCEPT !.completed = @ + 1, !.mode = "skip"]

\* and present_re_execute of those that waited for a flip: each has no pixmap
\* now, so that what it does concerns no other request
Scrapped(s, T) ==
    LET t == [s EXCEPT !.vb = [v \in Ids |-> IF v \in T THEN Scrap(s.vb[v]) ELSE s.vb[v]]]
        again == {v \in T : s.vb[v].ready}
        early == {v \in again : s.vb[v].exec = msc + 1}
        Outcome(E) ==
            LET waiting == {v \in again \ E : FenceWaits(s.vb[v])}
                over == again \ (E \cup waiting)
            IN  [Destroyed(t, over, "gone") EXCEPT
                    !.due = @ \cup {[id |-> v, msc |-> s.vb[v].exec] : v \in E},
                    !.vb = [v \in Ids |->
                               IF v \in waiting THEN [@[v] EXCEPT !.callback = TRUE]
                               ELSE IF v \in over THEN Skip(@[v]) ELSE @[v]]]
    IN  {Outcome(E) : E \in IF "queue" \in Refusals THEN SUBSET early ELSE {early}}

\* present_want_async_flip: an option the driver lacks does not make a flip
\* asynchronous, though present_get_target_msc has let it aim at this frame
WantAsyncFlip(shape) == shape.async \cap Capabilities # {}

\* (mutant: copies are executed a frame ahead like flips)
NewVblankAhead(s, w, target, shape) ==
    LET flip == ~shape.copy /\ CheckFlip(s, w, full)
    IN  [NoVblank EXCEPT !.at = "exec", !.window = w, !.pixmap = TRUE, !.fence = shape.fence,
                         !.target = target, !.sync = flip /\ ~WantAsyncFlip(shape), !.flip = flip,
                         !.exec = IF ~WantAsyncFlip(shape) THEN target - 1 ELSE target]

\* present_vblank_init
NewVblank(s, w, target, shape) ==
    LET flip == ~shape.copy /\ CheckFlip(s, w, full)
    IN  [NoVblank EXCEPT !.at = "exec", !.window = w, !.pixmap = TRUE, !.fence = shape.fence,
                         !.target = target, !.sync = flip /\ ~WantAsyncFlip(shape), !.flip = flip,
                         !.exec = IF flip /\ ~WantAsyncFlip(shape) THEN target - 1 ELSE target]

\* present_scmd_pixmap, once the old requests are scrapped
Queue(s, v, w, target, shape) ==
    LET t == [s EXCEPT !.vb[v] = NewVblank(s, w, target, shape)]
    IN  IF t.vb[v].exec <= msc THEN Execute(t, v, msc)
        ELSE {QueueVblank(t, v)}
             \cup (IF "queue" \in Refusals THEN Execute(Refused(t, v), v, msc) ELSE {})

-----------------------------------------------------------------------------
Init ==
    /\ scr = [vb |-> [v \in Ids |-> NoVblank], queue |-> [v \in {} |-> {}], pending |-> None,
              unflip |-> FALSE, cur |-> NoFlip, pix |-> [w \in Windows \cup {Root} |-> Screen],
              due |-> {}, flips |-> {}, missed |-> {}]
    /\ fence = [f \in Fences |-> "reset"]
    /\ walk = None
    /\ msc = 0
    /\ full \in Windows \cup {None}
    /\ last = 0

\* proc_present_pixmap_common
PresentPixmap(w, shape, arg, field) ==
    LET target == TargetMSC(arg, msc, field[1], field[2], shape.async # {})
    IN  /\ walk = None /\ last < MaxRequests /\ target <= MaxMSC
        /\ shape.fence # None => fence[shape.fence] # "destroyed"
        /\ last' = last + 1
        /\ \E s \in Scrapped(scr, Overwritten(scr, w, target, shape)) :
              scr' \in Queue(s, last + 1, w, target, shape)
        /\ UNCHANGED <<fence, walk, msc, full>>

\* the CRTC begins another frame
Frame ==
    /\ msc < MaxMSC
    /\ msc' = msc + 1
    /\ UNCHANGED <<scr, fence, walk, full, last>>

\* ms_present_vblank_handler, at the frame asked for or late
VblankEvent ==
    /\ walk = None
    /\ \E e \in scr.due : \E now \in e.msc .. msc :
          scr' \in EventNotify([scr EXCEPT !.due = @ \ {e}], e.id, now)
    /\ UNCHANGED <<fence, walk, msc, full, last>>

\* ms_present_flip_handler
FlipEvent ==
    /\ walk = None
    /\ \E v \in scr.flips :
          scr' \in EventNotify([scr EXCEPT !.flips = @ \ {v}], v, msc)
    /\ UNCHANGED <<fence, walk, msc, full, last>>

UnflipEvent ==
    /\ walk = None /\ scr.unflip
    /\ scr' \in TryReady(FlipIdle([scr EXCEPT !.unflip = FALSE]))
    /\ UNCHANGED <<fence, walk, msc, full, last>>

\* present_clip_notify of a window whose clip list is as it was, or is not the
\* whole screen, before and after
ClipNotify(w) ==
    /\ walk = None
    /\ scr' \in CheckFlipWindow(scr, w, full)
    /\ UNCHANGED <<fence, walk, msc, full, last>>

\* another window covers the screen, or none does: the top one is told first
Cover(w) ==
    /\ walk = None /\ w # full
    /\ full' = w
    /\ \E s \in IF w = None THEN {scr} ELSE CheckFlipWindow(scr, w, w) :
          scr' \in IF full = None THEN {s} ELSE CheckFlipWindow(s, full, w)
    /\ UNCHANGED <<fence, walk, msc, last>>

\* DestroyWindow: if it was mapped it is unmapped first, which clips it
DestroyWindow(w) ==
    /\ walk = None
    /\ full' = IF full = w THEN None ELSE full
    /\ \E s \in CheckFlipWindow(scr, w, full') \cup (IF full = w THEN {} ELSE {scr}) :
          scr' = WindowGone(s, w)
    /\ UNCHANGED <<fence, walk, msc, last>>

\* miSyncTriggerFence sets the fence and starts to run through its triggers
TriggerFence(f) ==
    /\ walk = None /\ fence[f] # "destroyed"
    /\ fence' = [fence EXCEPT ![f] = "triggered"]
    /\ walk' = f
    /\ UNCHANGED <<scr, msc, full, last>>

\* present_fence_sync_check_trigger
Callbacks(f) == {v \in Ids : scr.vb[v].fence = f /\ scr.vb[v].callback}

\* present_wait_fence_triggered of the newest; the walk begins again after it.
\* (present_execute follows the window of a pending flip even if it is gone.)
FenceFires ==
    /\ walk # None /\ Callbacks(walk) # {}
    /\ \E v \in Callbacks(walk) :
          /\ \A u \in Callbacks(walk) : u <= v
          /\ scr.vb[v].window # None
          /\ scr' \in Execute(scr, v, msc)
    /\ UNCHANGED <<fence, walk, msc, full, last>>

FenceDone ==
    /\ walk # None /\ Callbacks(walk) = {}
    /\ walk' = None
    /\ UNCHANGED <<scr, fence, msc, full, last>>

ResetFence(f) ==
    /\ walk = None /\ fence[f] = "triggered"
    /\ fence' = [fence EXCEPT ![f] = "reset"]
    /\ UNCHANGED <<scr, walk, msc, full, last>>

\* present_fence_sync_counter_destroyed: the request forgets the fence, and is
\* not executed again
DestroyFence(f) ==
    /\ walk = None /\ fence[f] # "destroyed"
    /\ fence' = [fence EXCEPT ![f] = "destroyed"]
    /\ scr' = [scr EXCEPT !.vb = [v \in Ids |-> IF @[v].fence = f
                                                THEN [@[v] EXCEPT !.fence = None] ELSE @[v]]]
    /\ UNCHANGED <<walk, msc, full, last>>

Next ==
    \/ \E w \in Living(scr), shape \in Shapes, arg \in MSCs, field \in Fields :
          PresentPixmap(w, shape, arg, field)
    \/ Frame \/ VblankEvent \/ FlipEvent \/ UnflipEvent
    \/ \E w \in Living(scr) : ClipNotify(w) \/ Cover(w) \/ DestroyWindow(w)
    \/ Cover(None)
    \/ \E f \in Fences : TriggerFence(f) \/ ResetFence(f) \/ DestroyFence(f)
    \/ FenceFires \/ FenceDone

Spec == Init /\ [][Next]_vars

\* frames go by, the driver is heard between requests however many of them
\* trigger fences, and miSyncTriggerFence does not stop
FairSpec ==
    /\ Spec /\ WF_vars(Frame) /\ WF_vars(FenceFires \/ FenceDone)
    /\ SF_vars(VblankEvent) /\ SF_vars(FlipEvent) /\ SF_vars(UnflipEvent)
=============================================================================
