----------------------------- MODULE EventQueue -----------------------------
(***************************************************************************)
(* The input event queue of mi/mieq.d: a ring that the input thread (and   *)
(* the main thread itself, when it moves the pointer) fills under          *)
(* input_lock and the main thread empties, releasing the lock around each  *)
(* event; and the removal and disabling of devices that queued events      *)
(* point to, as config/config.d, dix/devices.d, dix/touch.d and            *)
(* dix/gestures.d order it.                                                *)
(*                                                                         *)
(* pc says where the main thread is:                                       *)
(*   "idle"     outside                                                    *)
(*   "loop"     at the test of mieqProcessInputEvents's loop, lock held    *)
(*   "process"  inside mieqProcessDeviceEvent for the event current        *)
(*   "between"  in the function that drains the queue, before or after it  *)
(***************************************************************************)
EXTENDS Naturals, Sequences

CONSTANTS
    Devices,    \* input devices
    Gestures,   \* those that have a gesture class
    Times,      \* time stamps of events
    MaxEvents,  \* bound: events ever enqueued
    Initial,    \* QUEUE_INITIAL_SIZE
    Sizes,      \* Initial and the doublings of it that memory can hold
    Word,       \* 2^32, the modulus of mieqEnqueue's uint oldtail
    GrowthFails \* whether mieqGrowQueue may fail to allocate the new array

ASSUME SizesAssumption ==
    /\ Sizes \subseteq Nat \ {0} /\ Initial \in Sizes
    /\ \A n \in Sizes : n > 1
\* "a power of 2"
ASSUME WordAssumption == Word \in Nat /\ \A n \in Sizes : (Word - 1) % n = n - 1 /\ n <= Word
ASSUME EventsAssumption == MaxEvents \in Nat /\ Times \subseteq Nat /\ Gestures \subseteq Devices
ASSUME FailureAssumption == GrowthFails \in BOOLEAN

NoDevice == "none"
ASSUME DevicesAssumption == NoDevice \notin Devices
NoTime == 0
Types == {"Motion", "Other"}

\* id tells events of the same kind apart
Event == [id : 1 .. MaxEvents, dev : Devices, type : Types, time : Times]
Unused == [id |-> 0, dev |-> NoDevice, type |-> "Other", time |-> NoTime]
Entry == Event \cup {Unused}

VARIABLES
    events,         \* events[], each entry with its device
    head, tail, nevents, lastMotion, lastEventTime, dropped,
    count,          \* events enqueued so far
    device,         \* "on", "off", or "freed" by CloseDevice
    locked,         \* whether the main thread holds input_lock
    pc, current,
    task            \* what the main thread drains the queue for

ring == <<events, head, tail, nevents, lastMotion, lastEventTime, dropped, count>>
main == <<locked, pc, current, task>>
vars == <<ring, device, main>>

NoTask == [kind |-> "none", dev |-> NoDevice, drains |-> 0]

\* a task that holds input_lock around its drains: mieqProcessInputEvents's
\* own input_unlock then only undoes its own input_lock
Holds(t) == t.kind \in {"disable", "remove"}

-----------------------------------------------------------------------------
(* The ring.                                                               *)

\* (mutant: the index runs off the array)
Successor(i) == i + 1

\* (head + 1) % nevents
After(i) == (i + 1) % nevents

\* mieqNumEnqueued, of a ring of n entries used from h up to t
Num(h, t, n) == IF t + n - h >= n THEN t - h ELSE t + n - h

NumEnqueued == Num(head, tail, nevents)

\* (oldtail - 1) % nevents, in uint arithmetic
Before(i) == ((i + Word - 1) % Word) % nevents

\* (mutant: the array is copied as it lies)
CopiedAsIs(size) == [i \in 0 .. size - 1 |-> IF i < nevents THEN events[i] ELSE Unused]

\* the array mieqGrowQueue copies the old one into, from head on
Copied(size) ==
    [i \in 0 .. size - 1 |-> IF i < nevents THEN events[(head + i) % nevents] ELSE Unused]

\* "avoid merging events from different devices"
Merges(e) == e.type = "Motion" /\ lastMotion = e.dev /\ tail # head

\* the device of e if e is a motion
LastMotionAfter(e) == IF e.type = "Motion" THEN e.dev ELSE NoDevice

\* the end of mieqEnqueue: e is stored at slot i of array a of n entries
Store(e, i, a, n) ==
    /\ events' = [a EXCEPT ![i] = e]
    /\ tail' = (i + 1) % n
    /\ lastEventTime' = e.time
    /\ lastMotion' = LastMotionAfter(e)

\* mieqEnqueue, under input_lock
Merge(e) ==
    /\ Merges(e)
    /\ Store(e, Before(tail), events, nevents)
    /\ UNCHANGED <<head, nevents, dropped>>

Insert(e) ==
    /\ ~Merges(e) /\ NumEnqueued + 1 # nevents
    /\ Store(e, tail, events, nevents)
    /\ UNCHANGED <<head, nevents, dropped>>

\* mieqGrowQueue doubles the ring and moves its start to slot 0
Grow(e) ==
    /\ ~Merges(e) /\ NumEnqueued + 1 = nevents
    /\ 2 * nevents \in Sizes
    /\ head' = 0
    /\ nevents' = 2 * nevents
    /\ Store(e, NumEnqueued, Copied(2 * nevents), 2 * nevents)
    /\ UNCHANGED <<dropped>>

\* mieqGrowQueue fails and the event is tossed
Drop(e) ==
    /\ ~Merges(e) /\ NumEnqueued + 1 = nevents
    /\ GrowthFails
    /\ dropped' = dropped + 1
    /\ UNCHANGED <<events, head, tail, nevents, lastMotion, lastEventTime>>

\* the input thread, or the main thread while it handles an event or a
\* request, enqueues an event of a device that is enabled
Enqueue ==
    /\ count < MaxEvents
    /\ ~locked \/ pc = "process"
    /\ \E d \in Devices, ty \in Types, ti \in Times :
        LET e == [id |-> count + 1, dev |-> d, type |-> ty, time |-> ti]
        IN /\ device[d] = "on"
           /\ Merge(e) \/ Insert(e) \/ Grow(e) \/ Drop(e)
    /\ count' = count + 1
    /\ UNCHANGED <<device, main>>

-----------------------------------------------------------------------------
(* The main thread.                                                        *)

\* the main thread has something to do that starts with a drain
StartTask(t) ==
    /\ pc = "idle"
    /\ pc' = "between" /\ task' = t /\ locked' = (t.kind = "remove")
    /\ UNCHANGED <<ring, device, current>>

\* ProcessInputEvents from Dispatch
Process == StartTask([kind |-> "process", dev |-> NoDevice, drains |-> 1])

\* DisableDevice calls TouchEndPhysicallyActiveTouches, which drains, and
\* GestureEndActiveGestures, which does if the device has gestures
DrainsOfDisable(d) == IF d \in Gestures THEN 2 ELSE 1

\* (mutant: remove_device does not call ProcessInputEvents itself)
DrainsOfDisableOnly(d) == IF device[d] = "on" THEN DrainsOfDisable(d) ELSE 0

\* remove_device drains, and so does the DisableDevice of an enabled device
DrainsBeforeRemoval(d) == IF device[d] = "on" THEN 1 + DrainsOfDisable(d) ELSE 1

\* remove_device: input_lock, ProcessInputEvents, DeleteInputDeviceRequest
Remove(d) ==
    /\ device[d] # "freed"
    /\ StartTask([kind |-> "remove", dev |-> d, drains |-> DrainsBeforeRemoval(d)])

\* DisableDevice, of a client's request
Disable(d) ==
    /\ device[d] = "on"
    /\ StartTask([kind |-> "disable", dev |-> d, drains |-> DrainsOfDisable(d)])

\* EnableDevice
Enable(d) ==
    /\ pc = "idle" /\ device[d] = "off"
    /\ device' = [device EXCEPT ![d] = "on"]
    /\ UNCHANGED <<ring, main>>

\* mieqProcessInputEvents is entered
Drain ==
    /\ pc = "between" /\ task.drains > 0
    /\ pc' = "loop" /\ locked' = TRUE
    /\ dropped' = 0
    /\ UNCHANGED <<events, head, tail, nevents, lastMotion, lastEventTime, 
                   count, device, current, task>>

\* one event is copied out and the lock released around its processing
Dequeue ==
    /\ pc = "loop" /\ head # tail
    /\ current' = events[head]
    /\ head' = After(head)
    /\ pc' = "process" /\ locked' = Holds(task)
    /\ UNCHANGED <<events, tail, nevents, lastMotion, lastEventTime, dropped, 
                   count, device, task>>

\* mieqProcessDeviceEvent has returned; events of disabled devices were refused
Processed ==
    /\ pc = "process"
    /\ current' = Unused
    /\ pc' = "loop" /\ locked' = TRUE
    /\ UNCHANGED <<ring, device, task>>

\* (mutant: the loop ends when the event it took was processed)
DoneAfterOne == pc = "loop"

\* "head != tail" has become false
Done == pc = "loop" /\ head = tail

\* the drain's caller releases the lock, but for remove_device, which holds it
Drained ==
    /\ Done
    /\ pc' = "between" /\ task' = [task EXCEPT !.drains = @ - 1]
    /\ locked' = (task.kind = "remove")
    /\ UNCHANGED <<ring, device, current>>

\* what comes after the drains: DisableDevice's DEVICE_OFF under input_lock
\* and, for remove_device, CloseDevice
Finish ==
    /\ pc = "between" /\ task.drains = 0
    /\ device' = CASE task.kind = "disable" -> [device EXCEPT ![task.dev] = "off"]
                   [] task.kind = "remove" -> [device EXCEPT ![task.dev] = "freed"]
                   [] OTHER -> device
    /\ pc' = "idle" /\ task' = NoTask /\ locked' = FALSE
    /\ UNCHANGED <<ring, current>>

-----------------------------------------------------------------------------
Init ==
    /\ events = [i \in 0 .. Initial - 1 |-> Unused]
    /\ head = 0 /\ tail = 0 /\ nevents = Initial
    /\ lastMotion = NoDevice /\ lastEventTime = NoTime /\ dropped = 0
    /\ count = 0
    /\ device = [d \in Devices |-> "on"]
    /\ locked = FALSE /\ pc = "idle" /\ current = Unused /\ task = NoTask

MainStep == Drain \/ Dequeue \/ Processed \/ Drained \/ Finish

Next == \/ Enqueue
        \/ Process
        \/ \E d \in Devices : Remove(d) \/ Disable(d) \/ Enable(d)
        \/ MainStep

Spec == Init /\ [][Next]_vars
=============================================================================
