-------------------------- MODULE EventQueueProps --------------------------
(***************************************************************************)
(* What the input event queue of EventQueue promises.                      *)
(***************************************************************************)
EXTENDS EventQueue

\* Every variable of miEventQueue and of the main thread has its type: head
\* and tail stay inside the array through every mieqGrowQueue.
RingTypes ==
    /\ nevents \in Sizes /\ nevents >= Initial
    /\ head \in 0 .. nevents - 1 /\ tail \in 0 .. nevents - 1
    /\ events \in [0 .. nevents - 1 -> Entry]
    /\ lastMotion \in Devices \cup {NoDevice}
    /\ lastEventTime \in Times \cup {NoTime}
    /\ dropped \in Nat

MainTypes ==
    /\ count \in 0 .. MaxEvents
    /\ device \in [Devices -> {"on", "off", "freed"}]
    /\ locked \in BOOLEAN /\ pc \in {"idle", "between", "loop", "process"}
    /\ current \in Entry
    /\ task \in [kind : {"none", "process", "disable", "remove"},
                 dev : Devices \cup {NoDevice}, drains : 0 .. 3]

TypeOK == RingTypes /\ MainTypes

\* the entries of array a from h to t, in order
QueueIn(a, h, t, n) == [i \in 1 .. Num(h, t, n) |-> a[(h + i - 1) % n]]

Queued == QueueIn(events, head, tail, nevents)

\* "so we don't try to dereference a device that's already been removed":
\* neither the event in hand nor any queued one points to a device that
\* CloseDevice has freed, whatever was enqueued during and between drains.
DevicesOutliveTheirEvents ==
    /\ \A i \in 1 .. Len(Queued) : device[Queued[i].dev] # "freed"
    /\ pc = "process" => device[current.dev] # "freed"

\* The slot a motion may be merged into is the last one, and it still holds
\* the motion lastMotion speaks of.
LastMotionIsLast ==
    lastMotion # NoDevice /\ Queued # <<>>
        => LET last == Queued[Len(Queued)]
           IN last.dev = lastMotion /\ last.type = "Motion"

\* Through wrapping, doubling and merging the ring is a FIFO: events leave it
\* in the order they entered, none is repeated or changed but a motion superseded by
\* the next motion of its device, and none is tossed while there is room.
Fifo == INSTANCE InputFifo WITH
    Events <- Event, Room <- Initial - 1, queue <- Queued, offered <- count
RingIsFifo == Fifo!FifoSpec

-----------------------------------------------------------------------------
(* What makes these properties inductive.                                  *)

\* no unused entry is in the queue or in hand
OnlyEvents == Queued \in Seq(Event) /\ (pc = "process" => current \in Event)

\* the lock remove_device holds, and the empty queue it ends on
DrainInv ==
    /\ pc = "idle" <=> task.kind = "none"
    /\ task.kind \in {"disable", "remove"} => task.dev \in Devices
    /\ pc \in {"loop", "process"} => task.drains > 0
    /\ pc = "loop" => locked
    /\ task.kind = "remove" /\ pc = "between" => locked /\ (task.drains = 0 => head = tail)

IndInv == TypeOK /\ OnlyEvents /\ DrainInv /\ LastMotionIsLast /\ DevicesOutliveTheirEvents

-----------------------------------------------------------------------------
(* Liveness: the main thread runs, and Dispatch calls ProcessInputEvents    *)
(* while InputCheckPending sees head and tail differ.                       *)

FairSpec == Spec /\ WF_vars(MainStep) /\ WF_vars(head # tail /\ Process)

\* An event that is enqueued is handed to mieqProcessDeviceEvent, or merged
\* into a later one that is.
EveryEventIsTaken ==
    \A i \in 1 .. MaxEvents : (\E k \in 1 .. NumEnqueued : Queued[k].id = i)
                              ~> (\A k \in 1 .. NumEnqueued : Queued[k].id > i)
=============================================================================
