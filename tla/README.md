# TLA+ specifications and proofs of Xenia

Xenia is an X server: the X.Org / XLibre server ported from C to D, under
`src/source/`. This directory holds TLA+ modules of its core logic, the TLC
configurations that check them, and proofs that the TLA+ proof system checks. The
implementation is D; what C there is in the tree is third-party, or not built, or
declarations, and nothing of it is modelled.

Paths below are relative to `src/source/` unless they start with `src/`.
`PROJECT.json` lists components, runs, mutants, hazards, findings and theorems,
and maps every definition of a module to the source lines it stands for.

1. [The system](#1-the-system)
2. [Plan](#2-plan)
3. [Dispatch: the client scheduler](#3-dispatch-the-client-scheduler)
4. [EventQueue: the input event queue](#4-eventqueue-the-input-event-queue)
5. [InputThread: the thread that reads the devices](#5-inputthread-the-thread-that-reads-the-devices)
6. [Timers: the list of timers](#6-timers-the-list-of-timers)
7. [Sync: counters, fences, awaits and alarms](#7-sync-counters-fences-awaits-and-alarms)
8. [Present: copies, flips and frames](#8-present-copies-flips-and-frames)
9. [Where code and comments disagree](#9-where-code-and-comments-disagree)
10. [What is proved, what is only checked](#10-what-is-proved-what-is-only-checked)
11. [What is not modelled](#11-what-is-not-modelled)
12. [How to run it](#12-how-to-run-it)

## 1. The system

Two threads matter. The **main thread** runs `Dispatch` (`dix/dispatch.d`):
poll, process queued input, pick a client, execute its requests until its slice
is used up, flush output, repeat. The **input thread** (`os/inputthread.d`)
polls the input devices and runs their drivers' read procedures. They share the
event queue and the device list under `input_mutex`, and wake each other up
through two pipes. Everything else (protocol requests, timers, extensions, the
window tree) runs on the main thread, but not in one piece: handlers put
clients to sleep, callbacks run while lists are walked, and requests close
other clients.

| component | source | state | operations |
|---|---|---|---|
| Client scheduler | `dix/dispatch.d`, `os/connection.d`, `os/io.d`, `os/WaitFor.d`, `dix/dixutils.d` | `clients[]`, the three counters over it, `ready_clients`, `saved_ready_clients`, `sleepQueue`, ignore counts, poll masks, `grabWaiters`, the grab (twice: `grabClient` and `GrabInProgress`), the dispatch exception and its timer | accept, connection setup, `WaitForSomething`, read a request, `GrabServer`, `UngrabServer`, `IgnoreClient`, `AttendClient`, `ClientSleep`, `ClientWakeup`, close-down modes, `KillClient`, `CloseDownClient`, the end of the server |
| Input event queue | `mi/mieq.d` | a ring with `head`, `tail`, `nevents`, `lastMotion`, `lastEventTime`, `dropped` | `mieqEnqueue`, `mieqGrowQueue`, `mieqProcessInputEvents` |
| Input thread | `os/inputthread.d`, `os/ospoll.d` | the list of devices and their states, `changed`, `running`, the two pipes, the poll set, the lock | register, unregister, the loop, `InputReady`, init, shutdown |
| Timers | `os/WaitFor.d` | a list sorted by a 32-bit time | `TimerSet`, `TimerCancel`, `TimerForce`, `DoTimers`, callbacks that call them |
| Smart scheduler | `dix/dispatch.d` | `smart_priority`, the time slice, `SmartLastClient` | `SmartScheduleClient` |
| SYNC | `Xext/sync.d` | counters, fences, trigger lists, alarms, awaits | change and destroy a counter, trigger a fence, Await, alarms |
| Present | `Xext/present/*.d` | the queue of vblanks, the pending flip, fences waited for | pixmap requests, flip, unflip, abort, events of the screen |
| Callback lists | `dix/callback.d` | entries, `inCallback`, `deleted` | add, delete, call (nested) |
| Resource database | `dix/resource.d` | a hash table per client, `clientTable` | add, free (with the resource's delete function), free all of a client |
| Selections | `dix/selection.d` | owner, window and time per selection | set owner, convert, a window or client goes away |
| Device grabs | `dix/events.d` | grab and frozen state per device, the queue of frozen events | activate, deactivate, `AllowEvents`, `ComputeFreezes`, replay |

The other components, all of them leaf code from the point of view of these
(rendering, the window tree, request decoding, extensions that keep tables per
client, drivers, transport, start-up), are listed with a reason each in
`PROJECT.json`.

### How they interact

* The scheduler **calls** request handlers. A handler answers by changing the
  scheduler's own state: `IgnoreClient` and `isItTimeToYield` (GrabServer,
  ClientSleep, SYNC Await), `CloseDownClient` on any client (KillClient),
  `dispatchException`.
* The poll layer **calls back** `ClientReady` and the timers from inside
  `WaitForSomething`; a write error calls `AbortClient` from inside any handler
  that writes.
* `Dispatch` **drains** the event queue whenever `InputCheckPending` sees
  `head` and `tail` differ, without the lock; every other use of the ring is
  under it.
* Device removal **drains** the queue too, because queued events point to
  devices.
* Timers, triggers of counters and fences, and events of the screen **call back**
  code that changes the list they are called from. A fence that is triggered calls
  Present, which may flip, copy, or wait again.
* A device that is enabled or disabled **registers** with the input thread,
  which acts on it later.

### What is hard here

* Read events are edge-triggered: one that is consumed at the wrong moment is
  not repeated. A client whose request is already in its buffer gets no event at
  all. Whether a client makes progress depends on membership in two ready
  lists, its ignore count, the grab, the poll mask and the kernel, kept
  consistent by hand in about a dozen places.
* The grab is recorded in two files; waiting for it is a bit in a mask plus a
  request that has been put back plus an ignore count.
* A client can go away at any of these steps: by its own doing, by another
  client's request, by a broken connection, by a refused setup, when it takes too
  long to connect, or because the server ends. It can also stay behind, retained, with its slot
  and without a connection.
* Three counters cache facts about the client table; one of them decides when
  the server ends.
* The main thread lets go of the input lock around every event it processes, so
  the ring changes between any two of them, including while a device is being
  removed.
* The kernel forgets a descriptor that is closed, the poll set does not; and
  the kernel gives the number to the next device.
* Both threads may wait on each other: for the lock, for a byte in a pipe, for
  room in a pipe, for an exit.

### What makes each component correct

* Scheduler: no path leads to a client that is gone; both records of the grab
  agree and name a live client; nobody stays parked, ignored or unread without a
  reason that will end; the cached counters match the table; during a grab only
  its holder and exempt clients are served.
* Event queue: a FIFO in which motion may be superseded by motion of the same
  device; it never tosses an event while there is room; no event outlives its
  device.
* Input thread: a callback never gets a freed structure or another descriptor's;
  a driver's read procedure runs only for an enabled device on its own
  descriptor; no hotplug and no wakeup is lost; shutdown ends.
* Timers: callbacks run in order of time across the wrap of the clock, once per
  setting, and changes during the walk are respected.
* SYNC: no trigger is used after its owner is freed; an Await's client is
  attended exactly once.
* Present: at most one flip is pending per screen; every request that was queued
  completes or is aborted once, and its pixmap is idle exactly once.
* Callback lists and resources: what is deleted during a walk is neither
  called nor walked over.
* Selections: an older time never wins; the loser hears of it once.
* Device grabs: what was frozen is replayed once, in order.

## 2. Plan

| | modules | composition | state |
|---|---|---|---|
| 1 | `Dispatch`, `DispatchProps`, `ServerGrab`, `Dispatch_proofs`, `ServerGrab_proofs` | Dispatch implements ServerGrab | done |
| 2 | `EventQueue`, `EventQueueProps`, `InputFifo`, `EventQueue_proofs` | EventQueue implements InputFifo | done |
| 3 | `InputThread`, `InputThreadProps`, `InputThread_proofs` | InputThread's `queued` abstracts EventQueue's ring | done |
| 4 | `Timers`, `TimersProps`, `Timers_proofs` | `Dispatch`'s exception timer and `Sync`'s deadline are timers or timeouts of this list; each module has what it needs of it | done |
| 5 | `Sync`, `SyncProps`, `Sync_proofs` | uses IgnoreClient and AttendClient as Dispatch has them | done |
| 6 | `Present`, `PresentProps`, `Present_proofs`, `PresentTime_proofs` | uses `Sync`'s fences, whose triggers it has callbacks on | done |
| 7 | `SmartSchedule`: `SmartScheduleClient` as a function of the ready list and the priorities | shows that Dispatch's fairness for `Schedule` is deserved or names when it is not | candidate |
| 8 | `SleepUntil`: `ClientSleepUntil` (`Xext/sleepuntil.d`) and its block handlers | uses ClientSleep as Dispatch has it | candidate |
| 9 | `Callbacks`, `Resources`: deletion during walks | abstract: the set of live entries | candidate |
| 10 | `Selections`, `Freeze` (sync grabs and replay) | | candidate |

Theorems: every safety and action property of the runs is proved, each from the inductive
invariant of its module (section 10), and so are the refinements of `ServerGrab` and `InputFifo`.
What the theorems assume of clients cannot be dropped: section 9 says how each breaks them.
Worth proving next is the safety of the candidates above, once they are written.

## 3. Dispatch: the client scheduler

`Dispatch` has one control variable, `pc`, for the one thread that runs all of
this code, and one action per step of it that something else can come between.
Between those steps the environment acts: bytes arrive, a connection breaks
while it is written to, a signal arrives.

| state | source |
|---|---|
| `state`, `mode`, `failed` | `clients[i]`, `clientState`, `clientGone`, `closeDownMode`, `noClientException` |
| `nClients`, `nextFreeClientID`, `currentMaxClients` | the counters of `dix/dispatch.d` |
| `ready`, `saved` | `ready_clients`, `saved_ready_clients` |
| `ignoreCount` | `ignoreCount` (and `OS_COMM_IGNORED`, which is set iff it is not 0) |
| `open`, `kernel`, `buffered`, `edge` | `trans_conn`; unread bytes in the socket; a whole request in the input buffer; a read event that epoll has yet to report |
| `waiters`, `regrab` | `grabWaiters`; the GrabServer request put back by `ResetCurrentRequest` |
| `grabClient`, `GrabInProgress` | both records of the grab |
| `asleep` | `sleepQueue` |
| `impervious`, `disconnect` | `OS_COMM_GRAB_IMPERVIOUS`; XFixes' disconnect mode |
| `pc`, `cur`, `isItTimeToYield`, `scan` | where `Dispatch` is, its locals, and the index of the three scans over the table |

| action | source |
|---|---|
| `HangUp`, `ReadEvent` | `ClientReady` on `X_NOTIFY_ERROR`, on `X_NOTIFY_READ` |
| `Wakeup` | a sleeping client's work proc or trigger: `ClientWakeup` |
| `Connection`, `CloseStraggler`, `KeepClient`, `Accept`, `RejectConnection` | `EstablishNewConnections` and its scan, `NextAvailableClient`, `AllocNewConnection`; `RejectConnection` is an accept that fails, or `ErrorConnMax` |
| `ConnectionSetup` | `ProcInitialConnection`, `ProcEstablishConnection`, `SendConnSetup`: refused or admitted |
| `Schedule`, `SliceEnds` | `SmartScheduleClient`'s choice (left free), the end of a slice |
| `ReadRequest`, `ReadPartial`, `ReadNothing`, `ReadFails` | the four results of `ReadRequestFromClient` and what `Dispatch` does with them |
| `Execute` | the request handlers, one disjunct per kind |
| `CloseFailed`, `AfterRequest`, `AfterFreed` | `Dispatch` after the handler; the last is what it reads from a record that was freed |
| `OutputError`, `GiveUp`, `ExceptionTimerFires` | a failing write (`AbortClient`), SIGTERM, `-terminate`'s timer |
| `LeaveLoop`, `KillAllScan`, `Stop` | the end of the loop and `KillAllClients` |

`CloseDownClient`, `UngrabServer`, `IgnoreClient` and `AttendClient` are
operators that the actions use, each with all the calls it makes.

**Kinds of request.** Of some 120 core requests and more in extensions, those that
change the scheduler's state are modelled one by one: GrabServer (granted, put
back, or denied by the access hook), UngrabServer, XTestGrabControl both ways,
SetCloseDownMode, KillClient with a resource and with AllTemporary, XFixes'
SetClientDisconnectMode, and `Sleep` for every request that calls `ClientSleep`.
`NoOperation` stands for all requests that leave the scheduler alone.

**Data abstracted.** A request is its kind; buffers are "a whole request is
there" and "bytes are there"; the time of a connection is whether it has
expired; authorization is a choice. `CHOOSE` appears only for a minimum.

### Runs

| run | instance | shows |
|---|---|---|
| `Dispatch_all` | 2 clients, all requests but Sleep, all faults, -terminate with a delay | types; `GoneIsUnreachable`: a client that was closed is on no list, in no mask, behind no descriptor; `GrabHasHolder`: both records of the grab name the same running client; `CachesAreTrue`: `nextFreeClientID`, `currentMaxClients` and `nClients` match the table |
| `Dispatch_lists` | 3 clients, some impervious, that grab, queue for the grab, ungrab and sleep; hangups; -terminate | `SavedAwaitsRelease`: nobody is parked without a grab to wait for; `ReadyMayRun`: the scheduler is never handed a client that is ignored or locked out; `NoLostInput`: a client with input is on a list, has an event coming, or is re-armed by the end of the grab; `IgnoreIsBalanced`: the ignore count is the number of reasons; `GrabIsExclusive`: Dispatch implements `ServerGrab` |
| `Dispatch_live` | 2 clients under fairness | `InputIsServed`: what has arrived is read, unless the client is barred; `DoomedIsClosed`: an aborted client is closed, unless the server stays grabbed by another |
| `Dispatch_killself` | 2 clients that retain resources and kill each other | a finding, section 9 |

**Bounds.** Slot 0 is the server itself, so `LimitClients = 4` is three clients:
a holder, a waiter and a bystander, or two waiters behind a holder. Two are
enough where the question is about one client and what another does to it.
`MaskBits = 2` puts clients 1 and 2..3 in different words of the mask of
waiters, so `UngrabServer`'s search from the last word meets an empty word, a word
with one bit and a word with two. `LimitClients` is also reached: connections are
rejected. Each run takes the requests and faults its question is about: `Dispatch_all` every
request but Sleep, which `Dispatch_lists` and `Dispatch_live` take, and every fault. The
theorems of section 10 cover every number of clients and every mix of requests and faults.

**Fairness.** The thread runs: weak fairness of the scan of
`EstablishNewConnections` and of the inner loop. A slice ends
(`SmartScheduleTime`): strong fairness of `SliceEnds`. `ospoll_wait` returns
every event that is due: strong fairness of `ReadEvent` per client. A client that
is ready again and again is scheduled (`SmartScheduleClient` goes round within
a priority and lowers the priority of a client that uses up its slice): strong
fairness of `Schedule` per client. A scheduled client is read from: strong
fairness of `ServedNow`, because `Dispatch` tests `isItTimeToYield` before it
reads, and a slice that ends at once is followed by others. No fairness for
clients, faults or wakeups: a client may sleep forever.

**Conditions.** `MakeClientGrabPervious` (`os/connection.d:930`) leaves a client
that has just lost its exemption on `ready_clients`, so `ReadyMayRun` and
`GrabIsExclusive` do not hold with "Pervious" requests; `AbortClient`
(`os/io.d:672`) puts a locked-out client there so that it gets closed, so
`GrabIsExclusive` does not hold with write errors (what is served is then only
what is still buffered). The runs leave these out, the theorems say so as
hypotheses. `mark_client_grab` (`dix/dispatch.d:335`) parks exempt clients too:
they are not lost, as `NoLostInput` shows, but wait for the release or their next
event. The timer of `-terminate` fires although a client that is still setting
up its connection exists; the model has it as the code has it.

## 4. EventQueue: the input event queue

`mieqEnqueue` runs on the input thread, or on the main thread when it moves the
pointer itself; either way under the input lock, so `Enqueue` is one action. `mieqProcessInputEvents` holds
the lock while it looks at the ring and lets go while it processes an event:
`Dequeue` takes an entry and unlocks, `Processed` comes back, and `Enqueue` may
come between. The lock is recursive, and `remove_device` (`config/config.d`) and
`DisableDevice` hold it around their drain: then nothing comes between.

`device` is on, off or freed; `task` is what the main thread drains the queue
for. `DisableDevice` drains twice for a device with gestures, `RemoveDevice`
drains before it disables. The model has the drains in the code's order.

`events` is the array with its contents, `head`, `tail` and `nevents` as in the
code; `Word` is 2^32, the modulus of the unsigned `oldtail` (`(tail - 1) % n`
wraps), and `Sizes` the sizes the array takes. An event has an identity, a
device, motion or not, and a time. `mieqGrowQueue` may fail to allocate the array
(`GrowthFails`); a failure of `InitEventList` half-way is left out, because it
frees events that stay in use (section 9).

| run | instance | shows |
|---|---|---|
| `EventQueue_ring` | 2 devices, one with gestures; 4 events; an array of 2 that doubles once | `DevicesOutliveTheirEvents`: neither the event in hand nor a queued one has a freed device; `RingIsFifo`: the ring implements `InputFifo`; `EveryEventIsTaken` |

**Bounds.** An array of 2 is full with one event, so the second event grows it,
a growth that fails drops it, and four events make the array of 4 wrap and fill
up. `Word = 16` keeps every size a divisor of it, as 2^32 is of the code's powers of 2.
The theorems cover every size, every word that sizes divide, and any number of
events up to `MaxEvents`, itself arbitrary.

**Fairness.** The main thread runs, and `Dispatch` calls `ProcessInputEvents`
while `InputCheckPending` sees a difference: weak fairness of both.

## 5. InputThread: the thread that reads the devices

Both threads are interleaved at every access to what they share. The
list `devs` and the state of its entries are under `lock`; the test of `changed`
and of `running` in the loop is not, and the model has it as a step of its own
(`Loop`) before the lock is taken (`TakeChanges`).

| state | source |
|---|---|
| `entry`, `devs` | the `InputThreadDevice` structures and `inputThreadInfo.devs` |
| `polled`, `watched` | `ospoll`'s table (which structure a callback gets) and the kernel's (which descriptors it reports) |
| `hotplug`, `closed`, `notify` | the two pipes |
| `thread`, `at`, `ready` | where the input thread is, its place in the list, what `ospoll_wait` reported and has not been served |
| `main`, `device`, `fd` | where the main thread is; what dix and the drivers know |
| `mistaken` | a history variable, see section 9 |

Main thread: `EnableDevice` and `DisableDevice` take the lock, run the driver's
procedure (`RegisterDev`, `UnregisterDev`); `FillHotplug` writes the byte,
`LeaveLock` releases; `Open` and `Close` are the driver's; `ProcessInput`,
`Sleep`, `Notified`, `WokenUp` are `Dispatch` and `WaitForSomething`;
`InputThreadInit`, `Shutdown`, `InputThreadFini` the thread's life. Input thread:
`Start`, `Loop`, `TakeChanges`, `TakeUp`, `Discard`, `EndOfWalk` (the walk over the
list), `Wait`, `ReadInput`, `ReadUnplugged`, `ReadNothing`, `Served`, `Kick`.
`Arrive` is the kernel.

| run | instance | shows |
|---|---|---|
| `InputThread_poll` | 2 devices, 1 descriptor, 2 structures | `PolledIsListed`: no callback gets a structure that was freed or is another descriptor's; `RunningIsEnabled`: no read procedure runs for a disabled device or on a descriptor reopened by another; `EnabledIsWatched`: no hotplug is lost; `InputIsProcessed`: no wakeup is lost; `FiniReturns`: shutdown ends |
| `InputThread_unregister` | the same | a finding, section 9 |

**Bounds.** One descriptor and two devices make reuse of the number the rule and
not the exception; two structures are the one that is going and the one that is
coming. The notify pipe takes 3 bytes and a read takes 2: it fills up, and is not
emptied by one read. `MaxHotplugs` bounds the bytes in the hotplug pipe; it
stands for the main thread not hotplugging more than 64 KiB of times while the
input thread stands still, so that its write never blocks. The theorems cover every number of devices,
descriptors and structures, and every capacity.

The run sets `CHECK_DEADLOCK FALSE`: after `InputThreadFini` nothing is left to
do, and before that a full notify pipe that nobody reads blocks the input thread
while the main thread joins it. `FiniReturns` states the room it takes.

**Fairness.** Both threads run (weak fairness); who waits for the mutex gets it
in the end although the other takes it again and again (strong fairness of the
steps that take it); the main thread returns to its loop however many devices it
hotplugs (strong fairness of `ProcessInput` and `Sleep`). Nothing is assumed of
devices.

## 6. Timers: the list of timers

Whatever waits for a time on the main thread (the exception timer of `Dispatch`,
the screen saver, DPMS, key repeat) is an entry of one list, sorted by a 32-bit
time in milliseconds. `check_timers` walks it between requests, and the callbacks
it runs may set, cancel, force and free any timer, their own included. The model
has `TimerSet`, `TimerForce`, `TimerCancel`, `TimerFree`, `check_timers`, `DoTimers`,
`CheckAllTimers`, `DoTimer` and the timeout of `WaitForSomething`, with all
that the flags `TimerAbsolute` and `TimerForceOld` do, which no caller in the
repository passes today.

| state | source |
|---|---|
| `clock` | `GetTimeInMillis()`, modulo `2 * Half` |
| `timers` | the list: timer, `expires`, `delta` |
| `stack` | callbacks that have begun and not returned; `next` is the entry `TimerSet` makes once the callback it forced is back |
| `walk`, `walkNow` | `DoTimers` with its `now`, or `CheckAllTimers` |
| `pc`, `timeout` | inside `ospoll_wait` or not; how much longer it sleeps |
| `steps` | how often the clock was set back |

| action | source |
|---|---|
| `TimerSetRelative`, `TimerSetAbsolute`, `TimerSetForceOld` | `TimerSet`, by flags |
| `TimerForce`, `TimerCancel`, `TimerFree` | the functions of these names |
| `CallbackReturns`, `OldReturns` | the rest of `DoTimer`, and of `TimerSet`, after a callback |
| `CheckTimers`, `WalkCalls`, `WalkEnds`, `PollReturns` | `check_timers`, one timer of `DoTimers` or `CheckAllTimers`, their end, the end of the sleep |
| `Tick`, `SetBack` | the clock goes on, is set back |

A callback is code of others: between its beginning and its return any of the first
six actions may happen, nested up to `MaxDepth`.

| run | instance | shows |
|---|---|---|
| `Timers_walk` | 2 timers, a clock of 10 values that wraps and is set back once | `SleepEndsInTime`: the server never sleeps past a timer; `CallsAreDue`: timers are called in order and not early, unless the clock was set back and left them further away than they were set for; `DueIsCalled`: no due timer starves |

**Bounds.** A difference of times is an `int`, so it means something only if nothing
waits or is late by `Half` (24 days) or more: `WindowAssumption`. `Half = 5` leaves a window of
one late and three ahead, with delays of 1 and 2; the clock wraps in every
behaviour that goes on. `MaxDepth = 2` is a callback that forces another.
The clock is not set back while `DoTimers` is under way: `DoTimers` compares with the
`now` it began with.

**Fairness.** The clock ticks; the walk goes on and the innermost callback returns (weak);
the outermost returns and `check_timers` is reached however often others are
called (strong). A sleep of 0 ends. Nothing is assumed of the setting of timers.

## 7. Sync: counters, fences, awaits and alarms

A trigger of `Xext/sync.d` belongs to a client's Await or to an alarm and is in the
list of the counter or fence it is about. `SyncChangeCounter`, `FreeCounter`,
`miSyncTriggerFence` and `miSyncDestroyFence` walk such a list while what they call
unlinks triggers, frees what holds them and lets clients go on. So a walk is
one step per trigger (`ChangeStep`, `DestroyStep`, `FenceStep`) and its end.

| state | source |
|---|---|
| `live`, `value`, `list` | `SyncObject` and `SyncCounter`: there or `beingDestroyed`, the value (or `triggered`), `pTriglist` |
| `await` | the conditions of `SyncAwaitUnion` |
| `alarm` | `SyncAlarm`: state, counter, value type, wait value, test, the `CheckTrigger` it was given, test value, delta |
| `ignored` | how often `IgnoreClient` was called without `AttendClient` |
| `phase` | served, being closed, gone |
| `walk` | the walk under way, its next trigger, the old value |
| `clock`, `brackets` | `GetTimeInMillis`; what `ServertimeBracketValues` leaves `ServertimeBlockHandler` to wake up for |

| action | source |
|---|---|
| `CreateCounter`, `SetCounter`, `ChangeCounter`, `QueryCounter`, `DestroySync` | the requests |
| `CreateFence`, `TriggerFence`, `ResetFence` | the requests |
| `Await`, `AwaitRefused` | `ProcSyncAwait`, `ProcSyncAwaitFence` with prologue and epilogue; refused at any condition |
| `CreateAlarm`, `ChangeAlarm`, `DestroyAlarm` | the requests, with `SyncChangeAlarmAttributes` and `SyncInitTrigger` |
| `CloseDown`, `Close` | `FreeClientResources`, in any order |
| `Tick`, `Wakeup` | time; `ServertimeWakeupHandler` |

| run | instance | shows |
|---|---|---|
| `Sync_walk` | 2 clients, 2 counters, SERVERTIME, a fence, an alarm; 4 kinds of Await, 3 changes of the alarm | `ListsAreExact`: lists hold the triggers there are and no others; `WalkIsInList`: the next trigger of a walk is never freed before it is looked at; `WaitsAreHeld`: an awaiting client is ignored once; `NothingTrueWaits`: nobody sleeps for what is so already; `AlarmUpdatesEnd`: `SyncAlarmTriggerFired` ends its loop; `TimeComes` |
| `Sync_deadline` | 2 clients that await and query the time | a finding, section 9 |

**Bounds.** Values are integers of `-Half .. Half - 1` with `Half = 3`, so that
`ChangeCounter` and the delta of an alarm reach the end of the range that
2^63 stands for. The Awaits are one on a counter, one on two counters, one on a
counter and the time, one on a fence: every way in which firing one trigger frees
another in the same or in another list. The alarm moves between two counters
and none. The clock takes one tick, as deadlines are one ahead.

**Conditions.** Three things are left out of `Sync_walk`, since each alone breaks
it; section 9 lists them. Awaits that name an object twice (`WaitsAreDistinct`);
changes of alarms that `SyncInitTrigger` refuses half-way (`RefusedChanges`); requests that ask
for SERVERTIME between a deadline and its wakeup (`AskedWhenDue`, which `Sync_deadline`
turns on). The theorems of section 10 name them as hypotheses, each where it is needed, and
`NothingTrueEverWaits` and `DeadlinesStayArmed` need one more, which the run's changes meet: no alarm
is on SERVERTIME.

**Fairness.** A walk and the end of a client go on, time passes (weak). `Dispatch`
comes back to `WaitForSomething` however many requests there are: strong fairness of
`Wakeup`. `CHECK_DEADLOCK FALSE`: once both clients are gone and the clock is at its bound
nothing is left to do.

## 8. Present: copies, flips and frames

A PresentPixmap request shows a pixmap in a window at a frame: by a copy or, if the
window covers the screen, by making the pixmap the screen. Until the frame, the fence or
another flip lets it, it waits; meanwhile the window may be clipped, destroyed,
or shown something else. The module has `present_scmd.d`, its helpers
`present_execute.d`, `present_vblank.d`, `present_fence.d`, the hooks of
`present_screen.d`, and the modesetting driver's events.

| state | source |
|---|---|
| `scr.vb` | the `present_vblank`s: where each is, and its fields |
| `scr.queue`, `scr.pending`, `scr.unflip`, `scr.cur` | `present_flip_queue`, `flip_pending`, `unflip_event_id`, `flip_window` and `flip_pixmap` |
| `scr.pix` | which pixmap each window draws to |
| `scr.due`, `scr.flips` | events the driver owes |
| `scr.missed` | a history variable: windows `present_check_flip_window` was called for while it does not look, or during whose call a waiting request flipped to them |
| `fence`, `walk` | fences; the one whose triggers are being run through |
| `msc`, `full`, `last` | the frame, the window that covers the screen, the newest request |

| action | source |
|---|---|
| `PresentPixmap` | `proc_present_pixmap_common` and `present_scmd_pixmap`, with the requests it overwrites |
| `VblankEvent`, `FlipEvent`, `UnflipEvent`, `Frame` | the driver and the CRTC |
| `ClipNotify`, `Cover`, `DestroyWindow` | `present_clip_notify`, `present_destroy_window` |
| `TriggerFence`, `FenceFires`, `FenceDone`, `ResetFence`, `DestroyFence` | fences, and the callbacks waiting requests have on them |

`present_execute` is an operator whose value is the set of states it may leave,
because the driver may refuse a flip, and may report an unflip from inside the call,
which retries a waiting request inside it.

| run | instance | shows |
|---|---|---|
| `Present_flips` | 2 windows, 3 requests of 4 kinds, 3 frames, a fence; flips may be refused | `AssertsHold`: what comments and code take for granted of flips; `QueuedIsAwaited`: a queued request has something to come back for; `BackOnce`: each pixmap is idle once, each request completes once; `DrawnIsShown`: windows draw to what is shown, never to a pixmap its client has back; `FlipsCoverTheScreen`; `NotBeforeItsTime`; `CopiedIsNotFlipped`: what is copied is not hidden behind a flip |
| `Present_fence` | one request that flips and waits for a fence | a finding, section 9 |

**Bounds.** Three requests are one shown, one pending and one waiting. Two
windows, one of them at a time covering the screen, let a flip hand over
to another window; they are interchangeable (SYMMETRY, sound as the run checks no
liveness). `FlipShapes` are a flip at a frame, a copy of everything (which overwrites what waits for
the same frame), a copy at once that waits for the fence, and a flip at once by an option that
the driver lacks. `present_get_target_msc` lets the last aim at this frame, but
`present_want_async_flip` (`WantAsyncFlip`) makes it a synchronous flip, so that its `exec` is
a frame earlier than that: -1 at frame 0, where the code's unsigned 64-bit number wraps and `msc_is_after`,
which compares by signed difference, takes it for the past as well.
`<<0, 0>>` is the only field of the run: `NotBeforeItsTime` says nothing of divisors and remainders there,
and `TargetIsNextField` (section 10) covers them all.
`CHECK_DEADLOCK FALSE`: with all windows and fences destroyed and the bounds
reached nothing is left to do.

**Conditions.** In the run the driver may refuse a flip, not an event. If it refuses an event
after it has taken one for the same request, the request may flip while that event is still to come; it
is then taken for the end of the flip, and what `present_flip_notify` asserts of `scr.flips` fails (`AssertsHold`). The operators have
that refusal ("queue"), and the theorems of section 10 cover it where they do not say otherwise. Windows in `scr.missed` are excepted, see section 9.

**Fairness** (of `Present_fence`). Frames pass and `miSyncTriggerFence` goes
on (weak); the driver's events come between requests (strong).

## 9. Where code and comments disagree

Each of these is a run that TLC refutes and an entry under "findings".

* `Dispatch_killself`, `dix/dispatch.d:583`. A client that kills itself is freed
  inside its handler; `Dispatch` reads `client.noClientException` afterwards.
  The comment at `:3458` says that it does not touch the client. What it reads
  is modelled as either outcome (`AfterFreed`).
* `InputThread_unregister`, `os/inputthread.d:281`. Register, unregister,
  register, unregister of one descriptor before the input thread has walked the
  list: the second unregistration marks the older entry once more and returns 1,
  and the newer entry is taken up and polled though its device is off. The history
  variable `mistaken` collects such descriptors; the other properties of the list
  are stated, checked and proved for all others, so that the one defect does not
  hide a second.
* `Sync_deadline`, `Xext/sync.d:366`. Asking for SERVERTIME writes its value
  without checking triggers, and the brackets are then computed for what lies
  ahead of the new value: a client whose deadline has just passed sleeps on.
  "This function should always be used to change a counter's value" (`:728`).
* `Present_fence`, `Xext/present/present_fence.d:51`. A flip that waited for a
  fence keeps its callback while it is pending, and `miSyncTriggerFence` fires
  triggers until none fires (`miext/sync/misync.d:130`): the request that
  triggers the fence never returns.

Also seen while reading and modelling, and not the subject of a run. Where the
modules exclude a case because of one of these, the section of the module says so.

* `dix/dispatch.d:1190`: `UngrabServer` wakes one waiter and leaves the others to
  it. If it dies before it asks again, the others stay ignored unless a later grab
  comes and ends ("Must have corresponding call to AttendClient",
  `os/connection.d:861`). Only clients impervious to grabs can be waiters.
* `mi/mieq.d:274`: the time is corrected after the event was copied into the
  ring ("Make sure that event times don't go backwards", `:270`). `:164`: when
  `InitEventList` fails, the loop frees the new array's entries from 0, which
  are the old array's pointers, still in use. `QUEUE_MAXIMUM_SIZE` is named and
  never enforced.
* `os/WaitFor.d:252`: that the clock was set back is noticed only when it shows at
  the head of the list, though the comment says that every affected timer is re-run.
  `:507`: the branch that would free the screen saver's timer cannot be reached.
* `Xext/sync.d`: an Await that names a counter twice and fires frees the trigger
  that `SyncChangeCounter` (`:740`) and `FreeCounter` (`:1167`) look at next; the same for
  a fence and `miSyncDestroyFence` (`miext/sync/misync.d:111`). A ChangeAlarm that is refused
  half-way leaves new attributes with the old `CheckTrigger` (`:900`), and the loop
  that adds the delta may then not end. An alarm on SERVERTIME that is true already
  when it is made fires without the brackets being computed anew, and does not repeat. A
  `PositiveTransition` on SERVERTIME is never bracketed.
* `Xext/present/present_scmd.d`: `present_flip_try_ready` (`:238`) retries the first
  request only; if that one then copies, the next waits until another flip
  ends (the comment at `:221` to `:224` speaks of the queue). `present_check_flip_window` (`:416`)
  returns early during an unflip and is not called again for that change of clip.
  Its own unflip, when the driver reports it at once, retries a waiting request before the loop
  at `:437` tells it that its window does not cover the screen any more: that request then flips
  to the window, for as long as the window is not clipped again (found by the proof of `FlipsCover`; both cases are
  `scr.missed`). A refused flip followed by a synchronous unflip may draw a copy to a
  pixmap that a newer request has just flipped to (the exception in
  `CopiedIsNotFlipped`). Clearing the shown window's flip while another flip is pending restores the
  pending window's pixmap without aborting it. A fence callback of a pending flip whose
  window was destroyed makes `present_execute` follow a null pointer (`FenceFires` is
  guarded against it).
* `present_vblank.d:168`: `if (pixmap)` has lost its statement to a comment and
  guards `return TRUE`, so that requests without a pixmap, PresentNotifyMSC, fail
  with BadAlloc. Destroying a wait fence never executes the waiting request again, and
  `present_fence_set_triggered` sets a fence without running its triggers
  (`present_fence.d`). `present_create_notifies` never stores `*p_notifies`.
  `ms_present_unflip` (modesetting `present.d:450`) returns with `unflip_event_id` set
  when it cannot allocate.

## 10. What is proved, what is only checked

| theorem | module | assumptions besides the constants' |
|---|---|---|
| `TypeCorrect`, `GoneStaysUnreachable`, `GrabAlwaysHasHolder`, `SavedAlwaysAwaitRelease`, `IgnoreStaysBalanced`, `NoInputIsLost`, `CachesStayTrue` (and its three parts, `FreeIDStaysMinimal`, `TableEndStaysTight`, `AuthorizedStayCounted`) | `Dispatch_proofs` | none |
| `ReadyAlwaysMayRun` | `ServerGrab_proofs` | no "Pervious" requests |
| `SchedulerImplementsGrab` | `ServerGrab_proofs` | no "Pervious" requests, no "output" faults |
| `TypeCorrect`, `LastMotionStaysLast`, `DevicesAlwaysOutlive`, `RingImplementsFifo` | `EventQueue_proofs` | none |
| `TypeCorrect`, `PolledStaysListed`, `RunningStaysPolled`, `OnlyEnabledRun` | `InputThread_proofs` | none |
| `TypeCorrect`, `TimersStaySorted`, `SleepAlwaysEndsInTime`, `CallsAreAlwaysDue` | `Timers_proofs` | none |
| `TypeCorrect`, `ListsStayExact`, `WalkStaysInList`, `WaitsStayHeld` | `Sync_proofs` | `WaitsAreDistinct`: no Await names a counter or fence twice |
| `AlarmUpdatesStayFinite` | `Sync_proofs` | `WaitsAreDistinct`; no change of an alarm is refused half-way |
| `NothingTrueEverWaits`, `DeadlinesStayArmed` | `Sync_proofs` | `WaitsAreDistinct`; `QuietClients`: besides, nobody asks for SERVERTIME between a deadline and its wakeup, and no alarm is on it |
| `TypesHold`, `NothingIsForgotten`, `PixmapsComeBackOnce`, `NobodyDrawsBehind`, `FlipsCover` | `Present_proofs` | none: the driver may refuse flips and events |
| `TimeInvHolds`, `NothingIsShownEarly` | `PresentTime_proofs` | none: requests whose event the driver refused are excepted by the property itself |
| `CopiesAreSeen` | `PresentTime_proofs` | none: the driver may refuse flips and events, and report flips at once |
| `AssertionsHold` | `PresentTime_proofs` | the driver does not refuse events ("queue"): with it TLC refutes the clause on `scr.flips` |
| `TargetIsNextField` | `Present_proofs` | none; about `present_get_target_msc` alone |

The constants' assumptions are what the code gives: more than one client slot,
words of at least one bit, the initial size among the sizes, sizes that divide
2^32, markers that are no devices, pipes that hold a byte, and timers that are
never set for, late by, or moved by as much as half the range of their clock.

**Dispatch.** `IndInv` (`DispatchProps`) is the checked properties plus what
carries them:

* `IgnoreCovers`: the ignore count is at least the number of reasons, for every
  client. Equality holds only for connected ones (`IgnoreIsBalanced`), because an
  aborted client is put back on the ready list and may wait and sleep a last
  time.
* `ListedAreAttended`: nobody connected is both listed and ignored. Without it, an
  `AttendClient` that puts a client on a list could meet it there.
* `EdgeIsHeard`: only a client the server listens to has an event coming, so a
  `ReadEvent` does not make ready one that is not to run.
* `GoneAreAttended`, `FailedAreAllocated`: a slot is handed out clean.
* `CurIsReady`, `ScanInTable`: the client `Dispatch` works for is on the ready
  list until it yields, so it is live and not parked by its own grab.

The proof has three groups of lemmas, for the table (`TableInv`), the lists
(`ListInv`) and the loop (`LoopInv`), one lemma per action. Lemmas about the operators come
first: `UngrabServer`'s next waiter is a waiter (the search by words is a minimum
over a minimum), `CloseDownClient` and `UngrabRequest` have one effect on lists
in common (`Departs`), the next free slot exists.

`NoInputIsLost` has an invariant of its own that rests on `IndInv`: `NoLostInput` and
`KernelIsOpen`, because a slot that is handed out again must not have bytes left over.
`InputKept` covers every step that takes nobody off the lists and mutes nobody; what is left
are the steps that change who is listened to (the end of a grab, which attends one waiter and re-arms all,
is `UngrabServerInput`) and those that take a client off a list. No condition on
requests or faults is needed, unlike for `ReadyMayRun`: a client may be on a list too often,
never too seldom.

**ServerGrab.** `ReadyAreLetIn` says that a ready connected client may run;
from it a request that is executed is its holder's or an exempt client's, which is the guard of `Serve`. A client
that closes maps to `Leave`, one that closes itself or another by a request to
`Complete`.

**EventQueue.** The refinement maps the ring to the sequence `Queued` of its
entries. One lemma per operation says what it does to that sequence: insertion
appends, merging replaces the last one, growth keeps all, taking is `Tail`. They
rest on a few lemmas about `%` (`BeforeWraps` is the unsigned `(tail - 1) % n`),
proved from the library's facts about division. `DrainInv` carries
`DevicesOutliveTheirEvents`: when a device is freed the lock has been held since
the queue was last empty.

**InputThread.** `OlderGoesFirst` is the reason for appending: of two entries of a
descriptor the first is going and the second has not been seen yet.
`DescriptorsAreOwned`, `ListedAreDistinct`, `WalkedAreRunning` and `LockIsHeld`
complete `IndInv`.

**Timers.** `InWindow`: all times that wait to come, those of pending timers and those
that `TimerSet` has yet to enter, lie in one window of less than half a turn around
now, so that the signed differences order them, and a tick or a step back moves them together. `OldIsOut`:
what a forced callback has yet to enter is nowhere in the list, so entering it does
not double it. `WalkIsBrief` ties the `now` of `DoTimers` to the clock; it carries
`CallsAreDue`. `PollIsOuter`: the server does not sleep inside a callback. The lemmas on the list
(insertion keeps it sorted, removal keeps the order, the head is the earliest) are
stated on sequences and proved first.

**Sync.** `CondsAreDistinct` makes an Await have one trigger per list, so that
unlinking it takes out of the walked list only the trigger that is being told; then
the next one stays. `WalkFitsObject`: an object that is dying holds exactly the triggers
not yet told, and any other walk is on a live object. `FreeAlarmsHaveNoCounter`
completes `IndInv`. Each list is a map from a trigger to those behind it, so
"unlink" is a restriction and "next" needs no induction.

`TruthInv` is about triggers that are true. While a list is walked a true trigger may wait, but only
one the walk has yet to come to (`PassedAreFalse`, with `Ahead`); since `WalkIsInList` keeps
the walk on the list whatever the callbacks free, none is skipped, and when the walk ends none is
left. `TimeIsBracketed` says the same of SERVERTIME, where the wakeup takes the place of the walk: the value is behind the
clock and every deadline above it is among the brackets. `AlarmsAgree` carries `AlarmUpdatesEnd`: the
`CheckTrigger` of an alarm is that of its test, and its delta leads away from it.

**Present.** `present_get_target_msc` is arithmetic on frames, divisor and remainder;
`TargetIsNextField` says that it is the least frame that fits, by uniqueness of division.

The other theorems need an invariant that holds in the middle of a call, because
`present_execute` may unflip the screen, the driver may report that at once, and the report executes another
request inside the first one. `Mid(s, H, y, C)` is that invariant of a state `s`
in which the requests `H` are in hand: out of the queues, with nothing owed that would execute them
again; `y` is the one whose flip is being reported, which is shown but not yet posted, and `C` are the
windows that may be flipped to. Each helper of the code has a lemma: given `Mid`
with its request in hand it leaves `Mid` with the request out of hand or back in a queue
(`WaitMid`, `PostMid`, `FlippedMid`, `DestroyedMid`, `ChangedMid`), and `ExecutedGood`,
`UnflippedGood`, `FlipNotifyGood` and `CheckFlipWindowGood` put them together in the order of the
code. The call inside a call ends, since the inner one finds the screen unflipped
(`TryUnflippedGood`). `IndInv` is `Mid` with nothing in hand. Its parts per request are in `Lives`
(how often it was idled and completed, by where it is), `Awaited` (what will execute it again) and
`Covered` (its window is one of `C`, or it does not flip, or is being aborted); `OneWay` keeps the
flip queue's two directions apart and `Drawn` says that every window draws to the screen's pixmap or to
what the root window draws to.

`TimeInv` is about frames. `Planned` ties a request's `exec` to its target: the target, or the frame
before for a flip that waits for the end of it. `Timed` says by where it is and what it is owed when it
may be executed: a flip has one event, at its `exec`, and no callback while that is to come, so what
it is owed is empty only when its frame has come; a copy may have stale events, but none more
than one frame early, and `present_execute_wait` waits for that frame again. `Flown`, that the driver
reports each flip once, follows: a flip that was executed has nothing left to be executed by.
`InTime(s, H, y, r)` is `TimeInv` in the middle of a call, and `r` are the requests as they were before the step.
With them it also says that a target never changes and that what has been copied
since had its frame come, so that the invariant and `NotBeforeItsTime` are one induction over the step
(`StepTime`). The lemmas of `PresentTime_proofs` follow those of `Present_proofs` helper by helper; what is
executed has to be `Ripe`. `LaterTime` compares with the state after the step instead.

`CopiedIsNotFlipped` compares the flips before a step with those after it, across calls within calls, and
so needs an invariant of the middle of a call as well. `Facing(s, r)` is the window that a flip shows in
`s` and that nothing takes the screen from: neither an abort, nor an unflip, nor a flip that is younger
than `r`, the requests before the step. `Veiled(s, r)`: what was queued in `r` and has been copied since
was not copied to that window, and the request that was pending in `r` is not executed again. A helper of the code
either dims the screen (`Dims`: it copies nothing and leaves `Facing` as it was, or None) or
goes `Onward`, which allows a copy, to a window that is not faced, and leaves `Facing` as it was, or None, too. Since
`Facing` never becomes another window within a step, what was not hidden when it was copied is not
hidden at the end (`StepVeil`), through the calls that call themselves back. The one place
that copies is `present_execute_copy`; `present_execute` aborts or unflips the flip to the same
window just before it (`CopyTargetVeil`).

**Only model-checked:** liveness under fairness, which is out of the prover's
reach: `InputIsServed`, `DoomedIsClosed`, `EveryEventIsTaken`, `EnabledIsWatched`,
`InputIsProcessed`, `FiniReturns`, `DueIsCalled` and `TimeComes`.
No RECURSIVE operator is used and no induction over data: what a
sequence holds is stated by quantifiers. `TimersStaySorted`, `LastMotionStaysLast`
and `RunningStaysPolled` are parts of inductive invariants, proved and in no run's list
of properties.

Every property of a passing run has a mutant: a change of one definition, such as a dropped
guard, a forgotten reset, a swapped order, under which TLC finds the property
violated. The mutated forms stand beside the definitions, marked `(mutant: ...)`.

## 11. What is not modelled

Inside the modelled components:

* allocation failures outside `mieqGrowQueue`: most of the code takes them as
  fatal or refuses the request. `InputThreadRegisterDev` returns 0 when its calloc (`:232`)
  fails, and the device is then not watched: `EnabledIsWatched` is about the others;
* `SmartScheduleClient`'s choice (any ready client);
* request buffers: big requests, growing and shrinking buffers, output buffers
  and critical output. The scheduler sees "whole", "part" and "broken";
* what a delete function or a `ClientStateCallback` does inside
  `CloseDownClient` beyond the scheduler's state;
* `mieqSetHandler` and what a handler does with an event; the log lines of
  `mieqEnqueue` and its backtrace;
* `input_trylock` and `input_force_unlock` (the server is about to abort or has
  joined the thread), and the signal mask of the input thread;
* the poll back ends other than epoll (`poll`, `port`, `pollset`);
* Timers: what the screen saver's and DPMS's callbacks do; `ClientSleepUntil`, which
  has a queue of its own;
* Sync: who selects an alarm's events and what is in them, event thresholds, the
  idle time counters, priorities, malformed requests, what a client that closes in a
  retaining mode leaves behind (its counters and alarms outlive it until it is killed; the model
  frees all resources at the end of a client), fences in shared memory and their
  descriptors, and the wrap of `GetTimeInMillis` inside the 64-bit SERVERTIME;
* Present: PresentNotifyMSC (which cannot succeed, section 9), event
  selection and notifies, idle fences and syncobjs, TearFree, the fake CRTC of a window
  without one, several screens and CRTCs, closing a screen.

Components: the smart scheduler, callback lists, resources, selections, device
grabs, `ClientSleepUntil` and XDMCP are candidates for further modules. Rendering, windows and
regions, request decoding, byte order, transport, configuration and drivers are
sequential code over data that has to be large before its cases differ, or plain I/O.
The reason of each is in `PROJECT.json`.

## 12. How to run it

    tlc -workers 2 -config Dispatch_all.cfg MCDispatch
    tlapm Dispatch_proofs.tla

Each `.cfg` names its constants; the sets it takes are defined in `MCDispatch`,
`MCEventQueue`, `MCInputThread`, `MCTimers`, `MCSync` and `MCPresent`. Modules ending in `Props` hold the properties,
the inductive invariants and the fairness; modules ending in `_proofs` the
theorems. The runs take from seconds to about a minute, the proofs minutes each.
