---------------------------- MODULE InputThread ----------------------------
(***************************************************************************)
(* The input thread, os/inputthread.d: the thread that polls the input     *)
(* devices and runs their drivers' read procedures while the main thread   *)
(* serves clients and hotplugs devices.                                    *)
(*                                                                         *)
(* The two threads share the list of devices, devs, under the input lock;  *)
(* the flag changed, which the input thread tests without it; and two      *)
(* pipes.  A byte in the hotplug pipe tells the input thread to look at    *)
(* the list, its closing tells it to stop; a byte in the notify pipe tells *)
(* the main thread that there may be events in the queue (EventQueue).     *)
(*                                                                         *)
(* ospoll (os/ospoll.d, epoll) belongs to the input thread; the kernel     *)
(* forgets a descriptor that is closed without telling ospoll.             *)
(***************************************************************************)
EXTENDS Naturals, Sequences, SequencesExt

CONSTANTS
  Fds,            \* file descriptors
  Devices,        \* devices, as drivers and dix know them
  Entries,        \* the InputThreadDevice structures malloc can return
  Room,           \* bytes the notify pipe holds before a write blocks
  Chunk,          \* bytes one read of a pipe takes at most
  MaxHotplugs     \* bound: bytes in the hotplug pipe

Hotplug == "hotplug"    \* the descriptor of the hotplug pipe's read end
NoFd == "no fd"
NoEntry == "no entry"
NoDevice == "no device"

ASSUME PollAssumption ==
  /\ Hotplug \notin Fds
  /\ NoFd \notin Fds
  /\ NoEntry \notin Entries
  /\ NoDevice \notin Devices
  /\ Room \in Nat \ {0}
  /\ Chunk \in Nat \ {0}
  /\ MaxHotplugs \in Nat

VARIABLES
  entry,      \* InputThreadDevice: what each structure holds
  devs,       \* inputThreadInfo.devs, first to last
  changed,    \* inputThreadInfo.changed
  running,    \* inputThreadInfo.running
  lock,       \* who holds input_mutex
  polled,     \* ospoll.fds: the structure a polled descriptor's callback gets
  watched,    \* the descriptors the kernel reports to ospoll_wait
  readable,   \* descriptors with unread input
  hotplug,    \* bytes in the hotplug pipe
  closed,     \* whether its write end is closed
  notify,     \* bytes in the notify pipe
  queued,     \* whether events are in the queue
  thread,     \* where the input thread is
  at,         \* its place in devs
  ready,      \* descriptors ospoll_wait reported, not served yet
  main,       \* where the main thread is
  device,     \* each device: off, on, or on and unplugged
  fd,         \* the descriptor each device has open, if any
  mistaken    \* history: descriptors an older entry of which was marked
              \* removed, once more, in place of the live one

list == <<entry, devs, changed, mistaken>>
poll == <<polled, watched>>
threadVars == <<running, thread, at, ready>>
drivers == <<device, fd>>
vars == <<entry, devs, changed, running, lock, polled, watched, readable, hotplug,
          closed, notify, queued, thread, at, ready, main, device, fd,
          mistaken>>

Free == [fd |-> NoFd, dev |-> NoDevice, state |-> "free"]

Listed == {devs[i] : i \in DOMAIN devs}

\* (mutant: an entry that is being removed is taken over)
SameFd(f) == {e \in Listed : entry[e].fd = f}

\* The entries that serve descriptor f: listed and not removed.
Live(f) == {e \in Listed : entry[e].fd = f /\ entry[e].state # "removed"}

\* (mutant: a short read is not expected)
DrainedFully(n) == n - Chunk

\* How much one read leaves in a pipe that holds n bytes.
Drained(n) == IF n > Chunk THEN n - Chunk ELSE 0

Init ==
  /\ entry = [e \in Entries |-> Free]
  /\ devs = <<>>
  /\ changed = FALSE
  /\ running = FALSE
  /\ lock = "none"
  /\ polled = [f \in Fds |-> NoEntry]
  /\ watched = {}
  /\ readable = {}
  /\ hotplug = 0
  /\ closed = FALSE
  /\ notify = 0
  /\ queued = FALSE
  /\ thread = "none"
  /\ at = 1
  /\ ready = {}
  /\ main = "idle"
  /\ device = [d \in Devices |-> "off"]
  /\ fd = [d \in Devices |-> NoFd]
  /\ mistaken = {}

-----------------------------------------------------------------------------
(* The list of devices; both operations run under the input lock. *)

Enlist(e) == Append(devs, e)

(* InputThreadRegisterDev: an entry of the descriptor that is not removed is
   taken over, otherwise a new one goes to the end of the list. *)
RegisterDev(d, f) ==
  /\ changed' = TRUE
  /\ UNCHANGED mistaken
  /\ \/ \E e \in Live(f) :
          /\ entry' = [entry EXCEPT ![e].dev = d]
          /\ UNCHANGED devs
     \/ /\ Live(f) = {}
        /\ \E e \in Entries \ Listed :
             /\ entry' = [entry EXCEPT ![e] = [fd |-> f, dev |-> d, state |-> "added"]]
             /\ devs' = Enlist(e)

\* The entry UnregisterDev finds at position i: the first of the descriptor.
FirstOf(i, f) ==
  /\ entry[devs[i]].fd = f
  /\ \A j \in 1 .. i - 1 : entry[devs[j]].fd # f

(* InputThreadUnregisterDev; a descriptor nobody registered changes nothing
   and sends no byte. *)
UnregisterDev(f) ==
  \E i \in DOMAIN devs :
    /\ FirstOf(i, f)
    /\ entry' = [entry EXCEPT ![devs[i]].state = "removed"]
    /\ changed' = TRUE
    /\ mistaken' = IF entry[devs[i]].state = "removed" /\ Live(f) # {}
                     THEN mistaken \cup {f} ELSE mistaken
    /\ UNCHANGED devs

\* (mutant: an entry the input thread has not taken up yet is not found)
RegisteredAndRunning(f) == \E e \in Listed : entry[e].fd = f /\ entry[e].state = "running"

Registered(f) == \E e \in Listed : entry[e].fd = f

-----------------------------------------------------------------------------
(* The main thread hotplugs devices, under its own hold of the input lock
   around the driver's procedure, and drains the notify pipe. *)

(* A driver opens its device before it enables it. *)
Open(d, f) ==
  /\ main = "idle"
  /\ fd[d] = NoFd
  /\ f \notin {fd[x] : x \in Devices}
  /\ fd' = [fd EXCEPT ![d] = f]
  /\ readable' = readable \ {f}
  /\ UNCHANGED <<list, lock, poll, hotplug, closed, notify, queued, threadVars, main, device>>

(* Closing it makes the kernel forget the descriptor. *)
Close(d) ==
  /\ main = "idle"
  /\ fd[d] # NoFd
  /\ device[d] = "off"
  /\ fd' = [fd EXCEPT ![d] = NoFd]
  /\ watched' = watched \ {fd[d]}
  /\ readable' = readable \ {fd[d]}
  /\ UNCHANGED <<list, lock, polled, hotplug, closed, notify, queued, threadVars, main, device>>

(* EnableDevice takes the lock and turns the device on through its driver. *)
EnableDevice(d) ==
  /\ main = "idle"
  /\ lock = "none"
  /\ device[d] = "off"
  /\ fd[d] # NoFd
  /\ hotplug < MaxHotplugs
  /\ lock' = "main"
  /\ RegisterDev(d, fd[d])
  /\ device' = [device EXCEPT ![d] = "on"]
  /\ main' = "fill"
  /\ UNCHANGED <<poll, readable, hotplug, closed, notify, queued, threadVars, fd>>

(* DisableDevice does the reverse.  The driver of an unplugged device may
   have unregistered it already. *)
DisableDevice(d) ==
  /\ main = "idle"
  /\ lock = "none"
  /\ device[d] # "off"
  /\ hotplug < MaxHotplugs
  /\ lock' = "main"
  /\ IF Registered(fd[d])
       THEN UnregisterDev(fd[d]) /\ main' = "fill"
       ELSE UNCHANGED list /\ main' = "leave"
  /\ device' = [device EXCEPT ![d] = "off"]
  /\ UNCHANGED <<poll, readable, hotplug, closed, notify, queued, threadVars, fd>>

(* InputThreadFillPipe(hotplugPipeWrite), once the list says what changed. *)
FillHotplug ==
  /\ main = "fill"
  /\ hotplug' = hotplug + 1
  /\ main' = "leave"
  /\ UNCHANGED <<list, lock, poll, readable, closed, notify, queued, threadVars, drivers>>

LeaveLock ==
  /\ main = "leave"
  /\ lock' = "none"
  /\ main' = "idle"
  /\ UNCHANGED <<list, poll, readable, hotplug, closed, notify, queued, threadVars, drivers>>

(* Dispatch processes what is queued, or goes to sleep in WaitForSomething. *)
ProcessInput ==
  /\ main = "idle"
  /\ lock = "none"
  /\ queued
  /\ queued' = FALSE
  /\ UNCHANGED <<list, lock, poll, readable, hotplug, closed, notify, threadVars, main, drivers>>

Sleep ==
  /\ main = "idle"
  /\ thread # "none"
  /\ ~queued
  /\ main' = "asleep"
  /\ UNCHANGED <<list, lock, poll, readable, hotplug, closed, notify, queued, threadVars, drivers>>

\* (mutant: WaitForSomething does not look at the queue after the poll)
NotifiedInVain ==
  /\ main = "asleep"
  /\ notify > 0
  /\ notify' = Drained(notify)
  /\ UNCHANGED <<list, lock, poll, readable, hotplug, closed, queued, threadVars, main, drivers>>

(* InputThreadNotifyPipe wakes the main thread up and takes the bytes. *)
Notified ==
  /\ main = "asleep"
  /\ notify > 0
  /\ notify' = Drained(notify)
  /\ main' = "idle"
  /\ UNCHANGED <<list, lock, poll, readable, hotplug, closed, queued, threadVars, drivers>>

(* So does anything else WaitForSomething waits for; ospoll_wait reports a
   pipe that has bytes with it. *)
WokenUp ==
  /\ main = "asleep"
  /\ notify = 0
  /\ main' = "idle"
  /\ UNCHANGED <<list, lock, poll, readable, hotplug, closed, notify, queued, threadVars, drivers>>

(* InputThreadInit, when the devices of the configuration are enabled. *)
InputThreadInit ==
  /\ main = "idle"
  /\ thread = "none"
  /\ thread' = "start"
  /\ UNCHANGED <<list, running, lock, poll, readable, hotplug, closed, notify, queued, at, ready,
                 main, drivers>>

(* InputThreadFini, after DisableAllDevices: close the pipe, force the lock
   open and join the thread; then empty the list. *)
Shutdown ==
  /\ main = "idle"
  /\ thread # "none"
  /\ \A d \in Devices : device[d] = "off"
  /\ closed' = TRUE
  /\ main' = "join"
  /\ UNCHANGED <<list, lock, poll, readable, hotplug, notify, queued, threadVars, drivers>>

InputThreadFini ==
  /\ main = "join"
  /\ thread = "done"
  /\ entry' = [e \in Entries |-> Free]
  /\ devs' = <<>>
  /\ polled' = [f \in Fds |-> IF Registered(f) THEN NoEntry ELSE polled[f]]
  /\ watched' = {f \in watched : ~Registered(f)}
  /\ notify' = 0
  /\ main' = "stopped"
  /\ UNCHANGED <<changed, mistaken, lock, readable, hotplug, closed, queued, threadVars, drivers>>

MainNext ==
  \/ \E d \in Devices : \/ EnableDevice(d) \/ DisableDevice(d) \/ Close(d)
                        \/ \E f \in Fds : Open(d, f)
  \/ FillHotplug \/ LeaveLock \/ ProcessInput \/ Sleep \/ Notified \/ WokenUp
  \/ InputThreadInit \/ Shutdown \/ InputThreadFini

-----------------------------------------------------------------------------
(* The input thread: InputThreadDoWork. *)

Start ==
  /\ thread = "start"
  /\ running' = TRUE
  /\ thread' = "loop"
  /\ UNCHANGED <<list, lock, poll, readable, hotplug, closed, notify, queued, at, ready, main, drivers>>

(* The loop's tests, both made without the lock. *)
Loop ==
  /\ thread = "loop"
  /\ thread' = IF ~running THEN "done" ELSE IF changed THEN "changed" ELSE "wait"
  /\ UNCHANGED <<list, running, lock, poll, readable, hotplug, closed, notify, queued, at, ready,
                 main, drivers>>

TakeChanges ==
  /\ thread = "changed"
  /\ lock = "none"
  /\ lock' = "thread"
  /\ changed' = FALSE
  /\ at' = 1
  /\ thread' = "walk"
  /\ UNCHANGED <<entry, devs, mistaken, running, poll, readable, hotplug, closed, notify, queued,
                 ready, main, drivers>>

(* ospoll_add and ospoll_listen: a descriptor that is not open cannot be
   watched, and the result is not looked at. *)
ospoll_add(f, e) ==
  IF polled[f] # NoEntry
    THEN /\ polled' = [polled EXCEPT ![f] = e]
         /\ UNCHANGED watched
    ELSE IF f \in {fd[d] : d \in Devices}
      THEN /\ polled' = [polled EXCEPT ![f] = e]
           /\ watched' = watched \cup {f}
      ELSE UNCHANGED poll

\* (mutant: the descriptor stays in ospoll)
KeepPolling(f) == UNCHANGED poll

ospoll_remove(f) ==
  /\ polled' = [polled EXCEPT ![f] = NoEntry]
  /\ watched' = watched \ {f}

(* One turn of the walk over the list, by the state of the entry. *)
TakeUp ==
  /\ thread = "walk"
  /\ at \in DOMAIN devs
  /\ entry[devs[at]].state # "removed"
  /\ IF entry[devs[at]].state = "added"
       THEN /\ ospoll_add(entry[devs[at]].fd, devs[at])
            /\ entry' = [entry EXCEPT ![devs[at]].state = "running"]
       ELSE UNCHANGED <<poll, entry>>
  /\ at' = at + 1
  /\ UNCHANGED <<devs, changed, mistaken, running, lock, readable, hotplug, closed, notify, queued,
                 thread, ready, main, drivers>>

Discard ==
  /\ thread = "walk"
  /\ at \in DOMAIN devs
  /\ entry[devs[at]].state = "removed"
  /\ ospoll_remove(entry[devs[at]].fd)
  /\ entry' = [entry EXCEPT ![devs[at]] = Free]
  /\ devs' = RemoveAt(devs, at)
  /\ UNCHANGED <<changed, mistaken, running, lock, readable, hotplug, closed, notify, queued, thread,
                 at, ready, main, drivers>>

EndOfWalk ==
  /\ thread = "walk"
  /\ at \notin DOMAIN devs
  /\ lock' = "none"
  /\ thread' = "wait"
  /\ UNCHANGED <<list, running, poll, readable, hotplug, closed, notify, queued, at, ready, main,
                 drivers>>

Reported == (watched \cap readable) \cup {f \in {Hotplug} : hotplug > 0 \/ closed}

(* ospoll_wait blocks until a descriptor is ready. *)
Wait ==
  /\ thread = "wait"
  /\ Reported # {}
  /\ ready' = Reported
  /\ thread' = "serve"
  /\ UNCHANGED <<list, running, lock, poll, readable, hotplug, closed, notify, queued, at, main,
                 drivers>>

\* (mutant: the end of the pipe is not noticed)
PipeNotifyOnly ==
  /\ thread = "serve"
  /\ Hotplug \in ready
  /\ hotplug' = Drained(hotplug)
  /\ ready' = ready \ {Hotplug}
  /\ UNCHANGED <<list, running, lock, poll, readable, closed, notify, queued, thread, at, main,
                 drivers>>

(* InputThreadPipeNotify takes no lock. *)
PipeNotify ==
  /\ thread = "serve"
  /\ Hotplug \in ready
  /\ hotplug' = Drained(hotplug)
  /\ running' = (running /\ hotplug > 0)
  /\ ready' = ready \ {Hotplug}
  /\ UNCHANGED <<list, lock, poll, readable, closed, notify, queued, thread, at, main, drivers>>

Runs(f) == polled[f] # NoEntry /\ entry[polled[f]].state = "running"

(* InputReady runs the read procedure of an entry that still is running: the
   driver enqueues events. *)
ReadInput(f) ==
  /\ thread = "serve"
  /\ f \in ready
  /\ lock = "none"
  /\ Runs(f)
  /\ f \in readable
  /\ queued' = TRUE
  /\ readable' = readable \ {f}
  /\ ready' = ready \ {f}
  /\ UNCHANGED <<list, running, lock, poll, hotplug, closed, notify, thread, at, main, drivers>>

(* Or it finds the device unplugged and unregisters what the driver has open,
   from this thread. *)
ReadUnplugged(f) ==
  /\ thread = "serve"
  /\ f \in ready
  /\ lock = "none"
  /\ Runs(f)
  /\ hotplug < MaxHotplugs
  /\ ~closed
  /\ LET d == entry[polled[f]].dev IN
       /\ IF Registered(fd[d])
            THEN UnregisterDev(fd[d]) /\ hotplug' = hotplug + 1
            ELSE UNCHANGED <<list, hotplug>>
       /\ device' = [device EXCEPT ![d] = IF @ = "on" THEN "gone" ELSE @]
  /\ readable' = readable \ {f}
  /\ ready' = ready \ {f}
  /\ UNCHANGED <<running, lock, poll, closed, notify, queued, thread, at, main, fd>>

(* Any other is left alone: it was unregistered after the poll, or somebody
   else has read. *)
ReadNothing(f) ==
  /\ thread = "serve"
  /\ f \in ready
  /\ lock = "none"
  /\ ~Runs(f) \/ f \notin readable
  /\ ready' = ready \ {f}
  /\ UNCHANGED <<list, running, lock, poll, readable, hotplug, closed, notify, queued, thread, at,
                 main, drivers>>

Served ==
  /\ thread = "serve"
  /\ ready = {}
  /\ thread' = "kick"
  /\ UNCHANGED <<list, running, lock, poll, readable, hotplug, closed, notify, queued, at, ready,
                 main, drivers>>

(* InputThreadFillPipe(writePipe) blocks while the pipe is full. *)
Kick ==
  /\ thread = "kick"
  /\ notify < Room
  /\ notify' = notify + 1
  /\ thread' = "loop"
  /\ UNCHANGED <<list, running, lock, poll, readable, hotplug, closed, queued, at, ready, main,
                 drivers>>

InputReady == \E f \in Fds : ReadInput(f) \/ ReadUnplugged(f) \/ ReadNothing(f)

ThreadNext ==
  \/ Start \/ Loop \/ TakeChanges \/ TakeUp \/ Discard \/ EndOfWalk
  \/ Wait \/ PipeNotify \/ InputReady \/ Served \/ Kick

-----------------------------------------------------------------------------
(* Hardware: input arrives on an open device. *)
Arrive(d) ==
  /\ fd[d] # NoFd
  /\ fd[d] \notin readable
  /\ readable' = readable \cup {fd[d]}
  /\ UNCHANGED <<list, lock, poll, hotplug, closed, notify, queued, threadVars, main, drivers>>

Next == MainNext \/ ThreadNext \/ \E d \in Devices : Arrive(d)

Spec == Init /\ [][Next]_vars

=============================================================================
