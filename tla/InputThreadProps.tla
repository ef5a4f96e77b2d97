------------------------- MODULE InputThreadProps -------------------------
(* What the input thread of InputThread promises. *)
EXTENDS InputThread

\* Every variable of inputThreadInfo and of both threads has its type; a
\* drained pipe never holds less than nothing.
EntryType == [fd : Fds \cup {NoFd}, dev : Devices \cup {NoDevice},
              state : {"free", "added", "running", "removed"}]

TypeOK ==
  /\ entry \in [Entries -> EntryType]
  /\ devs \in Seq(Entries)
  /\ changed \in BOOLEAN
  /\ running \in BOOLEAN
  /\ lock \in {"none", "main", "thread"}
  /\ polled \in [Fds -> Entries \cup {NoEntry}]
  /\ watched \subseteq Fds
  /\ readable \subseteq Fds
  /\ hotplug \in Nat
  /\ closed \in BOOLEAN
  /\ notify \in 0 .. Room
  /\ queued \in BOOLEAN
  /\ thread \in {"none", "start", "loop", "changed", "walk", "wait", "serve", "kick", "done"}
  /\ at \in Nat \ {0}
  /\ ready \subseteq Fds \cup {Hotplug}
  /\ main \in {"idle", "fill", "leave", "asleep", "join", "stopped"}
  /\ device \in [Devices -> {"off", "on", "gone"}]
  /\ fd \in [Devices -> Fds \cup {NoFd}]
  /\ mistaken \subseteq Fds

\* No polled descriptor's callback gets a structure that was freed, or one
\* that now serves another descriptor: the ospoll_remove of an entry that goes
\* never misses it and never hits another.
PolledIsListed ==
  \A f \in Fds :
    polled[f] # NoEntry => /\ polled[f] \in Listed
                           /\ entry[polled[f]].fd = f
                           /\ entry[polled[f]].state \in {"running", "removed"}

\* "Do not prepend, so that any removed entry with the same fd gets processed
\* first": an entry that is running is the one its descriptor's callback gets,
\* and the kernel reports the descriptor.  (Until UnregisterDev has mistaken
\* an entry of the descriptor for another: see UnregisteredIsRemoved.)
RunningIsPolled ==
  \A e \in Listed :
    entry[e].state = "running" /\ entry[e].fd \notin mistaken
      => polled[entry[e].fd] = e /\ entry[e].fd \in watched

\* InputReady never runs the read procedure of a device that was disabled,
\* or on a descriptor its driver has closed and another has reopened.  (With
\* the same exception.)
RunningIsEnabled ==
  \A e \in Listed :
    entry[e].state \in {"added", "running"} /\ entry[e].fd \notin mistaken
      => device[entry[e].dev] = "on" /\ fd[entry[e].dev] = entry[e].fd

-----------------------------------------------------------------------------
(* What makes these properties inductive.                                  *)

\* what the list holds was filled in by RegisterDev
ListedAreWhole ==
  \A e \in Listed : /\ entry[e].fd \in Fds
                    /\ entry[e].dev \in Devices
                    /\ entry[e].state # "free"

ListedAreDistinct ==
  \A i, j \in DOMAIN devs : devs[i] = devs[j] => i = j

\* of two entries of one descriptor the first is on its way out, and the
\* input thread has not seen the other
OlderGoesFirst ==
  \A i, j \in DOMAIN devs :
    i < j /\ entry[devs[i]].fd = entry[devs[j]].fd
      => entry[devs[i]].state = "removed" /\ entry[devs[j]].state = "added"

\* what the walk has passed is running
WalkedAreRunning ==
  thread = "walk" => \A i \in DOMAIN devs : i < at => entry[devs[i]].state = "running"

LockIsHeld ==
  /\ lock = "thread" <=> thread = "walk"
  /\ lock = "main" <=> main \in {"fill", "leave"}

\* the kernel gives no descriptor to two devices
DescriptorsAreOwned ==
  \A d, x \in Devices : fd[d] = fd[x] /\ fd[d] # NoFd => d = x

ListInv == ListedAreWhole /\ ListedAreDistinct /\ OlderGoesFirst /\ WalkedAreRunning

IndInv ==
  /\ TypeOK /\ ListInv /\ LockIsHeld /\ DescriptorsAreOwned
  /\ PolledIsListed /\ RunningIsPolled /\ RunningIsEnabled

-----------------------------------------------------------------------------
(* Liveness.  Both threads keep running, whoever holds the input lock        *)
(* releases it and pthread_mutex_lock eventually returns to the thread that  *)
(* waits.  However many devices it hotplugs, the main thread comes back to   *)
(* Dispatch's loop, which processes what is queued or, when nothing is, goes *)
(* to WaitForSomething.                                                      *)

Locked == TakeChanges \/ InputReady

Fairness ==
  /\ WF_vars(ThreadNext)
  /\ SF_vars(Locked)
  /\ WF_vars(FillHotplug \/ LeaveLock \/ Notified \/ InputThreadInit \/ InputThreadFini)
  /\ SF_vars(ProcessInput)
  /\ SF_vars(Sleep)

FairSpec == Spec /\ Fairness

\* No lost hotplug: the kernel comes to watch the descriptor of a device that
\* is enabled, unless the device is disabled or unplugged.
EnabledIsWatched ==
  \A d \in Devices : device[d] = "on" ~> device[d] # "on" \/ fd[d] \in watched \cup mistaken

\* No lost input: what the driver enqueues is processed although the main
\* thread may be on its way to sleep.
InputIsProcessed == queued ~> ~queued \/ main \in {"join", "stopped"}

\* InputThreadFini returns if the notify pipe can take one byte for each wait
\* that still drains the hotplug pipe: nobody reads it any more.
FiniReturns == main = "join" /\ Room - notify >= hotplug + 2 ~> main = "stopped"

-----------------------------------------------------------------------------
(* What a comment of the source promises and the code does not keep.       *)

\* "Unregister a device in the threaded input facility": once a device is
\* off, no entry is left that will run its read procedure.
UnregisteredIsRemoved ==
  \A e \in Listed : entry[e].state \in {"added", "running"} => device[entry[e].dev] # "off"
=============================================================================
