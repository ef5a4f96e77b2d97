-------------------------- MODULE InputThread_proofs --------------------------
(***************************************************************************)
(* The input thread keeps its list, ospoll and the devices consistent, for *)
(* any number of devices, descriptors and entries.                         *)
(*                                                                         *)
(* The argument is about a descriptor that is reused: of its two entries   *)
(* the older is removed and the newer added (OlderGoesFirst), the walk     *)
(* meets them in this order and leaves only running ones behind it         *)
(* (WalkedAreRunning), so ospoll_remove always hits the entry it is for    *)
(* and ospoll_add always finds the descriptor free.                        *)
(***************************************************************************)
EXTENDS InputThreadProps, SequenceTheorems, TLAPS

(* RemoveAt drops one element and moves those behind it up. *)
LEMMA RemoveAtEffect ==
  ASSUME NEW S, NEW s \in Seq(S), NEW i \in 1 .. Len(s)
  PROVE  /\ RemoveAt(s, i) \in Seq(S)
         /\ Len(RemoveAt(s, i)) = Len(s) - 1
         /\ \A k \in 1 .. Len(s) - 1 :
              RemoveAt(s, i)[k] = IF k < i THEN s[k] ELSE s[k + 1]
<1> DEFINE a == SubSeq(s, 1, i - 1)
<1> DEFINE b == SubSeq(s, i + 1, Len(s))
<1>0. RemoveAt(s, i) = a \o b
  BY DEF RemoveAt
<1>1. a \in Seq(S) /\ Len(a) = i - 1 /\ \A k \in 1 .. i - 1 : a[k] = s[k]
  OBVIOUS
<1>2. b \in Seq(S) /\ Len(b) = Len(s) - i /\ \A k \in 1 .. Len(s) - i : b[k] = s[i + k]
  OBVIOUS
<1> HIDE DEF a, b
<1>n. Len(s) \in Nat /\ i \in Nat /\ i <= Len(s)
  OBVIOUS
<1>3. a \o b \in Seq(S) /\ Len(a \o b) = Len(s) - 1
  <2>1. a \o b \in Seq(S) /\ Len(a \o b) = Len(a) + Len(b)
    BY <1>1, <1>2, ConcatProperties
  <2>2. (i - 1) + (Len(s) - i) = Len(s) - 1
    BY <1>n
  <2> QED BY <1>1, <1>2, <2>1, <2>2
<1>4. ASSUME NEW k \in 1 .. Len(s) - 1
      PROVE  (a \o b)[k] = IF k < i THEN s[k] ELSE s[k + 1]
  <2>1. CASE k < i
    BY <1>1, <1>2, <2>1
  <2>2. CASE ~(k < i)
    <3>1. (a \o b)[k] = b[k - (i - 1)]
      BY <1>1, <1>2, <1>n, <2>2
    <3>2. k - (i - 1) \in 1 .. Len(s) - i /\ i + (k - (i - 1)) = k + 1
      BY <1>n, <2>2
    <3>3. b[k - (i - 1)] = s[i + (k - (i - 1))]
      BY <1>2, <3>2
    <3>4. (a \o b)[k] = s[k + 1]
      BY <3>1, <3>2, <3>3
    <3> QED BY <2>2, <3>4
  <2> QED BY <2>1, <2>2
<1> QED BY <1>0, <1>3, <1>4

-----------------------------------------------------------------------------

(* Steps that leave the list, ospoll and the devices alone. *)
LEMMA FrameKeeps ==
  ASSUME IndInv, UNCHANGED <<list, poll, drivers>>, TypeOK', LockIsHeld',
         thread' = "walk" => thread = "walk" /\ at' = at
  PROVE  IndInv'
<1>1. UNCHANGED <<entry, devs, mistaken, polled, watched, device, fd>>
  BY DEF list, poll, drivers
<1>2. Listed' = Listed
  BY <1>1 DEF Listed
<1>3. ListedAreWhole' /\ ListedAreDistinct' /\ OlderGoesFirst'
  BY <1>1, <1>2 DEF IndInv, ListInv, ListedAreWhole, ListedAreDistinct, OlderGoesFirst
<1>4. WalkedAreRunning'
  BY <1>1 DEF IndInv, ListInv, WalkedAreRunning
<1>5. DescriptorsAreOwned'
  BY <1>1 DEF IndInv, DescriptorsAreOwned
<1>6. PolledIsListed' /\ RunningIsPolled' /\ RunningIsEnabled'
  BY <1>1, <1>2 DEF IndInv, PolledIsListed, RunningIsPolled, RunningIsEnabled
<1> QED BY <1>3, <1>4, <1>5, <1>6 DEF IndInv, ListInv

(* What InputThreadUnregisterDev does to the list, whichever thread calls it:
   afterwards no live entry of the descriptor is left, or it has taken the
   removed one for it. *)
LEMMA UnregisterEffect ==
  ASSUME IndInv, NEW f, UnregisterDev(f)
  PROVE  /\ devs' = devs /\ Listed' = Listed
         /\ entry' \in [Entries -> EntryType]
         /\ changed' = TRUE
         /\ mistaken \subseteq mistaken' /\ mistaken' \subseteq Fds
         /\ \A e \in Entries : /\ entry'[e].fd = entry[e].fd
                               /\ entry'[e].dev = entry[e].dev
                               /\ entry'[e].state \in {entry[e].state, "removed"}
         /\ \A e \in Listed : entry'[e].fd = f /\ entry'[e].state # "removed"
                               => f \in mistaken'
         /\ ListedAreWhole' /\ ListedAreDistinct' /\ OlderGoesFirst'
<1>1. PICK i \in DOMAIN devs :
        /\ FirstOf(i, f)
        /\ entry' = [entry EXCEPT ![devs[i]].state = "removed"]
        /\ changed' = TRUE
        /\ mistaken' = IF entry[devs[i]].state = "removed" /\ Live(f) # {}
                         THEN mistaken \cup {f} ELSE mistaken
        /\ UNCHANGED devs
  BY DEF UnregisterDev
<1>2. devs \in Seq(Entries) /\ entry \in [Entries -> EntryType] /\ mistaken \subseteq Fds
  BY DEF IndInv, TypeOK
<1>3. devs[i] \in Entries /\ devs[i] \in Listed
  BY <1>2 DEF Listed
<1>4. Listed' = Listed /\ Listed \subseteq Entries
  BY <1>1, <1>2 DEF Listed
<1>5. \A e \in Entries : /\ entry'[e].fd = entry[e].fd
                         /\ entry'[e].dev = entry[e].dev
                         /\ entry'[e].state = IF e = devs[i] THEN "removed" ELSE entry[e].state
  BY <1>1, <1>2, <1>3 DEF EntryType
<1>6. entry' \in [Entries -> EntryType]
  BY <1>1, <1>2, <1>3 DEF EntryType
<1>7. f \in Fds
  BY <1>1, <1>3 DEF FirstOf, IndInv, ListInv, ListedAreWhole
<1>8. mistaken \subseteq mistaken' /\ mistaken' \subseteq Fds
  BY <1>1, <1>2, <1>7
<1>9. ListedAreWhole' /\ ListedAreDistinct'
  BY <1>1, <1>4, <1>5 DEF IndInv, ListInv, ListedAreWhole, ListedAreDistinct
<1>10. \A j \in DOMAIN devs : j # i => devs[j] # devs[i]
  BY DEF IndInv, ListInv, ListedAreDistinct
<1>11. \A j \in DOMAIN devs : j # i /\ entry[devs[j]].fd = f => i < j
  BY <1>1, <1>2 DEF FirstOf
<1>12. OlderGoesFirst'
  <2> SUFFICES ASSUME NEW j \in DOMAIN devs, NEW k \in DOMAIN devs,
                      j < k, entry[devs[j]].fd = entry[devs[k]].fd
               PROVE  entry'[devs[j]].state = "removed" /\ entry'[devs[k]].state = "added"
    BY <1>1, <1>2, <1>5 DEF OlderGoesFirst
  <2>1. entry[devs[j]].state = "removed" /\ entry[devs[k]].state = "added"
    BY DEF IndInv, ListInv, OlderGoesFirst
  <2>2. devs[j] \in Entries /\ devs[k] \in Entries
    BY <1>2
  <2>3. k # i
    <3>1. j \in Nat /\ i \in Nat /\ k \in Nat
      BY <1>2
    <3>2. k = i => i < j
      BY <1>1, <1>11, <3>1 DEF FirstOf
    <3> QED BY <3>1, <3>2
  <2> QED BY <1>5, <1>10, <2>1, <2>2, <2>3
<1>13. ASSUME NEW e \in Listed, entry'[e].fd = f, entry'[e].state # "removed"
       PROVE  f \in mistaken'
  <2>1. PICK j \in DOMAIN devs : e = devs[j]
    BY DEF Listed
  <2>2. e # devs[i] /\ entry[e].fd = f /\ entry[e].state # "removed"
    BY <1>4, <1>5, <1>13
  <2>3. i < j
    BY <1>11, <2>1, <2>2
  <2>4. entry[devs[i]].state = "removed"
    BY <1>1, <2>1, <2>2, <2>3 DEF FirstOf, IndInv, ListInv, OlderGoesFirst
  <2>5. e \in Live(f)
    BY <2>2 DEF Live
  <2> QED BY <1>1, <2>4, <2>5
<1> QED BY <1>1, <1>4, <1>5, <1>6, <1>8, <1>9, <1>12, <1>13

(* ospoll still is right when entries were marked removed. *)
LEMMA PollAfterUnregister ==
  ASSUME IndInv, NEW f, UnregisterDev(f), UNCHANGED poll
  PROVE  PolledIsListed' /\ RunningIsPolled'
<1>1. /\ Listed' = Listed
      /\ mistaken \subseteq mistaken'
      /\ \A e \in Entries : /\ entry'[e].fd = entry[e].fd
                            /\ entry'[e].state \in {entry[e].state, "removed"}
  BY UnregisterEffect
<1>2. Listed \subseteq Entries
  BY DEF IndInv, TypeOK, Listed
<1>3. polled' = polled /\ watched' = watched
  BY DEF poll
<1>4. PolledIsListed'
  BY <1>1, <1>2, <1>3 DEF IndInv, PolledIsListed
<1>5. RunningIsPolled'
  BY <1>1, <1>2, <1>3 DEF IndInv, RunningIsPolled
<1> QED BY <1>4, <1>5

(* Live entries belong to devices that are on, when a device that is no
   longer on had its descriptor unregistered. *)
LEMMA EnabledAfterUnregister ==
  ASSUME IndInv, NEW d \in Devices, UnregisterDev(fd[d]), UNCHANGED fd,
         \A x \in Devices : x # d => device'[x] = device[x]
  PROVE  RunningIsEnabled'
<1>1. /\ Listed' = Listed
      /\ mistaken \subseteq mistaken'
      /\ \A e \in Entries : /\ entry'[e].fd = entry[e].fd
                            /\ entry'[e].dev = entry[e].dev
                            /\ entry'[e].state \in {entry[e].state, "removed"}
      /\ \A e \in Listed : entry'[e].fd = fd[d] /\ entry'[e].state # "removed"
                            => fd[d] \in mistaken'
  BY UnregisterEffect
<1>2. Listed \subseteq Entries
  BY DEF IndInv, TypeOK, Listed
<1> SUFFICES ASSUME NEW e \in Listed, entry'[e].state \in {"added", "running"},
                    entry'[e].fd \notin mistaken'
             PROVE  device'[entry'[e].dev] = "on" /\ fd'[entry'[e].dev] = entry'[e].fd
  BY <1>1 DEF RunningIsEnabled
<1>3. entry[e].state \in {"added", "running"} /\ entry[e].fd \notin mistaken
  BY <1>1, <1>2
<1>4. device[entry[e].dev] = "on" /\ fd[entry[e].dev] = entry[e].fd
  BY <1>3 DEF IndInv, RunningIsEnabled
<1>5. entry[e].dev # d
  BY <1>1, <1>2, <1>4
<1>6. entry[e].dev \in Devices
  BY DEF IndInv, ListInv, ListedAreWhole
<1> QED BY <1>1, <1>2, <1>4, <1>5, <1>6

-----------------------------------------------------------------------------
(* One lemma for every action of the main thread that hotplugs. *)

LEMMA InitKeeps == Init => IndInv
<1> SUFFICES ASSUME Init PROVE IndInv
  OBVIOUS
<1> USE DEF Init
<1>1. DOMAIN devs = {} /\ Listed = {}
  BY DEF Listed
<1>2. TypeOK
  <2>1. Free \in EntryType
    BY DEF Free, EntryType
  <2>2. entry \in [Entries -> EntryType] /\ devs \in Seq(Entries)
    BY <2>1
  <2>3. polled \in [Fds -> Entries \cup {NoEntry}] /\ watched \subseteq Fds
    OBVIOUS
  <2>4. notify \in 0 .. Room /\ hotplug \in Nat /\ at \in Nat \ {0}
    BY PollAssumption
  <2> QED BY <2>2, <2>3, <2>4 DEF TypeOK
<1>3. ListInv
  BY <1>1 DEF ListInv, ListedAreWhole, ListedAreDistinct, OlderGoesFirst, WalkedAreRunning
<1>4. LockIsHeld /\ DescriptorsAreOwned
  BY DEF LockIsHeld, DescriptorsAreOwned
<1>5. PolledIsListed /\ RunningIsPolled /\ RunningIsEnabled
  BY <1>1 DEF PolledIsListed, RunningIsPolled, RunningIsEnabled
<1> QED BY <1>2, <1>3, <1>4, <1>5 DEF IndInv

LEMMA OpenKeeps ==
  ASSUME IndInv, NEW d \in Devices, NEW f \in Fds, Open(d, f)
  PROVE  IndInv'
<1> USE DEF Open
<1>1. UNCHANGED <<entry, devs, mistaken, polled, watched, device, thread, at, lock, main>>
  BY DEF list, poll, threadVars
<1>2. Listed' = Listed
  BY <1>1 DEF Listed
<1>3. fd \in [Devices -> Fds \cup {NoFd}] /\ fd' = [fd EXCEPT ![d] = f]
  BY DEF IndInv, TypeOK
<1>4. TypeOK'
  BY <1>3 DEF IndInv, TypeOK, list, poll, threadVars
<1>5. ListInv'
  BY <1>1, <1>2 DEF IndInv, ListInv, ListedAreWhole, ListedAreDistinct, OlderGoesFirst,
                    WalkedAreRunning
<1>6. LockIsHeld' /\ PolledIsListed' /\ RunningIsPolled'
  BY <1>1, <1>2 DEF IndInv, LockIsHeld, PolledIsListed, RunningIsPolled
<1>7. DescriptorsAreOwned'
  BY <1>3 DEF IndInv, DescriptorsAreOwned
<1>8. RunningIsEnabled'
  <2> SUFFICES ASSUME NEW e \in Listed, entry[e].state \in {"added", "running"},
                      entry[e].fd \notin mistaken
               PROVE  device[entry[e].dev] = "on" /\ fd'[entry[e].dev] = entry[e].fd
    BY <1>1, <1>2 DEF RunningIsEnabled
  <2>1. device[entry[e].dev] = "on" /\ fd[entry[e].dev] = entry[e].fd
    BY DEF IndInv, RunningIsEnabled
  <2>2. entry[e].fd \in Fds /\ entry[e].dev \in Devices
    BY DEF IndInv, ListInv, ListedAreWhole
  <2>3. entry[e].dev # d
    BY <2>1, <2>2, PollAssumption
  <2> QED BY <1>3, <2>1, <2>2, <2>3
<1> QED BY <1>4, <1>5, <1>6, <1>7, <1>8 DEF IndInv

LEMMA CloseKeeps ==
  ASSUME IndInv, NEW d \in Devices, Close(d)
  PROVE  IndInv'
<1> USE DEF Close
<1>1. UNCHANGED <<entry, devs, mistaken, polled, device, thread, at, lock, main>>
  BY DEF list, threadVars
<1>2. Listed' = Listed
  BY <1>1 DEF Listed
<1>3. fd \in [Devices -> Fds \cup {NoFd}] /\ fd' = [fd EXCEPT ![d] = NoFd]
  BY DEF IndInv, TypeOK
<1>4. TypeOK'
  BY <1>3 DEF IndInv, TypeOK, list, threadVars
<1>5. ListInv'
  BY <1>1, <1>2 DEF IndInv, ListInv, ListedAreWhole, ListedAreDistinct, OlderGoesFirst,
                    WalkedAreRunning
<1>6. LockIsHeld' /\ PolledIsListed'
  BY <1>1, <1>2 DEF IndInv, LockIsHeld, PolledIsListed
<1>7. DescriptorsAreOwned'
  BY <1>3 DEF IndInv, DescriptorsAreOwned
<1>8. ASSUME NEW e \in Listed, entry[e].state \in {"added", "running"},
             entry[e].fd \notin mistaken
      PROVE  /\ device[entry[e].dev] = "on" /\ fd[entry[e].dev] = entry[e].fd
             /\ entry[e].dev \in Devices /\ entry[e].fd # fd[d] /\ entry[e].dev # d
  <2>1. device[entry[e].dev] = "on" /\ fd[entry[e].dev] = entry[e].fd
    BY <1>8 DEF IndInv, RunningIsEnabled
  <2>2. entry[e].dev \in Devices /\ entry[e].dev # d
    BY <2>1 DEF IndInv, ListInv, ListedAreWhole
  <2> QED BY <2>1, <2>2 DEF IndInv, DescriptorsAreOwned
<1>9. RunningIsEnabled'
  BY <1>1, <1>2, <1>3, <1>8 DEF RunningIsEnabled
<1>10. RunningIsPolled'
  BY <1>1, <1>2, <1>8 DEF IndInv, RunningIsPolled
<1> QED BY <1>4, <1>5, <1>6, <1>7, <1>9, <1>10 DEF IndInv

LEMMA EnableKeeps ==
  ASSUME IndInv, NEW d \in Devices, EnableDevice(d)
  PROVE  IndInv'
<1> DEFINE f == fd[d]
<1>1. /\ UNCHANGED <<mistaken, polled, watched, fd, thread, at>>
      /\ thread # "walk" /\ lock' = "main" /\ main' = "fill" /\ changed' = TRUE
      /\ device[d] = "off" /\ device' = [device EXCEPT ![d] = "on"]
  BY DEF EnableDevice, RegisterDev, poll, threadVars, IndInv, LockIsHeld
<1>2. /\ devs \in Seq(Entries) /\ entry \in [Entries -> EntryType]
      /\ device \in [Devices -> {"off", "on", "gone"}]
      /\ f \in Fds
  BY DEF EnableDevice, IndInv, TypeOK
<1>3. Listed \subseteq Entries
  BY <1>2 DEF Listed
<1>4. LockIsHeld' /\ DescriptorsAreOwned'
  BY <1>1 DEF IndInv, LockIsHeld, DescriptorsAreOwned
<1>5. device' \in [Devices -> {"off", "on", "gone"}]
  BY <1>1, <1>2
<1>6. ASSUME entry' \in [Entries -> EntryType], devs' \in Seq(Entries)
      PROVE  TypeOK'
  BY <1>1, <1>5, <1>6 DEF EnableDevice, IndInv, TypeOK, poll, threadVars
<1>7. \A e \in Listed : entry[e].state \in {"added", "running"} /\ entry[e].fd \notin mistaken
        => /\ device'[entry[e].dev] = "on" /\ fd[entry[e].dev] = entry[e].fd
           /\ entry[e].fd # f
  <2> SUFFICES ASSUME NEW e \in Listed, entry[e].state \in {"added", "running"},
                      entry[e].fd \notin mistaken
               PROVE  /\ device'[entry[e].dev] = "on" /\ fd[entry[e].dev] = entry[e].fd
                      /\ entry[e].fd # f
    OBVIOUS
  <2>1. device[entry[e].dev] = "on" /\ fd[entry[e].dev] = entry[e].fd
    BY DEF IndInv, RunningIsEnabled
  <2>2. entry[e].dev \in Devices /\ entry[e].fd \in Fds
    BY DEF IndInv, ListInv, ListedAreWhole
  <2>3. entry[e].dev # d
    BY <1>1, <2>1
  <2> QED BY <1>1, <1>2, <2>1, <2>2, <2>3, PollAssumption DEF IndInv, DescriptorsAreOwned
<1>8. CASE \E e \in Live(f) : entry' = [entry EXCEPT ![e].dev = d] /\ UNCHANGED devs
  <2>1. PICK e \in Live(f) : entry' = [entry EXCEPT ![e].dev = d] /\ UNCHANGED devs
    BY <1>8
  <2>2. e \in Listed /\ e \in Entries /\ entry[e].fd = f /\ entry[e].state # "removed"
    BY <1>3 DEF Live
  <2>3. /\ entry' \in [Entries -> EntryType]
        /\ \A x \in Entries : /\ entry'[x].fd = entry[x].fd
                              /\ entry'[x].state = entry[x].state
                              /\ entry'[x].dev = IF x = e THEN d ELSE entry[x].dev
    BY <1>2, <2>1, <2>2 DEF EntryType
  <2>4. Listed' = Listed /\ devs' = devs
    BY <2>1 DEF Listed
  <2>5. ListedAreWhole' /\ ListedAreDistinct' /\ WalkedAreRunning'
    BY <1>1, <1>3, <2>3, <2>4
    DEF IndInv, ListInv, ListedAreWhole, ListedAreDistinct, WalkedAreRunning
  <2>6. OlderGoesFirst'
    BY <1>2, <2>3, <2>4 DEF IndInv, ListInv, OlderGoesFirst
  <2>7. f \in mistaken
    <3>1. entry[e].state \in {"added", "running"}
      BY <1>2, <2>2 DEF IndInv, ListInv, ListedAreWhole, EntryType
    <3> QED BY <1>7, <2>2, <3>1
  <2>8. PolledIsListed' /\ RunningIsPolled'
    BY <1>1, <1>3, <2>3, <2>4 DEF IndInv, PolledIsListed, RunningIsPolled
  <2>9. RunningIsEnabled'
    BY <1>1, <1>3, <1>7, <2>2, <2>3, <2>4, <2>7 DEF RunningIsEnabled
  <2> QED BY <1>2, <1>4, <1>6, <2>1, <2>3, <2>5, <2>6, <2>8, <2>9 DEF IndInv, ListInv
<1>9. CASE /\ Live(f) = {}
           /\ \E e \in Entries \ Listed :
                /\ entry' = [entry EXCEPT ![e] = [fd |-> f, dev |-> d, state |-> "added"]]
                /\ devs' = Enlist(e)
  <2>1. PICK e \in Entries \ Listed :
          /\ entry' = [entry EXCEPT ![e] = [fd |-> f, dev |-> d, state |-> "added"]]
          /\ devs' = Append(devs, e)
    BY <1>9 DEF Enlist
  <2>2. /\ devs' \in Seq(Entries) /\ Len(devs') = Len(devs) + 1
        /\ \A i \in 1 .. Len(devs) : devs'[i] = devs[i]
        /\ devs'[Len(devs) + 1] = e
        /\ DOMAIN devs = 1 .. Len(devs) /\ DOMAIN devs' = 1 .. Len(devs) + 1
        /\ Len(devs) \in Nat
    BY <1>2, <2>1
  <2>3. /\ entry' \in [Entries -> EntryType]
        /\ entry'[e].fd = f /\ entry'[e].dev = d /\ entry'[e].state = "added"
        /\ \A x \in Listed : entry'[x] = entry[x]
    BY <1>2, <1>3, <2>1 DEF EntryType
  <2>4. Listed' = Listed \cup {e}
    <3>1. Listed \cup {e} \subseteq Listed'
      BY <2>2 DEF Listed
    <3>2. ASSUME NEW i \in DOMAIN devs' PROVE devs'[i] \in Listed \cup {e}
      BY <2>2 DEF Listed
    <3> QED BY <3>1, <3>2 DEF Listed
  <2>5. ListedAreWhole'
    BY <1>2, <2>3, <2>4 DEF IndInv, ListInv, ListedAreWhole
  <2>6. \A i \in DOMAIN devs : devs[i] \in Listed /\ devs[i] # e
    BY DEF Listed
  <2>7. ListedAreDistinct'
    BY <2>2, <2>6 DEF IndInv, ListInv, ListedAreDistinct
  <2>8. OlderGoesFirst'
    <3> SUFFICES ASSUME NEW i \in DOMAIN devs', NEW j \in DOMAIN devs', i < j,
                        entry'[devs'[i]].fd = entry'[devs'[j]].fd
                 PROVE  entry'[devs'[i]].state = "removed" /\ entry'[devs'[j]].state = "added"
      BY DEF OlderGoesFirst
    <3>1. i \in DOMAIN devs /\ devs'[i] = devs[i] /\ entry'[devs[i]] = entry[devs[i]]
      BY <2>2, <2>3, <2>6
    <3>2. CASE j = Len(devs) + 1
      <4>1. entry[devs[i]].fd = f /\ devs[i] \in Listed
        BY <2>2, <2>3, <2>6, <3>1, <3>2
      <4>2. entry[devs[i]].state = "removed"
        BY <1>9, <4>1 DEF Live
      <4> QED BY <2>2, <2>3, <3>1, <3>2, <4>2
    <3>3. CASE j # Len(devs) + 1
      <4>1. j \in DOMAIN devs /\ devs'[j] = devs[j] /\ entry'[devs[j]] = entry[devs[j]]
        BY <2>2, <2>3, <2>6, <3>3
      <4> QED BY <3>1, <4>1 DEF IndInv, ListInv, OlderGoesFirst
    <3> QED BY <3>2, <3>3
  <2>9. WalkedAreRunning'
    BY <1>1 DEF WalkedAreRunning
  <2>10. PolledIsListed'
    BY <1>1, <2>3, <2>4 DEF IndInv, PolledIsListed
  <2>11. RunningIsPolled'
    BY <1>1, <2>3, <2>4 DEF IndInv, RunningIsPolled
  <2>12. RunningIsEnabled'
    BY <1>1, <1>2, <1>7, <2>3, <2>4 DEF RunningIsEnabled
  <2> QED BY <1>4, <1>6, <2>2, <2>3, <2>5, <2>7, <2>8, <2>9, <2>10, <2>11, <2>12
       DEF IndInv, ListInv
<1> QED BY <1>8, <1>9 DEF EnableDevice, RegisterDev

LEMMA DisableKeeps ==
  ASSUME IndInv, NEW d \in Devices, DisableDevice(d)
  PROVE  IndInv'
<1>1. /\ UNCHANGED <<polled, watched, fd, thread, at>> /\ UNCHANGED poll
      /\ thread # "walk" /\ lock' = "main" /\ main' \in {"fill", "leave"}
      /\ device' = [device EXCEPT ![d] = "off"]
  BY DEF DisableDevice, poll, threadVars, IndInv, LockIsHeld
<1>2. /\ device \in [Devices -> {"off", "on", "gone"}]
      /\ device' \in [Devices -> {"off", "on", "gone"}]
      /\ device'[d] = "off" /\ \A x \in Devices : x # d => device'[x] = device[x]
  BY <1>1 DEF IndInv, TypeOK
<1>3. LockIsHeld' /\ DescriptorsAreOwned' /\ WalkedAreRunning'
  BY <1>1 DEF IndInv, LockIsHeld, DescriptorsAreOwned, WalkedAreRunning
<1>4. ASSUME entry' \in [Entries -> EntryType], devs' = devs, changed' \in BOOLEAN,
             mistaken' \subseteq Fds
      PROVE  TypeOK'
  BY <1>1, <1>2, <1>4 DEF DisableDevice, IndInv, TypeOK, threadVars
<1>5. CASE Registered(fd[d])
  <2>1. UnregisterDev(fd[d])
    BY <1>5 DEF DisableDevice
  <2>2. PolledIsListed' /\ RunningIsPolled'
    BY <1>1, <2>1, PollAfterUnregister
  <2>3. RunningIsEnabled'
    BY <1>1, <1>2, <2>1, EnabledAfterUnregister
  <2>4. TypeOK'
    BY <1>4, <2>1, UnregisterEffect
  <2>5. ListInv'
    BY <1>3, <2>1, UnregisterEffect DEF ListInv
  <2> QED BY <1>3, <2>2, <2>3, <2>4, <2>5 DEF IndInv
<1>6. CASE ~Registered(fd[d])
  <2>1. UNCHANGED <<entry, devs, changed, mistaken>>
    BY <1>6 DEF DisableDevice, list
  <2>2. Listed' = Listed
    BY <2>1 DEF Listed
  <2>3. TypeOK'
    BY <1>4, <2>1 DEF IndInv, TypeOK
  <2>4. ListInv'
    BY <1>3, <2>1, <2>2
    DEF IndInv, ListInv, ListedAreWhole, ListedAreDistinct, OlderGoesFirst
  <2>5. PolledIsListed' /\ RunningIsPolled'
    BY <1>1, <2>1, <2>2 DEF IndInv, PolledIsListed, RunningIsPolled
  <2>6. RunningIsEnabled'
    <3> SUFFICES ASSUME NEW e \in Listed, entry[e].state \in {"added", "running"},
                        entry[e].fd \notin mistaken
                 PROVE  device'[entry[e].dev] = "on" /\ fd[entry[e].dev] = entry[e].fd
      BY <1>1, <2>1, <2>2 DEF RunningIsEnabled
    <3>1. device[entry[e].dev] = "on" /\ fd[entry[e].dev] = entry[e].fd
      BY DEF IndInv, RunningIsEnabled
    <3>2. entry[e].dev \in Devices
      BY DEF IndInv, ListInv, ListedAreWhole
    <3>3. entry[e].dev # d
      BY <1>6, <3>1 DEF Registered
    <3> QED BY <1>2, <3>1, <3>2, <3>3
  <2> QED BY <1>3, <2>3, <2>4, <2>5, <2>6 DEF IndInv
<1> QED BY <1>5, <1>6

LEMMA FiniKeeps ==
  ASSUME IndInv, InputThreadFini
  PROVE  IndInv'
<1>1. /\ UNCHANGED <<mistaken, fd, thread, lock, changed, device>>
      /\ thread = "done" /\ main = "join" /\ main' = "stopped"
      /\ devs' = <<>> /\ entry' = [e \in Entries |-> Free] /\ notify' = 0
  BY DEF InputThreadFini, threadVars, drivers
<1>2. Listed' = {} /\ DOMAIN devs' = {}
  BY <1>1 DEF Listed
<1>3. polled \in [Fds -> Entries \cup {NoEntry}] /\ watched \subseteq Fds
  BY DEF IndInv, TypeOK
<1>4. \A f \in Fds : polled'[f] = NoEntry
  <2> SUFFICES ASSUME NEW f \in Fds PROVE polled'[f] = NoEntry
    OBVIOUS
  <2>1. polled'[f] = IF Registered(f) THEN NoEntry ELSE polled[f]
    BY DEF InputThreadFini
  <2>2. polled[f] # NoEntry => Registered(f)
    BY DEF IndInv, PolledIsListed, Registered
  <2> QED BY <2>1, <2>2
<1>5. TypeOK'
  <2>1. Free \in EntryType
    BY DEF Free, EntryType
  <2>2. entry' \in [Entries -> EntryType] /\ devs' \in Seq(Entries) /\ notify' \in 0 .. Room
    BY <1>1, <2>1, PollAssumption
  <2>3. polled' \in [Fds -> Entries \cup {NoEntry}] /\ watched' \subseteq Fds
    BY <1>3 DEF InputThreadFini
  <2> QED BY <1>1, <2>2, <2>3 DEF InputThreadFini, IndInv, TypeOK, threadVars, drivers
<1>6. ListInv' /\ LockIsHeld' /\ DescriptorsAreOwned'
  BY <1>1, <1>2 DEF IndInv, LockIsHeld, DescriptorsAreOwned, ListInv, ListedAreWhole,
                    ListedAreDistinct, OlderGoesFirst, WalkedAreRunning
<1>7. PolledIsListed' /\ RunningIsPolled' /\ RunningIsEnabled'
  BY <1>2, <1>4 DEF PolledIsListed, RunningIsPolled, RunningIsEnabled
<1> QED BY <1>5, <1>6, <1>7 DEF IndInv

-----------------------------------------------------------------------------
(* The input thread's walk over the list. *)

LEMMA TakeChangesKeeps ==
  ASSUME IndInv, TakeChanges
  PROVE  IndInv'
<1> USE DEF TakeChanges
<1>1. UNCHANGED <<entry, devs, mistaken, polled, watched, device, fd, main>>
  BY DEF poll, drivers
<1>2. Listed' = Listed
  BY <1>1 DEF Listed
<1>3. TypeOK'
  <2>1. UNCHANGED <<running, readable, hotplug, closed, notify, queued, ready>>
    OBVIOUS
  <2>2. at' = 1 /\ lock' = "thread" /\ thread' = "walk" /\ changed' = FALSE
    OBVIOUS
  <2>3. /\ entry' \in [Entries -> EntryType] /\ devs' \in Seq(Entries)
        /\ polled' \in [Fds -> Entries \cup {NoEntry}]
        /\ watched' \subseteq Fds /\ readable' \subseteq Fds /\ mistaken' \subseteq Fds
        /\ ready' \subseteq Fds \cup {Hotplug}
        /\ device' \in [Devices -> {"off", "on", "gone"}]
        /\ fd' \in [Devices -> Fds \cup {NoFd}]
    <3> HIDE DEF TakeChanges
    <3>1. EntryType' = EntryType
      BY DEF EntryType
    <3> QED BY <1>1, <2>1, <3>1 DEF IndInv, TypeOK
  <2>4. /\ running' \in BOOLEAN /\ closed' \in BOOLEAN
        /\ queued' \in BOOLEAN /\ changed' \in BOOLEAN
    <3> HIDE DEF TakeChanges
    <3> QED BY <2>1, <2>2 DEF IndInv, TypeOK
  <2>5. hotplug' \in Nat /\ notify' \in 0 .. Room
    <3> HIDE DEF TakeChanges
    <3> QED BY <2>1 DEF IndInv, TypeOK
  <2>6. /\ lock' \in {"none", "main", "thread"} /\ at' \in Nat \ {0}
        /\ thread' \in {"none", "start", "loop", "changed", "walk", "wait", "serve", "kick", "done"}
        /\ main' \in {"idle", "fill", "leave", "asleep", "join", "stopped"}
    <3> HIDE DEF TakeChanges
    <3> QED BY <1>1, <2>2 DEF IndInv, TypeOK
  <2> HIDE DEF TakeChanges
  <2> QED BY <2>3, <2>4, <2>5, <2>6 DEF TypeOK
<1>4. WalkedAreRunning'
  BY <1>1 DEF IndInv, TypeOK, WalkedAreRunning
<1>5. ListInv'
  BY <1>1, <1>2, <1>4 DEF IndInv, ListInv, ListedAreWhole, ListedAreDistinct, OlderGoesFirst
<1>6. LockIsHeld' /\ DescriptorsAreOwned'
  BY <1>1 DEF IndInv, LockIsHeld, DescriptorsAreOwned
<1>7. PolledIsListed' /\ RunningIsPolled' /\ RunningIsEnabled'
  BY <1>1, <1>2 DEF IndInv, PolledIsListed, RunningIsPolled, RunningIsEnabled
<1> QED BY <1>3, <1>5, <1>6, <1>7 DEF IndInv

(* An entry that is added shares its descriptor with nothing behind or before
   the walk that ospoll could have. *)
LEMMA AddedIsNotPolled ==
  ASSUME IndInv, thread = "walk", at \in DOMAIN devs, entry[devs[at]].state = "added"
  PROVE  polled[entry[devs[at]].fd] = NoEntry
<1> DEFINE e == devs[at]
<1> DEFINE f == entry[e].fd
<1>1. e \in Listed /\ f \in Fds
  BY DEF Listed, IndInv, ListInv, ListedAreWhole
<1> SUFFICES ASSUME polled[f] # NoEntry PROVE FALSE
  OBVIOUS
<1>2. /\ polled[f] \in Listed /\ entry[polled[f]].fd = f
      /\ entry[polled[f]].state \in {"running", "removed"}
  BY <1>1 DEF IndInv, PolledIsListed
<1>3. PICK k \in DOMAIN devs : polled[f] = devs[k]
  BY <1>2 DEF Listed
<1>4. k # at
  BY <1>2, <1>3
<1>5. k \in Nat /\ at \in Nat
  BY DEF IndInv, TypeOK
<1>6. CASE k < at
  <2>1. entry[devs[k]].state = "running"
    BY <1>6 DEF IndInv, ListInv, WalkedAreRunning
  <2>2. entry[devs[k]].state = "removed"
    BY <1>2, <1>3, <1>6 DEF IndInv, ListInv, OlderGoesFirst
  <2> QED BY <2>1, <2>2
<1>7. CASE at < k
  BY <1>2, <1>3, <1>7 DEF IndInv, ListInv, OlderGoesFirst
<1> QED BY <1>4, <1>5, <1>6, <1>7

LEMMA TakeUpKeeps ==
  ASSUME IndInv, TakeUp
  PROVE  IndInv'
<1> DEFINE e == devs[at]
<1> DEFINE f == entry[e].fd
<1>1. /\ UNCHANGED <<devs, changed, mistaken, lock, thread, main, device, fd>>
      /\ thread = "walk" /\ at \in DOMAIN devs /\ entry[e].state # "removed" /\ at' = at + 1
  BY DEF TakeUp, drivers
<1>2. /\ Listed' = Listed /\ Listed \subseteq Entries
      /\ devs \in Seq(Entries) /\ entry \in [Entries -> EntryType]
      /\ polled \in [Fds -> Entries \cup {NoEntry}] /\ watched \subseteq Fds /\ at \in Nat \ {0}
  BY <1>1 DEF Listed, IndInv, TypeOK
<1>3. e \in Listed /\ e \in Entries /\ f \in Fds
  BY <1>1, <1>2 DEF Listed, IndInv, ListInv, ListedAreWhole
<1>4. DescriptorsAreOwned' /\ ListedAreDistinct' /\ LockIsHeld'
  BY <1>1 DEF IndInv, DescriptorsAreOwned, ListInv, ListedAreDistinct, LockIsHeld
<1>5. CASE entry[e].state = "added"
  <2>1. entry' = [entry EXCEPT ![e].state = "running"] /\ ospoll_add(f, e)
    BY <1>5 DEF TakeUp
  <2>2. /\ entry' \in [Entries -> EntryType]
        /\ \A x \in Entries : /\ entry'[x].fd = entry[x].fd
                              /\ entry'[x].dev = entry[x].dev
                              /\ entry'[x].state = IF x = e THEN "running" ELSE entry[x].state
    BY <1>2, <1>3, <2>1 DEF EntryType
  <2>3. polled[f] = NoEntry
    BY <1>1, <1>5, AddedIsNotPolled
  <2>4. f \notin mistaken => f \in {fd[d] : d \in Devices}
    BY <1>3, <1>5 DEF IndInv, RunningIsEnabled, ListInv, ListedAreWhole
  <2>5. \/ polled' = [polled EXCEPT ![f] = e] /\ watched' = watched \cup {f}
        \/ f \in mistaken /\ UNCHANGED <<polled, watched>>
    BY <2>1, <2>3, <2>4 DEF ospoll_add, poll
  <2>6. polled' \in [Fds -> Entries \cup {NoEntry}] /\ watched' \subseteq Fds
    BY <1>2, <1>3, <2>5
  <2>7. TypeOK'
    BY <1>1, <1>2, <2>2, <2>6 DEF TakeUp, IndInv, TypeOK, drivers
  <2>8. ListedAreWhole'
    BY <1>2, <1>3, <2>2 DEF IndInv, ListInv, ListedAreWhole
  <2>9. \A i \in DOMAIN devs : i < at => entry[devs[i]].state = "running"
    BY <1>1 DEF IndInv, ListInv, WalkedAreRunning
  <2>10. WalkedAreRunning'
    <3> SUFFICES ASSUME NEW i \in DOMAIN devs, i < at + 1
                 PROVE  entry'[devs[i]].state = "running"
      BY <1>1 DEF WalkedAreRunning
    <3>1. i < at \/ i = at
      BY <1>2
    <3>2. devs[i] \in Entries
      BY <1>2
    <3> QED BY <2>2, <2>9, <3>1, <3>2
  <2>11. \A i \in DOMAIN devs : i # at => entry[devs[i]].fd # f \/ at < i
    <3> SUFFICES ASSUME NEW i \in DOMAIN devs, i # at, entry[devs[i]].fd = f, ~(at < i)
                 PROVE  FALSE
      OBVIOUS
    <3>1. i < at
      BY <1>2
    <3>2. entry[devs[i]].state = "removed"
      BY <1>1, <3>1 DEF IndInv, ListInv, OlderGoesFirst
    <3> QED BY <2>9, <3>1, <3>2
  <2>12. \A i \in DOMAIN devs : i # at => entry[devs[i]].fd # f
    <3> SUFFICES ASSUME NEW i \in DOMAIN devs, i # at, entry[devs[i]].fd = f
                 PROVE  FALSE
      OBVIOUS
    <3>1. at < i
      BY <2>11
    <3> QED BY <1>1, <1>5, <3>1 DEF IndInv, ListInv, OlderGoesFirst
  <2>13. OlderGoesFirst'
    <3> SUFFICES ASSUME NEW i \in DOMAIN devs, NEW j \in DOMAIN devs, i < j,
                        entry'[devs[i]].fd = entry'[devs[j]].fd
                 PROVE  entry'[devs[i]].state = "removed" /\ entry'[devs[j]].state = "added"
      BY <1>1 DEF OlderGoesFirst
    <3>1. devs[i] \in Entries /\ devs[j] \in Entries /\ i \in Nat /\ j \in Nat
      BY <1>2
    <3>2. entry[devs[i]].fd = entry[devs[j]].fd
      BY <2>2, <3>1
    <3>3. i # at /\ j # at
      BY <2>12, <3>1, <3>2
    <3>4. devs[i] # e /\ devs[j] # e
      BY <1>1, <3>3 DEF IndInv, ListInv, ListedAreDistinct
    <3>5. entry[devs[i]].state = "removed" /\ entry[devs[j]].state = "added"
      BY <3>2 DEF IndInv, ListInv, OlderGoesFirst
    <3> QED BY <2>2, <3>1, <3>4, <3>5
  <2>14. PolledIsListed'
    BY <1>2, <1>3, <2>2, <2>5 DEF IndInv, PolledIsListed
  <2>15. \A x \in Listed : x # e => entry[x].fd # f
    BY <2>12 DEF Listed
  <2>16. RunningIsPolled'
    BY <1>1, <1>2, <1>3, <2>2, <2>5, <2>15 DEF IndInv, RunningIsPolled, ListInv, ListedAreWhole
  <2>17. RunningIsEnabled'
    BY <1>1, <1>2, <1>3, <1>5, <2>2 DEF IndInv, RunningIsEnabled
  <2> QED BY <1>4, <2>7, <2>8, <2>10, <2>13, <2>14, <2>16, <2>17 DEF IndInv, ListInv
<1>6. CASE entry[e].state # "added"
  <2>1. UNCHANGED <<entry, polled, watched>>
    BY <1>6 DEF TakeUp, poll
  <2>2. entry[e].state = "running"
    BY <1>1, <1>2, <1>3, <1>6 DEF IndInv, ListInv, ListedAreWhole, EntryType
  <2>3. WalkedAreRunning'
    <3> SUFFICES ASSUME NEW i \in DOMAIN devs, i < at + 1
                 PROVE  entry[devs[i]].state = "running"
      BY <1>1, <2>1 DEF WalkedAreRunning
    <3>1. i < at \/ i = at
      BY <1>2
    <3> QED BY <1>1, <2>2, <3>1 DEF IndInv, ListInv, WalkedAreRunning
  <2>4. ListedAreWhole' /\ OlderGoesFirst'
    BY <1>1, <1>2, <2>1 DEF IndInv, ListInv, ListedAreWhole, OlderGoesFirst
  <2>5. TypeOK'
    BY <1>1, <1>2, <2>1 DEF TakeUp, IndInv, TypeOK, drivers
  <2>6. PolledIsListed' /\ RunningIsPolled' /\ RunningIsEnabled'
    BY <1>1, <1>2, <2>1 DEF IndInv, PolledIsListed, RunningIsPolled, RunningIsEnabled
  <2> QED BY <1>4, <2>3, <2>4, <2>5, <2>6 DEF IndInv, ListInv
<1> QED BY <1>5, <1>6

LEMMA DiscardKeeps ==
  ASSUME IndInv, Discard
  PROVE  IndInv'
<1> DEFINE e == devs[at]
<1> DEFINE f == entry[e].fd
<1> DEFINE old(k) == IF k < at THEN k ELSE k + 1
<1>1. /\ UNCHANGED <<changed, mistaken, lock, thread, main, device, fd, at>>
      /\ thread = "walk" /\ at \in DOMAIN devs /\ entry[e].state = "removed"
      /\ entry' = [entry EXCEPT ![e] = Free] /\ devs' = RemoveAt(devs, at)
      /\ polled' = [polled EXCEPT ![f] = NoEntry] /\ watched' = watched \ {f}
  BY DEF Discard, drivers, ospoll_remove
<1>2. /\ devs \in Seq(Entries) /\ entry \in [Entries -> EntryType]
      /\ polled \in [Fds -> Entries \cup {NoEntry}] /\ watched \subseteq Fds /\ at \in Nat \ {0}
      /\ Len(devs) \in Nat /\ DOMAIN devs = 1 .. Len(devs)
  BY DEF IndInv, TypeOK
<1>3. e \in Listed /\ e \in Entries /\ f \in Fds
  BY <1>1, <1>2 DEF Listed, IndInv, ListInv, ListedAreWhole
<1>4. /\ devs' \in Seq(Entries) /\ Len(devs') = Len(devs) - 1
      /\ \A k \in 1 .. Len(devs) - 1 : devs'[k] = devs[old(k)]
  BY <1>1, <1>2, RemoveAtEffect
<1>5. DOMAIN devs' = 1 .. Len(devs) - 1
  BY <1>4
<1>6. /\ \A k \in DOMAIN devs' : /\ old(k) \in DOMAIN devs /\ old(k) # at
                                /\ devs'[k] = devs[old(k)] /\ devs'[k] # e
      /\ \A j, k \in DOMAIN devs' : j < k => old(j) < old(k)
      /\ \A k \in DOMAIN devs' : k < at => old(k) = k
  <2>1. ASSUME NEW k \in DOMAIN devs'
        PROVE  old(k) \in DOMAIN devs /\ old(k) # at /\ devs'[k] = devs[old(k)]
    BY <1>1, <1>2, <1>4, <1>5
  <2>2. ASSUME NEW k \in DOMAIN devs' PROVE devs'[k] # e
    BY <1>1, <2>1 DEF IndInv, ListInv, ListedAreDistinct
  <2>3. \A j, k \in DOMAIN devs' : j < k => old(j) < old(k)
    BY <1>2, <1>5
  <2> QED BY <2>1, <2>2, <2>3
<1>7. /\ entry' \in [Entries -> EntryType]
      /\ \A x \in Entries : x # e => entry'[x] = entry[x]
  BY <1>1, <1>2, <1>3 DEF Free, EntryType
<1> HIDE DEF old
<1>8. Listed' \subseteq Listed \ {e} /\ Listed \subseteq Entries /\ Listed \ {e} \subseteq Listed'
  <2>1. Listed' \subseteq Listed \ {e}
    BY <1>6 DEF Listed
  <2>2. Listed \subseteq Entries
    BY <1>2 DEF Listed
  <2>3. ASSUME NEW i \in DOMAIN devs, i # at PROVE \E k \in DOMAIN devs' : i = old(k)
    <3>1. CASE i < at
      <4>1. i \in DOMAIN devs' /\ old(i) = i
        BY <1>1, <1>2, <1>5, <3>1 DEF old
      <4> QED BY <4>1
    <3>2. CASE ~(i < at)
      <4>1. i - 1 \in DOMAIN devs' /\ old(i - 1) = i
        BY <1>1, <1>2, <1>5, <2>3, <3>2 DEF old
      <4> QED BY <4>1
    <3> QED BY <3>1, <3>2
  <2>4. Listed \ {e} \subseteq Listed'
    BY <1>6, <2>3 DEF Listed
  <2> QED BY <2>1, <2>2, <2>4
<1>9. \A x \in Listed' : x \in Listed /\ x # e /\ x \in Entries /\ entry'[x] = entry[x]
  BY <1>7, <1>8
<1>10. polled' \in [Fds -> Entries \cup {NoEntry}] /\ watched' \subseteq Fds
  BY <1>1, <1>2
<1>11. TypeOK'
  BY <1>1, <1>4, <1>7, <1>10 DEF Discard, IndInv, TypeOK, drivers
<1>12. DescriptorsAreOwned' /\ LockIsHeld'
  BY <1>1 DEF IndInv, DescriptorsAreOwned, LockIsHeld
<1>13. ListedAreWhole'
  BY <1>9 DEF IndInv, ListInv, ListedAreWhole
<1>14. ListedAreDistinct'
  <2> SUFFICES ASSUME NEW j \in DOMAIN devs', NEW k \in DOMAIN devs', devs'[j] = devs'[k]
               PROVE  j = k
    BY DEF ListedAreDistinct
  <2>1. old(j) = old(k)
    BY <1>6 DEF IndInv, ListInv, ListedAreDistinct
  <2>2. j \in Int /\ k \in Int /\ at \in Int
    BY <1>2, <1>5
  <2> QED BY <2>1, <2>2 DEF old
<1>15. OlderGoesFirst'
  <2> SUFFICES ASSUME NEW j \in DOMAIN devs', NEW k \in DOMAIN devs', j < k,
                      entry'[devs'[j]].fd = entry'[devs'[k]].fd
               PROVE  entry'[devs'[j]].state = "removed" /\ entry'[devs'[k]].state = "added"
    BY DEF OlderGoesFirst
  <2>1. /\ old(j) \in DOMAIN devs /\ old(k) \in DOMAIN devs /\ old(j) < old(k)
        /\ devs'[j] = devs[old(j)] /\ devs'[k] = devs[old(k)]
    BY <1>6
  <2>2. entry'[devs'[j]] = entry[devs'[j]] /\ entry'[devs'[k]] = entry[devs'[k]]
    BY <1>9 DEF Listed
  <2> QED BY <2>1, <2>2 DEF IndInv, ListInv, OlderGoesFirst
<1>16. WalkedAreRunning'
  <2> SUFFICES ASSUME NEW k \in DOMAIN devs', k < at
               PROVE  entry'[devs'[k]].state = "running"
    BY <1>1 DEF WalkedAreRunning
  <2>1. k \in DOMAIN devs /\ devs'[k] = devs[k]
    BY <1>6
  <2>2. entry'[devs'[k]] = entry[devs'[k]]
    BY <1>9 DEF Listed
  <2> QED BY <1>1, <2>1, <2>2 DEF IndInv, ListInv, WalkedAreRunning
<1>17. \A x \in Listed : x # e /\ entry[x].fd = f => entry[x].state = "added"
  <2> SUFFICES ASSUME NEW k \in DOMAIN devs, k # at, entry[devs[k]].fd = f
               PROVE  entry[devs[k]].state = "added"
    BY DEF Listed
  <2>1. k < at \/ at < k
    BY <1>2
  <2>2. k < at => entry[devs[k]].state = "running" /\ entry[e].state = "added"
    BY <1>1 DEF IndInv, ListInv, WalkedAreRunning, OlderGoesFirst
  <2>3. at < k => entry[devs[k]].state = "added"
    BY <1>1 DEF IndInv, ListInv, OlderGoesFirst
  <2> QED BY <1>1, <2>1, <2>2, <2>3
<1>18. PolledIsListed'
  <2> SUFFICES ASSUME NEW g \in Fds, polled'[g] # NoEntry
               PROVE  /\ polled'[g] \in Listed' /\ entry'[polled'[g]].fd = g
                      /\ entry'[polled'[g]].state \in {"running", "removed"}
    BY DEF PolledIsListed
  <2>1. g # f /\ polled'[g] = polled[g]
    BY <1>1, <1>2
  <2>2. /\ polled[g] \in Listed /\ entry[polled[g]].fd = g
        /\ entry[polled[g]].state \in {"running", "removed"}
    BY <2>1 DEF IndInv, PolledIsListed
  <2> QED BY <1>8, <1>9, <2>1, <2>2
<1>19. RunningIsPolled'
  <2> SUFFICES ASSUME NEW x \in Listed', entry[x].state = "running", entry[x].fd \notin mistaken
               PROVE  polled'[entry[x].fd] = x /\ entry[x].fd \in watched'
    BY <1>1, <1>9 DEF RunningIsPolled
  <2>1. x \in Listed /\ x # e /\ entry[x].fd # f /\ entry[x].fd \in Fds
    BY <1>9, <1>17 DEF IndInv, ListInv, ListedAreWhole
  <2>2. polled[entry[x].fd] = x /\ entry[x].fd \in watched
    BY <2>1 DEF IndInv, RunningIsPolled
  <2> QED BY <1>1, <1>2, <2>1, <2>2
<1>20. RunningIsEnabled'
  BY <1>1, <1>9 DEF IndInv, RunningIsEnabled
<1> QED BY <1>11, <1>12, <1>13, <1>14, <1>15, <1>16, <1>18, <1>19, <1>20 DEF IndInv, ListInv

-----------------------------------------------------------------------------

LEMMA ReadUnpluggedKeeps ==
  ASSUME IndInv, NEW f \in Fds, ReadUnplugged(f)
  PROVE  IndInv'
<1> DEFINE d == entry[polled[f]].dev
<1>1. /\ UNCHANGED <<polled, watched, fd, thread, at, lock, main>> /\ UNCHANGED poll
      /\ thread # "walk"
      /\ device' = [device EXCEPT ![d] = IF @ = "on" THEN "gone" ELSE @]
  BY DEF ReadUnplugged, poll
<1>2. d \in Devices
  BY DEF ReadUnplugged, Runs, IndInv, PolledIsListed, ListInv, ListedAreWhole
<1>3. /\ device' \in [Devices -> {"off", "on", "gone"}]
      /\ \A x \in Devices : x # d => device'[x] = device[x]
      /\ device[d] # "on" => device' = device
  BY <1>1, <1>2 DEF IndInv, TypeOK
<1>4. LockIsHeld' /\ DescriptorsAreOwned' /\ WalkedAreRunning'
  BY <1>1 DEF IndInv, LockIsHeld, DescriptorsAreOwned, WalkedAreRunning
<1>5. ASSUME entry' \in [Entries -> EntryType], devs' = devs, changed' \in BOOLEAN,
             mistaken' \subseteq Fds, hotplug' \in Nat
      PROVE  TypeOK'
  BY <1>1, <1>3, <1>5 DEF ReadUnplugged, IndInv, TypeOK
<1>6. CASE Registered(fd[d])
  <2>1. UnregisterDev(fd[d]) /\ hotplug' = hotplug + 1
    BY <1>6 DEF ReadUnplugged
  <2>2. PolledIsListed' /\ RunningIsPolled'
    BY <1>1, <2>1, PollAfterUnregister
  <2>3. RunningIsEnabled'
    BY <1>1, <1>2, <1>3, <2>1, EnabledAfterUnregister
  <2>4. TypeOK'
    <3>1. hotplug' \in Nat
      BY <2>1 DEF IndInv, TypeOK
    <3> QED BY <1>5, <2>1, <3>1, UnregisterEffect
  <2>5. ListInv'
    BY <1>4, <2>1, UnregisterEffect DEF ListInv
  <2> QED BY <1>4, <2>2, <2>3, <2>4, <2>5 DEF IndInv
<1>7. CASE ~Registered(fd[d])
  <2>1. UNCHANGED <<entry, devs, changed, mistaken, hotplug>>
    BY <1>7 DEF ReadUnplugged, list
  <2>2. Listed' = Listed
    BY <2>1 DEF Listed
  <2>3. TypeOK'
    BY <1>5, <2>1 DEF IndInv, TypeOK
  <2>4. ListInv'
    BY <1>4, <2>1, <2>2
    DEF IndInv, ListInv, ListedAreWhole, ListedAreDistinct, OlderGoesFirst
  <2>5. PolledIsListed' /\ RunningIsPolled'
    BY <1>1, <2>1, <2>2 DEF IndInv, PolledIsListed, RunningIsPolled
  <2>6. RunningIsEnabled'
    <3> SUFFICES ASSUME NEW e \in Listed, entry[e].state \in {"added", "running"},
                        entry[e].fd \notin mistaken
                 PROVE  device'[entry[e].dev] = "on" /\ fd[entry[e].dev] = entry[e].fd
      BY <1>1, <2>1, <2>2 DEF RunningIsEnabled
    <3>1. device[entry[e].dev] = "on" /\ fd[entry[e].dev] = entry[e].fd
      BY DEF IndInv, RunningIsEnabled
    <3>2. entry[e].dev \in Devices
      BY DEF IndInv, ListInv, ListedAreWhole
    <3>3. entry[e].dev # d
      BY <1>7, <3>1 DEF Registered
    <3> QED BY <1>3, <3>1, <3>2, <3>3
  <2> QED BY <1>4, <2>3, <2>4, <2>5, <2>6 DEF IndInv
<1> QED BY <1>6, <1>7

LEMMA DrainedType == ASSUME NEW n \in Nat PROVE Drained(n) \in Nat /\ Drained(n) <= n
BY PollAssumption DEF Drained

(* Every other action of the main thread and of the hardware. *)
LEMMA MainFrameKeeps ==
  ASSUME IndInv,
         \/ FillHotplug \/ LeaveLock \/ ProcessInput \/ Sleep \/ Notified \/ WokenUp
         \/ InputThreadInit \/ Shutdown \/ \E d \in Devices : Arrive(d)
  PROVE  IndInv'
<1>1. CASE FillHotplug
  <2>1. TypeOK'
    BY <1>1 DEF FillHotplug, IndInv, TypeOK, list, poll, threadVars, drivers
  <2> QED BY <1>1, <2>1, FrameKeeps DEF FillHotplug, IndInv, LockIsHeld, threadVars
<1>2. CASE LeaveLock
  <2>1. TypeOK'
    BY <1>2 DEF LeaveLock, IndInv, TypeOK, list, poll, threadVars, drivers
  <2>2. LockIsHeld'
    BY <1>2 DEF LeaveLock, IndInv, LockIsHeld, threadVars
  <2> QED BY <1>2, <2>1, <2>2, FrameKeeps DEF LeaveLock, threadVars
<1>3. CASE ProcessInput
  <2>1. TypeOK'
    BY <1>3 DEF ProcessInput, IndInv, TypeOK, list, poll, threadVars, drivers
  <2> QED BY <1>3, <2>1, FrameKeeps DEF ProcessInput, IndInv, LockIsHeld, threadVars
<1>4. CASE Sleep
  <2>1. TypeOK'
    BY <1>4 DEF Sleep, IndInv, TypeOK, list, poll, threadVars, drivers
  <2> QED BY <1>4, <2>1, FrameKeeps DEF Sleep, IndInv, LockIsHeld, threadVars
<1>5. CASE Notified
  <2>1. notify' \in 0 .. Room
    <3>1. notify \in Nat /\ notify <= Room
      BY PollAssumption DEF IndInv, TypeOK
    <3>2. Drained(notify) \in Nat /\ Drained(notify) <= notify
      BY <3>1, DrainedType
    <3> QED BY <1>5, <3>1, <3>2, PollAssumption DEF Notified
  <2>2. TypeOK'
    BY <1>5, <2>1 DEF Notified, IndInv, TypeOK, list, poll, threadVars, drivers
  <2> QED BY <1>5, <2>2, FrameKeeps DEF Notified, IndInv, LockIsHeld, threadVars
<1>6. CASE WokenUp
  <2>1. TypeOK'
    BY <1>6 DEF WokenUp, IndInv, TypeOK, list, poll, threadVars, drivers
  <2> QED BY <1>6, <2>1, FrameKeeps DEF WokenUp, IndInv, LockIsHeld, threadVars
<1>7. CASE InputThreadInit
  <2>1. TypeOK'
    BY <1>7 DEF InputThreadInit, IndInv, TypeOK, list, poll, drivers
  <2> QED BY <1>7, <2>1, FrameKeeps DEF InputThreadInit, IndInv, LockIsHeld
<1>8. CASE Shutdown
  <2>1. TypeOK'
    BY <1>8 DEF Shutdown, IndInv, TypeOK, list, poll, threadVars, drivers
  <2> QED BY <1>8, <2>1, FrameKeeps DEF Shutdown, IndInv, LockIsHeld, threadVars
<1>9. ASSUME NEW d \in Devices, Arrive(d) PROVE IndInv'
  <2>1. fd[d] \in Fds
    BY <1>9 DEF Arrive, IndInv, TypeOK
  <2>2. TypeOK'
    BY <1>9, <2>1 DEF Arrive, IndInv, TypeOK, list, poll, threadVars, drivers
  <2> QED BY <1>9, <2>2, FrameKeeps DEF Arrive, IndInv, LockIsHeld, threadVars
<1> QED BY <1>1, <1>2, <1>3, <1>4, <1>5, <1>6, <1>7, <1>8, <1>9

(* Every other action of the input thread. *)
LEMMA ThreadFrameKeeps ==
  ASSUME IndInv,
         \/ Start \/ Loop \/ EndOfWalk \/ Wait \/ PipeNotify \/ Served \/ Kick
         \/ \E f \in Fds : ReadInput(f) \/ ReadNothing(f)
  PROVE  IndInv'
<1>1. CASE Start
  <2>1. TypeOK'
    BY <1>1 DEF Start, IndInv, TypeOK, list, poll, drivers
  <2> QED BY <1>1, <2>1, FrameKeeps DEF Start, IndInv, LockIsHeld
<1>2. CASE Loop
  <2>1. thread' \in {"done", "changed", "wait"} /\ thread = "loop"
    BY <1>2 DEF Loop
  <2>2. TypeOK'
    BY <1>2, <2>1 DEF Loop, IndInv, TypeOK, list, poll, drivers
  <2>3. LockIsHeld'
    BY <1>2, <2>1 DEF Loop, IndInv, LockIsHeld
  <2> QED BY <1>2, <2>1, <2>2, <2>3, FrameKeeps DEF Loop
<1>3. CASE EndOfWalk
  <2>1. TypeOK'
    BY <1>3 DEF EndOfWalk, IndInv, TypeOK, list, poll, drivers
  <2>2. LockIsHeld'
    BY <1>3 DEF EndOfWalk, IndInv, LockIsHeld
  <2> QED BY <1>3, <2>1, <2>2, FrameKeeps DEF EndOfWalk
<1>4. CASE Wait
  <2>1. ready' \subseteq Fds \cup {Hotplug}
    BY <1>4 DEF Wait, Reported, IndInv, TypeOK
  <2>2. TypeOK'
    BY <1>4, <2>1 DEF Wait, IndInv, TypeOK, list, poll, drivers
  <2> QED BY <1>4, <2>2, FrameKeeps DEF Wait, IndInv, LockIsHeld
<1>5. CASE PipeNotify
  <2>1. hotplug' \in Nat
    BY <1>5, DrainedType DEF PipeNotify, IndInv, TypeOK
  <2>2. running' \in BOOLEAN
    BY <1>5 DEF PipeNotify
  <2>3. TypeOK'
    BY <1>5, <2>1, <2>2 DEF PipeNotify, IndInv, TypeOK, list, poll, drivers
  <2> QED BY <1>5, <2>3, FrameKeeps DEF PipeNotify, IndInv, LockIsHeld
<1>6. CASE Served
  <2>1. TypeOK'
    BY <1>6 DEF Served, IndInv, TypeOK, list, poll, drivers
  <2> QED BY <1>6, <2>1, FrameKeeps DEF Served, IndInv, LockIsHeld
<1>7. CASE Kick
  <2>1. notify' \in 0 .. Room
    BY <1>7, PollAssumption DEF Kick, IndInv, TypeOK
  <2>2. TypeOK'
    BY <1>7, <2>1 DEF Kick, IndInv, TypeOK, list, poll, drivers
  <2> QED BY <1>7, <2>2, FrameKeeps DEF Kick, IndInv, LockIsHeld
<1>8. ASSUME NEW f \in Fds, ReadInput(f) PROVE IndInv'
  <2>1. TypeOK'
    BY <1>8 DEF ReadInput, IndInv, TypeOK, list, poll, drivers
  <2> QED BY <1>8, <2>1, FrameKeeps DEF ReadInput, IndInv, LockIsHeld
<1>9. ASSUME NEW f \in Fds, ReadNothing(f) PROVE IndInv'
  <2>1. TypeOK'
    BY <1>9 DEF ReadNothing, IndInv, TypeOK, list, poll, drivers
  <2> QED BY <1>9, <2>1, FrameKeeps DEF ReadNothing, IndInv, LockIsHeld
<1> QED BY <1>1, <1>2, <1>3, <1>4, <1>5, <1>6, <1>7, <1>8, <1>9

LEMMA StutterKeeps == IndInv /\ UNCHANGED vars => IndInv'
<1> SUFFICES ASSUME IndInv, UNCHANGED vars PROVE IndInv'
  OBVIOUS
<1>1. TypeOK'
  BY DEF IndInv, TypeOK, vars
<1> QED BY <1>1, FrameKeeps DEF IndInv, LockIsHeld, vars, list, poll, drivers

LEMMA NextKeeps == IndInv /\ [Next]_vars => IndInv'
<1> SUFFICES ASSUME IndInv, [Next]_vars PROVE IndInv'
  OBVIOUS
<1>1. CASE MainNext
  BY <1>1, EnableKeeps, DisableKeeps, CloseKeeps, OpenKeeps, FiniKeeps, MainFrameKeeps DEF MainNext
<1>2. CASE ThreadNext
  BY <1>2, TakeChangesKeeps, TakeUpKeeps, DiscardKeeps, ReadUnpluggedKeeps, ThreadFrameKeeps
  DEF ThreadNext, InputReady
<1>3. CASE \E d \in Devices : Arrive(d)
  BY <1>3, MainFrameKeeps
<1>4. CASE UNCHANGED vars
  BY <1>4, StutterKeeps
<1> QED BY <1>1, <1>2, <1>3, <1>4 DEF Next

-----------------------------------------------------------------------------

(* The list, ospoll and the devices stay consistent through every hotplug,
   walk, read and shutdown. *)
THEOREM IndInvHolds == Spec => []IndInv
<1>1. Init => IndInv
  BY InitKeeps
<1>2. IndInv /\ [Next]_vars => IndInv'
  BY NextKeeps
<1> QED BY <1>1, <1>2, PTL DEF Spec

(* Every variable of inputThreadInfo keeps its type, and no read of a pipe
   takes more than it holds. *)
THEOREM TypeCorrect == Spec => []TypeOK
<1>1. IndInv => TypeOK
  BY DEF IndInv
<1> QED BY <1>1, IndInvHolds, PTL

(* No callback of ospoll_wait gets a freed InputThreadDevice, although entries
   are freed by descriptor and descriptors are reused. *)
THEOREM PolledStaysListed == Spec => []PolledIsListed
<1>1. IndInv => PolledIsListed
  BY DEF IndInv
<1> QED BY <1>1, IndInvHolds, PTL

(* Appending in InputThreadRegisterDev is enough for an entry that is running
   to be the one ospoll polls. *)
THEOREM RunningStaysPolled == Spec => []RunningIsPolled
<1>1. IndInv => RunningIsPolled
  BY DEF IndInv
<1> QED BY <1>1, IndInvHolds, PTL

(* InputReady reads enabled devices only, on their own descriptors. *)
THEOREM OnlyEnabledRun == Spec => []RunningIsEnabled
<1>1. IndInv => RunningIsEnabled
  BY DEF IndInv
<1> QED BY <1>1, IndInvHolds, PTL
=============================================================================
