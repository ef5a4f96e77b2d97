--------------------------- MODULE Dispatch_proofs ---------------------------
(***************************************************************************)
(* The scheduler's safety invariants hold for every number of clients,     *)
(* every set of requests they send and every set of faults.                *)
(*                                                                         *)
(* IndInv of DispatchProps is inductive.  The lemmas on UngrabServer and   *)
(* CloseDownClient say what those two, which most actions call, do to each *)
(* of its parts; the lemmas *Step go through the actions.  InputInv rests  *)
(* on it: no client is left with input and without an event to come.       *)
(***************************************************************************)
EXTENDS DispatchProps, FiniteSetTheorems, WellFoundedInduction, TLAPS

-----------------------------------------------------------------------------
(* Least elements: what the CHOOSE expressions of Dispatch choose.         *)

\* A set of natural numbers that is not empty has a least element.
LEMMA LeastExists ==
    ASSUME NEW S, S \subseteq Nat, S # {}
    PROVE  \E x \in S : \A y \in S : x <= y
<1> DEFINE R == {ss \in Nat \X Nat : ss[1] < ss[2]}
<1>1. IsWellFoundedOn(R, Nat)
  <2>1. R = OpToRel(<, Nat)
    BY DEF OpToRel
  <2> QED BY <2>1, NatLessThanWellFounded
<1>2. PICK x \in S : \A y \in S : ~(<<y, x>> \in R)
  <2> HIDE DEF R
  <2> QED BY <1>1, WFMin
<1>3. \A y \in S : x <= y
  <2>1. SUFFICES ASSUME NEW y \in S, y < x
                 PROVE  FALSE
    OBVIOUS
  <2>2. <<y, x>> \in Nat \X Nat /\ <<y, x>>[1] < <<y, x>>[2]
    BY <2>1
  <2>3. <<y, x>> \in R
    BY <2>2
  <2> QED BY <1>2, <2>3
<1> QED BY <1>3

\* SmallestOf returns the smallest member of a set of client IDs.
LEMMA SmallestOfIsLeast ==
    ASSUME NEW S, S \subseteq Nat, S # {}
    PROVE  SmallestOf(S) \in S /\ \A y \in S : SmallestOf(S) <= y
  BY LeastExists DEF SmallestOf

\* UngrabServer wakes a client that is waiting for the grab.
LEMMA NextWaiterWaits ==
    ASSUME waiters \subseteq Ids, waiters # {}
    PROVE  NextWaiter \in waiters
<1> USE LimitAssumption, MaskBitsAssumption
<1> DEFINE bound == {k \in Nat : \A v \in waiters : v \div MaskBits <= k}
           last == {w \in waiters : \A v \in waiters : v \div MaskBits <= w \div MaskBits}
<1>1. \A v \in waiters : v \div MaskBits \in Nat /\ v \div MaskBits <= LimitClients
  BY DEF Ids
<1>2. LimitClients \in bound
  BY <1>1
<1>3. PICK k \in bound : \A j \in bound : k <= j
  BY <1>2, LeastExists
<1>4. PICK w \in waiters : w \div MaskBits = k
  <2>1. SUFFICES ASSUME \A v \in waiters : v \div MaskBits # k
                 PROVE  FALSE
    OBVIOUS
  <2>2. \A v \in waiters : v \div MaskBits < k
    BY <1>1, <1>3, <2>1
  <2>3. k # 0
    BY <1>1, <2>2
  <2>4. k - 1 \in bound
    BY <1>1, <1>3, <2>2, <2>3
  <2> QED BY <1>3, <2>4
<1>5. w \in last
  BY <1>3, <1>4
<1>6. last \subseteq waiters /\ waiters \subseteq Nat
  <2>1. last \subseteq waiters
    OBVIOUS
  <2>2. waiters \subseteq Nat
    <3> HIDE DEF bound, last
    <3> QED BY DEF Ids
  <2> QED BY <2>1, <2>2
<1> HIDE DEF last
<1>7. SmallestOf(last) \in last
  BY <1>5, <1>6, SmallestOfIsLeast
<1>8. NextWaiter = SmallestOf(last)
  BY DEF NextWaiter, last
<1> QED BY <1>6, <1>7, <1>8

\* CloseDownClient's loop ends at the first slot above every client left
\* below the old end of the table.
LEMMA TableEndIsLeast ==
    ASSUME NEW left, left \subseteq Ids, currentMaxClients \in 1 .. LimitClients
    PROVE  /\ TableEnd(left) \in 1 .. currentMaxClients
           /\ TableEnd(left) = 1 \/ TableEnd(left) - 1 \in left
           /\ \A c \in left : c < currentMaxClients => c < TableEnd(left)
<1> USE LimitAssumption
<1> DEFINE above == {n \in 1 .. currentMaxClients :
                        \A c \in left : c < currentMaxClients => c < n}
<1>1. currentMaxClients \in above /\ above \subseteq Nat
  BY DEF Ids
<1>2. PICK n \in above : \A m \in above : n <= m
  BY <1>1, LeastExists
<1>3. n = 1 \/ n - 1 \in left
  <2>1. SUFFICES ASSUME n # 1, n - 1 \notin left
                 PROVE  FALSE
    OBVIOUS
  <2>2. n - 1 \in above
    BY <2>1, <1>2 DEF Ids
  <2> QED BY <1>2, <2>2
<1> QED BY <1>2, <1>3 DEF TableEnd

-----------------------------------------------------------------------------
(* Clients leave: UngrabServer and CloseDownClient.                        *)

\* what a step does to the lists when the clients in D end, those in W are
\* woken from grabWaiters, and h (nobody, or whoever had it) has the grab
Departs(D, W, h) ==
    /\ W \subseteq waiters
    /\ h \in {0, grabClient} /\ h \notin D
    /\ Live' = Live \ D
    /\ \A c \in Ids \ D : state'[c] = state[c]
    /\ open' = open \ D /\ kernel' = kernel \ D /\ buffered' = buffered \ D
    /\ impervious' = impervious \ D
    /\ asleep' = asleep \ D /\ regrab' = regrab \ D
    /\ grabClient' = h /\ GrabInProgress' = h
    /\ waiters' = waiters \ (W \cup D)
    /\ ignoreCount' = [c \in Ids |-> IF c \in D THEN 0
                                     ELSE IF c \in W THEN ignoreCount[c] - 1
                                     ELSE ignoreCount[c]]
    /\ ready \ D \subseteq ready'
    /\ ready' \subseteq (ready \cup saved \cup {c \in W : ignoreCount[c] = 1}) \ D
    /\ saved' \subseteq saved \ D
    /\ h = 0 => saved' = {}
    /\ h # 0 => ready' \subseteq ready
    /\ edge' \subseteq (edge \cup open) \ D
    /\ \A c \in edge' : ignoreCount'[c] = 0 /\ (h \in {0, c} \/ c \in impervious)

\* UngrabServer wakes at most one client, which was waiting.
LEMMA UngrabServerEffect ==
    ASSUME ListTypes, EdgeIsHeard, GrabHasHolder, IgnoreCovers,
           NEW D \in SUBSET Ids, UngrabServer(D)
    PROVE  \E W \in SUBSET waiters :
              /\ grabClient' = 0 /\ GrabInProgress' = 0
              /\ waiters' = waiters \ (W \cup D)
              /\ ignoreCount' = [c \in Ids |-> IF c \in D THEN 0
                                               ELSE IF c \in W THEN ignoreCount[c] - 1
                                               ELSE ignoreCount[c]]
              /\ ready' = (ready \cup saved \cup {c \in W : ignoreCount[c] = 1}) \ D
              /\ saved' = {}
              /\ edge' \subseteq (edge \cup open) \ D
              /\ \A c \in edge' : ignoreCount'[c] = 0
<1> DEFINE W == IF waiters = {} THEN {} ELSE {NextWaiter}
           count == [c \in Ids |-> IF c \in D THEN 0
                                   ELSE IF c \in W THEN ignoreCount[c] - 1
                                   ELSE ignoreCount[c]]
           attended == {c \in W : ignoreCount[c] = 1}
           ignored == {c \in Ids : count[c] # 0}
           polled == IF GrabInProgress # 0 THEN Ids ELSE attended
<1>1. W \in SUBSET waiters
  BY NextWaiterWaits DEF ListTypes
<1> HIDE DEF W
<1>2. ignoreCount' = count
  BY DEF UngrabServer, W
<1> HIDE DEF count
<1>3. edge' = ((edge \ polled) \cup (polled \cap Rearmed(ignored, 0))) \ D
  BY DEF UngrabServer, W, count
<1>4. \A c \in edge' : ignoreCount'[c] = 0 /\ c \in (edge \cup open) \ D
  <2>1. SUFFICES ASSUME NEW c \in edge'
                 PROVE  count[c] = 0 /\ c \in (edge \cup open) \ D
    BY <1>2
  <2>2. CASE c \in polled /\ c \in Rearmed(ignored, 0)
    BY <1>3, <2>1, <2>2 DEF Rearmed, Listens, ListTypes
  <2>3. CASE c \in edge \ polled
    <3>1. GrabInProgress = 0
      BY <2>3 DEF ListTypes
    <3>2. c \notin Ignored /\ c \in Ids
      BY <2>3 DEF EdgeIsHeard, Listens, ListTypes
    <3>3. ignoreCount[c] = 0
      BY <3>2 DEF Ignored
    <3>4. c \notin W
      BY <1>1, <3>2, <3>3 DEF IgnoreCovers, ListTypes
    <3> QED BY <1>3, <2>1, <2>3, <3>2, <3>3, <3>4 DEF count
  <2> QED BY <1>3, <2>1, <2>2, <2>3
<1>5. /\ waiters' = waiters \ (W \cup D)
      /\ ready' = (ready \cup saved \cup {c \in W : ignoreCount[c] = 1}) \ D
      /\ saved' = {} /\ grabClient' = 0 /\ GrabInProgress' = 0
  BY DEF UngrabServer, W, WaitingAfter, SavedAfterUngrab, GrabReleased
<1>6. edge' \subseteq (edge \cup open) \ D
  BY <1>4
<1> QED BY <1>1, <1>2, <1>4, <1>5, <1>6 DEF count

\* ProcUngrabServer makes nobody leave and frees the grab.
LEMMA UngrabRequestDeparts ==
    ASSUME ListTypes, EdgeIsHeard, GrabHasHolder, IgnoreCovers, UngrabRequest
    PROVE  \E W : Departs({}, W, 0)
<1>1. PICK W \in SUBSET waiters :
              /\ grabClient' = 0 /\ GrabInProgress' = 0
              /\ waiters' = waiters \ (W \cup {})
              /\ ignoreCount' = [c \in Ids |-> IF c \in {} THEN 0
                                               ELSE IF c \in W THEN ignoreCount[c] - 1
                                               ELSE ignoreCount[c]]
              /\ ready' = (ready \cup saved \cup {c \in W : ignoreCount[c] = 1}) \ {}
              /\ saved' = {}
              /\ edge' \subseteq (edge \cup open) \ {}
              /\ \A c \in edge' : ignoreCount'[c] = 0
  BY UngrabServerEffect DEF UngrabRequest
<1>2. UNCHANGED <<state, open, kernel, buffered, impervious, asleep, regrab>>
  BY DEF UngrabRequest, table
<1>3. Live' = Live
  BY <1>2 DEF Live
<1> QED BY <1>1, <1>2, <1>3 DEF Departs

\* CloseDownClient makes one client leave, with its grab if it holds one.
LEMMA CloseDownClientDeparts ==
    ASSUME TableTypes, ListTypes, EdgeIsHeard, GrabHasHolder, IgnoreCovers, SavedAwaitsRelease,
           NEW c \in Ids, CloseDownClient(c)
    PROVE  \E W, h : Departs({c}, W, h)
<1>1. /\ open' = open \ {c} /\ kernel' = kernel \ {c} /\ buffered' = buffered \ {c}
      /\ impervious' = impervious \ {c}
      /\ asleep' = asleep \ {c} /\ regrab' = regrab \ {c}
  BY DEF CloseDownClient
<1>2. Live' = Live \ {c} /\ \A d \in Ids \ {c} : state'[d] = state[d]
  <2>1. state' = [state EXCEPT ![c] = "Free"] \/ state' = [state EXCEPT ![c] = "Retained"]
    BY DEF CloseDownClient
  <2> QED BY <2>1 DEF Live, TableTypes
<1>3. CASE grabClient = c
  <2>1. UngrabServer({c})
    BY <1>3 DEF CloseDownClient
  <2>2. PICK W \in SUBSET waiters :
              /\ grabClient' = 0 /\ GrabInProgress' = 0
              /\ waiters' = waiters \ (W \cup {c})
              /\ ignoreCount' = [d \in Ids |-> IF d \in {c} THEN 0
                                               ELSE IF d \in W THEN ignoreCount[d] - 1
                                               ELSE ignoreCount[d]]
              /\ ready' = (ready \cup saved \cup {d \in W : ignoreCount[d] = 1}) \ {c}
              /\ saved' = {}
              /\ edge' \subseteq (edge \cup open) \ {c}
              /\ \A d \in edge' : ignoreCount'[d] = 0
    BY <2>1, UngrabServerEffect
  <2>3. Departs({c}, W, 0)
    BY <1>1, <1>2, <2>2 DEF Departs, Ids
  <2> QED BY <2>3
<1>4. CASE grabClient # c
  <2>1. LeaveLists(c)
    BY <1>4 DEF CloseDownClient
  <2>2. ignoreCount' = [d \in Ids |-> IF d \in {c} THEN 0
                                      ELSE IF d \in {} THEN ignoreCount[d] - 1
                                      ELSE ignoreCount[d]]
    BY <2>1 DEF LeaveLists, ListTypes
  <2>3. \A d \in edge' : /\ d \in Ids \ {c} /\ ignoreCount[d] = 0
                         /\ grabClient \in {0, d} \/ d \in impervious
    BY <2>1 DEF LeaveLists, EdgeIsHeard, Listens, Ignored, GrabHasHolder, ListTypes
  <2>4. grabClient = 0 => saved' = {}
    BY <2>1 DEF LeaveLists, SavedAwaitsRelease
  <2>5. Departs({c}, {}, grabClient)
    BY <1>1, <1>2, <1>4, <2>1, <2>2, <2>3, <2>4
       DEF Departs, LeaveLists, WaitersWithout, GrabHasHolder
  <2> QED BY <2>5
<1> QED BY <1>3, <1>4

\* Whoever leaves, the lists keep their types.
LEMMA DepartsTypes ==
    ASSUME ListTypes, IgnoreCovers, NEW D \in SUBSET Ids, NEW W, NEW h, Departs(D, W, h)
    PROVE  ListTypes'
<1>1. ignoreCount' \in [Ids -> Nat]
  <2>1. \A c \in W : ignoreCount[c] - 1 \in Nat
    BY DEF Departs, IgnoreCovers, ListTypes
  <2> QED BY <2>1 DEF Departs, ListTypes
<1> QED BY <1>1 DEF Departs, ListTypes

\* Whoever leaves, what relates the lists to each other still holds.
LEMMA DepartsLists ==
    ASSUME ListTypes, ListInv, NEW D \in SUBSET Ids, NEW W, NEW h, Departs(D, W, h)
    PROVE  ListInv'
<1> USE DEF ListInv
<1>1. \A c \in Ids : ignoreCount'[c] = IF c \in D THEN 0
                                       ELSE IF c \in W THEN ignoreCount[c] - 1
                                       ELSE ignoreCount[c]
  BY DEF Departs
<1>2. GoneIsUnreachable'
  BY DEF Departs, GoneIsUnreachable
<1>3. GrabHasHolder'
  BY DEF Departs, GrabHasHolder, ListTypes
<1>4. SavedAwaitsRelease'
  BY DEF Departs, SavedAwaitsRelease
<1>5. IgnoreCovers'
  BY <1>1 DEF Departs, IgnoreCovers, ListTypes
<1>6. IgnoreIsBalanced'
  BY <1>1 DEF Departs, IgnoreIsBalanced, ListTypes
<1>7. ListedAreAttended'
  <2>1. SUFFICES ASSUME NEW c \in (ready' \cup saved') \cap open'
                 PROVE  ignoreCount'[c] = 0
    BY DEF ListedAreAttended, Ignored
  <2>2. c \in Ids \ D /\ c \in open
    BY <2>1 DEF Departs, ListTypes
  <2>3. CASE c \in ready \cup saved
    <3>1. ignoreCount[c] = 0
      BY <2>2, <2>3 DEF ListedAreAttended, Ignored
    <3>2. c \notin W
      BY <2>2, <3>1 DEF Departs, IgnoreCovers, ListTypes
    <3> QED BY <1>1, <2>2, <3>1, <3>2
  <2>4. CASE c \in W /\ ignoreCount[c] = 1
    BY <1>1, <2>2, <2>4
  <2> QED BY <2>1, <2>3, <2>4 DEF Departs
<1>8. EdgeIsHeard'
  BY DEF Departs, EdgeIsHeard, Listens, Ignored
<1>9. GoneAreAttended'
  <2>1. SUFFICES ASSUME NEW c \in Ids, c \notin Live'
                 PROVE  ignoreCount'[c] = 0
    BY DEF GoneAreAttended, Ignored
  <2>2. CASE c \in D
    BY <1>1, <2>2
  <2>3. CASE c \notin D
    <3>1. c \notin Live
      BY <2>1, <2>3 DEF Departs
    <3>2. ignoreCount[c] = 0 /\ c \notin W
      BY <3>1 DEF GoneAreAttended, Ignored, GoneIsUnreachable, Departs
    <3> QED BY <1>1, <2>3, <3>2
  <2> QED BY <2>2, <2>3
<1> QED BY <1>2, <1>3, <1>4, <1>5, <1>6, <1>7, <1>8, <1>9

-----------------------------------------------------------------------------
(* The client table.                                                       *)

Authorized == {c \in Ids : state[c] = "Running"}

\* There are at most LimitClients - 1 clients.
LEMMA ClientsAreFew ==
    ASSUME NEW S \in SUBSET Ids
    PROVE  IsFiniteSet(S) /\ Cardinality(S) \in 0 .. LimitClients - 1
<1>1. IsFiniteSet(Ids) /\ Cardinality(Ids) = LimitClients - 1
  BY LimitAssumption, FS_Interval DEF Ids
<1>2. IsFiniteSet(S) /\ Cardinality(S) <= LimitClients - 1
  BY <1>1, FS_Subset
<1> QED BY <1>2, LimitAssumption, FS_CardinalityType

\* CloseDownClient of a client that is in the table keeps the table's types
\* and its three cached counters right.
LEMMA CloseDownClientTable ==
    ASSUME TableTypes, TableInv, NEW c \in Allocated, CloseDownClient(c)
    PROVE  TableTypes' /\ TableInv'
<1> USE LimitAssumption
<1> DEFINE really == c \in Gone \/ mode[c] = "DestroyAll"
           left == IF really THEN Allocated \ {c} ELSE Allocated
           end == IF really THEN TableEnd(left) ELSE currentMaxClients
<1>1. c \in Ids /\ left \subseteq Ids
  BY DEF Allocated, Live, Gone
<1>2. /\ state' = [state EXCEPT ![c] = IF really THEN "Free" ELSE "Retained"]
      /\ mode' = IF really THEN [mode EXCEPT ![c] = "DestroyAll"] ELSE mode
      /\ nextFreeClientID' = IF really THEN SmallerFree(c) ELSE nextFreeClientID
      /\ failed' = IF really THEN failed \ {c} ELSE failed
      /\ disconnect' = IF really THEN disconnect \ {c} ELSE disconnect
  BY DEF CloseDownClient
<1>3. currentMaxClients' = end
  BY DEF CloseDownClient
<1>4. nClients' = IF state[c] = "Running" THEN nClients - 1 ELSE nClients
  BY DEF CloseDownClient, AuthorizedLeft
<1>5. dispatchException' \in BOOLEAN /\ exceptionTimer' \in BOOLEAN
  BY DEF CloseDownClient, SetDispatchExceptionTimer, TableTypes
<1>6. Allocated' = left
  <2>1. \A d \in Ids : state'[d] = IF d # c THEN state[d]
                                   ELSE IF really THEN "Free" ELSE "Retained"
    BY <1>1, <1>2 DEF TableTypes
  <2> HIDE DEF really
  <2>2. \A d \in Ids : d \in Allocated' <=> d \in left
    BY <2>1 DEF Allocated, Live, Gone
  <2>3. Allocated' \subseteq Ids
    BY DEF Allocated, Live, Gone
  <2> QED BY <1>1, <2>2, <2>3
<1> HIDE DEF really
<1>7. /\ end \in 1 .. currentMaxClients
      /\ end = 1 \/ end - 1 \in left
      /\ \A d \in left : d < end
  <2>1. \A d \in Allocated : d < currentMaxClients
    BY DEF TableInv, TableEndIsTight
  <2>2. CASE really
    BY <1>1, <2>1, <2>2, TableEndIsLeast DEF TableTypes
  <2>3. CASE ~really
    BY <2>1, <2>3 DEF TableInv, TableEndIsTight, TableTypes
  <2> QED BY <2>2, <2>3
<1>8. TableEndIsTight'
  BY <1>3, <1>6, <1>7 DEF TableEndIsTight
<1>9. FreeIDIsMinimal'
  BY <1>1, <1>2, <1>6 DEF FreeIDIsMinimal, SmallerFree, TableInv, TableTypes, Ids
<1>10. FailedAreAllocated'
  BY <1>2, <1>6 DEF FailedAreAllocated, TableInv
<1>11. AuthorizedAreCounted' /\ nClients' \in 0 .. LimitClients - 1
  <2>1. Authorized' = Authorized \ {c}
    BY <1>1, <1>2 DEF Authorized, TableTypes
  <2>2. Cardinality(Authorized \ {c}) = IF c \in Authorized THEN Cardinality(Authorized) - 1
                                        ELSE Cardinality(Authorized)
    BY ClientsAreFew, FS_RemoveElement DEF Authorized
  <2>3. Cardinality(Authorized') = nClients'
    BY <1>1, <1>4, <2>1, <2>2 DEF Authorized, TableInv, AuthorizedAreCounted
  <2>4. nClients' \in 0 .. LimitClients - 1
    <3>1. nClients \in 0 .. LimitClients - 1 /\ nClients = Cardinality(Authorized)
      BY DEF TableTypes, TableInv, AuthorizedAreCounted, Authorized
    <3>2. Cardinality(Authorized) = 0 => Authorized = {}
      BY ClientsAreFew, FS_EmptySet DEF Authorized
    <3> QED BY <1>1, <1>4, <3>1, <3>2 DEF Authorized
  <2> QED BY <2>3, <2>4 DEF AuthorizedAreCounted, Authorized
<1>12. TableTypes'
  BY <1>1, <1>2, <1>3, <1>5, <1>7, <1>11 DEF TableTypes, SmallerFree, Modes, Ids
<1> QED BY <1>8, <1>9, <1>10, <1>11, <1>12 DEF TableInv

\* NextAvailableClient finds the next free ID above the one it hands out.
LEMMA NextFreeExists ==
    ASSUME NEW c \in Ids
    PROVE  LET next == CHOOSE n \in c + 1 .. LimitClients :
                          /\ n \notin Allocated
                          /\ \A m \in c + 1 .. n - 1 : m \in Allocated
           IN /\ next \in c + 1 .. LimitClients
              /\ next \notin Allocated
              /\ \A m \in c + 1 .. next - 1 : m \in Allocated
<1> USE LimitAssumption
<1> DEFINE free == {n \in c + 1 .. LimitClients : n \notin Allocated}
<1>1. LimitClients \in free /\ free \subseteq Nat
  BY DEF Ids, Allocated, Live, Gone
<1>2. PICK n \in free : \A m \in free : n <= m
  BY <1>1, LeastExists
<1>3. \A m \in c + 1 .. n - 1 : m \in Allocated
  BY <1>2 DEF Ids
<1> QED BY <1>2, <1>3

\* Accept puts the new client at the smallest free ID.
LEMMA AcceptTable ==
    ASSUME TableTypes, TableInv, Accept
    PROVE  TableTypes' /\ TableInv' /\ Allocated' = Allocated \cup {nextFreeClientID}
           /\ nextFreeClientID \in Ids
<1> USE LimitAssumption
<1> DEFINE c == nextFreeClientID
<1>1. c \in Ids /\ c \notin Allocated
  BY DEF Accept, TableTypes, Ids, TableInv, FreeIDIsMinimal
<1>2. state' = [state EXCEPT ![c] = "Initial"]
  BY DEF Accept
<1>3. currentMaxClients' = IF c = currentMaxClients THEN c + 1 ELSE currentMaxClients
  BY DEF Accept
<1>4. /\ nextFreeClientID' \in c + 1 .. LimitClients
      /\ nextFreeClientID' \notin Allocated
      /\ \A m \in c + 1 .. nextFreeClientID' - 1 : m \in Allocated
  BY <1>1, NextFreeExists DEF Accept
<1>5. UNCHANGED <<mode, nClients, fate>>
  BY DEF Accept
<1>6. Allocated' = Allocated \cup {c}
  BY <1>1, <1>2 DEF Allocated, Live, Gone, TableTypes
<1>7. c <= currentMaxClients
  BY <1>1 DEF TableInv, FreeIDIsMinimal, TableEndIsTight, TableTypes, Ids
<1>8. TableEndIsTight'
  BY <1>1, <1>3, <1>6, <1>7 DEF TableInv, TableEndIsTight, TableTypes, Ids, Allocated, Live, Gone
<1>9. FreeIDIsMinimal'
  <2>1. PICK next \in c + 1 .. LimitClients :
                /\ next = nextFreeClientID' /\ next \notin Allocated
                /\ \A m \in c + 1 .. next - 1 : m \in Allocated
    BY <1>4
  <2>2. ASSUME NEW i \in Ids, i < next
        PROVE  i \in Allocated \cup {c}
    <3>1. CASE i < c
      BY <3>1 DEF TableInv, FreeIDIsMinimal
    <3>2. CASE i > c
      <4>1. c \in Nat /\ i \in Nat /\ next \in Nat
        BY <1>1 DEF Ids
      <4> HIDE DEF c
      <4>2. i \in c + 1 .. next - 1
        BY <2>2, <3>2, <4>1
      <4> QED BY <2>1, <4>2
    <3> QED BY <1>1, <3>1, <3>2 DEF Ids
  <2>3. next # c
    BY <1>1, <2>1 DEF Ids
  <2> QED BY <1>6, <2>1, <2>2, <2>3 DEF FreeIDIsMinimal
<1>10. AuthorizedAreCounted'
  BY <1>1, <1>2, <1>5
     DEF TableInv, AuthorizedAreCounted, TableTypes, Allocated, Live, Gone
<1>11. FailedAreAllocated'
  BY <1>5, <1>6 DEF TableInv, FailedAreAllocated, fate
<1>12. TableTypes'
  BY <1>1, <1>2, <1>3, <1>4, <1>5 DEF TableTypes, fate, Ids
<1> QED BY <1>1, <1>6, <1>8, <1>9, <1>10, <1>11, <1>12 DEF TableInv

-----------------------------------------------------------------------------
(* The actions, on the table and on the lists.                             *)

DataInv == TableTypes /\ TableInv /\ ListTypes /\ ListInv

\* the clients named by the dispatcher's thread
LEMMA ThreadClients ==
    ASSUME IndInv
    PROVE  /\ pc \in {"run", "exec", "killTemp"} => cur \in ready /\ cur \in Live
           /\ pc = "result" => cur \in Ids
           /\ pc \in {"accept", "killTemp", "killAll"} /\ scan < currentMaxClients
                => scan \in Ids
<1>1. pc \in {"run", "exec", "killTemp"} => cur \in ready /\ cur \in Live
  BY DEF IndInv, LoopInv, CurIsReady, ListInv, GoneIsUnreachable
<1>2. pc = "result" => cur \in Ids
  BY DEF IndInv, LoopInv, CurIsReady
<1>3. pc \in {"accept", "killTemp", "killAll"} /\ scan < currentMaxClients => scan \in Ids
  BY LimitAssumption DEF IndInv, LoopInv, ScanInTable, TypeOK, TableTypes, Ids
<1> QED BY <1>1, <1>2, <1>3

\* A step that changes neither the clients nor the counters keeps the table.
LEMMA TableKept ==
    ASSUME TableTypes, TableInv,
           UNCHANGED <<state, nClients, nextFreeClientID, currentMaxClients>>,
           mode' \in [Ids -> Modes], failed' \subseteq Allocated, disconnect' \subseteq Ids,
           dispatchException' \in BOOLEAN, exceptionTimer' \in BOOLEAN
    PROVE  TableTypes' /\ TableInv'
<1>1. UNCHANGED <<Allocated, Live>>
  BY DEF Allocated, Live, Gone
<1>2. TableTypes'
  BY DEF TableTypes, Allocated, Live, Gone
<1>3. FreeIDIsMinimal' /\ TableEndIsTight' /\ FailedAreAllocated'
  BY <1>1 DEF TableInv, FreeIDIsMinimal, TableEndIsTight, FailedAreAllocated
<1>4. AuthorizedAreCounted'
  BY DEF TableInv, AuthorizedAreCounted
<1> QED BY <1>2, <1>3, <1>4 DEF TableInv

\* A step that changes neither the lists nor which clients are live keeps them.
LEMMA ListsKept ==
    ASSUME ListTypes, ListInv, UNCHANGED <<input, lists, grab>>, Live' = Live,
           grabClient # 0 => state'[grabClient] = state[grabClient]
    PROVE  ListTypes' /\ ListInv'
<1> USE DEF input, lists, grab
<1>1. ListTypes'
  BY DEF ListTypes
<1>2. UNCHANGED Ignored
  BY DEF Ignored
<1>3. GrabHasHolder'
  BY DEF ListInv, GrabHasHolder
<1> QED BY <1>1, <1>2, <1>3
        DEF ListInv, GoneIsUnreachable, SavedAwaitsRelease, IgnoreCovers,
            IgnoreIsBalanced, ListedAreAttended, EdgeIsHeard, GoneAreAttended, Listens

\* A step of the thread alone changes neither.
LEMMA DataKept ==
    ASSUME DataInv, UNCHANGED <<table, fate, input, lists, grab>>
    PROVE  DataInv'
<1>1. TableTypes' /\ TableInv'
  BY TableKept DEF DataInv, TableInv, TableTypes, FailedAreAllocated, table, fate
<1>2. Live' = Live /\ UNCHANGED state
  BY DEF Live, table
<1>3. ListTypes' /\ ListInv'
  BY <1>2, ListsKept DEF DataInv
<1> QED BY <1>1, <1>3 DEF DataInv

\* CloseDownClient keeps both, and every other ready client ready.
LEMMA CloseDownClientKeeps ==
    ASSUME DataInv, NEW c \in Allocated, CloseDownClient(c)
    PROVE  DataInv' /\ ready \ {c} \subseteq ready'
<1>1. c \in Ids /\ {c} \in SUBSET Ids
  BY DEF Allocated, Live, Gone
<1>2. TableTypes' /\ TableInv'
  BY CloseDownClientTable DEF DataInv
<1>3. PICK W, h : Departs({c}, W, h)
  BY <1>1, CloseDownClientDeparts DEF DataInv, ListInv
<1>4. ListTypes' /\ ListInv'
  BY <1>1, <1>3, DepartsTypes, DepartsLists DEF DataInv, ListInv
<1>5. ready \ {c} \subseteq ready'
  BY <1>3 DEF Departs
<1> QED BY <1>2, <1>4, <1>5 DEF DataInv

\* AttendClient of a client that sleeps takes one from its count.
LEMMA AttendClientEffect ==
    ASSUME ListTypes, IgnoreCovers, NEW c \in asleep, AttendClient(c)
    PROVE  /\ ignoreCount' \in [Ids -> Nat]
           /\ \A d \in Ids : ignoreCount'[d] = IF d = c THEN ignoreCount[c] - 1
                                               ELSE ignoreCount[d]
           /\ Ignored' = IF ignoreCount[c] = 1 THEN Ignored \ {c} ELSE Ignored
<1>1. c \in Ids /\ ignoreCount[c] \in Nat \ {0}
  BY DEF ListTypes, IgnoreCovers
<1>2. ignoreCount' = [ignoreCount EXCEPT ![c] = ignoreCount[c] - 1]
  BY DEF AttendClient
<1>3. \A d \in Ids : ignoreCount'[d] = IF d = c THEN ignoreCount[c] - 1 ELSE ignoreCount[d]
  BY <1>1, <1>2 DEF ListTypes
<1>4. Ignored' = IF ignoreCount[c] = 1 THEN Ignored \ {c} ELSE Ignored
  <2>1. \A d \in Ids : d \in Ignored' <=> d \in Ignored /\ ~(d = c /\ ignoreCount[c] = 1)
    BY <1>1, <1>3 DEF Ignored
  <2>2. Ignored \subseteq Ids /\ Ignored' \subseteq Ids
    BY DEF Ignored
  <2> QED BY <2>1, <2>2
<1> QED BY <1>1, <1>2, <1>3, <1>4 DEF ListTypes

\* IgnoreClient adds one to a client's count.
LEMMA IgnoreClientEffect ==
    ASSUME ListTypes, NEW c \in Ids, IgnoreClient(c)
    PROVE  /\ ignoreCount' \in [Ids -> Nat]
           /\ \A d \in Ids : ignoreCount'[d] = IF d = c THEN ignoreCount[c] + 1
                                               ELSE ignoreCount[d]
           /\ Ignored' = Ignored \cup {c}
           /\ ready' = (IF c \in Ignored THEN ready ELSE ready \ {c})
           /\ saved' = (IF c \in Ignored THEN saved ELSE saved \ {c})
           /\ edge' = (IF c \in Ignored THEN edge ELSE edge \ {c})
<1>1. ignoreCount[c] \in Nat
  BY DEF ListTypes
<1>2. \A d \in Ids : ignoreCount'[d] = IF d = c THEN ignoreCount[c] + 1 ELSE ignoreCount[d]
  BY <1>1 DEF IgnoreClient, ListTypes
<1>3. Ignored' = Ignored \cup {c}
  <2>1. \A d \in Ids : d \in Ignored' <=> d \in Ignored \cup {c}
    BY <1>1, <1>2 DEF Ignored
  <2>2. Ignored \subseteq Ids /\ Ignored' \subseteq Ids
    BY DEF Ignored
  <2> QED BY <2>1, <2>2
<1>4. c \in Ignored <=> ignoreCount[c] # 0
  BY DEF Ignored
<1> QED BY <1>1, <1>2, <1>3, <1>4 DEF IgnoreClient, ListTypes

\* A read event makes ready a client that may run.
LEMMA ReadEventLists ==
    ASSUME IndInv, NEW e \in Ids, ReadEvent(e)
    PROVE  ListTypes' /\ ListInv'
<1> USE DEF IndInv, TypeOK, ListInv, ReadEvent, MarkReady, table, grab
<1>1. UNCHANGED <<Live, state>>
  BY DEF Live, table
<1>2. UNCHANGED Ignored
  BY DEF Ignored
<1>3. ListTypes'
  BY <1>2 DEF ListTypes
<1>4. GoneIsUnreachable'
  BY <1>1, <1>2 DEF GoneIsUnreachable, ListTypes
<1>5. GrabHasHolder'
  BY <1>1, <1>2 DEF GrabHasHolder, ListTypes
<1>6. SavedAwaitsRelease'
  BY <1>1, <1>2 DEF SavedAwaitsRelease, ListTypes
<1>7. IgnoreCovers'
  BY <1>1, <1>2 DEF IgnoreCovers, ListTypes
<1>8. IgnoreIsBalanced'
  BY <1>1, <1>2 DEF IgnoreIsBalanced, ListTypes
<1>9. ListedAreAttended'
  BY <1>1, <1>2 DEF ListedAreAttended, ListTypes, EdgeIsHeard, Listens
<1>10. EdgeIsHeard'
  BY <1>1, <1>2 DEF EdgeIsHeard, ListTypes, Listens
<1>11. GoneAreAttended'
  BY <1>1, <1>2 DEF GoneAreAttended, ListTypes
<1> QED BY <1>3, <1>4, <1>5, <1>6, <1>7, <1>8, <1>9, <1>10, <1>11

\* Waking a sleeping client takes back the count it slept with.
LEMMA WakeupLists ==
    ASSUME IndInv, NEW e \in Ids, Wakeup(e)
    PROVE  ListTypes' /\ ListInv'
<1> USE DEF IndInv, TypeOK, ListInv, Wakeup, table, grab
<1>1. UNCHANGED <<Live, state>>
  BY DEF Live, table
<1>2. /\ ignoreCount' \in [Ids -> Nat]
      /\ \A d \in Ids : ignoreCount'[d] = IF d = e THEN ignoreCount[e] - 1
                                          ELSE ignoreCount[d]
      /\ Ignored' = IF ignoreCount[e] = 1 THEN Ignored \ {e} ELSE Ignored
  BY AttendClientEffect
<1>3. ListTypes'
  BY <1>2 DEF ListTypes, AttendClient, ReadyOrSaved, RearmedOne, Rearmed
<1>4. GoneIsUnreachable'
  BY <1>1, <1>2 DEF GoneIsUnreachable, ListTypes, AttendClient, ReadyOrSaved, RearmedOne, Rearmed
<1>5. GrabHasHolder'
  BY <1>1, <1>2 DEF GrabHasHolder, ListTypes
<1>6. SavedAwaitsRelease'
  BY <1>1, <1>2 DEF SavedAwaitsRelease, ListTypes, AttendClient, ReadyOrSaved, GrabHasHolder, Listens, Ids
<1>7. IgnoreCovers'
  BY <1>1, <1>2 DEF IgnoreCovers, ListTypes
<1>8. IgnoreIsBalanced'
  BY <1>1, <1>2 DEF IgnoreIsBalanced, ListTypes
<1>9. ListedAreAttended'
  BY <1>1, <1>2 DEF ListedAreAttended, ListTypes, AttendClient, ReadyOrSaved, Ignored
<1>10. EdgeIsHeard'
  BY <1>1, <1>2 DEF EdgeIsHeard, ListTypes, AttendClient, RearmedOne, Rearmed, Listens
<1>11. GoneAreAttended'
  BY <1>1, <1>2 DEF GoneAreAttended, ListTypes
<1> QED BY <1>3, <1>4, <1>5, <1>6, <1>7, <1>8, <1>9, <1>10, <1>11

\* Arriving bytes are reported only for clients that are listened to.
LEMMA DataArrivesLists ==
    ASSUME IndInv, NEW e \in Ids, DataArrives(e)
    PROVE  ListTypes' /\ ListInv'
<1> USE DEF IndInv, TypeOK, ListInv, DataArrives, table, lists, grab
<1>1. UNCHANGED <<Live, state>>
  BY DEF Live, table
<1>2. UNCHANGED Ignored
  BY DEF Ignored
<1>3. ListTypes'
  BY <1>2 DEF ListTypes
<1>4. GoneIsUnreachable'
  BY <1>1, <1>2 DEF GoneIsUnreachable, ListTypes
<1>5. GrabHasHolder'
  BY <1>1, <1>2 DEF GrabHasHolder, ListTypes
<1>6. SavedAwaitsRelease'
  BY <1>1, <1>2 DEF SavedAwaitsRelease, ListTypes
<1>7. IgnoreCovers'
  BY <1>1, <1>2 DEF IgnoreCovers, ListTypes
<1>8. IgnoreIsBalanced'
  BY <1>1, <1>2 DEF IgnoreIsBalanced, ListTypes
<1>9. ListedAreAttended'
  BY <1>1, <1>2 DEF ListedAreAttended, ListTypes
<1>10. EdgeIsHeard'
  BY <1>1, <1>2 DEF EdgeIsHeard, ListTypes, Listens
<1>11. GoneAreAttended'
  BY <1>1, <1>2 DEF GoneAreAttended, ListTypes
<1> QED BY <1>3, <1>4, <1>5, <1>6, <1>7, <1>8, <1>9, <1>10, <1>11

\* AbortClient lists a client without a descriptor.
LEMMA OutputErrorLists ==
    ASSUME IndInv, NEW e \in Ids, OutputError(e)
    PROVE  ListTypes' /\ ListInv'
<1> USE DEF IndInv, TypeOK, ListInv, OutputError, MarkAborted, MarkReady, table, grab
<1>1. UNCHANGED <<Live, state>>
  BY DEF Live, table
<1>2. UNCHANGED Ignored
  BY DEF Ignored
<1>3. ListTypes'
  BY <1>2 DEF ListTypes
<1>4. GoneIsUnreachable'
  BY <1>1, <1>2 DEF GoneIsUnreachable, ListTypes
<1>5. GrabHasHolder'
  BY <1>1, <1>2 DEF GrabHasHolder, ListTypes
<1>6. SavedAwaitsRelease'
  BY <1>1, <1>2 DEF SavedAwaitsRelease, ListTypes
<1>7. IgnoreCovers'
  BY <1>1, <1>2 DEF IgnoreCovers, ListTypes
<1>8. IgnoreIsBalanced'
  BY <1>1, <1>2 DEF IgnoreIsBalanced, ListTypes
<1>9. ListedAreAttended'
  BY <1>1, <1>2 DEF ListedAreAttended, ListTypes
<1>10. EdgeIsHeard'
  BY <1>1, <1>2 DEF EdgeIsHeard, ListTypes, Listens
<1>11. GoneAreAttended'
  BY <1>1, <1>2 DEF GoneAreAttended, ListTypes
<1> QED BY <1>3, <1>4, <1>5, <1>6, <1>7, <1>8, <1>9, <1>10, <1>11

\* A request is read for a client that is live.
LEMMA ReadRequestLists ==
    ASSUME IndInv, ReadRequest
    PROVE  ListTypes' /\ ListInv'
<1> USE DEF IndInv, TypeOK, ListInv, ReadRequest, table, lists, grab
<1>1. UNCHANGED <<Live, state>> /\ cur \in ready /\ cur \in Live /\ cur \in Ids
  <2>1. cur \in ready /\ cur \in Live
    BY ThreadClients
  <2> QED BY <2>1 DEF Live, table
<1>2. UNCHANGED Ignored
  BY DEF Ignored
<1>3. ListTypes'
  BY <1>1, <1>2 DEF ListTypes
<1>4. GoneIsUnreachable'
  BY <1>1, <1>2 DEF GoneIsUnreachable, ListTypes
<1>5. GrabHasHolder'
  BY <1>1, <1>2 DEF GrabHasHolder, ListTypes
<1>6. SavedAwaitsRelease'
  BY <1>1, <1>2 DEF SavedAwaitsRelease, ListTypes
<1>7. IgnoreCovers'
  BY <1>1, <1>2 DEF IgnoreCovers, ListTypes
<1>8. IgnoreIsBalanced'
  BY <1>1, <1>2 DEF IgnoreIsBalanced, ListTypes
<1>9. ListedAreAttended'
  BY <1>1, <1>2 DEF ListedAreAttended, ListTypes
<1>10. EdgeIsHeard'
  BY <1>1, <1>2 DEF EdgeIsHeard, ListTypes, Listens
<1>11. GoneAreAttended'
  BY <1>1, <1>2 DEF GoneAreAttended, ListTypes
<1> QED BY <1>3, <1>4, <1>5, <1>6, <1>7, <1>8, <1>9, <1>10, <1>11

\* So is part of one.
LEMMA ReadPartialLists ==
    ASSUME IndInv, ReadPartial
    PROVE  ListTypes' /\ ListInv'
<1> USE DEF IndInv, TypeOK, ListInv, ReadPartial, table, lists, grab
<1>1. UNCHANGED <<Live, state>> /\ cur \in ready /\ cur \in Live /\ cur \in Ids
  <2>1. cur \in ready /\ cur \in Live
    BY ThreadClients
  <2> QED BY <2>1 DEF Live, table
<1>2. UNCHANGED Ignored
  BY DEF Ignored
<1>3. ListTypes'
  BY <1>1, <1>2 DEF ListTypes
<1>4. GoneIsUnreachable'
  BY <1>1, <1>2 DEF GoneIsUnreachable, ListTypes
<1>5. GrabHasHolder'
  BY <1>1, <1>2 DEF GrabHasHolder, ListTypes
<1>6. SavedAwaitsRelease'
  BY <1>1, <1>2 DEF SavedAwaitsRelease, ListTypes
<1>7. IgnoreCovers'
  BY <1>1, <1>2 DEF IgnoreCovers, ListTypes
<1>8. IgnoreIsBalanced'
  BY <1>1, <1>2 DEF IgnoreIsBalanced, ListTypes
<1>9. ListedAreAttended'
  BY <1>1, <1>2 DEF ListedAreAttended, ListTypes
<1>10. EdgeIsHeard'
  BY <1>1, <1>2 DEF EdgeIsHeard, ListTypes, Listens
<1>11. GoneAreAttended'
  BY <1>1, <1>2 DEF GoneAreAttended, ListTypes
<1> QED BY <1>3, <1>4, <1>5, <1>6, <1>7, <1>8, <1>9, <1>10, <1>11

\* A client without input leaves both lists.
LEMMA ReadNothingLists ==
    ASSUME IndInv, ReadNothing
    PROVE  ListTypes' /\ ListInv'
<1> USE DEF IndInv, TypeOK, ListInv, ReadNothing, table, input, grab
<1>1. UNCHANGED <<Live, state>> /\ cur \in ready /\ cur \in Live /\ cur \in Ids
  <2>1. cur \in ready /\ cur \in Live
    BY ThreadClients
  <2> QED BY <2>1 DEF Live, table
<1>2. UNCHANGED Ignored
  BY DEF Ignored
<1>3. ListTypes'
  BY <1>1, <1>2 DEF ListTypes
<1>4. GoneIsUnreachable'
  BY <1>1, <1>2 DEF GoneIsUnreachable, ListTypes
<1>5. GrabHasHolder'
  BY <1>1, <1>2 DEF GrabHasHolder, ListTypes
<1>6. SavedAwaitsRelease'
  BY <1>1, <1>2 DEF SavedAwaitsRelease, ListTypes
<1>7. IgnoreCovers'
  BY <1>1, <1>2 DEF IgnoreCovers, ListTypes
<1>8. IgnoreIsBalanced'
  BY <1>1, <1>2 DEF IgnoreIsBalanced, ListTypes
<1>9. ListedAreAttended'
  BY <1>1, <1>2 DEF ListedAreAttended, ListTypes
<1>10. EdgeIsHeard'
  BY <1>1, <1>2 DEF EdgeIsHeard, ListTypes, Listens
<1>11. GoneAreAttended'
  BY <1>1, <1>2 DEF GoneAreAttended, ListTypes
<1> QED BY <1>3, <1>4, <1>5, <1>6, <1>7, <1>8, <1>9, <1>10, <1>11

\* A client that has to wait for the grab is ignored once for it.
LEMMA GrabServerWaitsLists ==
    ASSUME IndInv, GrabServerWaits /\ pc = "exec" /\ state[cur] = "Running"
    PROVE  ListTypes' /\ ListInv'
<1> USE DEF IndInv, TypeOK, ListInv, GrabServerWaits, table, grab
<1>1. UNCHANGED <<Live, state>> /\ cur \in ready /\ cur \in Live /\ cur \in Ids
  <2>1. cur \in ready /\ cur \in Live
    BY ThreadClients
  <2> QED BY <2>1 DEF Live, table
<1>2. /\ ignoreCount' \in [Ids -> Nat]
      /\ \A d \in Ids : ignoreCount'[d] = IF d = cur THEN ignoreCount[cur] + 1
                                          ELSE ignoreCount[d]
      /\ Ignored' = Ignored \cup {cur}
      /\ ready' = (IF cur \in Ignored THEN ready ELSE ready \ {cur})
      /\ saved' = (IF cur \in Ignored THEN saved ELSE saved \ {cur})
      /\ edge' = (IF cur \in Ignored THEN edge ELSE edge \ {cur})
  BY <1>1, IgnoreClientEffect
<1>3. ListTypes'
  BY <1>1, <1>2 DEF ListTypes
<1>4. GoneIsUnreachable'
  BY <1>1, <1>2 DEF GoneIsUnreachable, ListTypes
<1>5. GrabHasHolder'
  BY <1>1, <1>2 DEF GrabHasHolder, ListTypes
<1>6. SavedAwaitsRelease'
  BY <1>1, <1>2 DEF SavedAwaitsRelease, ListTypes
<1>7. IgnoreCovers'
  BY <1>1, <1>2 DEF IgnoreCovers, ListTypes
<1>8. IgnoreIsBalanced'
  <2>1. cur \in open => cur \notin Ignored
    BY <1>1 DEF ListedAreAttended
  <2>2. cur \in open => cur \notin waiters
    BY <1>1, <2>1 DEF IgnoreCovers, Ignored, ListTypes
  <2> QED BY <1>1, <1>2, <2>2 DEF IgnoreIsBalanced, ListTypes
<1>9. ListedAreAttended'
  <2>1. cur \in open => cur \notin Ignored
    BY <1>1 DEF ListedAreAttended
  <2> QED BY <1>2, <2>1 DEF ListedAreAttended
<1>10. EdgeIsHeard'
  BY <1>2 DEF EdgeIsHeard, Listens, Ignored
<1>11. GoneAreAttended'
  BY <1>1, <1>2 DEF GoneAreAttended, ListTypes
<1> QED BY <1>3, <1>4, <1>5, <1>6, <1>7, <1>8, <1>9, <1>10, <1>11

\* A client that goes to sleep is ignored once for it.
LEMMA SleepLists ==
    ASSUME IndInv, Sleep /\ pc = "exec" /\ state[cur] = "Running"
    PROVE  ListTypes' /\ ListInv'
<1> USE DEF IndInv, TypeOK, ListInv, Sleep, table, grab
<1>1. UNCHANGED <<Live, state>> /\ cur \in ready /\ cur \in Live /\ cur \in Ids
  <2>1. cur \in ready /\ cur \in Live
    BY ThreadClients
  <2> QED BY <2>1 DEF Live, table
<1>2. /\ ignoreCount' \in [Ids -> Nat]
      /\ \A d \in Ids : ignoreCount'[d] = IF d = cur THEN ignoreCount[cur] + 1
                                          ELSE ignoreCount[d]
      /\ Ignored' = Ignored \cup {cur}
      /\ ready' = (IF cur \in Ignored THEN ready ELSE ready \ {cur})
      /\ saved' = (IF cur \in Ignored THEN saved ELSE saved \ {cur})
      /\ edge' = (IF cur \in Ignored THEN edge ELSE edge \ {cur})
  BY <1>1, IgnoreClientEffect
<1>3. ListTypes'
  BY <1>1, <1>2 DEF ListTypes
<1>4. GoneIsUnreachable'
  BY <1>1, <1>2 DEF GoneIsUnreachable, ListTypes
<1>5. GrabHasHolder'
  BY <1>1, <1>2 DEF GrabHasHolder, ListTypes
<1>6. SavedAwaitsRelease'
  BY <1>1, <1>2 DEF SavedAwaitsRelease, ListTypes
<1>7. IgnoreCovers'
  BY <1>1, <1>2 DEF IgnoreCovers, ListTypes
<1>8. IgnoreIsBalanced'
  BY <1>1, <1>2 DEF IgnoreIsBalanced, ListTypes
<1>9. ListedAreAttended'
  <2>1. cur \in open => cur \notin Ignored
    BY <1>1 DEF ListedAreAttended
  <2> QED BY <1>2, <2>1 DEF ListedAreAttended
<1>10. EdgeIsHeard'
  BY <1>2 DEF EdgeIsHeard, Listens, Ignored
<1>11. GoneAreAttended'
  BY <1>1, <1>2 DEF GoneAreAttended, ListTypes
<1> QED BY <1>3, <1>4, <1>5, <1>6, <1>7, <1>8, <1>9, <1>10, <1>11

\* A grab is taken with every other ready client parked.
LEMMA GrabServerTakenLists ==
    ASSUME IndInv, GrabServerTaken /\ pc = "exec" /\ state[cur] = "Running"
    PROVE  ListTypes' /\ ListInv'
<1> USE DEF IndInv, TypeOK, ListInv, GrabServerTaken, GrabIsFree, MarkGrab, table
<1>1. UNCHANGED <<Live, state>> /\ cur \in ready /\ cur \in Live /\ cur \in Ids
  <2>1. cur \in ready /\ cur \in Live
    BY ThreadClients
  <2> QED BY <2>1 DEF Live, table
<1>2. UNCHANGED Ignored
  BY DEF Ignored
<1>3. ListTypes'
  BY <1>1, <1>2 DEF ListTypes, Rearmed
<1>4. GoneIsUnreachable'
  BY <1>1, <1>2 DEF GoneIsUnreachable, ListTypes, Rearmed
<1>5. GrabHasHolder'
  BY <1>1, <1>2 DEF GrabHasHolder, ListTypes
<1>6. SavedAwaitsRelease'
  BY <1>1, <1>2 DEF SavedAwaitsRelease, ListTypes, Ids
<1>7. IgnoreCovers'
  BY <1>1, <1>2 DEF IgnoreCovers, ListTypes
<1>8. IgnoreIsBalanced'
  BY <1>1, <1>2 DEF IgnoreIsBalanced, ListTypes
<1>9. ListedAreAttended'
  BY <1>1, <1>2 DEF ListedAreAttended, ListTypes
<1>10. EdgeIsHeard'
  BY <1>1, <1>2 DEF EdgeIsHeard, ListTypes, Rearmed, Listens, GrabHasHolder
<1>11. GoneAreAttended'
  BY <1>1, <1>2 DEF GoneAreAttended, ListTypes
<1> QED BY <1>3, <1>4, <1>5, <1>6, <1>7, <1>8, <1>9, <1>10, <1>11

\* A refused grab changes no list.
LEMMA GrabDeniedLists ==
    ASSUME IndInv, GrabDenied /\ pc = "exec" /\ state[cur] = "Running"
    PROVE  ListTypes' /\ ListInv'
<1> USE DEF IndInv, TypeOK, ListInv, GrabDenied, table, input, grab
<1>1. UNCHANGED <<Live, state>> /\ cur \in ready /\ cur \in Live /\ cur \in Ids
  <2>1. cur \in ready /\ cur \in Live
    BY ThreadClients
  <2> QED BY <2>1 DEF Live, table
<1>2. UNCHANGED Ignored
  BY DEF Ignored
<1>3. ListTypes'
  BY <1>1, <1>2 DEF ListTypes
<1>4. GoneIsUnreachable'
  BY <1>1, <1>2 DEF GoneIsUnreachable, ListTypes
<1>5. GrabHasHolder'
  BY <1>1, <1>2 DEF GrabHasHolder, ListTypes
<1>6. SavedAwaitsRelease'
  BY <1>1, <1>2 DEF SavedAwaitsRelease, ListTypes
<1>7. IgnoreCovers'
  BY <1>1, <1>2 DEF IgnoreCovers, ListTypes
<1>8. IgnoreIsBalanced'
  BY <1>1, <1>2 DEF IgnoreIsBalanced, ListTypes
<1>9. ListedAreAttended'
  BY <1>1, <1>2 DEF ListedAreAttended, ListTypes
<1>10. EdgeIsHeard'
  BY <1>1, <1>2 DEF EdgeIsHeard, ListTypes, Listens
<1>11. GoneAreAttended'
  BY <1>1, <1>2 DEF GoneAreAttended, ListTypes
<1> QED BY <1>3, <1>4, <1>5, <1>6, <1>7, <1>8, <1>9, <1>10, <1>11

\* An impervious client is listened to unless it is ignored.
LEMMA GrabImperviousLists ==
    ASSUME IndInv, GrabImpervious /\ pc = "exec" /\ state[cur] = "Running"
    PROVE  ListTypes' /\ ListInv'
<1> USE DEF IndInv, TypeOK, ListInv, GrabImpervious, table, lists, grab
<1>1. UNCHANGED <<Live, state>> /\ cur \in ready /\ cur \in Live /\ cur \in Ids
  <2>1. cur \in ready /\ cur \in Live
    BY ThreadClients
  <2> QED BY <2>1 DEF Live, table
<1>2. UNCHANGED Ignored
  BY DEF Ignored
<1>3. ListTypes'
  BY <1>1, <1>2 DEF ListTypes
<1>4. GoneIsUnreachable'
  BY <1>1, <1>2 DEF GoneIsUnreachable, ListTypes
<1>5. GrabHasHolder'
  BY <1>1, <1>2 DEF GrabHasHolder, ListTypes
<1>6. SavedAwaitsRelease'
  BY <1>1, <1>2 DEF SavedAwaitsRelease, ListTypes
<1>7. IgnoreCovers'
  BY <1>1, <1>2 DEF IgnoreCovers, ListTypes
<1>8. IgnoreIsBalanced'
  BY <1>1, <1>2 DEF IgnoreIsBalanced, ListTypes
<1>9. ListedAreAttended'
  BY <1>1, <1>2 DEF ListedAreAttended, ListTypes
<1>10. EdgeIsHeard'
  BY <1>1, <1>2 DEF EdgeIsHeard, ListTypes, Listens
<1>11. GoneAreAttended'
  BY <1>1, <1>2 DEF GoneAreAttended, ListTypes
<1> QED BY <1>3, <1>4, <1>5, <1>6, <1>7, <1>8, <1>9, <1>10, <1>11

\* A pervious client is not listened to under another's grab.
LEMMA GrabPerviousLists ==
    ASSUME IndInv, GrabPervious /\ pc = "exec" /\ state[cur] = "Running"
    PROVE  ListTypes' /\ ListInv'
<1> USE DEF IndInv, TypeOK, ListInv, GrabPervious, table, lists, grab
<1>1. UNCHANGED <<Live, state>> /\ cur \in ready /\ cur \in Live /\ cur \in Ids
  <2>1. cur \in ready /\ cur \in Live
    BY ThreadClients
  <2> QED BY <2>1 DEF Live, table
<1>2. UNCHANGED Ignored
  BY DEF Ignored
<1>3. ListTypes'
  BY <1>1, <1>2 DEF ListTypes
<1>4. GoneIsUnreachable'
  BY <1>1, <1>2 DEF GoneIsUnreachable, ListTypes
<1>5. GrabHasHolder'
  BY <1>1, <1>2 DEF GrabHasHolder, ListTypes
<1>6. SavedAwaitsRelease'
  BY <1>1, <1>2 DEF SavedAwaitsRelease, ListTypes
<1>7. IgnoreCovers'
  BY <1>1, <1>2 DEF IgnoreCovers, ListTypes
<1>8. IgnoreIsBalanced'
  BY <1>1, <1>2 DEF IgnoreIsBalanced, ListTypes
<1>9. ListedAreAttended'
  BY <1>1, <1>2 DEF ListedAreAttended, ListTypes
<1>10. EdgeIsHeard'
  BY <1>1, <1>2 DEF EdgeIsHeard, ListTypes, Listens
<1>11. GoneAreAttended'
  BY <1>1, <1>2 DEF GoneAreAttended, ListTypes
<1> QED BY <1>3, <1>4, <1>5, <1>6, <1>7, <1>8, <1>9, <1>10, <1>11

\* Releasing the grab wakes a waiter and lets everybody else in.
LEMMA UngrabRequestLists ==
    ASSUME IndInv, UngrabRequest
    PROVE  ListTypes' /\ ListInv'
<1>1. PICK W : Departs({}, W, 0)
  BY UngrabRequestDeparts DEF IndInv, TypeOK, ListInv
<1> QED BY <1>1, DepartsTypes, DepartsLists DEF IndInv, TypeOK, ListInv

\* A new client is live, listened to once it has bytes, and on no list.
LEMMA AcceptLists ==
    ASSUME IndInv, Accept
    PROVE  ListTypes' /\ ListInv'
<1> DEFINE c == nextFreeClientID
<1> USE DEF IndInv, TypeOK, ListInv, lists, grab
<1>1. c \in Ids /\ c \notin Live /\ c \notin Allocated
  BY AcceptTable DEF TableInv, FreeIDIsMinimal, Allocated
<1>2. state' = [state EXCEPT ![c] = "Initial"] /\ open' = open \cup {c}
  BY DEF Accept
<1>3. Live' = Live \cup {c}
  BY <1>1, <1>2 DEF Live, TableTypes
<1>4. UNCHANGED <<kernel, buffered, edge, impervious, lists, grab>>
  BY DEF Accept
<1>5. UNCHANGED Ignored
  BY <1>4 DEF Ignored
<1> HIDE DEF c
<1>6. ListTypes'
  BY <1>1, <1>2, <1>4 DEF ListTypes
<1>7. GoneIsUnreachable'
  BY <1>2, <1>3, <1>4 DEF GoneIsUnreachable
<1>8. GrabHasHolder'
  BY <1>1, <1>2, <1>4 DEF GrabHasHolder, Live, TableTypes, ListTypes
<1>9. IgnoreIsBalanced'
  <2>1. ignoreCount[c] = 0 /\ c \notin waiters /\ c \notin asleep
    BY <1>1 DEF GoneAreAttended, GoneIsUnreachable, Ignored
  <2> QED BY <1>2, <1>4, <2>1 DEF IgnoreIsBalanced
<1>10. ListedAreAttended'
  BY <1>1, <1>2, <1>4, <1>5 DEF ListedAreAttended, GoneIsUnreachable
<1>11. EdgeIsHeard'
  BY <1>4, <1>5 DEF EdgeIsHeard, Listens
<1>12. SavedAwaitsRelease' /\ IgnoreCovers' /\ GoneAreAttended'
  BY <1>3, <1>4, <1>5 DEF SavedAwaitsRelease, IgnoreCovers, GoneAreAttended
<1> QED BY <1>6, <1>7, <1>8, <1>9, <1>10, <1>11, <1>12

\* The connection setup of a client that is let in.
LEMMA AdmitClientData ==
    ASSUME IndInv, pc = "exec", state[cur] = "Initial", AdmitClient
    PROVE  DataInv'
<1> USE DEF IndInv, TypeOK
<1>1. cur \in Ids /\ cur \notin Authorized
  BY ThreadClients DEF Live, Authorized
<1>2. state' = [state EXCEPT ![cur] = "Running"] /\ nClients' = nClients + 1
  BY DEF AdmitClient
<1>3. UNCHANGED <<Allocated, Live>>
  BY <1>1, <1>2 DEF Allocated, Live, Gone, TableTypes
<1>4. Authorized' = Authorized \cup {cur}
  BY <1>1, <1>2 DEF Authorized, TableTypes
<1>5. nClients' = Cardinality(Authorized')
  BY <1>1, <1>2, <1>4, ClientsAreFew, FS_AddElement
     DEF TableInv, AuthorizedAreCounted, Authorized
<1>6. Cardinality(Authorized') \in 0 .. LimitClients - 1
  BY <1>4, <1>1, ClientsAreFew DEF Authorized
<1>7. TableTypes'
  BY <1>1, <1>2, <1>5, <1>6 DEF AdmitClient, TableTypes
<1>8. TableInv'
  BY <1>3, <1>5 DEF AdmitClient, TableInv, FreeIDIsMinimal, TableEndIsTight,
                    FailedAreAllocated, AuthorizedAreCounted, Authorized
<1>9. ListTypes' /\ ListInv'
  <2>1. grabClient # 0 => grabClient # cur
    BY DEF ListInv, GrabHasHolder
  <2>2. grabClient # 0 => state'[grabClient] = state[grabClient]
    BY <1>1, <1>2, <2>1 DEF ListTypes, TableTypes
  <2> QED BY <1>3, <2>2, ListsKept DEF AdmitClient
<1> QED BY <1>7, <1>8, <1>9 DEF DataInv

\* Every other request of a running client.
LEMMA ExecuteData ==
    ASSUME IndInv, Execute
    PROVE  DataInv'
<1> USE DEF IndInv, TypeOK
<1>1. pc = "exec" /\ state[cur] = "Running" /\ cur \in Live
  BY ThreadClients DEF Execute, Sends
<1>2. DataInv /\ cur \in Ids /\ cur \in Allocated
  BY <1>1 DEF DataInv, Live, Allocated
<1>3. ASSUME UNCHANGED <<table, fate>>, ListTypes' /\ ListInv'
      PROVE  DataInv'
  BY <1>3, TableKept DEF DataInv, TableInv, TableTypes, FailedAreAllocated, table, fate
<1>4. ASSUME UNCHANGED <<input, lists, grab, state>>, TableTypes' /\ TableInv'
      PROVE  DataInv'
  <2>1. Live' = Live
    BY <1>4 DEF Live
  <2> QED BY <1>4, <2>1, ListsKept DEF DataInv
<1>5. CASE NoOperation
  BY <1>2, <1>5, DataKept DEF NoOperation
<1>6. CASE GrabServerWaits
  BY <1>1, <1>3, <1>6, GrabServerWaitsLists DEF GrabServerWaits
<1>7. CASE GrabServerTaken
  BY <1>1, <1>3, <1>7, GrabServerTakenLists DEF GrabServerTaken, GrabIsFree
<1>8. CASE GrabDenied
  BY <1>1, <1>3, <1>8, GrabDeniedLists DEF GrabDenied
<1>9. CASE UngrabRequest
  BY <1>3, <1>9, UngrabRequestLists DEF UngrabRequest
<1>10. CASE GrabImpervious
  BY <1>1, <1>3, <1>10, GrabImperviousLists DEF GrabImpervious
<1>11. CASE GrabPervious
  BY <1>1, <1>3, <1>11, GrabPerviousLists DEF GrabPervious
<1>12. CASE Sleep
  BY <1>1, <1>3, <1>12, SleepLists DEF Sleep
<1>13. CASE ChangeCloseDownMode
  <2>1. mode' \in [Ids -> Modes]
    BY <1>2, <1>13 DEF ChangeCloseDownMode, TableTypes
  <2>2. TableTypes' /\ TableInv'
    BY <1>13, <2>1, TableKept
       DEF ChangeCloseDownMode, TableInv, TableTypes, FailedAreAllocated, fate
  <2> QED BY <1>4, <1>13, <2>2 DEF ChangeCloseDownMode
<1>14. CASE KillClient
  <2>1. PICK c \in Ids : state[c] \in {"Running", "Retained"} /\ CloseDownClient(c)
    BY <1>14 DEF KillClient
  <2>2. c \in Allocated
    BY <2>1 DEF Allocated, Live, Gone
  <2> QED BY <1>2, <2>1, <2>2, CloseDownClientKeeps
<1>15. CASE KillTemporary
  BY <1>2, <1>15, DataKept DEF KillTemporary
<1>16. CASE DisconnectMode
  <2>1. disconnect' \subseteq Ids
    BY <1>2, <1>16 DEF DisconnectMode, TableTypes
  <2>2. TableTypes' /\ TableInv'
    BY <1>16, <2>1, TableKept
       DEF DisconnectMode, TableInv, TableTypes, FailedAreAllocated, table
  <2> QED BY <1>4, <1>16, <2>2 DEF DisconnectMode, table
<1> QED BY <1>5, <1>6, <1>7, <1>8, <1>9, <1>10, <1>11, <1>12, <1>13, <1>14, <1>15, <1>16
        DEF Execute, GrabServer

\* Every step keeps the table and the lists right.
LEMMA DataStep ==
    ASSUME IndInv, [Next]_vars
    PROVE  DataInv'
<1> USE DEF IndInv, TypeOK
<1>1. DataInv
  BY DEF DataInv
<1>2. ASSUME UNCHANGED <<table, fate>>, ListTypes' /\ ListInv'
      PROVE  DataInv'
  BY <1>2, TableKept DEF DataInv, TableInv, TableTypes, FailedAreAllocated, table, fate
<1>3. ASSUME UNCHANGED <<input, lists, grab, state>>, TableTypes' /\ TableInv'
      PROVE  DataInv'
  <2>1. Live' = Live
    BY <1>3 DEF Live
  <2> QED BY <1>3, <2>1, ListsKept DEF DataInv
<1>4. ASSUME UNCHANGED <<table, fate, input, lists, grab>>
      PROVE  DataInv'
  BY <1>1, <1>4, DataKept
<1>5. ASSUME NEW c \in Ids, HangUp(c) \/ ReadEvent(c) \/ Wakeup(c)
      PROVE  DataInv'
  <2>1. CASE HangUp(c)
    BY <1>1, <2>1, CloseDownClientKeeps DEF HangUp, ListInv, GoneIsUnreachable, Allocated
  <2>2. CASE ReadEvent(c)
    BY <1>2, <2>2, ReadEventLists DEF ReadEvent
  <2>3. CASE Wakeup(c)
    BY <1>2, <2>3, WakeupLists DEF Wakeup
  <2> QED BY <1>5, <2>1, <2>2, <2>3
<1>6. CASE ExceptionTimerFires \/ Connection
  <2>1. CASE ExceptionTimerFires
    <3>1. TableTypes' /\ TableInv'
      BY <2>1, TableKept
         DEF ExceptionTimerFires, TableInv, TableTypes, FailedAreAllocated, table
    <3> QED BY <1>3, <2>1, <3>1 DEF ExceptionTimerFires, table
  <2>2. CASE Connection
    BY <1>4, <2>2 DEF Connection
  <2> QED BY <1>6, <2>1, <2>2
<1>7. CASE Accepting
  <2>1. CASE CloseStraggler
    <3>1. scan \in Ids /\ state[scan] # "Free"
      BY <2>1, ThreadClients DEF CloseStraggler, Straggler
    <3>2. scan \in Allocated
      BY <3>1 DEF Allocated, Live, Gone, TableTypes
    <3> QED BY <1>1, <2>1, <3>2, CloseDownClientKeeps DEF CloseStraggler
  <2>2. CASE KeepClient \/ RejectConnection
    BY <1>4, <2>2 DEF KeepClient, RejectConnection
  <2>3. CASE Accept
    BY <2>3, AcceptTable, AcceptLists DEF DataInv
  <2> QED BY <1>7, <2>1, <2>2, <2>3 DEF Accepting
<1>8. CASE Environment
  <2>1. ASSUME NEW c \in Ids, DataArrives(c)
        PROVE  DataInv'
    BY <1>2, <2>1, DataArrivesLists DEF DataArrives
  <2>2. ASSUME NEW c \in Ids, OutputError(c)
        PROVE  DataInv'
    <3>1. c \in Allocated
      BY <2>2 DEF OutputError, ListInv, GoneIsUnreachable, Allocated
    <3>2. TableTypes' /\ TableInv'
      BY <2>2, <3>1, TableKept
         DEF OutputError, TableInv, TableTypes, FailedAreAllocated, table
    <3> QED BY <2>2, <3>2, OutputErrorLists DEF DataInv
  <2>3. CASE GiveUp
    <3>1. TableTypes' /\ TableInv'
      BY <2>3, TableKept DEF GiveUp, TableInv, TableTypes, FailedAreAllocated, table
    <3> QED BY <1>3, <2>3, <3>1 DEF GiveUp, table
  <2> QED BY <1>8, <2>1, <2>2, <2>3 DEF Environment
<1>9. ASSUME NEW c \in Ids, Schedule(c)
      PROVE  DataInv'
  BY <1>4, <1>9 DEF Schedule
<1>10. CASE SliceEnds \/ AfterRequest \/ AfterFreed \/ LeaveLoop \/ Stop
  BY <1>4, <1>10 DEF SliceEnds, AfterRequest, AfterFreed, LeaveLoop, Stop
<1>11. CASE ReadRequest
  BY <1>2, <1>11, ReadRequestLists DEF ReadRequest
<1>12. CASE ReadPartial
  BY <1>2, <1>12, ReadPartialLists DEF ReadPartial
<1>13. CASE ReadNothing
  BY <1>2, <1>13, ReadNothingLists DEF ReadNothing
<1>14. CASE ReadFails
  BY <1>1, <1>14, ThreadClients, CloseDownClientKeeps DEF ReadFails, Allocated
<1>15. CASE Execute
  BY <1>15, ExecuteData
<1>16. CASE ConnectionSetup
  <2>1. CASE RefuseClient
    <3>1. cur \in Allocated
      BY <1>16, ThreadClients DEF ConnectionSetup, Allocated
    <3>2. TableTypes' /\ TableInv'
      BY <2>1, <3>1, TableKept DEF RefuseClient, TableInv, TableTypes, FailedAreAllocated, table
    <3> QED BY <1>3, <2>1, <3>2 DEF RefuseClient, table
  <2> QED BY <1>16, <2>1, AdmitClientData DEF ConnectionSetup
<1>17. CASE KillScan
  <2>1. CASE scan < currentMaxClients /\ scan \in Gone /\ mode[scan] = "RetainTemporary"
    BY <1>1, <1>17, <2>1, CloseDownClientKeeps DEF KillScan, Allocated
  <2>2. CASE ~(scan < currentMaxClients /\ scan \in Gone /\ mode[scan] = "RetainTemporary")
    BY <1>4, <1>17, <2>2 DEF KillScan
  <2> QED BY <2>1, <2>2
<1>18. CASE CloseFailed
  BY <1>1, <1>18, CloseDownClientKeeps DEF CloseFailed, TableInv, FailedAreAllocated
<1>19. CASE KillAllScan
  <2>1. scan \in Ids
    BY <1>19, ThreadClients DEF KillAllScan
  <2>2. CASE state[scan] = "Free"
    BY <1>4, <1>19, <2>2 DEF KillAllScan
  <2>3. CASE state[scan] # "Free" /\ (mode[scan] = "DestroyAll" \/ scan \in Gone)
    <3>1. scan \in Allocated
      BY <2>1, <2>3 DEF Allocated, Live, Gone, TableTypes
    <3> QED BY <1>1, <1>19, <2>3, <3>1, CloseDownClientKeeps DEF KillAllScan
  <2>4. CASE state[scan] # "Free" /\ ~(mode[scan] = "DestroyAll" \/ scan \in Gone)
    <3>1. mode' = [mode EXCEPT ![scan] = "DestroyAll"]
          /\ UNCHANGED <<state, nClients, nextFreeClientID, currentMaxClients,
                         fate, input, lists, grab>>
      BY <1>19, <2>4 DEF KillAllScan
    <3>2. TableTypes' /\ TableInv'
      BY <3>1, TableKept DEF TableInv, TableTypes, FailedAreAllocated, Modes, fate
    <3> QED BY <1>3, <3>1, <3>2
  <2> QED BY <2>2, <2>3, <2>4
<1>20. CASE Halted \/ UNCHANGED vars
  BY <1>4, <1>20 DEF Halted, vars
<1> QED BY <1>5, <1>6, <1>7, <1>8, <1>9, <1>10, <1>11, <1>12, <1>13, <1>14, <1>15, <1>16,
           <1>17, <1>18, <1>19, <1>20 DEF Next, Poll, InnerLoop

-----------------------------------------------------------------------------
(* The thread.                                                             *)

\* A step that leaves the thread where it is, and cur ready, keeps it right.
LEMMA LoopKept ==
    ASSUME LoopTypes, LoopInv, UNCHANGED loop,
           cur \in ready /\ pc \in {"run", "exec", "killTemp", "result"} => cur \in ready'
    PROVE  LoopTypes' /\ LoopInv'
  BY DEF LoopTypes, LoopInv, CurIsReady, ScanInTable, loop

\* Back at the top of Dispatch's loop the thread works for nobody.
LEMMA BackToWaitLoop ==
    ASSUME BackToWait
    PROVE  LoopTypes' /\ LoopInv'
<1>1. pc' = "wait" /\ cur' = 0 /\ isItTimeToYield' = FALSE /\ scan' = 0
  BY DEF BackToWait
<1>2. LoopTypes'
  <2>1. isItTimeToYield' \in BOOLEAN
    BY <1>1
  <2>2. scan' \in 0 .. LimitClients
    BY <1>1, LimitAssumption
  <2> QED BY <1>1, <2>1, <2>2 DEF LoopTypes
<1>3. LoopInv'
  BY <1>1 DEF LoopInv, CurIsReady, ScanInTable
<1> QED BY <1>2, <1>3

\* A scan stays inside the table.
LEMMA ScanNextLoop ==
    ASSUME IndInv, ScanNext, scan < currentMaxClients, pc \in {"accept", "killTemp", "killAll"},
           pc = "killTemp" => cur \in ready'
    PROVE  LoopTypes' /\ LoopInv'
<1> USE LimitAssumption
<1>1. scan \in Ids /\ scan + 1 \in Ids \cup {LimitClients}
  <2>1. scan \in Ids
    BY ThreadClients
  <2>2. currentMaxClients \in 1 .. LimitClients
    BY DEF IndInv, TypeOK, TableTypes
  <2> QED BY <2>1, <2>2 DEF Ids
<1>2. scan' = scan + 1 /\ UNCHANGED <<pc, cur, isItTimeToYield>>
  BY DEF ScanNext
<1>3. scan' \in 0 .. LimitClients
  BY <1>1, <1>2 DEF Ids
<1>4. LoopTypes'
  BY <1>2, <1>3 DEF IndInv, TypeOK, LoopTypes
<1>5. LoopInv'
  BY <1>1, <1>2 DEF IndInv, LoopInv, CurIsReady, ScanInTable
<1> QED BY <1>4, <1>5

\* When a handler returns without yielding, its client is still ready.
LEMMA ReturnLoop ==
    ASSUME IndInv, cur \in Ids, NEW yields \in BOOLEAN, Return(yields),
           ~yields => cur \in ready'
    PROVE  LoopTypes' /\ LoopInv'
<1>1. LoopTypes'
  BY DEF IndInv, TypeOK, LoopTypes, Return
<1>2. LoopInv'
  BY DEF LoopInv, CurIsReady, ScanInTable, Return
<1> QED BY <1>1, <1>2

\* A running client's request leaves it ready, or yields.
LEMMA ExecuteLoop ==
    ASSUME IndInv, Execute
    PROVE  LoopTypes' /\ LoopInv'
<1>1. pc = "exec" /\ state[cur] = "Running" /\ cur \in Live /\ cur \in ready /\ cur \in Ids
  BY ThreadClients DEF Execute, Sends, Live
<1>2. isItTimeToYield \in BOOLEAN
  BY DEF IndInv, TypeOK, LoopTypes
<1>3. DataInv
  BY DEF IndInv, TypeOK, DataInv
<1>4. CASE NoOperation \/ GrabDenied \/ GrabImpervious \/ ChangeCloseDownMode \/ DisconnectMode
  <2>1. Return(isItTimeToYield) /\ ready' = ready
    BY <1>4 DEF NoOperation, GrabDenied, GrabImpervious, ChangeCloseDownMode, DisconnectMode,
                lists
  <2> QED BY <1>1, <1>2, <2>1, ReturnLoop
<1>5. CASE GrabServerWaits \/ GrabPervious
  <2>1. Return(TRUE)
    BY <1>5 DEF GrabServerWaits, GrabPervious
  <2> QED BY <1>1, <2>1, ReturnLoop
<1>6. CASE GrabServerTaken
  BY <1>1, <1>2, <1>6, ReturnLoop DEF GrabServerTaken, GrabIsFree, MarkGrab
<1>7. CASE UngrabRequest
  <2>1. PICK W : Departs({}, W, 0)
    BY <1>7, UngrabRequestDeparts DEF IndInv, TypeOK, ListInv
  <2>2. cur \in ready'
    BY <1>1, <2>1 DEF Departs
  <2> QED BY <1>1, <1>2, <1>7, <2>2, ReturnLoop DEF UngrabRequest
<1>8. CASE Sleep
  <2>1. ignoreCount[cur] # 0 => ready' = ready
    BY <1>8 DEF Sleep, IgnoreClient
  <2>2. PICK yields \in BOOLEAN : yields = (isItTimeToYield \/ ignoreCount[cur] = 0)
    OBVIOUS
  <2>3. Return(yields)
    BY <1>2, <1>8, <2>2 DEF Sleep
  <2> QED BY <1>1, <2>1, <2>2, <2>3, ReturnLoop
<1>9. CASE KillClient
  <2>1. PICK c \in Ids : /\ state[c] \in {"Running", "Retained"} /\ CloseDownClient(c)
                         /\ Return(isItTimeToYield \/ c = cur)
    BY <1>9 DEF KillClient
  <2>2. c \in Allocated
    BY <2>1 DEF Allocated, Live, Gone
  <2>3. ready \ {c} \subseteq ready'
    BY <1>3, <2>1, <2>2, CloseDownClientKeeps
  <2>4. PICK yields \in BOOLEAN : yields = (isItTimeToYield \/ c = cur)
    OBVIOUS
  <2>5. Return(yields)
    BY <1>2, <2>1, <2>4
  <2> QED BY <1>1, <2>3, <2>4, <2>5, ReturnLoop
<1>10. CASE KillTemporary
  BY <1>1, <1>10, LimitAssumption
     DEF KillTemporary, IndInv, TypeOK, LoopTypes, LoopInv, CurIsReady, ScanInTable, lists, Ids
<1> QED BY <1>4, <1>5, <1>6, <1>7, <1>8, <1>9, <1>10 DEF Execute, GrabServer

\* Every step keeps the thread right.
LEMMA LoopStep ==
    ASSUME IndInv, [Next]_vars
    PROVE  LoopTypes' /\ LoopInv'
<1> USE LimitAssumption
<1>1. LoopTypes /\ LoopInv /\ DataInv /\ ListTypes
  BY DEF IndInv, TypeOK, DataInv
<1>2. ASSUME NEW c \in Ids, HangUp(c) \/ ReadEvent(c) \/ Wakeup(c)
      PROVE  LoopTypes' /\ LoopInv'
  <2>1. CASE HangUp(c)
    BY <1>1, <2>1, LoopKept DEF HangUp
  <2>2. CASE ReadEvent(c)
    BY <1>1, <2>2, LoopKept DEF ReadEvent
  <2>3. CASE Wakeup(c)
    <3>1. ready \subseteq ready'
      BY <2>3 DEF Wakeup, AttendClient, ReadyOrSaved
    <3> QED BY <1>1, <2>3, <3>1, LoopKept DEF Wakeup
  <2> QED BY <1>2, <2>1, <2>2, <2>3
<1>3. CASE ExceptionTimerFires
  BY <1>1, <1>3, LoopKept DEF ExceptionTimerFires, lists
<1>4. CASE Connection
  BY <1>1, <1>4 DEF Connection, LoopTypes, LoopInv, CurIsReady, ScanInTable, Ids
<1>5. CASE Accepting
  <2>1. CASE CloseStraggler \/ KeepClient
    BY <2>1, ScanNextLoop DEF CloseStraggler, KeepClient
  <2>2. CASE Accept \/ RejectConnection
    BY <2>2, BackToWaitLoop DEF Accept, RejectConnection
  <2> QED BY <1>5, <2>1, <2>2 DEF Accepting
<1>6. CASE Environment
  <2>1. ASSUME NEW c \in Ids, DataArrives(c) \/ OutputError(c)
        PROVE  LoopTypes' /\ LoopInv'
    <3>1. ready \subseteq ready'
      BY <2>1 DEF DataArrives, OutputError, MarkAborted, MarkReady, lists
    <3> QED BY <1>1, <2>1, <3>1, LoopKept DEF DataArrives, OutputError
  <2>2. CASE GiveUp
    <3>1. UNCHANGED <<pc, cur, scan, ready>>
      BY <2>2 DEF GiveUp, lists
    <3>2. isItTimeToYield' = (pc \in {"run", "exec", "result", "killTemp"})
      BY <2>2 DEF GiveUp
    <3>3. isItTimeToYield' \in BOOLEAN
      BY <3>2
    <3>4. pc = "result" => isItTimeToYield'
      BY <3>2
    <3> QED BY <1>1, <3>1, <3>3, <3>4 DEF LoopTypes, LoopInv, CurIsReady, ScanInTable
  <2> QED BY <1>6, <2>1, <2>2 DEF Environment
<1>7. ASSUME NEW c \in Ids, Schedule(c)
      PROVE  LoopTypes' /\ LoopInv'
  BY <1>1, <1>7 DEF Schedule, LoopTypes, LoopInv, CurIsReady, ScanInTable, lists
<1>8. CASE SliceEnds \/ ReadPartial \/ ReadNothing \/ ReadFails \/ CloseFailed
  BY <1>8, BackToWaitLoop DEF SliceEnds, ReadPartial, ReadNothing, ReadFails, CloseFailed
<1>9. CASE ReadRequest
  BY <1>1, <1>9 DEF ReadRequest, Goto, LoopTypes, LoopInv, CurIsReady, ScanInTable, lists
<1>10. CASE Execute
  BY <1>10, ExecuteLoop
<1>11. CASE ConnectionSetup
  <2>1. Return(isItTimeToYield) /\ ready' = ready
    BY <1>11 DEF ConnectionSetup, RefuseClient, AdmitClient, lists
  <2>2. cur \in ready /\ cur \in Ids
    BY <1>11, ThreadClients DEF ConnectionSetup, Live
  <2> QED BY <1>1, <2>1, <2>2, ReturnLoop DEF LoopTypes
<1>12. CASE KillScan
  <2>1. cur \in ready /\ cur \in Live /\ cur \in Ids
    BY <1>12, ThreadClients DEF KillScan, Live
  <2>2. CASE scan < currentMaxClients
    <3>1. CASE scan \in Gone /\ mode[scan] = "RetainTemporary"
      <4>1. CloseDownClient(scan) /\ ScanNext /\ pc = "killTemp"
        BY <1>12, <2>2, <3>1 DEF KillScan
      <4>2. scan \in Allocated /\ scan # cur
        BY <2>1, <3>1 DEF Allocated, Live, Gone
      <4>3. cur \in ready'
        BY <1>1, <2>1, <4>1, <4>2, CloseDownClientKeeps
      <4> QED BY <2>2, <4>1, <4>3, ScanNextLoop
    <3>2. CASE ~(scan \in Gone /\ mode[scan] = "RetainTemporary")
      BY <1>12, <2>1, <2>2, <3>2, ScanNextLoop DEF KillScan, lists
    <3> QED BY <3>1, <3>2
  <2>3. CASE ~(scan < currentMaxClients)
    BY <1>1, <1>12, <2>1, <2>3
       DEF KillScan, LoopTypes, LoopInv, CurIsReady, ScanInTable, lists
  <2> QED BY <2>2, <2>3
<1>13. CASE AfterRequest
  <2>1. CASE BackToWait
    BY <2>1, BackToWaitLoop
  <2>2. CASE ~isItTimeToYield /\ Goto("run")
    BY <1>1, <1>13, <2>2
       DEF AfterRequest, Goto, LoopTypes, LoopInv, CurIsReady, ScanInTable, lists
  <2> QED BY <1>13, <2>1, <2>2 DEF AfterRequest
<1>14. CASE AfterFreed
  <2>1. CASE BackToWait
    BY <2>1, BackToWaitLoop
  <2>2. CASE Goto("crashed")
    BY <1>1, <2>2 DEF Goto, LoopTypes, LoopInv, CurIsReady, ScanInTable
  <2> QED BY <1>14, <2>1, <2>2 DEF AfterFreed
<1>15. CASE LeaveLoop
  BY <1>1, <1>15 DEF LeaveLoop, LoopTypes, LoopInv, CurIsReady, ScanInTable, Ids
<1>16. CASE KillAllScan
  <2>1. CASE ScanNext
    BY <1>16, <2>1, ScanNextLoop DEF KillAllScan
  <2>2. CASE ~ScanNext
    BY <1>1, <1>16, <2>2, LoopKept DEF KillAllScan
  <2> QED BY <2>1, <2>2
<1>17. CASE Stop
  BY <1>1, <1>17 DEF Stop, Goto, LoopTypes, LoopInv, CurIsReady, ScanInTable
<1>18. CASE Halted \/ UNCHANGED vars
  BY <1>1, <1>18, LoopKept DEF Halted, vars, lists
<1> QED BY <1>2, <1>3, <1>4, <1>5, <1>6, <1>7, <1>8, <1>9, <1>10, <1>11, <1>12, <1>13, <1>14,
           <1>15, <1>16, <1>17, <1>18 DEF Next, Poll, InnerLoop

-----------------------------------------------------------------------------
(* Input that has arrived.                                                 *)

\* A step that takes no client off the lists it is on, mutes or opens none and
\* brings no input loses none.
LEMMA InputKept ==
    ASSUME InputInv,
           UNCHANGED <<Ignored, GrabInProgress, impervious, open>>,
           kernel' \subseteq kernel, buffered' \subseteq buffered,
           ready \cup saved \subseteq ready' \cup saved',
           edge \subseteq edge' \cup ready' \cup saved'
    PROVE  InputInv'
  BY DEF InputInv, NoLostInput, KernelIsOpen, Listens

\* UngrabServer wakes the clients that are parked, attends the one it takes
\* from the mask and listens to everybody again.
LEMMA UngrabServerInput ==
    ASSUME ListTypes, ListInv, InputInv,
           NEW D \in SUBSET Ids, UngrabServer(D),
           open' = open \ D, kernel' = kernel \ D, buffered' = buffered \ D
    PROVE  InputInv'
<1> DEFINE W == IF waiters = {} THEN {} ELSE {NextWaiter}
           count == [c \in Ids |-> IF c \in D THEN 0
                                   ELSE IF c \in W THEN ignoreCount[c] - 1
                                   ELSE ignoreCount[c]]
           attended == {c \in W : ignoreCount[c] = 1}
           ignored == {c \in Ids : count[c] # 0}
           polled == IF GrabInProgress # 0 THEN Ids ELSE attended
<1>1. W \subseteq waiters /\ W \subseteq Ids
  BY NextWaiterWaits DEF ListTypes
<1>2. /\ ignoreCount' = count
      /\ edge' = ((edge \ polled) \cup (polled \cap Rearmed(ignored, 0))) \ D
      /\ ready' = (ready \cup saved \cup attended) \ D
      /\ GrabInProgress' = 0
  BY DEF UngrabServer, GrabReleased
<1> HIDE DEF W
<1>3. \A c \in Ids \ D : c \notin ignored <=> c \notin Ignored \/ c \in attended
  <2>1. SUFFICES ASSUME NEW c \in Ids \ D
                 PROVE  c \notin ignored <=> c \notin Ignored \/ c \in attended
    OBVIOUS
  <2>2. ignoreCount[c] \in Nat /\ (c \in W => ignoreCount[c] >= 1)
    BY <1>1 DEF ListTypes, ListInv, IgnoreCovers
  <2>3. count[c] = IF c \in W THEN ignoreCount[c] - 1 ELSE ignoreCount[c]
    OBVIOUS
  <2> HIDE DEF count
  <2>4. count[c] = 0 <=> ignoreCount[c] = 0 \/ (c \in W /\ ignoreCount[c] = 1)
    BY <2>2, <2>3
  <2> QED BY <2>4 DEF Ignored
<1>4. Ignored' = ignored
  BY <1>2 DEF Ignored
<1> HIDE DEF count, ignored, attended
<1>5. SUFFICES ASSUME NEW c \in open' \ Ignored'
               PROVE  /\ c \in buffered' => c \in ready'
                      /\ c \in kernel' => c \in ready' \cup edge'
  BY <1>2 DEF InputInv, NoLostInput, KernelIsOpen
<1>6. c \in open /\ c \in Ids \ D /\ c \notin ignored
  BY <1>4, <1>5 DEF ListTypes
<1>7. CASE c \in attended
  BY <1>2, <1>6, <1>7
<1>8. CASE c \notin attended
  <2>1. c \notin Ignored
    BY <1>3, <1>6, <1>8
  <2>2. c \in buffered => c \in ready'
    BY <1>2, <1>6, <2>1 DEF InputInv, NoLostInput
  <2>3. CASE GrabInProgress # 0
    <3>1. c \in kernel => c \in polled \cap Rearmed(ignored, 0)
      BY <1>6, <2>3 DEF Rearmed, Listens
    <3> HIDE DEF polled
    <3> QED BY <1>2, <1>6, <2>2, <3>1
  <2>4. CASE GrabInProgress = 0
    <3>1. c \notin polled
      BY <1>8, <2>4
    <3>2. c \in kernel => c \in ready \cup saved \cup edge
      BY <1>6, <2>1, <2>4 DEF InputInv, NoLostInput, Listens
    <3> HIDE DEF polled
    <3> QED BY <1>2, <1>6, <2>2, <3>1, <3>2
  <2> QED BY <2>2, <2>3, <2>4
<1> QED BY <1>7, <1>8

\* A client that leaves takes nobody else's input along.
LEMMA CloseDownClientInput ==
    ASSUME ListTypes, ListInv, InputInv, NEW c \in Ids, CloseDownClient(c)
    PROVE  InputInv'
<1>1. /\ open' = open \ {c} /\ kernel' = kernel \ {c} /\ buffered' = buffered \ {c}
      /\ impervious' = impervious \ {c}
  BY DEF CloseDownClient
<1>2. CASE grabClient = c
  <2>1. UngrabServer({c}) /\ {c} \in SUBSET Ids
    BY <1>2 DEF CloseDownClient
  <2> QED BY <1>1, <2>1, UngrabServerInput
<1>3. CASE grabClient # c
  <2>1. /\ GrabInProgress' = GrabInProgress
        /\ ignoreCount' = [ignoreCount EXCEPT ![c] = 0]
        /\ ready' = ready \ {c} /\ saved' = saved \ {c} /\ edge' = edge \ {c}
    BY <1>3 DEF CloseDownClient, LeaveLists
  <2>2. \A d \in Ids \ {c} : d \in Ignored' <=> d \in Ignored
    BY <2>1 DEF Ignored, ListTypes
  <2>3. \A d \in open' : d \in Ids \ {c}
    BY <1>1 DEF ListTypes
  <2> QED BY <1>1, <2>1, <2>2, <2>3 DEF InputInv, NoLostInput, KernelIsOpen, Listens
<1> QED BY <1>2, <1>3

\* ClientWakeup puts a client it attends to on one of the two lists.
LEMMA WakeupInput ==
    ASSUME IndInv, InputInv, NEW e \in Ids, Wakeup(e)
    PROVE  InputInv'
<1>1. ListTypes /\ ListInv
  BY DEF IndInv, TypeOK
<1>2. Ignored' = (IF ignoreCount[e] = 1 THEN Ignored \ {e} ELSE Ignored)
  BY <1>1, AttendClientEffect DEF Wakeup, ListInv
<1>3. UNCHANGED <<open, kernel, buffered, impervious, GrabInProgress>>
  BY DEF Wakeup, grab
<1>4. CASE ignoreCount[e] # 1
  <2>1. UNCHANGED <<ready, saved, edge>>
    BY <1>4 DEF Wakeup, AttendClient
  <2> QED BY <1>2, <1>3, <1>4, <2>1, InputKept
<1>5. CASE ignoreCount[e] = 1
  <2>1. ready \cup saved \cup {e} \subseteq ready' \cup saved' /\ edge \ {e} \subseteq edge'
    BY <1>5 DEF Wakeup, AttendClient, ReadyOrSaved, RearmedOne
  <2> QED BY <1>2, <1>3, <1>5, <2>1 DEF InputInv, NoLostInput, KernelIsOpen, Listens
<1> QED BY <1>4, <1>5

\* A client that is put to sleep or in the queue for the grab is not read from.
LEMMA IgnoreClientInput ==
    ASSUME ListTypes, InputInv, NEW c \in Ids, IgnoreClient(c),
           UNCHANGED <<open, kernel, impervious, GrabInProgress>>,
           buffered' \subseteq buffered \cup {c}
    PROVE  InputInv'
<1>1. /\ Ignored' = Ignored \cup {c}
      /\ ready \ {c} \subseteq ready' /\ saved \ {c} \subseteq saved' /\ edge \ {c} \subseteq edge'
  BY IgnoreClientEffect
<1> QED BY <1>1 DEF InputInv, NoLostInput, KernelIsOpen, Listens

\* Of the requests, those that grab and release the server and those that
\* exempt a client from the grab change who is listened to.
LEMMA ExecuteInput ==
    ASSUME IndInv, InputInv, Execute
    PROVE  InputInv'
<1>1. cur \in Ids /\ cur \in ready
  BY ThreadClients DEF Execute, Sends, Live
<1>2. ListTypes /\ ListInv /\ IgnoreCovers /\ GrabHasHolder
  BY DEF IndInv, TypeOK, ListInv
<1>3. CASE NoOperation \/ ChangeCloseDownMode \/ KillTemporary \/ DisconnectMode
  BY <1>3, InputKept
     DEF NoOperation, ChangeCloseDownMode, KillTemporary, DisconnectMode, lists, input, grab, Ignored
<1>4. CASE GrabDenied
  BY <1>4, InputKept DEF GrabDenied, input, grab, Ignored
<1>5. CASE GrabServerWaits
  BY <1>1, <1>2, <1>5, IgnoreClientInput DEF GrabServerWaits
<1>6. CASE Sleep
  BY <1>1, <1>2, <1>6, IgnoreClientInput DEF Sleep, grab
<1>7. CASE GrabServerTaken
  <2>1. /\ UNCHANGED <<open, kernel, buffered, impervious, Ignored>>
        /\ ready \cup saved \subseteq ready' \cup saved'
    BY <1>7 DEF GrabServerTaken, MarkGrab, Ignored
  <2>2. CASE GrabInProgress = 0
    BY <1>1, <1>7, <2>1, <2>2
       DEF GrabServerTaken, InputInv, NoLostInput, KernelIsOpen, Rearmed, Listens
  <2>3. CASE GrabInProgress # 0
    BY <1>7, <2>1, <2>3, InputKept DEF GrabServerTaken
  <2> QED BY <2>2, <2>3
<1>8. CASE UngrabRequest
  <2>1. UngrabServer({}) /\ UNCHANGED <<open, kernel, buffered, impervious>>
    BY <1>8 DEF UngrabRequest
  <2> QED BY <1>2, <2>1, UngrabServerInput
<1>9. CASE GrabImpervious \/ GrabPervious
  <2>1. /\ UNCHANGED <<open, kernel, buffered, ready, saved, GrabInProgress, Ignored>>
        /\ edge \ {cur} \subseteq edge'
        /\ impervious' \subseteq impervious \cup {cur}
    BY <1>9 DEF GrabImpervious, GrabPervious, lists, grab, Ignored
  <2> QED BY <1>1, <2>1 DEF InputInv, NoLostInput, KernelIsOpen, Listens
<1>10. CASE KillClient
  BY <1>2, <1>10, CloseDownClientInput DEF KillClient
<1> QED BY <1>3, <1>4, <1>5, <1>6, <1>7, <1>8, <1>9, <1>10 DEF Execute, GrabServer

\* Every step keeps every client's input announced.
LEMMA InputStep ==
    ASSUME IndInv, InputInv, [Next]_vars
    PROVE  InputInv'
<1>1. ListTypes /\ ListInv /\ LoopInv /\ TableTypes
  BY DEF IndInv, TypeOK
<1>2. ASSUME UNCHANGED <<input, lists, grab>>
      PROVE  InputInv'
  BY <1>2, InputKept DEF input, lists, grab, Ignored
<1>3. ASSUME NEW c \in Ids, HangUp(c) \/ ReadEvent(c) \/ Wakeup(c)
      PROVE  InputInv'
  <2>1. CASE HangUp(c)
    BY <1>1, <2>1, CloseDownClientInput DEF HangUp
  <2>2. CASE ReadEvent(c)
    BY <2>2, InputKept DEF ReadEvent, MarkReady, grab, Ignored
  <2>3. CASE Wakeup(c)
    BY <2>3, WakeupInput
  <2> QED BY <1>3, <2>1, <2>2, <2>3
<1>4. CASE ExceptionTimerFires \/ Connection
  BY <1>2, <1>4 DEF ExceptionTimerFires, Connection
<1>5. CASE Accepting
  <2>1. CASE CloseStraggler
    <3>1. scan \in Ids
      BY <2>1, ThreadClients DEF CloseStraggler
    <3> QED BY <1>1, <2>1, <3>1, CloseDownClientInput DEF CloseStraggler
  <2>2. CASE KeepClient \/ RejectConnection
    BY <1>2, <2>2 DEF KeepClient, RejectConnection
  <2>3. CASE Accept
    <3>1. nextFreeClientID \notin Live /\ open' = open \cup {nextFreeClientID}
      BY <2>3 DEF Accept, IndInv, TableInv, FreeIDIsMinimal, Allocated
    <3>2. UNCHANGED <<kernel, buffered, edge, impervious, ready, saved, GrabInProgress, Ignored>>
      BY <2>3 DEF Accept, lists, grab, Ignored
    <3>3. nextFreeClientID \notin kernel \cup buffered
      BY <1>1, <3>1 DEF InputInv, KernelIsOpen, ListInv, GoneIsUnreachable
    <3> QED BY <3>1, <3>2, <3>3 DEF InputInv, NoLostInput, KernelIsOpen, Listens
  <2> QED BY <1>5, <2>1, <2>2, <2>3 DEF Accepting
<1>6. CASE Environment
  <2>1. ASSUME NEW c \in Ids, DataArrives(c)
        PROVE  InputInv'
    <3>1. UNCHANGED <<open, buffered, impervious, ready, saved, GrabInProgress, Ignored>>
      BY <2>1 DEF DataArrives, lists, grab, Ignored
    <3> QED BY <2>1, <3>1 DEF DataArrives, InputInv, NoLostInput, KernelIsOpen, Listens
  <2>2. ASSUME NEW c \in Ids, OutputError(c)
        PROVE  InputInv'
    <3>1. /\ UNCHANGED <<buffered, impervious, saved, GrabInProgress, Ignored>>
          /\ open' = open \ {c} /\ kernel' = kernel \ {c} /\ edge' = edge \ {c}
          /\ ready \subseteq ready'
      BY <2>2 DEF OutputError, MarkAborted, MarkReady, grab, Ignored
    <3> QED BY <3>1 DEF InputInv, NoLostInput, KernelIsOpen, Listens
  <2>3. CASE GiveUp
    BY <1>2, <2>3 DEF GiveUp
  <2> QED BY <1>6, <2>1, <2>2, <2>3 DEF Environment
<1>7. ASSUME NEW c \in Ids, Schedule(c)
      PROVE  InputInv'
  BY <1>2, <1>7 DEF Schedule
<1>8. CASE SliceEnds \/ AfterRequest \/ AfterFreed \/ LeaveLoop \/ Stop \/ ConnectionSetup
  BY <1>2, <1>8 DEF SliceEnds, AfterRequest, AfterFreed, LeaveLoop, Stop, ConnectionSetup,
                    RefuseClient, AdmitClient
<1>9. CASE ReadRequest
  <2>1. cur \in ready
    BY <1>1, <1>9 DEF ReadRequest, LoopInv, CurIsReady
  <2>2. /\ UNCHANGED <<open, impervious, edge, ready, saved, GrabInProgress, Ignored>>
        /\ kernel' \subseteq kernel /\ buffered' \subseteq buffered \cup {cur}
    BY <1>9 DEF ReadRequest, lists, grab, Ignored
  <2> QED BY <2>1, <2>2 DEF InputInv, NoLostInput, KernelIsOpen, Listens
<1>10. CASE ReadPartial
  BY <1>10, InputKept DEF ReadPartial, lists, grab, Ignored
<1>11. CASE ReadNothing
  <2>1. cur \notin buffered \cup kernel
    BY <1>11 DEF ReadNothing
  <2>2. /\ UNCHANGED <<open, kernel, buffered, impervious, edge, GrabInProgress, Ignored>>
        /\ ready' = ready \ {cur} /\ saved' = saved \ {cur}
    BY <1>11 DEF ReadNothing, input, grab, Ignored
  <2> QED BY <2>1, <2>2 DEF InputInv, NoLostInput, KernelIsOpen, Listens
<1>12. CASE ReadFails \/ CloseFailed
  <2>1. cur \in Ids
    BY <1>1, <1>12, ThreadClients
       DEF ReadFails, CloseFailed, Allocated, Live, Gone, IndInv, TypeOK, TableTypes
  <2> QED BY <1>1, <1>12, <2>1, CloseDownClientInput DEF ReadFails, CloseFailed
<1>13. CASE Execute
  BY <1>13, ExecuteInput
<1>14. CASE KillScan
  <2>1. CASE scan < currentMaxClients /\ scan \in Gone /\ mode[scan] = "RetainTemporary"
    BY <1>1, <1>14, <2>1, CloseDownClientInput DEF KillScan, Gone
  <2>2. CASE ~(scan < currentMaxClients /\ scan \in Gone /\ mode[scan] = "RetainTemporary")
    BY <1>2, <1>14, <2>2 DEF KillScan
  <2> QED BY <2>1, <2>2
<1>15. CASE KillAllScan
  <2>1. scan \in Ids
    BY <1>15, ThreadClients DEF KillAllScan
  <2>2. CASE CloseDownClient(scan)
    BY <1>1, <2>1, <2>2, CloseDownClientInput
  <2>3. CASE ~CloseDownClient(scan)
    BY <1>2, <1>15, <2>3 DEF KillAllScan
  <2> QED BY <2>2, <2>3
<1>16. CASE Halted \/ UNCHANGED vars
  BY <1>2, <1>16 DEF Halted, vars
<1> QED BY <1>3, <1>4, <1>5, <1>6, <1>7, <1>8, <1>9, <1>10, <1>11, <1>12, <1>13, <1>14,
           <1>15, <1>16 DEF Next, Poll, InnerLoop

-----------------------------------------------------------------------------
(* The theorems.                                                           *)

\* The tables main and InitClient set up satisfy the invariant.
LEMMA InitHolds == Init => IndInv
<1> USE LimitAssumption DEF Init
<1> SUFFICES ASSUME Init
             PROVE  IndInv
  OBVIOUS
<1>1. TypeOK
  <2>1. dispatchException \in BOOLEAN /\ exceptionTimer \in BOOLEAN /\ isItTimeToYield \in BOOLEAN
    OBVIOUS
  <2>2. TableTypes
    BY <2>1 DEF TableTypes, Modes
  <2>3. ListTypes
    BY DEF ListTypes
  <2>4. LoopTypes
    BY <2>1 DEF LoopTypes
  <2> QED BY <2>2, <2>3, <2>4 DEF TypeOK
<1>2. Live = {} /\ Allocated = {} /\ Ignored = {}
  BY DEF Live, Gone, Allocated, Ignored
<1>3. AuthorizedAreCounted
  <2>1. {c \in Ids : state[c] = "Running"} = {}
    OBVIOUS
  <2> QED BY <2>1, FS_EmptySet DEF AuthorizedAreCounted
<1>4. TableInv
  BY <1>2, <1>3 DEF TableInv, FreeIDIsMinimal, TableEndIsTight, FailedAreAllocated, Ids
<1>5. ListInv
  BY <1>2 DEF ListInv, GoneIsUnreachable, GrabHasHolder, SavedAwaitsRelease, IgnoreCovers,
              IgnoreIsBalanced, ListedAreAttended, EdgeIsHeard, GoneAreAttended
<1>6. LoopInv
  BY DEF LoopInv, CurIsReady, ScanInTable
<1> QED BY <1>1, <1>4, <1>5, <1>6 DEF IndInv

\* The inductive invariant of the scheduler.
THEOREM IndInvHolds == Spec => []IndInv
<1>1. ASSUME IndInv, [Next]_vars
      PROVE  IndInv'
  BY <1>1, DataStep, LoopStep DEF IndInv, TypeOK, DataInv
<1> QED BY <1>1, InitHolds, PTL DEF Spec

\* Every variable keeps its type, ignore counts and nClients included, which
\* the code decrements without looking.
THEOREM TypeCorrect == Spec => []TypeOK
<1>1. IndInv => TypeOK
  BY DEF IndInv
<1> QED BY <1>1, IndInvHolds, PTL

\* After CloseDownClient nothing leads the dispatcher to the client again.
THEOREM GoneStaysUnreachable == Spec => []GoneIsUnreachable
<1>1. IndInv => GoneIsUnreachable
  BY DEF IndInv, ListInv
<1> QED BY <1>1, IndInvHolds, PTL

\* The two records of the grab agree, and its holder is running.
THEOREM GrabAlwaysHasHolder == Spec => []GrabHasHolder
<1>1. IndInv => GrabHasHolder
  BY DEF IndInv, ListInv
<1> QED BY <1>1, IndInvHolds, PTL

\* No client is parked once the grab is released.
THEOREM SavedAlwaysAwaitRelease == Spec => []SavedAwaitsRelease
<1>1. IndInv => SavedAwaitsRelease
  BY DEF IndInv, ListInv
<1> QED BY <1>1, IndInvHolds, PTL

\* A connected client's ignore count is the number of reasons it has.
THEOREM IgnoreStaysBalanced == Spec => []IgnoreIsBalanced
<1>1. IndInv => IgnoreIsBalanced
  BY DEF IndInv, ListInv
<1> QED BY <1>1, IndInvHolds, PTL

\* The smallest free ID is always the next one to be handed out.
THEOREM FreeIDStaysMinimal == Spec => []FreeIDIsMinimal
<1>1. IndInv => FreeIDIsMinimal
  BY DEF IndInv, TableInv
<1> QED BY <1>1, IndInvHolds, PTL

\* currentMaxClients is always the end of the table.
THEOREM TableEndStaysTight == Spec => []TableEndIsTight
<1>1. IndInv => TableEndIsTight
  BY DEF IndInv, TableInv
<1> QED BY <1>1, IndInvHolds, PTL

\* nClients is always the number of authorized clients.
THEOREM AuthorizedStayCounted == Spec => []AuthorizedAreCounted
<1>1. IndInv => AuthorizedAreCounted
  BY DEF IndInv, TableInv
<1> QED BY <1>1, IndInvHolds, PTL

\* The three together: the scheduler's caches always match the client table.
THEOREM CachesStayTrue == Spec => []CachesAreTrue
<1>1. IndInv => CachesAreTrue
  BY DEF IndInv, TableInv, CachesAreTrue
<1> QED BY <1>1, IndInvHolds, PTL

\* No client's input is lost: whatever is muted, parked, woken or closed, the
\* server will come to a request it can read without a further event.
THEOREM NoInputIsLost == Spec => []NoLostInput
<1>1. Init => InputInv
  BY DEF Init, InputInv, NoLostInput, KernelIsOpen
<1>2. ASSUME IndInv, IndInv', InputInv, [Next]_vars
      PROVE  InputInv'
  BY <1>2, InputStep
<1>3. InputInv => NoLostInput
  BY DEF InputInv
<1> QED BY <1>1, <1>2, <1>3, IndInvHolds, PTL DEF Spec
=============================================================================
