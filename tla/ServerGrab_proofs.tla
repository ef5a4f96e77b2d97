-------------------------- MODULE ServerGrab_proofs --------------------------
(***************************************************************************)
(* When no client makes itself pervious again, the dispatcher is never     *)
(* handed a client the grab locks out; when moreover no connection breaks  *)
(* while it is written to, the scheduler implements the abstract server    *)
(* grab.  Without those two conditions it does not: MakeClientGrabPervious *)
(* and AbortClient leave, or put, a locked out client on ready_clients.    *)
(***************************************************************************)
EXTENDS Dispatch_proofs

NoPervious == "Pervious" \notin Requests
NoOutputErrors == "output" \notin Faults

\* the grab's part of ReadyMayRun; ListedAreAttended is the other
ReadyAreLetIn ==
    \A c \in ready \cap open : grabClient \in {0, c} \/ c \in impervious

\* Before the first client connects nobody is ready.
LEMMA ReadyInit == Init => ReadyAreLetIn
  BY DEF Init, ReadyAreLetIn

\* When clients leave, those still ready are let in.
LEMMA DepartsLetIn ==
    ASSUME ReadyAreLetIn, NEW D, NEW W, NEW h, Departs(D, W, h)
    PROVE  ReadyAreLetIn'
  BY DEF ReadyAreLetIn, Departs

\* A step that makes nobody ready and keeps the grab lets nobody else in.
LEMMA FewerReadyLetIn ==
    ASSUME ReadyAreLetIn, ready' \subseteq ready, open' \subseteq open,
           impervious \subseteq impervious', grabClient' = grabClient
    PROVE  ReadyAreLetIn'
  BY DEF ReadyAreLetIn

\* CloseDownClient of whoever it closes.
LEMMA CloseDownClientLetIn ==
    ASSUME IndInv, ReadyAreLetIn, NEW c \in Ids, CloseDownClient(c)
    PROVE  ReadyAreLetIn'
<1>1. PICK W, h : Departs({c}, W, h)
  BY CloseDownClientDeparts DEF IndInv, TypeOK, ListInv
<1> QED BY <1>1, DepartsLetIn

\* A step keeps the dispatcher from being handed a client the grab locks out.
LEMMA ReadyStep ==
    ASSUME NoPervious, IndInv, ReadyAreLetIn, [Next]_vars
    PROVE  ReadyAreLetIn'
<1>1. ASSUME UNCHANGED <<ready, open, impervious, grabClient>>
      PROVE  ReadyAreLetIn'
  BY <1>1 DEF ReadyAreLetIn
<1> USE DEF table, fate, input, lists, grab, loop
<1>2. ASSUME NEW c \in Ids, HangUp(c) \/ ReadEvent(c) \/ Wakeup(c)
      PROVE  ReadyAreLetIn'
  <2>1. CASE HangUp(c)
    BY <2>1, CloseDownClientLetIn DEF HangUp
  <2>2. CASE ReadEvent(c)
    BY <2>2 DEF ReadEvent, MarkReady, ReadyAreLetIn, IndInv, ListInv, EdgeIsHeard, Listens,
                GrabHasHolder
  <2>3. CASE Wakeup(c)
    BY <2>3 DEF Wakeup, AttendClient, ReadyOrSaved, ReadyAreLetIn, Listens, IndInv, ListInv,
                GrabHasHolder
  <2> QED BY <1>2, <2>1, <2>2, <2>3
<1>3. CASE ExceptionTimerFires \/ Connection
  BY <1>1, <1>3 DEF ExceptionTimerFires, Connection
<1>4. CASE Accepting
  <2>1. CASE CloseStraggler
    <3>1. scan \in Ids
      BY <2>1, ThreadClients DEF CloseStraggler
    <3> QED BY <2>1, <3>1, CloseDownClientLetIn DEF CloseStraggler
  <2>2. CASE KeepClient \/ RejectConnection
    BY <1>1, <2>2 DEF KeepClient, RejectConnection
  <2>3. CASE Accept
    <3>1. open' = open \cup {nextFreeClientID} /\ nextFreeClientID \notin ready
      BY <2>3, AcceptTable
         DEF Accept, IndInv, TypeOK, TableInv, FreeIDIsMinimal, ListInv, GoneIsUnreachable, Allocated
    <3>2. UNCHANGED <<ready, impervious, grabClient>>
      BY <2>3 DEF Accept
    <3> QED BY <3>1, <3>2 DEF ReadyAreLetIn
  <2> QED BY <1>4, <2>1, <2>2, <2>3 DEF Accepting
<1>5. CASE Environment
  <2>1. ASSUME NEW c \in Ids, OutputError(c)
        PROVE  ReadyAreLetIn'
    BY <2>1 DEF OutputError, MarkAborted, MarkReady, ReadyAreLetIn
  <2> QED BY <1>1, <1>5, <2>1 DEF Environment, DataArrives, GiveUp
<1>6. ASSUME NEW c \in Ids, Schedule(c)
      PROVE  ReadyAreLetIn'
  BY <1>1, <1>6 DEF Schedule
<1>7. CASE SliceEnds \/ ReadRequest \/ ReadPartial \/ AfterRequest \/ AfterFreed
           \/ LeaveLoop \/ Stop \/ ConnectionSetup
  BY <1>1, <1>7 DEF SliceEnds, ReadRequest, ReadPartial, AfterRequest, AfterFreed, LeaveLoop, Stop,
                    ConnectionSetup, RefuseClient, AdmitClient
<1>8. CASE ReadNothing
  BY <1>8, FewerReadyLetIn DEF ReadNothing
<1>9. CASE ReadFails
  BY <1>9, ThreadClients, CloseDownClientLetIn DEF ReadFails, Live
<1>10. CASE Execute
  <2>1. CASE NoOperation \/ GrabDenied \/ ChangeCloseDownMode \/ DisconnectMode \/ KillTemporary
    BY <1>1, <2>1 DEF NoOperation, GrabDenied, ChangeCloseDownMode, DisconnectMode, KillTemporary
  <2>2. CASE GrabServerWaits
    BY <2>2, FewerReadyLetIn DEF GrabServerWaits, IgnoreClient
  <2>3. CASE GrabServerTaken
    BY <2>3 DEF GrabServerTaken, GrabIsFree, MarkGrab, ReadyAreLetIn
  <2>4. CASE UngrabRequest
    <3>1. PICK W : Departs({}, W, 0)
      BY <2>4, UngrabRequestDeparts DEF IndInv, TypeOK, ListInv
    <3> QED BY <3>1, DepartsLetIn
  <2>5. CASE GrabImpervious
    BY <2>5, FewerReadyLetIn DEF GrabImpervious
  <2>6. CASE Sleep
    BY <2>6, FewerReadyLetIn DEF Sleep, IgnoreClient
  <2>7. CASE KillClient
    BY <2>7, CloseDownClientLetIn DEF KillClient
  <2> QED BY <1>10, <2>1, <2>2, <2>3, <2>4, <2>5, <2>6, <2>7
          DEF Execute, Sends, GrabServer, NoPervious
<1>11. CASE KillScan
  <2>1. CASE scan < currentMaxClients /\ scan \in Gone /\ mode[scan] = "RetainTemporary"
    BY <1>11, <2>1, CloseDownClientLetIn DEF KillScan, Gone
  <2>2. CASE ~(scan < currentMaxClients /\ scan \in Gone /\ mode[scan] = "RetainTemporary")
    BY <1>1, <1>11, <2>2 DEF KillScan
  <2> QED BY <2>1, <2>2
<1>12. CASE CloseFailed
  BY <1>12, ThreadClients, CloseDownClientLetIn DEF CloseFailed
<1>13. CASE KillAllScan
  <2>1. scan \in Ids
    BY <1>13, ThreadClients DEF KillAllScan
  <2> QED BY <1>1, <1>13, <2>1, CloseDownClientLetIn DEF KillAllScan
<1>14. CASE Halted \/ UNCHANGED vars
  BY <1>1, <1>14 DEF Halted, vars
<1> QED BY <1>2, <1>3, <1>4, <1>5, <1>6, <1>7, <1>8, <1>9, <1>10, <1>11, <1>12, <1>13, <1>14
        DEF Next, Poll, InnerLoop

\* Without GrabPervious, the dispatcher is never handed a connected client
\* that is ignored or locked out by the grab.
THEOREM ReadyAlwaysMayRun ==
    ASSUME NoPervious
    PROVE  Spec => []ReadyMayRun
<1>1. IndInv /\ ReadyAreLetIn => ReadyMayRun
  BY DEF IndInv, ListInv, ListedAreAttended, GrabHasHolder, ReadyAreLetIn, ReadyMayRun, Listens
<1>2. Init => ReadyAreLetIn
  BY ReadyInit
<1>3. IndInv /\ ReadyAreLetIn /\ [Next]_vars => ReadyAreLetIn'
  BY ReadyStep
<1> QED BY <1>1, <1>2, <1>3, IndInvHolds, PTL DEF Spec

-----------------------------------------------------------------------------
(* The abstract server grab.                                               *)

LiveAreOpen == Live \subseteq open

GrabInv == IndInv /\ ReadyAreLetIn /\ LiveAreOpen

serving == IF pc = "exec" THEN cur ELSE 0

\* CloseDownClient closes the connection of the client it ends, and no other.
LEMMA CloseDownClientOpen ==
    ASSUME IndInv, LiveAreOpen, NEW c \in Ids, CloseDownClient(c)
    PROVE  LiveAreOpen'
<1>1. PICK W, h : Departs({c}, W, h)
  BY CloseDownClientDeparts DEF IndInv, TypeOK, ListInv
<1> QED BY <1>1 DEF Departs, LiveAreOpen

\* Without output errors a live client stays connected.
LEMMA OpenStep ==
    ASSUME NoOutputErrors, IndInv, LiveAreOpen, [Next]_vars
    PROVE  LiveAreOpen'
<1> USE DEF table, input
<1>1. ASSUME NEW c \in Ids, CloseDownClient(c)
      PROVE  LiveAreOpen'
  BY <1>1, CloseDownClientOpen
<1>2. ASSUME UNCHANGED <<state, open>>
      PROVE  LiveAreOpen'
  BY <1>2 DEF LiveAreOpen, Live
<1>3. CASE Poll
  BY <1>1, <1>2, <1>3 DEF Poll, HangUp, ReadEvent, Wakeup, ExceptionTimerFires, Connection
<1>4. CASE Accepting
  <2>1. CASE CloseStraggler
    BY <1>1, <2>1, ThreadClients DEF CloseStraggler
  <2>2. CASE KeepClient \/ RejectConnection
    BY <1>2, <2>2 DEF KeepClient, RejectConnection
  <2>3. CASE Accept
    BY <2>3 DEF Accept, LiveAreOpen, Live, IndInv, TypeOK, TableTypes
  <2> QED BY <1>4, <2>1, <2>2, <2>3 DEF Accepting
<1>5. CASE Environment
  BY <1>2, <1>5 DEF Environment, DataArrives, OutputError, GiveUp, NoOutputErrors
<1>6. ASSUME NEW c \in Ids, Schedule(c)
      PROVE  LiveAreOpen'
  BY <1>2, <1>6 DEF Schedule
<1>7. CASE SliceEnds \/ ReadRequest \/ ReadPartial \/ ReadNothing \/ AfterRequest \/ AfterFreed
           \/ LeaveLoop \/ Stop \/ Halted \/ UNCHANGED vars
  BY <1>2, <1>7 DEF SliceEnds, ReadRequest, ReadPartial, ReadNothing, AfterRequest, AfterFreed,
                    LeaveLoop, Stop, Halted, vars
<1>8. CASE ReadFails \/ CloseFailed
  BY <1>1, <1>8, ThreadClients DEF ReadFails, CloseFailed, Live
<1>9. CASE Execute
  BY <1>1, <1>2, <1>9
     DEF Execute, NoOperation, GrabServer, GrabServerWaits, GrabServerTaken, GrabIsFree, GrabDenied,
         UngrabRequest, GrabImpervious, GrabPervious, Sleep, ChangeCloseDownMode, KillClient,
         KillTemporary, DisconnectMode
<1>10. CASE ConnectionSetup
  <2>1. cur \in Live
    BY <1>10, ThreadClients DEF ConnectionSetup
  <2> QED BY <1>2, <1>10, <2>1
          DEF ConnectionSetup, RefuseClient, AdmitClient, LiveAreOpen, Live, IndInv, TypeOK, TableTypes
<1>11. CASE KillScan
  BY <1>1, <1>2, <1>11 DEF KillScan, Gone
<1>12. CASE KillAllScan
  BY <1>1, <1>2, <1>12, ThreadClients DEF KillAllScan
<1> QED BY <1>3, <1>4, <1>5, <1>6, <1>7, <1>8, <1>9, <1>10, <1>11, <1>12 DEF Next, InnerLoop

\* A client that is closed leaves the abstract grab.
LEMMA CloseDownClientLeaves ==
    ASSUME IndInv, NEW c \in Ids, CloseDownClient(c), UNCHANGED serving
    PROVE  Grab!Leave(c)
<1>1. grabClient' = IF grabClient = c THEN 0 ELSE grabClient
  BY DEF CloseDownClient, UngrabServer, GrabReleased, LeaveLists
<1>2. impervious' = impervious \ {c}
  BY DEF CloseDownClient
<1> QED BY <1>1, <1>2 DEF Grab!Leave, serving

\* Every step of the scheduler is a step of the server grab, or none.
LEMMA GrabStep ==
    ASSUME GrabInv, [Next]_vars
    PROVE  [Grab!GrabNext]_(Grab!grabVars)
<1> DEFINE step == [Grab!GrabNext]_(Grab!grabVars)
<1> USE DEF table, fate, input, lists, grab, loop, GrabInv
<1>1. ASSUME UNCHANGED <<grabClient, impervious, serving>>
      PROVE  step
  BY <1>1 DEF Grab!grabVars, serving
<1>2. ASSUME NEW c \in Ids, CloseDownClient(c), UNCHANGED serving
      PROVE  step
  BY <1>2, CloseDownClientLeaves DEF Grab!GrabNext
<1>3. ASSUME pc = "exec", cur \in Ids, pc' # "exec", grabClient' \in {grabClient, 0},
             impervious' \subseteq impervious \cup {cur}
      PROVE  step
  BY <1>3 DEF Grab!GrabNext, Grab!Complete, serving, Ids
<1> SUFFICES step
  OBVIOUS
<1> HIDE DEF step
<1>4. ASSUME pc # "exec" /\ pc' # "exec"
      PROVE  UNCHANGED serving
  BY <1>4 DEF serving
<1>5. ASSUME pc # "exec", pc' # "exec", UNCHANGED <<grabClient, impervious>>
      PROVE  step
  BY <1>1, <1>4, <1>5
<1>6. CASE Poll
  BY <1>2, <1>4, <1>5, <1>6
     DEF Poll, HangUp, ReadEvent, Wakeup, ExceptionTimerFires, Connection
<1>7. CASE Accepting
  <2>1. CASE CloseStraggler
    <3>1. scan \in Ids
      BY <2>1, ThreadClients DEF CloseStraggler
    <3> QED BY <1>2, <1>4, <2>1, <3>1 DEF CloseStraggler, ScanNext
  <2>2. CASE KeepClient \/ Accept \/ RejectConnection
    BY <1>5, <2>2 DEF KeepClient, Accept, RejectConnection, ScanNext, BackToWait
  <2> QED BY <1>7, <2>1, <2>2 DEF Accepting
<1>8. CASE Environment
  BY <1>1, <1>8 DEF Environment, DataArrives, OutputError, GiveUp, serving
<1>9. ASSUME NEW c \in Ids, Schedule(c)
      PROVE  step
  BY <1>5, <1>9 DEF Schedule
<1>10. CASE SliceEnds \/ ReadPartial \/ ReadNothing \/ AfterRequest \/ AfterFreed
            \/ LeaveLoop \/ Stop
  BY <1>5, <1>10 DEF SliceEnds, ReadPartial, ReadNothing, AfterRequest, AfterFreed, LeaveLoop,
                     Stop, BackToWait, Goto
<1>11. CASE ReadRequest
  <2>1. cur \in ready /\ cur \in Live /\ cur \in Ids
    BY <1>11, ThreadClients DEF ReadRequest, Live
  <2>2. grabClient \in {0, cur} \/ cur \in impervious
    BY <2>1 DEF ReadyAreLetIn, LiveAreOpen
  <2>3. UNCHANGED <<grabClient, impervious, cur>> /\ pc = "run" /\ pc' = "exec"
    BY <1>11 DEF ReadRequest, Goto
  <2>4. Grab!Serve(cur)
    BY <2>2, <2>3 DEF Grab!Serve, serving
  <2> QED BY <2>1, <2>4 DEF Grab!GrabNext, step
<1>12. CASE ReadFails \/ CloseFailed
  BY <1>2, <1>4, <1>12, ThreadClients DEF ReadFails, CloseFailed, BackToWait, Live
<1>13. CASE Execute
  <2>1. pc = "exec" /\ cur \in Ids
    BY <1>13, ThreadClients DEF Execute, Sends, Live
  <2>2. CASE GrabServerTaken /\ grabClient = 0
    <3>1. Grab!Take
      BY <2>1, <2>2 DEF Grab!Take, serving, GrabServerTaken, GrabIsFree, Return, Ids
    <3> QED BY <3>1 DEF Grab!GrabNext, step
  <2>3. CASE GrabServerTaken /\ grabClient = cur
    BY <1>3, <2>1, <2>3 DEF GrabServerTaken, GrabIsFree, Return
  <2>4. CASE KillClient
    <3>1. PICK c \in Ids : CloseDownClient(c) /\ Return(isItTimeToYield \/ c = cur)
      BY <2>4 DEF KillClient
    <3>2. grabClient' \in {grabClient, 0} /\ impervious' \subseteq impervious
      BY <3>1 DEF CloseDownClient, UngrabServer, GrabReleased, LeaveLists
    <3> QED BY <1>3, <2>1, <3>1, <3>2 DEF Return
  <2>5. CASE UngrabRequest
    BY <1>3, <2>1, <2>5 DEF UngrabRequest, UngrabServer, GrabReleased, Return
  <2>6. CASE NoOperation \/ GrabServerWaits \/ GrabDenied \/ GrabImpervious \/ GrabPervious
             \/ Sleep \/ ChangeCloseDownMode \/ KillTemporary \/ DisconnectMode
    BY <1>3, <2>1, <2>6
       DEF NoOperation, GrabServerWaits, GrabDenied, GrabImpervious, GrabPervious,
           Sleep, ChangeCloseDownMode, KillTemporary, DisconnectMode, Return
  <2> QED BY <1>13, <2>2, <2>3, <2>4, <2>5, <2>6 DEF Execute, GrabServer, GrabServerTaken, GrabIsFree
<1>14. CASE ConnectionSetup
  <2>1. pc = "exec" /\ cur \in Ids
    BY <1>14, ThreadClients DEF ConnectionSetup, Live
  <2> QED BY <1>3, <1>14, <2>1 DEF ConnectionSetup, RefuseClient, AdmitClient, Return
<1>15. CASE KillScan
  <2>1. CASE scan < currentMaxClients /\ scan \in Gone /\ mode[scan] = "RetainTemporary"
    BY <1>2, <1>4, <1>15, <2>1 DEF KillScan, ScanNext, Gone
  <2>2. CASE ~(scan < currentMaxClients /\ scan \in Gone /\ mode[scan] = "RetainTemporary")
    BY <1>5, <1>15, <2>2 DEF KillScan, ScanNext
  <2> QED BY <2>1, <2>2
<1>16. CASE KillAllScan
  <2>1. scan \in Ids
    BY <1>16, ThreadClients DEF KillAllScan
  <2>2. pc # "exec" /\ pc' # "exec"
    BY <1>16 DEF KillAllScan, ScanNext
  <2> QED BY <1>2, <1>4, <1>5, <1>16, <2>1, <2>2 DEF KillAllScan
<1>17. CASE Halted \/ UNCHANGED vars
  BY <1>1, <1>17 DEF Halted, vars, serving
<1> QED BY <1>6, <1>7, <1>8, <1>9, <1>10, <1>11, <1>12, <1>13, <1>14, <1>15, <1>16, <1>17
        DEF Next, InnerLoop

\* Without GrabPervious and output errors, the scheduler implements the
\* server grab: only the holder and impervious clients are served.
THEOREM SchedulerImplementsGrab ==
    ASSUME NoPervious, NoOutputErrors
    PROVE  Spec => GrabIsExclusive
<1>1. Init => GrabInv /\ Grab!GrabInit
  <2>1. Init => LiveAreOpen
    BY DEF Init, LiveAreOpen, Live
  <2>2. Init => Grab!GrabInit
    BY DEF Init, Grab!GrabInit
  <2> QED BY <2>1, <2>2, InitHolds, ReadyInit DEF GrabInv
<1>2. IndInv /\ ReadyAreLetIn /\ LiveAreOpen /\ [Next]_vars
        => ReadyAreLetIn' /\ LiveAreOpen'
  BY ReadyStep, OpenStep
<1>3. IndInv /\ ReadyAreLetIn /\ LiveAreOpen /\ [Next]_vars
        => [Grab!GrabNext]_(Grab!grabVars)
  BY GrabStep DEF GrabInv
<1> QED BY <1>1, <1>2, <1>3, IndInvHolds, PTL DEF Spec, GrabInv, GrabIsExclusive, Grab!GrabSpec
=============================================================================
