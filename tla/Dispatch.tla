------------------------------ MODULE Dispatch ------------------------------
(***************************************************************************)
(* The X server's client scheduler: the table of clients, the lists of     *)
(* clients with work to do, the server grab, and the life of a client from *)
(* accept() to CloseDownClient, as dix/dispatch.d, os/connection.d,        *)
(* os/io.d, os/ospoll.d and dix/dixutils.d run them.                       *)
(*                                                                         *)
(* One thread runs all of it.  pc says where that thread is:               *)
(*   "wait"     at the top of Dispatch's loop or inside WaitForSomething   *)
(*   "run"      at the top of the inner loop, client cur selected          *)
(*   "exec"     a request of cur has been read and is about to be executed *)
(*   "result"   the request's handler has returned                         *)
(*   "accept"   EstablishNewConnections is scanning for stragglers         *)
(*   "killTemp" CloseDownRetainedResources is scanning                     *)
(*   "killAll"  Dispatch's loop has ended, KillAllClients is scanning      *)
(*   "down"     Dispatch has returned                                      *)
(*   "crashed"  a freed client was closed a second time                    *)
(* The environment (clients, kernel, signals) acts between those steps.    *)
(***************************************************************************)
EXTENDS Naturals, FiniteSets

CONSTANTS
    LimitClients,   \* size of clients[]; slot 0 is the server itself
    MaskBits,       \* clients per word of the grabWaiters mask (32)
    Requests,       \* the kinds of request running clients send
    Faults,         \* the faults that occur, a subset of FaultKinds
    Terminate,      \* dispatchExceptionAtReset & DE_TERMINATE (-terminate)
    TerminateDelay  \* whether -terminate was given a delay

RequestKinds == {"NoOperation", "GrabServer", "GrabDenied", "UngrabServer",
                 "Impervious", "Pervious", "Sleep", "ChangeCloseDownMode",
                 "KillClient", "KillTemporary", "DisconnectMode"}
FaultKinds == {"hangup", "output", "straggler", "signal"}

ASSUME LimitAssumption == LimitClients \in Nat /\ LimitClients > 1
ASSUME MaskBitsAssumption == MaskBits \in Nat \ {0}
ASSUME RequestsAssumption == Requests \subseteq RequestKinds
ASSUME FaultsAssumption == Faults \subseteq FaultKinds
ASSUME TerminateAssumption == Terminate \in BOOLEAN /\ TerminateDelay \in BOOLEAN

Ids == 1 .. (LimitClients - 1)
Modes == {"DestroyAll", "RetainPermanent", "RetainTemporary"}

VARIABLES
    state,              \* clients[i] = null ("Free"), or its clientState
    mode,               \* closeDownMode
    ignoreCount,        \* ignoreCount; OS_COMM_IGNORED is set iff it is not 0
    failed,             \* clients whose noClientException is set
    impervious,         \* clients with OS_COMM_GRAB_IMPERVIOUS
    disconnect,         \* clients that XFixes lets the server outlive
    open,               \* clients whose trans_conn is not null
    kernel,             \* clients with unread bytes in their socket
    buffered,           \* clients with a whole request in their input buffer
    edge,               \* clients with a read event epoll has yet to report
    ready,              \* ready_clients
    saved,              \* saved_ready_clients
    asleep,             \* clients in sleepQueue
    regrab,             \* clients whose next request is a GrabServer put back
    waiters,            \* grabWaiters
    grabClient,         \* grabClient, 0 when grabState is GrabNone
    GrabInProgress,     \* GrabInProgress of os/connection.d
    nClients, nextFreeClientID, currentMaxClients,
    dispatchException, exceptionTimer,
    pc, cur, isItTimeToYield, scan

table == <<state, mode, nClients, nextFreeClientID, currentMaxClients>>
fate == <<failed, disconnect, dispatchException, exceptionTimer>>
input == <<open, kernel, buffered, edge, impervious>>
lists == <<ready, saved, ignoreCount, asleep, regrab>>
grab == <<waiters, grabClient, GrabInProgress>>
loop == <<pc, cur, isItTimeToYield, scan>>
vars == <<table, fate, input, lists, grab, loop>>

Live == {c \in Ids : state[c] \in {"Initial", "Running"}}
Gone == {c \in Ids : state[c] = "Retained"}
Allocated == Live \cup Gone

-----------------------------------------------------------------------------
(* os/connection.d: which clients the server reads from.                   *)

\* listen_to_client, given who is ignored and who holds the grab
Listens(c, ignored, holder) ==
    c \notin ignored /\ (holder = 0 \/ holder = c \/ c \in impervious)

Ignored == {c \in Ids : ignoreCount[c] # 0}

\* (mutant: listening again does not re-arm an edge-triggered descriptor)
RearmedNever(ignored, holder) == {}

\* epoll_mod on every client: an edge-triggered descriptor that is listened
\* to and readable reports again, one that is muted reports nothing
Rearmed(ignored, holder) ==
    {c \in open \cap kernel : Listens(c, ignored, holder)}

\* set_poll_client(c): the same for one client
RearmedOne(c, ignored, holder) ==
    (edge \ {c}) \cup ({c} \cap Rearmed(ignored, holder))

\* IgnoreClient(c); ready lists, mask and poll set change on the first call
IgnoreClient(c) ==
    /\ ignoreCount' = [ignoreCount EXCEPT ![c] = @ + 1]
    /\ IF ignoreCount[c] = 0
       THEN ready' = ready \ {c} /\ saved' = saved \ {c} /\ edge' = edge \ {c}
       ELSE UNCHANGED <<ready, saved, edge>>

\* mark_client_ready: no effect on a client that is on either list
MarkReady(c) == ready' = IF c \in saved THEN ready ELSE ready \cup {c}

\* (mutant: AttendClient does not look at the grab)
ReadyRegardless(c) ==
    ready' = (IF c \in saved THEN ready ELSE ready \cup {c}) /\ UNCHANGED saved

\* (mutant: AttendClient only resets the poll mask)
ReadyOnNextEvent(c) == UNCHANGED <<ready, saved>>

\* AttendClient's choice between the two lists, once c is not ignored
ReadyOrSaved(c) ==
    IF Listens(c, Ignored \ {c}, GrabInProgress)
    THEN ready' = (IF c \in saved THEN ready ELSE ready \cup {c}) /\ UNCHANGED saved
    ELSE saved' = (IF c \in ready THEN saved ELSE saved \cup {c}) /\ UNCHANGED ready

\* AttendClient(c) of a live client
AttendClient(c) ==
    /\ ignoreCount' = [ignoreCount EXCEPT ![c] = @ - 1]
    /\ IF ignoreCount[c] # 1
       THEN UNCHANGED <<ready, saved, edge>>
       ELSE /\ edge' = RearmedOne(c, Ignored \ {c}, GrabInProgress)
            /\ ReadyOrSaved(c)

-----------------------------------------------------------------------------
(* dix/dispatch.d: the server grab.                                        *)

SmallestOf(S) == CHOOSE x \in S : \A y \in S : x <= y

\* UngrabServer looks for the last non-zero word and its first set bit
NextWaiter ==
    LET lastWord == {w \in waiters : \A v \in waiters : v \div MaskBits <= w \div MaskBits}
    IN SmallestOf(lastWord)

\* (mutant: the bit of the client woken up stays set)
WaitingStill(woken) == waiters

\* BITCLEAR(grabWaiters, i) of the client UngrabServer wakes
WaitingAfter(woken) == waiters \ woken

\* (mutant: only dix's half of the grab is released)
GrabHalfReleased == grabClient' = 0 /\ UNCHANGED GrabInProgress

\* grabState, grabClient and, by ListenToAllClients, GrabInProgress
GrabReleased == grabClient' = 0 /\ GrabInProgress' = 0

\* (mutant: mark_client_ungrab moves the clients of ready_clients)
SavedForgotten == saved

\* saved_ready_clients after mark_client_ungrab
SavedAfterUngrab == {}

\* UngrabServer, and what CloseDownClient does to a dying client's place in
\* the lists when it calls it (dying = {} when the request was made)
UngrabServer(dying) ==
    LET woken == IF waiters = {} THEN {} ELSE {NextWaiter}
        count == [c \in Ids |-> IF c \in dying THEN 0
                                ELSE IF c \in woken THEN ignoreCount[c] - 1
                                ELSE ignoreCount[c]]
        attended == {c \in woken : ignoreCount[c] = 1}
        ignored == {c \in Ids : count[c] # 0}
        polled == IF GrabInProgress # 0 THEN Ids ELSE attended
    IN /\ GrabReleased
       /\ waiters' = WaitingAfter(woken) \ dying
       /\ ignoreCount' = count
       /\ ready' = (ready \cup saved \cup attended) \ dying
       /\ saved' = SavedAfterUngrab \ dying
       /\ edge' = ((edge \ polled) \cup (polled \cap Rearmed(ignored, 0))) \ dying

\* (mutant: a dying client's bit stays in the mask)
WaitersUnchanged(c) == waiters

\* BITCLEAR(grabWaiters, client->index)
WaitersWithout(c) == waiters \ {c}

\* the same lists when the dying client does not hold the grab
LeaveLists(c) ==
    /\ UNCHANGED <<grabClient, GrabInProgress>>
    /\ waiters' = WaitersWithout(c)
    /\ ignoreCount' = [ignoreCount EXCEPT ![c] = 0]
    /\ ready' = ready \ {c}
    /\ saved' = saved \ {c}
    /\ edge' = edge \ {c}

-----------------------------------------------------------------------------
(* dix/dispatch.d: the end of a client.                                    *)

\* SetDispatchExceptionTimer
SetDispatchExceptionTimer ==
    IF ~Terminate
    THEN UNCHANGED <<dispatchException, exceptionTimer>>
    ELSE IF TerminateDelay
         THEN exceptionTimer' = TRUE /\ UNCHANGED dispatchException
         ELSE exceptionTimer' = FALSE /\ dispatchException' = TRUE

\* ShouldDisconnectRemainingClients, of the clients left below a table end
ShouldDisconnectRemainingClients(left, end) ==
    \A c \in left : c < end => Terminate /\ c \in disconnect

\* currentMaxClients-- while the last slot is empty
TableEnd(left) ==
    CHOOSE n \in 1 .. currentMaxClients :
        /\ n = 1 \/ n - 1 \in left
        /\ \A c \in left : c < currentMaxClients => c < n

\* (mutant: every close is counted)
CountEveryClose(c) == nClients - 1

\* --nClients, for a client that made it to Running and is not yet gone
AuthorizedLeft(c) == IF state[c] = "Running" THEN nClients - 1 ELSE nClients

\* (mutant: the last freed ID is reused first)
LastFreed(c) == c

\* the ID of a freed client is the next one if it is the smallest
SmallerFree(c) == IF c < nextFreeClientID THEN c ELSE nextFreeClientID

\* CloseDownClient(c): a client that is gone already, or whose mode is
\* DestroyAll, is freed; any other is kept for its resources
CloseDownClient(c) ==
    LET really == c \in Gone \/ mode[c] = "DestroyAll"
        left == IF really THEN Allocated \ {c} ELSE Allocated
        end == IF really THEN TableEnd(left) ELSE currentMaxClients
        count == AuthorizedLeft(c)
    IN /\ IF grabClient = c THEN UngrabServer({c}) ELSE LeaveLists(c)
       /\ open' = open \ {c} /\ kernel' = kernel \ {c} /\ buffered' = buffered \ {c}
       /\ impervious' = impervious \ {c}
       /\ asleep' = asleep \ {c} /\ regrab' = regrab \ {c}
       /\ nClients' = count
       /\ currentMaxClients' = end
       /\ IF really
          THEN /\ state' = [state EXCEPT ![c] = "Free"]
               /\ nextFreeClientID' = SmallerFree(c)
               /\ mode' = [mode EXCEPT ![c] = "DestroyAll"]
               /\ failed' = failed \ {c} /\ disconnect' = disconnect \ {c}
          ELSE /\ state' = [state EXCEPT ![c] = "Retained"]
               /\ UNCHANGED <<nextFreeClientID, mode, failed, disconnect>>
       /\ IF \/ really /\ state[c] = "Running" /\ count = 0
             \/ ShouldDisconnectRemainingClients(left, end)
          THEN SetDispatchExceptionTimer
          ELSE UNCHANGED <<dispatchException, exceptionTimer>>

-----------------------------------------------------------------------------
(* Initial state: main has set up an empty table and called Dispatch.      *)

Init ==
    /\ state = [c \in Ids |-> "Free"]
    /\ mode = [c \in Ids |-> "DestroyAll"]
    /\ ignoreCount = [c \in Ids |-> 0]
    /\ failed = {} /\ impervious = {} /\ disconnect = {}
    /\ open = {} /\ kernel = {} /\ buffered = {} /\ edge = {}
    /\ ready = {} /\ saved = {} /\ asleep = {} /\ regrab = {}
    /\ waiters = {} /\ grabClient = 0 /\ GrabInProgress = 0
    /\ nClients = 0 /\ nextFreeClientID = 1 /\ currentMaxClients = 1
    /\ dispatchException = FALSE /\ exceptionTimer = FALSE
    /\ pc = "wait" /\ cur = 0 /\ isItTimeToYield = FALSE /\ scan = 0

Goto(label) == pc' = label /\ UNCHANGED <<cur, isItTimeToYield, scan>>

\* the locals of Dispatch's loop body and of the scans go out of scope, and
\* isItTimeToYield is reset before it is next read
BackToWait == pc' = "wait" /\ cur' = 0 /\ isItTimeToYield' = FALSE /\ scan' = 0

-----------------------------------------------------------------------------
(* What happens in WaitForSomething: poll callbacks, timers, work procs.   *)

\* ClientReady, X_NOTIFY_ERROR: reported whether or not reads are muted
HangUp(c) ==
    /\ pc = "wait" /\ "hangup" \in Faults /\ c \in open
    /\ CloseDownClient(c)
    /\ UNCHANGED loop

\* ClientReady, X_NOTIFY_READ
ReadEvent(c) ==
    /\ pc = "wait" /\ c \in edge
    /\ edge' = edge \ {c}
    /\ MarkReady(c)
    /\ UNCHANGED <<table, fate, open, kernel, buffered, impervious, saved,
                   ignoreCount, asleep, regrab, grab, loop>>

\* the work proc or trigger a sleeping client waits for runs ClientWakeup
Wakeup(c) ==
    /\ pc \in {"wait", "result"} /\ c \in asleep
    /\ asleep' = asleep \ {c}
    /\ AttendClient(c)
    /\ UNCHANGED <<table, fate, open, kernel, buffered, impervious, regrab, grab, loop>>

\* DispatchExceptionCallback
ExceptionTimerFires ==
    /\ pc = "wait" /\ exceptionTimer
    /\ exceptionTimer' = FALSE /\ dispatchException' = TRUE
    /\ UNCHANGED <<table, failed, disconnect, input, lists, grab, loop>>

\* a listening socket is readable: EstablishNewConnections starts
Connection ==
    /\ pc = "wait"
    /\ pc' = "accept" /\ scan' = 1
    /\ UNCHANGED <<table, fate, input, lists, grab, cur, isItTimeToYield>>

\* one turn of its loop: conn_time is set while the client is Initial
Straggler(c) ==
    /\ state[c] # "Free"
    /\ \/ state[c] = "Initial" /\ "straggler" \in Faults
       \/ c \in failed /\ c \notin Gone

ScanNext == scan' = scan + 1 /\ UNCHANGED <<pc, cur, isItTimeToYield>>

CloseStraggler ==
    /\ pc = "accept" /\ scan < currentMaxClients /\ Straggler(scan)
    /\ CloseDownClient(scan)
    /\ ScanNext

KeepClient ==
    /\ pc = "accept" /\ scan < currentMaxClients
    /\ state[scan] = "Free" \/ scan \in Gone \/ scan \notin failed
    /\ ScanNext
    /\ UNCHANGED <<table, fate, input, lists, grab>>

\* NextAvailableClient and AllocNewConnection; the fake request it inserts
\* is only the head of one, so the client is not ready before bytes arrive
Accept ==
    /\ pc = "accept" /\ scan >= currentMaxClients
    /\ nextFreeClientID # LimitClients
    /\ LET c == nextFreeClientID
       IN /\ state' = [state EXCEPT ![c] = "Initial"]
          /\ currentMaxClients' = IF c = currentMaxClients THEN c + 1 ELSE currentMaxClients
          /\ nextFreeClientID' =
                CHOOSE n \in c + 1 .. LimitClients :
                    /\ n \notin Allocated
                    /\ \A m \in c + 1 .. n - 1 : m \in Allocated
          /\ open' = open \cup {c}
    /\ BackToWait
    /\ UNCHANGED <<mode, nClients, fate, kernel, buffered, edge, impervious, lists, grab>>

\* the transport does not accept it after all, or ErrorConnMax
RejectConnection ==
    /\ pc = "accept" /\ scan >= currentMaxClients
    /\ BackToWait
    /\ UNCHANGED <<table, fate, input, lists, grab>>

-----------------------------------------------------------------------------
(* The environment.                                                        *)

\* bytes reach a socket; epoll reports them if the server listens
DataArrives(c) ==
    /\ c \in open /\ c \notin kernel
    /\ kernel' = kernel \cup {c}
    /\ edge' = IF Listens(c, Ignored, GrabInProgress) THEN edge \cup {c} ELSE edge
    /\ UNCHANGED <<table, fate, open, buffered, impervious, lists, grab, loop>>

\* (mutant: AbortClient only closes the descriptor)
NotMarked(c) == UNCHANGED ready

\* AbortClient's mark_client_ready
MarkAborted(c) == MarkReady(c)

\* FlushClient fails while an event, a reply or pending output is written:
\* AbortClient closes the descriptor, dixMarkClientException dooms the client
OutputError(c) ==
    /\ "output" \in Faults /\ pc \in {"wait", "run", "result"} /\ c \in open
    /\ open' = open \ {c} /\ kernel' = kernel \ {c} /\ edge' = edge \ {c}
    /\ MarkAborted(c)
    /\ failed' = failed \cup {c}
    /\ UNCHANGED <<table, disconnect, dispatchException, exceptionTimer, buffered,
                   impervious, saved, ignoreCount, asleep, regrab, grab, loop>>

\* GiveUp, the handler of SIGTERM and SIGINT
GiveUp ==
    /\ "signal" \in Faults /\ ~dispatchException
    /\ dispatchException' = TRUE
    /\ isItTimeToYield' = (pc \in {"run", "exec", "result", "killTemp"})
    /\ UNCHANGED <<table, failed, disconnect, exceptionTimer, input, lists, grab, pc, cur, scan>>

-----------------------------------------------------------------------------
(* Dispatch's inner loop.                                                  *)

\* SmartScheduleClient picks a client of the ready list
Schedule(c) ==
    /\ pc = "wait" /\ ~dispatchException /\ c \in ready
    /\ pc' = "run" /\ cur' = c /\ isItTimeToYield' = FALSE
    /\ UNCHANGED <<table, fate, input, lists, grab, scan>>

\* the client's slice has been used up
SliceEnds ==
    /\ pc = "run"
    /\ BackToWait
    /\ UNCHANGED <<table, fate, input, lists, grab>>

\* ReadRequestFromClient returns a whole request, from the buffer or from a
\* read that may leave more of them behind
ReadRequest ==
    /\ pc = "run" /\ cur \in buffered \cup kernel
    /\ IF cur \in buffered
       THEN UNCHANGED kernel
       ELSE kernel' \in {kernel, kernel \ {cur}}
    /\ buffered' \in {buffered \cup {cur}, buffered \ {cur}}
    /\ Goto("exec")
    /\ UNCHANGED <<table, fate, open, impervious, edge, lists, grab>>

\* it drains the socket and still has only part of a request: yield, stay ready
ReadPartial ==
    /\ pc = "run" /\ cur \in kernel \ buffered
    /\ kernel' = kernel \ {cur}
    /\ BackToWait
    /\ UNCHANGED <<table, fate, open, buffered, edge, impervious, lists, grab>>

\* it would block: mark_client_not_ready and yield
ReadNothing ==
    /\ pc = "run" /\ cur \in open /\ cur \notin buffered \cup kernel
    /\ ready' = ready \ {cur} /\ saved' = saved \ {cur}
    /\ BackToWait
    /\ UNCHANGED <<table, fate, input, ignoreCount, asleep, regrab, grab>>

\* end of file, a read error, or no trans_conn: Dispatch closes the client
ReadFails ==
    /\ pc = "run" /\ cur \notin buffered
    /\ cur \in open => "hangup" \in Faults
    /\ CloseDownClient(cur)
    /\ BackToWait

\* the handler has returned
Return(yields) == pc' = "result" /\ isItTimeToYield' = yields /\ UNCHANGED <<cur, scan>>

\* a request that only its issuer and the replies to it can tell happened;
\* ProcNoOperation stands for every such request
NoOperation ==
    /\ Return(isItTimeToYield)
    /\ UNCHANGED <<table, fate, input, lists, grab>>

\* ProcGrabServer, somebody else's grab: put the request back and wait
GrabServerWaits ==
    /\ grabClient \notin {0, cur}
    /\ waiters' = waiters \cup {cur}
    /\ regrab' = regrab \cup {cur}
    /\ buffered' = buffered \cup {cur}
    /\ IgnoreClient(cur)
    /\ Return(TRUE)
    /\ UNCHANGED <<table, fate, open, kernel, impervious, asleep, grabClient, GrabInProgress>>


\* mark_client_grab: every other ready client is parked, impervious or not
MarkGrab == ready' = ready \cap {cur} /\ saved' = saved \cup (ready \ {cur})

\* (mutant: the grab is taken over from whoever holds it)
TakeOver == TRUE
GrabIsFree == grabClient \in {0, cur}

\* ProcGrabServer: OnlyListenToOneClient, then mark_client_grab
GrabServerTaken ==
    /\ GrabIsFree
    /\ grabClient' = cur
    /\ GrabInProgress' = IF GrabInProgress = 0 THEN cur ELSE GrabInProgress
    /\ edge' = IF GrabInProgress = 0 THEN Rearmed(Ignored, cur) ELSE edge
    /\ MarkGrab
    /\ regrab' = regrab \ {cur}
    /\ Return(isItTimeToYield)
    /\ UNCHANGED <<table, fate, open, kernel, buffered, impervious, ignoreCount, asleep, waiters>>

GrabServer == GrabServerWaits \/ GrabServerTaken

\* OnlyListenToOneClient: the server access callback refuses the grab
GrabDenied ==
    /\ grabClient \in {0, cur}
    /\ regrab' = regrab \ {cur}
    /\ Return(isItTimeToYield)
    /\ UNCHANGED <<table, fate, input, ready, saved, ignoreCount, asleep, grab>>

\* ProcUngrabServer, whoever sends it
UngrabRequest ==
    /\ UngrabServer({})
    /\ Return(isItTimeToYield)
    /\ UNCHANGED <<table, fate, open, kernel, buffered, impervious, asleep, regrab>>

\* ProcXTestGrabControl: MakeClientGrabImpervious, MakeClientGrabPervious
GrabImpervious ==
    /\ impervious' = impervious \cup {cur}
    /\ edge' = (edge \ {cur}) \cup
               (IF cur \in (open \cap kernel) \ Ignored THEN {cur} ELSE {})
    /\ Return(isItTimeToYield)
    /\ UNCHANGED <<table, fate, open, kernel, buffered, lists, grab>>

GrabPervious ==
    /\ impervious' = impervious \ {cur}
    /\ edge' = (edge \ {cur}) \cup
               (IF /\ cur \in (open \cap kernel) \ Ignored
                   /\ GrabInProgress \in {0, cur} THEN {cur} ELSE {})
    /\ Return(TRUE)
    /\ UNCHANGED <<table, fate, open, kernel, buffered, lists, grab>>

\* a request that waits for something: ClientSleep
Sleep ==
    /\ cur \notin asleep
    /\ asleep' = asleep \cup {cur}
    /\ IgnoreClient(cur)
    /\ Return(isItTimeToYield \/ ignoreCount[cur] = 0)
    /\ UNCHANGED <<table, fate, open, kernel, buffered, impervious, regrab, grab>>

\* ProcChangeCloseDownMode
ChangeCloseDownMode ==
    /\ \E m \in Modes : mode' = [mode EXCEPT ![cur] = m]
    /\ Return(isItTimeToYield)
    /\ UNCHANGED <<state, nClients, nextFreeClientID, currentMaxClients,
                   fate, input, lists, grab>>

\* ProcKillClient of a resource's owner; killing oneself forces a yield
KillClient ==
    /\ \E c \in Ids :
        /\ state[c] \in {"Running", "Retained"}
        /\ CloseDownClient(c)
        /\ Return(isItTimeToYield \/ c = cur)

\* ProcKillClient of AllTemporary: CloseDownRetainedResources scans the table
KillTemporary ==
    /\ pc' = "killTemp" /\ scan' = 1
    /\ UNCHANGED <<table, fate, input, lists, grab, cur, isItTimeToYield>>

\* ProcXFixesSetClientDisconnectMode
DisconnectMode ==
    /\ disconnect' \in {disconnect \cup {cur}, disconnect \ {cur}}
    /\ Return(isItTimeToYield)
    /\ UNCHANGED <<table, failed, dispatchException, exceptionTimer, input, lists, grab>>

\* ProcInitialConnection and ProcEstablishConnection: the setup is refused
\* (byte order, length, version or authorization)
RefuseClient ==
    /\ failed' = failed \cup {cur}
    /\ Return(isItTimeToYield)
    /\ UNCHANGED <<table, disconnect, dispatchException, exceptionTimer, input, lists, grab>>

\* ... or accepted: SendConnSetup
AdmitClient ==
    /\ state' = [state EXCEPT ![cur] = "Running"]
    /\ nClients' = nClients + 1
    /\ exceptionTimer' = FALSE
    /\ Return(isItTimeToYield)
    /\ UNCHANGED <<mode, nextFreeClientID, currentMaxClients, failed, disconnect,
                   dispatchException, input, lists, grab>>

\* requestVector[majorOp]: a GrabServer that was put back comes first
Sends(kind) ==
    /\ pc = "exec" /\ state[cur] = "Running" /\ kind \in Requests
    /\ cur \in regrab => kind \in {"GrabServer", "GrabDenied"}

Execute ==
    \/ Sends("NoOperation") /\ NoOperation
    \/ Sends("GrabServer") /\ GrabServer
    \/ Sends("GrabDenied") /\ (GrabServerWaits \/ GrabDenied)
    \/ Sends("UngrabServer") /\ UngrabRequest
    \/ Sends("Impervious") /\ GrabImpervious
    \/ Sends("Pervious") /\ GrabPervious
    \/ Sends("Sleep") /\ Sleep
    \/ Sends("ChangeCloseDownMode") /\ ChangeCloseDownMode
    \/ Sends("KillClient") /\ KillClient
    \/ Sends("KillTemporary") /\ KillTemporary
    \/ Sends("DisconnectMode") /\ DisconnectMode

ConnectionSetup ==
    /\ pc = "exec" /\ state[cur] = "Initial"
    /\ RefuseClient \/ AdmitClient

\* one turn of CloseDownRetainedResources
KillScan ==
    /\ pc = "killTemp"
    /\ IF scan < currentMaxClients
       THEN /\ IF scan \in Gone /\ mode[scan] = "RetainTemporary"
               THEN CloseDownClient(scan)
               ELSE UNCHANGED <<table, fate, input, lists, grab>>
            /\ ScanNext
       ELSE /\ pc' = "result" /\ scan' = 0
            /\ UNCHANGED <<table, fate, input, lists, grab, cur, isItTimeToYield>>

\* Dispatch after the handler: client.noClientException is read first
CloseFailed ==
    /\ pc = "result" /\ cur \in failed
    /\ CloseDownClient(cur)
    /\ BackToWait

\* a Success that does not yield goes on; anything else leaves the loop
AfterRequest ==
    /\ pc = "result" /\ cur \in Allocated \ failed
    /\ \/ BackToWait
       \/ ~isItTimeToYield /\ Goto("run")
    /\ UNCHANGED <<table, fate, input, lists, grab>>

\* the client killed itself and its record has been freed: what Dispatch
\* reads is either still Success or garbage that makes it close it again
AfterFreed ==
    /\ pc = "result" /\ cur \notin Allocated
    /\ BackToWait \/ Goto("crashed")
    /\ UNCHANGED <<table, fate, input, lists, grab>>

-----------------------------------------------------------------------------
(* The end of Dispatch.                                                    *)

LeaveLoop ==
    /\ pc = "wait" /\ dispatchException
    /\ pc' = "killAll" /\ scan' = 1
    /\ UNCHANGED <<table, fate, input, lists, grab, cur, isItTimeToYield>>

\* KillAllClients sets closeDownMode to DestroyAll, then closes
KillAllScan ==
    /\ pc = "killAll" /\ scan < currentMaxClients
    /\ IF state[scan] = "Free"
       THEN ScanNext /\ UNCHANGED <<table, fate, input, lists, grab>>
       ELSE IF mode[scan] = "DestroyAll" \/ scan \in Gone
       THEN ScanNext /\ CloseDownClient(scan)
       ELSE /\ mode' = [mode EXCEPT ![scan] = "DestroyAll"]
            /\ UNCHANGED <<state, nClients, nextFreeClientID, currentMaxClients,
                           fate, input, lists, grab, loop>>

Stop ==
    /\ pc = "killAll" /\ scan >= currentMaxClients
    /\ Goto("down")
    /\ UNCHANGED <<table, fate, input, lists, grab>>

Halted == pc \in {"down", "crashed"} /\ UNCHANGED vars

-----------------------------------------------------------------------------
Poll == \/ \E c \in Ids : HangUp(c) \/ ReadEvent(c) \/ Wakeup(c)
        \/ ExceptionTimerFires \/ Connection

Accepting == CloseStraggler \/ KeepClient \/ Accept \/ RejectConnection

Environment == \/ \E c \in Ids : DataArrives(c) \/ OutputError(c)
               \/ GiveUp

InnerLoop == \/ SliceEnds \/ ReadRequest \/ ReadPartial \/ ReadNothing \/ ReadFails
             \/ Execute \/ ConnectionSetup \/ KillScan
             \/ CloseFailed \/ AfterRequest \/ AfterFreed

Next == \/ Poll \/ Accepting \/ Environment
        \/ \E c \in Ids : Schedule(c)
        \/ InnerLoop
        \/ LeaveLoop \/ KillAllScan \/ Stop \/ Halted

Spec == Init /\ [][Next]_vars
=============================================================================
