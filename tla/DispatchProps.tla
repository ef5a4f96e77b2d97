---------------------------- MODULE DispatchProps ----------------------------
(***************************************************************************)
(* What the client scheduler of Dispatch promises.                         *)
(***************************************************************************)
EXTENDS Dispatch

\* Every variable of Dispatch() and of the client table has its type.
TableTypes ==
    /\ state \in [Ids -> {"Free", "Initial", "Running", "Retained"}]
    /\ mode \in [Ids -> Modes]
    /\ nClients \in 0 .. LimitClients - 1
    /\ nextFreeClientID \in 1 .. LimitClients
    /\ currentMaxClients \in 1 .. LimitClients
    /\ failed \subseteq Ids /\ disconnect \subseteq Ids
    /\ dispatchException \in BOOLEAN /\ exceptionTimer \in BOOLEAN

ListTypes ==
    /\ ignoreCount \in [Ids -> Nat]
    /\ open \subseteq Ids /\ kernel \subseteq Ids /\ buffered \subseteq Ids
    /\ impervious \subseteq Ids /\ edge \subseteq Ids
    /\ ready \subseteq Ids /\ saved \subseteq Ids /\ asleep \subseteq Ids /\ regrab \subseteq Ids
    /\ waiters \subseteq Ids /\ grabClient \in Ids \cup {0} /\ GrabInProgress \in Ids \cup {0}

LoopTypes ==
    /\ pc \in {"wait", "run", "exec", "result", "accept", "killTemp", "killAll",
               "down", "crashed"}
    /\ cur \in Ids \cup {0} /\ isItTimeToYield \in BOOLEAN
    /\ scan \in 0 .. LimitClients

TypeOK == TableTypes /\ ListTypes /\ LoopTypes

-----------------------------------------------------------------------------
(* Safety.                                                                 *)

\* A client CloseDownClient has finished with is on no list, in no mask and
\* behind no descriptor through which the dispatcher could reach it again.
GoneIsUnreachable ==
    ready \cup saved \cup waiters \cup asleep \cup open \cup edge
          \cup buffered \cup regrab \cup impervious \subseteq Live

\* dispatch.d's grabClient and connection.d's GrabInProgress name the same
\* client, and that client is still connected to the dispatcher: a dying
\* holder's grab is released by CloseDownClient.
GrabHasHolder ==
    /\ GrabInProgress = grabClient
    /\ grabClient # 0 => state[grabClient] = "Running"

\* Clients are parked on saved_ready_clients only while somebody else holds
\* the grab: mark_client_ungrab and AttendClient leave nobody behind.
SavedAwaitsRelease ==
    saved # {} => grabClient # 0 /\ grabClient \notin saved

\* The dispatcher is never handed a connected client that is ignored or
\* locked out by the grab, whatever order events, wakeups, grabs and
\* releases came in.
ReadyMayRun ==
    \A c \in ready \cap open : Listens(c, Ignored, GrabInProgress)

\* ignoreCount of a connected client counts exactly the reasons it has to
\* be ignored: no AttendClient is lost or done twice.
IgnoreIsBalanced ==
    \A c \in open :
        ignoreCount[c] = (IF c \in waiters THEN 1 ELSE 0) + (IF c \in asleep THEN 1 ELSE 0)

\* With edge-triggered epoll a read event is reported once.  A connected
\* client with a request in hand or bytes in its socket that the server does
\* not ignore is on a ready list, has an event coming, or will be re-armed
\* when the grab that mutes it ends; a request already buffered, which no
\* event would ever announce, keeps its client on a list.
NoLostInput ==
    \A c \in open \ Ignored :
        /\ c \in buffered => c \in ready \cup saved
        /\ c \in kernel => \/ c \in ready \cup saved \cup edge
                           \/ ~Listens(c, Ignored, GrabInProgress)

\* nextFreeClientID is "always MIN free client ID".
FreeIDIsMinimal ==
    /\ nextFreeClientID \notin Allocated
    /\ \A i \in Ids : i < nextFreeClientID => i \in Allocated

\* Every loop over "i < currentMaxClients" meets every client, and the end
\* of the table is not a free slot.
TableEndIsTight ==
    /\ \A i \in Allocated : i < currentMaxClients
    /\ currentMaxClients = 1 \/ currentMaxClients - 1 \in Allocated

\* nClients is the number of authorized clients, through refused setups,
\* retained clients and second kills: it decides when the server ends.
AuthorizedAreCounted ==
    nClients = Cardinality({c \in Ids : state[c] = "Running"})

\* What Dispatch() caches about the client table matches the table: the next
\* free ID, the end of the table and the number of authorized clients, through
\* refused setups, retained clients, second kills and clients closed in any
\* order.
CachesAreTrue == FreeIDIsMinimal /\ TableEndIsTight /\ AuthorizedAreCounted

-----------------------------------------------------------------------------
(* What makes these properties inductive.                                  *)

\* every AttendClient that is still to come finds a count to take one from
IgnoreCovers ==
    \A c \in Ids :
        ignoreCount[c] >= (IF c \in waiters THEN 1 ELSE 0) + (IF c \in asleep THEN 1 ELSE 0)

\* IgnoreClient takes a client off both lists, and only AbortClient puts an
\* ignored one back
ListedAreAttended == (ready \cup saved) \cap open \cap Ignored = {}

\* the client Dispatch works for: ready until its request makes it yield
CurIsReady ==
    /\ pc \in {"run", "exec", "killTemp"} => cur \in ready
    /\ pc = "result" => cur \in Ids /\ (~isItTimeToYield => cur \in ready)

\* only a client the server listens to has a read event coming
EdgeIsHeard == \A c \in edge : Listens(c, Ignored, GrabInProgress)

\* a slot is handed out again with its count at 0
GoneAreAttended == Ignored \subseteq Live

\* an exception is raised on a client record, which goes when it is freed
FailedAreAllocated == failed \subseteq Allocated

\* scans start at slot 1
ScanInTable == pc \in {"accept", "killTemp", "killAll"} => scan \in Ids \cup {LimitClients}

TableInv ==
    FreeIDIsMinimal /\ TableEndIsTight /\ AuthorizedAreCounted /\ FailedAreAllocated

ListInv ==
    /\ GoneIsUnreachable /\ GrabHasHolder /\ SavedAwaitsRelease
    /\ IgnoreCovers /\ IgnoreIsBalanced /\ ListedAreAttended
    /\ EdgeIsHeard /\ GoneAreAttended

LoopInv == CurIsReady /\ ScanInTable

IndInv == TypeOK /\ TableInv /\ ListInv /\ LoopInv

\* bytes are only waiting in the socket of an open connection: a slot is
\* handed out again with none
KernelIsOpen == kernel \subseteq open

InputInv == NoLostInput /\ KernelIsOpen

-----------------------------------------------------------------------------
(* The server grab, abstractly.                                            *)

Grab == INSTANCE ServerGrab WITH
    Clients <- Ids, Nobody <- 0,
    holder <- grabClient, exempt <- impervious,
    serving <- IF pc = "exec" THEN cur ELSE 0

\* While the server is grabbed only requests of the grabbing client, and of
\* clients MakeClientGrabImpervious has exempted, are executed; and
\* ProcGrabServer never takes a grab over from another client.
GrabIsExclusive == Grab!GrabSpec

-----------------------------------------------------------------------------
(* Liveness.  The thread keeps running; epoll reports every event that is  *)
(* due each time WaitForSomething polls, SmartScheduleClient comes round to *)
(* every client that stays ready, and SmartScheduleTime ends every slice.  *)

ServedNow(c) == cur = c /\ (ReadRequest \/ ReadPartial \/ ReadNothing \/ ReadFails)

Fairness ==
    /\ WF_vars(Accepting) /\ WF_vars(InnerLoop) /\ SF_vars(SliceEnds)
    /\ \A c \in Ids : SF_vars(ReadEvent(c)) /\ SF_vars(Schedule(c)) /\ SF_vars(ServedNow(c))

FairSpec == Spec /\ Fairness

\* the server is not to read from c: it is ignored, locked out or gone
Barred(c) == c \notin open \/ ~Listens(c, Ignored, GrabInProgress)

\* A client whose bytes have arrived is read from, unless it closes, has to
\* wait for something, or the server is grabbed.
InputIsServed ==
    \A c \in Ids : c \in open \cap (kernel \cup buffered)
                   ~> \/ pc \in {"run", "exec"} /\ cur = c
                      \/ Barred(c) \/ dispatchException \/ pc = "crashed"

\* A client whose connection broke while it was written to is closed, unless
\* the server stays grabbed by another client.
DoomedIsClosed ==
    \A c \in Ids : c \in failed \cap Live
                   ~> \/ c \notin Live \/ grabClient \notin {0, c}
                      \/ dispatchException \/ pc = "crashed"

-----------------------------------------------------------------------------
(* What comments of the source promise and the code does not keep.         *)

\* "so that Dispatch() doesn't try to touch client": no client record is
\* read after ProcKillClient has freed it.
DispatchTouchesLiveClient == pc = "result" => cur \in Allocated
=============================================================================
