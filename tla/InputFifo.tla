----------------------------- MODULE InputFifo -----------------------------
(***************************************************************************)
(* What the input event queue promises its two users: events come out in   *)
(* the order they went in, the only event that is ever changed is the last *)
(* one, a motion that a later motion of the same device supersedes, and no *)
(* event is tossed while fewer than Room wait.                             *)
(***************************************************************************)
EXTENDS Naturals, Sequences

CONSTANTS Events,       \* records with the fields dev and type
          Room

VARIABLES queue, offered

Put(e) == queue' = Append(queue, e) /\ offered' = offered + 1

Supersede(e) ==
    /\ queue # <<>>
    /\ LET last == queue[Len(queue)]
       IN e.type = "Motion" /\ last.type = "Motion" /\ last.dev = e.dev
    /\ queue' = [queue EXCEPT ![Len(queue)] = e]
    /\ offered' = offered + 1

Toss == Len(queue) >= Room /\ offered' = offered + 1 /\ UNCHANGED queue

Take == queue # <<>> /\ queue' = Tail(queue) /\ UNCHANGED offered

FifoInit == queue = <<>> /\ offered = 0

FifoNext == Take \/ Toss \/ \E e \in Events : Put(e) \/ Supersede(e)

FifoSpec == FifoInit /\ [][FifoNext]_<<queue, offered>>
=============================================================================
