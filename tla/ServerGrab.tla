----------------------------- MODULE ServerGrab -----------------------------
(***************************************************************************)
(* What a server grab promises to the client that holds it, without ready  *)
(* lists, poll masks or ignore counts: while it is held, only requests of  *)
(* its holder, and of clients exempt from grabs, are executed, and it goes *)
(* from one client to another only by being free in between.               *)
(***************************************************************************)
CONSTANT Clients, Nobody

VARIABLES
    holder,     \* the client that holds the grab, or Nobody
    exempt,     \* clients impervious to grabs
    serving     \* the client whose request is being executed, or Nobody

grabVars == <<holder, exempt, serving>>

GrabInit == holder = Nobody /\ exempt = {} /\ serving = Nobody

\* a client is let in
Serve(c) ==
    /\ serving = Nobody
    /\ holder \in {Nobody, c} \/ c \in exempt
    /\ serving' = c
    /\ UNCHANGED <<holder, exempt>>

\* its request takes the grab, if it is free
Take ==
    /\ serving # Nobody /\ holder = Nobody
    /\ holder' = serving /\ serving' = Nobody
    /\ UNCHANGED exempt

\* or does something else: it may end a grab, or clients, or its exemption
Complete ==
    /\ serving # Nobody /\ serving' = Nobody
    /\ holder' \in {holder, Nobody}
    /\ exempt' \subseteq exempt \cup {serving}

\* clients leave, with the grab if they hold it
Leave(c) ==
    /\ holder' = IF holder = c THEN Nobody ELSE holder
    /\ exempt' = exempt \ {c}
    /\ UNCHANGED serving

GrabNext == Take \/ Complete \/ \E c \in Clients : Serve(c) \/ Leave(c)

GrabSpec == GrabInit /\ [][GrabNext]_grabVars
=============================================================================
