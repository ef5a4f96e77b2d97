----------------------------- MODULE MCDispatch -----------------------------
(* Small instances of the client scheduler for TLC. *)
EXTENDS DispatchProps

\* both kinds of waiting: for the grab, by clients that may be exempt from
\* grabs, and for a wakeup
WaitRequests == {"GrabServer", "UngrabServer", "Impervious", "Sleep"}
\* requests that compete for the grab, from clients that also sleep
SleepRequests == {"GrabServer", "UngrabServer", "Sleep"}
\* requests that decide how the server ends
EndRequests == {"NoOperation", "ChangeCloseDownMode", "KillClient", "DisconnectMode"}
\* every kind of request but Sleep
WakefulRequests == RequestKinds \ {"Sleep"}
=============================================================================
