------------------------------ MODULE MCTimers ------------------------------
(* A small instance of the timers for TLC. *)
EXTENDS TimersProps
=============================================================================
