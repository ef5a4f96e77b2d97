---------------------------- MODULE MCEventQueue ----------------------------
(* Small instances of the input event queue for TLC. *)
EXTENDS EventQueueProps

\* 512 and its doublings, scaled down
SmallSizes == {2, 4}
OneTime == {0}
TwoDevices == {"mouse", "pad"}
Pads == {"pad"}
=============================================================================
