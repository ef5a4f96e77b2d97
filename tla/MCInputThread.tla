--------------------------- MODULE MCInputThread ---------------------------
(* Small instances of the input thread for TLC. *)
EXTENDS InputThreadProps

OneDevice == {"mouse"}
TwoDevices == {"mouse", "pad"}
OneFd == {"fd1"}
TwoFds == {"fd1", "fd2"}
TwoEntries == {"e1", "e2"}
ThreeEntries == {"e1", "e2", "e3"}
=============================================================================
