---------------------------- MODULE MCSleepLock ----------------------------
(***************************************************************************)
(* Finite instance of SleepLock: that of Teleop, without faults.           *)
(***************************************************************************)
EXTENDS MCTeleop, SleepLock
=============================================================================
