---------------------------- MODULE MCPowerSensors ----------------------------
(***************************************************************************)
(* An instance of PowerSensors for TLC: the lock of the phone application, *)
(* which is permitted, and that of another; and a poke lock.               *)
(***************************************************************************)
EXTENDS PowerSensors

PhoneLocks == {"phone"}
AppLocks == PhoneLocks \cup {"app"}
OneToken == {"keyguard"}
===============================================================================
