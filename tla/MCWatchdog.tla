------------------------------ MODULE MCWatchdog ------------------------------
(***************************************************************************)
(* Watchdog on small constants, for TLC.                                   *)
(***************************************************************************)
EXTENDS WatchdogProps
=============================================================================
