------------------------------ MODULE MCShutdown ------------------------------
(***************************************************************************)
(* Shutdown on small constants, for TLC.                                   *)
(***************************************************************************)
EXTENDS ShutdownProps
=============================================================================
