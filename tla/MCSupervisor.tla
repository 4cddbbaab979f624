---------------------------- MODULE MCSupervisor ----------------------------
(***************************************************************************)
(* Supervisor with three concurrent callers, for TLC.                      *)
(***************************************************************************)
EXTENDS SupervisorProps
=============================================================================
