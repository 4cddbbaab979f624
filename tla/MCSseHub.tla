------------------------------- MODULE MCSseHub -------------------------------
(***************************************************************************)
(* SseHub on small constants, for TLC.                                     *)
(***************************************************************************)
EXTENDS SseHubProps
=============================================================================
