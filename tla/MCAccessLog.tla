------------------------------ MODULE MCAccessLog ------------------------------
(***************************************************************************)
(* AccessLog on small constants, for TLC.                                  *)
(***************************************************************************)
EXTENDS AccessLogProps
=============================================================================
