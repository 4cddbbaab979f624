------------------------------ MODULE MCSessions ------------------------------
(***************************************************************************)
(* Sessions on small constants, for TLC.                                   *)
(***************************************************************************)
EXTENDS SessionsProps, TLC

Interchangeable == Permutations(Request)
=============================================================================
