------------------------------ MODULE MCHotReload ------------------------------
(***************************************************************************)
(* HotReload on small constants, for TLC.                                  *)
(***************************************************************************)
EXTENDS HotReloadProps, TLC

CONSTANTS c1, c2, x, y

TwoBases == c1 :> x @@ c2 :> y
=============================================================================
