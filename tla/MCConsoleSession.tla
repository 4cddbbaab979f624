--------------------------- MODULE MCConsoleSession ---------------------------
(***************************************************************************)
(* ConsoleSession on small constants, for TLC.                             *)
(***************************************************************************)
EXTENDS ConsoleSessionProps
=============================================================================
