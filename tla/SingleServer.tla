----------------------------- MODULE SingleServer -----------------------------
(***************************************************************************)
(* What the supervisor promises to whoever uses the machine, without       *)
(* saying how: of the main server there is never more than one process,    *)
(* a new one is launched only when none is left, and a server that has     *)
(* been asked to stop does stop.  Supervisor.tla implements it.            *)
(***************************************************************************)
EXTENDS Naturals

VARIABLES
  live,       \* how many main-server processes are alive
  stopping    \* has the one that is alive been asked to stop?

absVars == <<live, stopping>>

AbsInit == live = 0 /\ stopping = FALSE

Launch == live = 0 /\ live' = 1 /\ UNCHANGED stopping

AskToStop == live = 1 /\ ~stopping /\ stopping' = TRUE /\ UNCHANGED live

Die == live = 1 /\ live' = 0 /\ stopping' = FALSE

AbsNext == Launch \/ AskToStop \/ Die

AbsSpec == AbsInit /\ [][AbsNext]_absVars /\ WF_absVars(stopping /\ Die)

(***************************************************************************)
(* The safety half, which is what the proofs reach (fairness is left to    *)
(* the model checker).                                                     *)
(***************************************************************************)
AbsSafety == AbsInit /\ [][AbsNext]_absVars
=============================================================================
