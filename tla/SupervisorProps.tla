--------------------------- MODULE SupervisorProps ---------------------------
(***************************************************************************)
(* What must hold of Supervisor whoever calls it and in whatever order.    *)
(***************************************************************************)
EXTENDS Supervisor

(* The promise that stop(), restart() and start() wait on is set only while
   there is a live process whose exit will resolve it.  Otherwise every later
   call would wait for ever (supervisor.js:72-75, 183, 187-196). *)
StopIsResolvable == stopping => Alive

(* While the child is alive, an exit is "expected" exactly when a stop is in
   progress.  A flag left over from an earlier stop would hide a crash from
   the watchdog; one lost too early would report a requested stop as a crash
   and bring the server back (supervisor.js:101, 184, 157). *)
ExpectedIffStopping == Alive => (expectedExit <=> stopping)

(* No interleaving of start, restart and their cooldowns ever launches a
   second main server beside a live one: two processes on one port
   (supervisor.js:69, 113, 235-237). *)
NeverTwoServers == ~orphaned

(* A call that waits for the stop promise never outlives the stop. *)
WaitersHaveAStop == \A c \in Caller : pc[c] \in {"stop", "rstop"} => stopping

(* Every control call is answered, whatever the other callers do meanwhile:
   the stop ends in a kill, the cooldown in a spawn or a refusal, the health
   wait at its deadline. *)
CallsReturn == \A c \in Caller : pc[c] # "idle" ~> pc[c] = "idle"

(* Supervisor implements SingleServer. *)
Abstract == INSTANCE SingleServer WITH
  live <- (IF Alive THEN 1 ELSE 0) + (IF orphaned THEN 1 ELSE 0)

(* Seen from outside there is one server at most, launched only when none is
   left, and a server asked to stop stops. *)
ImplementsSingleServer == Abstract!AbsSpec
=============================================================================
