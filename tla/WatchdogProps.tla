---------------------------- MODULE WatchdogProps ----------------------------
(***************************************************************************)
(* What the supervisor and its watchdog should guarantee together, and     *)
(* what the comments of the code say they do.                              *)
(***************************************************************************)
EXTENDS Watchdog

Restarting == dog # "idle"

(* Once the watchdog has given up it touches nothing: no automatic restart is
   under way, not even one decided before by the other of its two triggers
   (watchdog.js:65, 239, 164). *)
HaltIsQuiet == halted => ~Restarting

(* The watchdog never counts more automatic restarts in an hour than it may
   make, whatever mixture of hangs, crashes, refused restarts and manual
   resets there is (watchdog.js:79, 300, 311). *)
BudgetKept == WithinBudget(history)

(* The watchdog leaves a server alone for the minimum gap.  From when an
   automatic restart launched a server, or gave way to one that somebody else had
   launched, until the next one begins, that time has passed: whatever crashes,
   hangs, exit notices, manual starts and resets there are in between, whether
   or not the restart ended well, and also when it has fallen out of the history
   (watchdog.js:82-84, 296, 309). *)
GapKept == [][~Restarting /\ Restarting' => launched >= MinGap]_vars

(* All the watchdog, the control API, bootstrap and shutdown do to the child,
   they do through start(), stop() and restart(): whatever holds of Supervisor
   holds of the whole process. *)
ImplementsSupervisor == SupSafety

(* A server that stays silent is dealt with: it is restarted, or the watchdog
   gives up and says so (watchdog.js:15, 20-22). *)
HangIsHandled ==
  child = "silent" ~> child # "silent" \/ halted \/ phase # "run"

(* _restart() always gets to its finally: restarting does not stay set, which
   would switch the watchdog off for good (watchdog.js:210, 269, 314). *)
RestartEnds == Restarting ~> ~Restarting \/ phase = "exited"

(* A supervisor told to stop does stop. *)
ShutdownEnds == phase = "stopping" ~> phase = "exited"

-----------------------------------------------------------------------------
(* What the comments say and the code does not do *)

(* A server that died by itself comes back, unless the watchdog has given up
   or people have stopped it. *)
CrashIsHandled ==
  child \in ExitKind /\ wanted = "up" ~>
    Alive \/ halted \/ wanted = "down" \/ phase # "run"
=============================================================================
