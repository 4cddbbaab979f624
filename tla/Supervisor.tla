------------------------------ MODULE Supervisor ------------------------------
(***************************************************************************)
(* src/supervisor.js, class Supervisor: one child process (the main        *)
(* server) and the asynchronous calls start(), stop() and restart() that   *)
(* several callers can have in flight at the same time.  Between two       *)
(* awaits the code runs without interruption, so each action below is the  *)
(* code from one await to the next.  Who calls, and when, is left open     *)
(* here; Watchdog.tla composes this module with its real callers.          *)
(*                                                                         *)
(* An operator named X_Faulty is X with a plausible mistake.  Nothing uses *)
(* it: it is put in the place of X to see that a property notices.         *)
(***************************************************************************)
EXTENDS Naturals

CONSTANTS
  Caller,        \* callers, each with at most one call in flight
  HealthTries    \* bound: attempts of waitForHealth before its 30 s deadline

ASSUME HealthTriesAssumption == HealthTries \in Nat

VARIABLES
  child,         \* this.child: none yet, alive (silent or up) or how it died
  expectedExit,  \* this.expectedExit
  stopping,      \* is this.stoppingPromise set?  (its SIGKILL timer is then armed)
  pc,            \* for each caller, the await its call is suspended at
  tries,         \* for each caller in waitForHealth, the attempts that failed
  orphaned       \* history: was a live child ever dropped for a new one?

supVars == <<child, expectedExit, stopping, pc, tries, orphaned>>

(* A child that exits by itself sets exitCode, one that dies by a signal sets
   signalCode.  Nothing looks at the value of the code. *)
ExitKind == {"code", "signal"}

Alive == child \in {"silent", "up"}

Pc == {"idle", "stop", "rstop", "cooldown", "health"}

SupTypeOK ==
  /\ child \in {"none", "silent", "up"} \cup ExitKind
  /\ expectedExit \in BOOLEAN
  /\ stopping \in BOOLEAN
  /\ pc \in [Caller -> Pc]
  /\ tries \in [Caller -> 0..HealthTries]
  /\ orphaned \in BOOLEAN

SupInit ==
  /\ child = "none"
  /\ expectedExit = FALSE
  /\ stopping = FALSE
  /\ pc = [c \in Caller |-> "idle"]
  /\ tries = [c \in Caller |-> 0]
  /\ orphaned = FALSE

-----------------------------------------------------------------------------
(* start() *)

Spawn_Faulty(c) ==   \* expectedExit is not cleared
  /\ child' = "silent"
  /\ pc' = [pc EXCEPT ![c] = "health"]
  /\ tries' = [tries EXCEPT ![c] = 0]
  /\ orphaned' = (orphaned \/ Alive)
  /\ UNCHANGED <<stopping, expectedExit>>

(* From the guard that lets start() proceed to its first await: the flag is
   cleared, the process spawned, and the caller waits for /health.  start()
   also awaits stoppingPromise when it finds no live child; StopIsResolvable
   shows that the promise is never set then. *)
Spawn(c) ==
  /\ child' = "silent"
  /\ expectedExit' = FALSE
  /\ pc' = [pc EXCEPT ![c] = "health"]
  /\ tries' = [tries EXCEPT ![c] = 0]
  /\ orphaned' = (orphaned \/ Alive)
  /\ UNCHANGED stopping

Start_Faulty(c) == pc[c] = "idle" /\ Spawn(c)   \* no check for a live child

(* start() with a live child throws 409 before it changes anything: it is a
   stuttering step here. *)
Start(c) ==
  /\ pc[c] = "idle"
  /\ ~Alive
  /\ Spawn(c)

-----------------------------------------------------------------------------
(* stop() *)

(* A second stop() shares the promise of the first and changes nothing but
   the caller, who waits for the same exit. *)
BeginStop(c, await) ==
  /\ Alive
  /\ stopping' = TRUE
  /\ expectedExit' = (expectedExit \/ ~stopping)
  /\ pc' = [pc EXCEPT ![c] = await]
  /\ UNCHANGED <<child, tries, orphaned>>

Stop(c) == pc[c] = "idle" /\ BeginStop(c, "stop")

-----------------------------------------------------------------------------
(* restart() *)

Restart(c) ==
  /\ pc[c] = "idle"
  /\ \/ BeginStop(c, "rstop")
     \/ /\ ~Alive
        /\ pc' = [pc EXCEPT ![c] = "cooldown"]
        /\ UNCHANGED <<child, expectedExit, stopping, tries, orphaned>>

CooldownSpawn_Faulty(c) == pc[c] = "cooldown" /\ Spawn(c)   \* no check again

(* The cooldown ends and restart() calls start(). *)
CooldownSpawn(c) ==
  /\ pc[c] = "cooldown"
  /\ ~Alive
  /\ Spawn(c)

(* Somebody else started the server during the cooldown: start() throws 409
   and so does restart(). *)
CooldownRefused(c) ==
  /\ pc[c] = "cooldown"
  /\ Alive
  /\ pc' = [pc EXCEPT ![c] = "idle"]
  /\ UNCHANGED <<child, expectedExit, stopping, tries, orphaned>>

-----------------------------------------------------------------------------
(* waitForHealth() *)

(* isAlive of waitForHealth: exitCode === null, whatever signalCode says. *)
LooksAlive == child \in {"silent", "up", "signal"}

HealthOk(c) ==
  /\ pc[c] = "health"
  /\ child = "up"
  /\ pc' = [pc EXCEPT ![c] = "idle"]
  /\ tries' = [tries EXCEPT ![c] = 0]
  /\ UNCHANGED <<child, expectedExit, stopping, orphaned>>

(* An attempt fails (an up server may be too slow for its 1 s timeout) and
   another is scheduled. *)
HealthRetry(c) ==
  /\ pc[c] = "health"
  /\ LooksAlive
  /\ tries[c] < HealthTries
  /\ tries' = [tries EXCEPT ![c] = @ + 1]
  /\ UNCHANGED <<child, expectedExit, stopping, pc, orphaned>>

(* An attempt fails and no other is made: the wait resolves to false. *)
HealthGiveUp(c) ==
  /\ pc[c] = "health"
  /\ ~LooksAlive \/ tries[c] = HealthTries
  /\ pc' = [pc EXCEPT ![c] = "idle"]
  /\ tries' = [tries EXCEPT ![c] = 0]
  /\ UNCHANGED <<child, expectedExit, stopping, orphaned>>

-----------------------------------------------------------------------------
(* The child process *)

(* The event loop begins to answer: listen() after boot, or a hang is over. *)
Respond ==
  /\ child = "silent"
  /\ child' = "up"
  /\ UNCHANGED <<expectedExit, stopping, pc, tries, orphaned>>

Hang ==
  /\ child = "up"
  /\ child' = "silent"
  /\ UNCHANGED <<expectedExit, stopping, pc, tries, orphaned>>

(* A caller suspended on the stop promise goes on when the child exits. *)
AfterExit(await) ==
  CASE await = "stop"  -> "idle"
    [] await = "rstop" -> "cooldown"
    [] OTHER           -> await

(* The child exits, by itself or because it was asked to, and its 'exit'
   handlers run: the one of stop() resolves the promise and its waiters go
   on.  What the one of start() reports to the watchdog is in Watchdog.tla. *)
Exit(kind) ==
  /\ Alive
  /\ child' = kind
  /\ stopping' = FALSE
  /\ pc' = [c \in Caller |-> AfterExit(pc[c])]
  /\ UNCHANGED <<expectedExit, tries, orphaned>>

KillAfterTimeout_Faulty ==   \* SIGTERM only, which a hung child never handles
  stopping /\ child = "up" /\ Exit("code")

(* The timer of stop() expires and the child is killed. *)
KillAfterTimeout == stopping /\ Exit("signal")

-----------------------------------------------------------------------------
Resume(c) ==
  \/ CooldownSpawn(c)
  \/ CooldownRefused(c)
  \/ HealthOk(c)
  \/ HealthRetry(c)
  \/ HealthGiveUp(c)

SupNext ==
  \/ \E c \in Caller : Start(c) \/ Stop(c) \/ Restart(c) \/ Resume(c)
  \/ Respond
  \/ Hang
  \/ \E kind \in ExitKind : Exit(kind)

SupSafety == SupInit /\ [][SupNext]_supVars

(* Timers fire and the requests of waitForHealth end, so every suspended call
   goes on; SIGKILL cannot be ignored.  Nothing is assumed of the callers nor
   of the child's own behaviour. *)
SupFairness ==
  /\ \A c \in Caller : WF_supVars(Resume(c))
  /\ WF_supVars(KillAfterTimeout)

SupSpec == SupSafety /\ SupFairness
=============================================================================
