------------------------------- MODULE Watchdog -------------------------------
(***************************************************************************)
(* The supervisor process as a whole: Supervisor with its four kinds of    *)
(* callers, which are bootstrap() and shutdown() of src/supervisor.js, the *)
(* control API of src/controlServer.js and the watchdog of                 *)
(* src/watchdog.js.  The watchdog probes /health/live, hears of exits, and *)
(* calls restart() by the rules of WatchdogPolicy.                         *)
(*                                                                         *)
(* The delays of the timers are not compared with each other, except those *)
(* the policy reads: any timer may be the first to fire.                   *)
(***************************************************************************)
EXTENDS Supervisor, WatchdogPolicy

CONSTANTS
  Human,        \* control API requests that can be in flight together
  Boot,         \* the start() of bootstrap()
  Dog,          \* the restart() of the watchdog
  Term,         \* the stop() of shutdown()
  MaxNotices,   \* bound: exits waiting for their 500 ms at the same time
  MaxRequests   \* bound: requests people make in all

ASSUME CallerAssumption ==
  /\ Caller = Human \cup {Boot, Dog, Term}
  /\ {Boot, Dog, Term} \cap Human = {}
  /\ Boot # Dog /\ Dog # Term /\ Boot # Term
ASSUME BoundAssumption == MaxNotices \in Nat \ {0} /\ MaxRequests \in Nat

VARIABLES
  watching,     \* is the interval timer of the watchdog set?
  notices,      \* how many exits onChildExit will yet be called for
  probe,        \* "none", or what the child was like when _probe() began
  dog,          \* "idle", "dump" or "restart": restarting and where _restart is
  fails,        \* consecutiveFailures, which stops growing at Failures
  halted,       \* halted
  since,        \* time since lastRestartAt, which stops growing at MinGap
  history,      \* history
  launched,     \* history: time since an automatic restart last launched a server,
                \* or found one that others had launched, as far as MinGap
  phase,        \* the supervisor: "run", "stopping", "closing" or "exited"
  requests,     \* requests people may still make
  wanted        \* history: "up" or "down", what people last obtained

dogVars == <<probe, dog, fails, halted, since, history, launched>>
vars == <<supVars, dogVars, watching, notices, phase, requests, wanted>>

TypeOK ==
  /\ SupTypeOK
  /\ watching \in BOOLEAN
  /\ notices \in 0..MaxNotices
  /\ probe \in {"none", "silent", "up"}
  /\ dog \in {"idle", "dump", "restart"}
  /\ fails \in 0..Failures
  /\ halted \in BOOLEAN
  /\ since \in 0..MinGap
  /\ history \in History
  /\ launched \in 0..MinGap
  /\ phase \in {"run", "stopping", "closing", "exited"}
  /\ requests \in 0..MaxRequests
  /\ wanted \in {"up", "down"}

(* The history may have been loaded from the events file of an earlier
   supervisor, which kept the same budget. *)
Init ==
  /\ SupInit
  /\ watching = FALSE
  /\ notices = 0
  /\ probe = "none"
  /\ dog = "idle"
  /\ fails = 0
  /\ halted = FALSE
  /\ history \in UNION {[1..n -> Age] : n \in 0..HistoryLimit}
  /\ WithinBudget(history)
  /\ since \in {t \in 0..MinGap : SinceLastRestart(history, t)}
  /\ launched = MinGap
  /\ phase = "run"
  /\ requests = MaxRequests
  /\ wanted = "up"

Capped(n) == IF n < Failures THEN n + 1 ELSE Failures

-----------------------------------------------------------------------------
(* bootstrap() *)

BootStart ==
  /\ child = "none"
  /\ Start(Boot)
  /\ UNCHANGED <<dogVars, watching, notices, phase, requests, wanted>>

BootReturns_Faulty ==   \* watched only if it came up healthy
  /\ HealthOk(Boot) \/ HealthGiveUp(Boot)
  /\ watching' = (child = "up")
  /\ UNCHANGED <<dogVars, notices, phase, requests, wanted>>

(* start() of bootstrap() returns: the interval timer is set, in whatever
   shape the server is. *)
BootReturns ==
  /\ HealthOk(Boot) \/ HealthGiveUp(Boot)
  /\ watching' = TRUE
  /\ UNCHANGED <<dogVars, notices, phase, requests, wanted>>

-----------------------------------------------------------------------------
(* The control API.  People may press anything at any time once the server
   listens, until it is closing. *)

Request(h) ==
  /\ phase \in {"run", "stopping"}
  /\ child # "none"
  /\ pc[h] = "idle"
  /\ requests > 0
  /\ requests' = requests - 1

resetAfterManualStart ==
  /\ history' = IF halted THEN Recorded(history, Uncounted) ELSE history
  /\ halted' = FALSE
  /\ fails' = 0
  /\ UNCHANGED <<probe, dog, since, launched>>

(* POST /start: the watchdog is reset even when start() then refuses. *)
HumanStart(h) ==
  /\ Request(h)
  /\ resetAfterManualStart
  /\ \/ Start(h) /\ wanted' = "up"
     \/ Alive /\ UNCHANGED <<supVars, wanted>>
  /\ UNCHANGED <<watching, notices, phase>>

(* POST /stop; with no live child it is refused and changes nothing. *)
HumanStop(h) ==
  /\ Request(h)
  /\ Stop(h)
  /\ wanted' = "down"
  /\ UNCHANGED <<dogVars, watching, notices, phase>>

HumanRestart(h) ==
  /\ Request(h)
  /\ resetAfterManualStart
  /\ Restart(h)
  /\ wanted' = "up"
  /\ UNCHANGED <<watching, notices, phase>>

HumanCooldown(h) ==
  /\ phase # "exited"
  /\ \/ CooldownSpawn(h) /\ wanted' = "up"
     \/ CooldownRefused(h) /\ UNCHANGED wanted
  /\ UNCHANGED <<dogVars, watching, notices, phase, requests>>

HumanReturns(h) ==
  /\ phase # "exited"
  /\ HealthOk(h) \/ HealthGiveUp(h)
  /\ UNCHANGED <<dogVars, watching, notices, phase, requests, wanted>>

-----------------------------------------------------------------------------
(* The child process, and what the supervisor hears of it *)

StillWaiting(c) ==
  /\ phase # "exited"
  /\ HealthRetry(c)
  /\ UNCHANGED <<dogVars, watching, notices, phase, requests, wanted>>

ChildChanges ==
  /\ phase # "exited"
  /\ Respond \/ Hang
  /\ UNCHANGED <<dogVars, watching, notices, phase, requests, wanted>>

(* The 'exit' handler schedules onChildExit unless the exit was requested.
   Its test this.child === child always holds: a child is replaced only when
   it is dead.  shutdown() goes on when its stop() is over. *)
ChildExits(kind) ==
  /\ phase # "exited"
  /\ Exit(kind)
  /\ \/ (expectedExit \/ stopping) /\ UNCHANGED notices
     \/ /\ ~expectedExit /\ ~stopping
        /\ notices < MaxNotices
        /\ notices' = notices + 1
  /\ phase' = IF pc[Term] = "stop" THEN "closing" ELSE phase
  /\ UNCHANGED <<dogVars, watching, requests, wanted>>

StopTimeout_Faulty == stopping /\ child = "up" /\ ChildExits("code")   \* no SIGKILL

StopTimeout == stopping /\ ChildExits("signal")

-----------------------------------------------------------------------------
(* _restart() and _halt() *)

(* _restart() up to its first await: the dump of the stack if the server hangs
   (child.exitCode is still null), sup.restart() otherwise. *)
BeginRestart(reason) ==
  IF reason = "unresponsive" /\ LooksAlive
  THEN dog' = "dump" /\ UNCHANGED supVars
  ELSE dog' = "restart" /\ Restart(Dog)

(* What tick and onChildExit do with the answer of decide().  _restart()
   returns at once when another one is in progress. *)
Act(reason, decision) ==
  \/ /\ decision = "restart" /\ dog = "idle"
     /\ BeginRestart(reason)
     /\ UNCHANGED <<halted, history>>
  \/ /\ decision = "restart" /\ dog # "idle"
     /\ UNCHANGED <<supVars, dog, halted, history>>
  \/ /\ decision = "halt"
     /\ halted' = TRUE
     /\ history' = Recorded(history, Uncounted)
     /\ UNCHANGED <<supVars, dog>>

(* The dump ends, with or without a stack. *)
DumpDone ==
  /\ phase # "exited"
  /\ dog = "dump"
  /\ dog' = "restart"
  /\ Restart(Dog)
  /\ UNCHANGED <<probe, fails, halted, since, history, launched, watching, notices,
                 phase, requests, wanted>>

RestartRecorded ==
  /\ dog' = "idle"
  /\ since' = 0
  /\ history' = Recorded(history, 0)
  /\ UNCHANGED <<probe, halted, watching, notices, phase, requests, wanted>>

DogSpawns_Faulty ==   \* spawns without going through start()
  /\ phase # "exited"
  /\ pc[Dog] = "cooldown"
  /\ Spawn(Dog)
  /\ launched' = 0
  /\ UNCHANGED <<probe, dog, fails, halted, since, history, watching, notices, phase,
                 requests, wanted>>

DogSpawns ==
  /\ phase # "exited"
  /\ CooldownSpawn(Dog)
  /\ launched' = 0
  /\ UNCHANGED <<probe, dog, fails, halted, since, history, watching, notices, phase,
                 requests, wanted>>

DogReturns_Faulty ==   \* lastRestartAt is not set
  /\ phase # "exited"
  /\ HealthOk(Dog) \/ HealthGiveUp(Dog)
  /\ dog' = "idle"
  /\ fails' = 0
  /\ history' = Recorded(history, 0)
  /\ UNCHANGED <<probe, since, halted, launched, watching, notices, phase, requests,
                 wanted>>

(* sup.restart() returned. *)
DogReturns ==
  /\ phase # "exited"
  /\ HealthOk(Dog) \/ HealthGiveUp(Dog)
  /\ fails' = 0
  /\ RestartRecorded
  /\ UNCHANGED launched

DogRefused_Faulty ==   \* restarting is not cleared when restart() throws
  /\ phase # "exited"
  /\ CooldownRefused(Dog)
  /\ since' = 0
  /\ launched' = 0
  /\ history' = Recorded(history, 0)
  /\ UNCHANGED <<probe, dog, fails, halted, watching, notices, phase, requests, wanted>>

(* sup.restart() threw: somebody else had started the server. *)
DogRefused ==
  /\ phase # "exited"
  /\ CooldownRefused(Dog)
  /\ RestartRecorded
  /\ launched' = 0
  /\ UNCHANGED fails

-----------------------------------------------------------------------------
(* _tick() and onChildExit() *)

(* _tick() up to its probe. *)
Tick ==
  /\ phase # "exited"
  /\ watching
  /\ probe = "none" /\ dog = "idle" /\ ~halted
  /\ Alive /\ ~stopping
  /\ probe' = child
  /\ UNCHANGED <<supVars, dog, fails, halted, since, history, launched, watching,
                 notices, phase, requests, wanted>>

(* An answer can come from the server that was up when it was asked, or from
   the one that is up now. *)
ProbeOk ==
  /\ phase # "exited"
  /\ probe = "up" \/ (probe # "none" /\ child = "up")
  /\ probe' = "none"
  /\ history' = IF fails > 0 THEN Recorded(history, Uncounted) ELSE history
  /\ fails' = 0
  /\ UNCHANGED <<supVars, dog, halted, since, launched, watching, notices, phase,
                 requests, wanted>>

(* A probe can fail whatever the server is like: a busy one may need more
   than 3 s. *)
ProbeFailed ==
  /\ phase # "exited"
  /\ probe # "none"
  /\ probe' = "none"
  /\ fails' = Capped(fails)
  /\ LET decision == decide("check-failed", fails', halted, since, history)
     IN \/ Act("unresponsive", decision)
        \/ decision = "none" /\ UNCHANGED <<supVars, dog, halted, history>>
  /\ UNCHANGED <<since, launched, watching, notices, phase, requests, wanted>>

(* The 500 ms of an exit are over.  An exit that is left alone is
   written down. *)
onChildExit ==
  /\ phase # "exited"
  /\ notices > 0
  /\ notices' = notices - 1
  /\ LET decision == decide("exit", fails, halted, since, history)
     IN \/ Act("exit", decision)
        \/ /\ decision = "none"
           /\ history' = Recorded(history, Uncounted)
           /\ UNCHANGED <<supVars, dog, halted>>
  /\ UNCHANGED <<probe, fails, since, launched, watching, phase, requests, wanted>>

Older(t) == IF t < MinGap THEN t + 1 ELSE MinGap

(* A unit of time passes. *)
Elapse ==
  /\ phase # "exited"
  /\ since' = Older(since)
  /\ launched' = Older(launched)
  /\ history' = Aged(history)
  /\ UNCHANGED <<supVars, probe, dog, fails, halted, watching, notices, phase,
                 requests, wanted>>

-----------------------------------------------------------------------------
(* shutdown() *)

(* The signal handlers are installed when bootstrap() is through. *)
Shutdown ==
  /\ phase = "run"
  /\ watching
  /\ \/ Stop(Term) /\ phase' = "stopping"
     \/ ~Alive /\ phase' = "closing" /\ UNCHANGED supVars
  /\ UNCHANGED <<dogVars, watching, notices, requests, wanted>>

(* server.close() called back, or its 10 s are over. *)
ProcessExit ==
  /\ phase = "closing"
  /\ phase' = "exited"
  /\ UNCHANGED <<supVars, dogVars, watching, notices, requests, wanted>>

-----------------------------------------------------------------------------
Next ==
  \/ BootStart \/ BootReturns
  \/ \E h \in Human :
       \/ HumanStart(h) \/ HumanStop(h) \/ HumanRestart(h)
       \/ HumanCooldown(h) \/ HumanReturns(h)
  \/ \E c \in Caller : StillWaiting(c)
  \/ ChildChanges
  \/ \E kind \in ExitKind : ChildExits(kind)
  \/ DumpDone \/ DogSpawns \/ DogReturns \/ DogRefused
  \/ Tick \/ ProbeOk \/ ProbeFailed
  \/ onChildExit
  \/ Elapse
  \/ Shutdown \/ ProcessExit

Safety == Init /\ [][Next]_vars

(* The timers of the event loop fire, the requests it makes end, time passes,
   and SIGKILL cannot be ignored.  People owe nothing, nor does the child. *)
BootGoesOn == BootStart \/ StillWaiting(Boot) \/ BootReturns

HumanGoesOn(h) == HumanCooldown(h) \/ StillWaiting(h) \/ HumanReturns(h)

DogGoesOn ==
  \/ DumpDone
  \/ DogSpawns \/ DogRefused
  \/ StillWaiting(Dog) \/ DogReturns

Fairness ==
  /\ WF_vars(BootGoesOn)
  /\ \A h \in Human : WF_vars(HumanGoesOn(h))
  /\ WF_vars(DogGoesOn)
  /\ WF_vars(StopTimeout)
  /\ WF_vars(Tick)
  /\ WF_vars(ProbeOk \/ ProbeFailed)
  /\ WF_vars(onChildExit)
  /\ WF_vars(Elapse)
  /\ WF_vars(ProcessExit)

Spec == Safety /\ Fairness
=============================================================================
