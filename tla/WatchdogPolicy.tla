---------------------------- MODULE WatchdogPolicy ----------------------------
(***************************************************************************)
(* The pure part of src/watchdog.js: decide(), and the bounded history of  *)
(* events from which it counts the restarts of the last hour.              *)
(*                                                                         *)
(* Time is counted in ages that stop growing once nothing depends on them. *)
(* An event of the history is abstracted to an age: that of an automatic   *)
(* restart while it is younger than an hour, and Hour for everything that  *)
(* the count leaves out, older restarts and the events of another kind     *)
(* (recover, exit, halt, resume), which only take up room.                 *)
(*                                                                         *)
(* An operator named X_Faulty, here and in the other modules, is X with a  *)
(* plausible mistake.  Nothing uses it: it is put in the place of X to see *)
(* that a property notices.                                                *)
(***************************************************************************)
EXTENDS Naturals, Sequences, FiniteSets

CONSTANTS
  Failures,      \* cfg.failures: missed checks in a row before a restart
  MinGap,        \* cfg.minRestartIntervalMs, in units of time
  Hour,          \* one hour, in the same units
  MaxPerHour,    \* cfg.maxRestartsPerHour; 0 is no limit
  HistoryLimit,  \* cfg.historyLimit
  RestartOnExit  \* cfg.restartOnExit

ASSUME PolicyAssumption ==
  /\ Failures \in Nat \ {0}
  /\ MinGap \in Nat \ {0}
  /\ Hour \in Nat /\ MinGap <= Hour
  /\ MaxPerHour \in Nat
  /\ HistoryLimit \in Nat \ {0}
  /\ RestartOnExit \in BOOLEAN

Age == 0..Hour

Uncounted == Hour

(* Histories, the latest event first. *)
History == {h \in Seq(Age) : Len(h) <= HistoryLimit}

Counted(h) == {i \in DOMAIN h : h[i] < Hour}

(* _state().restartsLastHour *)
RestartsLastHour(h) == Cardinality(Counted(h))

WithinBudget(h) == MaxPerHour > 0 => RestartsLastHour(h) <= MaxPerHour

(* _record(): the event goes to the front and the oldest one falls off when
   the history is full. *)
Recorded(h, age) ==
  [i \in 1..(IF Len(h) < HistoryLimit THEN Len(h) + 1 ELSE HistoryLimit) |->
     IF i = 1 THEN age ELSE h[i - 1]]

(* The same history one unit of time later. *)
Aged(h) == [i \in DOMAIN h |-> IF h[i] < Hour THEN h[i] + 1 ELSE Hour]

(* Is t the time since lastRestartAt, as _loadHistory() finds that in h?
   MinGap stands for "never" and for every time from MinGap on. *)
SinceLastRestart(h, t) ==
  /\ \A i \in Counted(h) : t <= h[i]
  /\ t < MinGap => \E i \in Counted(h) : h[i] = t

-----------------------------------------------------------------------------
(* Is there a reason to restart?  The code of the exit is not looked at. *)
Warranted(event, fails) ==
  \/ event = "check-failed" /\ fails >= Failures
  \/ event = "exit" /\ RestartOnExit

OverBudget_Faulty(h) ==   \* off by one
  MaxPerHour > 0 /\ RestartsLastHour(h) > MaxPerHour

OverBudget(h) == MaxPerHour > 0 /\ RestartsLastHour(h) >= MaxPerHour

(* decide(): "none", "halt" or "restart".  The answer "too-soon" is "none"
   for every caller. *)
MayAct(event, fails, halted) == ~halted /\ Warranted(event, fails)

decide_Faulty(event, fails, halted, since, h) ==   \* s.halted not looked at
  CASE Warranted(event, fails) /\ OverBudget(h) -> "halt"
    [] Warranted(event, fails) /\ ~OverBudget(h) /\ since >= MinGap -> "restart"
    [] OTHER -> "none"

decide(event, fails, halted, since, h) ==
  CASE MayAct(event, fails, halted) /\ OverBudget(h) -> "halt"
    [] MayAct(event, fails, halted) /\ ~OverBudget(h) /\ since >= MinGap -> "restart"
    [] OTHER -> "none"
=============================================================================
