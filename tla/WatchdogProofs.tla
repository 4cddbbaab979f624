---------------------------- MODULE WatchdogProofs ----------------------------
(***************************************************************************)
(* For every set of callers and every choice of the limits and deadlines:  *)
(* the safety properties of SupervisorProps, that Supervisor implements    *)
(* SingleServer, that the whole process uses the child only as Supervisor  *)
(* allows, and the watchdog's own safety properties.                       *)
(*                                                                         *)
(* The four properties of Supervisor need each other.  A new child clears  *)
(* the flag while the promise stays as it is, so ExpectedIffStopping holds *)
(* after Spawn only because there is no promise without a live child       *)
(* (StopIsResolvable); and a caller may leave the stop it waits for behind *)
(* only by the exit that ends the stop (WaitersHaveAStop).                 *)
(***************************************************************************)
EXTENDS SupervisorProps, WatchdogProps, FiniteSetTheorems, FunctionTheorems,
        SequenceTheorems, TLAPS

-----------------------------------------------------------------------------
(* The supervisor by itself *)

SupInv ==
  /\ SupTypeOK
  /\ StopIsResolvable
  /\ ExpectedIffStopping
  /\ NeverTwoServers
  /\ WaitersHaveAStop

USE HealthTriesAssumption DEF HealthTriesAssumption

(* The invariant holds before the first call. *)
LEMMA SupInitInv == SupInit => SupInv
<1> SUFFICES ASSUME SupInit PROVE SupInv
  OBVIOUS
<1>1. SupTypeOK
  <2>1. pc \in [Caller -> Pc] /\ tries \in [Caller -> 0..HealthTries]
    BY DEF SupInit, Pc
  <2> QED BY <2>1 DEF SupInit, SupTypeOK
<1>2. StopIsResolvable /\ ExpectedIffStopping /\ NeverTwoServers
  BY DEF SupInit, StopIsResolvable, ExpectedIffStopping, NeverTwoServers
<1>3. WaitersHaveAStop
  BY DEF SupInit, WaitersHaveAStop
<1> QED
  BY <1>1, <1>2, <1>3 DEF SupInv

(* Launching a child with none alive keeps the invariant. *)
LEMMA SpawnInv ==
  ASSUME SupInv, NEW c \in Caller, ~Alive, Spawn(c)
  PROVE  SupInv'
<1>1. SupTypeOK'
  <2>1. pc' \in [Caller -> Pc] /\ tries' \in [Caller -> 0..HealthTries]
    BY DEF SupInv, SupTypeOK, Spawn, Pc
  <2> QED BY <2>1 DEF SupInv, SupTypeOK, Spawn
<1>2. ~stopping' /\ ~expectedExit' /\ ~orphaned'
  BY DEF SupInv, SupTypeOK, StopIsResolvable, NeverTwoServers, Spawn
<1>3. \A d \in Caller : pc'[d] \notin {"stop", "rstop"}
  BY DEF SupInv, SupTypeOK, StopIsResolvable, WaitersHaveAStop, Spawn
<1> QED
  BY <1>1, <1>2, <1>3 DEF SupInv, StopIsResolvable, ExpectedIffStopping,
     NeverTwoServers, WaitersHaveAStop

(* So does asking it to stop, or joining a stop in progress. *)
LEMMA BeginStopInv ==
  ASSUME SupInv, NEW c \in Caller, NEW await \in {"stop", "rstop"},
         BeginStop(c, await)
  PROVE  SupInv'
<1>1. SupTypeOK'
  BY DEF SupInv, SupTypeOK, BeginStop, Pc, ExitKind
<1>2. stopping' /\ expectedExit' /\ Alive' /\ ~orphaned'
  BY DEF SupInv, SupTypeOK, ExpectedIffStopping, NeverTwoServers, BeginStop, Alive
<1> QED
  BY <1>1, <1>2 DEF SupInv, StopIsResolvable, ExpectedIffStopping,
     NeverTwoServers, WaitersHaveAStop

(* So does an exit, whatever its cause: it ends the stop and lets go of all
   the callers that wait for it. *)
LEMMA ExitInv ==
  ASSUME SupInv, NEW kind \in ExitKind, Exit(kind)
  PROVE  SupInv'
<1>1. \A await \in Pc : AfterExit(await) \in Pc \ {"stop", "rstop"}
  BY DEF AfterExit, Pc
<1>2. SupTypeOK'
  BY <1>1 DEF SupInv, SupTypeOK, Exit
<1>3. ~stopping' /\ ~Alive' /\ ~orphaned'
  BY DEF SupInv, NeverTwoServers, Exit, Alive, ExitKind
<1>4. \A c \in Caller : pc'[c] \notin {"stop", "rstop"}
  BY <1>1 DEF SupInv, SupTypeOK, Exit
<1> QED
  BY <1>2, <1>3, <1>4 DEF SupInv, StopIsResolvable, ExpectedIffStopping,
     NeverTwoServers, WaitersHaveAStop

(* So does a caller that goes on by itself, without a spawn, to an await that
   is not the stop promise. *)
LEMMA CallerMovesInv ==
  ASSUME SupInv, NEW c \in Caller, NEW await \in {"idle", "cooldown", "health"},
         pc' = [pc EXCEPT ![c] = await],
         tries' \in [Caller -> 0..HealthTries],
         UNCHANGED <<child, expectedExit, stopping, orphaned>>
  PROVE  SupInv'
<1>1. SupTypeOK'
  BY DEF SupInv, SupTypeOK, Pc
<1>2. \A d \in Caller : pc'[d] \in {"stop", "rstop"} => pc[d] = pc'[d]
  BY DEF SupInv, SupTypeOK
<1> QED
  BY <1>1, <1>2 DEF SupInv, StopIsResolvable, ExpectedIffStopping,
     NeverTwoServers, WaitersHaveAStop, Alive

(* Hence every step keeps the invariant. *)
LEMMA SupStepInv == SupInv /\ [SupNext]_supVars => SupInv'
<1> SUFFICES ASSUME SupInv, [SupNext]_supVars PROVE SupInv'
  OBVIOUS
<1>1. ASSUME NEW c \in Caller, Start(c) PROVE SupInv'
  BY <1>1, SpawnInv DEF Start
<1>2. ASSUME NEW c \in Caller, Stop(c) PROVE SupInv'
  BY <1>2, BeginStopInv DEF Stop
<1>3. ASSUME NEW c \in Caller, Restart(c) PROVE SupInv'
  <2>1. CASE BeginStop(c, "rstop")
    BY <2>1, BeginStopInv
  <2>2. CASE /\ pc' = [pc EXCEPT ![c] = "cooldown"]
             /\ UNCHANGED <<child, expectedExit, stopping, tries, orphaned>>
    BY <2>2, CallerMovesInv DEF SupInv, SupTypeOK
  <2> QED BY <1>3, <2>1, <2>2 DEF Restart
<1>4. ASSUME NEW c \in Caller, Resume(c) PROVE SupInv'
  <2>1. CASE CooldownSpawn(c)
    BY <2>1, SpawnInv DEF CooldownSpawn
  <2>2. CASE CooldownRefused(c)
    BY <2>2, CallerMovesInv DEF CooldownRefused, SupInv, SupTypeOK
  <2>3. CASE HealthOk(c)
    <3>1. tries' \in [Caller -> 0..HealthTries]
      BY <2>3 DEF HealthOk, SupInv, SupTypeOK
    <3> QED BY <2>3, <3>1, CallerMovesInv DEF HealthOk
  <2>4. CASE HealthRetry(c)
    <3>1. tries' \in [Caller -> 0..HealthTries]
      BY <2>4 DEF HealthRetry, SupInv, SupTypeOK
    <3>2. pc' = [pc EXCEPT ![c] = "health"]
      BY <2>4 DEF HealthRetry, SupInv, SupTypeOK
    <3> QED BY <2>4, <3>1, <3>2, CallerMovesInv DEF HealthRetry
  <2>5. CASE HealthGiveUp(c)
    <3>1. tries' \in [Caller -> 0..HealthTries]
      BY <2>5 DEF HealthGiveUp, SupInv, SupTypeOK
    <3> QED BY <2>5, <3>1, CallerMovesInv DEF HealthGiveUp
  <2> QED BY <1>4, <2>1, <2>2, <2>3, <2>4, <2>5 DEF Resume
<1>5. CASE Respond
  BY <1>5 DEF Respond, SupInv, SupTypeOK, StopIsResolvable, ExpectedIffStopping,
     NeverTwoServers, WaitersHaveAStop, Alive
<1>6. CASE Hang
  BY <1>6 DEF Hang, SupInv, SupTypeOK, StopIsResolvable, ExpectedIffStopping,
     NeverTwoServers, WaitersHaveAStop, Alive
<1>7. ASSUME NEW kind \in ExitKind, Exit(kind) PROVE SupInv'
  BY <1>7, ExitInv
<1>8. CASE UNCHANGED supVars
  BY <1>8 DEF supVars, SupInv, SupTypeOK, StopIsResolvable, ExpectedIffStopping,
     NeverTwoServers, WaitersHaveAStop, Alive
<1> QED
  BY <1>1, <1>2, <1>3, <1>4, <1>5, <1>6, <1>7, <1>8 DEF SupNext

(* All four at once; what is read off it below is each of them by name. *)
THEOREM SupervisorSafe == SupSafety => []SupInv
  BY SupInitInv, SupStepInv, PTL DEF SupSafety

(* The variables of the supervisor always have their types. *)
THEOREM SupTypeCorrect == SupSafety => []SupTypeOK
<1>1. SupInv => SupTypeOK BY DEF SupInv
<1> QED BY <1>1, SupervisorSafe, PTL

(* The promise that callers wait for always has a live process behind it. *)
THEOREM StopAlwaysResolvable == SupSafety => []StopIsResolvable
<1>1. SupInv => StopIsResolvable BY DEF SupInv
<1> QED BY <1>1, SupervisorSafe, PTL

(* A crash is never taken for a requested stop, nor a stop for a crash. *)
THEOREM ExitsAreToldApart == SupSafety => []ExpectedIffStopping
<1>1. SupInv => ExpectedIffStopping BY DEF SupInv
<1> QED BY <1>1, SupervisorSafe, PTL

(* There are never two main servers. *)
THEOREM OneServerAtMost == SupSafety => []NeverTwoServers
<1>1. SupInv => NeverTwoServers BY DEF SupInv
<1> QED BY <1>1, SupervisorSafe, PTL

(* Nobody goes on waiting for a stop that is over. *)
THEOREM WaitersAreReleased == SupSafety => []WaitersHaveAStop
<1>1. SupInv => WaitersHaveAStop BY DEF SupInv
<1> QED BY <1>1, SupervisorSafe, PTL

-----------------------------------------------------------------------------
(* With the invariant, a step of Supervisor is a step of SingleServer or
   leaves its variables alone. *)
LEMMA SupStepRefines ==
  SupInv /\ SupInv' /\ [SupNext]_supVars => [Abstract!AbsNext]_(Abstract!absVars)
<1> SUFFICES ASSUME SupInv, SupInv', [SupNext]_supVars
             PROVE  [Abstract!AbsNext]_(Abstract!absVars)
  OBVIOUS
<1> DEFINE Live == (IF Alive THEN 1 ELSE 0) + (IF orphaned THEN 1 ELSE 0)
<1> USE DEF Abstract!AbsNext, Abstract!absVars, Abstract!Launch,
            Abstract!AskToStop, Abstract!Die
<1>0. ~orphaned /\ ~orphaned' /\ (stopping => Alive) /\ (stopping' => Alive')
      /\ stopping \in BOOLEAN
  BY DEF SupInv, NeverTwoServers, StopIsResolvable, SupTypeOK
<1>1. ASSUME NEW c \in Caller, ~Alive, Spawn(c) PROVE Abstract!Launch
  BY <1>0, <1>1 DEF Spawn, Alive
<1>2. ASSUME NEW c \in Caller, NEW await, BeginStop(c, await)
      PROVE  Abstract!AskToStop \/ UNCHANGED Abstract!absVars
  <2>1. Alive /\ stopping' = TRUE /\ Live = 1 /\ Live' = Live
    BY <1>0, <1>2 DEF BeginStop, Alive
  <2>2. CASE stopping
    BY <2>1, <2>2, <1>0
  <2>3. CASE ~stopping
    BY <2>1, <2>3
  <2> QED BY <2>2, <2>3
<1>3. ASSUME NEW kind \in ExitKind, Exit(kind) PROVE Abstract!Die
  BY <1>0, <1>3 DEF Exit, Alive, ExitKind
<1>4. ASSUME UNCHANGED <<child, stopping, orphaned>>
      PROVE  UNCHANGED Abstract!absVars
  BY <1>4 DEF Alive
<1>5. ASSUME Respond \/ Hang PROVE UNCHANGED Abstract!absVars
  BY <1>0, <1>5 DEF Respond, Hang, Alive
<1>6. ASSUME NEW c \in Caller, Start(c) \/ Stop(c) \/ Restart(c) \/ Resume(c)
      PROVE  [Abstract!AbsNext]_(Abstract!absVars)
  <2>1. CASE Start(c) BY <2>1, <1>1 DEF Start
  <2>2. CASE Stop(c) BY <2>2, <1>2 DEF Stop
  <2>3. CASE Restart(c) BY <2>3, <1>2, <1>4 DEF Restart
  <2>4. CASE CooldownSpawn(c) BY <2>4, <1>1 DEF CooldownSpawn
  <2>5. CASE CooldownRefused(c) \/ HealthOk(c) \/ HealthRetry(c) \/ HealthGiveUp(c)
    BY <2>5, <1>4 DEF CooldownRefused, HealthOk, HealthRetry, HealthGiveUp
  <2> QED BY <1>6, <2>1, <2>2, <2>3, <2>4, <2>5 DEF Resume
<1> QED
  BY <1>3, <1>4, <1>5, <1>6 DEF SupNext, supVars

(* Supervisor implements the safety half of SingleServer. *)
THEOREM SupervisorImplements == SupSafety => Abstract!AbsSafety
<1>1. SupInit => Abstract!AbsInit
  BY DEF SupInit, Abstract!AbsInit, Alive
<1> QED
  BY <1>1, SupStepRefines, SupervisorSafe, PTL DEF SupSafety, Abstract!AbsSafety

-----------------------------------------------------------------------------
(* The history *)

(* Counting the restarts of the last hour makes sense: they are finitely
   many. *)
LEMMA CountedFinite ==
  ASSUME NEW h \in History
  PROVE  /\ Counted(h) \subseteq 1..Len(h)
         /\ IsFiniteSet(Counted(h))
         /\ RestartsLastHour(h) \in Nat
<1>1. Len(h) \in Nat /\ DOMAIN h = 1..Len(h)
  BY DEF History
<1>2. Counted(h) \subseteq 1..Len(h)
  BY <1>1 DEF Counted
<1>3. IsFiniteSet(1..Len(h))
  BY <1>1, FS_Interval
<1>4. IsFiniteSet(Counted(h))
  BY <1>2, <1>3, FS_Subset
<1> QED
  BY <1>2, <1>4, FS_CardinalityType DEF RestartsLastHour

(* _record() keeps the history within its limit. *)
LEMMA RecordedIsHistory ==
  ASSUME NEW h \in History, NEW age \in Age
  PROVE  /\ Recorded(h, age) \in History
         /\ DOMAIN Recorded(h, age) \subseteq 1..(Len(h) + 1)
<1> USE PolicyAssumption DEF PolicyAssumption
<1> DEFINE n == IF Len(h) < HistoryLimit THEN Len(h) + 1 ELSE HistoryLimit
<1>1. Len(h) \in Nat /\ DOMAIN h = 1..Len(h) /\ Len(h) <= HistoryLimit
  BY DEF History
<1>2. n \in Nat /\ n <= HistoryLimit /\ n <= Len(h) + 1
  BY <1>1
<1>3. \A i \in 1..n : (IF i = 1 THEN age ELSE h[i - 1]) \in Age
  <2> TAKE i \in 1..n
  <2>1. CASE i = 1 BY <2>1
  <2>2. CASE i # 1
    <3>1. i - 1 \in 1..Len(h) BY <2>2, <1>1, <1>2
    <3>2. h \in Seq(Age) BY DEF History
    <3> QED BY <3>1, <3>2, <2>2, ElementOfSeq
  <2> QED BY <2>1, <2>2
<1>4. Recorded(h, age) \in [1..n -> Age]
  BY <1>3 DEF Recorded
<1>5. Recorded(h, age) \in Seq(Age)
  BY <1>2, <1>4, SeqDef
<1>6. Len(Recorded(h, age)) = n
  BY <1>2, <1>4
<1> QED
  BY <1>2, <1>4, <1>5, <1>6 DEF History

(* The restarts that were counted before and still are have moved back by
   one place. *)
LEMMA RecordedShifts ==
  ASSUME NEW h \in History, NEW age \in Age,
         NEW i \in Counted(Recorded(h, age)), i # 1
  PROVE  i - 1 \in Counted(h) /\ Recorded(h, age)[i] = h[i - 1]
<1> USE PolicyAssumption DEF PolicyAssumption
<1>1. Len(h) \in Nat /\ DOMAIN h = 1..Len(h)
  BY DEF History
<1>2. i \in DOMAIN Recorded(h, age) /\ i \in 1..(Len(h) + 1)
  BY RecordedIsHistory DEF Counted
<1>3. Recorded(h, age)[i] = h[i - 1]
  BY <1>2 DEF Recorded
<1> QED
  BY <1>1, <1>2, <1>3 DEF Counted

(* An event that is not a restart never raises the count; a restart raises it
   by one at most. *)
LEMMA RecordedCount ==
  ASSUME NEW h \in History, NEW age \in Age
  PROVE  RestartsLastHour(Recorded(h, age))
           <= RestartsLastHour(h) + (IF age < Hour THEN 1 ELSE 0)
<1> USE PolicyAssumption DEF PolicyAssumption
<1> DEFINE r     == Recorded(h, age)
           Later == Counted(r) \ {1}
           back  == [i \in Later |-> i - 1]
<1>1. r \in History
  BY RecordedIsHistory
<1>2. IsFiniteSet(Counted(h)) /\ IsFiniteSet(Counted(r)) /\ RestartsLastHour(h) \in Nat
  BY <1>1, CountedFinite
<1>3. IsFiniteSet(Later)
  BY <1>2, FS_Subset
<1>4. Later \subseteq Nat
  BY <1>1, CountedFinite
<1>5. back \in Injection(Later, Counted(h))
  <2>1. back \in [Later -> Counted(h)]
    BY RecordedShifts
  <2>2. \A i, j \in Later : back[i] = back[j] => i = j
    BY <1>4
  <2> QED BY <2>1, <2>2, Fun_IsInj
<1>6. Cardinality(Later) <= Cardinality(Counted(h)) /\ Cardinality(Later) \in Nat
  BY <1>2, <1>3, <1>5, FS_Injection, FS_CardinalityType
<1>7. CASE 1 \in Counted(r)
  <2>1. Counted(r) = Later \cup {1}
    BY <1>7
  <2>2. Cardinality(Counted(r)) = Cardinality(Later) + 1
    BY <2>1, <1>3, FS_AddElement
  <2>3. r[1] = age /\ r[1] < Hour
    BY <1>7 DEF Recorded, Counted
  <2> QED BY <2>2, <2>3, <1>2, <1>6 DEF RestartsLastHour
<1>8. CASE 1 \notin Counted(r)
  <2>1. Counted(r) = Later
    BY <1>8
  <2> QED BY <2>1, <1>2, <1>6 DEF RestartsLastHour
<1> QED
  BY <1>7, <1>8

(* As time passes restarts only drop out of the count. *)
LEMMA AgedCount ==
  ASSUME NEW h \in History
  PROVE  /\ Aged(h) \in History
         /\ \A i \in Counted(Aged(h)) : i \in Counted(h) /\ Aged(h)[i] = h[i] + 1
         /\ RestartsLastHour(Aged(h)) <= RestartsLastHour(h)
<1> USE PolicyAssumption DEF PolicyAssumption
<1>1. Len(h) \in Nat /\ DOMAIN h = 1..Len(h) /\ h \in [1..Len(h) -> Age]
      /\ Len(h) <= HistoryLimit
  BY DEF History
<1>2. Aged(h) \in [1..Len(h) -> Age]
  BY <1>1 DEF Aged, Age
<1>3. Aged(h) \in History
  BY <1>1, <1>2, SeqDef DEF History
<1>4. \A i \in Counted(Aged(h)) : i \in Counted(h) /\ Aged(h)[i] = h[i] + 1
  BY <1>1 DEF Counted, Aged, Age
<1>5. RestartsLastHour(Aged(h)) <= RestartsLastHour(h)
  BY <1>4, CountedFinite, FS_Subset DEF RestartsLastHour
<1> QED
  BY <1>3, <1>4, <1>5

-----------------------------------------------------------------------------
(* The whole process implements Supervisor *)

(* Whatever a step does to the child, start(), stop() or restart() could have
   done for the same caller, or the child for itself. *)
LEMMA NextIsSupStep == [Next]_vars => [SupNext]_supVars
<1> SUFFICES ASSUME [Next]_vars PROVE [SupNext]_supVars
  OBVIOUS
<1> USE DEF SupNext, Resume
<1>0. {Boot, Dog, Term} \subseteq Caller /\ Human \subseteq Caller
  BY CallerAssumption
<1>1. CASE BootStart \/ BootReturns
  BY <1>0, <1>1 DEF BootStart, BootReturns
<1>2. ASSUME NEW h \in Human,
             HumanStart(h) \/ HumanStop(h) \/ HumanRestart(h)
      PROVE  [SupNext]_supVars
  BY <1>0, <1>2 DEF HumanStart, HumanStop, HumanRestart
<1>3. ASSUME NEW h \in Human, HumanCooldown(h) \/ HumanReturns(h)
      PROVE  [SupNext]_supVars
  BY <1>0, <1>3 DEF HumanCooldown, HumanReturns
<1>4. ASSUME NEW c \in Caller, StillWaiting(c) PROVE [SupNext]_supVars
  BY <1>4 DEF StillWaiting
<1>5. CASE ChildChanges
  BY <1>5 DEF ChildChanges
<1>6. ASSUME NEW kind \in ExitKind, ChildExits(kind) PROVE [SupNext]_supVars
  BY <1>6 DEF ChildExits
<1>7. CASE DumpDone \/ DogSpawns \/ DogReturns \/ DogRefused
  BY <1>0, <1>7 DEF DumpDone, DogSpawns, DogReturns, DogRefused
<1>8. CASE Tick \/ ProbeOk \/ Elapse
  BY <1>8 DEF Tick, ProbeOk, Elapse
<1>9. ASSUME NEW reason, NEW decision, Act(reason, decision)
      PROVE  [SupNext]_supVars
  BY <1>0, <1>9 DEF Act, BeginRestart
<1>10. CASE ProbeFailed
  BY <1>9, <1>10 DEF ProbeFailed
<1>11. CASE onChildExit
  BY <1>9, <1>11 DEF onChildExit
<1>12. CASE Shutdown
  BY <1>0, <1>12 DEF Shutdown
<1>13. CASE ProcessExit \/ UNCHANGED vars
  BY <1>13 DEF ProcessExit, vars
<1> QED
  BY <1>1, <1>2, <1>3, <1>4, <1>5, <1>6, <1>7, <1>8, <1>10, <1>11, <1>12, <1>13
     DEF Next

(* All that bootstrap, the control API, the watchdog and shutdown do to the
   child is a behaviour of Supervisor. *)
THEOREM ProcessImplementsSupervisor == Safety => ImplementsSupervisor
<1>1. Init => SupInit
  BY DEF Init
<1> QED
  BY <1>1, NextIsSupStep, PTL DEF Safety, ImplementsSupervisor, SupSafety

(* Hence what is proved of Supervisor for callers that do as they please holds
   with the real ones: there are never two main servers. *)
THEOREM OneServerInProcess == Safety => []NeverTwoServers
  BY ProcessImplementsSupervisor, OneServerAtMost, PTL DEF ImplementsSupervisor

(* And a crash is always told apart from a requested stop. *)
THEOREM ExitsToldApartInProcess == Safety => []ExpectedIffStopping
  BY ProcessImplementsSupervisor, ExitsAreToldApart, PTL DEF ImplementsSupervisor

(* Both refinements together: to whoever uses the machine the whole process is a
   SingleServer, whatever people, the watchdog, bootstrap and shutdown do at once. *)
THEOREM ProcessIsSingleServer == Safety => Abstract!AbsSafety
  BY ProcessImplementsSupervisor, SupervisorImplements, PTL DEF ImplementsSupervisor

-----------------------------------------------------------------------------
(* The watchdog's own state.  BudgetKept needs that a restart is begun only
   with room for it in the budget, and that no other restart gets in before it
   is recorded: Room says that the room is still there, and CallerIsRestart
   that restart() is called by nothing but _restart().  GapKept needs that
   lastRestartAt is never older than the launch it is about (Rested). *)

DogTypeOK ==
  /\ fails \in 0..Failures
  /\ halted \in BOOLEAN
  /\ since \in 0..MinGap
  /\ history \in History
  /\ launched \in 0..MinGap

RestTypeOK ==
  /\ watching \in BOOLEAN
  /\ notices \in 0..MaxNotices
  /\ probe \in {"none", "silent", "up"}
  /\ dog \in {"idle", "dump", "restart"}
  /\ phase \in {"run", "stopping", "closing", "exited"}
  /\ requests \in 0..MaxRequests
  /\ wanted \in {"up", "down"}

Room == Restarting => ~OverBudget(history)

CallerIsRestart == pc[Dog] # "idle" => dog = "restart"

(* With no restart under way lastRestartAt is not older than the latest launch. *)
Rested == ~Restarting => since <= launched

DogInv ==
  /\ DogTypeOK
  /\ HaltIsQuiet
  /\ BudgetKept
  /\ Room
  /\ CallerIsRestart
  /\ Rested

(* What a step may do to the state DogInv is about. *)

(* Nothing, or a restart gets nearer to its end, or an event is written down
   that is not a restart; the watchdog may be switched on again. *)
Quiet ==
  /\ dog' = dog \/ (dog = "dump" /\ dog' = "restart")
  /\ launched' = launched \/ Restarting
  /\ halted' => halted
  /\ since' = since
  /\ history' \in {history, Recorded(history, Uncounted)}
  /\ pc'[Dog] # "idle" => pc[Dog] # "idle" \/ dog' = "restart"

Begin ==
  /\ ~halted /\ ~OverBudget(history) /\ since >= MinGap
  /\ pc'[Dog] # "idle" => pc[Dog] # "idle" \/ dog' = "restart"
  /\ dog = "idle"
  /\ UNCHANGED <<halted, since, history, launched>>

GiveUp ==
  /\ OverBudget(history)
  /\ history' = Recorded(history, Uncounted)
  /\ UNCHANGED <<dog, since, launched, pc>>

Finish ==
  /\ dog = "restart" /\ dog' = "idle"
  /\ pc'[Dog] = "idle"
  /\ since' = 0
  /\ history' = Recorded(history, 0)
  /\ halted' = halted

Wait ==
  /\ UNCHANGED <<dog, halted, pc>>
  /\ since' = Older(since)
  /\ launched' = Older(launched)
  /\ history' = Aged(history)

(* An event that is not a restart does not raise the count. *)
LEMMA UncountedRecord ==
  ASSUME DogTypeOK, history' \in {history, Recorded(history, Uncounted)}
  PROVE  RestartsLastHour(history') <= RestartsLastHour(history)
<1> USE PolicyAssumption DEF PolicyAssumption
<1>0. history \in History /\ Uncounted \in Age /\ ~(Uncounted < Hour)
  BY DEF DogTypeOK, Age, Uncounted
<1>1. RestartsLastHour(history) \in Nat
  BY <1>0, CountedFinite
<1>2. RestartsLastHour(Recorded(history, Uncounted)) <= RestartsLastHour(history) + 0
  BY <1>0, RecordedCount
<1> QED
  BY <1>1, <1>2

(* Each of the five keeps DogInv. *)
LEMMA DogStepInv ==
  ASSUME DogInv, DogTypeOK', Quiet \/ Begin \/ GiveUp \/ Finish \/ Wait
  PROVE  DogInv'
<1> USE PolicyAssumption DEF PolicyAssumption
<1>0. history \in History /\ history' \in History /\ since \in 0..MinGap
      /\ launched \in 0..MinGap /\ launched' \in 0..MinGap
      /\ RestartsLastHour(history) \in Nat /\ RestartsLastHour(history') \in Nat
  BY CountedFinite DEF DogInv, DogTypeOK
<1>1. CASE Quiet
  <2>1. RestartsLastHour(history') <= RestartsLastHour(history)
    BY <1>1, UncountedRecord DEF DogInv, Quiet
  <2>2. BudgetKept' /\ Room'
    BY <1>0, <1>1, <2>1 DEF DogInv, Quiet, BudgetKept, WithinBudget, Room,
       OverBudget, Restarting
  <2>3. HaltIsQuiet' /\ CallerIsRestart' /\ Rested'
    BY <1>1 DEF DogInv, Quiet, HaltIsQuiet, CallerIsRestart, Rested, Restarting
  <2> QED BY <2>2, <2>3 DEF DogInv
<1>2. CASE Begin
  BY <1>0, <1>2 DEF DogInv, Begin, BudgetKept, WithinBudget, Room, OverBudget,
     Rested, HaltIsQuiet, CallerIsRestart, Restarting
<1>3. CASE GiveUp
  <2>1. RestartsLastHour(history') <= RestartsLastHour(history)
    BY <1>3, UncountedRecord DEF DogInv, GiveUp
  <2>2. ~Restarting'
    BY <1>3 DEF DogInv, GiveUp, Room, Restarting
  <2>3. BudgetKept'
    BY <1>0, <2>1 DEF DogInv, BudgetKept, WithinBudget
  <2>4. CallerIsRestart' /\ Rested'
    BY <1>3 DEF DogInv, GiveUp, CallerIsRestart, Rested, Restarting
  <2> QED BY <2>2, <2>3, <2>4 DEF DogInv, HaltIsQuiet, Room
<1>4. CASE Finish
  <2>1. ~Restarting' /\ CallerIsRestart'
    BY <1>4 DEF Finish, Restarting, CallerIsRestart
  <2>2. RestartsLastHour(history') <= RestartsLastHour(history) + 1
    <3>1. 0 \in Age BY DEF Age
    <3> QED BY <1>0, <1>4, <3>1, RecordedCount DEF Finish
  <2>3. ~OverBudget(history)
    BY <1>4 DEF DogInv, Room, Restarting, Finish
  <2>4. BudgetKept'
    BY <1>0, <2>2, <2>3 DEF BudgetKept, WithinBudget, OverBudget
  <2>5. Rested'
    BY <1>0, <1>4 DEF Finish, Rested
  <2> QED BY <2>1, <2>4, <2>5 DEF DogInv, HaltIsQuiet, Room
<1>5. CASE Wait
  <2>1. RestartsLastHour(history') <= RestartsLastHour(history)
    BY <1>0, <1>5, AgedCount DEF Wait
  <2>2. BudgetKept' /\ Room'
    BY <1>0, <1>5, <2>1 DEF DogInv, Wait, BudgetKept, WithinBudget, Room,
       OverBudget, Restarting
  <2>3. Rested'
    BY <1>0, <1>5 DEF DogInv, Wait, Rested, Restarting, Older
  <2>4. HaltIsQuiet' /\ CallerIsRestart'
    BY <1>5 DEF DogInv, Wait, HaltIsQuiet, CallerIsRestart, Restarting
  <2> QED BY <2>2, <2>3, <2>4 DEF DogInv
<1> QED
  BY <1>1, <1>2, <1>3, <1>4, <1>5

(* The answers of decide(): a restart is allowed only while the watchdog is on,
   has room for it and has waited, and it gives up only without room. *)
LEMMA DecideAnswers ==
  ASSUME NEW event, NEW n, NEW t, NEW d, d = decide(event, n, halted, t, history)
  PROVE  /\ d = "restart" => ~halted /\ ~OverBudget(history) /\ t >= MinGap
         /\ d = "halt" => OverBudget(history)
         /\ d \in {"none", "halt", "restart"}
  BY DEF decide, MayAct

(* A call of somebody else leaves the watchdog's own call where it is. *)
LEMMA OthersLeaveDogAlone ==
  ASSUME SupTypeOK, NEW c \in Caller, c # Dog,
         \/ Start(c) \/ Stop(c) \/ Restart(c)
         \/ CooldownSpawn(c) \/ CooldownRefused(c) \/ HealthOk(c) \/ HealthGiveUp(c)
  PROVE  pc'[Dog] = pc[Dog]
  BY CallerAssumption DEF SupTypeOK, Start, Stop, Restart, BeginStop, Spawn,
     CooldownSpawn, CooldownRefused, HealthOk, HealthGiveUp

(* Act() on an answer of decide() is a restart begun, one refused because
   another is under way, or a halt. *)
LEMMA ActKinds ==
  ASSUME SupTypeOK, DogInv, NEW event, NEW n, NEW reason,
         Act(reason, decide(event, n, halted, since, history)),
         UNCHANGED <<since, launched>>
  PROVE  /\ Quiet \/ Begin \/ GiveUp
         /\ halted' \in BOOLEAN
         /\ history' \in {history, Recorded(history, Uncounted)}
<1> DEFINE d == decide(event, n, halted, since, history)
<1>0. halted \in BOOLEAN /\ Dog \in Caller /\ Act(reason, d)
      /\ (d = "restart" => ~halted /\ ~OverBudget(history) /\ since >= MinGap)
      /\ (d = "halt" => OverBudget(history))
  BY CallerAssumption, DecideAnswers DEF DogInv, DogTypeOK
<1> HIDE DEF d
<1>1. CASE d = "restart" /\ dog = "idle" /\ BeginRestart(reason)
           /\ UNCHANGED <<halted, history>>
  <2>1. pc'[Dog] # "idle" => pc[Dog] # "idle" \/ dog' = "restart"
    BY <1>1 DEF BeginRestart, supVars
  <2> QED BY <1>0, <1>1, <2>1 DEF Begin
<1>2. CASE d = "restart" /\ dog # "idle" /\ UNCHANGED <<supVars, dog, halted, history>>
  BY <1>0, <1>2 DEF Quiet, supVars
<1>3. CASE /\ d = "halt" /\ halted' = TRUE
           /\ history' = Recorded(history, Uncounted)
           /\ UNCHANGED <<supVars, dog>>
  BY <1>0, <1>3 DEF GiveUp, supVars
<1> QED
  BY <1>0, <1>1, <1>2, <1>3 DEF Act

(* Every step is of one of the five kinds, or leaves the state of DogInv
   alone, which Quiet covers. *)
LEMMA StepKinds ==
  ASSUME SupTypeOK, DogInv, [Next]_vars
  PROVE  DogTypeOK' /\ (Quiet \/ Begin \/ GiveUp \/ Finish \/ Wait)
<1> USE PolicyAssumption DEF PolicyAssumption
<1>0. /\ fails \in 0..Failures /\ halted \in BOOLEAN
      /\ since \in 0..MinGap /\ history \in History /\ launched \in 0..MinGap
      /\ Recorded(history, Uncounted) \in History
      /\ Recorded(history, 0) \in History
      /\ Aged(history) \in History
  BY RecordedIsHistory, AgedCount DEF DogInv, DogTypeOK, Uncounted, Age
<1>a. {Boot, Term} \subseteq Caller \ {Dog} /\ Human \subseteq Caller \ {Dog}
      /\ Dog \in Caller
  BY CallerAssumption
<1>1. CASE BootStart \/ BootReturns
  <2>1. pc'[Dog] = pc[Dog]
    BY <1>1, <1>a, OthersLeaveDogAlone DEF BootStart, BootReturns
  <2> QED BY <2>1, <1>0, <1>1 DEF BootStart, BootReturns, dogVars, Quiet, DogTypeOK
<1>2. ASSUME NEW h \in Human, HumanStart(h) \/ HumanRestart(h)
      PROVE  DogTypeOK' /\ Quiet
  <2>1. pc'[Dog] = pc[Dog]
    BY <1>2, <1>a, OthersLeaveDogAlone DEF HumanStart, HumanRestart, supVars
  <2>2. /\ halted' = FALSE /\ fails' = 0 /\ dog' = dog /\ since' = since
        /\ launched' = launched
        /\ history' \in {history, Recorded(history, Uncounted)}
    BY <1>2 DEF HumanStart, HumanRestart, resetAfterManualStart
  <2>3. Quiet
    BY <2>1, <2>2 DEF Quiet
  <2>4. history' \in History
    BY <2>2, <1>0
  <2>5. 0 \in 0..Failures /\ since' \in 0..MinGap /\ launched' \in 0..MinGap
    BY <2>2, <1>0
  <2>6. DogTypeOK'
    BY <2>2, <2>4, <2>5, Zenon DEF DogTypeOK
  <2> QED BY <2>3, <2>6
<1>3. ASSUME NEW h \in Human, HumanStop(h) \/ HumanCooldown(h) \/ HumanReturns(h)
      PROVE  DogTypeOK' /\ Quiet
  <2>1. pc'[Dog] = pc[Dog]
    BY <1>3, <1>a, OthersLeaveDogAlone DEF HumanStop, HumanCooldown, HumanReturns
  <2> QED
    BY <2>1, <1>0, <1>3 DEF HumanStop, HumanCooldown, HumanReturns, dogVars,
       Quiet, DogTypeOK
<1>4. ASSUME NEW c \in Caller, StillWaiting(c) PROVE DogTypeOK' /\ Quiet
  BY <1>0, <1>4 DEF StillWaiting, HealthRetry, dogVars, Quiet, DogTypeOK
<1>5. CASE ChildChanges
  BY <1>0, <1>5 DEF ChildChanges, Respond, Hang, dogVars, Quiet, DogTypeOK
<1>6. ASSUME NEW kind \in ExitKind, ChildExits(kind) PROVE DogTypeOK' /\ Quiet
  <2>1. pc'[Dog] = AfterExit(pc[Dog])
    BY <1>a, <1>6 DEF ChildExits, Exit
  <2>2. pc'[Dog] # "idle" => pc[Dog] # "idle"
    BY <2>1 DEF AfterExit
  <2> QED BY <2>2, <1>0, <1>6 DEF ChildExits, dogVars, Quiet, DogTypeOK
<1>7. CASE DumpDone
  BY <1>0, <1>7 DEF DumpDone, Quiet, DogTypeOK
<1>8. CASE DogSpawns
  <2>1. Restarting
    BY <1>8 DEF DogSpawns, CooldownSpawn, DogInv, CallerIsRestart, Restarting
  <2> QED BY <2>1, <1>0, <1>8 DEF DogSpawns, CooldownSpawn, Quiet, DogTypeOK
<1>9. CASE DogReturns \/ DogRefused
  <2>1. pc[Dog] # "idle" /\ pc'[Dog] = "idle"
    BY <1>9, <1>a DEF DogReturns, DogRefused, HealthOk, HealthGiveUp,
       CooldownRefused, SupTypeOK
  <2>2. dog = "restart"
    BY <2>1 DEF DogInv, CallerIsRestart
  <2> QED
    BY <2>1, <2>2, <1>0, <1>9 DEF DogReturns, DogRefused, RestartRecorded,
       Finish, DogTypeOK
<1>10. CASE Tick
  BY <1>0, <1>10 DEF Tick, supVars, Quiet, DogTypeOK
<1>11. CASE ProbeOk
  BY <1>0, <1>11 DEF ProbeOk, supVars, Quiet, DogTypeOK
<1>12. CASE ProbeFailed
  <2> DEFINE d == decide("check-failed", fails', halted, since, history)
  <2>1. fails' \in 0..Failures
    BY <1>0, <1>12 DEF ProbeFailed, Capped
  <2>2. UNCHANGED <<since, launched>> /\ (Act("unresponsive", d) \/ UNCHANGED <<supVars, dog, halted, history>>)
    BY <1>12 DEF ProbeFailed
  <2>3. CASE Act("unresponsive", d)
    BY <2>1, <2>2, <2>3, <1>0, ActKinds DEF DogTypeOK
  <2>4. CASE UNCHANGED <<supVars, dog, halted, history>>
    BY <2>1, <2>2, <2>4, <1>0 DEF Quiet, supVars, DogTypeOK
  <2> QED BY <2>2, <2>3, <2>4
<1>13. CASE onChildExit
  <2> DEFINE d == decide("exit", fails, halted, since, history)
  <2>1. UNCHANGED <<since, launched, fails>>
        /\ \/ Act("exit", d)
           \/ history' = Recorded(history, Uncounted)
              /\ UNCHANGED <<supVars, dog, halted>>
    BY <1>13 DEF onChildExit
  <2>2. CASE Act("exit", d)
    BY <2>1, <2>2, <1>0, ActKinds DEF DogTypeOK
  <2>3. CASE history' = Recorded(history, Uncounted)
             /\ UNCHANGED <<supVars, dog, halted>>
    BY <2>1, <2>3, <1>0 DEF Quiet, supVars, DogTypeOK
  <2> QED BY <2>1, <2>2, <2>3
<1>14. CASE Elapse
  BY <1>0, <1>14 DEF Elapse, Older, supVars, Wait, DogTypeOK
<1>15. CASE Shutdown
  <2>1. pc'[Dog] = pc[Dog]
    BY <1>15, <1>a, OthersLeaveDogAlone DEF Shutdown, supVars
  <2> QED BY <2>1, <1>0, <1>15 DEF Shutdown, dogVars, Quiet, DogTypeOK
<1>16. CASE ProcessExit \/ UNCHANGED vars
  BY <1>0, <1>16 DEF ProcessExit, vars, supVars, dogVars, Quiet, DogTypeOK
<1> QED
  BY <1>1, <1>2, <1>3, <1>4, <1>5, <1>6, <1>7, <1>8, <1>9, <1>10, <1>11,
     <1>12, <1>13, <1>14, <1>15, <1>16 DEF Next

(* The variables DogInv says nothing about keep their types. *)
LEMMA RestTypeStep ==
  ASSUME TypeOK, [Next]_vars
  PROVE  RestTypeOK'
<1> USE BoundAssumption DEF TypeOK, RestTypeOK
<1>0. \A h : Request(h) => requests' \in 0..MaxRequests
  BY DEF Request
<1>1. CASE BootStart \/ BootReturns
  BY <1>1 DEF BootStart, BootReturns, dogVars
<1>2. ASSUME NEW h \in Human,
             HumanStart(h) \/ HumanStop(h) \/ HumanRestart(h)
      PROVE  RestTypeOK'
  <2>1. requests' \in 0..MaxRequests
    BY <1>0, <1>2 DEF HumanStart, HumanStop, HumanRestart
  <2> QED
    BY <2>1, <1>2 DEF HumanStart, HumanStop, HumanRestart,
       resetAfterManualStart, dogVars
<1>3. ASSUME NEW h \in Human, HumanCooldown(h) \/ HumanReturns(h)
      PROVE  RestTypeOK'
  BY <1>3 DEF HumanCooldown, HumanReturns, dogVars
<1>4. ASSUME NEW c \in Caller, StillWaiting(c) PROVE RestTypeOK'
  BY <1>4 DEF StillWaiting, dogVars
<1>5. CASE ChildChanges
  BY <1>5 DEF ChildChanges, dogVars
<1>6. ASSUME NEW kind \in ExitKind, ChildExits(kind) PROVE RestTypeOK'
  <2>1. notices' \in 0..MaxNotices
    BY <1>6, BoundAssumption DEF ChildExits
  <2> QED BY <2>1, <1>6 DEF ChildExits, dogVars
<1>7. CASE DumpDone \/ DogSpawns \/ DogReturns \/ DogRefused
  BY <1>7 DEF DumpDone, DogSpawns, DogReturns, DogRefused, RestartRecorded, dogVars
<1>8. CASE Tick
  BY <1>8 DEF Tick, Alive
<1>9. CASE ProbeOk \/ Elapse
  BY <1>9 DEF ProbeOk, Elapse
<1>10. ASSUME NEW reason, NEW decision, Act(reason, decision)
       PROVE  dog' \in {"idle", "dump", "restart"}
  BY <1>10 DEF Act, BeginRestart
<1>11. CASE ProbeFailed
  <2>1. dog' \in {"idle", "dump", "restart"}
    BY <1>10, <1>11 DEF ProbeFailed
  <2> QED BY <2>1, <1>11 DEF ProbeFailed
<1>12. CASE onChildExit
  <2>1. dog' \in {"idle", "dump", "restart"}
    BY <1>10, <1>12 DEF onChildExit
  <2>2. notices' \in 0..MaxNotices
    BY <1>12, BoundAssumption DEF onChildExit
  <2> QED BY <2>1, <2>2, <1>12 DEF onChildExit
<1>13. CASE Shutdown \/ ProcessExit
  BY <1>13 DEF Shutdown, ProcessExit, dogVars
<1>14. CASE UNCHANGED vars
  BY <1>14 DEF vars, dogVars
<1> QED
  BY <1>1, <1>2, <1>3, <1>4, <1>5, <1>6, <1>7, <1>8, <1>9, <1>11, <1>12,
     <1>13, <1>14 DEF Next

Inv == TypeOK /\ DogInv

(* It holds of every history an earlier supervisor can have left behind. *)
LEMMA InitInv == Init => Inv
<1> SUFFICES ASSUME Init PROVE Inv
  OBVIOUS
<1> USE PolicyAssumption DEF PolicyAssumption
<1>1. history \in History
  <2>1. PICK n \in 0..HistoryLimit : history \in [1..n -> Age]
    BY DEF Init
  <2>2. history \in Seq(Age)
    BY <2>1, SeqDef
  <2> QED BY <2>1, <2>2 DEF History
<1>2. DogTypeOK
  <2>1. fails = 0 /\ halted = FALSE /\ since \in 0..MinGap /\ launched \in 0..MinGap
    BY DEF Init
  <2>2. 0 \in 0..Failures
    OBVIOUS
  <2> QED BY <1>1, <2>1, <2>2, Zenon DEF DogTypeOK
<1>3. RestTypeOK
  <2>1. /\ notices = 0 /\ requests = MaxRequests /\ watching = FALSE
        /\ probe = "none" /\ dog = "idle" /\ phase = "run" /\ wanted = "up"
    BY DEF Init
  <2>2. 0 \in 0..MaxNotices
    BY BoundAssumption
  <2>3. MaxRequests \in 0..MaxRequests
    BY BoundAssumption
  <2> QED BY <2>1, <2>2, <2>3, Zenon DEF RestTypeOK
<1>4. SupTypeOK /\ pc[Dog] = "idle"
  BY SupInitInv, CallerAssumption DEF Init, SupInv, SupInit
<1>5. TypeOK
  BY <1>2, <1>3, <1>4 DEF TypeOK, DogTypeOK, RestTypeOK
<1>6. Rested
  BY DEF Init, Rested
<1> QED
  BY <1>2, <1>4, <1>5, <1>6 DEF Init, Inv, DogInv, HaltIsQuiet, BudgetKept, Room,
     CallerIsRestart, Restarting

(* Every step keeps it; of the child's part SupInv takes care. *)
LEMMA StepInv == Inv /\ SupInv' /\ [Next]_vars => Inv'
<1> SUFFICES ASSUME Inv, SupInv', [Next]_vars PROVE Inv'
  OBVIOUS
<1>1. DogInv' /\ DogTypeOK'
  BY StepKinds, DogStepInv DEF Inv, TypeOK
<1>2. RestTypeOK'
  BY RestTypeStep DEF Inv
<1>3. SupTypeOK'
  BY DEF SupInv
<1> QED
  BY <1>1, <1>2, <1>3 DEF Inv, TypeOK, DogTypeOK, RestTypeOK

-----------------------------------------------------------------------------
(* All of it at once; what is read off it below is each property by name. *)
THEOREM WatchdogSafe == Safety => []Inv
<1>1. Safety => []SupInv
  BY ProcessImplementsSupervisor, SupervisorSafe, PTL DEF ImplementsSupervisor
<1> QED
  BY <1>1, InitInv, StepInv, PTL DEF Safety

(* The variables of the whole process always have their types; above all the
   history never outgrows its limit. *)
THEOREM TypeCorrect == Safety => []TypeOK
<1>1. Inv => TypeOK BY DEF Inv
<1> QED BY <1>1, WatchdogSafe, PTL

(* A watchdog that has given up has no restart under way. *)
THEOREM HaltStopsRestarts == Safety => []HaltIsQuiet
<1>1. Inv => HaltIsQuiet BY DEF Inv, DogInv
<1> QED BY <1>1, WatchdogSafe, PTL

(* The watchdog keeps its hourly budget by its own count, for every budget and
   every length of the history. *)
THEOREM BudgetIsKept == Safety => []BudgetKept
<1>1. Inv => BudgetKept BY DEF Inv, DogInv
<1> QED BY <1>1, WatchdogSafe, PTL

(* A step that begins an automatic restart comes from decide(), which has waited. *)
LEMMA BeginsRested ==
  Inv /\ [Next]_vars => (~Restarting /\ Restarting' => launched >= MinGap)
<1> SUFFICES ASSUME Inv, [Next]_vars, ~Restarting, Restarting'
             PROVE  launched >= MinGap
  OBVIOUS
<1>1. Quiet \/ Begin \/ GiveUp \/ Finish \/ Wait
  BY StepKinds DEF Inv, TypeOK
<1>2. since >= MinGap
  BY <1>1 DEF Quiet, Begin, GiveUp, Finish, Wait, Restarting
<1> QED
  BY <1>2, PolicyAssumption DEF PolicyAssumption, Inv, DogInv, DogTypeOK, Rested

(* From an automatic launch to the next automatic restart the minimum gap
   passes, for every gap and whatever happens in between. *)
THEOREM GapBetweenRestarts == Safety => GapKept
  BY BeginsRested, WatchdogSafe, PTL DEF Safety, GapKept
=============================================================================
