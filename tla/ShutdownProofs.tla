---------------------------- MODULE ShutdownProofs ----------------------------
(***************************************************************************)
(* For all limits of the queue that TraceLimits allows: no record of a     *)
(* trace is lost unaccounted for, none waits for nobody, and the queue is  *)
(* empty when the database is closed unless drain() ran into a flush.      *)
(*                                                                         *)
(* The sum of EveryRecordAccounted is kept by a flush that begins only     *)
(* because the one before has given back its batch (BatchOfFlush).         *)
(* DrainedBeforeClose needs that no request is left once the socket is     *)
(* closed (NoRequestLeft), so that what drain() has emptied stays empty.   *)
(***************************************************************************)
EXTENDS ShutdownProps, TLAPS

Total == queue + batch + skipped + droppedTotal + written + lost

BatchOfFlush == ~flushing => batch = 0

NoRequestLeft == phase \in {"access", "drain", "database"} => conns = 0

(* What drain() waits for is its own flush, and nothing waits behind it. *)
DrainTookAll == phase = "drain" => queue = 0

CleanIsExit == clean => phase = "exited"

ShutdownInv ==
  /\ TypeOK
  /\ enqueued = Total
  /\ BatchOfFlush
  /\ NobodyStranded
  /\ NoRequestLeft
  /\ DrainTookAll
  /\ CleanIsExit
  /\ DrainedBeforeClose

USE TraceLimits, ConnsAssumption DEF TraceLimits, ConnsAssumption

-----------------------------------------------------------------------------
LEMMA LevelType ==
  ASSUME TraceTypeOK, NEW n \in 0..HardLimit
  PROVE  LevelAfter(n) \in Level /\ CalmAfter(n) \in 0..Calm
BY DEF TraceTypeOK, LevelAfter, CalmAfter, Level

(* A flush that begins moves the queue into its batch; whatever it finds,
   somebody comes back to what is left. *)
LEMMA FlushKeeps ==
  ASSUME TraceTypeOK, BatchOfFlush, NEW q \in 0..HardLimit, NEW t \in BOOLEAN,
         FlushWith(q, t)
  PROVE  /\ queue' \in 0..HardLimit /\ batch' \in 0..HardLimit
         /\ timer' \in BOOLEAN /\ flushing' \in BOOLEAN
         /\ level' \in Level /\ calmStreak' \in 0..Calm
         /\ queue' + batch' = q + batch
         /\ BatchOfFlush'
         /\ NobodyStranded'
         /\ ~flushing => queue' = 0 /\ (flushing' <=> q > 0)
         /\ flushing => flushing' /\ queue' = q
<1>1. LevelAfter(q) \in Level /\ CalmAfter(q) \in 0..Calm
  BY LevelType
<1>2. /\ {queue, batch} \subseteq 0..HardLimit /\ {timer, flushing} \subseteq BOOLEAN
      /\ level \in Level /\ calmStreak \in 0..Calm
  BY DEF TraceTypeOK
<1>3. CASE flushing
  <2>1. queue' = q /\ timer' = t /\ batch' = batch /\ flushing' = flushing
        /\ level' = level /\ calmStreak' = calmStreak
    BY <1>3 DEF FlushWith, pressureVars
  <2>2. flushing' /\ BatchOfFlush' /\ NobodyStranded'
    BY <1>3, <2>1 DEF BatchOfFlush, NobodyStranded
  <2> QED
    BY <1>2, <1>3, <2>1, <2>2
<1>4. CASE ~flushing
  <2>1. /\ level' = LevelAfter(q) /\ calmStreak' = CalmAfter(q) /\ queue' = 0
        /\ \/ q = 0 /\ timer' = (t \/ level' # "normal") /\ UNCHANGED <<batch, flushing>>
           \/ q > 0 /\ timer' = t /\ batch' = q /\ flushing' = TRUE
    BY <1>4 DEF FlushWith
  <2>2. batch = 0
    BY <1>4 DEF BatchOfFlush
  <2>3. CASE q = 0
    <3>1. timer' = (t \/ level' # "normal") /\ batch' = 0 /\ flushing' = flushing
      BY <2>1, <2>2, <2>3
    <3>2. ~flushing' /\ BatchOfFlush' /\ NobodyStranded'
      <4>1. ~flushing' /\ BatchOfFlush'
        BY <1>4, <3>1 DEF BatchOfFlush
      <4>2. level' # "normal" => timer'
        BY <3>1
      <4>3. ~(queue' > 0)
        BY <2>1
      <4> QED
        BY <4>1, <4>2, <4>3 DEF NobodyStranded
    <3> QED
      BY <1>1, <1>2, <1>4, <2>1, <2>2, <2>3, <3>1, <3>2
  <2>4. CASE q > 0
    <3>1. timer' = t /\ batch' = q /\ flushing' = TRUE
      BY <2>1, <2>4
    <3>2. flushing' /\ BatchOfFlush' /\ NobodyStranded'
      BY <3>1 DEF BatchOfFlush, NobodyStranded
    <3> QED
      BY <1>1, <1>2, <1>4, <2>1, <2>2, <2>4, <3>1, <3>2
  <2> QED
    BY <2>3, <2>4
<1> QED
  BY <1>3, <1>4

-----------------------------------------------------------------------------
(* What each operation of the writer keeps *)

TraceInv == TraceTypeOK /\ enqueued = Total /\ BatchOfFlush /\ NobodyStranded

LEMMA EnqueueKeeps ==
  ASSUME TraceInv, NEW kind \in Kind, Enqueue(kind)
  PROVE  TraceInv'
<1> USE DEF TraceInv
<1>0. /\ enqueued' \in 0..MaxRecords /\ enqueued' = enqueued + 1 /\ enqueued \in Nat
      /\ written' = written /\ lost' = lost
      /\ {skipped, droppedTotal, written, lost} \subseteq Nat
      /\ queue \in 0..HardLimit /\ batch \in 0..HardLimit
  BY DEF Enqueue, TraceTypeOK
<1>1. CASE ~ShouldRecord(kind)
  <2>1. /\ skipped' = skipped + 1
        /\ UNCHANGED <<queue, batch, timer, flushing, pressureVars, droppedTotal>>
    BY <1>1 DEF Enqueue
  <2> QED
    BY <1>0, <2>1 DEF TraceTypeOK, Total, BatchOfFlush, NobodyStranded, pressureVars
<1>2. CASE ShouldRecord(kind)
  <2> DEFINE full == queue = HardLimit
             q == IF full THEN HardLimit ELSE queue + 1
  <2>1. /\ droppedTotal' = IF full THEN droppedTotal + 1 ELSE droppedTotal
        /\ \/ q >= MaxQueue /\ FlushWith(q, timer)
           \/ /\ q < MaxQueue
              /\ queue' = q /\ timer' = TRUE
              /\ UNCHANGED <<batch, flushing, pressureVars>>
        /\ UNCHANGED skipped
    BY <1>2 DEF Enqueue
  <2>2. q \in 0..HardLimit /\ q + droppedTotal' = queue + droppedTotal + 1
        /\ droppedTotal' \in Nat
    BY <1>0, <2>1
  <2> HIDE DEF q, full
  <2>3. CASE FlushWith(q, timer)
    <3>1. timer \in BOOLEAN
      BY DEF TraceTypeOK
    <3>2. /\ queue' \in 0..HardLimit /\ batch' \in 0..HardLimit
          /\ timer' \in BOOLEAN /\ flushing' \in BOOLEAN
          /\ level' \in Level /\ calmStreak' \in 0..Calm
          /\ queue' + batch' = q + batch
          /\ BatchOfFlush' /\ NobodyStranded'
      BY <2>2, <2>3, <3>1, FlushKeeps
    <3>3. TraceTypeOK'
      BY <1>0, <2>1, <2>2, <3>2 DEF TraceTypeOK
    <3>4. (enqueued = Total)'
      BY <1>0, <2>1, <2>2, <3>2 DEF Total
    <3> QED
      BY <3>2, <3>3, <3>4
  <2>4. CASE /\ queue' = q /\ timer' = TRUE
             /\ UNCHANGED <<batch, flushing, pressureVars>>
    BY <1>0, <2>1, <2>2, <2>4 DEF TraceTypeOK, Total, BatchOfFlush, NobodyStranded, pressureVars
  <2> QED
    BY <2>1, <2>3, <2>4
<1> QED
  BY <1>1, <1>2

LEMMA FlushedKeeps ==
  ASSUME TraceInv, FlushWith(queue, FALSE), UNCHANGED countVars
  PROVE  TraceInv'
<1> USE DEF TraceInv
<1>1. queue \in 0..HardLimit
  BY DEF TraceTypeOK
<1>2. /\ queue' \in 0..HardLimit /\ batch' \in 0..HardLimit
      /\ timer' \in BOOLEAN /\ flushing' \in BOOLEAN
      /\ level' \in Level /\ calmStreak' \in 0..Calm
      /\ queue' + batch' = queue + batch
      /\ BatchOfFlush' /\ NobodyStranded'
  BY <1>1, FlushKeeps
<1>3. TraceTypeOK'
  BY <1>2 DEF TraceTypeOK, countVars
<1>4. (enqueued = Total)'
  BY <1>2 DEF Total, TraceTypeOK, countVars
<1> QED
  BY <1>2, <1>3, <1>4

LEMMA FlushEndsKeeps ==
  ASSUME TraceInv, NEW stored \in BOOLEAN, FlushEnds(stored)
  PROVE  TraceInv'
<1> USE DEF TraceInv
<1>1. /\ flushing' = FALSE /\ batch' = 0
      /\ timer' = (timer \/ queue > 0 \/ level # "normal")
      /\ written' + lost' = written + lost + batch
      /\ written' \in Nat /\ lost' \in Nat
      /\ UNCHANGED <<queue, level, calmStreak, enqueued, skipped, droppedTotal>>
  <2>1. written \in Nat /\ lost \in Nat /\ batch \in Nat
    BY DEF TraceTypeOK
  <2> QED
    BY <2>1 DEF FlushEnds, pressureVars
<1>2. TraceTypeOK'
  <2>1. timer' \in BOOLEAN /\ flushing' \in BOOLEAN
    BY <1>1
  <2> QED
    BY <1>1, <2>1 DEF TraceTypeOK
<1>3. (enqueued = Total)'
  BY <1>1 DEF Total, TraceTypeOK
<1>4. BatchOfFlush' /\ NobodyStranded'
  BY <1>1 DEF TraceTypeOK, BatchOfFlush, NobodyStranded
<1> QED
  BY <1>2, <1>3, <1>4

-----------------------------------------------------------------------------
(* What the steps of shutdown() keep *)

ExitInv ==
  /\ phase \in Phase /\ conns \in 0..MaxConns
  /\ forced \in BOOLEAN /\ clean \in BOOLEAN /\ overrun \in BOOLEAN
  /\ NoRequestLeft /\ DrainTookAll /\ CleanIsExit /\ DrainedBeforeClose

LEMMA Parts == ShutdownInv <=> TraceInv /\ ExitInv
BY DEF ShutdownInv, TraceInv, ExitInv, TypeOK

(* The server starts with nothing recorded. *)
LEMMA InitInv == Init => ShutdownInv
<1> SUFFICES ASSUME Init PROVE ShutdownInv
  OBVIOUS
<1>1. TypeOK
  <2>1. timer \in BOOLEAN /\ flushing \in BOOLEAN
        /\ forced \in BOOLEAN /\ clean \in BOOLEAN /\ overrun \in BOOLEAN
    BY DEF Init, TraceInit
  <2>2. /\ {queue, batch} \subseteq 0..HardLimit /\ level \in Level
        /\ calmStreak \in 0..Calm /\ enqueued \in 0..MaxRecords
        /\ {skipped, droppedTotal, written, lost} \subseteq Nat
        /\ phase \in Phase /\ conns \in 0..MaxConns
    BY DEF Init, TraceInit, Level, Phase
  <2> QED
    BY <2>1, <2>2 DEF TypeOK, TraceTypeOK
<1>2. enqueued = Total
  BY DEF Init, TraceInit, Total
<1>3. BatchOfFlush /\ NobodyStranded
  BY DEF Init, TraceInit, BatchOfFlush, NobodyStranded
<1>4. NoRequestLeft /\ DrainTookAll /\ CleanIsExit /\ DrainedBeforeClose
  BY DEF Init, TraceInit, NoRequestLeft, DrainTookAll, CleanIsExit, DrainedBeforeClose
<1> QED
  BY <1>1, <1>2, <1>3, <1>4 DEF ShutdownInv

(* Hence every step keeps the invariant. *)
LEMMA StepInv == ShutdownInv /\ [Next]_vars => ShutdownInv'
<1> SUFFICES ASSUME TraceInv, ExitInv, [Next]_vars PROVE TraceInv' /\ ExitInv'
  <2>1. TraceInv' /\ ExitInv' => ShutdownInv'
    BY DEF ShutdownInv, TraceInv, ExitInv, TypeOK
  <2> QED
    BY <2>1, Parts
<1> USE DEF ExitInv, Phase, NoRequestLeft, DrainTookAll, CleanIsExit, DrainedBeforeClose
<1>1. ASSUME NEW kind \in Kind, RequestEnds(kind) PROVE TraceInv' /\ ExitInv'
  BY <1>1, EnqueueKeeps DEF RequestEnds, exitVars
<1>2. ASSUME NEW kind \in Kind, LastRequestEnds(kind) PROVE TraceInv' /\ ExitInv'
  <2>1. TraceInv'
    BY <1>2, EnqueueKeeps DEF LastRequestEnds
  <2>2. phase = "closing" /\ conns' \in 0..MaxConns
    BY <1>2 DEF LastRequestEnds
  <2> QED
    BY <1>2, <2>1, <2>2 DEF LastRequestEnds
<1>3. ASSUME ShutdownBegins PROVE TraceInv' /\ ExitInv'
  BY <1>3 DEF ShutdownBegins, TraceInv, traceVars, countVars, pressureVars, TraceTypeOK, Total,
     BatchOfFlush, NobodyStranded
<1>4. ASSUME CloseAll PROVE TraceInv' /\ ExitInv'
  BY <1>4 DEF CloseAll, TraceInv, traceVars, countVars, pressureVars, TraceTypeOK, Total,
     BatchOfFlush, NobodyStranded
<1>5. ASSUME SocketClosed PROVE TraceInv' /\ ExitInv'
  BY <1>5 DEF SocketClosed, TraceInv, traceVars, countVars, pressureVars, TraceTypeOK, Total,
     BatchOfFlush, NobodyStranded
<1>6. ASSUME DrainBegins PROVE TraceInv' /\ ExitInv'
  <2>1. TraceInv'
    BY <1>6, FlushedKeeps DEF DrainBegins, Drain
  <2>2. queue \in 0..HardLimit /\ flushing \in BOOLEAN
    BY DEF TraceInv, TraceTypeOK
  <2>3. ~flushing => queue' = 0 /\ flushing' \in BOOLEAN
    BY <1>6, <2>2, FlushKeeps DEF DrainBegins, Drain, TraceInv
  <2> QED
    BY <1>6, <2>1, <2>2, <2>3 DEF DrainBegins
<1>7. ASSUME NEW stored \in BOOLEAN, WriteEnds(stored) PROVE TraceInv' /\ ExitInv'
  <2>1. TraceInv'
    BY <1>7, FlushEndsKeeps DEF WriteEnds
  <2> QED
    BY <1>7, <2>1 DEF WriteEnds, FlushEnds
<1>8. ASSUME TimedFlush PROVE TraceInv' /\ ExitInv'
  <2>1. TraceInv'
    BY <1>8, FlushedKeeps DEF TimedFlush, TimerFires
  <2>2. queue \in 0..HardLimit
    BY DEF TraceInv, TraceTypeOK
  <2>3. FlushWith(queue, FALSE) /\ TraceTypeOK /\ BatchOfFlush
    BY <1>8 DEF TimedFlush, TimerFires, TraceInv
  <2>4. /\ ~flushing => queue' = 0 /\ (flushing' <=> queue > 0)
        /\ flushing => flushing' /\ queue' = queue
    BY <2>2, <2>3, FlushKeeps
  <2>5. UNCHANGED exitVars
    BY <1>8 DEF TimedFlush
  <2>6. queue = 0 => queue' = 0 /\ (~flushing => ~flushing')
    BY <2>2, <2>4
  <2> QED
    BY <2>1, <2>5, <2>6 DEF exitVars
<1>9. ASSUME CleanExit PROVE TraceInv' /\ ExitInv'
  BY <1>9 DEF CleanExit, TraceInv, traceVars, countVars, pressureVars, TraceTypeOK, Total,
     BatchOfFlush, NobodyStranded
<1>10. ASSUME Deadline PROVE TraceInv' /\ ExitInv'
  BY <1>10 DEF Deadline, TraceInv, traceVars, countVars, pressureVars, TraceTypeOK, Total,
     BatchOfFlush, NobodyStranded
<1>11. ASSUME UNCHANGED vars PROVE TraceInv' /\ ExitInv'
  BY <1>11 DEF vars, exitVars, TraceInv, traceVars, countVars, pressureVars, TraceTypeOK, Total,
     BatchOfFlush, NobodyStranded
<1> QED
  BY <1>1, <1>2, <1>3, <1>4, <1>5, <1>6, <1>7, <1>8, <1>9, <1>10, <1>11 DEF Next

-----------------------------------------------------------------------------
(* The invariant of the writer and of shutdown(). *)
THEOREM Invariant == Spec => []ShutdownInv
BY InitInv, StepInv, PTL DEF Spec

(* Every record offered to the writer is queued, in a flush, or counted as skipped,
   dropped, written or failed, whatever the limits, the load and the database do. *)
THEOREM RecordsAreAccounted == Spec => []EveryRecordAccounted
<1>1. ShutdownInv => EveryRecordAccounted
  BY DEF ShutdownInv, EveryRecordAccounted, Total
<1> QED
  BY <1>1, Invariant, PTL

(* A record that waits and a level that is up always have a timer or a flush to come. *)
THEOREM SomebodyComesBack == Spec => []NobodyStranded
<1>1. ShutdownInv => NobodyStranded
  BY DEF ShutdownInv
<1> QED
  BY <1>1, Invariant, PTL

(* shutdown() closes the database over an empty queue, unless drain() ran into a
   flush it does not wait for. *)
THEOREM DatabaseClosedLast == Spec => []DrainedBeforeClose
<1>1. ShutdownInv => DrainedBeforeClose
  BY DEF ShutdownInv
<1> QED
  BY <1>1, Invariant, PTL
=============================================================================
