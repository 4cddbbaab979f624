------------------------------ MODULE TraceWriter ------------------------------
(***************************************************************************)
(* The queue of request traces of src/core/traceWriter.js: requests that   *)
(* end put a record into it, a timer or a full queue flushes it into the   *)
(* database as one batch, and the depth of the queue decides how much is   *)
(* recorded at all.                                                        *)
(*                                                                         *)
(* A record is only counted.  The statements of a flush are one wait that  *)
(* ends well or badly, whatever part of the batch was stored by then.  The *)
(* database is there: without it nothing is ever put into the queue        *)
(* (src/core/traceStore.js:104), and line 120 has nothing to discard.      *)
(***************************************************************************)
EXTENDS Naturals

CONSTANTS
  MaxQueue,    \* MAX_QUEUE: this many are written without waiting
  HardLimit,   \* HARD_LIMIT, also UP.shed
  HeavyUp,     \* UP.heavy
  HeavyDown,   \* DOWN.heavy
  EaseUp,      \* UP.ease
  EaseDown,    \* DOWN.ease
  Calm,        \* calm checks before recording is complete again
  MaxRecords   \* bound: records offered in all

ASSUME TraceLimits ==
  /\ {MaxQueue, HardLimit, HeavyUp, HeavyDown, EaseUp, EaseDown, Calm, MaxRecords}
       \subseteq Nat
  /\ 0 < EaseDown /\ EaseDown <= EaseUp /\ EaseUp < HeavyUp /\ HeavyUp < HardLimit
  /\ EaseUp <= HeavyDown /\ HeavyDown <= HeavyUp
  /\ 0 < MaxQueue /\ 0 < Calm

VARIABLES
  queue,         \* queue.length
  batch,         \* records the flush under way has taken
  timer,         \* is the timer of the next flush set?
  flushing,      \* flushing
  level,         \* level
  calmStreak,    \* calmStreak, which stops growing at Calm
  enqueued,      \* stats.enqueued
  skipped,       \* stats.skippedByPressure
  droppedTotal,  \* stats.droppedTotal
  written,       \* stats.written
  lost           \* history: records of flushes that failed

pressureVars == <<level, calmStreak>>
countVars == <<enqueued, skipped, droppedTotal, written, lost>>
traceVars == <<queue, batch, timer, flushing, pressureVars, countVars>>

Level == {"normal", "ease", "heavy", "shed"}

(* What matters of a request: did it fail or was it slow, or else is it
   a read or a change. *)
Kind == {"failed", "change", "read"}

TraceTypeOK ==
  /\ queue \in 0..HardLimit
  /\ batch \in 0..HardLimit
  /\ timer \in BOOLEAN
  /\ flushing \in BOOLEAN
  /\ level \in Level
  /\ calmStreak \in 0..Calm
  /\ enqueued \in 0..MaxRecords
  /\ {skipped, droppedTotal, written, lost} \subseteq Nat

TraceInit ==
  /\ queue = 0 /\ batch = 0
  /\ timer = FALSE /\ flushing = FALSE
  /\ level = "normal" /\ calmStreak = 0
  /\ enqueued = 0 /\ skipped = 0 /\ droppedTotal = 0 /\ written = 0 /\ lost = 0

-----------------------------------------------------------------------------
(* updateLevel() for a queue of n records *)

CalmAfter(n) ==
  IF n >= EaseUp \/ (n >= EaseDown /\ n < HeavyDown /\ level = "heavy") THEN 0
  ELSE IF n >= EaseDown THEN calmStreak
  ELSE IF calmStreak < Calm THEN calmStreak + 1
  ELSE Calm

LevelAfter_Faulty(n) ==   \* a level it goes up to is never left
  IF n >= HardLimit THEN "shed"
  ELSE IF n >= HeavyUp THEN "heavy"
  ELSE IF n >= EaseUp THEN "ease"
  ELSE level

LevelAfter(n) ==
  IF n >= HardLimit THEN "shed"
  ELSE IF n >= HeavyUp THEN "heavy"
  ELSE IF n >= EaseUp THEN "ease"
  ELSE IF n < EaseDown /\ CalmAfter(n) = Calm THEN "normal"
  ELSE IF n >= EaseDown /\ n < HeavyDown /\ level = "heavy" THEN "ease"
  ELSE level

(* _shouldRecord() *)
ShouldRecord(kind) ==
  \/ level = "normal"
  \/ level = "ease" /\ kind # "read"
  \/ level = "heavy" /\ kind = "failed"

-----------------------------------------------------------------------------
FlushWith_Faulty(q, t) ==   \* an empty queue is left alone for good
  \/ /\ flushing
     /\ queue' = q /\ timer' = t
     /\ UNCHANGED <<batch, flushing, pressureVars>>
  \/ /\ ~flushing
     /\ level' = LevelAfter(q)
     /\ calmStreak' = CalmAfter(q)
     /\ queue' = 0
     /\ timer' = t
     /\ batch' = q
     /\ flushing' = (q > 0)

(* flush() up to its first await, with q records in the queue and the timer
   as t says. *)
FlushWith(q, t) ==
  \/ /\ flushing
     /\ queue' = q /\ timer' = t
     /\ UNCHANGED <<batch, flushing, pressureVars>>
  \/ /\ ~flushing
     /\ level' = LevelAfter(q)
     /\ calmStreak' = CalmAfter(q)
     /\ queue' = 0
     /\ \/ q = 0 /\ timer' = (t \/ level' # "normal") /\ UNCHANGED <<batch, flushing>>
        \/ q > 0 /\ timer' = t /\ batch' = q /\ flushing' = TRUE

(* enqueue(): the oldest make room when the queue is at its hard limit. *)
Enqueue(kind) ==
  /\ enqueued < MaxRecords
  /\ enqueued' = enqueued + 1
  /\ \/ /\ ~ShouldRecord(kind)
        /\ skipped' = skipped + 1
        /\ UNCHANGED <<queue, batch, timer, flushing, pressureVars, droppedTotal>>
     \/ /\ ShouldRecord(kind)
        /\ LET full == queue = HardLimit
               q == IF full THEN HardLimit ELSE queue + 1
           IN /\ droppedTotal' = IF full THEN droppedTotal + 1 ELSE droppedTotal
              /\ \/ q >= MaxQueue /\ FlushWith(q, timer)
                 \/ /\ q < MaxQueue
                    /\ queue' = q /\ timer' = TRUE
                    /\ UNCHANGED <<batch, flushing, pressureVars>>
        /\ UNCHANGED skipped
  /\ UNCHANGED <<written, lost>>

(* The timer fires. *)
TimerFires ==
  /\ timer
  /\ FlushWith(queue, FALSE)
  /\ UNCHANGED countVars

FlushEnds_Faulty(stored) ==   \* what came in meanwhile is taken for written
  /\ flushing
  /\ flushing' = FALSE
  /\ batch' = 0
  /\ queue' = 0
  /\ timer' = (timer \/ level # "normal")
  /\ \/ stored /\ written' = written + batch /\ UNCHANGED lost
     \/ ~stored /\ lost' = lost + batch /\ UNCHANGED written
  /\ UNCHANGED <<pressureVars, enqueued, skipped, droppedTotal>>

(* The statements of a flush are over: the rest of flush(), with its
   finally. *)
FlushEnds(stored) ==
  /\ flushing
  /\ flushing' = FALSE
  /\ batch' = 0
  /\ timer' = (timer \/ queue > 0 \/ level # "normal")
  /\ \/ stored /\ written' = written + batch /\ UNCHANGED lost
     \/ ~stored /\ lost' = lost + batch /\ UNCHANGED written
  /\ UNCHANGED <<queue, pressureVars, enqueued, skipped, droppedTotal>>

(* drain() up to its wait: there is one only if no flush was under way. *)
Drain ==
  /\ FlushWith(queue, FALSE)
  /\ UNCHANGED countVars
=============================================================================
