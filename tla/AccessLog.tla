------------------------------- MODULE AccessLog -------------------------------
(***************************************************************************)
(* The queue of lib/admin/service/AccessLogService.js: entries of ended    *)
(* requests are inserted one by one, a batch at a time, by an interval, a  *)
(* quick timer or a full batch; while the tables are missing one entry a   *)
(* minute is tried; screens are told of what was inserted, rarely enough.  *)
(*                                                                         *)
(* Entries are numbered in the order in which requests end.  The tests of  *)
(* isActive() are always true without the HA edition.                      *)
(***************************************************************************)
EXTENDS Naturals, Sequences

CONSTANTS
  BatchSize,   \* BATCH_SIZE
  MaxQueue,    \* MAX_QUEUE
  MaxEntries,  \* bound: requests that end
  MaxLosses    \* bound: how often the tables vanish

ASSUME AccessLimits ==
  /\ {BatchSize, MaxQueue, MaxEntries, MaxLosses} \subseteq Nat
  /\ 0 < BatchSize /\ BatchSize <= MaxQueue

VARIABLES
  queue,         \* _queue
  batch,         \* what is left of the batch of the flush under way
  flushing,      \* _flushing
  quick,         \* is _quickTimer set?
  missing,       \* _tablesMissing
  checked,       \* are the 60 s since _lastMissingCheckAt still running?
  probing,       \* the entry tried while the tables were missing, or 0
  fresh,         \* inserted by the flush under way
  pending,       \* is _pendingInserted above 0?
  noticeTimer,   \* is _notifyTimer set?
  recent,        \* has the gap since the last notice not passed yet?
  stopped,       \* stop() was called
  offered,       \* entries enqueued so far
  inserted,      \* history: entries in the table, in the order of insertion
  tables,        \* do the tables exist?
  losses         \* times the tables may still vanish

queueVars == <<queue, batch, flushing, probing, checked>>
noticeVars == <<pending, noticeTimer, recent>>
vars == <<queueVars, quick, missing, fresh, noticeVars, stopped, offered, inserted,
          tables, losses>>

Entry == 1..MaxEntries

TypeOK ==
  /\ queue \in Seq(Entry) /\ Len(queue) <= MaxQueue
  /\ batch \in Seq(Entry) /\ Len(batch) <= BatchSize
  /\ flushing \in BOOLEAN /\ quick \in BOOLEAN
  /\ missing \in BOOLEAN /\ checked \in BOOLEAN
  /\ probing \in {0} \cup Entry
  /\ fresh \in 0..BatchSize
  /\ pending \in BOOLEAN /\ noticeTimer \in BOOLEAN /\ recent \in BOOLEAN
  /\ stopped \in BOOLEAN
  /\ offered \in 0..MaxEntries
  /\ inserted \in Seq(Entry)
  /\ tables \in BOOLEAN
  /\ losses \in 0..MaxLosses

Init ==
  /\ queue = <<>> /\ batch = <<>> /\ inserted = <<>>
  /\ flushing = FALSE /\ quick = FALSE
  /\ missing = FALSE /\ checked = FALSE
  /\ probing = 0 /\ fresh = 0
  /\ pending = FALSE /\ noticeTimer = FALSE /\ recent = FALSE
  /\ stopped = FALSE
  /\ offered = 0
  /\ tables = TRUE
  /\ losses = MaxLosses

First(q) == SubSeq(q, 1, IF Len(q) < BatchSize THEN Len(q) ELSE BatchSize)
Rest(q) == SubSeq(q, BatchSize + 1, Len(q))

-----------------------------------------------------------------------------
(* _flushQueue() *)

TakeBatch(q) ==
  /\ batch' = First(q)
  /\ queue' = Rest(q)
  /\ flushing' = (q # <<>>)   \* nothing to wait for in an empty batch
  /\ fresh' = 0

FlushQueue_Faulty(q) ==   \* missing tables are never looked for again
  \/ /\ flushing \/ q = <<>> \/ missing
     /\ queue' = q
     /\ UNCHANGED <<batch, flushing, probing, checked, fresh>>
  \/ /\ ~flushing /\ q # <<>> /\ ~missing
     /\ TakeBatch(q)
     /\ UNCHANGED <<probing, checked>>

(* _flushQueue() up to its first await, with q in the queue. *)
FlushQueue(q) ==
  \/ /\ flushing \/ q = <<>> \/ (missing /\ checked)
     /\ queue' = q
     /\ UNCHANGED <<batch, flushing, probing, checked, fresh>>
  \/ /\ ~flushing /\ q # <<>> /\ missing /\ ~checked
     /\ checked' = TRUE
     /\ queue' = q
     /\ probing' = Head(q)
     /\ UNCHANGED <<batch, flushing, fresh>>
  \/ /\ ~flushing /\ q # <<>> /\ ~missing
     /\ TakeBatch(q)
     /\ UNCHANGED <<probing, checked>>

ProbeStored_Faulty ==   \* it stays in the queue
  /\ probing # 0 /\ tables
  /\ inserted' = Append(inserted, probing)
  /\ probing' = 0
  /\ missing' = FALSE
  /\ TakeBatch(queue)
  /\ UNCHANGED <<quick, checked, noticeVars, stopped, offered, tables, losses>>

(* The entry tried went in: it leaves the queue, that is the head of the queue
   does, and the flush goes on. *)
ProbeStored ==
  /\ probing # 0 /\ tables
  /\ inserted' = Append(inserted, probing)
  /\ probing' = 0
  /\ missing' = FALSE
  /\ TakeBatch(Tail(queue))
  /\ UNCHANGED <<quick, checked, noticeVars, stopped, offered, tables, losses>>

ProbeMissing ==
  /\ probing # 0 /\ ~tables
  /\ probing' = 0
  /\ queue' = <<>>
  /\ UNCHANGED <<batch, flushing, checked, quick, missing, fresh, noticeVars, stopped,
                 offered, inserted, tables, losses>>

(* Another error: the flush goes on all the same. *)
ProbeFails ==
  /\ probing # 0
  /\ probing' = 0
  /\ TakeBatch(queue)
  /\ UNCHANGED <<quick, missing, checked, noticeVars, stopped, offered, inserted,
                 tables, losses>>

-----------------------------------------------------------------------------
(* _notifyChanged() and _emitChanged() *)

Notify_Faulty ==   \* within the gap nothing is scheduled
  /\ pending' = recent
  /\ recent' = TRUE
  /\ UNCHANGED noticeTimer

(* At once, or when the gap since the last notice is over. *)
Notify ==
  \/ /\ ~recent
     /\ pending' = FALSE
     /\ recent' = TRUE
     /\ UNCHANGED noticeTimer
  \/ /\ recent
     /\ pending' = TRUE
     /\ noticeTimer' = TRUE
     /\ UNCHANGED recent

NoticeFires ==
  /\ noticeTimer
  /\ noticeTimer' = FALSE
  /\ pending' = FALSE
  /\ recent' = TRUE
  /\ UNCHANGED <<queueVars, quick, missing, fresh, stopped, offered, inserted, tables,
                 losses>>

GapPasses ==
  /\ recent
  /\ recent' = FALSE
  /\ UNCHANGED <<queueVars, quick, missing, fresh, pending, noticeTimer, stopped,
                 offered, inserted, tables, losses>>

-----------------------------------------------------------------------------
(* The inserts of a flush, one after the other, and its finally *)

FlushGoesOn(rest, n) ==
  /\ batch' = rest
  /\ \/ rest # <<>> /\ fresh' = n /\ UNCHANGED <<flushing, noticeVars>>
     \/ /\ rest = <<>>
        /\ flushing' = FALSE
        /\ fresh' = 0
        /\ IF n > 0 THEN Notify ELSE UNCHANGED noticeVars

InsertStored ==
  /\ flushing /\ tables
  /\ inserted' = Append(inserted, Head(batch))
  /\ FlushGoesOn(Tail(batch), fresh + 1)
  /\ UNCHANGED <<queue, probing, checked, quick, missing, stopped, offered, tables,
                 losses>>

InsertFails ==
  /\ flushing
  /\ FlushGoesOn(Tail(batch), fresh)
  /\ UNCHANGED <<queue, probing, checked, quick, missing, stopped, offered, inserted,
                 tables, losses>>

InsertMissing ==
  /\ flushing /\ ~tables
  /\ missing' = TRUE
  /\ checked' = TRUE
  /\ FlushGoesOn(<<>>, fresh)
  /\ UNCHANGED <<queue, probing, quick, stopped, offered, inserted, tables, losses>>

-----------------------------------------------------------------------------
(* The callers *)

(* enqueueAccess(), until the server has closed its connections and stop() is
   called. *)
enqueueAccess ==
  /\ ~stopped
  /\ offered < MaxEntries
  /\ offered' = offered + 1
  /\ LET kept == IF Len(queue) >= MaxQueue THEN Tail(queue) ELSE queue
         q == Append(kept, offered + 1)
     IN IF Len(q) >= BatchSize
        THEN FlushQueue(q)
        ELSE queue' = q /\ UNCHANGED <<batch, flushing, probing, checked, fresh>>
  /\ quick' = (quick \/ ~flushing')
  /\ UNCHANGED <<missing, noticeVars, stopped, inserted, tables, losses>>

Interval ==
  /\ ~stopped
  /\ FlushQueue(queue)
  /\ UNCHANGED <<quick, missing, noticeVars, stopped, offered, inserted, tables, losses>>

QuickFires ==
  /\ quick
  /\ quick' = FALSE
  /\ FlushQueue(queue)
  /\ UNCHANGED <<missing, noticeVars, stopped, offered, inserted, tables, losses>>

(* stop(): the timers are cleared and one more flush is begun. *)
stop ==
  /\ ~stopped
  /\ stopped' = TRUE
  /\ quick' = FALSE
  /\ noticeTimer' = FALSE
  /\ FlushQueue(queue)
  /\ UNCHANGED <<missing, pending, recent, offered, inserted, tables, losses>>

(* An insert is answered within a minute: the next probe is not due before
   this one is over. *)
CheckDue ==
  /\ checked /\ probing = 0
  /\ checked' = FALSE
  /\ UNCHANGED <<queue, batch, flushing, probing, quick, missing, fresh, noticeVars,
                 stopped, offered, inserted, tables, losses>>

(* A sign-in or a sweep runs into the missing tables. *)
OthersFindMissing ==
  /\ ~tables /\ ~missing
  /\ missing' = TRUE
  /\ UNCHANGED <<queueVars, quick, fresh, noticeVars, stopped, offered, inserted, tables,
                 losses>>

(* Somebody drops the tables; the server may make them again. *)
TablesVanish ==
  /\ tables /\ losses > 0
  /\ tables' = FALSE
  /\ losses' = losses - 1
  /\ UNCHANGED <<queueVars, quick, missing, fresh, noticeVars, stopped, offered, inserted>>

TablesReturn ==
  /\ ~tables
  /\ tables' = TRUE
  /\ UNCHANGED <<queueVars, quick, missing, fresh, noticeVars, stopped, offered, inserted,
                 losses>>

Next ==
  \/ enqueueAccess
  \/ Interval \/ QuickFires \/ stop
  \/ ProbeStored \/ ProbeMissing \/ ProbeFails
  \/ InsertStored \/ InsertFails \/ InsertMissing
  \/ NoticeFires \/ GapPasses
  \/ CheckDue \/ OthersFindMissing
  \/ TablesVanish \/ TablesReturn

(* Timers fire and inserts are answered. *)
Fairness ==
  /\ WF_vars(Interval)
  /\ WF_vars(NoticeFires)
  /\ WF_vars(CheckDue)
  /\ WF_vars(ProbeStored \/ ProbeMissing \/ ProbeFails)
  /\ WF_vars(InsertStored \/ InsertFails \/ InsertMissing)

Spec == Init /\ [][Next]_vars /\ Fairness
=============================================================================
