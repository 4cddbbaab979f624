----------------------------- MODULE ShutdownProps -----------------------------
(***************************************************************************)
(* What the trace writer and the end of the server should guarantee, and   *)
(* what the comments of the code say they do.                              *)
(***************************************************************************)
EXTENDS Shutdown

(* Every record offered is in one place: in the queue, in the flush under way,
   or counted as skipped, dropped, written or failed, however flushes and
   requests overlap; and the queue never outgrows its hard limit, the type
   invariant says (traceWriter.js:58, 69, 76-80, 123, 175). *)
EveryRecordAccounted ==
  TypeOK /\ enqueued = queue + batch + skipped + droppedTotal + written + lost

(* Records that wait, and a level that is still up, always have somebody who
   comes back to them: the timer or the end of the flush under way
   (traceWriter.js:107, 113, 189). *)
NobodyStranded == queue > 0 \/ level # "normal" => timer \/ flushing

(* When the database is closed the queue has been written, except what a flush
   that drain() ran into leaves behind; nothing is put into it behind drain's
   back (app.js:112-115, traceWriter.js:200). *)
DrainedBeforeClose ==
  phase = "database" \/ clean => overrun \/ (queue = 0 /\ ~flushing)

(* As long as the database answers, the writer returns to recording everything
   once the load is gone: every level is left (traceWriter.js:107, 114, 189). *)
PressureEases ==
  []<>~flushing => (level # "normal" ~> level = "normal" \/ phase = "exited")

(* shutdown() ends the process even if a request never ends and the database
   never answers (app.js:126). *)
ShutdownEnds == phase # "serving" ~> phase = "exited"
=============================================================================
