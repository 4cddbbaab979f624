---------------------------- MODULE AccessLogProps ----------------------------
(***************************************************************************)
(* What the access log should guarantee.                                   *)
(***************************************************************************)
EXTENDS AccessLog

(* Entries get into the table in the order in which the requests ended, and
   none of them twice, whichever of its five callers flushes, a probe of the
   missing tables included; and queue and batch keep to their limits, the type
   invariant says (AccessLogService.js:195-210, 215, 222). *)
StoredOnceInOrder ==
  TypeOK /\ \A i, j \in DOMAIN inserted : i < j => inserted[i] < inserted[j]

(* What was inserted and not told yet has a notice scheduled: the last notice
   of a burst is never missing (AccessLogService.js:138, 165). *)
LastNoticeFollows == pending => noticeTimer \/ stopped

(* Entries do not stay in the queue, neither behind a flush nor when the
   tables are gone for good (AccessLogService.js:80, 188, 230). *)
QueueEmpties == queue # <<>> ~> queue = <<>> \/ stopped
=============================================================================
