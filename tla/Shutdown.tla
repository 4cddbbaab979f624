------------------------------- MODULE Shutdown -------------------------------
(***************************************************************************)
(* The main server from the first request to its exit: the trace writer    *)
(* with shutdown() of src/app.js, which closes the listening socket, waits *)
(* for the connections, empties the queues and closes the database, all    *)
(* before a deadline at which it exits anyway.                             *)
(*                                                                         *)
(* Connections matter as requests that still run.  The streams, tickets    *)
(* and the MCI connections that shutdown() closes on the way are not       *)
(* followed; the access log, whose stop() is awaited first, is a wait.     *)
(***************************************************************************)
EXTENDS TraceWriter

CONSTANTS MaxConns   \* bound: requests that run when shutdown() is called

ASSUME ConnsAssumption == MaxConns \in Nat

VARIABLES
  phase,    \* "serving", or what shutdown() waits for, or "exited"
  conns,    \* once shutting down: requests that still run
  forced,   \* has closeAllConnections() been called?
  clean,    \* how it exited: at the end of shutdown(), not by its deadline
  overrun   \* history: drain() found a flush under way

exitVars == <<phase, conns, forced, clean, overrun>>
vars == <<traceVars, exitVars>>

Phase == {"serving", "closing", "access", "drain", "database", "exited"}

TypeOK ==
  /\ TraceTypeOK
  /\ phase \in Phase
  /\ conns \in 0..MaxConns
  /\ forced \in BOOLEAN
  /\ clean \in BOOLEAN
  /\ overrun \in BOOLEAN

Init ==
  /\ TraceInit
  /\ phase = "serving"
  /\ conns = 0
  /\ forced = FALSE /\ clean = FALSE /\ overrun = FALSE

(* A request ends while the server runs. *)
RequestEnds(kind) ==
  /\ phase = "serving"
  /\ Enqueue(kind)
  /\ UNCHANGED exitVars

(* shutdown(), by whatever signal or fault; only the first call counts.
   The streams and the idle connections are closed, no request starts any
   more, those that run may end. *)
ShutdownBegins ==
  /\ phase = "serving"
  /\ phase' = "closing"
  /\ conns' \in 0..MaxConns
  /\ UNCHANGED <<traceVars, forced, clean, overrun>>

LastRequestEnds(kind) ==
  /\ phase \notin {"serving", "exited"}
  /\ conns > 0
  /\ conns' = conns - 1
  /\ Enqueue(kind)
  /\ UNCHANGED <<phase, forced, clean, overrun>>

(* The 3 s are over: whoever is still connected is cut off, and the requests
   that run then never emit 'finish'. *)
CloseAll ==
  /\ phase \notin {"serving", "exited"}
  /\ ~forced
  /\ forced' = TRUE
  /\ conns' = 0
  /\ UNCHANGED <<traceVars, phase, clean, overrun>>

SocketClosed_Faulty ==   \* the queues are emptied without waiting for requests
  /\ phase = "closing"
  /\ phase' = "access"
  /\ UNCHANGED <<traceVars, conns, forced, clean, overrun>>

(* server.close() calls back: accessSvc.stop() is awaited. *)
SocketClosed ==
  /\ phase = "closing"
  /\ conns = 0
  /\ phase' = "access"
  /\ UNCHANGED <<traceVars, conns, forced, clean, overrun>>

(* The access log is stopped: drain(), which waits for the flush it starts
   itself and for no other. *)
DrainBegins ==
  /\ phase = "access"
  /\ Drain
  /\ overrun' = flushing
  /\ phase' = IF ~flushing /\ flushing' THEN "drain" ELSE "database"
  /\ UNCHANGED <<conns, forced, clean>>

(* The database is reachable until closeDb() has run; it is being closed in
   phase "database", where a flush that still writes may get through. *)
WriteEnds(stored) ==
  /\ phase # "exited"
  /\ FlushEnds(stored)
  /\ phase' = IF phase = "drain" THEN "database" ELSE phase
  /\ UNCHANGED <<conns, forced, clean, overrun>>

TimedFlush ==
  /\ phase # "exited"
  /\ TimerFires
  /\ UNCHANGED exitVars

(* closeDb() is over. *)
CleanExit ==
  /\ phase = "database"
  /\ phase' = "exited"
  /\ clean' = TRUE
  /\ UNCHANGED <<traceVars, conns, forced, overrun>>

Deadline_Faulty ==   \* cleared when the socket is closed
  /\ phase = "closing"
  /\ forced
  /\ phase' = "exited"
  /\ UNCHANGED <<traceVars, conns, forced, clean, overrun>>

(* The 10 s are over; the 3 s are by then. *)
Deadline ==
  /\ phase \notin {"serving", "exited"}
  /\ forced
  /\ phase' = "exited"
  /\ UNCHANGED <<traceVars, conns, forced, clean, overrun>>

Next ==
  \/ \E kind \in Kind : RequestEnds(kind) \/ LastRequestEnds(kind)
  \/ ShutdownBegins
  \/ CloseAll \/ SocketClosed
  \/ DrainBegins
  \/ \E stored \in BOOLEAN : WriteEnds(stored)
  \/ TimedFlush
  \/ CleanExit \/ Deadline

(* Timers fire.  A statement that the database does not answer waits for
   ever: no fairness for WriteEnds, nor for closing the pool. *)
Fairness ==
  /\ WF_vars(TimedFlush)
  /\ WF_vars(CloseAll)
  /\ WF_vars(SocketClosed)
  /\ WF_vars(Deadline)

Spec == Init /\ [][Next]_vars /\ Fairness
=============================================================================
