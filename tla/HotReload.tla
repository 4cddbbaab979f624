------------------------------- MODULE HotReload -------------------------------
(***************************************************************************)
(* Controllers that are written, loaded and taken down while the server    *)
(* runs: ControllerMetaService.js, codeFileUpdate.js, BlocklistController.js *)
(* and WorkspaceLoadService.js over core/controllerLoader.js.              *)
(*                                                                         *)
(* A controller is a file with its metadata beside it, written and removed *)
(* together.  Requests of the console interleave wherever they wait for a  *)
(* file or for an import; what a load does to the container is in module   *)
(* Container.  Left out: the order of the routes in the stack, controllers *)
(* beyond the hundred that a listing shows, the update of the service that *)
(* follows an edit, and a restore of the files that fails itself.          *)
(***************************************************************************)
EXTENDS Naturals, Sequences

CONSTANTS
  Name,      \* names of controllers, and so of files
  Base,      \* base paths
  Code,      \* contents of a file
  BaseOf,    \* the base path each content declares
  Request,   \* requests of the console that can be in flight together
  MaxRequests, \* bound: requests in all
  None

ASSUME RequestType == Request \subseteq Nat
ASSUME BaseOfType == BaseOf \in [Code -> Base]
ASSUME MaxRequestsType == MaxRequests \in Nat
ASSUME NoneIsNothing == None \notin Code \cup Name

Layer == [file : Name, code : Code]
NoLayer == [file |-> None, code |-> None]

VARIABLES
  disk,     \* the files
  routes,   \* registeredControllers, the layer served at each base path
  blocked,  \* blocked.json
  pc,       \* what each request does next
  job,      \* of each request: its kind, the file, the file it replaces, the code to write
  seen,     \* the code each request has imported or, before, its snapshot of the file
  saved,
  queue,    \* the edits chained on `pending`
  mixed,    \* history: has a writer outside the queue run beside another request?
  asked     \* how many requests have arrived

vars == <<disk, routes, blocked, pc, job, seen, saved, queue, mixed, asked>>

Kind == {"edit", "create", "remove", "load"}
NoJob == [kind |-> "load", file |-> None, from |-> None, code |-> None]

TypeOK ==
  /\ disk \in [Name -> Code \cup {None}]
  /\ routes \in [Base -> Layer \cup {NoLayer}]
  /\ blocked \subseteq Name
  /\ pc \in [Request -> {"idle", "queued", "write", "load", "import", "publish",
                         "unlink", "restore"}]
  /\ job \in [Request -> [kind : Kind, file : Name \cup {None},
                          from : Name \cup {None}, code : Code \cup {None}]]
  /\ seen \in [Request -> Code \cup {None}]
  /\ saved \in [Request -> Code \cup {None}]
  /\ queue \in Seq(Request)
  /\ mixed \in BOOLEAN
  /\ asked \in 0..MaxRequests

Absent(f) == disk[f] = None

(* loadControllers() at boot: the files that load and are not blocked, the last
   one of a base path. *)
BootRoutes ==
  {r \in [Base -> Layer \cup {NoLayer}] :
     \A b \in Base :
       r[b] = NoLayer \/
         /\ r[b].file \notin blocked
         /\ r[b].code = disk[r[b].file]
         /\ BaseOf[r[b].code] = b}

Init ==
  /\ disk \in [Name -> Code \cup {None}]
  /\ blocked = {}
  /\ routes \in BootRoutes
  /\ \A f \in Name : ~Absent(f) => routes[BaseOf[disk[f]]] # NoLayer
  /\ pc = [r \in Request |-> "idle"]
  /\ job = [r \in Request |-> NoJob]
  /\ seen = [r \in Request |-> None]
  /\ saved = [r \in Request |-> None]
  /\ queue = <<>>
  /\ mixed = FALSE
  /\ asked = 0

-----------------------------------------------------------------------------
Busy == {r \in Request : pc[r] # "idle"}

(* Requests are alike: a new one takes the first free place. *)
Free(r) == pc[r] = "idle" /\ \A q \in Request : q < r => pc[q] # "idle"
Asked == asked < MaxRequests /\ asked' = asked + 1

(* A request arrives.  Only edits are meant to run beside each other. *)
Arrives(r, p, j) ==
  /\ Free(r)
  /\ Asked
  /\ pc' = [pc EXCEPT ![r] = p]
  /\ job' = [job EXCEPT ![r] = j]
  /\ mixed' = (mixed \/ \E q \in Busy : j.kind # "edit" \/ job[q].kind # "edit")
  /\ UNCHANGED <<disk, routes, blocked, seen, saved>>

GoOn(r, p) == pc' = [pc EXCEPT ![r] = p]

(* The request is answered.  The next edit of the queue may begin. *)
Ends(r) ==
  /\ pc' = [pc EXCEPT ![r] = "idle"]
  /\ job' = [job EXCEPT ![r] = NoJob]
  /\ seen' = [seen EXCEPT ![r] = None]
  /\ saved' = [saved EXCEPT ![r] = None]
  /\ queue' = IF job[r].kind = "edit" THEN Tail(queue) ELSE queue

-----------------------------------------------------------------------------
(* ControllerMetaService.update(): edits of a file f, renamed to g or not.  The
   names are looked at before the edit is queued. *)
RequestEdit(r, f, g, c) ==
  /\ ~Absent(f)
  /\ f # g => Absent(g)
  /\ Arrives(r, "queued", [kind |-> "edit", file |-> g, from |-> f, code |-> c])
  /\ queue' = Append(queue, r)

EditBegins(r) ==
  /\ pc[r] = "queued" /\ Head(queue) = r
  /\ saved' = [saved EXCEPT ![r] = disk[job[r].file]]
  /\ GoOn(r, "write")
  /\ UNCHANGED <<disk, routes, blocked, job, seen, queue, mixed, asked>>

Restores_Faulty(r) ==   \* the candidate stays on disk
  /\ pc[r] = "restore"
  /\ Ends(r)
  /\ UNCHANGED <<disk, routes, blocked, mixed, asked>>

(* A failed edit puts its snapshot back. *)
Restores(r) ==
  /\ pc[r] = "restore"
  /\ disk' = [disk EXCEPT ![job[r].file] = saved[r]]
  /\ Ends(r)
  /\ UNCHANGED <<routes, blocked, mixed, asked>>

-----------------------------------------------------------------------------
(* create(): outside the queue.  A file that does not load is removed. *)
RequestCreate(r, f, c) ==
  /\ Absent(f)
  /\ routes[BaseOf[c]] = NoLayer
  /\ Arrives(r, "write", [kind |-> "create", file |-> f, from |-> f, code |-> c])
  /\ UNCHANGED queue

(* safeWriteFile, writeMeta.  A failure leaves what is written, with create(). *)
CreateStops(r) ==
  /\ pc[r] = "write" /\ job[r].kind = "create"
  /\ disk' \in {disk, [disk EXCEPT ![job[r].file] = job[r].code]}
  /\ Ends(r)
  /\ UNCHANGED <<routes, blocked, mixed, asked>>

Writes(r) ==
  /\ pc[r] = "write"
  /\ disk' = [disk EXCEPT ![job[r].file] = job[r].code]
  /\ GoOn(r, "load")
  /\ UNCHANGED <<routes, blocked, job, seen, saved, queue, mixed, asked>>

(* remove(): outside the queue, the route first, then the files *)
RequestRemove(r, f) ==
  /\ ~Absent(f)
  /\ Free(r)
  /\ Asked
  /\ routes' = [routes EXCEPT ![BaseOf[disk[f]]] = NoLayer]
  /\ GoOn(r, "unlink")
  /\ job' = [job EXCEPT ![r] = [kind |-> "remove", file |-> f, from |-> f, code |-> None]]
  /\ mixed' = (mixed \/ Busy # {})
  /\ UNCHANGED <<disk, blocked, seen, saved, queue>>

(* the last step of remove(), and of an edit that renamed a file; it may fail *)
Unlinks(r) ==
  /\ pc[r] = "unlink"
  /\ disk' \in {disk, [disk EXCEPT ![job[r].from] = None]}
  /\ Ends(r)
  /\ UNCHANGED <<routes, blocked, mixed, asked>>

(* WorkspaceLoadService.loadOne() *)
RequestLoad(r, f) ==
  /\ ~Absent(f)
  /\ Arrives(r, "load", [kind |-> "load", file |-> f, from |-> f, code |-> None])
  /\ UNCHANGED queue

-----------------------------------------------------------------------------
(* BlocklistController: the file, then the route, in one turn *)
Block(f) ==
  /\ Asked
  /\ blocked' = blocked \cup {f}
  /\ routes' = IF Absent(f) THEN routes ELSE [routes EXCEPT ![BaseOf[disk[f]]] = NoLayer]
  /\ mixed' = (mixed \/ Busy # {})
  /\ UNCHANGED <<disk, pc, job, seen, saved, queue>>

Unblock(r, f) ==
  /\ f \in blocked
  /\ Free(r)
  /\ Asked
  /\ blocked' = blocked \ {f}
  /\ mixed' = (mixed \/ Busy # {})
  /\ IF Absent(f)
     THEN UNCHANGED <<pc, job>>
     ELSE /\ GoOn(r, "load")
          /\ job' = [job EXCEPT ![r] = [kind |-> "load", file |-> f, from |-> f, code |-> None]]
  /\ UNCHANGED <<disk, routes, seen, saved, queue>>

-----------------------------------------------------------------------------
(* loadSingleControllerFile() *)

LoadBegins(r) ==
  /\ pc[r] = "load"
  /\ job[r].file \notin blocked
  /\ GoOn(r, "import")
  /\ UNCHANGED <<disk, routes, blocked, job, seen, saved, queue, mixed, asked>>

Imports(r) ==
  /\ pc[r] = "import"
  /\ ~Absent(job[r].file)
  /\ seen' = [seen EXCEPT ![r] = disk[job[r].file]]
  /\ GoOn(r, "publish")
  /\ UNCHANGED <<disk, routes, blocked, job, saved, queue, mixed, asked>>

(* the layers that the load of file f with code c takes the place of *)
Previous_Faulty(r) == {b \in Base : b = BaseOf[seen[r]]}   \* found by base path only
Previous(r) ==
  {b \in Base : b = BaseOf[seen[r]] \/ routes[b].file \in {job[r].file, job[r].from}}

Publishes(r) ==
  /\ pc[r] = "publish"
  /\ routes' = [b \in Base |->
       IF b = BaseOf[seen[r]] THEN [file |-> job[r].file, code |-> seen[r]]
       ELSE IF b \in Previous(r) THEN NoLayer
       ELSE routes[b]]
  /\ IF job[r].from # job[r].file
     THEN GoOn(r, "unlink") /\ UNCHANGED <<job, seen, saved, queue>>
     ELSE Ends(r)
  /\ UNCHANGED <<disk, blocked, mixed, asked>>

LoadFails_Faulty(r) ==   \* an import that does not end is waited for
  /\ pc[r] = "load" /\ job[r].file \in blocked
  /\ IF job[r].kind = "load" THEN Ends(r)
     ELSE GoOn(r, "restore") /\ UNCHANGED <<job, seen, saved, queue>>
  /\ UNCHANGED <<disk, routes, blocked, mixed, asked>>

(* The file of an edit cannot be written; a file is blocked, does not load, or
   takes too long.  For create(), `saved` is None: the file is removed. *)
LoadFails(r) ==
  /\ \/ pc[r] = "write" /\ job[r].kind = "edit"
     \/ pc[r] \in {"import", "publish"}
     \/ pc[r] = "load" /\ job[r].file \in blocked
  /\ IF job[r].kind = "load" THEN Ends(r)
     ELSE GoOn(r, "restore") /\ UNCHANGED <<job, seen, saved, queue>>
  /\ UNCHANGED <<disk, routes, blocked, mixed, asked>>

-----------------------------------------------------------------------------
(* The process dies and boots again. *)
Reboot ==
  /\ Busy # {}
  /\ routes' \in BootRoutes
  /\ pc' = [r \in Request |-> "idle"]
  /\ job' = [r \in Request |-> NoJob]
  /\ seen' = [r \in Request |-> None]
  /\ saved' = [r \in Request |-> None]
  /\ queue' = <<>>
  /\ mixed' = FALSE
  /\ UNCHANGED <<disk, blocked, asked>>

Proceeds(r) ==
  \/ EditBegins(r) \/ Writes(r) \/ CreateStops(r) \/ Unlinks(r) \/ Restores(r)
  \/ LoadBegins(r) \/ Publishes(r) \/ LoadFails(r)

Next ==
  \/ \E r \in Request : Proceeds(r) \/ Imports(r)
  \/ \E r \in Request, f, g \in Name, c \in Code : RequestEdit(r, f, g, c)
  \/ \E r \in Request, f \in Name, c \in Code : RequestCreate(r, f, c)
  \/ \E r \in Request, f \in Name : RequestRemove(r, f) \/ RequestLoad(r, f) \/ Unblock(r, f)
  \/ \E f \in Name : Block(f)
  \/ Reboot

(* Files get written and timers fire; an import need not end. *)
Spec == Init /\ [][Next]_vars /\ \A r \in Request : WF_vars(Proceeds(r))
=============================================================================
