--------------------------- MODULE CodeLoadingProofs ---------------------------
(***************************************************************************)
(* The two halves of loading code into the running server, for all values  *)
(* of the constants: what is served and what is on disk (HotReload), and   *)
(* what is constructed and who is given it (Container).                    *)
(*                                                                         *)
(* HotReload.  Files are written before they are known to load, so layers  *)
(* and files differ while a request holds a file; then the layers are of   *)
(* the snapshot it took (Served).  That only one request at a time does so *)
(* is what the queue is for (Queued), and requests outside the queue break *)
(* it: all this holds until one of them runs beside another (Unmixed).     *)
(*                                                                         *)
(* Container.  None of the three properties is inductive.  A commit        *)
(* changes a factory whenever it replaces an instance only because a       *)
(* staged class is new (StagedIsNew), which the numbering of the classes   *)
(* gives (Numbered); and it installs an instance of the code it publishes  *)
(* only because a load keeps no instance of a class it has since replaced  *)
(* (OwnInstance).                                                          *)
(***************************************************************************)
EXTENDS HotReloadProps, ContainerProps, SequenceTheorems, TLAPS

-----------------------------------------------------------------------------
(* Controllers *)

(* What the steps of a request have established. *)
Jobs ==
  \A r \in Request :
    /\ pc[r] \in {"idle", "queued"} \/ job[r].kind = "create" => saved[r] = None
    /\ pc[r] # "idle" => job[r].file \in Name /\ job[r].from \in Name
    /\ pc[r] = "queued" => job[r].kind = "edit"
    /\ pc[r] \in {"queued", "write"} => job[r].code \in Code
    /\ pc[r] \in {"write", "restore"} => job[r].kind \in {"edit", "create"}
    /\ pc[r] \in {"load", "import", "publish"} => job[r].kind \in {"edit", "create", "load"}
    /\ pc[r] = "unlink" => job[r].kind \in {"edit", "remove"}
    /\ pc[r] = "publish" => seen[r] \in Code
    /\ job[r].kind # "edit" => job[r].from = job[r].file

Active(r) == pc[r] \notin {"idle", "queued"}

(* The edits that have arrived are in the queue, each once, and only the first
   has begun. *)
Queued ==
  /\ \A i \in 1..Len(queue) : pc[queue[i]] # "idle" /\ job[queue[i]].kind = "edit"
  /\ \A i, j \in 1..Len(queue) : queue[i] = queue[j] => i = j
  /\ \A i \in 1..Len(queue) : Active(queue[i]) => i = 1
  /\ \A r \in Request : pc[r] # "idle" /\ job[r].kind = "edit" =>
       \E i \in 1..Len(queue) : queue[i] = r

(* A layer is at the base path that its code declares. *)
AtItsBase == \A b \in Base : routes[b] # NoLayer => BaseOf[routes[b].code] = b

(* Only edits run beside each other. *)
Apart ==
  \A q, r \in Busy : q # r => job[q].kind = "edit" /\ job[r].kind = "edit"

(* The requests that have their file on disk changed before it is served. *)
Holds(r) ==
  /\ pc[r] \in {"write", "load", "import", "publish", "restore"}
  /\ job[r].kind \in {"edit", "create"}

(* A layer is of its file, as it is on disk or was before a request that now
   holds it. *)
Served ==
  \A b \in Base : routes[b] # NoLayer =>
    /\ routes[b].file \notin blocked
    /\ \A r \in Request : Holds(r) /\ job[r].file = routes[b].file =>
         routes[b].code = saved[r]
    /\ (\A r \in Request : Holds(r) => job[r].file # routes[b].file) =>
         routes[b].code = disk[routes[b].file]

(* What a request still finds when it goes on. *)
Finds ==
  \A r \in Request :
    /\ pc[r] \in {"import", "publish"} => job[r].file \notin blocked
    /\ pc[r] = "publish" => seen[r] = disk[job[r].file]
    /\ pc[r] = "unlink" => \A b \in Base : routes[b].file # job[r].from

Unmixed == ~mixed => Apart /\ Served /\ Finds

ReloadInv == OneRoutePerFile /\ Jobs /\ Queued /\ AtItsBase /\ Unmixed

-----------------------------------------------------------------------------
(* Layers *)

LEMMA Nothing == None \notin Code /\ None \notin Name
BY NoneIsNothing DEF NoneIsNothing

LEMMA Bases == \A c \in Code : BaseOf[c] \in Base
BY BaseOfType DEF BaseOfType

LEMMA Layers ==
  ASSUME NEW l \in Layer \cup {NoLayer}
  PROVE  /\ l # NoLayer => l.file \in Name /\ l.code \in Code
         /\ l = NoLayer <=> l.file = None
         /\ l = NoLayer <=> l.file \notin Name
BY Nothing DEF Layer, NoLayer

LEMMA RouteTypes ==
  ASSUME TypeOK, NEW b \in Base
  PROVE  /\ routes[b] # NoLayer => routes[b].file \in Name /\ routes[b].code \in Code
         /\ routes[b] = NoLayer <=> routes[b].file = None
         /\ routes[b] = NoLayer <=> routes[b].file \notin Name
BY Layers DEF TypeOK

LEMMA RoutesKept ==
  ASSUME ReloadInv, TypeOK', UNCHANGED routes
  PROVE  OneRoutePerFile' /\ AtItsBase'
BY DEF ReloadInv, OneRoutePerFile, AtItsBase

LEMMA RouteCleared ==
  ASSUME ReloadInv, NEW x \in Base, routes' = [routes EXCEPT ![x] = NoLayer], TypeOK'
  PROVE  /\ OneRoutePerFile' /\ AtItsBase'
         /\ \A b \in Base : routes'[b] # NoLayer => routes'[b] = routes[b] /\ b # x
<1>1. \A b \in Base : routes'[b] = IF b = x THEN NoLayer ELSE routes[b]
  BY DEF ReloadInv, OneRoutePerFile, TypeOK
<1>2. \A b \in Base : routes'[b] # NoLayer => routes'[b] = routes[b] /\ b # x
  BY <1>1
<1>3. OneRoutePerFile'
  <2>1. \A b \in Base : routes'[b].file = IF b = x THEN None ELSE routes[b].file
    BY <1>1, Layers
  <2>2. \A b \in Base : routes[b] # NoLayer => routes[b].file # None
    BY Nothing, RouteTypes DEF ReloadInv, OneRoutePerFile
  <2> QED
    BY <1>2, <2>1, <2>2 DEF ReloadInv, OneRoutePerFile
<1>4. AtItsBase'
  BY <1>2 DEF ReloadInv, AtItsBase
<1> QED
  BY <1>2, <1>3, <1>4

-----------------------------------------------------------------------------
(* The queue *)

LEMMA QueueElements ==
  ASSUME TypeOK
  PROVE  Len(queue) \in Nat /\ \A i \in 1..Len(queue) : queue[i] \in Request
BY DEF TypeOK

(* A request is answered. *)
LEMMA EndsKeeps ==
  ASSUME TypeOK, Jobs, Queued, NEW r \in Request, Active(r), Ends(r)
  PROVE  /\ pc' \in [Request -> {"idle", "queued", "write", "load", "import", "publish",
                                 "unlink", "restore"}]
         /\ job' \in [Request -> [kind : Kind, file : Name \cup {None},
                                  from : Name \cup {None}, code : Code \cup {None}]]
         /\ seen' \in [Request -> Code \cup {None}]
         /\ saved' \in [Request -> Code \cup {None}]
         /\ queue' \in Seq(Request)
         /\ Jobs' /\ Queued'
         /\ pc'[r] = "idle"
         /\ \A q \in Request \ {r} : /\ pc'[q] = pc[q] /\ job'[q] = job[q]
                                     /\ seen'[q] = seen[q] /\ saved'[q] = saved[q]
<1>1. /\ pc' \in [Request -> {"idle", "queued", "write", "load", "import", "publish",
                              "unlink", "restore"}]
      /\ seen' \in [Request -> Code \cup {None}]
      /\ saved' \in [Request -> Code \cup {None}]
  BY DEF TypeOK, Ends
<1>2. job' \in [Request -> [kind : Kind, file : Name \cup {None},
                            from : Name \cup {None}, code : Code \cup {None}]]
  BY DEF TypeOK, Ends, NoJob, Kind
<1>3. /\ pc'[r] = "idle" /\ job'[r] = NoJob /\ seen'[r] = None /\ saved'[r] = None
      /\ \A q \in Request \ {r} : /\ pc'[q] = pc[q] /\ job'[q] = job[q]
                                  /\ seen'[q] = seen[q] /\ saved'[q] = saved[q]
  BY DEF TypeOK, Ends
<1>4. Jobs'
  BY <1>3 DEF Jobs, NoJob
<1>5. Len(queue) \in Nat /\ \A i \in 1..Len(queue) : queue[i] \in Request
  BY QueueElements
<1>6. CASE job[r].kind = "edit"
  <2>1. PICK i \in 1..Len(queue) : queue[i] = r
    BY <1>6 DEF Active, Queued
  <2>2. i = 1 /\ queue # <<>>
    BY <1>5, <2>1 DEF Queued
  <2>3. queue' = Tail(queue)
    BY <1>6 DEF Ends
  <2>4. /\ queue' \in Seq(Request) /\ Len(queue') = Len(queue) - 1
        /\ \A k \in 1..Len(queue') : queue'[k] = queue[k + 1]
    BY <2>2, <2>3, HeadTailProperties DEF TypeOK
  <2>5. \A k \in 1..Len(queue') :
          /\ k + 1 \in 1..Len(queue) /\ k + 1 # 1
          /\ queue'[k] = queue[k + 1] /\ queue'[k] \in Request \ {r}
    BY <1>5, <2>1, <2>2, <2>4 DEF Queued
  <2>6. \A k \in 1..Len(queue') :
          pc'[queue'[k]] # "idle" /\ job'[queue'[k]].kind = "edit" 
          /\ pc'[queue'[k]] = "queued"
    BY <1>3, <2>5 DEF Queued, Active
  <2>7. \A k, m \in 1..Len(queue') : queue'[k] = queue'[m] => k = m
    BY <1>5, <2>4, <2>5 DEF Queued
  <2>8. ASSUME NEW q \in Request, pc'[q] # "idle"
        PROVE  job'[q].kind = "edit" => \E k \in 1..Len(queue') : queue'[k] = q
    <3>1. q # r /\ pc[q] # "idle" /\ job'[q] = job[q]
      BY <1>3, <2>8
    <3> SUFFICES ASSUME job[q].kind = "edit" PROVE \E k \in 1..Len(queue') : queue'[k] = q
      BY <3>1
    <3>2. PICK k \in 1..Len(queue) : queue[k] = q
      BY <3>1 DEF Queued
    <3>3. k # 1
      BY <2>1, <2>2, <3>1, <3>2
    <3>4. k - 1 \in 1..Len(queue') /\ queue'[k - 1] = q
      BY <1>5, <2>4, <3>2, <3>3
    <3> QED
      BY <3>4
  <2>9. Queued'
    BY <2>6, <2>7, <2>8 DEF Queued, Active
  <2> QED
    BY <1>1, <1>2, <1>3, <1>4, <2>4, <2>9
<1>7. CASE job[r].kind # "edit"
  <2>1. queue' = queue
    BY <1>7 DEF Ends
  <2>2. \A i \in 1..Len(queue) : queue[i] \in Request \ {r}
    BY <1>5, <1>7 DEF Queued
  <2>3. Queued'
    BY <1>3, <2>1, <2>2 DEF Queued, Active
  <2> QED
    BY <1>1, <1>2, <1>3, <1>4, <2>1, <2>3 DEF TypeOK
<1> QED
  BY <1>6, <1>7

(* A request goes on, the first of the queue if it was queued. *)
LEMMA QueueGoesOn ==
  ASSUME TypeOK, Queued, NEW r \in Request, NEW p, p \notin {"idle", "queued"},
         Active(r) \/ (pc[r] = "queued" /\ job[r].kind = "edit" /\ Head(queue) = r),
         GoOn(r, p), UNCHANGED <<job, queue>>
  PROVE  /\ Queued' /\ pc'[r] = p /\ pc[r] # "idle"
         /\ \A q \in Request \ {r} : pc'[q] = pc[q]
<1>1. pc'[r] = p /\ pc[r] # "idle" /\ \A q \in Request \ {r} : pc'[q] = pc[q]
  BY DEF TypeOK, GoOn, Active
<1>2. Len(queue) \in Nat /\ \A i \in 1..Len(queue) : queue[i] \in Request
  BY QueueElements
<1>3. \A i \in 1..Len(queue) : queue[i] = r => i = 1
  <2>1. CASE Active(r)
    BY <2>1 DEF Queued
  <2>2. CASE pc[r] = "queued" /\ job[r].kind = "edit" /\ Head(queue) = r
    <3>1. PICK i \in 1..Len(queue) : queue[i] = r
      BY <2>2 DEF Queued
    <3>2. queue[1] = r /\ 1 \in 1..Len(queue)
      BY <1>2, <2>2, <3>1 DEF TypeOK
    <3> QED
      BY <3>2 DEF Queued
  <2> QED
    BY <2>1, <2>2
<1>4. Queued'
  BY <1>1, <1>2, <1>3 DEF Queued, Active
<1> QED
  BY <1>1, <1>4

(* A request that is no edit, or does not start as one, comes or stays. *)
LEMMA QueueStays ==
  ASSUME TypeOK, Queued, NEW r \in Request, pc[r] = "idle", job'[r].kind # "edit",
         UNCHANGED queue,
         \A q \in Request \ {r} : pc'[q] = pc[q] /\ job'[q] = job[q]
  PROVE  Queued'
<1>1. \A i \in 1..Len(queue) : queue[i] \in Request \ {r}
  BY QueueElements DEF Queued
<1> QED
  BY <1>1 DEF Queued, Active

(* An edit arrives. *)
LEMMA QueueGrows ==
  ASSUME TypeOK, Queued, NEW r \in Request, pc[r] = "idle",
         pc'[r] = "queued", job'[r].kind = "edit", queue' = Append(queue, r),
         \A q \in Request \ {r} : pc'[q] = pc[q] /\ job'[q] = job[q]
  PROVE  queue' \in Seq(Request) /\ Queued'
<1>1. Len(queue) \in Nat /\ \A i \in 1..Len(queue) : queue[i] \in Request \ {r}
  BY QueueElements DEF Queued
<1>2. /\ queue' \in Seq(Request) /\ Len(queue') = Len(queue) + 1
      /\ \A i \in 1..Len(queue) : queue'[i] = queue[i]
      /\ queue'[Len(queue) + 1] = r
  BY AppendProperties DEF TypeOK
<1>3. \A i \in 1..Len(queue') : i \in 1..Len(queue) \/ (i = Len(queue) + 1 /\ queue'[i] = r)
  BY <1>1, <1>2
<1>4. ASSUME NEW i \in 1..Len(queue')
      PROVE  /\ pc'[queue'[i]] # "idle" /\ job'[queue'[i]].kind = "edit"
             /\ pc'[queue'[i]] # "queued" => i = 1
  BY <1>1, <1>2, <1>3 DEF Queued, Active
<1>5. \A i, j \in 1..Len(queue') : queue'[i] = queue'[j] => i = j
  BY <1>1, <1>2, <1>3 DEF Queued
<1>6. ASSUME NEW q \in Request, pc'[q] # "idle" /\ job'[q].kind = "edit"
      PROVE  \E i \in 1..Len(queue') : queue'[i] = q
  <2>1. CASE q = r
    BY <1>1, <1>2, <2>1
  <2>2. CASE q # r
    BY <1>1, <1>2, <1>6, <2>2 DEF Queued
  <2> QED
    BY <2>1, <2>2
<1>7. Queued'
  BY <1>4, <1>5, <1>6 DEF Queued, Active
<1> QED
  BY <1>2, <1>7

-----------------------------------------------------------------------------
(* The steps of a request *)

(* Nobody else is at work beside the request that goes on. *)
LEMMA OthersWait ==
  ASSUME ReloadInv, ~mixed, NEW r \in Request,
         Active(r) \/ (pc[r] = "queued" /\ Head(queue) = r)
  PROVE  \A q \in Request \ {r} : ~Active(q) /\ ~Holds(q)
<1> SUFFICES ASSUME NEW q \in Request \ {r}, Active(q) PROVE FALSE
  BY DEF Active, Holds
<1>1. Apart /\ Queued /\ TypeOK
  BY DEF ReloadInv, Unmixed, OneRoutePerFile
<1>2. Len(queue) \in Nat /\ \A i \in 1..Len(queue) : queue[i] \in Request
  BY <1>1, QueueElements
<1>3. /\ pc[q] # "idle" /\ pc[r] # "idle"
      /\ job[q].kind = "edit" /\ job[r].kind = "edit"
  BY <1>1 DEF Apart, Busy, Active
<1>4. PICK i \in 1..Len(queue) : queue[i] = q
  BY <1>1, <1>3 DEF Queued
<1>5. PICK j \in 1..Len(queue) : queue[j] = r
  BY <1>1, <1>3 DEF Queued
<1>6. i = 1 /\ queue[1] = q
  BY <1>1, <1>4 DEF Queued
<1>7. CASE Active(r)
  BY <1>1, <1>5, <1>6, <1>7 DEF Queued
<1>8. CASE Head(queue) = r
  <2>1. Head(queue) = queue[1]
    BY <1>1, <1>2, <1>4 DEF TypeOK
  <2> QED
    BY <1>6, <1>8, <2>1
<1> QED
  BY <1>7, <1>8

(* Who holds a file, once all but one wait. *)
LEMMA LayersBeside ==
  ASSUME ReloadInv, ~mixed, NEW r \in Request, \A q \in Request \ {r} : ~Holds(q),
         NEW b \in Base, routes[b] # NoLayer
  PROVE  /\ routes[b].file \in Name /\ routes[b].code \in Code
         /\ routes[b].file \notin blocked
         /\ Holds(r) /\ job[r].file = routes[b].file => routes[b].code = saved[r]
         /\ ~(Holds(r) /\ job[r].file = routes[b].file) =>
              routes[b].code = disk[routes[b].file]
<1>1. routes[b].file \in Name /\ routes[b].code \in Code
  BY RouteTypes DEF ReloadInv, OneRoutePerFile
<1> QED
  BY <1>1 DEF ReloadInv, Unmixed, Served

(* A request goes on, with its file on disk as it was or written. *)
LEMMA ApartKept ==
  ASSUME ReloadInv, NEW r \in Request, pc[r] # "idle", pc'[r] # "idle",
         UNCHANGED job, \A q \in Request \ {r} : pc'[q] = pc[q]
  PROVE  Apart => Apart'
BY DEF Apart, Busy

LEMMA ApartWithout ==
  ASSUME ReloadInv, NEW r \in Request, pc'[r] = "idle",
         \A q \in Request \ {r} : pc'[q] = pc[q] /\ job'[q] = job[q]
  PROVE  Apart => Apart'
BY DEF Apart, Busy

LEMMA EditBeginsKeeps ==
  ASSUME ReloadInv, NEW r \in Request, EditBegins(r) PROVE ReloadInv'
<1>1. TypeOK /\ Jobs /\ Queued
  BY DEF ReloadInv, OneRoutePerFile
<1>2. /\ pc[r] = "queued" /\ Head(queue) = r /\ GoOn(r, "write")
      /\ saved' = [saved EXCEPT ![r] = disk[job[r].file]]
      /\ UNCHANGED <<disk, routes, blocked, job, seen, queue, mixed, asked>>
  BY DEF EditBegins
<1>3. job[r].file \in Name /\ job[r].kind = "edit"
  BY <1>1, <1>2 DEF Jobs
<1>4. Queued' /\ pc'[r] = "write" /\ \A q \in Request \ {r} : pc'[q] = pc[q]
  BY <1>1, <1>2, <1>3, QueueGoesOn
<1>5. saved'[r] = disk[job[r].file] /\ \A q \in Request \ {r} : saved'[q] = saved[q]
  BY <1>1, <1>2 DEF TypeOK
<1>6. TypeOK'
  BY <1>1, <1>2, <1>3 DEF TypeOK, GoOn
<1>7. Jobs'
  BY <1>1, <1>2, <1>3, <1>4, <1>5 DEF Jobs
<1>8. OneRoutePerFile' /\ AtItsBase'
  BY <1>2, <1>6, RoutesKept
<1>9. Unmixed'
  <2> SUFFICES ASSUME ~mixed PROVE Apart' /\ Served' /\ Finds'
    BY <1>2 DEF Unmixed
  <2>1. Apart'
    BY <1>2, <1>4, ApartKept DEF ReloadInv, Unmixed
  <2>2. \A q \in Request \ {r} : ~Active(q) /\ ~Holds(q)
    BY <1>2, OthersWait
  <2>3. ~Holds(r)
    BY <1>2 DEF Holds
  <2>4. Served'
    BY <1>2, <1>3, <1>4, <1>5, <2>2, <2>3, LayersBeside DEF Served, Holds
  <2>5. Finds'
    BY <1>2, <1>4, <2>2 DEF Finds, Active
  <2> QED
    BY <2>1, <2>4, <2>5
<1> QED
  BY <1>4, <1>7, <1>8, <1>9 DEF ReloadInv

LEMMA WritesKeeps ==
  ASSUME ReloadInv, NEW r \in Request, Writes(r) PROVE ReloadInv'
<1>1. TypeOK /\ Jobs /\ Queued
  BY DEF ReloadInv, OneRoutePerFile
<1>2. /\ pc[r] = "write" /\ GoOn(r, "load") /\ Active(r)
      /\ disk' = [disk EXCEPT ![job[r].file] = job[r].code]
      /\ UNCHANGED <<routes, blocked, job, seen, saved, queue, mixed, asked>>
  BY DEF Writes, Active
<1>3. job[r].file \in Name /\ job[r].kind \in {"edit", "create"} /\ job[r].code \in Code
  BY <1>1, <1>2 DEF Jobs
<1>4. Queued' /\ pc'[r] = "load" /\ \A q \in Request \ {r} : pc'[q] = pc[q]
  BY <1>1, <1>2, QueueGoesOn
<1>5. \A f \in Name : f # job[r].file => disk'[f] = disk[f]
  BY <1>1, <1>2 DEF TypeOK
<1>6. TypeOK'
  BY <1>1, <1>2, <1>3 DEF TypeOK, GoOn
<1>7. Jobs'
  BY <1>1, <1>2, <1>3, <1>4 DEF Jobs
<1>8. OneRoutePerFile' /\ AtItsBase'
  BY <1>2, <1>6, RoutesKept
<1>9. Unmixed'
  <2> SUFFICES ASSUME ~mixed PROVE Apart' /\ Served' /\ Finds'
    BY <1>2 DEF Unmixed
  <2>1. Apart'
    BY <1>2, <1>4, ApartKept DEF ReloadInv, Unmixed
  <2>2. \A q \in Request \ {r} : ~Active(q) /\ ~Holds(q)
    BY <1>2, OthersWait
  <2>3. Holds(r)
    BY <1>2, <1>3 DEF Holds
  <2>4. Served'
    BY <1>2, <1>3, <1>4, <1>5, <2>2, <2>3, LayersBeside DEF Served, Holds
  <2>5. Finds'
    BY <1>2, <1>4, <2>2 DEF Finds, Active
  <2> QED
    BY <2>1, <2>4, <2>5
<1> QED
  BY <1>4, <1>7, <1>8, <1>9 DEF ReloadInv

LEMMA LoadBeginsKeeps ==
  ASSUME ReloadInv, NEW r \in Request, LoadBegins(r) PROVE ReloadInv'
<1>1. TypeOK /\ Jobs /\ Queued
  BY DEF ReloadInv, OneRoutePerFile
<1>2. /\ pc[r] = "load" /\ GoOn(r, "import") /\ Active(r) /\ job[r].file \notin blocked
      /\ UNCHANGED <<disk, routes, blocked, job, seen, saved, queue, mixed, asked>>
  BY DEF LoadBegins, Active
<1>3. job[r].file \in Name /\ job[r].kind \in {"edit", "create", "load"}
  BY <1>1, <1>2 DEF Jobs
<1>4. Queued' /\ pc'[r] = "import" /\ \A q \in Request \ {r} : pc'[q] = pc[q]
  BY <1>1, <1>2, QueueGoesOn
<1>5. TypeOK'
  BY <1>1, <1>2 DEF TypeOK, GoOn
<1>6. Jobs'
  BY <1>1, <1>2, <1>3, <1>4 DEF Jobs
<1>7. OneRoutePerFile' /\ AtItsBase'
  BY <1>2, <1>5, RoutesKept
<1>8. Unmixed'
  <2> SUFFICES ASSUME ~mixed PROVE Apart' /\ Served' /\ Finds'
    BY <1>2 DEF Unmixed
  <2>1. Apart'
    BY <1>2, <1>4, ApartKept DEF ReloadInv, Unmixed
  <2>2. \A q \in Request \ {r} : ~Active(q) /\ ~Holds(q)
    BY <1>2, OthersWait
  <2>3. Served'
    BY <1>2, <1>4, <2>2, LayersBeside DEF Served, Holds
  <2>4. Finds'
    BY <1>2, <1>4, <2>2 DEF Finds, Active
  <2> QED
    BY <2>1, <2>3, <2>4
<1> QED
  BY <1>4, <1>6, <1>7, <1>8 DEF ReloadInv

LEMMA ImportsKeeps ==
  ASSUME ReloadInv, NEW r \in Request, Imports(r) PROVE ReloadInv'
<1>1. TypeOK /\ Jobs /\ Queued
  BY DEF ReloadInv, OneRoutePerFile
<1>2. /\ pc[r] = "import" /\ GoOn(r, "publish") /\ Active(r)
      /\ disk[job[r].file] # None
      /\ seen' = [seen EXCEPT ![r] = disk[job[r].file]]
      /\ UNCHANGED <<disk, routes, blocked, job, saved, queue, mixed, asked>>
  BY DEF Imports, Active, Absent
<1>3. job[r].file \in Name /\ job[r].kind \in {"edit", "create", "load"}
  BY <1>1, <1>2 DEF Jobs
<1>4. Queued' /\ pc'[r] = "publish" /\ \A q \in Request \ {r} : pc'[q] = pc[q]
  BY <1>1, <1>2, QueueGoesOn
<1>5. /\ seen'[r] = disk[job[r].file] /\ seen'[r] \in Code
      /\ \A q \in Request \ {r} : seen'[q] = seen[q]
  BY <1>1, <1>2, <1>3 DEF TypeOK
<1>6. TypeOK'
  BY <1>1, <1>2, <1>3 DEF TypeOK, GoOn
<1>7. Jobs'
  BY <1>1, <1>2, <1>3, <1>4, <1>5 DEF Jobs
<1>8. OneRoutePerFile' /\ AtItsBase'
  BY <1>2, <1>6, RoutesKept
<1>9. Unmixed'
  <2> SUFFICES ASSUME ~mixed PROVE Apart' /\ Served' /\ Finds'
    BY <1>2 DEF Unmixed
  <2>1. Apart'
    BY <1>2, <1>4, ApartKept DEF ReloadInv, Unmixed
  <2>2. \A q \in Request \ {r} : ~Active(q) /\ ~Holds(q)
    BY <1>2, OthersWait
  <2>3. Served'
    BY <1>2, <1>4, <2>2, LayersBeside DEF Served, Holds
  <2>4. job[r].file \notin blocked
    BY <1>2 DEF ReloadInv, Unmixed, Finds
  <2>5. Finds'
    BY <1>2, <1>4, <1>5, <2>2, <2>4 DEF Finds, Active
  <2> QED
    BY <2>1, <2>3, <2>5
<1> QED
  BY <1>4, <1>7, <1>8, <1>9 DEF ReloadInv

(* A request of which no other holds a file ends: what is served agrees with
   the disk it leaves. *)
LEMMA AnsweredKeeps ==
  ASSUME ReloadInv, NEW r \in Request, Active(r), Ends(r),
         disk' \in [Name -> Code \cup {None}],
         UNCHANGED <<routes, blocked, mixed, asked>>,
         ~mixed => \A b \in Base : routes[b] # NoLayer =>
                     routes[b].file \notin blocked /\ routes[b].code = disk'[routes[b].file]
  PROVE  ReloadInv'
<1>1. TypeOK /\ Jobs /\ Queued
  BY DEF ReloadInv, OneRoutePerFile
<1>2. /\ Jobs' /\ Queued' /\ pc'[r] = "idle"
      /\ \A q \in Request \ {r} : /\ pc'[q] = pc[q] /\ job'[q] = job[q]
                                  /\ seen'[q] = seen[q] /\ saved'[q] = saved[q]
  BY <1>1, EndsKeeps
<1>3. TypeOK'
  BY <1>1, EndsKeeps DEF TypeOK
<1>4. OneRoutePerFile' /\ AtItsBase'
  BY <1>3, RoutesKept
<1>5. Unmixed'
  <2> SUFFICES ASSUME ~mixed PROVE Apart' /\ Served' /\ Finds'
    BY DEF Unmixed
  <2>1. Apart'
    BY <1>2, ApartWithout DEF ReloadInv, Unmixed
  <2>2. \A q \in Request \ {r} : ~Active(q)
    BY OthersWait
  <2>3. \A q \in Request : pc'[q] \in {"idle", "queued"}
    BY <1>2, <2>2 DEF Active
  <2>4. Served' /\ Finds'
    BY <2>3 DEF Served, Holds, Finds
  <2> QED
    BY <2>1, <2>4
<1> QED
  BY <1>2, <1>4, <1>5 DEF ReloadInv

LEMMA CreateStopsKeeps ==
  ASSUME ReloadInv, NEW r \in Request, CreateStops(r) PROVE ReloadInv'
<1>1. TypeOK /\ Jobs
  BY DEF ReloadInv, OneRoutePerFile
<1>2. /\ pc[r] = "write" /\ job[r].kind = "create" /\ Active(r) /\ Holds(r) /\ Ends(r)
      /\ disk' \in {disk, [disk EXCEPT ![job[r].file] = job[r].code]}
      /\ UNCHANGED <<routes, blocked, mixed, asked>>
  BY DEF CreateStops, Active, Holds
<1>3. job[r].file \in Name /\ job[r].code \in Code /\ saved[r] = None
  BY <1>1, <1>2 DEF Jobs
<1>4. disk' \in [Name -> Code \cup {None}]
  BY <1>1, <1>2, <1>3 DEF TypeOK
<1>5. ASSUME ~mixed, NEW b \in Base, routes[b] # NoLayer
      PROVE  routes[b].file \notin blocked /\ routes[b].code = disk'[routes[b].file]
  <2>1. \A q \in Request \ {r} : ~Holds(q)
    BY <1>2, <1>5, OthersWait
  <2>2. /\ routes[b].file \in Name /\ routes[b].code \in Code
        /\ routes[b].file \notin blocked
        /\ job[r].file = routes[b].file => routes[b].code = saved[r]
        /\ job[r].file # routes[b].file => routes[b].code = disk[routes[b].file]
    BY <1>2, <1>5, <2>1, LayersBeside
  <2>3. job[r].file # routes[b].file
    BY <1>3, <2>2, Nothing
  <2> QED
    BY <1>1, <1>2, <2>2, <2>3 DEF TypeOK
<1> QED
  BY <1>2, <1>4, <1>5, AnsweredKeeps

LEMMA RestoresKeeps ==
  ASSUME ReloadInv, NEW r \in Request, Restores(r) PROVE ReloadInv'
<1>1. TypeOK /\ Jobs
  BY DEF ReloadInv, OneRoutePerFile
<1>2. /\ pc[r] = "restore" /\ Active(r) /\ Ends(r)
      /\ disk' = [disk EXCEPT ![job[r].file] = saved[r]]
      /\ UNCHANGED <<routes, blocked, mixed, asked>>
  BY DEF Restores, Active
<1>3. job[r].file \in Name /\ job[r].kind \in {"edit", "create"} /\ Holds(r)
  BY <1>1, <1>2 DEF Jobs, Holds
<1>4. /\ disk' \in [Name -> Code \cup {None}]
      /\ \A f \in Name : disk'[f] = IF f = job[r].file THEN saved[r] ELSE disk[f]
  BY <1>1, <1>2, <1>3 DEF TypeOK
<1>5. ASSUME ~mixed, NEW b \in Base, routes[b] # NoLayer
      PROVE  routes[b].file \notin blocked /\ routes[b].code = disk'[routes[b].file]
  <2>1. \A q \in Request \ {r} : ~Holds(q)
    BY <1>2, <1>5, OthersWait
  <2> QED
    BY <1>3, <1>4, <1>5, <2>1, LayersBeside
<1> QED
  BY <1>2, <1>4, <1>5, AnsweredKeeps

LEMMA UnlinksKeeps ==
  ASSUME ReloadInv, NEW r \in Request, Unlinks(r) PROVE ReloadInv'
<1>1. TypeOK /\ Jobs
  BY DEF ReloadInv, OneRoutePerFile
<1>2. /\ pc[r] = "unlink" /\ Active(r) /\ ~Holds(r) /\ Ends(r)
      /\ disk' \in {disk, [disk EXCEPT ![job[r].from] = None]}
      /\ UNCHANGED <<routes, blocked, mixed, asked>>
  BY DEF Unlinks, Active, Holds
<1>3. job[r].from \in Name
  BY <1>1, <1>2 DEF Jobs
<1>4. /\ disk' \in [Name -> Code \cup {None}]
      /\ \A f \in Name : f # job[r].from => disk'[f] = disk[f]
  BY <1>1, <1>2, <1>3 DEF TypeOK
<1>5. ASSUME ~mixed, NEW b \in Base, routes[b] # NoLayer
      PROVE  routes[b].file \notin blocked /\ routes[b].code = disk'[routes[b].file]
  <2>1. \A q \in Request \ {r} : ~Holds(q)
    BY <1>2, <1>5, OthersWait
  <2>2. routes[b].file # job[r].from
    BY <1>2, <1>5 DEF ReloadInv, Unmixed, Finds
  <2> QED
    BY <1>2, <1>4, <1>5, <2>1, <2>2, LayersBeside
<1> QED
  BY <1>2, <1>4, <1>5, AnsweredKeeps

LEMMA LoadFailsKeeps ==
  ASSUME ReloadInv, NEW r \in Request, LoadFails(r) PROVE ReloadInv'
<1>1. TypeOK /\ Jobs /\ Queued
  BY DEF ReloadInv, OneRoutePerFile
<1>2. /\ pc[r] \in {"write", "load", "import", "publish"} /\ Active(r)
      /\ UNCHANGED <<disk, routes, blocked, mixed, asked>>
      /\ job[r].kind \in {"edit", "create", "load"}
  BY <1>1 DEF LoadFails, Active, Jobs
<1>3. CASE job[r].kind = "load"
  <2>1. Ends(r) /\ ~Holds(r)
    BY <1>3 DEF LoadFails, Holds
  <2>2. ASSUME ~mixed, NEW b \in Base, routes[b] # NoLayer
        PROVE  routes[b].file \notin blocked /\ routes[b].code = disk'[routes[b].file]
    <3>1. \A q \in Request \ {r} : ~Holds(q)
      BY <1>2, <2>2, OthersWait
    <3> QED
      BY <1>2, <2>1, <2>2, <3>1, LayersBeside
  <2>3. disk' \in [Name -> Code \cup {None}]
    BY <1>1, <1>2 DEF TypeOK
  <2> QED
    BY <1>2, <2>1, <2>2, <2>3, AnsweredKeeps
<1>4. CASE job[r].kind # "load"
  <2>1. GoOn(r, "restore") /\ UNCHANGED <<job, seen, saved, queue>>
    BY <1>4 DEF LoadFails
  <2>2. job[r].kind \in {"edit", "create"}
    BY <1>2, <1>4
  <2>3. Queued' /\ pc'[r] = "restore" /\ \A q \in Request \ {r} : pc'[q] = pc[q]
    BY <1>1, <1>2, <2>1, QueueGoesOn
  <2>4. TypeOK'
    BY <1>1, <1>2, <2>1 DEF TypeOK, GoOn
  <2>5. Jobs'
    BY <1>1, <1>2, <2>1, <2>2, <2>3 DEF Jobs
  <2>6. OneRoutePerFile' /\ AtItsBase'
    BY <1>2, <2>4, RoutesKept
  <2>7. Unmixed'
    <3> SUFFICES ASSUME ~mixed PROVE Apart' /\ Served' /\ Finds'
      BY <1>2 DEF Unmixed
    <3>1. Apart'
      BY <1>2, <2>1, <2>3, ApartKept DEF ReloadInv, Unmixed, Active
    <3>2. \A q \in Request \ {r} : ~Active(q) /\ ~Holds(q)
      BY <1>2, OthersWait
    <3>3. Served'
      BY <1>2, <2>1, <2>2, <2>3, <3>2, LayersBeside DEF Served, Holds
    <3>4. Finds'
      BY <2>3, <3>2 DEF Finds, Active
    <3> QED
      BY <3>1, <3>3, <3>4
  <2> QED
    BY <2>3, <2>5, <2>6, <2>7 DEF ReloadInv
<1> QED
  BY <1>3, <1>4

(* The layer that a load puts in the place of those of its file, and of the
   file it replaces. *)
LEMMA PublishedLayers ==
  ASSUME ReloadInv, NEW r \in Request, Publishes(r)
  PROVE  /\ routes' \in [Base -> Layer \cup {NoLayer}]
         /\ BaseOf[seen[r]] \in Base /\ job[r].file \in Name /\ job[r].from \in Name
         /\ routes'[BaseOf[seen[r]]] = [file |-> job[r].file, code |-> seen[r]]
         /\ \A b \in Base : b # BaseOf[seen[r]] /\ routes'[b] # NoLayer =>
              routes'[b] = routes[b] /\ routes[b].file \notin {job[r].file, job[r].from}
<1>1. TypeOK /\ Jobs
  BY DEF ReloadInv, OneRoutePerFile
<1>2. seen[r] \in Code /\ job[r].file \in Name /\ job[r].from \in Name
  BY <1>1 DEF Publishes, Jobs
<1>3. BaseOf[seen[r]] \in Base
  BY <1>2, Bases
<1>4. [file |-> job[r].file, code |-> seen[r]] \in Layer
  BY <1>2 DEF Layer
<1>5. routes' = [b \in Base |->
        IF b = BaseOf[seen[r]] THEN [file |-> job[r].file, code |-> seen[r]]
        ELSE IF routes[b].file \in {job[r].file, job[r].from} THEN NoLayer
        ELSE routes[b]]
  BY DEF Publishes, Previous
<1>6. routes' \in [Base -> Layer \cup {NoLayer}]
  BY <1>1, <1>4, <1>5 DEF TypeOK
<1> QED
  BY <1>2, <1>3, <1>5, <1>6

LEMMA PublishesKeeps ==
  ASSUME ReloadInv, NEW r \in Request, Publishes(r) PROVE ReloadInv'
<1> DEFINE home == BaseOf[seen[r]]
<1>1. TypeOK /\ Jobs /\ Queued
  BY DEF ReloadInv, OneRoutePerFile
<1>2. /\ pc[r] = "publish" /\ Active(r) /\ UNCHANGED <<disk, blocked, mixed, asked>>
      /\ \/ job[r].from # job[r].file /\ GoOn(r, "unlink")
            /\ UNCHANGED <<job, seen, saved, queue>>
         \/ job[r].from = job[r].file /\ Ends(r)
  BY DEF Publishes, Active
<1>3. /\ routes' \in [Base -> Layer \cup {NoLayer}]
      /\ home \in Base /\ job[r].file \in Name /\ job[r].from \in Name
      /\ routes'[home] = [file |-> job[r].file, code |-> seen[r]]
      /\ \A b \in Base : b # home /\ routes'[b] # NoLayer =>
           routes'[b] = routes[b] /\ routes[b].file \notin {job[r].file, job[r].from}
  BY PublishedLayers
<1> HIDE DEF home
<1>4. OneRoutePerFile' /\ AtItsBase' /\ TypeOK'
  <2>1. \A b \in Base : routes'[b] # NoLayer <=> routes'[b].file \in Name
    BY <1>3, Layers
  <2>2. [file |-> job[r].file, code |-> seen[r]].file = job[r].file
    OBVIOUS
  <2>3. ASSUME NEW a \in Base, NEW b \in Base,
               routes'[a] # NoLayer, routes'[a].file = routes'[b].file
        PROVE  a = b
    <3>1. routes'[b] # NoLayer
      BY <2>1, <2>3
    <3>2. CASE a # home /\ b # home
      BY <1>3, <2>3, <3>1, <3>2 DEF ReloadInv, OneRoutePerFile
    <3>3. CASE a = home /\ b # home
      BY <1>3, <2>2, <2>3, <3>1, <3>3
    <3>4. CASE a # home /\ b = home
      BY <1>3, <2>2, <2>3, <3>4
    <3> QED
      BY <3>2, <3>3, <3>4
  <2>4. AtItsBase'
    BY <1>3 DEF ReloadInv, AtItsBase, home
  <2>5. TypeOK'
    <3>1. CASE GoOn(r, "unlink") /\ UNCHANGED <<job, seen, saved, queue>>
      BY <1>1, <1>2, <1>3, <3>1 DEF TypeOK, GoOn
    <3>2. CASE Ends(r)
      BY <1>1, <1>2, <1>3, <3>2, EndsKeeps DEF TypeOK
    <3> QED
      BY <1>2, <3>1, <3>2
  <2> QED
    BY <2>3, <2>4, <2>5 DEF OneRoutePerFile
<1>5. /\ Jobs' /\ Queued'
      /\ \/ pc'[r] = "idle"
         \/ pc'[r] = "unlink" /\ UNCHANGED job
      /\ \A q \in Request \ {r} : pc'[q] = pc[q] /\ job'[q] = job[q]
  <2>1. CASE job[r].from # job[r].file /\ GoOn(r, "unlink") /\ UNCHANGED <<job, seen, saved, queue>>
    <3>1. Queued' /\ pc'[r] = "unlink" /\ \A q \in Request \ {r} : pc'[q] = pc[q]
      BY <1>1, <1>2, <2>1, QueueGoesOn
    <3>2. job[r].kind = "edit"
      BY <1>1, <2>1 DEF Jobs
    <3>3. Jobs'
      BY <1>1, <1>2, <2>1, <3>1, <3>2 DEF Jobs
    <3> QED
      BY <2>1, <3>1, <3>3
  <2>2. CASE Ends(r)
    BY <1>1, <1>2, <2>2, EndsKeeps
  <2> QED
    BY <1>2, <2>1, <2>2
<1>6. Unmixed'
  <2> SUFFICES ASSUME ~mixed PROVE Apart' /\ Served' /\ Finds'
    BY <1>2 DEF Unmixed
  <2>1. Apart'
    <3>1. CASE pc'[r] = "idle"
      BY <1>5, <3>1, ApartWithout DEF ReloadInv, Unmixed
    <3>2. CASE pc'[r] = "unlink" /\ UNCHANGED job
      BY <1>2, <1>5, <3>2, ApartKept DEF ReloadInv, Unmixed
    <3> QED
      BY <1>5, <3>1, <3>2
  <2>2. \A q \in Request \ {r} : ~Active(q) /\ ~Holds(q)
    BY <1>2, OthersWait
  <2>3. \A q \in Request : pc'[q] \in {"idle", "queued"} \/ (q = r /\ pc'[q] = "unlink")
    BY <1>5, <2>2 DEF Active
  <2>4. \A q \in Request : ~Holds(q)'
    BY <2>3 DEF Holds
  <2>5. ASSUME NEW b \in Base, routes'[b] # NoLayer
        PROVE  /\ routes'[b].file \notin blocked
               /\ routes'[b].code = disk[routes'[b].file]
    <3>1. CASE b = home
      BY <1>2, <1>3, <3>1 DEF ReloadInv, Unmixed, Finds
    <3>2. CASE b # home
      <4>1. /\ routes'[b] = routes[b] /\ routes[b] # NoLayer
            /\ routes[b].file # job[r].file
        BY <1>3, <2>5, <3>2
      <4> QED
        BY <2>2, <4>1, LayersBeside
    <3> QED
      BY <3>1, <3>2
  <2>6. Served'
    BY <1>2, <2>4, <2>5 DEF Served
  <2>7. Finds'
    <3>1. CASE pc'[r] = "idle"
      BY <2>3, <3>1 DEF Finds
    <3>2. CASE pc'[r] = "unlink" /\ UNCHANGED job
      <4>1. job[r].from # job[r].file
        BY <1>1, <1>2, <3>2, EndsKeeps
      <4>2. \A b \in Base : routes'[b].file # job[r].from
        <5>1. ASSUME NEW b \in Base, routes'[b].file = job[r].from PROVE FALSE
          <6>1. routes'[b] # NoLayer
            BY <1>3, <5>1, Layers
          <6>2. CASE b = home
            BY <1>3, <4>1, <5>1, <6>2
          <6>3. CASE b # home
            BY <1>3, <5>1, <6>1, <6>3
          <6> QED
            BY <6>2, <6>3
        <5> QED
          BY <5>1
      <4> QED
        BY <2>3, <3>2, <4>2 DEF Finds
    <3> QED
      BY <1>5, <3>1, <3>2
  <2> QED
    BY <2>1, <2>6, <2>7
<1> QED
  BY <1>4, <1>5, <1>6 DEF ReloadInv

-----------------------------------------------------------------------------
(* Requests arrive *)

(* With nobody at work the layers are those of the disk. *)
LEMMA QuietLayers ==
  ASSUME ReloadInv, ~mixed, Busy = {}, NEW b \in Base, routes[b] # NoLayer
  PROVE  /\ routes[b].file \in Name /\ routes[b].code \in Code
         /\ routes[b].file \notin blocked
         /\ routes[b].code = disk[routes[b].file]
<1>1. \A q \in Request : ~Holds(q)
  BY DEF Busy, Holds
<1> QED
  BY <1>1, RouteTypes DEF ReloadInv, OneRoutePerFile, Unmixed, Served

LEMMA ArrivesTypes ==
  ASSUME TypeOK, NEW r \in Request, NEW p \in {"queued", "write", "load"}, NEW j,
         j \in [kind : Kind, file : Name \cup {None}, from : Name \cup {None},
                code : Code \cup {None}],
         Arrives(r, p, j), queue' \in Seq(Request)
  PROVE  /\ TypeOK' /\ pc[r] = "idle" /\ pc'[r] = p /\ job'[r] = j
         /\ UNCHANGED <<disk, routes, blocked, seen, saved>>
         /\ \A q \in Request \ {r} : pc'[q] = pc[q] /\ job'[q] = job[q]
         /\ ~mixed' => ~mixed /\ \A q \in Busy : j.kind = "edit" /\ job[q].kind = "edit"
<1>1. /\ pc[r] = "idle" /\ pc' = [pc EXCEPT ![r] = p] /\ job' = [job EXCEPT ![r] = j]
      /\ asked' \in 0..MaxRequests
      /\ UNCHANGED <<disk, routes, blocked, seen, saved>>
  BY MaxRequestsType DEF TypeOK, Arrives, Free, Asked, MaxRequestsType
<1>2. mixed' \in BOOLEAN
  BY DEF Arrives
<1>3. ~mixed' => ~mixed /\ \A q \in Busy : j.kind = "edit" /\ job[q].kind = "edit"
  BY DEF Arrives
<1>4. TypeOK'
  BY <1>1, <1>2 DEF TypeOK
<1> QED
  BY <1>1, <1>3, <1>4 DEF TypeOK

LEMMA RequestEditKeeps ==
  ASSUME ReloadInv, NEW r \in Request, NEW f \in Name, NEW g \in Name, NEW c \in Code,
         RequestEdit(r, f, g, c)
  PROVE  ReloadInv'
<1> DEFINE j == [kind |-> "edit", file |-> g, from |-> f, code |-> c]
<1>1. TypeOK /\ Jobs /\ Queued
  BY DEF ReloadInv, OneRoutePerFile
<1>2. Arrives(r, "queued", j) /\ queue' = Append(queue, r)
  BY DEF RequestEdit
<1>3. /\ j \in [kind : Kind, file : Name \cup {None}, from : Name \cup {None},
                code : Code \cup {None}]
      /\ j.kind = "edit" /\ j.file = g /\ j.from = f /\ j.code = c
  BY DEF Kind
<1>4. queue' \in Seq(Request)
  BY <1>1, <1>2, AppendProperties DEF TypeOK
<1> HIDE DEF j
<1>5. /\ TypeOK' /\ pc[r] = "idle" /\ pc'[r] = "queued" /\ job'[r] = j
      /\ UNCHANGED <<disk, routes, blocked, seen, saved>>
      /\ \A q \in Request \ {r} : pc'[q] = pc[q] /\ job'[q] = job[q]
      /\ ~mixed' => ~mixed /\ \A q \in Busy : j.kind = "edit" /\ job[q].kind = "edit"
  BY <1>1, <1>2, <1>3, <1>4, ArrivesTypes
<1>6. Queued'
  BY <1>1, <1>2, <1>3, <1>5, QueueGrows
<1>7. Jobs'
  BY <1>1, <1>3, <1>5 DEF Jobs
<1>8. OneRoutePerFile' /\ AtItsBase'
  BY <1>5, RoutesKept
<1>9. Unmixed'
  <2> SUFFICES ASSUME ~mixed' PROVE Apart' /\ Served' /\ Finds'
    BY DEF Unmixed
  <2>1. Apart /\ Served /\ Finds
    BY <1>5 DEF ReloadInv, Unmixed
  <2>2. Apart'
    BY <1>3, <1>5, <2>1 DEF Apart, Busy
  <2>3. \A q \in Request : Holds(q)' => Holds(q) /\ job'[q] = job[q]
    BY <1>5 DEF Holds
  <2>4. \A q \in Request : Holds(q) => Holds(q)'
    BY <1>5 DEF Holds
  <2>5. Served'
    BY <1>5, <2>1, <2>3, <2>4 DEF Served
  <2>6. Finds'
    BY <1>5, <2>1 DEF Finds
  <2> QED
    BY <2>2, <2>5, <2>6
<1> QED
  BY <1>6, <1>7, <1>8, <1>9 DEF ReloadInv

LEMMA RequestCreateKeeps ==
  ASSUME ReloadInv, NEW r \in Request, NEW f \in Name, NEW c \in Code,
         RequestCreate(r, f, c)
  PROVE  ReloadInv'
<1> DEFINE j == [kind |-> "create", file |-> f, from |-> f, code |-> c]
<1>1. TypeOK /\ Jobs /\ Queued
  BY DEF ReloadInv, OneRoutePerFile
<1>2. Arrives(r, "write", j) /\ UNCHANGED queue /\ disk[f] = None
  BY DEF RequestCreate, Absent
<1>3. /\ j \in [kind : Kind, file : Name \cup {None}, from : Name \cup {None},
                code : Code \cup {None}]
      /\ j.kind = "create" /\ j.file = f /\ j.from = f /\ j.code = c
  BY DEF Kind
<1> HIDE DEF j
<1>4. /\ TypeOK' /\ pc[r] = "idle" /\ pc'[r] = "write" /\ job'[r] = j
      /\ UNCHANGED <<disk, routes, blocked, seen, saved>>
      /\ \A q \in Request \ {r} : pc'[q] = pc[q] /\ job'[q] = job[q]
      /\ ~mixed' => ~mixed /\ \A q \in Busy : j.kind = "edit" /\ job[q].kind = "edit"
  BY <1>1, <1>2, <1>3, ArrivesTypes DEF TypeOK
<1>5. Queued'
  BY <1>1, <1>2, <1>3, <1>4, QueueStays
<1>6. saved[r] = None
  BY <1>1, <1>4 DEF Jobs
<1>7. Jobs'
  BY <1>1, <1>3, <1>4, <1>6 DEF Jobs
<1>8. OneRoutePerFile' /\ AtItsBase'
  BY <1>4, RoutesKept
<1>9. Unmixed'
  <2> SUFFICES ASSUME ~mixed' PROVE Apart' /\ Served' /\ Finds'
    BY DEF Unmixed
  <2>1. ~mixed /\ Busy = {}
    BY <1>3, <1>4
  <2>2. \A q \in Request \ {r} : pc'[q] = "idle"
    BY <1>4, <2>1 DEF Busy
  <2>3. Apart' /\ Finds'
    BY <1>4, <2>2 DEF Apart, Busy, Finds
  <2>4. ASSUME NEW b \in Base, routes[b] # NoLayer
        PROVE  /\ routes[b].file \notin blocked
               /\ routes[b].code = disk[routes[b].file]
               /\ routes[b].file # f
    BY <1>2, <2>1, <2>4, QuietLayers, Nothing
  <2>5. Served'
    BY <1>3, <1>4, <2>2, <2>4 DEF Served, Holds
  <2> QED
    BY <2>3, <2>5
<1> QED
  BY <1>5, <1>7, <1>8, <1>9 DEF ReloadInv

(* A load, or the one that an unblock starts: it holds nothing. *)
LEMMA LoadArrives ==
  ASSUME ReloadInv, NEW r \in Request, NEW f \in Name, TypeOK',
         pc[r] = "idle", pc'[r] = "load",
         job'[r] = [kind |-> "load", file |-> f, from |-> f, code |-> None],
         \A q \in Request \ {r} : pc'[q] = pc[q] /\ job'[q] = job[q],
         UNCHANGED <<disk, routes, seen, saved, queue>>, blocked' \subseteq blocked,
         ~mixed' => ~mixed /\ Busy = {}
  PROVE  ReloadInv'
<1>1. TypeOK /\ Jobs /\ Queued
  BY DEF ReloadInv, OneRoutePerFile
<1>2. job'[r].kind = "load" /\ job'[r].file = f /\ job'[r].from = f
  OBVIOUS
<1>3. Queued'
  BY <1>1, <1>2, QueueStays
<1>4. Jobs'
  BY <1>1, <1>2 DEF Jobs
<1>5. OneRoutePerFile' /\ AtItsBase'
  BY RoutesKept
<1>6. Unmixed'
  <2> SUFFICES ASSUME ~mixed' PROVE Apart' /\ Served' /\ Finds'
    BY DEF Unmixed
  <2>1. \A q \in Request \ {r} : pc'[q] = "idle"
    BY DEF Busy
  <2>2. Apart' /\ Finds'
    BY <2>1 DEF Apart, Busy, Finds
  <2>3. Served'
    BY <1>2, <2>1, QuietLayers DEF Served, Holds
  <2> QED
    BY <2>2, <2>3
<1> QED
  BY <1>3, <1>4, <1>5, <1>6 DEF ReloadInv

LEMMA RequestLoadKeeps ==
  ASSUME ReloadInv, NEW r \in Request, NEW f \in Name, RequestLoad(r, f) PROVE ReloadInv'
<1> DEFINE j == [kind |-> "load", file |-> f, from |-> f, code |-> None]
<1>1. TypeOK
  BY DEF ReloadInv, OneRoutePerFile
<1>2. Arrives(r, "load", j) /\ UNCHANGED queue
  BY DEF RequestLoad
<1>3. /\ j \in [kind : Kind, file : Name \cup {None}, from : Name \cup {None},
                code : Code \cup {None}]
      /\ j.kind = "load"
  BY DEF Kind
<1>4. /\ TypeOK' /\ pc[r] = "idle" /\ pc'[r] = "load" /\ job'[r] = j
      /\ UNCHANGED <<disk, routes, blocked, seen, saved>>
      /\ \A q \in Request \ {r} : pc'[q] = pc[q] /\ job'[q] = job[q]
      /\ ~mixed' => ~mixed /\ \A q \in Busy : j.kind = "edit" /\ job[q].kind = "edit"
  <2> HIDE DEF j
  <2> QED
    BY <1>1, <1>2, <1>3, ArrivesTypes DEF TypeOK
<1>5. ~mixed' => ~mixed /\ Busy = {}
  BY <1>3, <1>4
<1> QED
  BY <1>2, <1>4, <1>5, LoadArrives

LEMMA UnblockKeeps ==
  ASSUME ReloadInv, NEW r \in Request, NEW f \in Name, Unblock(r, f) PROVE ReloadInv'
<1>1. TypeOK /\ Jobs /\ Queued
  BY DEF ReloadInv, OneRoutePerFile
<1>2. /\ pc[r] = "idle" /\ blocked' = blocked \ {f} /\ asked' \in 0..MaxRequests
      /\ mixed' \in BOOLEAN
      /\ UNCHANGED <<disk, routes, seen, saved, queue>>
  BY <1>1, MaxRequestsType DEF Unblock, Free, Asked, TypeOK, MaxRequestsType
<1>3. ~mixed' => ~mixed /\ Busy = {}
  BY DEF Unblock
<1>4. CASE UNCHANGED <<pc, job>>
  <2>1. TypeOK'
    BY <1>1, <1>2, <1>4 DEF TypeOK
  <2>2. Jobs' /\ Queued'
    BY <1>1, <1>2, <1>4 DEF Jobs, Queued, Active
  <2>3. OneRoutePerFile' /\ AtItsBase'
    BY <1>2, <2>1, RoutesKept
  <2>4. Unmixed'
    BY <1>2, <1>3, <1>4 DEF ReloadInv, Unmixed, Apart, Served, Finds, Busy, Holds
  <2> QED
    BY <2>2, <2>3, <2>4 DEF ReloadInv
<1>5. CASE /\ GoOn(r, "load")
           /\ job' = [job EXCEPT ![r] = [kind |-> "load", file |-> f, from |-> f, code |-> None]]
  <2> DEFINE j == [kind |-> "load", file |-> f, from |-> f, code |-> None]
  <2>1. j \in [kind : Kind, file : Name \cup {None}, from : Name \cup {None},
               code : Code \cup {None}]
    BY DEF Kind
  <2>2. pc' = [pc EXCEPT ![r] = "load"] /\ job' = [job EXCEPT ![r] = j]
    BY <1>5 DEF GoOn
  <2> HIDE DEF j
  <2>3. TypeOK'
    BY <1>1, <1>2, <2>1, <2>2 DEF TypeOK
  <2>4. /\ pc'[r] = "load" /\ job'[r] = j
        /\ \A q \in Request \ {r} : pc'[q] = pc[q] /\ job'[q] = job[q]
    BY <1>1, <2>2 DEF TypeOK
  <2> QED
    BY <1>2, <1>3, <2>3, <2>4, LoadArrives DEF j
<1> QED
  BY <1>4, <1>5 DEF Unblock

(* The route of a file goes, with nobody at work. *)
LEMMA FileCleared ==
  ASSUME ReloadInv, ~mixed, Busy = {}, NEW f \in Name, ~Absent(f),
         routes' = [routes EXCEPT ![BaseOf[disk[f]]] = NoLayer], TypeOK',
         NEW b \in Base, routes'[b] # NoLayer
  PROVE  /\ routes'[b] = routes[b] /\ routes[b] # NoLayer /\ routes[b].file # f
<1>1. disk[f] \in Code /\ BaseOf[disk[f]] \in Base
  BY Bases DEF ReloadInv, OneRoutePerFile, TypeOK, Absent
<1>2. routes'[b] = routes[b] /\ b # BaseOf[disk[f]]
  BY <1>1, RouteCleared
<1>3. routes[b].file # f
  BY <1>2, QuietLayers DEF ReloadInv, AtItsBase
<1> QED
  BY <1>2, <1>3

LEMMA RequestRemoveKeeps ==
  ASSUME ReloadInv, NEW r \in Request, NEW f \in Name, RequestRemove(r, f)
  PROVE  ReloadInv'
<1> DEFINE j == [kind |-> "remove", file |-> f, from |-> f, code |-> None]
<1>1. TypeOK /\ Jobs /\ Queued
  BY DEF ReloadInv, OneRoutePerFile
<1>2. /\ ~Absent(f) /\ pc[r] = "idle" /\ asked' \in 0..MaxRequests /\ mixed' \in BOOLEAN
      /\ routes' = [routes EXCEPT ![BaseOf[disk[f]]] = NoLayer]
      /\ pc' = [pc EXCEPT ![r] = "unlink"] /\ job' = [job EXCEPT ![r] = j]
      /\ UNCHANGED <<disk, blocked, seen, saved, queue>>
  BY <1>1, MaxRequestsType DEF RequestRemove, Free, Asked, GoOn, TypeOK, MaxRequestsType
<1>3. ~mixed' => ~mixed /\ Busy = {}
  BY DEF RequestRemove
<1>4. /\ j \in [kind : Kind, file : Name \cup {None}, from : Name \cup {None},
                code : Code \cup {None}]
      /\ j.kind = "remove" /\ j.file = f /\ j.from = f
  BY DEF Kind
<1> HIDE DEF j
<1>5. BaseOf[disk[f]] \in Base
  BY <1>1, <1>2, Bases DEF TypeOK, Absent
<1>6. TypeOK'
  BY <1>1, <1>2, <1>4 DEF TypeOK
<1>7. /\ pc'[r] = "unlink" /\ job'[r] = j
      /\ \A q \in Request \ {r} : pc'[q] = pc[q] /\ job'[q] = job[q]
  BY <1>1, <1>2 DEF TypeOK
<1>8. OneRoutePerFile' /\ AtItsBase'
  BY <1>2, <1>5, <1>6, RouteCleared
<1>9. Queued'
  BY <1>1, <1>2, <1>4, <1>7, QueueStays
<1>10. Jobs'
  BY <1>1, <1>2, <1>4, <1>7 DEF Jobs
<1>11. Unmixed'
  <2> SUFFICES ASSUME ~mixed' PROVE Apart' /\ Served' /\ Finds'
    BY DEF Unmixed
  <2>1. \A q \in Request \ {r} : pc'[q] = "idle"
    BY <1>3, <1>7 DEF Busy
  <2>2. ASSUME NEW b \in Base, routes'[b] # NoLayer
        PROVE  /\ routes'[b].file \notin blocked /\ routes'[b].file # f
               /\ routes'[b].code = disk[routes'[b].file]
    BY <1>2, <1>3, <1>6, <2>2, FileCleared, QuietLayers
  <2>3. \A b \in Base : routes'[b].file # f
    BY <1>6, <2>2, Layers DEF TypeOK
  <2>4. Apart' /\ Finds'
    BY <1>4, <1>7, <2>1, <2>3 DEF Apart, Busy, Finds
  <2>5. Served'
    BY <1>2, <1>7, <2>1, <2>2 DEF Served, Holds
  <2> QED
    BY <2>4, <2>5
<1> QED
  BY <1>8, <1>9, <1>10, <1>11 DEF ReloadInv

LEMMA BlockKeeps ==
  ASSUME ReloadInv, NEW f \in Name, Block(f) PROVE ReloadInv'
<1>1. TypeOK /\ Jobs /\ Queued
  BY DEF ReloadInv, OneRoutePerFile
<1>2. /\ asked' \in 0..MaxRequests /\ mixed' \in BOOLEAN /\ blocked' = blocked \cup {f}
      /\ UNCHANGED <<disk, pc, job, seen, saved, queue>>
      /\ \/ Absent(f) /\ UNCHANGED routes
         \/ ~Absent(f) /\ routes' = [routes EXCEPT ![BaseOf[disk[f]]] = NoLayer]
  BY <1>1, MaxRequestsType DEF Block, Asked, TypeOK, MaxRequestsType
<1>3. ~mixed' => ~mixed /\ Busy = {}
  BY DEF Block
<1>4. ~Absent(f) => BaseOf[disk[f]] \in Base
  BY <1>1, Bases DEF TypeOK, Absent
<1>5. TypeOK'
  BY <1>1, <1>2, <1>4 DEF TypeOK
<1>6. OneRoutePerFile' /\ AtItsBase'
  BY <1>2, <1>4, <1>5, RoutesKept, RouteCleared
<1>7. Jobs' /\ Queued'
  BY <1>1, <1>2 DEF Jobs, Queued, Active
<1>8. Unmixed'
  <2> SUFFICES ASSUME ~mixed' PROVE Apart' /\ Served' /\ Finds'
    BY DEF Unmixed
  <2>1. \A q \in Request : pc'[q] = "idle"
    BY <1>2, <1>3 DEF Busy
  <2>2. ASSUME NEW b \in Base, routes'[b] # NoLayer
        PROVE  /\ routes'[b].file \notin blocked'
               /\ routes'[b].code = disk[routes'[b].file]
    <3>1. CASE Absent(f) /\ UNCHANGED routes
      <4>1. ~mixed /\ Busy = {} /\ routes'[b] = routes[b] /\ routes[b] # NoLayer
        BY <1>3, <2>2, <3>1
      <4>2. /\ routes[b].code \in Code /\ routes[b].file \notin blocked
            /\ routes[b].code = disk[routes[b].file]
        BY <4>1, QuietLayers
      <4>3. routes[b].file # f
        BY <3>1, <4>2, Nothing DEF Absent
      <4> QED
        BY <1>2, <4>1, <4>2, <4>3
    <3>2. CASE ~Absent(f) /\ routes' = [routes EXCEPT ![BaseOf[disk[f]]] = NoLayer]
      <4>1. ~mixed /\ Busy = {}
        BY <1>3
      <4>2. routes'[b] = routes[b] /\ routes[b] # NoLayer /\ routes[b].file # f
        BY <1>5, <2>2, <3>2, <4>1, FileCleared
      <4>3. routes[b].file \notin blocked /\ routes[b].code = disk[routes[b].file]
        BY <4>1, <4>2, QuietLayers
      <4> QED
        BY <1>2, <4>2, <4>3
    <3> QED
      BY <1>2, <3>1, <3>2
  <2>3. Apart' /\ Finds'
    BY <2>1 DEF Apart, Busy, Finds
  <2>4. Served'
    BY <1>2, <2>1, <2>2 DEF Served, Holds
  <2> QED
    BY <2>3, <2>4
<1> QED
  BY <1>6, <1>7, <1>8 DEF ReloadInv

-----------------------------------------------------------------------------
(* The process *)

(* A server that has just booted: no request, and the layers of the disk. *)
Booted ==
  /\ routes \in BootRoutes
  /\ pc = [r \in Request |-> "idle"]
  /\ job = [r \in Request |-> NoJob]
  /\ seen = [r \in Request |-> None]
  /\ saved = [r \in Request |-> None]
  /\ queue = <<>>

DiskTypeOK ==
  /\ disk \in [Name -> Code \cup {None}]
  /\ blocked \subseteq Name
  /\ mixed \in BOOLEAN
  /\ asked \in 0..MaxRequests

LEMMA BootedIsRight == Booted /\ DiskTypeOK => ReloadInv
<1> SUFFICES ASSUME Booted, DiskTypeOK PROVE ReloadInv
  OBVIOUS
<1>1. NoJob \in [kind : Kind, file : Name \cup {None}, from : Name \cup {None},
                 code : Code \cup {None}]
  BY DEF NoJob, Kind
<1>2. TypeOK
  <2>1. routes \in [Base -> Layer \cup {NoLayer}]
    BY DEF Booted, BootRoutes
  <2>2. queue \in Seq(Request)
    BY DEF Booted
  <2>3. /\ pc \in [Request -> {"idle", "queued", "write", "load", "import", "publish",
                               "unlink", "restore"}]
        /\ seen \in [Request -> Code \cup {None}] /\ saved \in [Request -> Code \cup {None}]
    BY DEF Booted
  <2>4. job \in [Request -> [kind : Kind, file : Name \cup {None},
                             from : Name \cup {None}, code : Code \cup {None}]]
    BY <1>1 DEF Booted
  <2> QED
    BY <2>1, <2>2, <2>3, <2>4 DEF TypeOK, DiskTypeOK
<1>3. \A b \in Base : routes[b] # NoLayer =>
        /\ routes[b].file \notin blocked
        /\ routes[b].code = disk[routes[b].file]
        /\ BaseOf[routes[b].code] = b
  BY DEF Booted, BootRoutes
<1>4. OneRoutePerFile /\ AtItsBase
  <2>1. ASSUME NEW a \in Base, NEW b \in Base,
               routes[a] # NoLayer, routes[a].file = routes[b].file
        PROVE  a = b
    <3>1. routes[b] # NoLayer
      BY <1>2, <2>1, RouteTypes
    <3> QED
      BY <1>3, <2>1, <3>1
  <2> QED
    BY <1>2, <1>3, <2>1 DEF OneRoutePerFile, AtItsBase
<1>5. Jobs
  BY DEF Booted, NoJob, Jobs
<1>6. Queued
  BY DEF Booted, Queued
<1>7. Unmixed
  <2>1. Apart /\ Finds
    BY DEF Booted, Apart, Busy, Finds
  <2>2. Served
    BY <1>3 DEF Booted, Served, Holds
  <2> QED
    BY <2>1, <2>2 DEF Unmixed
<1> QED
  BY <1>4, <1>5, <1>6, <1>7 DEF ReloadInv

-----------------------------------------------------------------------------
(* What is proved of controllers *)

(* ReloadInv is an invariant of the specification. *)
THEOREM ReloadInvariant == Spec => []ReloadInv
<1>1. Init => ReloadInv
  <2> SUFFICES ASSUME Init PROVE ReloadInv
    OBVIOUS
  <2>1. Booted
    BY DEF Init, Booted
  <2>2. DiskTypeOK
    <3>1. asked \in 0..MaxRequests
      BY MaxRequestsType DEF Init, MaxRequestsType
    <3>2. mixed \in BOOLEAN
      BY DEF Init
    <3> QED
      BY <3>1, <3>2 DEF Init, DiskTypeOK
  <2> QED
    BY <2>1, <2>2, BootedIsRight
<1>2. ReloadInv /\ [Next]_vars => ReloadInv'
  <2> SUFFICES ASSUME ReloadInv, [Next]_vars PROVE ReloadInv'
    OBVIOUS
  <2>1. ASSUME NEW r \in Request, Proceeds(r) \/ Imports(r) PROVE ReloadInv'
    BY <2>1, EditBeginsKeeps, WritesKeeps, CreateStopsKeeps, UnlinksKeeps, RestoresKeeps,
       LoadBeginsKeeps, PublishesKeeps, LoadFailsKeeps, ImportsKeeps DEF Proceeds
  <2>2. ASSUME NEW r \in Request, NEW f \in Name, NEW g \in Name, NEW c \in Code,
               RequestEdit(r, f, g, c)
        PROVE  ReloadInv'
    BY <2>2, RequestEditKeeps
  <2>3. ASSUME NEW r \in Request, NEW f \in Name, NEW c \in Code, RequestCreate(r, f, c)
        PROVE  ReloadInv'
    BY <2>3, RequestCreateKeeps
  <2>4. ASSUME NEW r \in Request, NEW f \in Name,
               RequestRemove(r, f) \/ RequestLoad(r, f) \/ Unblock(r, f)
        PROVE  ReloadInv'
    BY <2>4, RequestRemoveKeeps, RequestLoadKeeps, UnblockKeeps
  <2>5. ASSUME NEW f \in Name, Block(f) PROVE ReloadInv'
    BY <2>5, BlockKeeps
  <2>6. CASE Reboot
    <3>1. Booted'
      BY <2>6 DEF Reboot, Booted, BootRoutes
    <3>2. DiskTypeOK'
      BY <2>6 DEF Reboot, DiskTypeOK, ReloadInv, OneRoutePerFile, TypeOK
    <3> QED
      BY <3>1, <3>2, BootedIsRight, PTL
  <2>7. CASE UNCHANGED vars
    <3>1. TypeOK'
      BY <2>7 DEF ReloadInv, OneRoutePerFile, TypeOK, vars
    <3>2. OneRoutePerFile' /\ AtItsBase'
      BY <2>7, <3>1, RoutesKept DEF vars
    <3>3. Jobs' /\ Queued'
      BY <2>7 DEF ReloadInv, vars, Jobs, Queued, Active
    <3>4. Unmixed'
      BY <2>7 DEF ReloadInv, vars, Unmixed, Apart, Served, Finds, Busy, Holds
    <3> QED
      BY <3>2, <3>3, <3>4 DEF ReloadInv
  <2> QED
    BY <2>1, <2>2, <2>3, <2>4, <2>5, <2>6, <2>7 DEF Next
<1> QED
  BY <1>1, <1>2, PTL DEF Spec

(* No file is served at two base paths, for any number of controllers and any
   requests in flight: publishing takes down every layer of the file and of the
   one it replaces, wherever they are (controllerLoader.js:514-528). *)
THEOREM FilesHaveOneRoute == Spec => []OneRoutePerFile
<1>1. ReloadInv => OneRoutePerFile
  BY DEF ReloadInv
<1> QED
  BY <1>1, ReloadInvariant, PTL

(* When the console has done nothing but edits at the same time, the layers are
   those of the files on disk that are not blocked once all is answered: a
   failed edit puts back what is still served (codeFileUpdate.js:6). *)
THEOREM DiskIsServed == Spec => []ServedIsOnDisk
<1>1. ReloadInv => ServedIsOnDisk
  <2> SUFFICES ASSUME ReloadInv, Busy = {}, ~mixed, NEW b \in Base, routes[b] # NoLayer
               PROVE  /\ disk[routes[b].file] = routes[b].code
                      /\ routes[b].file \notin blocked
    BY DEF ServedIsOnDisk
  <2> QED
    BY QuietLayers
<1> QED
  BY <1>1, ReloadInvariant, PTL

-----------------------------------------------------------------------------
(* The container *)

(* No class is staged or committed before it is evaluated. *)
Numbered ==
  /\ \A b \in Bean : \A code \in published[b] : code <= evaluated
  /\ \A l \in Load, b \in Bean : txFactories[l][b] <= evaluated

(* What a load stages for a bean was not committed for it, and no other load
   stages the same. *)
StagedIsNew ==
  \A l \in Load, b \in Bean : txFactories[l][b] # NoClass =>
    /\ txFactories[l][b] \notin published[b]
    /\ \A m \in Load \ {l} : txFactories[m][b] # txFactories[l][b]

FactoryCommitted ==
  \A b \in Bean : factories[b] # NoClass => factories[b] \in published[b]

(* A load constructs a service from the class it stages for it, if any, and
   from a committed one otherwise. *)
OwnInstance ==
  \A l \in Load, b \in Bean : txInstances[l][b] # NoClass =>
    IF txFactories[l][b] # NoClass THEN txInstances[l][b] = txFactories[l][b]
                                ELSE txInstances[l][b] \in published[b]

LoadInv ==
  /\ ContainerTypeOK
  /\ Numbered
  /\ StagedIsNew
  /\ FactoryCommitted
  /\ OwnInstance
  /\ OnlyCommittedServed

USE MaxCodeAssumption DEF MaxCodeAssumption, NoClass, Class, Entry

(* The container starts empty. *)
LEMMA ContainerInitInv == ContainerInit => LoadInv
<1> SUFFICES ASSUME ContainerInit PROVE LoadInv
  OBVIOUS
<1>1. ContainerTypeOK
  BY DEF ContainerInit, ContainerTypeOK, Empty
<1>2. Numbered /\ StagedIsNew /\ FactoryCommitted /\ OwnInstance /\ OnlyCommittedServed
  BY DEF ContainerInit, Empty, Numbered, StagedIsNew, FactoryCommitted, OwnInstance,
     OnlyCommittedServed
<1> QED
  BY <1>1, <1>2 DEF LoadInv

(* A class that a load evaluates has a number no other class has. *)
LEMMA RegisterInv ==
  ASSUME LoadInv, NEW l \in Load, NEW b \in Bean, registerFactory(l, b)
  PROVE  LoadInv'
<1>1. /\ evaluated' \in Class /\ evaluated' = evaluated + 1 /\ evaluated \in Nat
      /\ throws' \in SUBSET Class
  BY DEF LoadInv, ContainerTypeOK, registerFactory
<1>2. txFactories' \in [Load -> [Bean -> Entry]] /\ txInstances' \in [Load -> [Bean -> Entry]]
  BY <1>1 DEF LoadInv, ContainerTypeOK, registerFactory
<1>3. ContainerTypeOK'
  BY <1>1, <1>2 DEF LoadInv, ContainerTypeOK, registerFactory
<1>4. ASSUME NEW m \in Load, NEW d \in Bean
      PROVE  /\ txFactories'[m][d] = IF m = l /\ d = b THEN evaluated + 1
                                                       ELSE txFactories[m][d]
             /\ txInstances'[m][d] = IF m = l /\ d = b THEN NoClass
                                                       ELSE txInstances[m][d]
  BY DEF LoadInv, ContainerTypeOK, registerFactory
<1>5. \A m \in Load, d \in Bean : txFactories[m][d] \in Nat
  BY DEF LoadInv, ContainerTypeOK
<1>6. \A d \in Bean : published[d] \subseteq Nat
  BY DEF LoadInv, ContainerTypeOK
<1>7. Numbered'
  BY <1>1, <1>4, <1>5, <1>6 DEF LoadInv, Numbered, registerFactory
<1>8. StagedIsNew'
  BY <1>1, <1>4, <1>5, <1>6 DEF LoadInv, Numbered, StagedIsNew, registerFactory
<1>9. FactoryCommitted' /\ OnlyCommittedServed'
  BY DEF LoadInv, FactoryCommitted, OnlyCommittedServed, registerFactory
<1>10. OwnInstance'
  BY <1>1, <1>4 DEF LoadInv, OwnInstance, registerFactory
<1> QED
  BY <1>3, <1>7, <1>8, <1>9, <1>10 DEF LoadInv

(* Nor has one that is registered at once, which leaves no instance. *)
LEMMA RegisterAtOnceInv ==
  ASSUME LoadInv, NEW b \in Bean, registerAtOnce(b)
  PROVE  LoadInv'
<1>1. /\ evaluated' \in Class /\ evaluated' = evaluated + 1 /\ evaluated \in Nat
      /\ throws' \in SUBSET Class
  BY DEF LoadInv, ContainerTypeOK, registerAtOnce
<1>2. /\ factories' \in [Bean -> Entry] /\ instances' \in [Bean -> Entry]
      /\ published' \in [Bean -> SUBSET Class]
  BY <1>1 DEF LoadInv, ContainerTypeOK, registerAtOnce, Entry
<1>3. ContainerTypeOK'
  BY <1>1, <1>2 DEF LoadInv, ContainerTypeOK, registerAtOnce
<1>4. ASSUME NEW d \in Bean
      PROVE  /\ factories'[d] = IF d = b THEN evaluated + 1 ELSE factories[d]
             /\ instances'[d] = IF d = b THEN NoClass ELSE instances[d]
             /\ published'[d] = IF d = b THEN published[d] \cup {evaluated + 1} ELSE published[d]
  BY DEF LoadInv, ContainerTypeOK, registerAtOnce
<1>5. \A m \in Load, d \in Bean : txFactories[m][d] \in Nat
  BY DEF LoadInv, ContainerTypeOK
<1>6. \A d \in Bean : published[d] \subseteq Nat
  BY DEF LoadInv, ContainerTypeOK
<1>7. Numbered'
  BY <1>1, <1>4, <1>5, <1>6 DEF LoadInv, Numbered, registerAtOnce
<1>8. StagedIsNew'
  BY <1>1, <1>4, <1>5, <1>6 DEF LoadInv, Numbered, StagedIsNew, registerAtOnce
<1>9. FactoryCommitted' /\ OnlyCommittedServed'
  BY <1>4 DEF LoadInv, FactoryCommitted, OnlyCommittedServed
<1>10. OwnInstance'
  BY <1>4 DEF LoadInv, OwnInstance, registerAtOnce
<1> QED
  BY <1>3, <1>7, <1>8, <1>9, <1>10 DEF LoadInv

(* Neither constructing a service for a load, nor all those its commit will
   replace, disturbs what the others see. *)
LEMMA ConstructInv ==
  ASSUME LoadInv,
         stage' \in [Load -> {"idle", "work", "checked"}],
         txInstances' \in [Load -> [Bean -> Entry]],
         \A m \in Load, b \in Bean : txInstances'[m][b] # txInstances[m][b] =>
            /\ txInstances'[m][b] = FactoryFor(m, b)
            /\ txInstances'[m][b] # NoClass,
         \A m \in Load : stage'[m] = "idle" =>
           stage[m] = "idle" /\ txInstances'[m] = txInstances[m],
         UNCHANGED <<factories, instances, txFactories, evaluated, throws, published>>
  PROVE  LoadInv'
<1>1. ContainerTypeOK'
  BY DEF LoadInv, ContainerTypeOK
<1>2. OwnInstance'
  BY DEF LoadInv, OwnInstance, FactoryCommitted, FactoryFor
<1> QED
  BY <1>1, <1>2 DEF LoadInv, Numbered, StagedIsNew, FactoryCommitted, OnlyCommittedServed

(* Nor does constructing one that requests share. *)
LEMMA ResolveInv ==
  ASSUME LoadInv, NEW b \in Bean, resolve(b)
  PROVE  LoadInv'
<1>1. ContainerTypeOK'
  BY DEF LoadInv, ContainerTypeOK, resolve
<1>2. OnlyCommittedServed'
  BY DEF LoadInv, OnlyCommittedServed, FactoryCommitted, resolve, Constructs
<1> QED
  BY <1>1, <1>2 DEF LoadInv, Numbered, StagedIsNew, FactoryCommitted, OwnInstance, resolve

(* A load that ends keeps nothing. *)
LEMMA ClosedMaps ==
  ASSUME LoadInv, NEW l \in Load, Closed(l)
  PROVE  /\ txFactories' \in [Load -> [Bean -> Entry]]
         /\ txInstances' \in [Load -> [Bean -> Entry]]
         /\ stage' \in [Load -> {"idle", "work", "checked"}]
         /\ \A m \in Load, b \in Bean :
              /\ txFactories'[m][b] = IF m = l THEN NoClass ELSE txFactories[m][b]
              /\ txInstances'[m][b] = IF m = l THEN NoClass ELSE txInstances[m][b]
<1>1. Empty \in [Bean -> Entry] /\ \A b \in Bean : Empty[b] = NoClass
  BY DEF Empty
<1> QED
  BY <1>1 DEF LoadInv, ContainerTypeOK, Closed

LEMMA FailInv ==
  ASSUME LoadInv, NEW l \in Load, Fail(l)
  PROVE  LoadInv'
<1> USE DEF Fail
<1>0. \A m \in Load, b \in Bean :
           /\ txFactories'[m][b] = IF m = l THEN NoClass ELSE txFactories[m][b]
           /\ txInstances'[m][b] = IF m = l THEN NoClass ELSE txInstances[m][b]
  BY ClosedMaps
<1>1. ContainerTypeOK'
  BY ClosedMaps DEF LoadInv, ContainerTypeOK, Closed
<1>2. Numbered'
  BY <1>0 DEF LoadInv, ContainerTypeOK, Numbered, Closed
<1>3. StagedIsNew'
  BY <1>0 DEF LoadInv, StagedIsNew
<1>4. OwnInstance'
  BY <1>0 DEF LoadInv, OwnInstance
<1> QED
  BY <1>1, <1>2, <1>3, <1>4 DEF LoadInv, FactoryCommitted, OnlyCommittedServed

(* A commit publishes what the load staged, and what it installs for a bean
   was constructed from that or from a class committed before. *)
LEMMA CommitInv ==
  ASSUME LoadInv, NEW l \in Load, Commit(l)
  PROVE  LoadInv'
<1> USE DEF Commit
<1>0. \A m \in Load, b \in Bean :
           /\ txFactories'[m][b] = IF m = l THEN NoClass ELSE txFactories[m][b]
           /\ txInstances'[m][b] = IF m = l THEN NoClass ELSE txInstances[m][b]
  BY ClosedMaps
<1>1. ASSUME NEW b \in Bean
      PROVE  /\ factories'[b] = FactoryFor(l, b)
             /\ instances'[b] = InstanceAfter(l, b)
             /\ published'[b] = published[b] \cup ({txFactories[l][b]} \ {NoClass})
  OBVIOUS
<1>2. ASSUME NEW b \in Bean PROVE FactoryFor(l, b) \in Entry /\ InstanceAfter(l, b) \in Entry
  BY DEF LoadInv, ContainerTypeOK, FactoryFor, InstanceAfter, Installed
<1>3. ContainerTypeOK'
  <2>1. factories' \in [Bean -> Entry] /\ instances' \in [Bean -> Entry]
    BY <1>2
  <2>2. published' \in [Bean -> SUBSET Class]
    BY DEF LoadInv, ContainerTypeOK
  <2> QED
    BY <2>1, <2>2, ClosedMaps DEF LoadInv, ContainerTypeOK, Closed
<1>4. Numbered'
  BY <1>0, <1>1 DEF LoadInv, ContainerTypeOK, Numbered, Closed
<1>5. StagedIsNew'
  BY <1>0, <1>1 DEF LoadInv, StagedIsNew
<1>6. FactoryCommitted'
  BY <1>1 DEF LoadInv, FactoryCommitted, FactoryFor
<1>7. OwnInstance'
  BY <1>0, <1>1 DEF LoadInv, OwnInstance
<1>8. OnlyCommittedServed'
  BY <1>1 DEF LoadInv, OwnInstance, OnlyCommittedServed, InstanceAfter, Installed
<1> QED
  BY <1>3, <1>4, <1>5, <1>6, <1>7, <1>8 DEF LoadInv

(* Hence every step keeps the invariant. *)
LEMMA ContainerStepInv == LoadInv /\ [ContainerNext]_containerVars => LoadInv'
<1> SUFFICES ASSUME LoadInv, [ContainerNext]_containerVars PROVE LoadInv'
  OBVIOUS
<1>1. ASSUME NEW l \in Load, Begin(l) PROVE LoadInv'
  <2>1. stage' \in [Load -> {"idle", "work", "checked"}]
    BY <1>1 DEF LoadInv, ContainerTypeOK, Begin
  <2>2. txInstances' \in [Load -> [Bean -> Entry]]
    BY <1>1 DEF LoadInv, ContainerTypeOK, Begin
  <2> QED
    BY <1>1, <2>1, <2>2, ConstructInv DEF Begin
<1>2. ASSUME NEW l \in Load, NEW b \in Bean, registerFactory(l, b) PROVE LoadInv'
  BY <1>2, RegisterInv
<1>3. ASSUME NEW l \in Load, NEW b \in Bean, resolveInLoad(l, b) PROVE LoadInv'
  <2>1. FactoryFor(l, b) \in Entry \ {NoClass}
    BY <1>3 DEF LoadInv, ContainerTypeOK, FactoryFor, resolveInLoad, Constructs
  <2>2. /\ txInstances' \in [Load -> [Bean -> Entry]]
        /\ stage' \in [Load -> {"idle", "work", "checked"}]
    BY <1>3, <2>1 DEF LoadInv, ContainerTypeOK, resolveInLoad
  <2>3. \A m \in Load, d \in Bean : txInstances'[m][d] # txInstances[m][d] =>
           txInstances'[m][d] = FactoryFor(m, d) /\ txInstances'[m][d] # NoClass
    BY <1>3, <2>1 DEF LoadInv, ContainerTypeOK, resolveInLoad
  <2> QED
    BY <1>3, <2>2, <2>3, ConstructInv DEF resolveInLoad
<1>4. ASSUME NEW l \in Load, validateReplacements(l) PROVE LoadInv'
  <2>1. /\ txInstances' \in [Load -> [Bean -> Entry]]
        /\ stage' \in [Load -> {"idle", "work", "checked"}]
    BY <1>4 DEF LoadInv, ContainerTypeOK, validateReplacements
  <2>2. \A m \in Load, d \in Bean : txInstances'[m][d] # txInstances[m][d] =>
           txInstances'[m][d] = FactoryFor(m, d) /\ txInstances'[m][d] # NoClass
    BY <1>4 DEF LoadInv, ContainerTypeOK, validateReplacements, Replaces, FactoryFor
  <2> QED
    BY <1>4, <2>1, <2>2, ConstructInv DEF validateReplacements
<1>5. ASSUME NEW l \in Load, Commit(l) PROVE LoadInv'
  BY <1>5, CommitInv
<1>6. ASSUME NEW l \in Load, Fail(l) PROVE LoadInv'
  BY <1>6, FailInv
<1>7. ASSUME NEW b \in Bean, resolve(b) PROVE LoadInv'
  BY <1>7, ResolveInv
<1>8. ASSUME NEW b \in Bean, registerAtOnce(b) PROVE LoadInv'
  BY <1>8, RegisterAtOnceInv
<1>9. CASE UNCHANGED containerVars
  BY <1>9 DEF containerVars, LoadInv, ContainerTypeOK, Numbered, StagedIsNew, FactoryCommitted,
     OwnInstance, OnlyCommittedServed
<1> QED
  BY <1>1, <1>2, <1>3, <1>4, <1>5, <1>6, <1>7, <1>8, <1>9 DEF ContainerNext

LEMMA ContainerInvariant == ContainerSafety => []LoadInv
<1> QED
  BY ContainerInitInv, ContainerStepInv, PTL DEF ContainerSafety

-----------------------------------------------------------------------------
(* The maps hold classes that were evaluated, and loads are idle, evaluating
   or past validation. *)
THEOREM ContainerTypeCorrect == ContainerSafety => []ContainerTypeOK
<1>1. LoadInv => ContainerTypeOK
  BY DEF LoadInv
<1> QED
  BY <1>1, ContainerInvariant, PTL

(* No request is given an instance of code that was not committed. *)
THEOREM ServedIsCommitted == ContainerSafety => []OnlyCommittedServed
<1>1. LoadInv => OnlyCommittedServed
  BY DEF LoadInv
<1> QED
  BY <1>1, ContainerInvariant, PTL

(* A step that changes a shared instance or a factory is resolve(), a commit or
   a registration outside the loads. *)
LEMMA WhoChanges ==
  ASSUME ContainerNext
  PROVE  \/ instances' = instances /\ factories' = factories
         \/ \E l \in Load : Commit(l)
         \/ \E b \in Bean : resolve(b) \/ registerAtOnce(b)
BY DEF ContainerNext, Begin, registerFactory, resolveInLoad, validateReplacements, Fail

(* All requests share one instance until new code is published. *)
THEOREM Sharing == ContainerSafety => SharedUntilPublished
<1> DEFINE Shared == \A b \in Bean : instances[b] # NoClass /\ instances'[b] # instances[b]
                       => factories'[b] # factories[b]
<1>1. ASSUME LoadInv, NEW l \in Load, Commit(l) PROVE Shared
  BY <1>1 DEF LoadInv, StagedIsNew, FactoryCommitted, Commit, FactoryFor,
     InstanceAfter, Installed
<1>2. ASSUME LoadInv, NEW b \in Bean, resolve(b) PROVE Shared
  BY <1>2 DEF LoadInv, ContainerTypeOK, resolve
<1>3. ASSUME LoadInv, NEW b \in Bean, registerAtOnce(b) PROVE Shared
  <2>1. ASSUME NEW d \in Bean, instances[d] # NoClass, instances'[d] # instances[d]
        PROVE  d = b /\ factories'[d] = evaluated + 1
    BY <1>3, <2>1 DEF LoadInv, ContainerTypeOK, registerAtOnce
  <2>2. factories[b] \in published[b] \cup {NoClass}
    BY <1>3 DEF LoadInv, FactoryCommitted
  <2>3. \A c \in published[b] : c <= evaluated
    BY <1>3 DEF LoadInv, Numbered
  <2>4. evaluated \in Nat /\ published[b] \subseteq Nat
    BY <1>3 DEF LoadInv, ContainerTypeOK
  <2> QED
    BY <1>3, <2>1, <2>2, <2>3, <2>4 DEF NoClass
<1>4. LoadInv /\ [ContainerNext]_containerVars => [Shared]_containerVars
  BY <1>1, <1>2, <1>3, WhoChanges
<1> QED
  BY <1>4, ContainerInvariant, PTL DEF SharedUntilPublished, ContainerSafety

(* The instance in use after new code is published is of that code. *)
THEOREM NextIsPublished == ContainerSafety => PublishedIsNext
<1> DEFINE IsNew == \A b \in Bean : factories'[b] # factories[b]
                      => instances'[b] \in {NoClass, factories'[b]}
<1>1. ASSUME LoadInv, NEW l \in Load, Commit(l) PROVE IsNew
  BY <1>1 DEF LoadInv, OwnInstance, Commit, FactoryFor, InstanceAfter, Installed
<1>2. ASSUME NEW b \in Bean, resolve(b) PROVE IsNew
  BY <1>2 DEF resolve
<1>3. ASSUME LoadInv, NEW b \in Bean, registerAtOnce(b) PROVE IsNew
  BY <1>3 DEF LoadInv, ContainerTypeOK, registerAtOnce
<1>4. LoadInv /\ [ContainerNext]_containerVars => [IsNew]_containerVars
  BY <1>1, <1>2, <1>3, WhoChanges
<1> QED
  BY <1>4, ContainerInvariant, PTL DEF PublishedIsNext, ContainerSafety
=============================================================================
