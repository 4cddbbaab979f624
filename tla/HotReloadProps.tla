---------------------------- MODULE HotReloadProps ----------------------------
(***************************************************************************)
(* What changing controllers at run time should guarantee.                 *)
(***************************************************************************)
EXTENDS HotReload

(* A file is served at one base path, whatever edits, renames and loads of it
   overlap (controllerLoader.js:514-528). *)
OneRoutePerFile ==
  TypeOK /\ \A a, b \in Base : routes[a] # NoLayer /\ routes[a].file = routes[b].file => a = b

(* What is served is what is on disk and not blocked, once nothing is under way:
   after edits that failed or not, beside each other, after renames, removals,
   blocks and boots, as long as the console did nothing but edits at the same
   time (codeFileUpdate.js:6, BlocklistController.js:13). *)
ServedIsOnDisk ==
  Busy = {} /\ ~mixed =>
    \A b \in Base : routes[b] # NoLayer =>
      disk[routes[b].file] = routes[b].code /\ routes[b].file \notin blocked

(* Every request is answered and the queue moves on, although an import may
   never end (codeLoadBoundary.js:63). *)
RequestsEnd == \A r \in Request : pc[r] # "idle" ~> pc[r] = "idle"
=============================================================================
