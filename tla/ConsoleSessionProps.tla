-------------------------- MODULE ConsoleSessionProps --------------------------
(***************************************************************************)
(* What the console should guarantee about its own sign-in.                *)
(***************************************************************************)
EXTENDS ConsoleSession

(* The tab does not revoke its own sign-in: the server never sees a spent token
   of it, whatever requests are refused at once, and however logins, logouts,
   reloads and refreshes overlap, unless it acts on a refresh that the tab has
   given up, before or after, so that the answer is lost (http.js:28,
   AuthService.js:180). *)
NoReuseOfItsOwn == TypeOK /\ (reused => lost)

(* Every request of a page is answered, also when the session changes while it
   waits for the refresh (http.js:36-43, 69). *)
RequestsEnd == \A r \in Request : page[r].at # "idle" ~> page[r].at = "idle"
=============================================================================
