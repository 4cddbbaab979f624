---------------------------- MODULE ConsoleSession ----------------------------
(***************************************************************************)
(* The sign-in of one browser tab of the console: src/api/http.js and      *)
(* src/stores/auth.js of admin-client, with the cookie that                *)
(* AdminAuthController.js sets and the browser sends along.  The server    *)
(* keeps its sign-ins as TokenFamilies says, which Sessions implements.    *)
(*                                                                         *)
(* sessionVersion is only ever compared with what it was before: whatever  *)
(* waits carries `current`, which ends when the version goes up; the token *)
(* that a page sent only with accessToken: `same` is their comparison.  The *)
(* server may refuse an access token at any time: it expires, or the       *)
(* account changes.                                                        *)
(*                                                                         *)
(* A request that is given up, at its time limit or by a reload, has been  *)
(* served before, and then its answer is lost; or it never arrives; or the *)
(* server, which is not told, serves it later.  For a refresh that is      *)
(* LateServed.  A login served late opens a sign-in that nobody holds, as  *)
(* one does whose answer is lost, and a logout served late ends its sign-in *)
(* if its token is still the latest, as EndsElsewhere does.                *)
(***************************************************************************)
EXTENDS Naturals, FiniteSets

CONSTANTS
  Request,      \* requests of the pages that can be in flight together
  MaxFamilies,  \* bound: sign-ins
  MaxTokens,    \* bound: tokens of a sign-in
  Late          \* bound: refreshes on their way that the tab has given up

ASSUME ConsoleBounds == MaxFamilies \in Nat \ {0} /\ MaxTokens \in Nat \ {0}

Family == 1..MaxFamilies

VARIABLES
  state, tokens,   \* the sign-ins the server knows
  cookie,    \* the refresh token in the cookie
  token,     \* accessToken, named like the refresh token issued with it
  refresh,   \* the request behind refreshPromise
  login,     \* the request of login()
  logout,    \* the request of logout()
  page,      \* of each request of a page: "idle", "sent" or "wait", and its config
  late,      \* the cookies of the refreshes given up and still to be served
  lost,      \* history: did the server act on a refresh and the answer get lost?
  reused     \* history: has the server taken a refresh for a reuse?

server == <<state, tokens>>
vars == <<server, cookie, token, refresh, login, logout, page, late, lost, reused>>

Server == INSTANCE TokenFamilies

Pair == [family : Family, n : 1..MaxTokens]
NoPair == [family |-> 0, n |-> 0]

(* A request of the auth routes: the cookie it was sent with, then the answer,
   which is a pair, or none if it was refused. *)
Call == [at : {"idle", "sent", "served"}, current : BOOLEAN, pair : Pair \cup {NoPair}]
NoCall == [at |-> "idle", current |-> FALSE, pair |-> NoPair]

Page == [at : {"idle", "sent", "wait"}, current : BOOLEAN, retried : BOOLEAN,
         same : BOOLEAN]
NoPage == [at |-> "idle", current |-> FALSE, retried |-> FALSE, same |-> FALSE]

TypeOK ==
  /\ state \in [Family -> {"unused", "live", "closed"}]
  /\ tokens \in [Family -> 0..MaxTokens]
  /\ {cookie, token} \subseteq Pair \cup {NoPair}
  /\ {refresh, login, logout} \subseteq Call
  /\ page \in [Request -> Page]
  /\ late \in [Late -> Pair \cup {NoPair}]
  /\ {lost, reused} \subseteq BOOLEAN

Init ==
  /\ Server!Init
  /\ cookie = NoPair /\ token = NoPair
  /\ refresh = NoCall /\ login = NoCall /\ logout = NoCall
  /\ page = [r \in Request |-> NoPage]
  /\ late = [s \in Late |-> NoPair]
  /\ lost = FALSE /\ reused = FALSE

Sent == [at |-> "sent", current |-> TRUE, pair |-> cookie]
Answered(call, pair) == [call EXCEPT !.at = "served", !.pair = pair]

(* sessionVersion++; the rest of an outdated request makes no difference. *)
Outdated(call) == [call EXCEPT !.current = FALSE]
OutdatedPage(p) == [NoPage EXCEPT !.at = p.at]
VersionUp ==
  /\ page' = [r \in Request |-> OutdatedPage(page[r])]
  /\ refresh' = Outdated(refresh)
  /\ login' = Outdated(login)

-----------------------------------------------------------------------------
(* What the server does *)

LoginServed ==
  /\ login.at = "sent"
  /\ \/ \E f \in Family :
          /\ \A g \in Family : g < f => state[g] # "unused"
          /\ Server!Open(f)
          /\ login' = Answered(login, [family |-> f, n |-> 1])
     \/ login' = Answered(login, NoPair) /\ UNCHANGED server
  /\ UNCHANGED <<cookie, token, refresh, logout, page, late, lost, reused>>

IsLatest(pair) == pair # NoPair /\ state[pair.family] = "live" /\ pair.n = tokens[pair.family]
IsSpent(pair) == pair # NoPair /\ state[pair.family] = "live" /\ pair.n < tokens[pair.family]

RefreshServed ==
  /\ refresh.at = "sent"
  /\ LET p == refresh.pair IN
     \/ /\ IsLatest(p) /\ p.n < MaxTokens
        /\ Server!Rotate(p.family)
        /\ refresh' = Answered(refresh, [p EXCEPT !.n = @ + 1])
        /\ UNCHANGED reused
     \/ /\ IsSpent(p)
        /\ Server!Close({p.family})
        /\ refresh' = Answered(refresh, NoPair)
        /\ reused' = TRUE
     \/ /\ ~IsLatest(p) /\ ~IsSpent(p)
        /\ refresh' = Answered(refresh, NoPair)
        /\ UNCHANGED <<server, reused>>
  /\ UNCHANGED <<cookie, token, login, logout, page, late, lost>>

(* rotate() goes on although nobody waits for the answer, nor takes its cookie. *)
LateServed(s) ==
  /\ late[s] # NoPair
  /\ LET p == late[s] IN
     \/ /\ IsLatest(p) /\ p.n < MaxTokens
        /\ Server!Rotate(p.family)
        /\ lost' = TRUE /\ UNCHANGED reused
     \/ /\ IsSpent(p)
        /\ Server!Close({p.family})
        /\ lost' = TRUE /\ reused' = TRUE
     \/ ~IsLatest(p) /\ ~IsSpent(p) /\ UNCHANGED <<server, lost, reused>>
  /\ late' = [late EXCEPT ![s] = NoPair]
  /\ UNCHANGED <<cookie, token, refresh, login, logout, page>>

LogoutServed ==
  /\ logout.at = "sent"
  /\ LET p == logout.pair IN
     \/ IsLatest(p) /\ Server!Close({p.family})
     \/ ~IsLatest(p) /\ UNCHANGED server
  /\ logout' = Answered(logout, NoPair)
  /\ UNCHANGED <<cookie, token, refresh, login, page, late, lost, reused>>

(* The sign-in ends elsewhere: all its tokens are revoked or expire. *)
EndsElsewhere(f) ==
  /\ Server!Close({f})
  /\ UNCHANGED <<cookie, token, refresh, login, logout, page, late, lost, reused>>

-----------------------------------------------------------------------------
(* auth.js *)

LoginPressed ==
  /\ login.at = "idle"
  /\ login' = [Sent EXCEPT !.pair = NoPair]
  /\ UNCHANGED <<server, cookie, token, refresh, logout, page, late, lost, reused>>

(* The browser takes the cookie whether or not the tab wants the answer. *)
LoginAnswered ==
  /\ login.at = "served" /\ login.pair # NoPair
  /\ cookie' = login.pair
  /\ \/ /\ login.current
        /\ token' = login.pair
        /\ login' = NoCall
        /\ page' = [r \in Request |-> OutdatedPage(page[r])]
        /\ refresh' = Outdated(refresh)
     \/ ~login.current /\ login' = NoCall /\ UNCHANGED <<token, page, refresh>>
  /\ UNCHANGED <<server, logout, late, lost, reused>>

LoginFails ==
  /\ login.at # "idle"
  /\ login' = NoCall
  /\ UNCHANGED <<server, cookie, token, refresh, logout, page, late, lost, reused>>

LogoutPressed ==
  /\ token # NoPair /\ logout.at = "idle"
  /\ token' = NoPair
  /\ VersionUp
  /\ logout' = Sent
  /\ UNCHANGED <<server, cookie, late, lost, reused>>

LogoutEnds ==
  /\ logout.at # "idle"
  /\ logout' = NoCall
  /\ cookie' \in IF logout.at = "served" THEN {NoPair, cookie} ELSE {cookie}
  /\ UNCHANGED <<server, token, refresh, login, page, late, lost, reused>>

-----------------------------------------------------------------------------
(* http.js *)

(* refreshSession(): all who want it wait for the same request. *)
RefreshWanted_Faulty == refresh' = Sent   \* one request each
RefreshWanted == refresh' = IF refresh.at = "idle" THEN Sent ELSE refresh

(* Those who waited go on: again with the new token, or with an error. *)
Again == [at |-> "sent", current |-> TRUE, retried |-> TRUE, same |-> TRUE]

Settled_Faulty(p, ok) ==   \* a refresh that fails tells nobody
  IF p.at # "wait" \/ ~ok THEN p ELSE Again

Settled(p, ok) ==
  IF p.at # "wait" THEN p ELSE IF ok /\ p.current THEN Again ELSE NoPage

(* the answer under way has a new token *)
Rotated == refresh.at = "served" /\ refresh.pair # NoPair

RefreshSucceeds ==
  /\ Rotated
  /\ cookie' = refresh.pair
  /\ token' = IF refresh.current THEN refresh.pair ELSE token
  /\ page' = [r \in Request |->
       Settled([page[r] EXCEPT !.same = @ /\ ~refresh.current], refresh.current)]
  /\ refresh' = NoCall
  /\ UNCHANGED <<server, login, logout, late, lost, reused>>

(* 401: the session on the screen is over, unless it is another by now. *)
RefreshRefused ==
  /\ refresh.at = "served" /\ refresh.pair = NoPair
  /\ \/ /\ refresh.current
        /\ token' = NoPair
        /\ login' = Outdated(login)
        /\ page' = [r \in Request |-> OutdatedPage(Settled(page[r], FALSE))]
     \/ ~refresh.current /\ page' = [r \in Request |-> Settled(page[r], FALSE)] /\ UNCHANGED <<token, login>>
  /\ refresh' = NoCall
  /\ UNCHANGED <<server, cookie, logout, late, lost, reused>>

(* The tab gives the refresh up, if there is one.  If it is still on its way it
   may be served all the same; it is refused then if its sign-in is over by now. *)
GivenUp ==
  /\ lost' = (lost \/ Rotated)
  /\ \/ UNCHANGED late
     \/ \E s \in Late : /\ refresh.at = "sent" /\ late[s] = NoPair
                        /\ IsLatest(refresh.pair) \/ IsSpent(refresh.pair)
                        /\ late' = [late EXCEPT ![s] = refresh.pair]

(* No answer within 5 s, or an answer that is neither. *)
RefreshFails ==
  /\ refresh.at # "idle"
  /\ GivenUp
  /\ page' = [r \in Request |-> Settled(page[r], FALSE)]
  /\ refresh' = NoCall
  /\ UNCHANGED <<server, cookie, token, login, logout, reused>>

PageSends(r) ==
  /\ page[r].at = "idle"
  /\ page' = [page EXCEPT ![r] =
       [at |-> "sent", current |-> TRUE, retried |-> FALSE, same |-> TRUE]]
  /\ UNCHANGED <<server, cookie, token, refresh, login, logout, late, lost, reused>>

(* An answer, or none within 15 s. *)
PageAnswered(r) ==
  /\ page[r].at = "sent"
  /\ page' = [page EXCEPT ![r] = NoPage]
  /\ UNCHANGED <<server, cookie, token, refresh, login, logout, late, lost, reused>>

(* 401 *)
PageRefused(r) ==
  /\ page[r].at = "sent" /\ ~page[r].retried /\ page[r].current
  /\ \/ /\ token = NoPair \/ page[r].same
        /\ page' = [page EXCEPT ![r].at = "wait"]
        /\ RefreshWanted
     \/ /\ token # NoPair /\ ~page[r].same
        /\ page' = [page EXCEPT ![r] = Again]
        /\ UNCHANGED refresh
  /\ UNCHANGED <<server, cookie, token, login, logout, late, lost, reused>>

(* main.js: the page is loaded (again), and before anything else the session is
   taken up with the cookie.  What was in flight is aborted. *)
Reload ==
  /\ refresh' = Sent
  /\ token' = NoPair
  /\ login' = NoCall /\ logout' = NoCall
  /\ page' = [r \in Request |-> NoPage]
  /\ GivenUp
  /\ UNCHANGED <<server, cookie, reused>>

-----------------------------------------------------------------------------
Next ==
  \/ LoginServed \/ RefreshServed \/ LogoutServed
  \/ \E s \in Late : LateServed(s)
  \/ \E f \in Family : EndsElsewhere(f)
  \/ LoginPressed \/ LoginAnswered \/ LoginFails
  \/ LogoutPressed \/ LogoutEnds
  \/ RefreshSucceeds \/ RefreshRefused \/ RefreshFails
  \/ \E r \in Request : PageSends(r) \/ PageAnswered(r) \/ PageRefused(r)
  \/ Reload

(* Every request has a timeout. *)
Fairness ==
  /\ WF_vars(RefreshSucceeds \/ RefreshRefused \/ RefreshFails)
  /\ \A r \in Request : WF_vars(PageAnswered(r))

Spec == Init /\ [][Next]_vars /\ Fairness
=============================================================================
