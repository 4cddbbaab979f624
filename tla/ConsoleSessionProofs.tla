-------------------------- MODULE ConsoleSessionProofs --------------------------
(***************************************************************************)
(* For any number of requests, sign-ins and tokens: the tab never presents *)
(* a token that it knows to be spent.                                      *)
(*                                                                         *)
(* That no refresh was taken for a reuse is not inductive.  What is: the   *)
(* token of the refresh under way is not spent, and the token in the       *)
(* cookie is spent only while the answer that replaces it is under way     *)
(* (Unspent); and the sign-in that a login has just opened is not that of  *)
(* the cookie or of the refresh, which cannot spend its token (Apart).     *)
(***************************************************************************)
EXTENDS ConsoleSessionProps, TLAPS

Opened(p) == p # NoPair => state[p.family] # "unused"

Apart ==
  /\ Opened(cookie) /\ Opened(refresh.pair) /\ Opened(login.pair)
  /\ login.pair # NoPair =>
       cookie.family # login.pair.family /\ refresh.pair.family # login.pair.family

Unspent ==
  ~lost =>
    /\ ~reused
    /\ ~IsSpent(refresh.pair) /\ ~IsSpent(login.pair)
    /\ IsSpent(cookie) => Rotated /\ refresh.pair.family = cookie.family

ConsoleInv == TypeOK /\ Apart /\ Unspent

USE ConsoleBounds

-----------------------------------------------------------------------------
(* Types *)

Servers ==
  state \in [Family -> {"unused", "live", "closed"}] /\ tokens \in [Family -> 0..MaxTokens]

LEMMA CallType ==
  ASSUME NEW c \in Call
  PROVE  /\ c.at \in {"idle", "sent", "served"} /\ c.current \in BOOLEAN
         /\ c.pair \in Pair \cup {NoPair}
         /\ Outdated(c) \in Call /\ Outdated(c).pair = c.pair /\ Outdated(c).at = c.at
BY DEF Call, Outdated

LEMMA AnsweredType ==
  ASSUME NEW c \in Call, NEW p \in Pair \cup {NoPair}
  PROVE  /\ Answered(c, p) \in Call
         /\ Answered(c, p).at = "served" /\ Answered(c, p).pair = p
BY DEF Call, Answered

LEMMA NoCallType ==
  NoCall \in Call /\ NoCall.pair = NoPair /\ NoCall.at = "idle"
BY DEF NoCall, Call

LEMMA SentType ==
  ASSUME cookie \in Pair \cup {NoPair}
  PROVE  /\ Sent \in Call /\ Sent.pair = cookie /\ Sent.at = "sent"
         /\ [Sent EXCEPT !.pair = NoPair] \in Call
         /\ [Sent EXCEPT !.pair = NoPair].pair = NoPair
BY DEF Sent, Call

LEMMA PairType ==
  /\ \A p \in Pair : p.family \in Family /\ p.n \in 1..MaxTokens /\ p # NoPair
  /\ NoPair.family = 0 /\ NoPair.n = 0
  /\ \A f \in Family : f # 0
BY DEF Pair, NoPair, Family

LEMMA NewPair ==
  ASSUME NEW f \in Family, NEW n \in 1..MaxTokens
  PROVE  /\ [family |-> f, n |-> n] \in Pair
         /\ [family |-> f, n |-> n].family = f /\ [family |-> f, n |-> n].n = n
BY DEF Pair

LEMMA NextPair ==
  ASSUME NEW p \in Pair, p.n + 1 \in 1..MaxTokens
  PROVE  /\ [p EXCEPT !.n = @ + 1] \in Pair
         /\ [p EXCEPT !.n = @ + 1].family = p.family /\ [p EXCEPT !.n = @ + 1].n = p.n + 1
BY DEF Pair

LEMMA PageType ==
  /\ NoPage \in Page /\ Again \in Page
  /\ \A p \in Page : OutdatedPage(p) \in Page
  /\ \A p \in Page, ok \in BOOLEAN : Settled(p, ok) \in Page
BY DEF NoPage, Again, Page, OutdatedPage, Settled

Pages == page \in [Request -> Page]
Lates == late \in [Late -> Pair \cup {NoPair}]

LEMMA Parts ==
  TypeOK <=>
    /\ Servers
    /\ cookie \in Pair \cup {NoPair} /\ token \in Pair \cup {NoPair}
    /\ refresh \in Call /\ login \in Call /\ logout \in Call
    /\ Pages
    /\ Lates
    /\ lost \in BOOLEAN /\ reused \in BOOLEAN
BY Zenon DEF TypeOK, Servers, Pages, Lates

LEMMA PartsNext ==
  TypeOK' <=>
    /\ Servers'
    /\ cookie' \in Pair \cup {NoPair} /\ token' \in Pair \cup {NoPair}
    /\ refresh' \in Call /\ login' \in Call /\ logout' \in Call
    /\ Pages'
    /\ Lates'
    /\ lost' \in BOOLEAN /\ reused' \in BOOLEAN
BY Zenon DEF TypeOK, Servers, Pages, Lates

(* What may happen to the pages *)
LEMMA PagesKeep ==
  ASSUME Pages
  PROVE  /\ [r \in Request |-> OutdatedPage(page[r])] \in [Request -> Page]
         /\ \A ok \in BOOLEAN :
              /\ [r \in Request |-> Settled(page[r], ok)] \in [Request -> Page]
              /\ [r \in Request |-> OutdatedPage(Settled(page[r], ok))] \in [Request -> Page]
         /\ \A b, ok \in BOOLEAN :
              [r \in Request |-> Settled([page[r] EXCEPT !.same = @ /\ b], ok)] \in [Request -> Page]
<1>1. \A r \in Request : page[r] \in Page
  BY DEF Pages
<1>2. \A p \in Page, b \in BOOLEAN : [p EXCEPT !.same = @ /\ b] \in Page
  BY DEF Page
<1> QED
  BY <1>1, <1>2, PageType

-----------------------------------------------------------------------------
(* Opened and spent in the next state, of the same pair *)

OpenedThen(p) == p # NoPair => state'[p.family] # "unused"
SpentThen(p) == p # NoPair /\ state'[p.family] = "live" /\ p.n < tokens'[p.family]

(* Where nothing is issued nothing becomes spent. *)
Closing == \/ UNCHANGED server
           \/ \E fs \in SUBSET Family : Server!Close(fs)

LEMMA ClosingKeeps ==
  ASSUME Servers, Closing
  PROVE  /\ Servers'
         /\ \A p \in Pair \cup {NoPair} :
              (Opened(p) => OpenedThen(p)) /\ (SpentThen(p) => IsSpent(p))
<1>1. CASE UNCHANGED server
  BY <1>1 DEF server, Servers, OpenedThen, SpentThen, Opened, IsSpent
<1>2. CASE \E fs \in SUBSET Family : Server!Close(fs)
  <2>1. PICK fs \in SUBSET Family : Server!Close(fs)
    BY <1>2
  <2>2. /\ state' = [f \in Family |-> IF f \in fs THEN "closed" ELSE state[f]]
        /\ tokens' = tokens
    BY <2>1 DEF Server!Close
  <2>3. Servers'
    BY <2>2 DEF Servers
  <2>4. ASSUME NEW p \in Pair
        PROVE  (Opened(p) => OpenedThen(p)) /\ (SpentThen(p) => IsSpent(p))
    BY <2>2, <2>4, PairType DEF OpenedThen, SpentThen, Opened, IsSpent
  <2>5. (Opened(NoPair) => OpenedThen(NoPair)) /\ (SpentThen(NoPair) => IsSpent(NoPair))
    BY DEF OpenedThen, SpentThen
  <2> QED
    BY <2>3, <2>4, <2>5
<1> QED
  BY <1>1, <1>2 DEF Closing

LEMMA NextOf ==
  /\ Opened(cookie)' <=> OpenedThen(cookie')
  /\ Opened(refresh.pair)' <=> OpenedThen(refresh'.pair)
  /\ Opened(login.pair)' <=> OpenedThen(login'.pair)
  /\ IsSpent(cookie)' <=> SpentThen(cookie')
  /\ IsSpent(refresh.pair)' <=> SpentThen(refresh'.pair)
  /\ IsSpent(login.pair)' <=> SpentThen(login'.pair)
  /\ OpenedThen(NoPair) /\ ~SpentThen(NoPair)
BY DEF Opened, IsSpent, OpenedThen, SpentThen

-----------------------------------------------------------------------------
(* The steps, by what they do to the refresh and to the cookie *)

Chained == Apart /\ Unspent

LEMMA QuietKeeps ==
  ASSUME ConsoleInv, Closing,
         cookie' \in {cookie, NoPair}, login'.pair \in {login.pair, NoPair},
         refresh'.pair = refresh.pair, refresh'.at = refresh.at,
         UNCHANGED <<lost, reused>>
  PROVE  Chained'
<1>1. Servers /\ {cookie, refresh.pair, login.pair} \subseteq Pair \cup {NoPair}
  BY Parts, CallType DEF ConsoleInv
<1>2. \A p \in {cookie, refresh.pair, login.pair} :
        (Opened(p) => OpenedThen(p)) /\ (SpentThen(p) => IsSpent(p))
  BY <1>1, ClosingKeeps
<1>3. Apart'
  BY <1>2, NextOf, PairType, <1>1 DEF ConsoleInv, Apart
<1>4. Unspent'
  BY <1>2, NextOf DEF ConsoleInv, Unspent, Rotated
<1> QED
  BY <1>3, <1>4 DEF Chained

(* A refresh is sent with the cookie while no answer with another is under way. *)
LEMMA AskedKeeps ==
  ASSUME ConsoleInv, UNCHANGED server, cookie' = cookie,
         login'.pair \in {login.pair, NoPair},
         refresh'.pair = cookie, refresh'.at = "sent",
         ~lost' => ~lost /\ ~Rotated, reused' = reused
  PROVE  Chained'
<1>1. Servers /\ {cookie, refresh.pair, login.pair} \subseteq Pair \cup {NoPair}
  BY Parts, CallType DEF ConsoleInv
<1>2. \A p \in {cookie, refresh.pair, login.pair} :
        (Opened(p) => OpenedThen(p)) /\ (SpentThen(p) => IsSpent(p))
  BY <1>1, ClosingKeeps DEF Closing
<1>3. Apart'
  BY <1>2, NextOf DEF ConsoleInv, Apart
<1>4. Unspent'
  BY <1>2, NextOf DEF ConsoleInv, Unspent
<1> QED
  BY <1>3, <1>4 DEF Chained

(* A refresh ends without a new token, or with an answer that is lost. *)
LEMMA EndedKeeps ==
  ASSUME ConsoleInv, UNCHANGED server, cookie' = cookie, login'.pair = login.pair,
         refresh' = NoCall, ~lost' => ~lost /\ ~Rotated, reused' = reused
  PROVE  Chained'
<1>1. Servers /\ {cookie, refresh.pair, login.pair} \subseteq Pair \cup {NoPair}
  BY Parts, CallType DEF ConsoleInv
<1>2. \A p \in {cookie, refresh.pair, login.pair} :
        (Opened(p) => OpenedThen(p)) /\ (SpentThen(p) => IsSpent(p))
  BY <1>1, ClosingKeeps DEF Closing
<1>3. refresh'.pair = NoPair
  BY NoCallType
<1>4. Apart'
  <2>1. login.pair # NoPair => NoPair.family # login.pair.family
    BY <1>1, PairType
  <2> QED
    BY <1>2, <1>3, <2>1, NextOf DEF ConsoleInv, Apart
<1>5. Unspent'
  BY <1>2, <1>3, NextOf DEF ConsoleInv, Unspent
<1> QED
  BY <1>4, <1>5 DEF Chained

-----------------------------------------------------------------------------
(* The server *)

LEMMA LoginServedKeeps == ASSUME ConsoleInv, LoginServed PROVE ConsoleInv'
<1>0. /\ Servers /\ Pages /\ Lates /\ cookie \in Pair \cup {NoPair} /\ token \in Pair \cup {NoPair}
      /\ refresh \in Call /\ login \in Call /\ logout \in Call
      /\ lost \in BOOLEAN /\ reused \in BOOLEAN /\ Apart /\ Unspent
  BY Parts DEF ConsoleInv
<1>1. UNCHANGED <<cookie, token, refresh, logout, page, late, lost, reused>>
  BY DEF LoginServed
<1>2. CASE login' = Answered(login, NoPair) /\ UNCHANGED server
  <2>1. login' \in Call /\ login'.pair = NoPair
    BY <1>0, <1>2, AnsweredType
  <2>2. Servers'
    BY <1>0, <1>2 DEF Servers, server
  <2>3. TypeOK'
    BY <1>0, <1>1, <2>1, <2>2, PartsNext DEF Pages, Lates
  <2>4. Chained'
    BY <1>1, <1>2, <2>1, QuietKeeps DEF Closing
  <2> QED
    BY <2>3, <2>4 DEF ConsoleInv, Chained
<1>3. ASSUME NEW f \in Family, Server!Open(f),
             login' = Answered(login, [family |-> f, n |-> 1])
      PROVE  ConsoleInv'
  <2>1. /\ state[f] = "unused"
        /\ state' = [state EXCEPT ![f] = "live"] /\ tokens' = [tokens EXCEPT ![f] = 1]
    BY <1>3 DEF Server!Open
  <2>2. /\ Servers' /\ state'[f] = "live" /\ tokens'[f] = 1
        /\ \A g \in Family \ {f} : state'[g] = state[g] /\ tokens'[g] = tokens[g]
    BY <1>0, <2>1 DEF Servers
  <2>3. PICK p \in Pair : p = [family |-> f, n |-> 1] /\ p.family = f /\ p.n = 1
    <3>1. 1 \in 1..MaxTokens
      OBVIOUS
    <3> QED
      BY <3>1, NewPair
  <2>4. login' \in Call /\ login'.pair = p
    <3>1. login' = Answered(login, p)
      BY <1>3, <2>3
    <3>2. login \in Call /\ p \in Pair \cup {NoPair}
      BY <1>0
    <3> QED
      BY <3>1, <3>2, AnsweredType
  <2>5. TypeOK'
    BY <1>0, <1>1, <2>2, <2>4, PartsNext DEF Pages, Lates
  <2>6. p.family = f /\ p.n = 1 /\ f # 0
    BY <2>3, PairType
  <2>7. OpenedThen(p) /\ ~SpentThen(p)
    BY <2>2, <2>6 DEF OpenedThen, SpentThen
  <2>8. ASSUME NEW q \in {cookie, refresh.pair}
        PROVE  q.family # f /\ OpenedThen(q) /\ (SpentThen(q) => IsSpent(q))
    <3>1. q \in Pair \cup {NoPair} /\ Opened(q)
      <4>1. refresh.pair \in Pair \cup {NoPair}
        BY <1>0, CallType
      <4> QED
        BY <1>0, <4>1 DEF Apart
    <3>2. CASE q = NoPair
      BY <2>6, <3>2, PairType DEF OpenedThen, SpentThen
    <3>3. CASE q # NoPair
      <4>1. q \in Pair /\ q.family \in Family /\ q.family # f
        BY <2>1, <3>1, <3>3, PairType DEF Opened
      <4> QED
        BY <2>2, <3>1, <4>1 DEF Opened, OpenedThen, IsSpent, SpentThen
    <3> QED
      BY <3>2, <3>3
  <2>9. Apart'
    BY <1>1, <2>4, <2>6, <2>7, <2>8, NextOf DEF Apart
  <2>10. Unspent'
    BY <1>0, <1>1, <2>4, <2>7, <2>8, NextOf DEF Unspent, Rotated
  <2> QED
    BY <2>5, <2>9, <2>10 DEF ConsoleInv
<1> QED
  BY <1>2, <1>3 DEF LoginServed

LEMMA RefreshServedKeeps == ASSUME ConsoleInv, RefreshServed PROVE ConsoleInv'
<1>0. /\ Servers /\ Pages /\ Lates /\ cookie \in Pair \cup {NoPair} /\ token \in Pair \cup {NoPair}
      /\ refresh \in Call /\ login \in Call /\ logout \in Call
      /\ lost \in BOOLEAN /\ reused \in BOOLEAN /\ Apart /\ Unspent
  BY Parts DEF ConsoleInv
<1>1. UNCHANGED <<cookie, token, login, logout, page, late, lost>> /\ refresh.at = "sent"
  BY DEF RefreshServed
<1>2. ~Rotated
  BY <1>1 DEF Rotated
<1>3. CASE /\ Closing /\ refresh' = Answered(refresh, NoPair)
           /\ reused' \in BOOLEAN /\ (IsSpent(refresh.pair) \/ reused' = reused)
  <2>1. refresh' \in Call /\ refresh'.pair = NoPair
    BY <1>0, <1>3, AnsweredType
  <2>2. {cookie, login.pair} \subseteq Pair \cup {NoPair}
    BY <1>0, CallType
  <2>3. /\ Servers'
        /\ \A p \in {cookie, login.pair} :
             (Opened(p) => OpenedThen(p)) /\ (SpentThen(p) => IsSpent(p))
    BY <1>0, <1>3, <2>2, ClosingKeeps
  <2>4. TypeOK'
    BY <1>0, <1>1, <1>3, <2>1, <2>3, PartsNext DEF Pages, Lates
  <2>5. Apart'
    <3>1. login.pair # NoPair => NoPair.family # login.pair.family
      BY <2>2, PairType
    <3> QED
      BY <1>0, <1>1, <2>1, <2>3, <3>1, NextOf DEF Apart
  <2>6. Unspent'
    BY <1>0, <1>1, <1>2, <1>3, <2>1, <2>3, NextOf DEF Unspent
  <2> QED
    BY <2>4, <2>5, <2>6 DEF ConsoleInv
<1>4. CASE /\ IsLatest(refresh.pair) /\ refresh.pair.n < MaxTokens
           /\ Server!Rotate(refresh.pair.family)
           /\ refresh' = Answered(refresh, [refresh.pair EXCEPT !.n = @ + 1])
           /\ UNCHANGED reused
  <2>1. PICK p \in Pair : p = refresh.pair /\ p.n = tokens[p.family] /\ state[p.family] = "live"
    BY <1>0, <1>4, CallType DEF IsLatest
  <2>2. p.family \in Family /\ p.n \in 1..MaxTokens
    BY <2>1, PairType
  <2>3. /\ state' = state /\ tokens' = [tokens EXCEPT ![p.family] = @ + 1]
    BY <1>4, <2>1 DEF Server!Rotate
  <2>4. p.n + 1 \in 1..MaxTokens
    BY <1>4, <2>1, <2>2
  <2>5. /\ Servers' /\ tokens'[p.family] = p.n + 1
        /\ \A g \in Family \ {p.family} : tokens'[g] = tokens[g]
    BY <1>0, <2>1, <2>2, <2>3, <2>4 DEF Servers
  <2>6. PICK q \in Pair : q = [p EXCEPT !.n = @ + 1] /\ q.family = p.family /\ q.n = p.n + 1
    BY <2>4, NextPair
  <2>7. refresh' \in Call /\ refresh'.pair = q /\ refresh'.at = "served"
    <3>1. refresh' = Answered(refresh, q)
      BY <1>4, <2>1, <2>6
    <3> QED
      BY <1>0, <3>1, AnsweredType
  <2>8. TypeOK'
    BY <1>0, <1>1, <1>4, <2>5, <2>7, PartsNext DEF Pages, Lates
  <2>9. OpenedThen(q) /\ ~SpentThen(q)
    BY <2>1, <2>2, <2>3, <2>5, <2>6 DEF OpenedThen, SpentThen
  <2>10. ASSUME NEW u \in {cookie, login.pair}
         PROVE  (Opened(u) => OpenedThen(u)) /\ (u.family # p.family => (SpentThen(u) => IsSpent(u)))
    <3>1. u \in Pair \cup {NoPair}
      <4>1. login.pair \in Pair \cup {NoPair}
        BY <1>0, CallType
      <4> QED
        BY <1>0, <4>1
    <3> QED
      BY <2>3, <2>5, <3>1, PairType DEF Opened, OpenedThen, IsSpent, SpentThen
  <2>11. Apart'
    BY <1>0, <1>1, <2>1, <2>6, <2>7, <2>9, <2>10, NextOf DEF Apart
  <2>12. Rotated' /\ refresh'.pair.family = p.family
    BY <2>6, <2>7, PairType DEF Rotated
  <2>13. ~lost => ~SpentThen(login.pair)
    <3>1. login.pair # NoPair => login.pair.family # p.family
      BY <1>0, <2>1 DEF Apart
    <3> QED
      BY <1>0, <2>10, <3>1, NextOf DEF Unspent
  <2>14. Unspent'
    BY <1>0, <1>1, <1>2, <1>4, <2>7, <2>9, <2>10, <2>12, <2>13, NextOf DEF Unspent
  <2> QED
    BY <2>8, <2>11, <2>14 DEF ConsoleInv
<1>5. CASE /\ IsSpent(refresh.pair) /\ Server!Close({refresh.pair.family})
           /\ refresh' = Answered(refresh, NoPair) /\ reused' = TRUE
  <2>1. refresh.pair.family \in Family
    BY <1>0, <1>5, CallType, PairType DEF IsSpent
  <2>2. Closing
    <3>1. {refresh.pair.family} \in SUBSET Family
      BY <2>1
    <3> QED
      BY <1>5, <3>1 DEF Closing
  <2> QED
    BY <1>3, <1>5, <2>2
<1>6. CASE /\ refresh' = Answered(refresh, NoPair) /\ UNCHANGED <<server, reused>>
  BY <1>0, <1>3, <1>6 DEF Closing
<1> QED
  BY <1>4, <1>5, <1>6 DEF RefreshServed

(* A refresh that is served late either changes nothing or loses its answer. *)
LEMMA LateServedKeeps == ASSUME ConsoleInv, NEW s \in Late, LateServed(s) PROVE ConsoleInv'
<1>0. /\ Servers /\ Pages /\ Lates /\ cookie \in Pair \cup {NoPair} /\ token \in Pair \cup {NoPair}
      /\ refresh \in Call /\ login \in Call /\ logout \in Call
      /\ lost \in BOOLEAN /\ reused \in BOOLEAN /\ Apart /\ Unspent
  BY Parts DEF ConsoleInv
<1>1. UNCHANGED <<cookie, token, refresh, login, logout, page>>
  BY DEF LateServed
<1>2. late[s] \in Pair \cup {NoPair} /\ Lates'
  BY <1>0 DEF LateServed, Lates
<1>3. {cookie, refresh.pair, login.pair} \subseteq Pair \cup {NoPair}
  BY <1>0, CallType
<1>4. ASSUME Servers', \A p \in {cookie, refresh.pair, login.pair} : Opened(p) => OpenedThen(p),
             lost' = TRUE, reused' \in BOOLEAN
      PROVE  ConsoleInv'
  <2>1. Apart'
    BY <1>0, <1>1, <1>4, NextOf DEF Apart
  <2>2. Unspent'
    BY <1>4 DEF Unspent
  <2>3. TypeOK'
    BY <1>0, <1>1, <1>2, <1>4, PartsNext DEF Pages
  <2> QED
    BY <2>1, <2>2, <2>3 DEF ConsoleInv
<1>5. CASE /\ IsLatest(late[s]) /\ late[s].n < MaxTokens /\ Server!Rotate(late[s].family)
           /\ lost' = TRUE /\ UNCHANGED reused
  <2>1. PICK p \in Pair : p = late[s] /\ p.n = tokens[p.family] /\ p.family \in Family
    BY <1>2, <1>5, PairType DEF IsLatest
  <2>2. state' = state /\ tokens' = [tokens EXCEPT ![p.family] = @ + 1]
    BY <1>5, <2>1 DEF Server!Rotate
  <2>3. tokens[p.family] + 1 \in 0..MaxTokens
    BY <1>5, <2>1, PairType
  <2>4. Servers'
    BY <1>0, <2>1, <2>2, <2>3 DEF Servers
  <2>5. \A q \in {cookie, refresh.pair, login.pair} : Opened(q) => OpenedThen(q)
    BY <2>2 DEF Opened, OpenedThen
  <2> QED
    BY <1>0, <1>4, <1>5, <2>4, <2>5
<1>6. CASE /\ IsSpent(late[s]) /\ Server!Close({late[s].family})
           /\ lost' = TRUE /\ reused' = TRUE
  <2>1. {late[s].family} \in SUBSET Family
    BY <1>2, <1>6, PairType DEF IsSpent
  <2>2. Closing
    BY <1>6, <2>1 DEF Closing
  <2>3. Servers' /\ \A q \in {cookie, refresh.pair, login.pair} : Opened(q) => OpenedThen(q)
    BY <1>0, <1>3, <2>2, ClosingKeeps
  <2> QED
    BY <1>4, <1>6, <2>3
<1>7. CASE UNCHANGED <<server, lost, reused>>
  <2>1. Closing
    BY <1>7 DEF Closing
  <2>2. Chained'
    BY <1>1, <1>7, <2>1, QuietKeeps
  <2>3. Servers'
    BY <1>0, <2>1, ClosingKeeps
  <2>4. TypeOK'
    BY <1>0, <1>1, <1>2, <1>7, <2>3, PartsNext DEF Pages
  <2> QED
    BY <2>2, <2>4 DEF ConsoleInv, Chained
<1> QED
  BY <1>5, <1>6, <1>7 DEF LateServed

-----------------------------------------------------------------------------
(* The rest of the type of a step that issues nothing *)
LEMMA TypeKeeps ==
  ASSUME ConsoleInv, Closing,
         cookie' \in Pair \cup {NoPair}, token' \in Pair \cup {NoPair},
         refresh' \in Call, login' \in Call, logout' \in Call, Pages', Lates',
         lost' \in BOOLEAN, reused' \in BOOLEAN
  PROVE  TypeOK'
<1>1. Servers'
  BY Parts, ClosingKeeps DEF ConsoleInv
<1> QED
  BY <1>1, PartsNext

LEMMA QuietStep ==
  ASSUME ConsoleInv,
         \/ LogoutServed \/ (\E f \in Family : EndsElsewhere(f))
         \/ LoginPressed \/ LoginFails \/ LogoutPressed \/ LogoutEnds
         \/ \E r \in Request : PageSends(r) \/ PageAnswered(r)
         \/ UNCHANGED vars
  PROVE  ConsoleInv'
<1>0. /\ Servers /\ Pages /\ Lates /\ cookie \in Pair \cup {NoPair} /\ token \in Pair \cup {NoPair}
      /\ refresh \in Call /\ login \in Call /\ logout \in Call
      /\ lost \in BOOLEAN /\ reused \in BOOLEAN
  BY Parts DEF ConsoleInv
<1> DEFINE
  Quiet ==
    /\ Closing /\ cookie' \in {cookie, NoPair} /\ token' \in {token, NoPair}
    /\ login' \in Call /\ login'.pair \in {login.pair, NoPair} /\ logout' \in Call
    /\ refresh' \in Call /\ refresh'.pair = refresh.pair /\ refresh'.at = refresh.at
    /\ Pages' /\ UNCHANGED <<late, lost, reused>>
<1>1. Quiet => ConsoleInv'
  <2> SUFFICES ASSUME Quiet PROVE ConsoleInv'
    OBVIOUS
  <2>1. Chained'
    BY QuietKeeps
  <2>2. TypeOK'
    BY <1>0, TypeKeeps DEF Lates
  <2> QED
    BY <2>1, <2>2 DEF ConsoleInv, Chained
<1>2. UNCHANGED server => Closing
  BY DEF Closing
<1>3. UNCHANGED page => Pages'
  BY <1>0 DEF Pages
<1>4. CASE LogoutServed
  <2>1. logout' = Answered(logout, NoPair)
        /\ UNCHANGED <<cookie, token, refresh, login, page, late, lost, reused>>
    BY <1>4 DEF LogoutServed
  <2>2. logout' \in Call
    BY <1>0, <2>1, AnsweredType
  <2>3. Closing
    <3>1. CASE UNCHANGED server
      BY <1>2, <3>1
    <3>2. CASE IsLatest(logout.pair) /\ Server!Close({logout.pair.family})
      <4>1. logout.pair \in Pair
        BY <1>0, <3>2, CallType DEF IsLatest
      <4>2. {logout.pair.family} \in SUBSET Family
        BY <4>1, PairType
      <4> QED
        BY <3>2, <4>2 DEF Closing
    <3> QED
      BY <1>4, <3>1, <3>2 DEF LogoutServed
  <2> QED
    BY <1>0, <1>1, <1>3, <2>1, <2>2, <2>3
<1>5. ASSUME NEW f \in Family, EndsElsewhere(f) PROVE ConsoleInv'
  <2>1. Server!Close({f}) /\ UNCHANGED <<cookie, token, refresh, login, logout, page, late, lost, reused>>
    BY <1>5 DEF EndsElsewhere
  <2>2. {f} \in SUBSET Family
    OBVIOUS
  <2>3. Closing
    BY <2>1, <2>2 DEF Closing
  <2> QED
    BY <1>0, <1>1, <1>3, <2>1, <2>3
<1>6. CASE LoginPressed
  <2>1. login' = [Sent EXCEPT !.pair = NoPair]
        /\ UNCHANGED <<server, cookie, token, refresh, logout, page, late, lost, reused>>
    BY <1>6 DEF LoginPressed
  <2>2. login' \in Call /\ login'.pair = NoPair
    BY <1>0, <2>1, SentType
  <2> QED
    BY <1>0, <1>1, <1>2, <1>3, <2>1, <2>2
<1>7. CASE LoginFails
  <2>1. login' = NoCall
        /\ UNCHANGED <<server, cookie, token, refresh, logout, page, late, lost, reused>>
    BY <1>7 DEF LoginFails
  <2> QED
    BY <1>0, <1>1, <1>2, <1>3, <2>1, NoCallType
<1>8. CASE LogoutPressed
  <2>1. /\ token' = NoPair /\ logout' = Sent
        /\ page' = [r \in Request |-> OutdatedPage(page[r])]
        /\ refresh' = Outdated(refresh) /\ login' = Outdated(login)
        /\ UNCHANGED <<server, cookie, late, lost, reused>>
    BY <1>8 DEF LogoutPressed, VersionUp
  <2>2. /\ refresh' \in Call /\ refresh'.pair = refresh.pair /\ refresh'.at = refresh.at
        /\ login' \in Call /\ login'.pair = login.pair
    BY <1>0, <2>1, CallType
  <2>3. logout' \in Call
    BY <1>0, <2>1, SentType
  <2>4. Pages'
    BY <1>0, <2>1, PagesKeep DEF Pages
  <2> QED
    BY <1>1, <1>2, <2>1, <2>2, <2>3, <2>4
<1>9. CASE LogoutEnds
  <2>1. /\ logout' = NoCall /\ cookie' \in {cookie, NoPair}
        /\ UNCHANGED <<server, token, refresh, login, page, late, lost, reused>>
    BY <1>9 DEF LogoutEnds
  <2> QED
    BY <1>0, <1>1, <1>2, <1>3, <2>1, NoCallType
<1>10. ASSUME NEW r \in Request, PageSends(r) \/ PageAnswered(r) PROVE ConsoleInv'
  <2>1. UNCHANGED <<server, cookie, token, refresh, login, logout, late, lost, reused>>
    BY <1>10 DEF PageSends, PageAnswered
  <2>2. PICK p \in Page : page' = [page EXCEPT ![r] = p]
    <3>1. [at |-> "sent", current |-> TRUE, retried |-> FALSE, same |-> TRUE] \in Page
      BY DEF Page
    <3> QED
      BY <1>10, <3>1, PageType DEF PageSends, PageAnswered
  <2>3. Pages'
    BY <1>0, <2>2 DEF Pages
  <2> QED
    BY <1>0, <1>1, <1>2, <2>1, <2>3
<1>11. CASE UNCHANGED vars
  BY <1>0, <1>1, <1>2, <1>3, <1>11 DEF vars
<1> QED
  BY <1>4, <1>5, <1>6, <1>7, <1>8, <1>9, <1>10, <1>11

(* A login is answered: the cookie is that of the new sign-in. *)
LEMMA LoginAnsweredKeeps == ASSUME ConsoleInv, LoginAnswered PROVE ConsoleInv'
<1>0. /\ Servers /\ Pages /\ Lates /\ cookie \in Pair \cup {NoPair} /\ token \in Pair \cup {NoPair}
      /\ refresh \in Call /\ login \in Call /\ logout \in Call
      /\ lost \in BOOLEAN /\ reused \in BOOLEAN /\ Apart /\ Unspent
  BY Parts DEF ConsoleInv
<1>1. /\ login.pair # NoPair /\ cookie' = login.pair /\ login' = NoCall
      /\ token' \in {token, login.pair}
      /\ refresh' \in {refresh, Outdated(refresh)}
      /\ page' \in {page, [r \in Request |-> OutdatedPage(page[r])]}
      /\ UNCHANGED <<server, logout, late, lost, reused>>
  BY DEF LoginAnswered
<1>2. login.pair \in Pair \cup {NoPair} /\ refresh.pair \in Pair \cup {NoPair}
  BY <1>0, CallType
<1>3. refresh' \in Call /\ refresh'.pair = refresh.pair /\ refresh'.at = refresh.at
  BY <1>0, <1>1, CallType
<1>4. Pages'
  BY <1>0, <1>1, PagesKeep DEF Pages
<1>5. Closing /\ login'.pair = NoPair /\ login' \in Call
  BY <1>1, NoCallType DEF Closing
<1>6. TypeOK'
  BY <1>0, <1>1, <1>2, <1>3, <1>4, <1>5, TypeKeeps DEF Lates
<1>7. \A p \in {refresh.pair, login.pair} :
        (Opened(p) => OpenedThen(p)) /\ (SpentThen(p) => IsSpent(p))
  BY <1>0, <1>2, <1>5, ClosingKeeps
<1>8. Apart'
  BY <1>0, <1>1, <1>3, <1>5, <1>7, NextOf DEF Apart
<1>9. Unspent'
  BY <1>0, <1>1, <1>3, <1>5, <1>7, NextOf DEF Unspent
<1> QED
  BY <1>6, <1>8, <1>9 DEF ConsoleInv

(* The cookie is that of the answer, which is not spent. *)
LEMMA RefreshSucceedsKeeps == ASSUME ConsoleInv, RefreshSucceeds PROVE ConsoleInv'
<1>0. /\ Servers /\ Pages /\ Lates /\ cookie \in Pair \cup {NoPair} /\ token \in Pair \cup {NoPair}
      /\ refresh \in Call /\ login \in Call /\ logout \in Call
      /\ lost \in BOOLEAN /\ reused \in BOOLEAN /\ Apart /\ Unspent
  BY Parts DEF ConsoleInv
<1>1. /\ cookie' = refresh.pair /\ refresh' = NoCall
      /\ token' \in {token, refresh.pair}
      /\ page' = [r \in Request |->
           Settled([page[r] EXCEPT !.same = @ /\ ~refresh.current], refresh.current)]
      /\ UNCHANGED <<server, login, logout, late, lost, reused>>
  BY DEF RefreshSucceeds
<1>2. /\ login.pair \in Pair \cup {NoPair} /\ refresh.pair \in Pair \cup {NoPair}
      /\ refresh.current \in BOOLEAN /\ (~refresh.current) \in BOOLEAN
  <2>1. /\ login.pair \in Pair \cup {NoPair} /\ refresh.pair \in Pair \cup {NoPair}
        /\ refresh.current \in BOOLEAN
    BY <1>0, CallType
  <2>2. (~refresh.current) \in BOOLEAN
    OBVIOUS
  <2> QED
    BY <2>1, <2>2
<1>3. Pages'
  BY <1>0, <1>1, <1>2, PagesKeep DEF Pages
<1>4. Closing /\ refresh'.pair = NoPair /\ refresh' \in Call
  BY <1>1, NoCallType DEF Closing
<1>5. TypeOK'
  BY <1>0, <1>1, <1>2, <1>3, <1>4, TypeKeeps DEF Lates
<1>6. \A p \in {refresh.pair, login.pair} :
        (Opened(p) => OpenedThen(p)) /\ (SpentThen(p) => IsSpent(p))
  BY <1>0, <1>2, <1>4, ClosingKeeps
<1>7. Apart'
  <2>1. login.pair # NoPair => NoPair.family # login.pair.family
    BY <1>2, PairType
  <2> QED
    BY <1>0, <1>1, <1>4, <1>6, <2>1, NextOf DEF Apart
<1>8. Unspent'
  BY <1>0, <1>1, <1>4, <1>6, NextOf DEF Unspent
<1> QED
  BY <1>5, <1>7, <1>8 DEF ConsoleInv

(* Giving a refresh up is noted when it loses an answer. *)
LEMMA GivenUpKeeps ==
  ASSUME Lates, lost \in BOOLEAN, refresh \in Call, GivenUp
  PROVE  Lates' /\ lost' \in BOOLEAN /\ (~lost' => ~lost /\ ~Rotated)
<1>1. refresh.pair \in Pair \cup {NoPair}
  BY CallType
<1> QED
  BY <1>1 DEF GivenUp, Lates, Rotated

LEMMA RefreshEndsKeeps ==
  ASSUME ConsoleInv, RefreshRefused \/ RefreshFails PROVE ConsoleInv'
<1>0. /\ Servers /\ Pages /\ Lates /\ cookie \in Pair \cup {NoPair} /\ token \in Pair \cup {NoPair}
      /\ refresh \in Call /\ login \in Call /\ logout \in Call
      /\ lost \in BOOLEAN /\ reused \in BOOLEAN
  BY Parts DEF ConsoleInv
<1>1. /\ refresh' = NoCall /\ token' \in {token, NoPair} /\ login' \in {login, Outdated(login)}
      /\ page' \in {[r \in Request |-> OutdatedPage(Settled(page[r], FALSE))],
                    [r \in Request |-> Settled(page[r], FALSE)]}
      /\ UNCHANGED <<server, cookie, logout, reused>>
  BY DEF RefreshRefused, RefreshFails
<1>2. lost' \in BOOLEAN /\ (~lost' => ~lost /\ ~Rotated) /\ Lates'
  <2>1. CASE RefreshRefused
    BY <1>0, <2>1 DEF RefreshRefused, Rotated, Lates
  <2>2. CASE RefreshFails
    BY <1>0, <2>2, GivenUpKeeps DEF RefreshFails
  <2> QED
    BY <2>1, <2>2
<1>3. login' \in Call /\ login'.pair = login.pair /\ refresh' \in Call
  BY <1>0, <1>1, CallType, NoCallType
<1>4. Pages'
  BY <1>0, <1>1, PagesKeep DEF Pages
<1>5. Closing /\ UNCHANGED server /\ cookie' = cookie
  BY <1>1 DEF Closing, server
<1>6. Chained'
  BY <1>1, <1>2, <1>3, <1>5, EndedKeeps
<1>7. TypeOK'
  BY <1>0, <1>1, <1>2, <1>3, <1>4, <1>5, TypeKeeps DEF Lates
<1> QED
  BY <1>6, <1>7 DEF ConsoleInv, Chained

LEMMA ReloadKeeps == ASSUME ConsoleInv, Reload PROVE ConsoleInv'
<1>0. /\ Servers /\ Pages /\ Lates /\ cookie \in Pair \cup {NoPair}
      /\ refresh \in Call /\ lost \in BOOLEAN /\ reused \in BOOLEAN
  BY Parts DEF ConsoleInv
<1>1. /\ refresh' = Sent /\ token' = NoPair /\ login' = NoCall /\ logout' = NoCall
      /\ page' = [r \in Request |-> NoPage] /\ GivenUp
      /\ UNCHANGED <<server, cookie, reused>>
  BY DEF Reload
<1>2. /\ refresh' \in Call /\ refresh'.pair = cookie /\ refresh'.at = "sent"
      /\ login' \in Call /\ login'.pair = NoPair /\ logout' \in Call
  BY <1>0, <1>1, SentType, NoCallType
<1>3. Lates' /\ lost' \in BOOLEAN /\ (~lost' => ~lost /\ ~Rotated)
  BY <1>0, <1>1, GivenUpKeeps
<1>4. Pages' /\ Closing /\ UNCHANGED server
  BY <1>0, <1>1, PageType DEF Pages, Closing, server
<1>5. Chained'
  BY <1>1, <1>2, <1>3, <1>4, AskedKeeps
<1>6. TypeOK'
  BY <1>0, <1>1, <1>2, <1>3, <1>4, TypeKeeps
<1> QED
  BY <1>5, <1>6 DEF ConsoleInv, Chained

LEMMA PageRefusedKeeps ==
  ASSUME ConsoleInv, NEW r \in Request, PageRefused(r) PROVE ConsoleInv'
<1>0. /\ Servers /\ Pages /\ Lates /\ cookie \in Pair \cup {NoPair} /\ token \in Pair \cup {NoPair}
      /\ refresh \in Call /\ login \in Call /\ logout \in Call
      /\ lost \in BOOLEAN /\ reused \in BOOLEAN
  BY Parts DEF ConsoleInv
<1>1. UNCHANGED <<server, cookie, token, login, logout, late, lost, reused>>
  BY DEF PageRefused
<1>2. Pages'
  <2>1. page[r] \in Page /\ [page[r] EXCEPT !.at = "wait"] \in Page
    BY <1>0 DEF Pages, Page
  <2>2. PICK p \in Page : page' = [page EXCEPT ![r] = p]
    BY <2>1, PageType DEF PageRefused
  <2> QED
    BY <1>0, <2>2 DEF Pages
<1>3. Closing /\ UNCHANGED server
  BY <1>1 DEF Closing, server
<1>4. CASE refresh' = refresh
  <2>1. Chained'
    BY <1>1, <1>3, <1>4, QuietKeeps
  <2>2. TypeOK'
    BY <1>0, <1>1, <1>2, <1>3, <1>4, TypeKeeps DEF Lates
  <2> QED
    BY <2>1, <2>2 DEF ConsoleInv, Chained
<1>5. CASE refresh.at = "idle" /\ refresh' = Sent
  <2>1. refresh' \in Call /\ refresh'.pair = cookie /\ refresh'.at = "sent"
    BY <1>0, <1>5, SentType
  <2>2. ~lost' => ~lost /\ ~Rotated
    BY <1>1, <1>5 DEF Rotated
  <2>3. Chained'
    BY <1>1, <1>3, <2>1, <2>2, AskedKeeps
  <2>4. TypeOK'
    BY <1>0, <1>1, <1>2, <1>3, <2>1, TypeKeeps DEF Lates
  <2> QED
    BY <2>3, <2>4 DEF ConsoleInv, Chained
<1> QED
  BY <1>4, <1>5 DEF PageRefused, RefreshWanted

-----------------------------------------------------------------------------
LEMMA InitInv == Init => ConsoleInv
<1> SUFFICES ASSUME Init PROVE ConsoleInv
  OBVIOUS
<1>1. /\ state = [f \in Family |-> "unused"] /\ tokens = [f \in Family |-> 0]
      /\ cookie = NoPair /\ token = NoPair
      /\ refresh = NoCall /\ login = NoCall /\ logout = NoCall
      /\ page = [r \in Request |-> NoPage] /\ late = [s \in Late |-> NoPair]
      /\ lost = FALSE /\ reused = FALSE
  BY DEF Init, Server!Init
<1>2. Servers /\ Pages /\ Lates
  <2>1. 0 \in 0..MaxTokens
    OBVIOUS
  <2> QED
    BY <1>1, <2>1, PageType DEF Servers, Pages, Lates
<1>3. TypeOK
  BY <1>1, <1>2, NoCallType, Parts
<1>4. Apart /\ Unspent
  BY <1>1, NoCallType DEF Apart, Unspent, Opened, IsSpent
<1> QED
  BY <1>3, <1>4 DEF ConsoleInv

LEMMA StepInv == ConsoleInv /\ [Next]_vars => ConsoleInv'
<1> SUFFICES ASSUME ConsoleInv, [Next]_vars PROVE ConsoleInv'
  OBVIOUS
<1>1. CASE LoginServed
  BY <1>1, LoginServedKeeps
<1>2. CASE RefreshServed
  BY <1>2, RefreshServedKeeps
<1>3. CASE \/ LogoutServed \/ (\E f \in Family : EndsElsewhere(f))
           \/ LoginPressed \/ LoginFails \/ LogoutPressed \/ LogoutEnds
           \/ \E r \in Request : PageSends(r) \/ PageAnswered(r)
           \/ UNCHANGED vars
  BY <1>3, QuietStep
<1>4. CASE LoginAnswered
  BY <1>4, LoginAnsweredKeeps
<1>5. CASE RefreshSucceeds
  BY <1>5, RefreshSucceedsKeeps
<1>6. CASE RefreshRefused \/ RefreshFails
  BY <1>6, RefreshEndsKeeps
<1>7. ASSUME NEW r \in Request, PageRefused(r) PROVE ConsoleInv'
  BY <1>7, PageRefusedKeeps
<1>8. CASE Reload
  BY <1>8, ReloadKeeps
<1>9. ASSUME NEW s \in Late, LateServed(s) PROVE ConsoleInv'
  BY <1>9, LateServedKeeps
<1> QED
  BY <1>1, <1>2, <1>3, <1>4, <1>5, <1>6, <1>7, <1>8, <1>9 DEF Next

(* In every reachable state the token of the refresh under way is not spent, unless
   the server acted on a refresh that had been, or was to be, given up
   (http.js:28). *)
THEOREM Invariant == Spec => []ConsoleInv
<1>1. Init => ConsoleInv
  BY InitInv
<1>2. ConsoleInv /\ [Next]_vars => ConsoleInv'
  BY StepInv
<1> QED
  BY <1>1, <1>2, PTL DEF Spec

(* However many requests are refused at once, and however logins, logouts, reloads
   and refreshes overlap, the tab does not make the server take it for a thief, unless
   the server acts on a refresh that the tab has given up: before it did, and the
   answer is lost, or after, at any time later, also when a refresh with the same
   cookie has been answered meanwhile (http.js:28, AuthService.js:180). *)
THEOREM NeverAccusesItself == Spec => []NoReuseOfItsOwn
<1>1. ConsoleInv => NoReuseOfItsOwn
  BY DEF ConsoleInv, Unspent, NoReuseOfItsOwn
<1> QED
  BY <1>1, Invariant, PTL

(* All that the requests of the tab make of the server's sign-ins, and what ends
   them elsewhere, is a behaviour of TokenFamilies: the tab is proved beside the
   server that Sessions implements, and beside no other (refreshRotation.js:18). *)
THEOREM ServerIsTokenFamilies == Spec => Server!Spec
<1>1. Init => Server!Init
  BY DEF Init
<1>2. ConsoleInv /\ [Next]_vars => [Server!Next]_(Server!vars)
  <2> SUFFICES ASSUME ConsoleInv, [Next]_vars PROVE [Server!Next]_(Server!vars)
    OBVIOUS
  <2>1. UNCHANGED server => UNCHANGED Server!vars
    BY DEF server, Server!vars
  <2>2. ASSUME NEW p, IsLatest(p) \/ IsSpent(p), p \in Pair \cup {NoPair}
        PROVE  p.family \in Family
    BY <2>2 DEF IsLatest, IsSpent, Pair
  <2>3. CASE LoginServed
    BY <2>1, <2>3 DEF LoginServed, Server!Next
  <2>4. CASE RefreshServed
    <3>1. refresh.pair \in Pair \cup {NoPair}
      BY Parts, CallType DEF ConsoleInv
    <3>2. CASE IsLatest(refresh.pair) /\ Server!Rotate(refresh.pair.family)
      BY <2>2, <3>1, <3>2 DEF Server!Next
    <3>3. CASE IsSpent(refresh.pair) /\ Server!Close({refresh.pair.family})
      BY <2>2, <3>1, <3>3 DEF Server!Next
    <3> QED
      BY <2>1, <2>4, <3>2, <3>3 DEF RefreshServed
  <2>5. CASE LogoutServed
    <3>1. logout.pair \in Pair \cup {NoPair}
      BY Parts, CallType DEF ConsoleInv
    <3>2. CASE IsLatest(logout.pair) /\ Server!Close({logout.pair.family})
      BY <2>2, <3>1, <3>2 DEF Server!Next
    <3> QED
      BY <2>1, <2>5, <3>2 DEF LogoutServed
  <2>6. ASSUME NEW f \in Family, EndsElsewhere(f) PROVE Server!Next
    BY <2>6 DEF EndsElsewhere, Server!Next
  <2>9. ASSUME NEW s \in Late, LateServed(s) PROVE [Server!Next]_(Server!vars)
    <3>1. late[s] \in Pair \cup {NoPair}
      BY Parts DEF ConsoleInv, Lates
    <3>2. CASE IsLatest(late[s]) /\ Server!Rotate(late[s].family)
      BY <2>2, <3>1, <3>2 DEF Server!Next
    <3>3. CASE IsSpent(late[s]) /\ Server!Close({late[s].family})
      BY <2>2, <3>1, <3>3 DEF Server!Next
    <3> QED
      BY <2>1, <2>9, <3>2, <3>3 DEF LateServed
  <2>7. CASE UNCHANGED server
    BY <2>1, <2>7
  <2>8. \/ LoginServed \/ RefreshServed \/ LogoutServed
        \/ \E s \in Late : LateServed(s)
        \/ \E f \in Family : EndsElsewhere(f)
        \/ UNCHANGED server
    BY DEF Next, vars, LoginPressed, LoginAnswered, LoginFails, LogoutPressed, LogoutEnds,
           RefreshSucceeds, RefreshRefused, RefreshFails, PageSends, PageAnswered,
           PageRefused, Reload
  <2> QED
    BY <2>3, <2>4, <2>5, <2>6, <2>7, <2>8, <2>9
<1> QED
  BY <1>1, <1>2, Invariant, PTL DEF Spec, Server!Spec
=============================================================================
