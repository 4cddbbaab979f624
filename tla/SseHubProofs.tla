----------------------------- MODULE SseHubProofs -----------------------------
(***************************************************************************)
(* For any number of browsers and tickets and all limits: the books of the *)
(* hub agree, every stream is in order and has no hole that the history    *)
(* could have filled, and a ticket opens one stream.                       *)
(*                                                                         *)
(* The limits are tested in attach() and in subscribe(), with the handler  *)
(* in between; that one client is not counted twice follows from where its *)
(* request is in the route (Places).  A stream is in order because the     *)
(* history is (History) and because nothing is sent on it before it is     *)
(* subscribed (Streams): what follows the replay is newer than all of it.  *)
(***************************************************************************)
EXTENDS SseHubProps, FiniteSetTheorems, SequenceTheorems, TLAPS

(* A request of a client is in the route at the place the hub thinks it is. *)
Places ==
  /\ clients = {c \in Client : pc[c] \in {"handler", "open"}}
  /\ members = {c \in Client : pc[c] = "open"}

Limits ==
  /\ IsFiniteSet(clients) /\ Cardinality(clients) <= MaxClients
  /\ IsFiniteSet(members) /\ Cardinality(members) <= MaxClientsPerChannel

Beats == heartbeat <=> clients # {}

Ascending(s) == \A i, j \in 1..Len(s) : i < j => s[i] < s[j]
UpTo(s, n) == \A i \in 1..Len(s) : s[i] <= n

History == Ascending(past) /\ UpTo(past, seq)

Streams ==
  \A c \in Client :
    /\ c \notin members => stream[c] = <<>>
    /\ Ascending(stream[c]) /\ UpTo(stream[c], seq)

(* What the history has and the stream had to begin after is on the stream,
   also on those that are broken. *)
Complete ==
  \A c \in members : \A i \in 1..Len(past) :
    past[i] > since[c] => \E j \in 1..Len(stream[c]) : stream[c][j] = past[i]

(* A ticket that is still there was not accepted. *)
Unused == \A t \in Ticket :
  /\ accepted[t] <= 1
  /\ ticket[t] # "gone" => accepted[t] = 0

HubInv ==
  /\ TypeOK
  /\ Places
  /\ Limits
  /\ Beats
  /\ History
  /\ Streams
  /\ Complete
  /\ Unused

-----------------------------------------------------------------------------
(* Sequences that ascend *)

LEMMA Bounds ==
  /\ MaxClients \in Nat \ {0} /\ MaxClientsPerChannel \in Nat \ {0}
  /\ HistorySize \in Nat \ {0}
  /\ MaxEvents \in Nat \ {0} /\ MaxRestarts \in Nat
BY HubLimits DEF HubLimits

LEMMA Ids == \A n \in Id : n \in Nat /\ n > 0 /\ n <= MaxEvents
BY Bounds DEF Id

LEMMA Elements ==
  ASSUME NEW s \in Seq(Id)
  PROVE  Len(s) \in Nat /\ DOMAIN s = 1..Len(s) /\ \A i \in 1..Len(s) : s[i] \in Nat
BY Ids

LEMMA EmptyAscends == ASSUME NEW n PROVE Ascending(<<>>) /\ UpTo(<<>>, n)
BY DEF Ascending, UpTo

LEMMA AppendAscends ==
  ASSUME NEW s \in Seq(Id), NEW n \in Nat, n + 1 \in Id, Ascending(s), UpTo(s, n)
  PROVE  /\ Ascending(Append(s, n + 1)) /\ UpTo(Append(s, n + 1), n + 1)
         /\ Append(s, n + 1) \in Seq(Id) /\ Len(Append(s, n + 1)) = Len(s) + 1
         /\ \A i \in 1..Len(s) : Append(s, n + 1)[i] = s[i]
         /\ Append(s, n + 1)[Len(s) + 1] = n + 1
<1>1. /\ Append(s, n + 1) \in Seq(Id) /\ Len(Append(s, n + 1)) = Len(s) + 1
      /\ \A i \in 1..Len(s) : Append(s, n + 1)[i] = s[i]
      /\ Append(s, n + 1)[Len(s) + 1] = n + 1
  BY AppendProperties
<1> QED
  BY <1>1, Elements DEF Ascending, UpTo

LEMMA TailAscends ==
  ASSUME NEW s \in Seq(Id), s # <<>>, NEW n, Ascending(s), UpTo(s, n)
  PROVE  /\ Ascending(Tail(s)) /\ UpTo(Tail(s), n) /\ Tail(s) \in Seq(Id)
         /\ Len(Tail(s)) = Len(s) - 1
         /\ \A i \in 1..Len(Tail(s)) : Tail(s)[i] = s[i + 1]
<1>1. /\ Tail(s) \in Seq(Id) /\ Len(Tail(s)) = Len(s) - 1 /\ Len(s) \in Nat
      /\ \A i \in 1..Len(Tail(s)) : Tail(s)[i] = s[i + 1]
  BY HeadTailProperties
<1> QED
  BY <1>1 DEF Ascending, UpTo

LEMMA SuffixAscends ==
  ASSUME NEW s \in Seq(Id), NEW n \in Nat, Ascending(s), UpTo(s, n),
         NEW t \in Seq(Id), NEW k \in 0..Len(s), Len(t) = Len(s) - k,
         \A i \in 1..(Len(s) - k) : t[i] = s[k + i]
  PROVE  Ascending(t) /\ UpTo(t, n)
<1>1. Len(s) \in Nat /\ k \in Nat
  BY Elements
<1>2. \A i \in 1..Len(t) : k + i \in 1..Len(s) /\ t[i] = s[k + i]
  BY <1>1
<1>3. \A i, j \in 1..Len(t) : i < j => k + i < k + j
  BY <1>1
<1> QED
  BY <1>2, <1>3 DEF Ascending, UpTo

LEMMA UpToMonotonic ==
  ASSUME NEW s \in Seq(Id), NEW n \in Nat, UpTo(s, n) PROVE UpTo(s, n + 1)
BY Elements DEF UpTo

LEMMA Span ==
  ASSUME NEW a \in Nat, NEW b \in Nat, a <= b + 1
  PROVE  IsFiniteSet(a..b) /\ Cardinality(a..b) = b + 1 - a
BY FS_Interval

(* A set that holds with a number all those up to n consists of the last ones. *)
LEMMA UpperPart ==
  ASSUME NEW n \in Nat, NEW T \in SUBSET (1..n), \A i \in T : i..n \subseteq T
  PROVE  \E k \in 0..n : T = (k + 1)..n
<1>1. IsFiniteSet(1..n) /\ Cardinality(1..n) = n
  BY Span
<1>2. IsFiniteSet(T) /\ Cardinality(T) <= n
  BY <1>1, FS_Subset
<1>3. Cardinality(T) \in 0..n
  BY <1>2, FS_CardinalityType
<1> DEFINE k == n - Cardinality(T)
<1>4. k \in 0..n /\ Cardinality(T) = n - k
  BY <1>3
<1> HIDE DEF k
<1>5. ASSUME NEW i \in T, i <= k PROVE FALSE
  <2>1. i \in Nat /\ i <= n + 1 /\ i >= 1
    OBVIOUS
  <2>2. Cardinality(i..n) = n + 1 - i
    BY <2>1, Span
  <2>3. Cardinality(i..n) <= Cardinality(T)
    BY <1>2, FS_Subset
  <2> QED
    BY <1>4, <1>5, <2>1, <2>2, <2>3
<1>6. ASSUME NEW i \in (k + 1)..n, i \notin T PROVE FALSE
  <2>1. i \in 1..n
    BY <1>4
  <2>2. T \subseteq (i + 1)..n
    <3>1. ASSUME NEW j \in T, j <= i PROVE FALSE
      BY <1>6, <2>1, <3>1
    <3> QED
      BY <2>1, <3>1
  <2>3. IsFiniteSet((i + 1)..n) /\ Cardinality((i + 1)..n) = n - i
    BY <2>1, Span
  <2>4. Cardinality(T) <= n - i
    BY <2>2, <2>3, FS_Subset
  <2> QED
    BY <1>4, <1>6, <2>1, <2>4
<1>7. \A i \in 1..n : i \in T <=> i \in (k + 1)..n
  BY <1>4, <1>5, <1>6
<1>8. T = (k + 1)..n
  <2>1. T \subseteq (k + 1)..n
    BY <1>4, <1>7
  <2>2. (k + 1)..n \subseteq T
    BY <1>4, <1>7
  <2> QED
    BY <2>1, <2>2
<1> QED
  BY <1>4, <1>8

(* The n-th of the numbers from k + 1 to m is k + n. *)
LEMMA NthOfInterval ==
  ASSUME NEW m \in Nat, NEW k \in 0..m, NEW T, T = (k + 1)..m
  PROVE  Cardinality(T) = m - k /\ \A n \in 1..(m - k) : Nth(T, n) = k + n
<1>1. Cardinality(T) = m - k
  BY Span
<1> SUFFICES ASSUME NEW n \in 1..(m - k) PROVE Nth(T, n) = k + n
  BY <1>1
<1> DEFINE At(i) == Cardinality({j \in T : j <= i}) = n
<1>2. ASSUME NEW i \in T PROVE At(i) <=> i = k + n
  <2>1. {j \in T : j <= i} = (k + 1)..i
    OBVIOUS
  <2>2. i \in Nat /\ k + 1 \in Nat /\ k + 1 <= i + 1
    OBVIOUS
  <2>3. Cardinality((k + 1)..i) = i + 1 - (k + 1)
    BY <2>2, Span
  <2>4. At(i) <=> i + 1 - (k + 1) = n
    BY <2>1, <2>3
  <2> QED
    BY <2>2, <2>4
<1>3. k + n \in T
  OBVIOUS
<1> HIDE DEF At
<1>4. (CHOOSE i \in T : At(i)) = k + n
  BY <1>2, <1>3
<1> QED
  BY <1>4 DEF At, Nth

(* In a history that ascends the events a browser has not got are its last
   ones, and Missed() is that part of it. *)
LEMMA MissedIsSuffix ==
  ASSUME NEW c \in Client, past \in Seq(Id), lastId[c] \in Nat, Ascending(past)
  PROVE  \E k \in 0..Len(past) :
           /\ Missed(c) \in Seq(Id) /\ Len(Missed(c)) = Len(past) - k
           /\ \A n \in 1..(Len(past) - k) : Missed(c)[n] = past[k + n]
           /\ \A i \in 1..Len(past) : past[i] > lastId[c] => i > k
<1>1. Len(past) \in Nat /\ \A i \in 1..Len(past) : past[i] \in Nat
  BY Elements
<1>2. DOMAIN past = 1..Len(past)
  BY Elements
<1>3. /\ \A i \in 1..Len(past) : i \in Newer(c) <=> past[i] > lastId[c]
      /\ Newer(c) \subseteq 1..Len(past)
  BY <1>2 DEF Newer
<1>4. ASSUME NEW i \in Newer(c) PROVE i..Len(past) \subseteq Newer(c)
  BY <1>1, <1>3 DEF Ascending
<1>5. PICK k \in 0..Len(past) : Newer(c) = (k + 1)..Len(past)
  BY <1>1, <1>3, <1>4, UpperPart
<1>6. k \in Nat /\ Len(past) - k \in Nat
  BY <1>1
<1>7. /\ Cardinality(Newer(c)) = Len(past) - k
      /\ \A n \in 1..(Len(past) - k) : Nth(Newer(c), n) = k + n
  BY <1>1, <1>5, NthOfInterval
<1>8. Missed(c) = [n \in 1..(Len(past) - k) |-> past[k + n]]
  BY <1>7 DEF Missed
<1>9. \A n \in 1..(Len(past) - k) : past[k + n] \in Id
  BY <1>1
<1>10. Missed(c) \in Seq(Id) /\ Len(Missed(c)) = Len(past) - k
  BY <1>1, <1>6, <1>8, <1>9
<1>11. \A i \in 1..Len(past) : past[i] > lastId[c] => i > k
  BY <1>1, <1>3, <1>5
<1> QED
  BY <1>1, <1>8, <1>10, <1>11

-----------------------------------------------------------------------------
(* Parts of a step *)

(* Where a step keeps hub and browsers. *)
LEMMA HubUnchanged ==
  ASSUME HubInv, UNCHANGED <<pc, hubVars, browserVars>>
  PROVE  Places' /\ Limits' /\ Beats' /\ History' /\ Streams' /\ Complete'
BY DEF HubInv, hubVars, browserVars, Places, Limits, Beats, History, Ascending, UpTo,
       Streams, Complete

(* The streams of some clients end. *)
LEMMA EndedTypes ==
  ASSUME TypeOK, NEW cs, NEW sent \in [Client -> Seq(Id)], Ended(cs, sent)
  PROVE  /\ pc' \in [Client -> {"away", "account", "handler", "open"}]
         /\ broken' \in [Client -> BOOLEAN]
         /\ lastId' \in [Client -> 0..MaxEvents]
         /\ alien' \in [Client -> BOOLEAN]
         /\ stream' \in [Client -> Seq(Id)]
<1>1. pc' \in [Client -> {"away", "account", "handler", "open"}]
  BY DEF TypeOK, Ended
<1>2. broken' \in [Client -> BOOLEAN] /\ alien' \in [Client -> BOOLEAN]
  BY DEF TypeOK, Ended
<1>3. {0} \cup Id = 0..MaxEvents
  BY Bounds DEF Id
<1>4. lastId' \in [Client -> 0..MaxEvents]
  BY <1>3 DEF Ended
<1>5. stream' \in [Client -> Seq(Id)]
  <2>1. <<>> \in Seq(Id)
    OBVIOUS
  <2> QED
    BY <2>1 DEF TypeOK, Ended
<1> QED
  BY <1>1, <1>2, <1>4, <1>5

(* Clients leave the hub and are away. *)
LEMMA RemovedKeeps ==
  ASSUME HubInv, NEW cs \in SUBSET Client, Removed(cs),
         pc' = [c \in Client |-> IF c \in cs THEN "away" ELSE pc[c]]
  PROVE  /\ Places' /\ Limits' /\ Beats'
         /\ clients' \subseteq Client /\ members' \subseteq Client
         /\ heartbeat' \in BOOLEAN
<1>1. clients' \subseteq Client /\ members' \subseteq Client /\ heartbeat' \in BOOLEAN
  BY DEF HubInv, TypeOK, Removed
<1>2. Places'
  BY DEF HubInv, TypeOK, Places, Removed
<1>3. Limits'
  <2>1. clients' \subseteq clients /\ members' \subseteq members
    BY DEF Removed
  <2>2. /\ IsFiniteSet(clients') /\ Cardinality(clients') <= Cardinality(clients)
        /\ IsFiniteSet(members') /\ Cardinality(members') <= Cardinality(members)
    BY <2>1, FS_Subset DEF HubInv, Limits
  <2> QED
    BY <2>2, Bounds, FS_CardinalityType DEF HubInv, Limits
<1>4. Beats'
  BY DEF HubInv, Beats, Removed
<1> QED
  BY <1>1, <1>2, <1>3, <1>4

(* Streams end and nothing else is sent. *)
LEMMA StreamsEnd ==
  ASSUME HubInv, NEW cs \in SUBSET Client, Ended(cs, stream),
         members' = members \ cs, UNCHANGED <<past, seq, since>>
  PROVE  History' /\ Streams' /\ Complete'
<1>1. History'
  BY DEF HubInv, History, Ascending, UpTo
<1>2. ASSUME NEW c \in Client
      PROVE  stream'[c] = IF c \in cs THEN <<>> ELSE stream[c]
  BY DEF Ended
<1>3. Streams'
  BY <1>2, EmptyAscends DEF HubInv, Streams, Ascending, UpTo
<1>4. Complete'
  BY <1>2 DEF HubInv, TypeOK, Complete
<1> QED
  BY <1>1, <1>3, <1>4

-----------------------------------------------------------------------------
(* The actions on tickets leave the hub as it is. *)

LEMMA KeepTickets ==
  ASSUME HubInv, UNCHANGED ticketVars
  PROVE  Unused' /\ ticket' = ticket /\ accepted' = accepted /\ sweeper' = sweeper
BY DEF HubInv, Unused, ticketVars

LEMMA issueTicketKeeps ==
  ASSUME HubInv, NEW t \in Ticket, issueTicket(t) PROVE HubInv'
<1>1. TypeOK'
  BY DEF HubInv, TypeOK, issueTicket, WithoutExpired, hubVars, browserVars
<1>2. Unused'
  BY DEF HubInv, TypeOK, Unused, issueTicket, WithoutExpired
<1>3. UNCHANGED <<pc, hubVars, browserVars>>
  BY DEF issueTicket
<1> QED
  BY <1>1, <1>2, <1>3, HubUnchanged DEF HubInv

LEMMA TicketExpiresKeeps ==
  ASSUME HubInv, NEW t \in Ticket, TicketExpires(t) PROVE HubInv'
<1>1. TypeOK'
  BY DEF HubInv, TypeOK, TicketExpires, hubVars, browserVars
<1>2. Unused'
  BY DEF HubInv, TypeOK, Unused, TicketExpires
<1>3. UNCHANGED <<pc, hubVars, browserVars>>
  BY DEF TicketExpires
<1> QED
  BY <1>1, <1>2, <1>3, HubUnchanged DEF HubInv

LEMMA SweepKeeps ==
  ASSUME HubInv, Sweep PROVE HubInv'
<1>1. TypeOK'
  BY DEF HubInv, TypeOK, Sweep, WithoutExpired, hubVars, browserVars
<1>2. Unused'
  BY DEF HubInv, TypeOK, Unused, Sweep, WithoutExpired
<1>3. UNCHANGED <<pc, hubVars, browserVars>>
  BY DEF Sweep
<1> QED
  BY <1>1, <1>2, <1>3, HubUnchanged DEF HubInv

(* The request that takes a ticket is not in the hub yet. *)
LEMMA ConnectKeeps ==
  ASSUME HubInv, NEW c \in Client, NEW t \in Ticket, Connect(c, t) PROVE HubInv'
<1>1. TypeOK'
  <2>1. ticket' \in [Ticket -> {"unissued", "fresh", "expired", "gone"}]
    BY DEF HubInv, TypeOK, Connect
  <2>2. accepted' \in [Ticket -> Nat]
    <3>1. accepted[t] + 1 \in Nat
      BY DEF HubInv, TypeOK
    <3> QED
      BY <3>1 DEF HubInv, TypeOK, Connect
  <2>3. pc' \in [Client -> {"away", "account", "handler", "open"}]
    BY DEF HubInv, TypeOK, Connect
  <2> QED
    BY <2>1, <2>2, <2>3 DEF HubInv, TypeOK, Connect, hubVars, browserVars
<1>2. Unused'
  BY DEF HubInv, TypeOK, Unused, Connect, Held
<1>3. Places'
  BY DEF HubInv, TypeOK, Places, Connect, hubVars
<1>4. Limits' /\ Beats' /\ History' /\ Streams' /\ Complete'
  BY DEF HubInv, Connect, hubVars, browserVars, Limits, Beats, History, Ascending, UpTo,
         Streams, Complete
<1> QED
  BY <1>1, <1>2, <1>3, <1>4 DEF HubInv

-----------------------------------------------------------------------------
(* The route *)

LEMMA AttachKeeps ==
  ASSUME HubInv, NEW c \in Client, Attach(c) PROVE HubInv'
<1>1. c \notin clients /\ c \notin members
  BY DEF HubInv, Places, Attach
<1>2. Unused'
  BY KeepTickets DEF Attach
<1>3. CASE Ended({c}, stream) /\ UNCHANGED hubVars
  <2>1. TypeOK'
    BY <1>3, KeepTickets, EndedTypes DEF HubInv, TypeOK, Attach, hubVars
  <2>2. Places'
    BY <1>1, <1>3 DEF HubInv, TypeOK, Places, Ended, hubVars
  <2>3. Limits' /\ Beats'
    BY <1>3 DEF HubInv, Limits, Beats, hubVars
  <2>4. members' = members \ {c}
    BY <1>1, <1>3 DEF hubVars
  <2>5. History' /\ Streams' /\ Complete'
    BY <1>3, <2>4, StreamsEnd DEF Attach, hubVars
  <2> QED
    BY <1>2, <2>1, <2>2, <2>3, <2>5 DEF HubInv
<1>4. CASE /\ Cardinality(clients) < MaxClients
           /\ clients' = clients \cup {c}
           /\ heartbeat' = TRUE
           /\ pc' = [pc EXCEPT ![c] = "handler"]
           /\ UNCHANGED <<broken, members, past, seq, lastId, alien, stream>>
  <2>1. TypeOK'
    BY <1>4, KeepTickets DEF HubInv, TypeOK, Attach
  <2>2. Places'
    BY <1>1, <1>4 DEF HubInv, TypeOK, Places, Attach
  <2>3. Limits'
    <3>1. IsFiniteSet(clients') /\ Cardinality(clients') = Cardinality(clients) + 1
      BY <1>1, <1>4, FS_AddElement DEF HubInv, Limits
    <3> QED
      BY <1>4, <3>1, Bounds, FS_CardinalityType DEF HubInv, Limits
  <2>4. Beats'
    BY <1>4 DEF Beats
  <2>5. History' /\ Streams' /\ Complete'
    BY <1>4 DEF HubInv, Attach, History, Ascending, UpTo, Streams, Complete
  <2> QED
    BY <1>2, <2>1, <2>2, <2>3, <2>4, <2>5 DEF HubInv
<1> QED
  BY <1>3, <1>4 DEF Attach

LEMMA AccountRefusedKeeps ==
  ASSUME HubInv, NEW c \in Client, AccountRefused(c) PROVE HubInv'
<1>1. c \notin clients /\ c \notin members
  BY DEF HubInv, Places, AccountRefused
<1>2. Unused'
  BY KeepTickets DEF AccountRefused
<1>3. TypeOK'
  BY KeepTickets, EndedTypes DEF HubInv, TypeOK, AccountRefused, hubVars
<1>4. Places'
  BY <1>1 DEF HubInv, TypeOK, Places, Ended, hubVars, AccountRefused
<1>5. Limits' /\ Beats'
  BY DEF HubInv, Limits, Beats, hubVars, AccountRefused
<1>6. members' = members \ {c}
  BY <1>1 DEF hubVars, AccountRefused
<1>7. History' /\ Streams' /\ Complete'
  BY <1>6, StreamsEnd DEF hubVars, AccountRefused
<1> QED
  BY <1>2, <1>3, <1>4, <1>5, <1>7 DEF HubInv

(* Clients that leave the hub while nothing is published. *)
LEMMA LeavingKeeps ==
  ASSUME HubInv, NEW cs \in SUBSET Client, Removed(cs), Ended(cs, stream),
         UNCHANGED <<past, seq, since, ticketVars, restarts>>
  PROVE  HubInv'
<1>1. Unused'
  BY KeepTickets
<1>2. pc' = [c \in Client |-> IF c \in cs THEN "away" ELSE pc[c]]
  BY DEF Ended
<1>3. /\ Places' /\ Limits' /\ Beats'
      /\ clients' \subseteq Client /\ members' \subseteq Client /\ heartbeat' \in BOOLEAN
  BY <1>2, RemovedKeeps
<1>4. TypeOK'
  BY <1>3, KeepTickets, EndedTypes DEF HubInv, TypeOK
<1>5. History' /\ Streams' /\ Complete'
  BY StreamsEnd DEF Removed
<1> QED
  BY <1>1, <1>3, <1>4, <1>5 DEF HubInv

LEMMA HandlerRejectsKeeps ==
  ASSUME HubInv, NEW c \in Client, HandlerRejects(c) PROVE HubInv'
BY LeavingKeeps DEF HandlerRejects

LEMMA DisconnectKeeps ==
  ASSUME HubInv, NEW c \in Client, Disconnect(c) PROVE HubInv'
BY LeavingKeeps DEF Disconnect

LEMMA PingKeeps ==
  ASSUME HubInv, NEW slow \in SUBSET Client, Ping(slow) PROVE HubInv'
BY LeavingKeeps DEF Ping

LEMMA DisconnectEarlyKeeps ==
  ASSUME HubInv, NEW c \in Client, DisconnectEarly(c) PROVE HubInv'
<1>1. TypeOK'
  BY KeepTickets DEF HubInv, TypeOK, DisconnectEarly, hubVars, browserVars
<1>2. Unused'
  BY KeepTickets DEF DisconnectEarly
<1>3. UNCHANGED <<pc, hubVars, browserVars>>
  BY DEF DisconnectEarly
<1> QED
  BY <1>1, <1>2, <1>3, HubUnchanged DEF HubInv

(* The replay is the part of the history after what the browser has, and what
   comes after it will be newer. *)
LEMMA SubscribeKeeps ==
  ASSUME HubInv, NEW c \in Client, Subscribe(c) PROVE HubInv'
<1>1. CASE Removed({c}) /\ Ended({c}, stream) /\ UNCHANGED <<past, seq, since>>
  BY <1>1, LeavingKeeps DEF Subscribe
<1>2. CASE /\ Cardinality(members) < MaxClientsPerChannel
           /\ members' = members \cup {c}
           /\ pc' = [pc EXCEPT ![c] = "open"]
           /\ since' = [since EXCEPT ![c] = IF lastId[c] > 0 THEN lastId[c] ELSE seq]
           /\ stream' = [stream EXCEPT ![c] = IF lastId[c] > 0 THEN Missed(c) ELSE <<>>]
           /\ UNCHANGED <<broken, clients, past, seq, heartbeat, lastId, alien>>
  <2>1. pc[c] = "handler" /\ c \notin members
    BY DEF HubInv, Places, Subscribe
  <2>2. /\ past \in Seq(Id) /\ seq \in Nat /\ lastId[c] \in Nat
        /\ Ascending(past) /\ UpTo(past, seq)
    BY Bounds DEF HubInv, TypeOK, History
  <2>3. PICK k \in 0..Len(past) :
          /\ Missed(c) \in Seq(Id) /\ Len(Missed(c)) = Len(past) - k
          /\ \A n \in 1..(Len(past) - k) : Missed(c)[n] = past[k + n]
          /\ \A i \in 1..Len(past) : past[i] > lastId[c] => i > k
    BY <2>2, MissedIsSuffix
  <2>4. Len(past) \in Nat /\ \A i \in 1..Len(past) : past[i] \in Nat
    BY <2>2, Elements
  <2>5. Ascending(Missed(c)) /\ UpTo(Missed(c), seq)
    BY <2>2, <2>3, SuffixAscends
  <2>6. /\ stream'[c] \in Seq(Id)
        /\ Ascending(stream'[c]) /\ UpTo(stream'[c], seq)
    BY <1>2, <2>3, <2>5, EmptyAscends DEF HubInv, TypeOK
  <2>7. \A d \in Client : d # c => stream'[d] = stream[d]
    BY <1>2 DEF HubInv, TypeOK
  <2>8. TypeOK'
    <3>1. stream' \in [Client -> Seq(Id)]
      BY <1>2, <2>6 DEF HubInv, TypeOK
    <3>2. since' \in [Client -> 0..MaxEvents]
      BY <1>2 DEF HubInv, TypeOK
    <3> QED
      BY <1>2, <3>1, <3>2, KeepTickets DEF HubInv, TypeOK, Subscribe
  <2>9. Places'
    BY <1>2, <2>1 DEF HubInv, TypeOK, Places
  <2>10. Limits'
    <3>1. IsFiniteSet(members') /\ Cardinality(members') = Cardinality(members) + 1
      BY <1>2, <2>1, FS_AddElement DEF HubInv, Limits
    <3> QED
      BY <1>2, <3>1, Bounds, FS_CardinalityType DEF HubInv, Limits
  <2>11. Beats' /\ History'
    BY <1>2 DEF HubInv, Beats, History, Ascending, UpTo
  <2>12. Streams'
    BY <1>2, <2>6, <2>7 DEF HubInv, Streams, Ascending, UpTo
  <2>13. Complete'
    <3> SUFFICES ASSUME NEW d \in members', NEW i \in 1..Len(past), past[i] > since'[d]
                 PROVE  \E j \in 1..Len(stream'[d]) : stream'[d][j] = past[i]
      BY <1>2 DEF Complete
    <3>1. CASE d # c
      <4>1. d \in members /\ d \in Client /\ since'[d] = since[d]
        BY <1>2, <3>1 DEF HubInv, TypeOK
      <4> QED
        BY <2>7, <3>1, <4>1 DEF HubInv, Complete
    <3>2. CASE d = c /\ lastId[c] = 0
      <4>1. since'[d] = seq
        BY <1>2, <3>2 DEF HubInv, TypeOK
      <4> QED
        BY <2>2, <2>4, <4>1 DEF UpTo
    <3>3. CASE d = c /\ lastId[c] > 0
      <4>1. since'[d] = lastId[c] /\ stream'[d] = Missed(c)
        BY <1>2, <3>3 DEF HubInv, TypeOK
      <4>2. i > k /\ i \in Nat /\ k \in Nat
        BY <2>3, <2>4, <4>1
      <4>3. i - k \in 1..(Len(past) - k) /\ k + (i - k) = i
        BY <2>4, <4>2
      <4> QED
        BY <2>3, <3>3, <4>1, <4>3
    <3> QED
      BY <2>2, <3>1, <3>2, <3>3
  <2>14. Unused'
    BY KeepTickets DEF Subscribe
  <2> QED
    BY <2>8, <2>9, <2>10, <2>11, <2>12, <2>13, <2>14 DEF HubInv
<1> QED
  BY <1>1, <1>2 DEF Subscribe

-----------------------------------------------------------------------------
(* Publishing *)

(* The new event is the newest of the history, which loses its first one when
   it is full. *)
LEMMA HistoryGrows ==
  ASSUME HubInv, seq < MaxEvents, seq' = seq + 1,
         past' = IF Len(past) < HistorySize THEN Append(past, seq')
                 ELSE Append(Tail(past), seq')
  PROVE  /\ past' \in Seq(Id) /\ Len(past') <= HistorySize /\ seq' \in 0..MaxEvents
         /\ seq' \in Id /\ History'
         /\ \A i \in 1..Len(past') :
              \/ past'[i] = seq'
              \/ \E k \in 1..Len(past) : past'[i] = past[k]
<1>1. /\ past \in Seq(Id) /\ Len(past) <= HistorySize
      /\ seq \in Nat /\ seq + 1 \in 0..MaxEvents /\ seq + 1 \in Id
      /\ Ascending(past) /\ UpTo(past, seq)
  BY Bounds DEF HubInv, TypeOK, History, Id
<1>2. Len(past) \in Nat
  BY <1>1, Elements
<1>3. CASE Len(past) < HistorySize
  <2>1. past' = Append(past, seq + 1)
    BY <1>3
  <2>2. /\ Ascending(past') /\ UpTo(past', seq + 1) /\ past' \in Seq(Id)
        /\ Len(past') = Len(past) + 1
        /\ \A i \in 1..Len(past) : past'[i] = past[i]
        /\ past'[Len(past) + 1] = seq + 1
    <3>1. /\ Ascending(Append(past, seq + 1)) /\ UpTo(Append(past, seq + 1), seq + 1)
          /\ Append(past, seq + 1) \in Seq(Id) /\ Len(Append(past, seq + 1)) = Len(past) + 1
          /\ \A i \in 1..Len(past) : Append(past, seq + 1)[i] = past[i]
          /\ Append(past, seq + 1)[Len(past) + 1] = seq + 1
      BY <1>1, AppendAscends
    <3> QED
      BY <2>1, <3>1
  <2>3. History'
    BY <2>2 DEF History, Ascending, UpTo
  <2> QED
    BY <1>1, <1>2, <1>3, <2>2, <2>3, Bounds
<1>4. CASE ~(Len(past) < HistorySize)
  <2>1. past' = Append(Tail(past), seq + 1)
    BY <1>4
  <2>2. Len(past) = HistorySize /\ past # <<>>
    BY <1>1, <1>2, <1>4, Bounds
  <2>3. /\ Ascending(Tail(past)) /\ UpTo(Tail(past), seq) /\ Tail(past) \in Seq(Id)
        /\ Len(Tail(past)) = Len(past) - 1
        /\ \A i \in 1..Len(Tail(past)) : Tail(past)[i] = past[i + 1]
    BY <1>1, <2>2, TailAscends
  <2>4. /\ Ascending(past') /\ UpTo(past', seq + 1) /\ past' \in Seq(Id)
        /\ Len(past') = Len(past)
        /\ \A i \in 1..(Len(past) - 1) : past'[i] = past[i + 1]
        /\ past'[Len(past)] = seq + 1
    <3> DEFINE kept == Tail(past)
    <3>1. kept \in Seq(Id) /\ Ascending(kept) /\ UpTo(kept, seq) /\ Len(kept) = Len(past) - 1
      BY <2>3
    <3>2. past' = Append(kept, seq + 1)
      BY <2>1
    <3>3. \A i \in 1..(Len(past) - 1) : kept[i] = past[i + 1]
      BY <2>3
    <3> HIDE DEF kept
    <3>4. /\ Ascending(Append(kept, seq + 1)) /\ UpTo(Append(kept, seq + 1), seq + 1)
          /\ Append(kept, seq + 1) \in Seq(Id) /\ Len(Append(kept, seq + 1)) = Len(kept) + 1
          /\ \A i \in 1..Len(kept) : Append(kept, seq + 1)[i] = kept[i]
          /\ Append(kept, seq + 1)[Len(kept) + 1] = seq + 1
      BY <1>1, <3>1, AppendAscends
    <3>5. Len(kept) + 1 = Len(past)
      BY <1>2, <3>1
    <3> QED
      BY <3>1, <3>2, <3>3, <3>4, <3>5
  <2>5. History'
    BY <2>4 DEF History, Ascending, UpTo
  <2>6. \A i \in 1..Len(past') :
          \/ past'[i] = seq'
          \/ \E k \in 1..Len(past) : past'[i] = past[k]
    BY <1>2, <2>4
  <2> QED
    BY <1>1, <2>2, <2>4, <2>5, <2>6
<1> QED
  BY <1>3, <1>4

LEMMA PublishKeeps ==
  ASSUME HubInv, NEW slow \in SUBSET Client, Publish(slow) PROVE HubInv'
<1> DEFINE sent == [c \in Client |->
             IF c \in members THEN Append(stream[c], seq') ELSE stream[c]]
<1>1. /\ seq < MaxEvents /\ seq' = seq + 1 /\ Removed(slow) /\ Ended(slow, sent)
      /\ UNCHANGED <<since, ticketVars, restarts>>
      /\ past' = IF Len(past) < HistorySize THEN Append(past, seq')
                 ELSE Append(Tail(past), seq')
  BY DEF Publish
<1>2. /\ past' \in Seq(Id) /\ Len(past') <= HistorySize /\ seq' \in 0..MaxEvents
      /\ seq' \in Id /\ History'
      /\ \A i \in 1..Len(past') :
           \/ past'[i] = seq'
           \/ \E k \in 1..Len(past) : past'[i] = past[k]
  BY <1>1, HistoryGrows
<1>3. pc' = [c \in Client |-> IF c \in slow THEN "away" ELSE pc[c]]
  BY <1>1 DEF Ended
<1>4. /\ Places' /\ Limits' /\ Beats'
      /\ clients' \subseteq Client /\ members' \subseteq Client /\ heartbeat' \in BOOLEAN
  BY <1>1, <1>3, RemovedKeeps
<1>5. /\ seq \in Nat /\ members \subseteq Client /\ stream \in [Client -> Seq(Id)]
      /\ \A c \in Client : stream[c] \in Seq(Id) /\ Len(stream[c]) \in Nat
  BY Bounds, Elements DEF HubInv, TypeOK
<1>6. ASSUME NEW c \in Client
      PROVE  /\ sent[c] \in Seq(Id) /\ Ascending(sent[c]) /\ UpTo(sent[c], seq')
             /\ c \notin members => sent[c] = <<>>
  <2>1. Ascending(stream[c]) /\ UpTo(stream[c], seq)
    BY DEF HubInv, Streams
  <2>2. CASE c \in members
    BY <1>1, <1>2, <1>5, <2>1, <2>2, AppendAscends
  <2>3. CASE c \notin members
    <3>1. sent[c] = stream[c] /\ stream[c] = <<>>
      BY <2>3 DEF HubInv, Streams
    <3>2. Ascending(<<>>) /\ UpTo(<<>>, seq')
      BY EmptyAscends
    <3> QED
      BY <1>5, <3>1, <3>2
  <2> QED
    BY <2>2, <2>3
<1>7. ASSUME NEW c \in members
      PROVE  /\ Len(sent[c]) = Len(stream[c]) + 1 /\ sent[c][Len(stream[c]) + 1] = seq'
             /\ \A i \in 1..Len(stream[c]) : sent[c][i] = stream[c][i]
  <2>1. Ascending(stream[c]) /\ UpTo(stream[c], seq) /\ c \in Client
    BY <1>5 DEF HubInv, Streams
  <2> QED
    BY <1>1, <1>2, <1>5, <2>1, AppendAscends
<1>8. sent \in [Client -> Seq(Id)]
  BY <1>6
<1> HIDE DEF sent
<1>9. \A c \in Client : stream'[c] = IF c \in slow THEN <<>> ELSE sent[c]
  BY <1>1 DEF Ended
<1>10. TypeOK'
  BY <1>1, <1>2, <1>4, <1>8, KeepTickets, EndedTypes DEF HubInv, TypeOK
<1>11. Streams'
  <2> SUFFICES ASSUME NEW c \in Client
               PROVE  /\ c \notin members' => stream'[c] = <<>>
                      /\ Ascending(stream'[c]) /\ UpTo(stream'[c], seq')
    BY DEF Streams, Ascending, UpTo
  <2>1. CASE c \in slow
    BY <1>9, <2>1, EmptyAscends
  <2>2. CASE c \notin slow
    BY <1>1, <1>6, <1>9, <2>2 DEF Removed
  <2> QED
    BY <2>1, <2>2
<1>12. Complete'
  <2> SUFFICES ASSUME NEW c \in members', NEW i \in 1..Len(past'), past'[i] > since[c]
               PROVE  \E j \in 1..Len(stream'[c]) : stream'[c][j] = past'[i]
    BY <1>1 DEF Complete
  <2>1. c \in members /\ c \in Client /\ stream'[c] = sent[c]
    BY <1>1, <1>5, <1>9 DEF Removed
  <2>2. CASE past'[i] = seq'
    BY <1>5, <1>7, <2>1, <2>2
  <2>3. ASSUME NEW k \in 1..Len(past), past'[i] = past[k]
        PROVE  \E j \in 1..Len(stream'[c]) : stream'[c][j] = past'[i]
    <3>1. PICK j \in 1..Len(stream[c]) : stream[c][j] = past[k]
      BY <2>1, <2>3 DEF HubInv, Complete
    <3>2. j \in 1..Len(sent[c]) /\ sent[c][j] = past'[i]
      BY <1>5, <1>7, <2>1, <2>3, <3>1
    <3> QED
      BY <2>1, <3>2
  <2> QED
    BY <1>2, <2>2, <2>3
<1>13. Unused'
  BY <1>1, KeepTickets
<1> QED
  BY <1>2, <1>4, <1>10, <1>11, <1>12, <1>13 DEF HubInv

LEMMA PublishElsewhereKeeps ==
  ASSUME HubInv, PublishElsewhere PROVE HubInv'
<1>1. /\ seq \in Nat /\ past \in Seq(Id) /\ seq' = seq + 1
      /\ \A c \in Client : stream[c] \in Seq(Id)
  BY Bounds DEF HubInv, TypeOK, PublishElsewhere
<1>2. TypeOK'
  BY KeepTickets, Bounds DEF HubInv, TypeOK, PublishElsewhere, browserVars
<1>3. Places' /\ Limits' /\ Beats' /\ Complete'
  BY DEF HubInv, PublishElsewhere, browserVars, Places, Limits, Beats, Complete
<1>4. History'
  <2>1. Ascending(past) /\ UpTo(past, seq + 1)
    BY <1>1, UpToMonotonic DEF HubInv, History
  <2> QED
    BY <1>1, <2>1 DEF History, Ascending, UpTo, PublishElsewhere
<1>5. Streams'
  <2>1. \A c \in Client : Ascending(stream[c]) /\ UpTo(stream[c], seq + 1)
    BY <1>1, UpToMonotonic DEF HubInv, Streams
  <2> QED
    BY <1>1, <2>1 DEF HubInv, Streams, Ascending, UpTo, PublishElsewhere, browserVars
<1>6. Unused'
  BY KeepTickets DEF PublishElsewhere
<1> QED
  BY <1>2, <1>3, <1>4, <1>5, <1>6 DEF HubInv

-----------------------------------------------------------------------------
(* The process *)

(* Nobody, nothing sent, nothing remembered. *)
Empty ==
  /\ clients = {} /\ members = {} /\ past = <<>> /\ heartbeat = FALSE
  /\ pc = [c \in Client |-> "away"] /\ stream = [c \in Client |-> <<>>]

EmptyIsRight ==
  /\ Places /\ Limits /\ Beats /\ History /\ Streams /\ Complete
  /\ past \in Seq(Id) /\ Len(past) <= HistorySize /\ stream \in [Client -> Seq(Id)]

LEMMA EmptyHub == Empty => EmptyIsRight
<1> SUFFICES ASSUME Empty PROVE EmptyIsRight
  OBVIOUS
<1>1. Limits
  BY Bounds, FS_EmptySet DEF Empty, Limits
<1>2. Places /\ Beats
  BY DEF Empty, Places, Beats
<1>3. History /\ Streams /\ Complete
  BY EmptyAscends DEF Empty, History, Streams, Complete
<1>4. past \in Seq(Id) /\ Len(past) <= HistorySize /\ stream \in [Client -> Seq(Id)]
  <2>1. <<>> \in Seq(Id) /\ Len(<<>>) = 0
    OBVIOUS
  <2> QED
    BY <2>1, Bounds DEF Empty
<1> QED
  BY <1>1, <1>2, <1>3, <1>4 DEF EmptyIsRight

LEMMA InitKeeps == Init => HubInv
<1> SUFFICES ASSUME Init PROVE HubInv
  OBVIOUS
<1>1. EmptyIsRight
  BY EmptyHub DEF Init, Empty
<1>2. TypeOK
  <2>1. /\ seq \in 0..MaxEvents /\ restarts \in 0..MaxRestarts
        /\ clients \subseteq Client /\ members \subseteq Client
    BY Bounds DEF Init
  <2>2. /\ lastId \in [Client -> 0..MaxEvents] /\ since \in [Client -> 0..MaxEvents]
        /\ accepted \in [Ticket -> Nat]
    BY Bounds DEF Init
  <2>3. /\ pc \in [Client -> {"away", "account", "handler", "open"}]
        /\ ticket \in [Ticket -> {"unissued", "fresh", "expired", "gone"}]
        /\ broken \in [Client -> BOOLEAN] /\ alien \in [Client -> BOOLEAN]
    BY DEF Init
  <2>4. heartbeat \in BOOLEAN /\ sweeper \in BOOLEAN
    BY DEF Init
  <2> QED
    BY <1>1, <2>1, <2>2, <2>3, <2>4 DEF TypeOK, EmptyIsRight
<1>3. Unused
  BY DEF Init, Unused
<1> QED
  BY <1>1, <1>2, <1>3 DEF HubInv, EmptyIsRight

LEMMA RestartKeeps ==
  ASSUME HubInv, Restart PROVE HubInv'
<1>1. Empty'
  BY DEF Restart, Empty
<1>2. EmptyIsRight'
  BY <1>1, EmptyHub, PTL
<1>3. lastId' \in [Client -> 0..MaxEvents] /\ alien' \in [Client -> BOOLEAN]
  <2>1. {0} \cup Id = 0..MaxEvents
    BY Bounds DEF Id
  <2> QED
    BY <2>1 DEF Restart
<1>4. TypeOK'
  <2>1. /\ seq' \in 0..MaxEvents /\ restarts' \in 0..MaxRestarts
        /\ clients' \subseteq Client /\ members' \subseteq Client
    BY Bounds DEF HubInv, TypeOK, Restart
  <2>2. since' \in [Client -> 0..MaxEvents] /\ accepted' \in [Ticket -> Nat]
    BY DEF HubInv, TypeOK, Restart
  <2>3. /\ pc' \in [Client -> {"away", "account", "handler", "open"}]
        /\ broken' \in [Client -> BOOLEAN]
    BY DEF Restart
  <2>4. ticket' \in [Ticket -> {"unissued", "fresh", "expired", "gone"}]
    BY DEF HubInv, TypeOK, Restart
  <2>5. heartbeat' \in BOOLEAN /\ sweeper' \in BOOLEAN
    BY DEF Restart
  <2> QED
    BY <1>2, <1>3, <2>1, <2>2, <2>3, <2>4, <2>5 DEF TypeOK, EmptyIsRight
<1>5. Unused'
  BY DEF HubInv, TypeOK, Unused, Restart, Held
<1> QED
  BY <1>2, <1>4, <1>5 DEF HubInv, EmptyIsRight

-----------------------------------------------------------------------------
(* The theorems *)

(* HubInv is an invariant of the specification. *)
THEOREM HubInvariant == Spec => []HubInv
<1>1. HubInv /\ [Next]_vars => HubInv'
  <2> SUFFICES ASSUME HubInv, [Next]_vars PROVE HubInv'
    OBVIOUS
  <2>1. ASSUME NEW t \in Ticket, issueTicket(t) \/ TicketExpires(t) PROVE HubInv'
    BY <2>1, issueTicketKeeps, TicketExpiresKeeps
  <2>2. CASE Sweep
    BY <2>2, SweepKeeps
  <2>3. ASSUME NEW c \in Client, NEW t \in Ticket, Connect(c, t) PROVE HubInv'
    BY <2>3, ConnectKeeps
  <2>4. ASSUME NEW c \in Client,
               \/ Attach(c) \/ AccountRefused(c)
               \/ Subscribe(c) \/ HandlerRejects(c)
               \/ Disconnect(c) \/ DisconnectEarly(c)
        PROVE  HubInv'
    BY <2>4, AttachKeeps, AccountRefusedKeeps, SubscribeKeeps, HandlerRejectsKeeps,
       DisconnectKeeps, DisconnectEarlyKeeps
  <2>5. ASSUME NEW slow \in SUBSET Client, Publish(slow) \/ Ping(slow) PROVE HubInv'
    BY <2>5, PublishKeeps, PingKeeps
  <2>6. CASE PublishElsewhere
    BY <2>6, PublishElsewhereKeeps
  <2>7. CASE Restart
    BY <2>7, RestartKeeps
  <2>8. CASE UNCHANGED vars
    <3>1. TypeOK' /\ Unused' /\ UNCHANGED <<pc, hubVars, browserVars>>
      BY <2>8 DEF HubInv, TypeOK, Unused, vars, hubVars, browserVars, ticketVars
    <3> QED
      BY <3>1, HubUnchanged DEF HubInv
  <2> QED
    BY <2>1, <2>2, <2>3, <2>4, <2>5, <2>6, <2>7, <2>8 DEF Next
<1> QED
  BY <1>1, InitKeeps, PTL DEF Spec

(* The members of the channel are clients of the hub, the requests of these are
   past their account check, both limits hold although they are tested at
   different times, and the heartbeat runs exactly while there is somebody
   (sse.js:118, 149, 200). *)
THEOREM HubIsConsistent == Spec => []HubConsistent
<1>1. HubInv => HubConsistent
  BY DEF HubInv, Places, Limits, Beats, HubConsistent
<1> QED
  BY <1>1, HubInvariant, PTL

(* The numbers on a stream ascend: replay and live events neither overlap nor
   change places (sse.js:212, 231). *)
THEOREM StreamsAscend == Spec => []SentInOrder
<1>1. HubInv => SentInOrder
  <2> SUFFICES ASSUME HubInv, NEW c \in Client, NEW i \in DOMAIN stream[c],
                      NEW j \in DOMAIN stream[c], i < j
               PROVE  stream[c][i] < stream[c][j]
    BY DEF SentInOrder
  <2>1. DOMAIN stream[c] = 1..Len(stream[c])
    BY Elements DEF HubInv, TypeOK
  <2> QED
    BY <2>1 DEF HubInv, Streams, Ascending
<1> QED
  BY <1>1, HubInvariant, PTL

(* A member of the channel has been sent every event of the history after the
   one its stream had to begin after, whatever was published between its
   attach() and its subscribe() (sse.js:209-214). *)
THEOREM NothingIsSkipped == Spec => []NothingSkipped
<1>1. HubInv => NothingSkipped
  <2> SUFFICES ASSUME HubInv, NEW c \in members, NEW i \in DOMAIN past,
                      past[i] > since[c]
               PROVE  \E j \in DOMAIN stream[c] : stream[c][j] = past[i]
    BY DEF NothingSkipped
  <2>1. DOMAIN stream[c] = 1..Len(stream[c]) /\ DOMAIN past = 1..Len(past)
    BY Elements DEF HubInv, TypeOK
  <2> QED
    BY <2>1 DEF HubInv, Complete
<1> QED
  BY <1>1, HubInvariant, PTL

(* A ticket is accepted at most once: consumeTicket() forgets it before the
   account is looked up (sseTicket.js:76). *)
THEOREM TicketsAreOneTime == Spec => []TicketOnce
<1>1. HubInv => TicketOnce
  BY DEF HubInv, Unused, TicketOnce
<1> QED
  BY <1>1, HubInvariant, PTL
=============================================================================
