-------------------------------- MODULE SseHub --------------------------------
(***************************************************************************)
(* Event streams: the hub of src/core/sse.js, the one-time tickets of      *)
(* src/core/sseTicket.js and the route of src/core/controllerLoader.js     *)
(* that takes a request with a ticket, checks the account, attaches the    *)
(* response to the hub, asks the handler for the channel and subscribes.   *)
(*                                                                         *)
(* One channel is followed; what is published to the others only uses up   *)
(* numbers of the common counter.  A client is a browser that comes back   *)
(* with the id of the last event it has received.                          *)
(***************************************************************************)
EXTENDS Naturals, Sequences, FiniteSets

CONSTANTS
  Client,
  Ticket,
  MaxClients,            \* maxClients
  MaxClientsPerChannel,  \* maxClientsPerChannel
  HistorySize,           \* historySize
  MaxTickets,            \* MAX_TICKETS
  MaxEvents,             \* bound: events of one run of the server
  MaxRestarts            \* bound: restarts of the server

ASSUME HubLimits ==
  {MaxClients, MaxClientsPerChannel, HistorySize, MaxTickets, MaxEvents, MaxRestarts}
    \subseteq Nat \ {0}

VARIABLES
  pc,         \* where the request of each client is in the route
  broken,     \* did its connection close before it was attached?
  clients,    \* hub.clients
  members,    \* the clients of the channel
  past,       \* the ids in the history of the channel
  seq,        \* seqCounter
  heartbeat,  \* is the heartbeat timer set?
  lastId,     \* each browser: the id of the last event received, 0 for none
  alien,      \* history: lastId is of an earlier run of the server
  since,      \* history: what the stream had to begin after
  stream,     \* history: the ids sent on each stream
  ticket,     \* the tickets
  accepted,   \* history: how often each ticket was accepted
  sweeper,    \* is the timer of the sweeper set?
  restarts    \* restarts still to come

hubVars == <<clients, members, past, seq, heartbeat>>
browserVars == <<lastId, alien, since, stream>>
ticketVars == <<ticket, accepted, sweeper>>
vars == <<pc, broken, hubVars, browserVars, ticketVars, restarts>>

Id == 1..MaxEvents

TypeOK ==
  /\ pc \in [Client -> {"away", "account", "handler", "open"}]
  /\ broken \in [Client -> BOOLEAN]
  /\ clients \subseteq Client
  /\ members \subseteq Client
  /\ past \in Seq(Id) /\ Len(past) <= HistorySize
  /\ seq \in 0..MaxEvents
  /\ heartbeat \in BOOLEAN
  /\ lastId \in [Client -> 0..MaxEvents]
  /\ alien \in [Client -> BOOLEAN]
  /\ since \in [Client -> 0..MaxEvents]
  /\ stream \in [Client -> Seq(Id)]
  /\ ticket \in [Ticket -> {"unissued", "fresh", "expired", "gone"}]
  /\ accepted \in [Ticket -> Nat]
  /\ sweeper \in BOOLEAN
  /\ restarts \in 0..MaxRestarts

Init ==
  /\ pc = [c \in Client |-> "away"]
  /\ broken = [c \in Client |-> FALSE]
  /\ clients = {} /\ members = {}
  /\ past = <<>> /\ seq = 0
  /\ heartbeat = FALSE
  /\ lastId = [c \in Client |-> 0]
  /\ alien = [c \in Client |-> FALSE]
  /\ since = [c \in Client |-> 0]
  /\ stream = [c \in Client |-> <<>>]
  /\ ticket = [t \in Ticket |-> "unissued"]
  /\ accepted = [t \in Ticket |-> 0]
  /\ sweeper = FALSE
  /\ restarts = MaxRestarts

-----------------------------------------------------------------------------
(* Tickets *)

Held == {t \in Ticket : ticket[t] \in {"fresh", "expired"}}

(* Map.delete of the expired ones *)
WithoutExpired == [t \in Ticket |-> IF ticket[t] = "expired" THEN "gone" ELSE ticket[t]]

issueTicket_Faulty(t) ==   \* the sweeper is started by the first ticket only
  /\ ticket[t] = "unissued"
  /\ LET kept == IF Cardinality(Held) >= MaxTickets THEN WithoutExpired ELSE ticket
         full == Cardinality({s \in Ticket : kept[s] \in {"fresh", "expired"}}) >= MaxTickets
     IN ticket' = IF full THEN kept ELSE [kept EXCEPT ![t] = "fresh"]
  /\ sweeper' = (sweeper \/ \A s \in Ticket : ticket[s] = "unissued")
  /\ UNCHANGED <<pc, broken, hubVars, browserVars, accepted, restarts>>

(* issueTicket(): with MAX_TICKETS held the expired ones make room, if there
   are any. *)
issueTicket(t) ==
  /\ ticket[t] = "unissued"
  /\ LET kept == IF Cardinality(Held) >= MaxTickets THEN WithoutExpired ELSE ticket
         full == Cardinality({s \in Ticket : kept[s] \in {"fresh", "expired"}}) >= MaxTickets
     IN \/ full /\ ticket' = kept /\ UNCHANGED sweeper
        \/ ~full /\ ticket' = [kept EXCEPT ![t] = "fresh"] /\ sweeper' = TRUE
  /\ UNCHANGED <<pc, broken, hubVars, browserVars, accepted, restarts>>

TicketExpires(t) ==
  /\ ticket[t] = "fresh"
  /\ ticket' = [ticket EXCEPT ![t] = "expired"]
  /\ UNCHANGED <<pc, broken, hubVars, browserVars, accepted, sweeper, restarts>>

Sweep ==
  /\ sweeper
  /\ ticket' = WithoutExpired
  /\ sweeper' = \E t \in Ticket : ticket'[t] = "fresh"
  /\ UNCHANGED <<pc, broken, hubVars, browserVars, accepted, restarts>>

Connect_Faulty(c, t) ==   \* the ticket is given up when the stream is attached
  /\ pc[c] = "away"
  /\ ticket[t] = "fresh"
  /\ accepted' = [accepted EXCEPT ![t] = @ + 1]
  /\ pc' = [pc EXCEPT ![c] = "account"]
  /\ UNCHANGED <<broken, hubVars, browserVars, ticket, sweeper, restarts>>

(* A request for a stream with a ticket that was issued some time:
   consumeTicket() forgets it and accepts it if it is in time and from the
   address it was issued to.  The account is then checked in the database. *)
Connect(c, t) ==
  /\ pc[c] = "away"
  /\ t \in Held
  /\ ticket' = [ticket EXCEPT ![t] = "gone"]
  /\ \/ /\ ticket[t] = "fresh"
        /\ accepted' = [accepted EXCEPT ![t] = @ + 1]
        /\ pc' = [pc EXCEPT ![c] = "account"]
     \/ UNCHANGED <<accepted, pc>>   \* expired, or from another address
  /\ UNCHANGED <<broken, hubVars, browserVars, sweeper, restarts>>

-----------------------------------------------------------------------------
(* The hub *)

Removed_Faulty(cs) ==   \* the channel is not told
  /\ clients' = clients \ cs
  /\ UNCHANGED members
  /\ heartbeat' = (heartbeat /\ clients' # {})

(* _remove() of the clients in cs: the channel keeps its history. *)
Removed(cs) ==
  /\ clients' = clients \ cs
  /\ members' = members \ cs
  /\ heartbeat' = (heartbeat /\ clients' # {})

(* The streams of the clients in cs end: their browsers have received all that
   was sent or only the first part of it. *)
Ended(cs, sent) ==
  /\ pc' = [c \in Client |-> IF c \in cs THEN "away" ELSE pc[c]]
  /\ broken' = [c \in Client |-> broken[c] /\ c \notin cs]
  /\ lastId' \in [Client -> {0} \cup Id]
  /\ \A c \in Client :
       LET heard == {sent[c][i] : i \in DOMAIN sent[c]}
       IN IF c \in cs /\ ~broken[c] THEN lastId'[c] \in {lastId[c]} \cup heard
          ELSE lastId'[c] = lastId[c]
  /\ alien' = [c \in Client |-> alien[c] /\ lastId'[c] = lastId[c]]
  /\ stream' = [c \in Client |-> IF c \in cs THEN <<>> ELSE sent[c]]

(* The account is in order: attach().  Whether the connection is still there
   is not looked at. *)
Attach(c) ==
  /\ pc[c] = "account"
  /\ \/ /\ Cardinality(clients) >= MaxClients
        /\ Ended({c}, stream)
        /\ UNCHANGED hubVars
     \/ /\ Cardinality(clients) < MaxClients
        /\ clients' = clients \cup {c}
        /\ heartbeat' = TRUE
        /\ pc' = [pc EXCEPT ![c] = "handler"]
        /\ UNCHANGED <<broken, members, past, seq, lastId, alien, stream>>
  /\ UNCHANGED <<since, ticketVars, restarts>>

(* assertCurrentAccount() refuses. *)
AccountRefused(c) ==
  /\ pc[c] = "account"
  /\ Ended({c}, stream)
  /\ UNCHANGED <<since, hubVars, ticketVars, restarts>>

Newer(c) == {i \in DOMAIN past : past[i] > lastId[c]}

(* The n-th of a set of numbers is the one up to which there are n of them. *)
Nth(S, n) == CHOOSE i \in S : Cardinality({j \in S : j <= i}) = n

Missed_Faulty(c) ==   \* the newest first
  LET count == Cardinality(Newer(c))
  IN [n \in 1..count |-> past[Nth(Newer(c), count + 1 - n)]]

(* What the history holds that the browser has not got, in its order. *)
Missed(c) == [n \in 1..Cardinality(Newer(c)) |-> past[Nth(Newer(c), n)]]

Subscribe_Faulty(c) ==   \* replays from one event too late
  /\ pc[c] = "handler"
  /\ Cardinality(members) < MaxClientsPerChannel
  /\ members' = members \cup {c}
  /\ pc' = [pc EXCEPT ![c] = "open"]
  /\ since' = [since EXCEPT ![c] = IF lastId[c] > 0 THEN lastId[c] ELSE seq]
  /\ stream' = [stream EXCEPT ![c] =
       IF lastId[c] > 0 THEN SelectSeq(Missed(c), LAMBDA id : id > lastId[c] + 1)
       ELSE <<>>]
  /\ UNCHANGED <<broken, clients, past, seq, heartbeat, lastId, alien, ticketVars,
                 restarts>>

(* The handler has answered with the channel: subscribe(), which sends what the
   browser has missed if it says what it has. *)
Subscribe(c) ==
  /\ pc[c] = "handler"
  /\ \/ /\ Cardinality(members) >= MaxClientsPerChannel
        /\ Removed({c})
        /\ Ended({c}, stream)
        /\ UNCHANGED <<past, seq, since>>
     \/ /\ Cardinality(members) < MaxClientsPerChannel
        /\ members' = members \cup {c}
        /\ pc' = [pc EXCEPT ![c] = "open"]
        /\ since' = [since EXCEPT ![c] = IF lastId[c] > 0 THEN lastId[c] ELSE seq]
        /\ stream' = [stream EXCEPT ![c] = IF lastId[c] > 0 THEN Missed(c) ELSE <<>>]
        /\ UNCHANGED <<broken, clients, past, seq, heartbeat, lastId, alien>>
  /\ UNCHANGED <<ticketVars, restarts>>

(* The handler answers false: no stream. *)
HandlerRejects(c) ==
  /\ pc[c] = "handler"
  /\ Removed({c})
  /\ Ended({c}, stream)
  /\ UNCHANGED <<past, seq, since, ticketVars, restarts>>

(* publish(): the event joins the history and is sent to every member; those
   whose buffers have grown too large are cut off behind it. *)
Publish(slow) ==
  /\ seq < MaxEvents
  /\ slow \subseteq {c \in members : ~broken[c]}
  /\ seq' = seq + 1
  /\ past' = IF Len(past) < HistorySize THEN Append(past, seq')
             ELSE Append(Tail(past), seq')
  /\ Removed(slow)
  /\ Ended(slow, [c \in Client |->
       IF c \in members THEN Append(stream[c], seq') ELSE stream[c]])
  /\ UNCHANGED <<since, ticketVars, restarts>>

PublishElsewhere ==
  /\ seq < MaxEvents
  /\ seq' = seq + 1
  /\ UNCHANGED <<pc, broken, clients, members, past, heartbeat, browserVars, ticketVars,
                 restarts>>

(* The ping of the heartbeat finds clients whose buffers have grown too large. *)
Ping(slow) ==
  /\ heartbeat
  /\ slow # {} /\ slow \subseteq {c \in clients : ~broken[c]}
  /\ Removed(slow)
  /\ Ended(slow, stream)
  /\ UNCHANGED <<past, seq, since, ticketVars, restarts>>

-----------------------------------------------------------------------------
(* The network and the process *)

(* The connection closes, also because the handler throws: after attach() the
   hub hears of it. *)
Disconnect(c) ==
  /\ pc[c] \in {"handler", "open"}
  /\ ~broken[c]
  /\ Removed({c})
  /\ Ended({c}, stream)
  /\ UNCHANGED <<past, seq, since, ticketVars, restarts>>

DisconnectEarly(c) ==
  /\ pc[c] = "account"
  /\ ~broken[c]
  /\ broken' = [broken EXCEPT ![c] = TRUE]
  /\ UNCHANGED <<pc, hubVars, browserVars, ticketVars, restarts>>

(* The server stops, by closeAll() and clearTickets() or suddenly, and another
   one starts: its counter begins again. *)
Restart ==
  /\ restarts > 0
  /\ restarts' = restarts - 1
  /\ clients' = {} /\ members' = {}
  /\ past' = <<>> /\ seq' = 0
  /\ heartbeat' = FALSE
  /\ \E last \in [Client -> {0} \cup Id] :
       /\ \A c \in Client :
            last[c] \in {lastId[c]} \cup
              (IF broken[c] THEN {} ELSE {stream[c][i] : i \in DOMAIN stream[c]})
       /\ lastId' = last
       /\ alien' = [c \in Client |-> last[c] > 0]
  /\ pc' = [c \in Client |-> "away"]
  /\ broken' = [c \in Client |-> FALSE]
  /\ stream' = [c \in Client |-> <<>>]
  /\ ticket' = [t \in Ticket |-> IF t \in Held THEN "gone" ELSE ticket[t]]
  /\ sweeper' = FALSE
  /\ UNCHANGED <<since, accepted>>

Next ==
  \/ \E t \in Ticket : issueTicket(t) \/ TicketExpires(t)
  \/ Sweep
  \/ \E c \in Client, t \in Ticket : Connect(c, t)
  \/ \E c \in Client :
       \/ Attach(c) \/ AccountRefused(c)
       \/ Subscribe(c) \/ HandlerRejects(c)
       \/ Disconnect(c) \/ DisconnectEarly(c)
  \/ \E slow \in SUBSET Client : Publish(slow) \/ Ping(slow)
  \/ PublishElsewhere
  \/ Restart

(* The sweeper ticks. *)
Spec == Init /\ [][Next]_vars /\ WF_vars(Sweep)
=============================================================================
