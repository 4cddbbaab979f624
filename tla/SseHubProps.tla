----------------------------- MODULE SseHubProps -----------------------------
(***************************************************************************)
(* What the event streams should guarantee.                                *)
(***************************************************************************)
EXTENDS SseHub

(* The books of the hub agree: a member is a client, no limit is exceeded
   although the two are tested at different times, and the heartbeat runs as
   long as there is anybody (sse.js:118, 149, 200). *)
HubConsistent ==
  /\ TypeOK
  /\ members \subseteq clients
  /\ \A c \in clients : pc[c] \in {"handler", "open"}
  /\ Cardinality(clients) <= MaxClients
  /\ Cardinality(members) <= MaxClientsPerChannel
  /\ heartbeat <=> clients # {}

(* Nothing is sent twice on a stream or out of order, the replay and the events
   that follow it taken together (sse.js:212, 231). *)
SentInOrder ==
  \A c \in Client : \A i, j \in DOMAIN stream[c] :
    i < j => stream[c][i] < stream[c][j]

(* A browser that comes back gets all it has missed that the history still
   holds, also what was published while its request waited for the account and
   the handler (sse.js:13, 209-214). *)
NothingSkipped ==
  \A c \in members : ~broken[c] /\ ~alien[c] =>
    \A i \in DOMAIN past :
      past[i] > since[c] => \E j \in DOMAIN stream[c] : stream[c][j] = past[i]

(* A ticket opens one stream, also when two requests with it are checked at the
   same time (sseTicket.js:16, 76). *)
TicketOnce == \A t \in Ticket : accepted[t] <= 1

(* Tickets that nobody uses do not stay (sseTicket.js:33, 64). *)
TicketsSwept == \A t \in Ticket : ticket[t] = "expired" ~> ticket[t] = "gone"
=============================================================================
