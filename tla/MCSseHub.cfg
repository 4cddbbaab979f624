CONSTANTS
  c1 = c1
  c2 = c2
  Client = {c1, c2}
  t1 = t1
  t2 = t2
  t3 = t3
  Ticket = {t1, t2, t3}
  MaxClients = 2
  MaxClientsPerChannel = 1
  HistorySize = 2
  MaxTickets = 1
  MaxEvents = 3
  MaxRestarts = 1
SPECIFICATION Spec
INVARIANTS
  HubConsistent
  SentInOrder
  NothingSkipped
  TicketOnce
PROPERTIES
  TicketsSwept
CHECK_DEADLOCK FALSE
