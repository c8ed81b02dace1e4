SPECIFICATION HubSpec
CONSTANTS
  k1 = k1  k2 = k2  t1 = t1  t2 = t2  a = a  b = b
  None = None
  Conn <- TwoConns
  Ticket <- TwoTickets
  Room <- TwoRooms
  SendCap = 1
  BroadcastCap = 1
  MaxEvents = 2
  MaxPings = 1
CHECK_DEADLOCK FALSE
INVARIANTS HubTypeOK TicketOpensOneConnection NoGapWithinConnection OnlyEvictedPongPanics
