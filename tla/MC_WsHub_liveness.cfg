SPECIFICATION FairHubSpec
CONSTANTS
  k1 = k1  k2 = k2  t1 = t1  t2 = t2  a = a  b = b
  None = None
  Conn <- TwoConns
  Ticket <- TwoTickets
  Room <- OneRoom
  SendCap = 1
  BroadcastCap = 1
  MaxEvents = 2
  MaxPings = 0
CHECK_DEADLOCK FALSE
PROPERTIES EveryEventIsDistributed ConnectionsAreReleased
