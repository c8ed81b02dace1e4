SPECIFICATION FairMessagesSpec
CONSTANTS
  m1 = m1  o1 = o1
  None = None
  Others <- OneMessage
  Own <- NoMessage
  MaxAttempts = 2
  MaxCommits = 1
  MaxLeaves = 1
  Skew = 0
  Faults <- SocketFaults
  MaxFaults = 3
CHECK_DEADLOCK FALSE
INVARIANT OneAttempt
PROPERTY SocketComesBack
