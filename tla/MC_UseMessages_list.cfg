SPECIFICATION MessagesSpec
CONSTANTS
  m1 = m1  o1 = o1
  None = None
  Others <- OneMessage
  Own <- OwnMessage
  MaxAttempts = 1
  MaxCommits = 2
  MaxLeaves = 1
  Skew = 1
  Faults <- AllFaults
  MaxFaults = 1
CHECK_DEADLOCK FALSE
INVARIANTS ShownOnce CalmListConverges
