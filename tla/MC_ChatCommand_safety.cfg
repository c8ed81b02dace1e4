SPECIFICATION CommandSpec
CONSTANTS
  m1 = m1  c1 = c1  c2 = c2  u1 = u1  r1 = r1  r2 = r2
  None = None
  Messages <- OneMessage
  Contents <- TwoContents
  Users <- OneUser
  Requests <- TwoRequests
  Faults <- AllFaults
  MaxTx = 3
  MaxRetry = 1
  BatchSize = 2
  MaxFaults = 2
CHECK_DEADLOCK FALSE
SYMMETRY HandlerSymmetry
INVARIANTS CommandTypeOK OutboxIsComplete MarkedWasSent DuplicatesNeedFaults FaultFreeFifo
PROPERTY MarkedIsNotResent
