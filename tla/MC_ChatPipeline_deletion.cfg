SPECIFICATION PipelineSpec
CONSTANTS
  m1 = m1  c1 = c1  c2 = c2  u1 = u1  r1 = r1  r2 = r2
  None = None
  Messages <- OneMessage
  Contents <- OneContent
  Users <- OneUser
  Requests <- OneRequest
  Faults <- PublishFault
  MaxTx = 2
  MaxRetry = 2
  BatchSize = 2
  MaxFaults = 1
  MaxDeliver = 3
CHECK_DEADLOCK FALSE
INVARIANT DeletionIsPropagated
