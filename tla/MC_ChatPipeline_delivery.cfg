SPECIFICATION FairPipelineSpec
CONSTANTS
  m1 = m1  c1 = c1  c2 = c2  u1 = u1  r1 = r1  r2 = r2
  None = None
  Messages <- OneMessage
  Contents <- OneContent
  Users <- OneUser
  Requests <- OneRequest
  Faults <- DeliveryFaults
  MaxTx = 2
  MaxRetry = 2
  BatchSize = 1
  MaxFaults = 2
  MaxDeliver = 2
CHECK_DEADLOCK FALSE
INVARIANT AtLeastOnceWhileConsumerLives
PROPERTIES EveryEventSettles CalmEventuallyConverges
