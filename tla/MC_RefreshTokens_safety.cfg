SPECIFICATION TokenSpec
CONSTANTS
  j1 = j1  j2 = j2  j3 = j3  s1 = s1  u1 = u1  h1 = h1  h2 = h2
  None = None
  Jti <- ThreeTokens
  Sid <- OneLineage
  User <- OneUser
  Handler <- TwoHandlers
  TTL = 1
  MaxTime = 1
  Faults <- AllFaults
  MaxFaults = 1
CHECK_DEADLOCK FALSE
SYMMETRY TokenSymmetry
INVARIANTS TokenTypeOK OneUsablePerLineage ReuseKillsLineage UsableIsListed CalmSessionSurvives ValidTokenIsOnRecord
PROPERTY RevocationIsFinal
