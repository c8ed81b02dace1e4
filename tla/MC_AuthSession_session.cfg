SPECIFICATION FairSessionSpec
CONSTANTS
    a = a
    b = b
    nonce1 = nonce1
    nonce2 = nonce2
    nonce3 = nonce3
    nonce4 = nonce4
    nonce5 = nonce5
    None = None
    Thread <- Threads
    User <- TwoUsers
    Admins <- OneAdmin
    Nonce <- FiveNonces
    MaxFaults = 1
    MaxOperations = 2
CHECK_DEADLOCK FALSE
INVARIANTS
    NonceIsSentOnce
    CookieIsPresentedOnce
    LogoutSticks
    ShownUserOwnsToken
    UserStaysSignedIn
PROPERTIES
    LoadingEnds
