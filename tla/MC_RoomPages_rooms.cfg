SPECIFICATION Spec
CONSTANTS
    me = me
    you = you
    they = they
    n = n
    t = t
    s1 = s1
    s2 = s2
    None = None
    NoText = NoText
    User <- ThreeUsers
    Name <- OneName
    Text <- OneText
    Slot <- TwoSlots
    Me = me
    MaxSteps = 2
    MaxReads = 1
SYMMETRY Swap
CHECK_DEADLOCK FALSE
INVARIANTS
    OwnerStaysAdmin
    CalmPagesConverge
PROPERTIES
    OnlyLateCommitsChangeClosedRoom
