SPECIFICATION Spec
CONSTANTS
    me = me
    you = you
    they = they
    s1 = s1
    s2 = s2
    None = None
    User <- ThreeUsers
    Role <- TwoRoles
    Initially <- TwoAdmins
    Slot <- TwoSlots
    Me = me
    Filter <- TwoFilters
    MaxSteps = 2
    MaxFaults = 1
SYMMETRY Swap
CHECK_DEADLOCK FALSE
INVARIANTS
    AdminRemains
    ChangesAreAudited
    AdminListsConverge
