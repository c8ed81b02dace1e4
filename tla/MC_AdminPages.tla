--------------------------- MODULE MC_AdminPages ---------------------------
\* Two administrators and an account to be created; two requests under way.
EXTENDS AdminPages, TLC

CONSTANTS me, you, they, s1, s2

ThreeUsers == {me, you, they}
TwoRoles   == {"USER", "ADMIN"}
TwoAdmins  == [u \in ThreeUsers |-> IF u = they THEN None ELSE "ADMIN"]
TwoSlots   == {s1, s2}
TwoFilters == {"active", "include"}

Swap == Permutations({s1, s2})
=============================================================================
