---------------------------- MODULE MC_RoomPages ----------------------------
\* This person and two others; two requests under way at once.
EXTENDS RoomPages, TLC

CONSTANTS me, you, they, n, t, s1, s2

ThreeUsers == {me, you, they}
OneName    == {n}
OneText    == {t}
TwoSlots   == {s1, s2}

Swap == Permutations({s1, s2})
=============================================================================
