------------------------- MODULE MC_RefreshTokens -------------------------
(* Small instances of RefreshTokens for TLC. *)
EXTENDS RefreshTokens, TLC

CONSTANTS j1, j2, j3, s1, u1, h1, h2

ThreeTokens  == {j1, j2, j3}
OneLineage   == {s1}
OneUser      == {u1}
TwoHandlers  == {h1, h2}

AllFaults  == {"redis", "reply", "response", "crash"}

\* Ids are only compared: tokens, lineages and handlers are interchangeable.
TokenSymmetry == Permutations(Jti) \cup Permutations(Sid) \cup Permutations(Handler)
=============================================================================
