-------------------------- MODULE MC_ChatCommand --------------------------
(* Small instances of ChatCommand for TLC. *)
EXTENDS ChatCommand, TLC

CONSTANTS m1, c1, c2, u1, r1, r2

OneMessage  == {m1}
TwoContents == {c1, c2}
OneUser     == {u1}
TwoRequests == {r1, r2}

AllFaults == {"publish", "puback", "db", "commandCrash"}

\* Request handlers and message bodies are interchangeable.
HandlerSymmetry == Permutations(TwoRequests) \cup Permutations(TwoContents)
=============================================================================
