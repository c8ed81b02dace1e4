-------------------------- MODULE MC_ChatPipeline --------------------------
(* Small instances of ChatPipeline for TLC. *)
EXTENDS ChatPipeline, TLC

CONSTANTS m1, c1, c2, u1, r1, r2

OneMessage  == {m1}
OneContent  == {c1}
TwoContents == {c1, c2}
OneUser     == {u1}
OneRequest  == {r1}
TwoRequests == {r1, r2}

\* Request handlers and message bodies are interchangeable.
PipelineSymmetry == Permutations(TwoRequests) \cup Permutations(TwoContents)

\* All kinds that leave the JetStream consumer alive and repeat no event.
DeliveryFaults == {"publish", "projectionDb", "ackLost", "slow", "queryCrash"}
AllFaults   == {"publish", "puback", "db", "commandCrash", "projectionDb",
                "ackLost", "slow", "queryCrash", "consumerExpires"}
PublishFault == {"publish"}
RestartFault == {"queryCrash", "consumerExpires"}
=============================================================================
