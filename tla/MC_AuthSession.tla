--------------------------- MODULE MC_AuthSession ---------------------------
\* Two users, one of them an administrator; two operations that may overlap, and
\* the shared refresh; as many nonces as a tab and its requests can hold, and one.
EXTENDS AuthSession

CONSTANTS a, b, nonce1, nonce2, nonce3, nonce4, nonce5

Threads    == {"session", "form"}
TwoUsers   == {a, b}
OneAdmin   == {a}
FiveNonces == {nonce1, nonce2, nonce3, nonce4, nonce5}
=============================================================================
