----------------------------- MODULE MC_WsHub -----------------------------
(* Small instances of WsHub for TLC. *)
EXTENDS WsHub, TLC

CONSTANTS k1, k2, t1, t2, a, b

TwoConns   == {k1, k2}
TwoTickets == {t1, t2}
OneRoom    == {a}
TwoRooms   == {a, b}
=============================================================================
