-------------------------- MODULE MC_UseMessages --------------------------
(* Small instances of UseMessages for TLC. *)
EXTENDS UseMessages, TLC

CONSTANTS m1, o1

OneMessage  == {m1}
OwnMessage  == {o1}
NoMessage   == {}

SocketFaults == {"connection", "ticket"}
AllFaults   == {"connection", "ticket", "request"}
=============================================================================
