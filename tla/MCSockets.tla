----------------------------- MODULE MCSockets -------------------------------
(* Two processes, one of them perhaps another user's, and two sockets. *)
EXTENDS Sockets

CONSTANTS p1, p2, s1, s2

MCPid == {p1, p2}
MCInode == {s1, s2}
MCTables == {Proto, {"tcp"}}
MCForeign == {{}, {p2}}
==============================================================================
