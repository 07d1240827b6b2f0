-------------------------- MODULE MCClientServer ----------------------------
(* Two sockets for two client objects, a server and the connections they   *)
(* leave behind, so that sockets run out and are taken from past           *)
(* connections; all kinds of sketch.                                       *)
EXTENDS ClientServer

CONSTANTS c1, c2
MCPorts == {0, 1}
MCClients == {c1, c2}
MCSketches == {"connect", "accept", "available"}
=============================================================================
