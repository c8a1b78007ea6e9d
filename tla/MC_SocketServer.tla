--------------------------- MODULE MC_SocketServer ---------------------------
(* Instances of SocketServer for TLC.                                      *)
EXTENDS SocketServer

CONSTANTS w1, w2

\* The third socket takes the slot of the first.
MCPurpose == <<{"O", "L"}, {"B", "U"}, {"O", "U"}>>

=============================================================================
