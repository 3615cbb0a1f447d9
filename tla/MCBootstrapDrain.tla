--------------------------- MODULE MCBootstrapDrain ---------------------------
(* A small instance of BootstrapDrain for TLC. *)
EXTENDS BootstrapDrain

CONSTANTS p1, p2, k1

MCPeers == {p1, p2}
MCKeys == {k1}
=============================================================================
