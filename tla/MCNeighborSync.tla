---------------------------- MODULE MCNeighborSync ----------------------------
(* A small instance of NeighborSync for TLC. *)
EXTENDS NeighborSync

CONSTANTS p1, p2, p3

MCThreePeers == <<p1, p2, p3>>
=============================================================================
