------------------------- MODULE MCReplicationWorkers -------------------------
(* Small instances of ReplicationWorkers for TLC. *)
EXTENDS ReplicationWorkers, TLC

CONSTANTS p1, p2, k1, k2

MCKeys == {k1, k2}
MCPeers == {p1, p2}
MCDistance == (k1 :> 1) @@ (k2 :> 2)
MCSources == {<<p1>>, <<p1, p2>>}
=============================================================================
