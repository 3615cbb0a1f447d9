----------------------------- MODULE MCRepairProofs -----------------------------
(* Small instances of RepairProofs. *)
EXTENDS RepairProofs, TLC

CONSTANTS p1, p2, k1

MCPeers == {p1, p2}
MCKeys == {k1}
MCSymmetry == Permutations(MCPeers)

=============================================================================
