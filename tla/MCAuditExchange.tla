---------------------------- MODULE MCAuditExchange ----------------------------
(* Small instance of AuditExchange. *)
EXTENDS AuditExchange

CONSTANTS n1, n2

MCTwoNodes == {n1, n2}

=============================================================================
