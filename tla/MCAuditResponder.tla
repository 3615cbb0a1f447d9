--------------------------- MODULE MCAuditResponder ---------------------------
(* The responder of audits for TLC: a small instance of AuditAdmission, and *)
(* beside it SubtreeProof with all trees of up to MaxKeyCount keys and all  *)
(* nonces.  The two share no state; a behaviour is one of either.           *)
EXTENDS AuditAdmission, SubtreeProof

CONSTANTS p1, p2, p3

MCPeers == {p1, p2, p3}

VARIABLE part      \* the component the behaviour is of

MCInit == Init /\ SubtreeInit /\ part \in {"admission", "proof"}

AdmissionStep == part = "admission" /\ Next /\ UNCHANGED <<part, treeVars>>
ProofStep == part = "proof" /\ Challenge /\ UNCHANGED <<part, vars>>

MCSpec ==
    /\ MCInit
    /\ [][AdmissionStep \/ ProofStep]_<<part, vars, treeVars>>
    /\ Fairness

=============================================================================
