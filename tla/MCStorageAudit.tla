---------------------------- MODULE MCStorageAudit ----------------------------
(* A small instance of StorageAudit for TLC. *)
EXTENDS StorageAudit, TLC

CONSTANTS h1, h2, k1, k2

MCHashes == {h1, h2}
MCKeys == {k1, k2}

Claims == boot \/ claim # "none"
Losses == damaged # {}
Payments == pending # NoPin \/ firstAudited # {} \/ \E h \in Hashes : quotes[h] # None
Silence ==
    \/ clearing \/ \E a \in audits : a.via = "downgrade"
    \/ sync.sent /\ sync.pin = None

\* A behaviour is followed as long as it does not combine bootstrap claims with lost
\* records, or payments with any of these or with the end of gossip.
Apart == ~(Claims /\ Losses) /\ (Payments => ~Claims /\ ~Losses /\ ~Silence)

\* No definition tells two commitments apart, or two keys.
HashAndKeySymmetry == Permutations(MCHashes) \cup Permutations(MCKeys)
=============================================================================
