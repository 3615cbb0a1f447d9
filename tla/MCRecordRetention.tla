--------------------------- MODULE MCRecordRetention ---------------------------
(* Small instances of RecordRetention for TLC. *)
EXTENDS RecordRetention

CONSTANTS k1, k2, h1, h2, h3

MCKeys == {k1, k2}
MCHashes == {h1, h2, h3}

=============================================================================
