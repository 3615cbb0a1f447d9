-------------------------- MODULE MCCommitmentRestart --------------------------
(* Small instances of CommitmentRestart for TLC. *)
EXTENDS CommitmentRestart, TLC

CONSTANTS h1, h2, h3, k1

MCHashes == {h1, h2, h3}
MCKeys == {k1}

\* No definition tells two commitments apart.
HashSymmetry == Permutations(MCHashes)
=============================================================================
