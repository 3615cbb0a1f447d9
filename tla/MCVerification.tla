---------------------------- MODULE MCVerification ----------------------------
(* A small instance of Verification for TLC: three honest nodes, one faulty. *)
EXTENDS Verification, TLC

CONSTANTS n1, n2, n3, f1

MCNodes == {n1, n2, n3, f1}
MCFaulty == {f1}

\* No definition tells two honest nodes apart.
HonestSymmetry == Permutations({n1, n2, n3})
=============================================================================
