---------------------------- MODULE MCClosenessCheck ----------------------------
(* A small instance of ClosenessCheck. *)
EXTENDS ClosenessCheck

CONSTANTS c1, c2, c3

MCCallers == {c1, c2, c3}
=============================================================================
