---------------------------- MODULE MCVerification ----------------------------
(* TLC instance of Enrollment and Verification: see the .cfg file. *)
EXTENDS Verification, TLC

CONSTANTS r1, r2, r3

MCReqs == {r1, r2, r3}

\* Requests are interchangeable: nothing orders them.
MCSymmetry == Permutations(MCReqs)
=============================================================================
