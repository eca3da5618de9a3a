------------------------------ MODULE MCStream ------------------------------
(* TLC instances of Stream: see the .cfg files for the constants. *)
EXTENDS Stream, TLC

CONSTANTS cam1, cam2, ann, bob

MCConns == {cam1, cam2}
MCUsers == {ann, bob}

\* Cameras and employees are interchangeable: nothing orders them.
MCSymmetry == Permutations(MCConns) \cup Permutations(MCUsers)
=============================================================================
