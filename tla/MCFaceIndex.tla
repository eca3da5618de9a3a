---------------------------- MODULE MCFaceIndex ----------------------------
(* TLC instances of FaceIndex: see the .cfg files for the constants. *)
EXTENDS FaceIndex, TLC

CONSTANTS ann, bob, t1, t2, w1

MCUsers == {ann, bob}
MCTasks == {t1, t2}
=============================================================================
