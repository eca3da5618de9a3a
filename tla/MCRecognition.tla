---------------------------- MODULE MCRecognition ----------------------------
(* TLC instance of Recognition: see the .cfg file for the constants. *)
EXTENDS Recognition, TLC

CONSTANTS ann, bob, t1, t2, w1

MCUsers == {ann, bob}
MCTasks == {t1, t2}
=============================================================================
