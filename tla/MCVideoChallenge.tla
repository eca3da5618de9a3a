-------------------------- MODULE MCVideoChallenge --------------------------
(* TLC instances of VideoChallenge: see the .cfg files for the constants. *)
EXTENDS VideoChallenge, TLC

CONSTANTS ch1, ch2, r1, r2, r3

MCChallenges == {ch1, ch2}
MCRequests == {r1, r2, r3}

\* Challenges and requests are interchangeable: nothing orders them.
MCSymmetry == Permutations(MCChallenges) \cup Permutations(MCRequests)
=============================================================================
