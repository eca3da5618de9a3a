--------------------------- MODULE MCAdminSession ---------------------------
(* TLC instances of AdminSession: see the .cfg files for the constants. *)
EXTENDS AdminSession, TLC

CONSTANTS p1, p2, t1, t2, q1, q2

MCProcesses == {p1, p2}
MCTokens == {t1, t2}
MCRequests == {q1, q2}

\* Processes, tokens and requests are interchangeable: nothing orders them.
MCSymmetry == Permutations(MCProcesses) \cup Permutations(MCTokens)
                \cup Permutations(MCRequests)
=============================================================================
