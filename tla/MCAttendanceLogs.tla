-------------------------- MODULE MCAttendanceLogs --------------------------
(* TLC instances of AttendanceLogs: see the .cfg file for the constants. *)
EXTENDS AttendanceLogs, TLC

CONSTANTS c1, c2, c3, c4

MCChecks == {c1, c2, c3, c4}

\* Everything; the verified rows; the first day; the second day of the local
\* calendar; the second local hour of any day, from the second day of UTC on.
MCFilters == {NoFilter,
              [NoFilter EXCEPT !.verified = TRUE],
              [NoFilter EXCEPT !.from = 0, !.to = 0],
              [NoFilter EXCEPT !.day = 1],
              [NoFilter EXCEPT !.from = 1, !.hourFrom = 1, !.hourTo = 1]}

\* Verdicts are interchangeable: nothing orders them but their rows' times.
MCSymmetry == Permutations(MCChecks)
=============================================================================
