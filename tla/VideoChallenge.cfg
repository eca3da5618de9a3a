\* Three submissions race for two challenges that expire while the clock runs.
CONSTANTS
    ch1 = ch1  ch2 = ch2  r1 = r1  r2 = r2  r3 = r3  Unknown = Unknown
    Challenge <- MCChallenges
    Request <- MCRequests
    TTL = 1
    TzAware = TRUE
    ModelPresent = TRUE
    MaxTime = 2
    MaxFails = 1
CHECK_DEADLOCK FALSE
SYMMETRY MCSymmetry
SPECIFICATION Spec
INVARIANTS TypeOK SingleUse JudgedInTime TrueRefusals
