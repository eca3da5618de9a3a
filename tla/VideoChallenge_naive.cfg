CONSTANTS
    ch1 = ch1  ch2 = ch2  r1 = r1  r2 = r2  r3 = r3  Unknown = Unknown
    Challenge = {ch1}
    Request = {r1}
    TTL = 1
    TzAware = FALSE
    ModelPresent = TRUE
    MaxTime = 1
    MaxFails = 0
CHECK_DEADLOCK FALSE
SPECIFICATION Spec
INVARIANT FirstUseIsJudged
