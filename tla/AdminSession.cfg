\* Two processes start on an empty database; two logins, two requests, sessions
\* of one unit of time.
CONSTANTS
    p1 = p1  p2 = p2  t1 = t1  t2 = t2  q1 = q1  q2 = q2
    Process <- MCProcesses
    Token <- MCTokens
    Request <- MCRequests
    TTL = 1
    MaxTime = 3
CHECK_DEADLOCK FALSE
SYMMETRY MCSymmetry
SPECIFICATION Spec
INVARIANTS TypeOK RequestsAuthorised
PROPERTIES DeactivationLasts
