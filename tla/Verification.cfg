\* Three registrations: one before, two that race; a deletion, two failing calls,
\* a restart with a new model and two runs of the script.  Photos with every
\* combination of flaws, faces and scores.
CONSTANTS
    r1 = r1  r2 = r2  r3 = r3
    Req <- MCReqs
    Shots = 1
    StoreImages = TRUE
    NoDoc = NoDoc
    MaxDeletes = 1
    MaxFails = 2
    MaxRuns = 2
    GateEnabled = TRUE
    LiveFrom = 1
    MaxScore = 1
    NoScore = NoScore
CHECK_DEADLOCK FALSE
SYMMETRY MCSymmetry
SPECIFICATION Spec
INVARIANTS TypeOK ImagesAreCurrent VectorsAreOwn OnePackAfterSwitch EndpointsAgree
