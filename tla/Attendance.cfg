\* Two cameras and two users share the cooldown registry and the bridge.
CONSTANTS
    cam1 = cam1  cam2 = cam2  ann = ann  bob = bob  Nobody = Nobody
    Conn <- MCConns
    User <- MCUsers
    Required = 1
    Cooldown = 1
    PruneAt = 0
    MaxFrames = 1
    MaxTime = 1
    Capacity = 1
    MaxEvents = 4
    MaxSends = 2
    MaxRestarts = 1
CHECK_DEADLOCK FALSE
SYMMETRY MCSymmetry
VIEW MCView
SPECIFICATION SystemSpec
INVARIANTS CommitsSpaced CommitsAccounted
PROPERTY ImplementsLedger
