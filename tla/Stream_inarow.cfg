CONSTANTS
    cam1 = cam1  cam2 = cam2  ann = ann  bob = bob  Nobody = Nobody
    Conn = {cam1}
    User = {ann}
    Required = 2
    Cooldown = 1
    PruneAt = 1
    MaxFrames = 3
    MaxTime = 0
CHECK_DEADLOCK FALSE
SPECIFICATION Spec
INVARIANT CommitsInARow
