\* One camera, frame by frame: streaks of two over four frames and two users.
CONSTANTS
    cam1 = cam1  cam2 = cam2  ann = ann  bob = bob  Nobody = Nobody
    Conn = {cam1}
    User <- MCUsers
    Required = 2
    Cooldown = 1
    PruneAt = 1
    MaxFrames = 4
    MaxTime = 1
CHECK_DEADLOCK FALSE
SPECIFICATION FairSpec
INVARIANTS TypeOK CommitsConfirmed NoLostWakeup
PROPERTIES StreamEnds FramesServed
