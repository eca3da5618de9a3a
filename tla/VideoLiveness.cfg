\* Videos of at most eleven frames, every second of them sampled.
CONSTANTS
    Yaw <- MCYaws
    Ear = {0, 14, 24, 30}
    Score = {75, 90}
    Turn = 15
    Neutral = 5
    Closed = 50
    Open = 80
    Live = 80
    Moved = 60
    MinFrames = 4
    MaxFrames = 10
    SampleEvery = 2
CHECK_DEADLOCK FALSE
SPECIFICATION Spec
INVARIANTS VerdictIsRight FewSpoofedFrames
