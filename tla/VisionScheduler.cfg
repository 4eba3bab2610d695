\* Two lanes, one user, one worker; a batch smaller than the backlog.
SPECIFICATION FairSpec
CONSTANTS
    Frames = {1, 2}
    OldFrames = {1}
    MaxJobId = 6
    MaxAttempts = 2
    BackoffBase = 1
    BackoffCap = 1
    VisibilityTimeout = 1
    Batch = 1
    RangeCap = 2
    MaxEvents = 1
INVARIANTS NoDoubleQueue StoppedIsCold
PROPERTIES WarmEnds BacklogDrains
CHECK_DEADLOCK FALSE
