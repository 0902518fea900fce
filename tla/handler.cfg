SPECIFICATION FairSpec
CONSTANTS
    PongWait = 4
    PingPeriod = 3
    MaxFrames = 2
INVARIANTS TypeOK OneWriter OneReplyEach DropNeedsLongCall
PROPERTY GoneIsNoticed
CHECK_DEADLOCK FALSE
