CONSTANTS
    NUM_FRAMES = 16
    NUM_CB = 4
    SCAN_MAX_SLOTS = 2
    DRAIN = 18
    PacketSlots = {1}
    RxqCap = 2
SPECIFICATION CtlFairSpec
PROPERTIES SearchEnds StopAnswered
CHECK_DEADLOCK FALSE
