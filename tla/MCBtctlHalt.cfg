CONSTANTS
    NUM_FRAMES = 16
    NUM_CB = 4
    SCAN_MAX_SLOTS = 8
    DRAIN = 29
    PacketSlots = {1, 5}
    RxqCap = 2
SPECIFICATION CtlSpec
INVARIANTS NeverHalts
CHECK_DEADLOCK FALSE
