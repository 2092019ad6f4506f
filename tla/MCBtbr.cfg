SPECIFICATION BtbrSpec
CONSTANTS
  Msgs = {m1, m2}
  NULL = NULL
  OK = OK
  FULL = FULL
  Main = Main
  Irq = Irq
  MSG_QUEUE_SIZE = 4
  MAX_PACKET_SIZE = 6
  BUF_NUM = 3
  QueueLen = 2
  HostSizes = {2, 8}
  DeviceSizes = {2, 8}
  Sends = 2
  Posts = 3
  Resets = 1
  Traffic = 4
  NUM_FRAMES = 16
  NUM_CB = 4
  SCAN_MAX_SLOTS = 8
  DRAIN = 29
  PacketSlots = {1, 5}
  RxqCap = 2
INVARIANTS CheckedStaysTrue TasksNeverCollide StandbyIsQuiet  NothingStuck MapWithMaster
PROPERTIES ImplementsFifo MessagesWhole
CHECK_DEADLOCK FALSE
