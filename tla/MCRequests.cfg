SPECIFICATION RequestsSpec
CONSTANTS
  Faults = 1
  First <- MCFirst
  Second <- MCSecond
  Arguments = {0, 60, 2500, 3000}
  Script <- MCScript
  MaxTimeouts = 1
  MaxBusResets = 1
INVARIANTS AsAsked ReplyHonest
PROPERTIES SignalEnds TransferEnds
CHECK_DEADLOCK FALSE
