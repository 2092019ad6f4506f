SPECIFICATION HostsSpec
CONSTANTS
  Piconets <- MCPiconets
  FIFO_SIZE = 3
  MaxPackets = 7
  Faults = 2
PROPERTIES EveryPacket StreamServed MapRight CommandsEnd SetupEnds
CHECK_DEADLOCK FALSE
