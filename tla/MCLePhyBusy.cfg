SPECIFICATION FollowSpec
CONSTANTS
  LE_BUFFER_POOL_SIZE = 2
  NULL = NULL
  Interval = 750
  NewInterval = 750
  SUPERVISION = 1000
  WinOffset = 0
  WinSize = 125
  Durations = {8}
  MaxPackets = 2
  Instant = 2
  Procedures = {}
  Unheard = {"after"}
  Advertised = {"connect","bad"}
  CHANNELS = 1
  EVENTS = 1
  MaxLag = 800
  HostMay = {"restart"}
CHECK_DEADLOCK FALSE
INVARIANTS OneOwner 
PROPERTY ConnectionGivenUp
