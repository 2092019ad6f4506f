SPECIFICATION SignalsSpec
CONSTANTS
  AAs = {target, noise, other}
  AA_LIST_SIZE = 2
  TARGET = target
  ZERO = zero
  Incs = {5, 16}
  Intervals = {6, 7}
  NewInterval = 9
  Clocks = {3, 3700}
  Starts = {2}
  Stale = {0}
  Channels = {2441, 2404}
  Leads = {0, 3}
  JamModes = {"none", "once"}
  JAM_COUNT_DEFAULT = 3
  WRAP = 4000
  ROLLOVER = 3280
  TIMEOUT = 40
  TIMER_RANGE = 150
  Instant = 2
  Life = 250
  MaxLost = 1
  NULL = NULL
  Modes = {0, 1, 2}
  Ms = 3
  EGO_WRAP = 70
  EgoStarts = {0}
  Period = 33
  LOCK = 1
  Reads = {1, 2}
  MaxMissed = 2
  MaxUnheard = 1
  CODEC_TX_CHUNK_SIZE = 20
  Packets <- MCPackets
  Flips <- MCFlips
  Junk = {0, 1}
  CODEC_RX_CHUNK_SIZE = 10
INVARIANTS PromiscInStep GivenUp FollowerInStep HopsAgree PacketArrives Follows
PROPERTY TrimLands
CHECK_DEADLOCK FALSE
