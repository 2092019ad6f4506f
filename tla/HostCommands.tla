---------------------------- MODULE HostCommands ----------------------------
(* The control requests libubertooth makes (host/libubertooth/src/          *)
(* ubertooth_control.c), one record per wrapper: the opcode, the direction   *)
(* of its data stage, wValue (v) and wIndex (i), the length it asks for or   *)
(* sends (n), one value for the bytes it sends (data), and how many bytes    *)
(* of the answer the wrapper goes on to read without looking at the length   *)
(* it got (reads).  Arguments range over the given sets.                     *)
EXTENDS Integers

Out(op, v, i) == [op |-> op, dir |-> "out", v |-> v, i |-> i, n |-> 0, data |-> 0, reads |-> 0]
OutData(op, v, n, data) == [op |-> op, dir |-> "out", v |-> v, i |-> 0, n |-> n, data |-> data, reads |-> 0]
In(op, v, n, reads) == [op |-> op, dir |-> "in", v |-> v, i |-> 0, n |-> n, data |-> 0, reads |-> reads]

\* cmd_trim_clock to cmd_get_usrled.
PlainCommands(args) ==
  {OutData("TRIM_CLOCK", 0, 2, 0), OutData("FIX_CLOCK_DRIFT", 0, 2, 0), In("PING", 0, 0, 0),
   Out("RX_SYMBOLS", 0, 0), Out("TX_SYMBOLS", 0, 0), In("GET_USRLED", 0, 1, 1)}
  \cup {Out("SPECAN", lo, hi) : lo \in args, hi \in args}
  \cup {Out(op, x, 0) : op \in {"LED_SPECAN", "SET_USRLED"}, x \in args}

\* cmd_set_rxled to cmd_get_partnum.
PinCommands(args) ==
  {In(op, 0, 1, 1) : op \in {"GET_RXLED", "GET_TXLED", "GET_MOD"}}
  \cup {Out(op, x, 0) : op \in {"SET_RXLED", "SET_TXLED", "SET_CHANNEL"}, x \in args}
  \cup {In("GET_CHANNEL", 0, 2, 2), In("GET_PARTNUM", 0, 5, 5)}

\* cmd_get_serial to cmd_flash.
StateCommands(args) ==
  {In("GET_SERIAL", 0, 17, 17)}
  \cup {Out(op, 0, 0) : op \in {"SET_ISP", "RESET", "STOP", "TX_TEST", "FLASH"}}
  \cup {Out(op, x, 0) : op \in {"SET_MOD", "SET_PAEN", "SET_HGM"}, x \in args}

\* cmd_get_palevel to cmd_get_compile_info: the two strings are cut to the
\* length received.
RangeCommands(args) ==
  {In("GET_PALEVEL", 0, 1, 1), In("RANGE_CHECK", 0, 5, 5), Out("RANGE_TEST", 0, 0), Out("REPEATER", 0, 0),
   In("GET_REV_NUM", 0, 2 + 1 + 255, 3), In("GET_COMPILE_INFO", 0, 1 + 255, 1)}
  \cup {Out("SET_PALEVEL", x, 0) : x \in args}

\* cmd_get_board_id to cmd_btle_sniffing.
FollowCommands(args) ==
  {In("GET_BOARD_ID", 0, 1, 1), In("GET_SQUELCH", 0, 1, 1), OutData("START_HOPPING", 0, 6, 0),
   OutData("SET_CLOCK", 0, 4, 0), In("GET_CLOCK", 0, 4, 4)}
  \cup {OutData("SET_BDADDR", 0, 16, x) : x \in args}
  \cup {Out(op, x, 0) : op \in {"SET_SQUELCH", "BTLE_SNIFFING"}, x \in args}

\* cmd_set_afh_map to cmd_set_crc_verify.
LeCommands(args) ==
  {Out("CLEAR_AFHMAP", 0, 0), In("GET_ACCESS_ADDRESS", 0, 4, 4), OutData("DO_SOMETHING", 0, 1, 0),
   In("DO_SOMETHING_REPLY", 0, 2, 0), In("GET_CRC_VERIFY", 0, 1, 1)}
  \cup {OutData("SET_AFHMAP", 0, 10, x) : x \in args}
  \cup {OutData("SET_ACCESS_ADDRESS", 0, 4, x) : x \in args}
  \cup {Out("SET_CRC_VERIFY", x, 0) : x \in args}

\* cmd_poll asks for a whole packet; its caller looks at the length.  (It would
\* try again after a stall, which the firmware never answers POLL with.)
PollCommand == In("POLL", 0, 64, 0)

\* cmd_btle_promisc to cmd_set_jam_mode.
TargetCommands(args) ==
  {Out("BTLE_PROMISC", 0, 0), In("READ_REGISTER", 0, 2, 2), OutData("BTLE_SLAVE", 0, 6, 0)}
  \cup {OutData("LE_SET_ADV_DATA", 0, x, 0) : x \in {y \in args : y <= 255}}
  \cup {OutData("BTLE_SET_TARGET", 0, 7, x) : x \in {y \in args : y <= 255}}
  \cup {Out("JAM_MODE", x, 0) : x \in args}

\* cmd_ego to ubertooth_cmd_async.
RestCommands(args) ==
  {Out(op, 0, 0) : op \in {"AFH", "HOP", "CANCEL_FOLLOW", "XMAS"}}
  \cup {Out("EGO", x, 0) : x \in args}
  \cup {OutData("RFCAT_SUBCMD", x, n, 0) : x \in {1, 2}, n \in {1, 4}}

Commands(args) ==
  PlainCommands(args) \cup PinCommands(args) \cup StateCommands(args) \cup RangeCommands(args)
  \cup FollowCommands(args) \cup LeCommands(args) \cup {PollCommand} \cup TargetCommands(args)
  \cup RestCommands(args)
=============================================================================
