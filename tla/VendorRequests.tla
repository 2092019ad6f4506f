--------------------------- MODULE VendorRequests ---------------------------
(* The vendor request handler of the bluetooth_rxtx firmware               *)
(* (vendor_request_handler, firmware/bluetooth_rxtx/bluetooth_rxtx.c): what *)
(* each control request of the host does to the shared variables the main   *)
(* loop works from, whether it is accepted, and how many bytes it answers.  *)
(*                                                                          *)
(* A request r is a record: op, the opcode's name; v and i, wValue and      *)
(* wIndex; n, wLength; data, one value standing for the bytes of the data   *)
(* stage.  The shared variables are one record d (see DeviceTypes).  The    *)
(* result says ok (the return value), the new d, len (what *data_len holds  *)
(* on return: the handler leaves it at wLength unless it assigns it), and   *)
(* val, the value the answer carries.                                       *)
EXTENDS Integers, Sequences

\* The operation modes of ubertooth_interface.h this firmware enters.
ModeNames == {"IDLE", "RX_SYMBOLS", "TX_SYMBOLS", "TX_TEST", "RANGE_TEST", "REPEATER", "SPECAN",
              "LED_SPECAN", "BT_FOLLOW", "BT_FOLLOW_LE", "BT_PROMISC_LE", "RESET", "BT_SLAVE_LE",
              "EGO", "AFH", "RX_GENERIC", "TX_GENERIC", "XMAS"}
HopModes == {"NONE", "SWEEP", "BLUETOOTH", "BTLE", "DIRECT", "AFH"}
\* Shared settings a request reads or writes and nothing in this handler
\* interprets: pins, the power amplifier's level, modulation, squelch, the
\* LE access address and CRC checking.
Settings == {"USRLED", "RXLED", "TXLED", "CC1V8", "PAEN", "HGM", "PALEVEL", "MOD", "SQUELCH",
             "CRC_VERIFY", "ACCESS_ADDRESS", "JAM_MODE", "EGO_MODE"}

MinFreq == 2268
MaxFreq == 2794
Clamp(f) == IF f < MinFreq THEN MinFreq ELSE IF f > MaxFreq THEN MaxFreq ELSE f
Truth(x) == IF x = 0 THEN 0 ELSE 1

\* The three ways out of a case of the switch.
Answers(d, len, val) == [ok |-> TRUE, d |-> d, len |-> len, val |-> val]
Accepts(r, d)        == Answers(d, r.n, 0)
Refuses(r, d)        == [ok |-> FALSE, d |-> d, len |-> r.n, val |-> 0]

Requests(d, m) == [d EXCEPT !.requested_mode = m]
Put(d, name, x) == [d EXCEPT !.set[name] = x]

\* Pins are read as 0 or 1 and written with the truth value of wValue.
PinRead  == [GET_USRLED |-> "USRLED", GET_RXLED |-> "RXLED", GET_TXLED |-> "TXLED",
             GET_1V8 |-> "CC1V8", GET_PAEN |-> "PAEN", GET_HGM |-> "HGM"]
PinWrite == [SET_USRLED |-> "USRLED", SET_RXLED |-> "RXLED", SET_TXLED |-> "TXLED",
             SET_1V8 |-> "CC1V8", SET_PAEN |-> "PAEN", SET_HGM |-> "HGM"]

\* PING to GET_SERIAL.
BasicRequests(r, d) ==
  CASE r.op = "PING"                -> Answers(d, 0, 0)
    [] r.op = "RX_SYMBOLS"          -> Answers(Requests(d, "RX_SYMBOLS"), 0, 0)
    [] r.op = "TX_SYMBOLS"          ->
         Answers([Requests(d, "TX_SYMBOLS") EXCEPT !.hop_mode = "BLUETOOTH"], 0, 0)
    [] r.op \in DOMAIN PinRead      -> Answers(d, 1, d.set[PinRead[r.op]])
    [] r.op \in DOMAIN PinWrite     -> Accepts(r, Put(d, PinWrite[r.op], Truth(r.v)))
    [] r.op = "GET_PARTNUM"         -> Answers(d, 5, 0)
    [] r.op = "RESET"               -> Accepts(r, Requests(d, "RESET"))
    [] r.op = "GET_SERIAL"          -> Answers(d, 17, 0)
BasicOps == {"PING", "RX_SYMBOLS", "TX_SYMBOLS", "GET_PARTNUM", "RESET", "GET_SERIAL"}
            \cup DOMAIN PinRead \cup DOMAIN PinWrite

\* SET_CHANNEL: above the band means sweep from 2402; otherwise the channel
\* is clamped and hopping stops.  While following a connection the current
\* channel is left alone and the request is kept for later.
SetChannel(r, d) ==
  LET sweep == r.v > MaxFreq
      req   == IF sweep THEN 2402 ELSE Clamp(r.v)
      tuned == [d EXCEPT !.hop_mode = IF sweep THEN "SWEEP" ELSE "NONE", !.le_adv_channel = req]
  IN  IF d.mode = "BT_FOLLOW_LE"
      THEN [tuned EXCEPT !.requested_channel = req]
      ELSE [tuned EXCEPT !.channel = req, !.requested_channel = 0]

\* TX_TEST to SET_CHANNEL: the transmit tests, the power level, the range
\* test's result, STOP, modulation and channel.
RadioRequests(r, d) ==
  CASE r.op = "TX_TEST"     -> Accepts(r, Requests(d, "TX_TEST"))
    [] r.op = "GET_PALEVEL" -> Answers(d, 1, d.set["PALEVEL"])
    [] r.op = "SET_PALEVEL" -> IF r.v < 8 THEN Accepts(r, Put(d, "PALEVEL", r.v)) ELSE Refuses(r, d)
    [] r.op = "RANGE_TEST"  -> Accepts(r, Requests(d, "RANGE_TEST"))
    [] r.op = "REPEATER"    -> Accepts(r, Requests(d, "REPEATER"))
    [] r.op = "RANGE_CHECK" -> Answers(d, 5, 0)
    [] r.op = "STOP"        -> Accepts(r, Requests(d, "IDLE"))
    [] r.op = "GET_MOD"     -> Answers(d, 1, d.set["MOD"])
    [] r.op = "SET_MOD"     -> Accepts(r, Put(d, "MOD", r.v % 256))
    [] r.op = "GET_CHANNEL" -> Answers(d, 2, d.channel)
    [] r.op = "SET_CHANNEL" -> Accepts(r, SetChannel(r, d))
RadioOps == {"TX_TEST", "GET_PALEVEL", "SET_PALEVEL", "RANGE_TEST", "REPEATER", "RANGE_CHECK", "STOP",
             "GET_MOD", "SET_MOD", "GET_CHANNEL", "SET_CHANNEL"}

\* SET_ISP to GET_SQUELCH.  SET_ISP does not return.  The two spectrum
\* analysers check their parameters.  Revision and compile strings are as
\* long as the build made them.
SpecanRange(r) == /\ r.v >= 2049 /\ r.v <= 3072
                  /\ r.i >= 2049 /\ r.i <= 3072
                  /\ r.i >= r.v
BuildRequests(r, d) ==
  CASE r.op = "SET_ISP"          -> Answers([d EXCEPT !.gone = TRUE], 0, 0)
    [] r.op = "FLASH"            -> Accepts(r, [Requests(d, "RESET") EXCEPT !.dfu = TRUE])
    [] r.op = "SPECAN"           ->
         IF SpecanRange(r) THEN Answers(Requests(d, "SPECAN"), 0, 0) ELSE Refuses(r, d)
    [] r.op = "RX_GENERIC"       -> Answers(Requests(d, "RX_GENERIC"), 0, 0)
    [] r.op = "LED_SPECAN"       ->
         IF r.v > 256 THEN Refuses(r, d) ELSE Answers(Requests(d, "LED_SPECAN"), 0, 0)
    [] r.op = "GET_REV_NUM"      -> Answers(d, 3 + d.build, d.build)
    [] r.op = "GET_COMPILE_INFO" -> Answers(d, 1 + d.build, d.build)
    [] r.op = "GET_BOARD_ID"     -> Answers(d, 1, 0)
    [] r.op = "SET_SQUELCH"      -> Accepts(r, Put(d, "SQUELCH", r.v % 256))
    [] r.op = "GET_SQUELCH"      -> Answers(d, 1, d.set["SQUELCH"])
BuildOps == {"SET_ISP", "FLASH", "SPECAN", "RX_GENERIC", "LED_SPECAN", "GET_REV_NUM", "GET_COMPILE_INFO",
             "GET_BOARD_ID", "SET_SQUELCH", "GET_SQUELCH"}

\* SET_BDADDR to FIX_CLOCK_DRIFT: following a piconet.
FollowRequests(r, d) ==
  CASE r.op = "SET_BDADDR"      -> Accepts(r, [d EXCEPT !.target = r.data])
    [] r.op = "START_HOPPING"   ->
         Accepts(r, [Requests(d, "BT_FOLLOW") EXCEPT !.hop_mode = "BLUETOOTH", !.discard = TRUE])
    [] r.op = "AFH"             ->
         Accepts(r, [Requests(d, "AFH") EXCEPT !.hop_mode = "AFH", !.afh_map = 0, !.afh_enabled = TRUE])
    [] r.op = "HOP"             -> Accepts(r, [d EXCEPT !.do_hop = TRUE])
    [] r.op = "SET_AFHMAP"      -> Answers([d EXCEPT !.afh_map = r.data, !.afh_enabled = TRUE], 10, 0)
    [] r.op = "CLEAR_AFHMAP"    -> Answers([d EXCEPT !.afh_map = 0, !.afh_enabled = FALSE], 10, 0)
    [] r.op = "GET_CLOCK"       -> Answers(d, 4, 0)
    [] r.op \in {"SET_CLOCK", "TRIM_CLOCK", "FIX_CLOCK_DRIFT"} -> Accepts(r, d)
FollowOps == {"SET_BDADDR", "START_HOPPING", "AFH", "HOP", "SET_AFHMAP", "CLEAR_AFHMAP", "GET_CLOCK",
              "SET_CLOCK", "TRIM_CLOCK", "FIX_CLOCK_DRIFT"}

\* The LE modes that stream packets, and the requests for them, which empty
\* the queue at once.
IsLe(m) == m \in {"BT_FOLLOW_LE", "BT_PROMISC_LE"}
LeOp(r) == r.op \in {"BTLE_SNIFFING", "BTLE_PROMISC"}

\* BTLE_SNIFFING to READ_ALL_REGISTERS: low energy, polling, registers.
\* Entering an LE mode empties the queue of packets; POLL takes one out.
PacketSize == 64
LeRequests(r, d) ==
  CASE r.op = "BTLE_SNIFFING"       ->
         Answers([Requests(d, "BT_FOLLOW_LE") EXCEPT !.do_follow = (r.v % 256) # 0, !.do_hop = FALSE,
                                                     !.hop_mode = "BTLE", !.q = << >>], 0, 0)
    [] r.op = "GET_ACCESS_ADDRESS"  -> Answers(d, 4, d.set["ACCESS_ADDRESS"])
    [] r.op = "SET_ACCESS_ADDRESS"  ->
         Accepts(r, [Put(d, "ACCESS_ADDRESS", r.data) EXCEPT !.target_set = TRUE])
    [] r.op = "DO_SOMETHING"        -> Accepts(r, d)
    [] r.op = "DO_SOMETHING_REPLY"  -> Answers(d, 2, 0)
    [] r.op = "GET_CRC_VERIFY"      -> Answers(d, 1, d.set["CRC_VERIFY"])
    [] r.op = "SET_CRC_VERIFY"      -> Accepts(r, Put(d, "CRC_VERIFY", Truth(r.v)))
    [] r.op = "POLL"                -> IF d.q = << >> THEN Answers(d, 1, 0)
                                       ELSE Answers([d EXCEPT !.q = Tail(@)], PacketSize, Head(d.q))
    [] r.op = "BTLE_PROMISC"        ->
         Answers([Requests(d, "BT_PROMISC_LE") EXCEPT !.hop_mode = "NONE", !.q = << >>], 0, 0)
    [] r.op = "READ_REGISTER"       -> Answers(d, 2, 0)
    [] r.op \in {"WRITE_REGISTER", "WRITE_REGISTERS"} -> Accepts(r, d)
    [] r.op = "READ_ALL_REGISTERS"  -> Answers(d, 45 * 3, 0)
LeOps == {"BTLE_SNIFFING", "GET_ACCESS_ADDRESS", "SET_ACCESS_ADDRESS", "DO_SOMETHING", "DO_SOMETHING_REPLY",
          "GET_CRC_VERIFY", "SET_CRC_VERIFY", "POLL", "BTLE_PROMISC", "READ_REGISTER", "WRITE_REGISTER",
          "WRITE_REGISTERS", "READ_ALL_REGISTERS"}

\* Ego mode's own commands, by wValue: 1 sets an access code of one to four
\* bytes, 2 the length of a captured packet, one byte.
rfcat_subcommand(r) == \/ r.v = 1 /\ r.n \in 1..4
                       \/ r.v = 2 /\ r.n = 1

\* TX_GENERIC_PACKET to the end of the switch.
AdvMaxLen == 255
TransmitRequests(r, d) ==
  CASE r.op = "TX_GENERIC_PACKET" -> Answers(Requests(d, "TX_GENERIC"), 0, 0)
    [] r.op = "BTLE_SLAVE"        -> Accepts(r, Requests(d, "BT_SLAVE_LE"))
    [] r.op = "LE_SET_ADV_DATA"   -> IF r.n > AdvMaxLen THEN Refuses(r, d) ELSE Accepts(r, d)
    [] r.op = "BTLE_SET_TARGET"   -> IF r.data > 48 THEN Refuses(r, d)
                                     ELSE Accepts(r, [d EXCEPT !.target_set = (r.data # 0)])
    [] r.op = "CANCEL_FOLLOW"     -> Accepts(r, [d EXCEPT !.cancel_follow = TRUE])
    [] r.op = "JAM_MODE"          -> Accepts(r, Put(d, "JAM_MODE", r.v % 256))
    [] r.op = "EGO"               -> Accepts(r, Requests(Put(d, "EGO_MODE", r.v % 256), "EGO"))
    [] r.op = "RFCAT_SUBCMD"      -> IF rfcat_subcommand(r) THEN Accepts(r, d) ELSE Refuses(r, d)
    [] r.op = "XMAS"              -> Accepts(r, Requests(d, "XMAS"))
TransmitOps == {"TX_GENERIC_PACKET", "BTLE_SLAVE", "LE_SET_ADV_DATA", "BTLE_SET_TARGET", "CANCEL_FOLLOW",
                "JAM_MODE", "EGO", "RFCAT_SUBCMD", "XMAS"}

vendor_request_handler(r, d) ==
  CASE r.op \in BasicOps    -> BasicRequests(r, d)
    [] r.op \in RadioOps    -> RadioRequests(r, d)
    [] r.op \in BuildOps    -> BuildRequests(r, d)
    [] r.op \in FollowOps   -> FollowRequests(r, d)
    [] r.op \in LeOps       -> LeRequests(r, d)
    [] r.op \in TransmitOps -> TransmitRequests(r, d)
    [] OTHER                -> Refuses(r, d)

\* The shared variables as cc2400_idle leaves them at start, and a queue.
InitialDevice(queue) ==
  [mode |-> "IDLE", requested_mode |-> "IDLE", hop_mode |-> "NONE", do_hop |-> FALSE, discard |-> FALSE,
   channel |-> 2441, requested_channel |-> 0, le_adv_channel |-> 2402, target |-> 0, target_set |-> FALSE,
   do_follow |-> TRUE, cancel_follow |-> FALSE, afh_map |-> 0, afh_enabled |-> FALSE, dfu |-> FALSE,
   gone |-> FALSE, build |-> 125, q |-> queue, set |-> [x \in Settings |-> 0]]

\* The shared variables: requests may change every field but mode and build.
WordMax == 65535
Words == 0..WordMax
DeviceTypes(d) ==
  /\ d.mode \in ModeNames /\ d.requested_mode \in ModeNames /\ d.hop_mode \in HopModes
  /\ d.channel \in MinFreq..MaxFreq /\ d.requested_channel \in {0} \cup MinFreq..MaxFreq
  /\ d.set \in [Settings -> Words]
=============================================================================
