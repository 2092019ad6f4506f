----------------------------- MODULE MCSignals -----------------------------
(* The parts that keep time with another device or turn what it sends into   *)
(* data, in one run: each behaviour is a behaviour of one of them, and the   *)
(* others rest in an initial state.                                          *)
EXTENDS Codec, LePromisc, Ego

VARIABLES
  part,
  clkn, clkn_offset, clk100ns_offset, mr, drift, next, skew, pipe, cmds, owed, host, ticks, finds,
  address, hop_clk, hop_map,
  buf, current_rxbuf, packet_queue, le_packet, step, isr, le_radio, rxing, mr0, mr2, mr3, le_conn, conn_event,
  cancel_follow, link, on_air, fault

-----------------------------------------------------------------------------
CONSTANT NULL   \* LePhy's

Trim == INSTANCE ClockTrim WITH
  HALF <- 8, CLK_TUNE_TIME <- 6, CLK_TUNE_OFFSET <- 1, RATE <- 320, WORD <- 64,
  Stale <- 3, Gain <- 10, Latency <- 6, Life <- 22, Finds <- 1

\* Clocks over all their fields, addresses with E small and large.
Hop == INSTANCE HopSelection WITH clk <- hop_clk, map <- hop_map,
  Addresses <- {0, 1193046, 86075, 268435455, 178956970, 89478485, 11184810, 123456789},
  Clocks <- {k * 1048573 + j * 37 : k \in 0 .. 31, j \in 0 .. 3},
  Maps <- {{0, 77, 78}, {1, 3, 4, 40, 60}, {c \in 0 .. 78 : c % 3 = 0}}

LePhy == INSTANCE LePhy WITH packet <- le_packet, radio <- le_radio, conn <- le_conn, air <- on_air,
  LE_BUFFER_POOL_SIZE <- 3, Interval <- 4000, NewInterval <- 5000, SUPERVISION <- 9000, WinOffset <- 125,
  WinSize <- 125, Durations <- {8}, MaxPackets <- 2, Instant <- 2, Procedures <- {"map", "update"},
  Unheard <- {"after"}, Advertised <- {"connect"}, CHANNELS <- 3, EVENTS <- 3, MaxLag <- 10, HostMay <- {}

-----------------------------------------------------------------------------
(* Codec: packets of every kind around the limits of words and chunks, two   *)
(* patterns of payload and two seeds of whitening; a few bits inverted here  *)
(* and there, or one, two or three in every word.                            *)
MCFlips == {{}, {6, 9, 30}, {6, 9, 30, 33}, {6, 7}, {27, 28}, {60, 61}, {70, 100, 110}}
           \cup {{15 * w + 59 + e : w \in 0..40} : e \in {0, 3, 9, 10, 14}}

MCAddress == [lap |-> 10390323, uap |-> 71, nap |-> 43981]
MCParity == [i \in 1..34 |-> (i \div 3) % 2]
MCClock == 45678901
MCFhs == bbpkt_fhs_finalize_payload(bbpkt_fhs_prepare_payload(MCParity, MCAddress, 4660, 5, 1), MCClock)
MCInfo == [bdaddr |-> MCAddress, clk27_2 |-> MCClock, lt_addr |-> 5]
MCNoInfo == [bdaddr |-> 0, clk27_2 |-> 0, lt_addr |-> 0]
\* A payload of n bytes behind its header; the low three bits of the header are flow and LLID.
MCBytes(n, pattern) == [i \in 1..(8 * n) |-> CASE pattern = 0 -> 0 [] pattern = 1 -> 1 [] OTHER -> ((i * i) \div 5) % 2]
MCPayload(type, n, pattern) ==
  CASE type = 2 -> MCFhs
    [] type \in {3, 4} -> Bits(6, 3) \o Bits(n, 5) \o MCBytes(n, pattern)
    [] type \in {10, 11} -> Bits(6, 3) \o Bits(n, 13) \o MCBytes(n, pattern)
    [] OTHER -> <<>>
MCPacket(type, n, pattern, seed) ==
  [type |-> type, lt_addr |-> 5, flags |-> (type + n) % 8, payload |-> MCPayload(type, n, pattern),
   uap |-> 71, whiten |-> seed, info |-> IF type = 2 THEN MCInfo ELSE MCNoInfo]
MCKinds == {<<0, 0>>, <<2, 0>>, <<3, 0>>, <<3, 2>>, <<3, 5>>, <<3, 7>>, <<3, 17>>,
            <<4, 0>>, <<4, 7>>, <<4, 8>>, <<4, 27>>,
            <<10, 6>>, <<10, 11>>, <<10, 36>>, <<11, 16>>, <<11, 17>>, <<11, 18>>, <<11, 37>>}
MCPackets == {MCPacket(k[1], k[2], p, w) : k \in MCKinds, p \in {0, 2}, w \in {65}}

-----------------------------------------------------------------------------
\* The initial states, with one of each part's to rest in.
TrimRests == next = 0 /\ skew = 0 /\ Trim!Init
HopRests == address = 0 /\ hop_clk = 0 /\ hop_map = {0, 77, 78} /\ Hop!Init
CodecRests == pkt = MCPacket(0, 0, 0, 65) /\ CodecInit
EgoRests == mode = 2 /\ ego_channel = 4 /\ remote = [in |-> 0, chan |-> 0] /\ EgoInit
PromiscRests ==
  /\ channel = 2441 /\ jam_mode = "none" /\ clk = 3 /\ recover = NoRecover(0)
  /\ conn = [NoConn EXCEPT !.inc = 5, !.interval = 6, !.chan = 2]
  /\ Init

SignalsInit ==
  /\ part \in {"promisc", "trim", "hop", "lephy", "codec", "ego"}
  /\ IF part = "promisc" THEN Init ELSE PromiscRests
  /\ IF part = "trim" THEN Trim!Init ELSE TrimRests
  /\ IF part = "hop" THEN Hop!Init ELSE HopRests
  /\ IF part = "codec" THEN CodecInit ELSE CodecRests
  /\ IF part = "ego" THEN EgoInit ELSE EgoRests
  /\ LePhy!Init

trimVars == <<clkn, clkn_offset, clk100ns_offset, mr, drift, next, skew, pipe, cmds, owed, host, ticks, finds>>
hopVars == <<address, hop_clk, hop_map>>
lephyVars == <<buf, current_rxbuf, packet_queue, le_packet, step, isr, le_radio, rxing, mr0, mr2, mr3, le_conn,
              conn_event, cancel_follow, link, on_air, fault>>
allVars == <<part, vars, trimVars, hopVars, lephyVars, codecVars, egoVars>>

SignalsNext ==
  /\ UNCHANGED part
  /\ \/ part = "promisc" /\ Next /\ UNCHANGED <<codecVars, trimVars, hopVars, lephyVars, egoVars>>
     \/ part = "trim" /\ Trim!Next /\ UNCHANGED <<vars, codecVars, hopVars, lephyVars, egoVars>>
     \/ part = "hop" /\ Hop!Next /\ UNCHANGED <<vars, codecVars, trimVars, lephyVars, egoVars>>
     \/ part = "lephy" /\ LePhy!Next /\ UNCHANGED <<vars, codecVars, trimVars, hopVars, egoVars>>
     \/ part = "codec" /\ CodecNext /\ UNCHANGED <<vars, trimVars, hopVars, lephyVars, egoVars>>
     \/ part = "ego" /\ EgoNext /\ UNCHANGED <<vars, codecVars, trimVars, hopVars, lephyVars>>

SignalsSpec == SignalsInit /\ [][SignalsNext]_allVars

-----------------------------------------------------------------------------
(* Whatever packets were lost on the way, promiscuous mode is on the channel *)
(* of a connection whose interval it recovered rightly at each event         *)
(* (LePromisc).  GivenUp is LePromisc's, Follows is Ego's.                   *)
PromiscInStep == part = "promisc" => TypeOK /\ InStep

(* The two firmwares hop to the same channels, btbr over its inquiry trains *)
(* too; with a map in force btbr keeps to its channels, answers where it    *)
(* was spoken to and goes back to all channels without it (HopSelection).   *)
HopsAgree == part = "hop" => Hop!HopsAgree /\ Hop!AfhHops

(* A clock that the host trims comes within the tolerance of the piconet's, *)
(* unless a trim overlapped another (ClockTrim!TrimLands).                  *)
TrimLands == Trim!TrimLands

(* The follower of one connection hops with it, and changes its map when    *)
(* the connection does, whatever packets are lost, and always has a buffer  *)
(* to receive in (LePhy).                                                   *)
FollowerInStep == part = "lephy" => LePhy!InStep /\ LePhy!MapAtInstant /\ LePhy!NoNullBuffer
=============================================================================
