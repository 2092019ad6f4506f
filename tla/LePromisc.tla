----------------------------- MODULE LePromisc -----------------------------
(***************************************************************************)
(* LE promiscuous mode (bluetooth_rxtx.c, bluetooth_le.c): bt_generic_le   *)
(* lists access addresses, bt_le_sync recovers the CRC, the interval and   *)
(* the hop increment of a connection it did not see begin, and follows it. *)
(* On the air: one connection over all 37 data channels, some of whose     *)
(* packets are not heard.  Time is in units of 1.25 ms (LE_BASECLK), from  *)
(* one connection event or hop to the next.                                *)
(***************************************************************************)
EXTENDS Integers, FiniteSets

CONSTANTS
  AAs, AA_LIST_SIZE,    \* access addresses heard, and the places to list them
  TARGET, ZERO,         \* the connection's; 0, in the empty list
  Incs, Intervals,      \* hop increments and intervals a connection may have
  NewInterval,          \* after a connection update
  Clocks,               \* CLK100NS when the connection is first in range
  Starts, Stale,        \* its channel then; prev_clk of an earlier session
  Channels,             \* the device's channel, in MHz
  Leads,                \* its events before the device counts them
  JamModes, JAM_COUNT_DEFAULT,
  WRAP, ROLLOVER,       \* CLK100NS starts again; what recover_hop_interval adds
  TIMEOUT,              \* 5 s
  TIMER_RANGE,          \* values of interval_timer
  Instant,              \* events from an update's announcement to its instant
  Life,                 \* events before the connection is out of range, unless followed
  MaxLost               \* packets not heard on the device's channel

ASSUME PromiscAssumption ==
  /\ WRAP \in Nat \ {0} /\ ROLLOVER \in Nat /\ Clocks \subseteq Nat /\ Stale \subseteq Nat
  /\ TIMEOUT \in Nat /\ TIMER_RANGE \in Nat \ {0}
  /\ NewInterval \in Nat \ {0} /\ Intervals \subseteq Nat \ {0}

VARIABLES
  pc,         \* idle, search (bt_generic_le) or sync (bt_le_sync)
  requested,  \* requested_mode is still MODE_BT_PROMISC_LE
  active_aa,  \* le_promisc.active_aa: [aa, count]
  le,         \* aa, crc, conn_interval, inc, idx, timer, link, pending, instant, interval_update
  packet_cb,
  channel,    \* MHz
  hop_mode, hop_direct_channel,
  recover,    \* smallest_hop_interval, consec_intervals and the statics prev_clk, first_ts
  jam_mode, le_jam_count,
  clk, quiet, \* CLK100NS; time since last_packet
  conn,       \* the connection: inc, interval, chan, next (event due in), left (packets in it),
              \* update (events to its instant), doubt (the device cannot know the update)
  lost

hopping == <<channel, hop_mode, hop_direct_channel>>
jam == <<jam_mode, le_jam_count>>
time == <<clk, quiet>>
vars == <<pc, requested, active_aa, le, packet_cb, hopping, recover, jam, time, conn, lost>>

None == -1          \* no update yet; the instant has passed
Done == -2
Past == -1
HopNow == -1        \* interval_timer has reached 0
Gone == -1          \* no event is due any more
Infinite == 2 * WRAP    \* 0xffffffff; differences are taken modulo 2^32
DIVIDE_ROUND(n, m) == (n + m \div 2) \div m

(* Channels: index of a frequency and back.                                *)
btle_channel_index(mhz) ==
  LET c == (mhz - 2402) \div 2
  IN CASE c = 0 -> 37 [] c = 12 -> 38 [] c >= 39 -> 39
       [] c \in 1 .. 11 -> c - 1 [] OTHER -> c - 2
btle_channel_index_to_phys(i) ==
  CASE i < 11 -> 2404 + 2 * i [] i \in 11 .. 36 -> 2428 + 2 * (i - 11)
    [] i = 37 -> 2402 [] i = 38 -> 2426 [] OTHER -> 2480

btle_next_hop(l) == [mhz |-> btle_channel_index_to_phys(l.idx), le |-> [l EXCEPT !.idx = (@ + l.inc) % 37]]

\* hop_interval_lut[n]: the increment that takes n hops to the next channel.
hop_interval_lut ==
  <<0, 1, 19, 25, 28, 15, 31, 16, 14, 33, 26, 27, 34, 20, 8, 5, 7, 24, 35, 2, 13, 30, 32, 29, 17, 3,
    10, 11, 4, 23, 21, 6, 22, 9, 12, 18, 36>>

----------------------------------------------------------------------------
(* The search for an access address: bt_generic_le and cb_le_promisc.      *)

Slots == 1 .. AA_LIST_SIZE
reset_le == [aa |-> "adv", crc |-> "off", conn_interval |-> 0, inc |-> 0, idx |-> 0, timer |-> 0,
             link |-> "inactive", pending |-> FALSE, instant |-> 0, interval_update |-> 0]
EmptyList == [i \in Slots |-> [aa |-> ZERO, count |-> 0]]
First(S) == CHOOSE i \in S : \A j \in S : i <= j
see_aa(aa) ==
  LET known == {i \in Slots : active_aa[i].aa = aa} IN
  IF known # {} THEN [active_aa EXCEPT ![First(known)].count = @ + 1]
  ELSE LET rare == {i \in Slots : \A j \in Slots : active_aa[i].count <= active_aa[j].count}
       IN  [active_aa EXCEPT ![First(rare)] = [aa |-> aa, count |-> 1]]

NoRecover(c) == [smallest |-> 0, consec |-> 0, prev_clk |-> c, first_ts |-> 0]
NoConn == [life |-> Life, inc |-> 1, interval |-> 6, chan |-> 0, next |-> 0,
           left |-> 2, update |-> None, doubt |-> FALSE]
\* cc2400_idle ends every mode, and with it the request for it.
cc2400_idle == /\ requested' = FALSE
               /\ hop_mode' = "none" /\ jam_mode' = "none"
               /\ clk' = 0 /\ quiet' = 0

cb_le_promisc(aa) ==
  LET often == {i \in Slots : see_aa(aa)[i].count > 3} IN
  /\ active_aa' = see_aa(aa)
  /\ IF often = {} THEN UNCHANGED <<pc, requested, le, packet_cb, hop_mode, jam_mode, time>>
     ELSE /\ le' = [le EXCEPT !.aa = see_aa(aa)[First(often)].aa, !.crc = "off"]
          /\ packet_cb' = "crc"
          /\ cc2400_idle /\ pc' = "between"
bt_generic_le ==
  /\ pc = "search"
  /\ \E aa \in AAs : cb_le_promisc(aa)
  /\ UNCHANGED <<channel, hop_direct_channel, recover, le_jam_count, conn, lost>>

\* The mode is over: what it leaves behind is of no more interest.
Over == /\ pc' = "idle" /\ requested' = FALSE
        /\ active_aa' = EmptyList /\ le' = reset_le /\ packet_cb' = "crc"
        /\ channel' = 2440 /\ hop_mode' = "none" /\ hop_direct_channel' = 0
        /\ recover' = NoRecover(0) /\ jam_mode' = "none" /\ le_jam_count' = 0
        /\ clk' = 0 /\ quiet' = 0 /\ conn' = NoConn /\ lost' = 0
StartSync(aa) == /\ pc' = "sync" /\ packet_cb' = "crc"
                 /\ le' = [le EXCEPT !.aa = aa, !.crc = "off", !.link = "listening"]
\* With an access address from the host (SET_ACCESS_ADDRESS), or without.
bt_promisc_le ==
  \/ /\ pc = "start" /\ requested
     /\ channel' = IF channel % 2 = 1 THEN 2440 ELSE channel
     /\ active_aa' = EmptyList
     /\ recover' = [recover EXCEPT !.smallest = Infinite, !.consec = 0]
     /\ \/ StartSync(TARGET)
        \/ pc' = "search" /\ le' = reset_le /\ UNCHANGED packet_cb
     /\ UNCHANGED <<requested, hop_mode, hop_direct_channel, jam, time, conn, lost>>
  \/ /\ pc = "between" \/ (pc = "start" /\ ~requested)
     /\ IF requested
        THEN StartSync(le.aa) /\ UNCHANGED <<requested, active_aa, hopping, recover, jam, time, conn, lost>>
        ELSE Over
Stop == pc \in {"search", "sync"} /\ Over

----------------------------------------------------------------------------
(* Recovery, packet by packet: each function is a packet_cb and returns    *)
(* what it makes of l (le), m (recover) and the rest.                      *)

Same == [le |-> le, cb |-> packet_cb, mode |-> hop_mode, direct |-> hop_direct_channel,
         do_hop |-> FALSE, rec |-> recover, jam |-> le_jam_count]

promisc_follow_cb(p) ==
  IF le.crc = "off" /\ p \in {"empty", "garbled"}
  THEN [Same EXCEPT !.le.crc = IF p = "empty" THEN "right" ELSE "wrong", !.cb = "interval"]
  ELSE Same

\* u32 arithmetic: a difference below 0 becomes a very large one.
Elapsed(now, then, rollover) ==
  LET n == IF now < then THEN now + rollover - then ELSE now - then IN IF n < 0 THEN Infinite ELSE n

Direct(r, mhz) == [r EXCEPT !.direct = mhz, !.do_hop = TRUE]
promisc_recover_hop_interval ==
  LET diff == Elapsed(clk, recover.prev_clk, ROLLOVER)
      least == IF diff < recover.smallest THEN diff ELSE recover.smallest
      observed == DIVIDE_ROUND(least, 37)
      n == IF le.conn_interval = observed THEN recover.consec + 1 ELSE 0
      \* prev_clk keeps the clock with the rollover added to it.
      kept == IF clk < recover.prev_clk THEN clk + ROLLOVER ELSE clk
      rec == [recover EXCEPT !.smallest = least, !.consec = n, !.prev_clk = kept]
  IN  IF diff < 2 THEN Same
      ELSE IF n = 5 THEN [Direct(Same, 2404) EXCEPT !.rec = rec, !.cb = "increment", !.mode = "direct"]
      ELSE [Same EXCEPT !.rec = rec, !.le.conn_interval = observed]

\* On the Cortex-M3 an unsigned division by zero gives zero.
Hopped(n) == IF le.conn_interval = 0 THEN 0 ELSE DIVIDE_ROUND(n, le.conn_interval)
\* What the recovery needed is of no more use to a connection followed.
Followed_inc(n) ==
  [Same EXCEPT !.le.inc = hop_interval_lut[n + 1], !.le.timer = le.conn_interval \div 2,
               !.le.idx = hop_interval_lut[n + 1], !.le.link = "connected", !.le.crc = "off",
               !.mode = "btle", !.cb = "follow", !.rec = NoRecover(0), !.direct = 0,
               !.jam = IF jam_mode # "none" THEN JAM_COUNT_DEFAULT ELSE @]
Followed(n) ==
  [Same EXCEPT !.le.inc = hop_interval_lut[n + 1], !.le.timer = le.conn_interval \div 2,
               !.le.idx = (1 + hop_interval_lut[n + 1]) % 37, !.le.link = "connected", !.le.crc = "off",
               !.mode = "btle", !.cb = "follow", !.rec = NoRecover(0), !.direct = 0,
               !.jam = IF jam_mode # "none" THEN JAM_COUNT_DEFAULT ELSE @]
promisc_recover_hop_increment ==
  LET hopped == Hopped(Elapsed(clk, recover.first_ts, WRAP)) IN
  CASE channel = 2404 -> [Direct(Same, 2406) EXCEPT !.rec.first_ts = clk]
    [] channel = 2406 /\ hopped < 37 -> Followed(hopped)
    [] OTHER -> Direct(Same, 2404)

\* An update is applied to the first packet at its instant; conn_count is kept
\* as the distance to that.  In promiscuous mode the link is always connected.
Updated(l) == IF l.pending /\ l.instant = 0
              THEN [l EXCEPT !.conn_interval = l.interval_update, !.timer = l.interval_update - 1, !.pending = FALSE]
              ELSE l
connection_follow_cb(p, lead) ==
  [Same EXCEPT !.le =
     IF p # "update" THEN Updated(le)
     ELSE [Updated(le) EXCEPT !.pending = TRUE, !.interval_update = NewInterval, !.instant = Instant + lead]]

Callback(p, lead) == CASE packet_cb = "crc" -> promisc_follow_cb(p)
                 [] packet_cb = "interval" -> promisc_recover_hop_interval
                 [] packet_cb = "increment" -> promisc_recover_hop_increment
                 [] packet_cb = "follow" -> connection_follow_cb(p, lead)

----------------------------------------------------------------------------
(* bt_le_sync: a turn of its loop for a packet and one for a hop, and the  *)
(* connection on the air.                                                  *)

Following == pc = "sync" /\ le.link = "connected"
Listening == pc = "sync" /\ le_jam_count = 0 /\ le.aa = TARGET
Due == conn.next = 0
OnChannel == btle_channel_index(channel) = conn.chan
Freq(r) == CASE ~r.do_hop -> channel [] r.mode = "direct" -> r.direct

\* crc_verify drops every packet with another CRC than expected.
Passes(p) == CASE le.crc = "off" -> TRUE [] le.crc = "right" -> p # "garbled" [] OTHER -> FALSE
\* After the callback the loop may hop, and jams until the count is one.
Receive(p, lead) ==
  IF ~Passes(p) THEN UNCHANGED <<le, packet_cb, hopping, recover, le_jam_count, quiet>>
  ELSE LET r == Callback(p, lead) IN
       /\ le' = r.le /\ packet_cb' = r.cb /\ hop_mode' = r.mode /\ hop_direct_channel' = r.direct
       /\ channel' = Freq(r) /\ recover' = r.rec /\ quiet' = 0
       /\ le_jam_count' = IF r.jam > 0 THEN r.jam - 1 ELSE 0

PacketKinds == {"empty", "data"} \cup (IF packet_cb = "crc" THEN {"garbled"} ELSE {})
                             \cup (IF conn.update = None /\ packet_cb = "follow" THEN {"update"} ELSE {})
Heard == /\ Due /\ conn.left > 0 /\ Listening /\ OnChannel
         /\ \E p \in PacketKinds : \E lead \in (IF p = "update" THEN Leads ELSE {0}) :
              /\ Receive(p, lead)
              /\ conn' = [conn EXCEPT !.left = @ - 1,
                                     !.update = IF p = "update" THEN Instant ELSE @,
                                     !.doubt = @ \/ lead # 0 \/ (p = "update" /\ le.conn_interval # conn.interval)]
         /\ UNCHANGED <<pc, requested, active_aa, jam_mode, clk, lost>>

\* The rest of the event is not heard.  An event at the instant is the last
\* at the old time: the next one follows after the new interval.
AfterEvent(c) ==
  [c EXCEPT !.chan = (@ + c.inc) % 37, !.left = 2,
            !.interval = IF c.update = 0 THEN NewInterval ELSE @,
            !.next = IF c.update = 0 THEN NewInterval ELSE c.interval,
            !.doubt = @ \/ (c.update = 0 /\ c.left = 2),
            !.update = IF c.update \in {None, Done} THEN @ ELSE c.update - 1]
EventEnds == /\ Due
             /\ IF Listening /\ OnChannel /\ conn.left = 2
                THEN lost < MaxLost /\ lost' = lost + 1 ELSE UNCHANGED lost
             /\ conn' = IF Following THEN AfterEvent(conn)
                        ELSE IF conn.life = 0 THEN [conn EXCEPT !.next = Gone, !.left = 2]
                        ELSE AfterEvent([conn EXCEPT !.life = @ - 1])
             /\ UNCHANGED <<pc, requested, active_aa, le, packet_cb, hopping, recover, jam, time>>

\* interval_timer is decremented before it is compared with 0.
ToHop == IF le.timer = 0 THEN TIMER_RANGE ELSE le.timer
Sooner == IF Following /\ (conn.next = Gone \/ ToHop < conn.next) THEN ToHop ELSE conn.next
\* The clock is of no more use once the connection is followed.
Pass == /\ pc = "sync" /\ ~Due /\ (Following \/ conn.next # Gone) /\ ~(Following /\ le.timer = HopNow)
        /\ conn' = [conn EXCEPT !.next = IF @ = Gone THEN Gone ELSE @ - Sooner]
        /\ clk' = IF Following THEN 0 ELSE (clk + Sooner) % WRAP
        /\ quiet' = IF Following THEN quiet + Sooner ELSE 0
        /\ le' = IF ~Following THEN le
                 ELSE [le EXCEPT !.timer = IF ToHop = Sooner THEN HopNow ELSE ToHop - Sooner]
        /\ UNCHANGED <<pc, requested, active_aa, packet_cb, hopping, recover, jam, lost>>

\* The turn of the loop that TIMER0's do_hop starts: the timeout, then hop.
\* After a timeout the mode would be entered again, but for cc2400_idle.
\* TIMER0 has counted the event and loaded the timer again.
Counted(l) == [l EXCEPT !.timer = l.conn_interval,
                        !.instant = IF l.pending /\ @ # Past THEN @ - 1 ELSE @]
TimedOut_us == quiet > 10 * TIMEOUT
TimedOut == quiet > TIMEOUT
HopTurn ==
  /\ Following /\ le.timer = HopNow
  /\ IF TimedOut \/ le_jam_count = 1
     THEN /\ le' = reset_le /\ le_jam_count' = 0
          /\ cc2400_idle /\ pc' = "start"
          /\ UNCHANGED channel
     ELSE /\ channel' = btle_next_hop(le).mhz
          /\ le' = Counted(btle_next_hop(le).le)
          /\ le_jam_count' = IF le_jam_count > 0 THEN le_jam_count - 1 ELSE 0
          /\ UNCHANGED <<pc, requested, hop_mode, jam_mode, time>>
  /\ UNCHANGED <<active_aa, packet_cb, hop_direct_channel, recover, conn, lost>>

OutOfRange == /\ Following /\ conn.next # Gone
              /\ conn' = [conn EXCEPT !.next = Gone, !.left = 2]
              /\ UNCHANGED <<pc, requested, active_aa, le, packet_cb, hopping, recover, jam, time, lost>>

Init == /\ pc = "start" /\ requested = TRUE
        /\ active_aa = EmptyList /\ le = reset_le /\ packet_cb = "crc"
        /\ channel \in Channels /\ hop_mode = "none" /\ hop_direct_channel = 0
        /\ \E c \in Stale : recover = NoRecover(c)
        /\ jam_mode \in JamModes /\ le_jam_count = 0
        /\ clk \in Clocks /\ quiet = 0
        /\ \E i \in Incs, n \in Intervals, c \in Starts :
             conn = [NoConn EXCEPT !.inc = i, !.interval = n, !.chan = c]
        /\ lost = 0
Next == bt_promisc_le \/ bt_generic_le \/ Heard \/ EventEnds \/ Pass \/ HopTurn \/ OutOfRange \/ Stop
Spec == Init /\ [][Next]_vars

-----------------------------------------------------------------------------
(* Properties.                                                              *)

TypeOK ==
  /\ pc \in {"start", "search", "between", "sync", "idle"} /\ requested \in BOOLEAN
  /\ active_aa \in [Slots -> [aa : AAs \cup {ZERO}, count : 0 .. 4]]
  /\ packet_cb \in {"crc", "interval", "increment", "follow"}
  /\ hop_mode \in {"none", "direct", "btle"} /\ le_jam_count \in 0 .. JAM_COUNT_DEFAULT
  /\ le.inc \in 0 .. 36 /\ le.idx \in 0 .. 36 /\ le.timer \in HopNow .. TIMER_RANGE - 1
  /\ conn.chan \in 0 .. 36 /\ conn.left \in 0 .. 2 /\ clk \in 0 .. WRAP - 1

(* Whatever packets were lost on the way, a connection whose interval was   *)
(* recovered rightly is followed: the device is on its channel at each of   *)
(* its events, until an update of which the device cannot know the instant: *)
(* promisc_recover_hop_increment, btle_next_hop, TIMER0_IRQHandler.         *)
InStep == Following /\ Due /\ le.conn_interval = conn.interval /\ ~conn.doubt /\ le.timer # HopNow
          => OnChannel

(* A connection no longer heard is given up at the first hop after the      *)
(* timeout: bt_le_sync's test, which only a packet or a hop reaches.        *)
GivenUp == Following => quiet <= TIMEOUT + (IF le.conn_interval < 2 THEN TIMER_RANGE ELSE le.conn_interval)
=============================================================================
