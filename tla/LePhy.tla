------------------------------- MODULE LePhy -------------------------------
(***************************************************************************)
(* LE connection following (firmware/bluetooth_rxtx: le_phy.c, queue.c):   *)
(* the DMA handler receives packets into buffers of a small pool, TIMER1   *)
(* hops and may interrupt it, and the main loop, which both interrupt,     *)
(* takes the packets from a queue and learns of connections and their      *)
(* updates.  On the air: one connection, its packets heard or not, and     *)
(* advertisers.  Time is in units of 10 us; a point in time is kept as its *)
(* distance from NOW, ahead for timers and back for timestamps.            *)
(***************************************************************************)
EXTENDS Integers, Sequences, FiniteSets, FiniteSetsExt

CONSTANTS
  LE_BUFFER_POOL_SIZE,
  NULL,                    \* no buffer
  Interval, NewInterval,   \* of a connection, and after an update
  SUPERVISION,             \* supervision_timeout of every connection
  WinOffset, WinSize,      \* transmit window, the same after an update
  Durations,               \* of data packets
  MaxPackets,              \* packets of one connection event
  Instant,                 \* events from a procedure's start to its instant
  Procedures,              \* procedures a connection may run: "map", "update"
  Unheard,                 \* packets that may be lost: "before", "after" an anchor is known
  Advertised,              \* on the advertising channel: "adv", "connect", "bad"
  CHANNELS, EVENTS,        \* channel indexes (37) and event numbers (2^16)
  MaxLag,                  \* the main loop has handled a packet so long after its end
  HostMay                  \* what the host asks for: "cancel", "restart"

ASSUME LePhyAssumption ==
  /\ {LE_BUFFER_POOL_SIZE, CHANNELS, EVENTS} \subseteq Nat \ {0}
  /\ {Interval, NewInterval, SUPERVISION, WinSize} \subseteq Nat \ {0}
  /\ {WinOffset, MaxPackets, Instant, MaxLag} \subseteq Nat
  /\ Durations \subseteq Nat \ 0 .. 5
  /\ Procedures \subseteq {"map", "update"} /\ Advertised \subseteq {"adv", "connect", "bad"}
  /\ Unheard \subseteq {"before", "after"} /\ HostMay \subseteq {"cancel", "restart"}
  /\ NULL \notin 0 .. LE_BUFFER_POOL_SIZE - 1

RX_WARMUP_TIME == 30
IFS_TIMEOUT == 30
MAX_PACKET == 212          \* USEC(2120)
WINDOW_DELAY == 125        \* USEC(1250)
BUFFER_WAIT == 10          \* USEC(100)
FS_LOCK == 10              \* the synthesiser locks so long after FSON
IFS == 15                  \* between the packets of an event, on the air
FIRST_BYTE == 5            \* preamble, access address and one byte
AdvDuration == 35          \* a CONNECT_REQ
Later(a, b) == IF a > b THEN a ELSE b
LongAgo == Later(Interval, NewInterval) + WinOffset + WinSize + MAX_PACKET   \* no timer set by it is ahead

VARIABLES
  buf,             \* le_buffer_pool: [avail, kind, instant, age]
  current_rxbuf, packet_queue,
  packet, step,    \* the main loop's packet, and what is next for it
  isr,             \* the DMA handler is between queue_insert and buffer_get
  radio, rxing,    \* the CC2400; a packet is being received
  mr0, mr2, mr3,   \* TIMER1: event, FS lock and buffer matches
  conn, conn_event, cancel_follow,
  link, air,       \* the connection there is, and the packet on the air
  fault            \* a write through NULL: "no", "null", then maybe "halted"

pool == <<buf, current_rxbuf, packet_queue>>
main == <<packet, step>>
timer == <<mr0, mr2, mr3>>
follow == <<conn, conn_event, cancel_follow>>
vars == <<pool, main, isr, radio, rxing, timer, follow, link, air, fault>>

Pool == 0 .. LE_BUFFER_POOL_SIZE - 1
Kinds == {"none", "adv", "connect", "bad", "data", "map", "update"}
Off == -1                  \* match disabled
Past == -2                 \* match enabled, its time gone: T1 wraps in 429 s, beyond this model
Match(d) == IF d > 0 THEN d ELSE Past

----------------------------------------------------------------------------
(* Buffers.                                                                *)

Fresh == [avail |-> FALSE, kind |-> "none", instant |-> 0, age |-> 0]
Released == [avail |-> TRUE, kind |-> "none", instant |-> 0, age |-> 0]
buffer_clear(b) == [avail |-> b.avail, kind |-> "none", instant |-> 0, age |-> b.age]
Free(bs) == {b \in Pool : bs[b].avail}
buffer_get(bs) == IF Free(bs) = {} THEN [buf |-> bs, cur |-> NULL]
                  ELSE LET b == Min(Free(bs))
                       IN [buf |-> [bs EXCEPT ![b] = Fresh], cur |-> b]
buffers_init == [b \in Pool |-> Released]
Using(p) == buf' = p.buf /\ current_rxbuf' = p.cur
Same == [buf |-> buf, cur |-> current_rxbuf]

----------------------------------------------------------------------------
(* Connection events.  c is the connection as it is by now, p the pool.    *)

NoConn == [aa |-> "adv", interval |-> 0, supervision |-> 0, channel_idx |-> 0,
           counter |-> 0, anchor_set |-> FALSE, last_anchor |-> LongAgo,
           last_packet |-> SUPERVISION + 1, map |-> "none",
           update_pending |-> FALSE, update_instant |-> 0,
           map_pending |-> FALSE, map_instant |-> 0, pending_map |-> "none"]

(* A write through NULL goes to the vector table in flash: it is ignored,  *)
(* or the processor faults (Halt).                                         *)
Tuned(c) == [state |-> "fs", ch |-> IF c.aa = "adv" THEN "adv" ELSE "data", lock |-> FS_LOCK]
change_channel(c, p) ==
  /\ conn' = IF c.aa = "adv" THEN c ELSE [c EXCEPT !.channel_idx = (@ + 1) % CHANNELS]
  /\ radio' = Tuned(c) /\ rxing' = FALSE /\ mr2' = TRUE
  /\ \/ p.cur = NULL /\ Using(p) /\ fault' = "null"
     \/ p.cur # NULL /\ Using([p EXCEPT !.buf[p.cur] = buffer_clear(@)]) /\ UNCHANGED fault

Stay(c, p, r) == /\ conn' = c /\ radio' = r /\ Using(p)
                 /\ UNCHANGED <<rxing, mr2, fault>>

(* What finish_conn_event makes of the anchor, the time a packet was last  *)
(* heard and the counter; e is the event.  A lone packet is the master's   *)
(* if it came when the master was expected.                                *)
Observed(c, e) ==
  \/ e.num_packets = 2
  \/ e.num_packets = 1 /\ c.anchor_set /\ c.interval - c.last_anchor + e.anchor = 0
Estimated(c) == IF c.last_anchor = LongAgo THEN LongAgo ELSE c.last_anchor - c.interval
Counted_renews(c, e) ==
  [c EXCEPT
    !.last_anchor = IF c.anchor_set /\ ~Observed(c, e) THEN Estimated(c) ELSE e.anchor,
    !.anchor_set = @ \/ Observed(c, e), !.last_packet = 0, !.counter = (@ + 1) % EVENTS]
Counted(c, e) ==
  LET known == c.anchor_set \/ Observed(c, e) IN
  [c EXCEPT
    !.last_anchor = IF c.anchor_set /\ ~Observed(c, e) THEN Estimated(c) ELSE e.anchor,
    !.anchor_set = known,
    !.last_packet = IF e.num_packets > 0 \/ ~known THEN 0 ELSE @,
    !.counter = (@ + 1) % EVENTS]

reset_conn_event(e) == [e EXCEPT !.num_packets = 0, !.opened = FALSE]
NextHop(c) == Match(c.interval - c.last_anchor - RX_WARMUP_TIME)

(* r and m: radio and MR0 as they stay unless they are set here.           *)
finish_conn_event(before, e, p, r, m) ==
  LET c == Counted(before, e)
      TimedOut == c.last_packet > c.supervision
  IN
  /\ conn_event' = reset_conn_event(e)
  /\ \/ TimedOut /\ change_channel(NoConn, p) /\ mr0' = m /\ UNCHANGED cancel_follow
     \/ /\ ~TimedOut /\ cancel_follow
        /\ change_channel(NoConn, p) /\ mr0' = m /\ cancel_follow' = FALSE
     \/ /\ ~TimedOut /\ ~cancel_follow
        /\ Stay(c, p, r) /\ mr0' = NextHop(c) /\ UNCHANGED cancel_follow

----------------------------------------------------------------------------
(* The DMA handler, byte by byte in the code; here the first byte and the  *)
(* last, in two steps between which TIMER1 may run.                        *)

Running == fault # "halted"
Elsewhere == UNCHANGED <<main, link>>
DmaRuns == Running /\ ~isr /\ rxing /\ Elsewhere

le_DMA_first_byte ==
  /\ DmaRuns /\ air.fb = 0 /\ current_rxbuf # NULL
  /\ air' = [air EXCEPT !.fb = Off]
  /\ mr0' = IF radio.ch = "data" THEN Off ELSE mr0
  /\ UNCHANGED <<pool, isr, radio, rxing, mr2, mr3, follow, fault>>

Filled(b) == [avail |-> b.avail, kind |-> air.kind, instant |-> air.instant, age |-> 0]
le_DMA_last_byte ==
  /\ DmaRuns /\ air.left = 0 /\ air.fb = Off /\ current_rxbuf # NULL
  /\ buf' = [buf EXCEPT ![current_rxbuf] = Filled(@)]
  /\ packet_queue' = Append(packet_queue, current_rxbuf)
  /\ radio' = [radio EXCEPT !.state = "fs"] /\ rxing' = FALSE /\ isr' = TRUE
  /\ UNCHANGED <<current_rxbuf, timer, follow, air, fault>>

(* The next buffer: listen again, or wait until one is free.               *)
NextBuffer(p) ==
  /\ Using(p)
  /\ \/ p.cur = NULL /\ mr3' = BUFFER_WAIT /\ UNCHANGED mr2
     \/ p.cur # NULL /\ mr2' = TRUE /\ UNCHANGED mr3
  /\ UNCHANGED <<radio, rxing, conn, cancel_follow, fault>>

Received == [conn_event EXCEPT !.num_packets = @ + 1,
              !.anchor = IF conn_event.num_packets = 0 THEN air.dur ELSE @]

le_DMA_next_buffer ==
  /\ Running /\ isr /\ isr' = FALSE
  /\ \/ /\ radio.ch = "adv" /\ NextBuffer(buffer_get(buf))
        /\ UNCHANGED <<mr0, conn_event>>
     \/ /\ radio.ch = "data" /\ Received.num_packets = 1
        /\ conn_event' = Received /\ mr0' = IFS_TIMEOUT
        /\ NextBuffer(buffer_get(buf))
     \/ /\ radio.ch = "data" /\ Received.num_packets = 2
        /\ finish_conn_event(conn, Received, buffer_get(buf), [radio EXCEPT !.state = "off"], mr0)
        /\ UNCHANGED mr3
  /\ UNCHANGED <<packet_queue, air>> /\ Elsewhere

(* Without a buffer a received byte is written through NULL, and position  *)
(* and length are read there: what follows is anything, and nothing here.  *)
le_DMA_no_buffer ==
  /\ DmaRuns /\ current_rxbuf = NULL /\ 0 \in {air.fb, air.left}
  /\ fault' = "halted"
  /\ UNCHANGED <<pool, isr, radio, rxing, timer, follow, air>>

----------------------------------------------------------------------------
(* TIMER1 handler.  It interrupts everything else.                         *)

Interrupts == Running /\ UNCHANGED <<packet_queue, isr, air>> /\ Elsewhere
Fired == Interrupts /\ mr0 = 0 /\ UNCHANGED mr3
UpdateDue == conn.update_pending /\ conn.counter = conn.update_instant
MapDue_early == conn.map_pending /\ conn.counter + 1 = conn.map_instant
MapDue == conn.map_pending /\ conn.counter = conn.map_instant
Opened == conn_event' = [conn_event EXCEPT !.opened = TRUE]

TIMER1_update_offset ==
  /\ Fired /\ UpdateDue /\ ~conn_event.opened /\ WinOffset > 0
  /\ mr0' = Match(conn.interval + WinOffset - RX_WARMUP_TIME - conn.last_anchor)
  /\ Opened /\ Stay(conn, Same, radio) /\ UNCHANGED cancel_follow

Updated(c) == [c EXCEPT !.anchor_set = FALSE, !.interval = NewInterval,
                        !.supervision = SUPERVISION, !.update_pending = FALSE]
WindowTimeout(c) == Match(c.interval + WinOffset + WinSize + MAX_PACKET - c.last_anchor)
TIMER1_update_window ==
  /\ Fired /\ UpdateDue /\ (conn_event.opened \/ WinOffset = 0)
  /\ mr0' = WindowTimeout(Updated(conn)) /\ change_channel(Updated(conn), Same)
  /\ Opened /\ UNCHANGED cancel_follow

Remapped == IF MapDue THEN [conn EXCEPT !.map = conn.pending_map, !.map_pending = FALSE]
            ELSE conn
TIMER1_open_event ==
  /\ Fired /\ ~UpdateDue /\ ~conn_event.opened
  /\ mr0' = MAX_PACKET + RX_WARMUP_TIME /\ change_channel(Remapped, Same)
  /\ Opened /\ UNCHANGED cancel_follow

(* The same match closes an event in which nothing (more) is heard.        *)
TIMER1_close_event ==
  /\ Fired /\ ~UpdateDue /\ conn_event.opened
  /\ finish_conn_event(Remapped, conn_event, Same, radio, Past)

Locked == radio.state # "off" /\ radio.lock = 0
StrobeRx == radio' = [radio EXCEPT !.state = "rx"] /\ rxing' = FALSE
TIMER1_fs_lock ==
  /\ Interrupts /\ mr2 /\ Locked /\ StrobeRx /\ mr2' = FALSE
  /\ UNCHANGED <<buf, current_rxbuf, mr0, mr3, follow, fault>>

(* The buffer match stays enabled when a buffer has been found.            *)
TIMER1_wait_buffer ==
  /\ Interrupts /\ mr3 = 0
  /\ LET p == buffer_get(buf) IN
     /\ Using(p)
     /\ \/ p.cur = NULL /\ mr3' = BUFFER_WAIT /\ UNCHANGED <<radio, rxing, mr2>>
        \/ p.cur # NULL /\ Locked /\ mr3' = Past /\ StrobeRx /\ UNCHANGED mr2
        \/ p.cur # NULL /\ ~Locked /\ mr3' = Past /\ mr2' = TRUE /\ UNCHANGED <<radio, rxing>>
  /\ UNCHANGED <<mr0, follow, fault>>

----------------------------------------------------------------------------
(* The main loop: le_phy_main, packet_handler.                             *)

MainRuns(s) == /\ Running /\ ~isr /\ step = s
               /\ UNCHANGED <<isr, mr3, link, air, fault>>
Only == UNCHANGED <<radio, rxing>>

queue_remove ==
  /\ MainRuns("poll") /\ packet_queue # << >>
  /\ packet' = Head(packet_queue) /\ packet_queue' = Tail(packet_queue)
  /\ step' = "handle"
  /\ UNCHANGED <<buf, current_rxbuf, mr0, mr2, follow>> /\ Only

Handles(kinds) == MainRuns("handle") /\ buf[packet].kind \in kinds /\ Only
                  /\ UNCHANGED pool
Handled == step' = "release" /\ UNCHANGED packet
Dropped == step' = "poll" /\ packet' = NULL

le_connect_handler_returns ==
  /\ Handles({"connect"}) /\ Dropped
  /\ UNCHANGED <<follow, mr0, mr2>>
le_connect_handler ==
  /\ Handles({"connect"}) /\ Handled
  /\ conn' = [conn EXCEPT !.aa = "conn", !.interval = Interval, !.supervision = SUPERVISION,
                          !.map = "old"]
  /\ conn_event' = reset_conn_event(conn_event) /\ cancel_follow' = FALSE
  /\ mr2' = FALSE
  /\ mr0' = Match(WinOffset + WINDOW_DELAY - RX_WARMUP_TIME - buf[packet].age)

(* Values out of range: err_out.                                           *)
le_connect_handler_bad ==
  /\ Handles({"bad"}) /\ Handled
  /\ conn' = NoConn /\ cancel_follow' = FALSE /\ UNCHANGED <<conn_event, mr0, mr2>>

connection_update_handler ==
  /\ Handles({"update"}) /\ Handled
  /\ conn' = [conn EXCEPT !.update_pending = TRUE, !.update_instant = buf[packet].instant]
  /\ UNCHANGED <<conn_event, cancel_follow, mr0, mr2>>

(* Pending is set first, instant and map after it.                         *)
channel_map_update_handler ==
  /\ Handles({"map"}) /\ step' = "remap" /\ UNCHANGED packet
  /\ conn' = [conn EXCEPT !.map_pending = TRUE]
  /\ UNCHANGED <<conn_event, cancel_follow, mr0, mr2>>
channel_map_update_values ==
  /\ MainRuns("remap") /\ Handled /\ Only
  /\ conn' = [conn EXCEPT !.map_instant = buf[packet].instant, !.pending_map = "new"]
  /\ UNCHANGED <<pool, conn_event, cancel_follow, mr0, mr2>>

packet_handler_other ==
  /\ Handles({"none", "adv", "data"}) /\ Handled /\ UNCHANGED <<follow, mr0, mr2>>

buffer_release ==
  /\ MainRuns("release") /\ Only
  /\ buf' = [buf EXCEPT ![packet] = Released] /\ packet' = NULL /\ step' = "poll"
  /\ UNCHANGED <<current_rxbuf, packet_queue, follow, mr0, mr2>>

(* handle_usb: the host asks to cancel following.                          *)
do_cancel_follow ==
  /\ "cancel" \in HostMay /\ MainRuns("poll") /\ Only /\ ~cancel_follow /\ cancel_follow' = TRUE
  /\ UNCHANGED <<pool, packet, step, conn, conn_event, mr0, mr2>>

(* The mode is left and entered again.  Only what le_phy_main sets is set: *)
(* of conn the access address; TIMER1 starts from 0 with the matches that  *)
(* were enabled, and older timestamps mean nothing to it.                  *)
queue_init_kept == UNCHANGED packet_queue
queue_init == packet_queue' = << >>
Enabled(m) == IF m = Off THEN Off ELSE Past
le_phy_main ==
  /\ "restart" \in HostMay /\ Running /\ ~isr /\ step = "poll"
  /\ Using(buffer_get(buffers_init)) /\ queue_init
  /\ conn' = [conn EXCEPT !.aa = "adv", !.last_anchor = LongAgo,
                          !.last_packet = SUPERVISION + 1]
  /\ conn_event' = [conn_event EXCEPT !.anchor = LongAgo] /\ cancel_follow' = FALSE
  /\ radio' = Tuned(conn') /\ rxing' = FALSE
  /\ mr0' = Enabled(mr0) /\ mr2' = TRUE /\ mr3' = Enabled(mr3)
  /\ UNCHANGED <<packet, step, isr, link, air, fault>>

Halt == /\ fault = "null" /\ fault' = "halted"
        /\ UNCHANGED <<pool, main, isr, radio, rxing, timer, follow, link, air>>

----------------------------------------------------------------------------
(* The air: a connection of which any packet may go unheard, advertisers,  *)
(* and time.                                                               *)

NoAir == [kind |-> "none", instant |-> 0, fb |-> Off, left |-> Off, dur |-> 0]
Packet(kind, i, d, heard) ==
  [kind |-> kind, instant |-> i, fb |-> IF heard THEN FIRST_BYTE ELSE Off, left |-> d, dur |-> d]
NoLink == [on |-> FALSE, event |-> 0, idx |-> 0, map |-> "old", interval |-> Interval,
           todo |-> Procedures, proc |-> "none", instant |-> 0,
           to_anchor |-> Off, sent |-> 0, reply |-> Off]
OnAir == /\ Running /\ ~isr
         /\ UNCHANGED <<pool, main, isr, radio, timer, follow, fault>>

(* An advertisement begins.  Those that nobody hears are left out, and     *)
(* those heard while a connection goes on that is not followed.  A         *)
(* CONNECT_REQ comes when there is no connection and no other such request *)
(* under way.                                                              *)
Advertise(kind) ==
  /\ OnAir /\ air = NoAir /\ radio.state = "rx" /\ radio.ch = "adv"
  /\ link.on => conn.aa = "conn" /\ link.to_anchor > AdvDuration
  /\ kind # "adv" => /\ ~link.on /\ conn.aa = "adv"
                     /\ \A b \in Pool : buf[b].kind \notin {"connect", "bad"}
  /\ air' = Packet(kind, 0, AdvDuration, TRUE) /\ rxing' = TRUE /\ UNCHANGED link

CanHear(l) == /\ radio.state = "rx" /\ radio.ch = "data" /\ conn.aa = "conn"
              /\ conn.channel_idx = l.idx
MayMiss == (IF conn.anchor_set THEN "after" ELSE "before") \in Unheard

(* A packet of connection l begins; it may start a procedure or carry the  *)
(* request of the one under way.                                           *)
Carried(l) == {"data"} \cup ({l.proc} \ {"none"}) \cup (IF l.proc = "none" THEN l.todo ELSE {})
ProcedureStarts(l, k) == [l EXCEPT !.proc = k, !.instant = (l.event + Instant) % EVENTS, !.todo = @ \ {k}]
Sends(l) ==
  \E d \in Durations, k \in Carried(l), heard \in {CanHear(l)} \cup (IF MayMiss THEN {FALSE} ELSE {}) :
    LET s == IF k \in l.todo THEN ProcedureStarts(l, k) ELSE l IN
    /\ air' = Packet(k, IF k = "data" THEN 0 ELSE s.instant, d, heard) /\ rxing' = heard
    /\ link' = [s EXCEPT !.sent = @ + 1, !.reply = Off]

(* The next event.  At its instant a procedure takes effect; an update     *)
(* puts the anchor anywhere in the transmit window.                        *)
After(e) == (e + 1) % EVENTS
Begins(k, e) == link.proc = k /\ link.instant = e
Anchor ==
  /\ OnAir /\ link.on /\ link.to_anchor = 0 /\ air = NoAir
  /\ LET e == After(link.event)
         i == IF Begins("update", e) THEN NewInterval ELSE link.interval
     IN \E shift \in IF Begins("update", After(e)) THEN {WinOffset, WinOffset + WinSize} ELSE {0} :
          Sends([link EXCEPT
            !.event = e, !.idx = (@ + 1) % CHANNELS, !.sent = 0,
            !.interval = i, !.map = IF Begins("map", e) THEN "new" ELSE @,
            !.proc = IF link.instant = e THEN "none" ELSE @,
            !.to_anchor = i + shift])

Reply == OnAir /\ link.on /\ link.reply = 0 /\ air = NoAir /\ Sends(link)

(* A packet ends: the connection begins, or its event goes on or is over.  *)
PacketEnds ==
  /\ OnAir /\ air.left = 0 /\ ~rxing /\ air' = NoAir /\ UNCHANGED rxing
  /\ \/ /\ air.kind = "connect"
        /\ \E w \in {0, WinSize} :
             link' = [NoLink EXCEPT !.on = TRUE, !.event = EVENTS - 1,
                        !.to_anchor = WINDOW_DELAY + WinOffset + w]
     \/ /\ air.kind \in {"data", "map", "update"} /\ link.sent < MaxPackets
        /\ link.to_anchor > IFS + Max(Durations)
        /\ link' = [link EXCEPT !.reply = IFS]
     \/ air.kind # "connect" /\ UNCHANGED link

LinkOver ==
  /\ OnAir /\ link.on /\ link.reply = Off /\ air.kind \in {"none", "adv", "bad"}
  /\ link' = NoLink /\ UNCHANGED <<rxing, air>>

(* Time passes to the next thing to happen, once all that is due has been  *)
(* done; an advertisement may be left just the room to end with a match.   *)
Waiting == {packet_queue[i] : i \in DOMAIN packet_queue} \cup ({packet} \ {NULL})
Lags == {MaxLag - buf[b].age : b \in Waiting}
Alarms == {mr0, mr3, link.to_anchor, link.reply, air.left}
          \cup (IF rxing THEN {air.fb} ELSE {})
          \cup (IF mr2 /\ radio.state # "off" THEN {radio.lock} ELSE {})
Ahead == {a \in Alarms : a > 0} \cup Lags
Room == IF radio.state = "rx" /\ radio.ch = "adv" /\ air = NoAir THEN {mr0 - AdvDuration} ELSE {}

Less(t, d) == IF t > 0 THEN t - d ELSE t
Older(t, d, most) == IF t + d > most THEN most ELSE t + d
Pass ==
  /\ Running /\ ~isr /\ 0 \notin Alarms /\ 0 \notin Lags /\ Ahead # {}
  /\ \E d \in {Min(Ahead)} \cup {r \in Room : 0 < r /\ r < Min(Ahead)} :
     /\ buf' = [b \in Pool |-> IF b \in Waiting THEN [buf[b] EXCEPT !.age = @ + d] ELSE buf[b]]
     /\ radio' = [radio EXCEPT !.lock = IF @ > d THEN @ - d ELSE 0]
     /\ mr0' = Less(mr0, d) /\ mr3' = Less(mr3, d)
     /\ conn' = [conn EXCEPT !.last_anchor = Older(@, d, LongAgo),
                             !.last_packet = Older(@, d, SUPERVISION + 1)]
     /\ conn_event' = [conn_event EXCEPT !.anchor = Older(@, d, LongAgo)]
     /\ link' = [link EXCEPT !.to_anchor = Less(@, d), !.reply = Less(@, d)]
     /\ air' = [air EXCEPT !.fb = IF rxing THEN Less(@, d) ELSE Off, !.left = Less(@, d)]
  /\ UNCHANGED <<current_rxbuf, packet_queue, main, isr, rxing, mr2, cancel_follow, fault>>

----------------------------------------------------------------------------

Init ==
  /\ buf = buffer_get(buffers_init).buf /\ current_rxbuf = buffer_get(buffers_init).cur
  /\ packet_queue = << >> /\ packet = NULL /\ step = "poll" /\ isr = FALSE
  /\ radio = Tuned(NoConn) /\ rxing = FALSE
  /\ mr0 = Off /\ mr2 = TRUE /\ mr3 = Off
  /\ conn = NoConn /\ cancel_follow = FALSE
  /\ conn_event = [anchor |-> LongAgo, num_packets |-> 0, opened |-> FALSE]
  /\ link = NoLink /\ air = NoAir /\ fault = "no"

DmaIrq == le_DMA_first_byte \/ le_DMA_last_byte \/ le_DMA_next_buffer \/ le_DMA_no_buffer
TimerMr0 == \/ TIMER1_update_offset \/ TIMER1_update_window
            \/ TIMER1_open_event \/ TIMER1_close_event
TimerIrq == TimerMr0 \/ TIMER1_fs_lock \/ TIMER1_wait_buffer
MainLoop == \/ queue_remove \/ le_connect_handler \/ le_connect_handler_bad
            \/ connection_update_handler \/ channel_map_update_handler
            \/ channel_map_update_values \/ packet_handler_other \/ buffer_release
Outside == \/ \E kind \in Advertised : Advertise(kind)
           \/ Anchor \/ Reply \/ PacketEnds \/ LinkOver
Next == \/ DmaIrq \/ TimerIrq \/ MainLoop \/ Outside \/ Pass
        \/ do_cancel_follow \/ le_phy_main \/ Halt

Spec == Init /\ [][Next]_vars

----------------------------------------------------------------------------
(* Types.                                                                  *)
TypeOK ==
  /\ buf \in [Pool -> [avail : BOOLEAN, kind : Kinds, instant : 0 .. EVENTS - 1, age : Nat]]
  /\ current_rxbuf \in Pool \cup {NULL} /\ packet_queue \in Seq(Pool)
  /\ packet \in Pool \cup {NULL} /\ step \in {"poll", "handle", "remap", "release"}
  /\ isr \in BOOLEAN /\ rxing \in BOOLEAN
  /\ radio \in [state : {"off", "fs", "rx"}, ch : {"adv", "data"}, lock : Nat]
  /\ {mr0, mr3} \subseteq Nat \cup {Off, Past} /\ mr2 \in BOOLEAN
  /\ conn.channel_idx \in 0 .. CHANNELS - 1 /\ conn.counter \in 0 .. EVENTS - 1
  /\ conn_event.num_packets \in 0 .. 1 /\ cancel_follow \in BOOLEAN
  /\ fault \in {"no", "null", "halted"}

(* No buffer has two of the DMA handler, the queue, the main loop and the  *)
(* pool for owner, and none is lost by all (le_phy.c, the comment at       *)
(* le_buffer_pool).  Inside the DMA handler a buffer just queued is        *)
(* current_rxbuf as well.                                                  *)
Queued == {packet_queue[i] : i \in DOMAIN packet_queue}
OneOwner ==
  /\ \A i, j \in DOMAIN packet_queue : packet_queue[i] = packet_queue[j] => i = j
  /\ packet \notin Queued /\ (~isr => current_rxbuf \notin Queued)
  /\ current_rxbuf # NULL => current_rxbuf # packet
  /\ \A b \in Queued \cup ({current_rxbuf, packet} \ {NULL}) : ~buf[b].avail
EveryBufferOwned ==
  Pool = Free(buf) \cup Queued \cup ({current_rxbuf, packet} \ {NULL})

(* As long as the main loop keeps up, no handler meets the pool empty with *)
(* the radio about to receive: nothing is written through NULL             *)
(* (change_channel, the TODO after the second packet of an event).         *)
NoNullBuffer == fault = "no"

(* Once an anchor is known the counter and the channel are those of the    *)
(* connection: of the event under way, or in the warm-up before an anchor  *)
(* of the event to come; between events the next hop is still ahead.       *)
(* Whatever packets are lost, the sniffer hops with the connection.        *)
Informed == /\ link.proc = "update" => conn.update_pending /\ ~UpdateDue
            /\ link.interval = conn.interval
Following == link.on /\ conn.aa = "conn" /\ conn.anchor_set /\ Informed /\ fault = "no"
WarmUp == IF link.to_anchor <= RX_WARMUP_TIME THEN 1 ELSE 0
InStep ==
  Following /\ ~isr =>
    IF conn_event.opened
    THEN /\ conn.counter = (link.event + WarmUp) % EVENTS
         /\ conn.channel_idx = (link.idx + WarmUp) % CHANNELS
    ELSE /\ conn.counter = After(link.event) /\ conn.channel_idx = link.idx
         /\ link.to_anchor >= RX_WARMUP_TIME

(* A channel map update that was heard is neither early nor late: in an    *)
(* event that is open the sniffer uses the new map only if the connection  *)
(* does, and no update is left pending whose instant has passed.           *)
MapAtInstant ==
  Following /\ ~isr /\ conn_event.opened =>
    /\ conn.map = "new" => \/ link.map = "new"
                           \/ WarmUp = 1 /\ Begins("map", After(link.event))
    /\ conn.map_pending /\ WarmUp = 0 => link.proc = "map"

(* A connection that ends while it is followed is given up: after the      *)
(* supervision timeout the sniffer is back on the advertising channel.     *)
(* Not so without an anchor (le_phy.c:264), nor with updates, which forget *)
(* it at their instant (le_phy.c:605).                                     *)
Over == ~link.on /\ conn.aa = "conn"
GivesUp == (Over /\ conn.anchor_set /\ ~conn.update_pending)
             ~> (conn.aa = "adv" \/ fault # "no")

(* The interrupts are taken, the main loop runs, time passes and what is   *)
(* on the air ends.  Nothing obliges the connection to end.                *)
FairSpec ==
  /\ Spec /\ WF_vars(DmaIrq) /\ WF_vars(TimerIrq) /\ WF_vars(MainLoop) /\ WF_vars(Pass)
  /\ WF_vars(Anchor) /\ WF_vars(Reply) /\ WF_vars(PacketEnds)
=============================================================================
