------------------------------- MODULE Btctl -------------------------------
(***************************************************************************)
(* One device of the BR/EDR firmware: the command handlers of btctl.c that *)
(* the main loop runs, and below them the state modules (inquiry, inquiry  *)
(* scan, page, page scan, monitor, master, slave) driven by the transmit,  *)
(* receive and scan tasks, which the timer interrupt runs off the TDMA     *)
(* agenda, one callback at a time.                                         *)
(*                                                                         *)
(* Time is the 312.5us tick.  agenda[k] holds the callbacks due k ticks    *)
(* after the bucket tdma_sched.cur_bucket, so advancing rotates the        *)
(* agenda.  Of btphy.master_clkn and slave_clkn the model keeps the one    *)
(* the mode reads, modulo 4, all that the slot arithmetic uses: a search   *)
(* sets its clock before it first reads it.  Packets are kept as what the  *)
(* callbacks tell apart (PktKinds); what the link layer does with them is  *)
(* LinkLayer's subject.  Interrupts run to completion: the main loop, and  *)
(* with it the USB work that moves the host's messages, waits.  A field of *)
(* a task that nothing reads before it is written again is reset.          *)
(***************************************************************************)
EXTENDS Integers, Sequences, FiniteSets, Functions

CONSTANTS NUM_FRAMES,       \* buckets of the TDMA ring (TDMASCHED_NUM_FRAMES)
          NUM_CB,           \* items of a bucket (TDMASCHED_NUM_CB)
          SCAN_MAX_SLOTS,   \* ticks one scan listens
          DRAIN,            \* timer interrupts the idle handler waits for
          PacketSlots,      \* lengths in slots of packets with a payload
          RxqCap            \* bound: host commands queued in rx_q

ASSUME BtctlAssumption ==
  /\ {NUM_FRAMES, NUM_CB, SCAN_MAX_SLOTS, DRAIN, RxqCap} \subseteq Nat \ {0}
  /\ PacketSlots \subseteq {1, 3, 5} /\ 1 \in PacketSlots

(* Ticks from rx_prepare to the callback, for the longest packet.          *)
Air == IF 5 \in PacketSlots THEN 10 ELSE IF 3 \in PacketSlots THEN 6 ELSE 2

(* How the firmware's numbers fit together: the ring is longer than the    *)
(* longest packet, and the idle handler waits out the longest tail: a      *)
(* search about to send and to listen; a transmission and its answer, both *)
(* of the longest packet; an answered inquiry and the scan after it.       *)
ASSUME FirmwareAssumption ==
  /\ NUM_FRAMES > 10 /\ NUM_CB > 3
  /\ DRAIN >= Air + 12 /\ DRAIN >= 2 * Air + 7 /\ DRAIN >= Air + SCAN_MAX_SLOTS + 8

Searching == {"INQUIRY", "PAGE", "INQUIRY_SCAN", "PAGE_SCAN"}
States == Searching \cup {"STANDBY", "CONNECTED"}
Commands == {"inquiry", "paging", "inquiry_scan", "page_scan", "monitor"}

(* none: no access code; id: an access code, no header; hdr: a header, and *)
(* no payload or one whose CRC is wrong; fhs, acl: good CRC.               *)
PktKinds == {"none", "id", "hdr", "fhs", "acl"}

VARIABLES
  state,    \* btctl.state
  mode,     \* btphy.mode
  died,     \* reasons DIE was called for; empty while the firmware runs
  agenda,   \* tdma_sched.bucket, from the current bucket on
  tick,     \* item of agenda[0] to run next; 0 outside the timer interrupt
  call,     \* user callback the running task is about to call, or "none"
  clkn,     \* btphy_cur_clkn() modulo 4
  tx,       \* tx_task: its callback, whether it holds a packet (user_hdr)
  rx,       \* rx_task: its callback, whether it holds a buffer (rx_msg),
            \* slot_num
  pkt,      \* packet for the callback; stays if it ends the search's work
  scan,     \* scan_task: its callback, num_slots
  radio,    \* who tuned the transceiver, or "idle"
  eir,      \* btctl.eir_pkt is set
  expired,  \* the clock passed the deadline of the current search
  drain,    \* ticks the idle handler still waits; 0 in the main loop
  rxq,      \* commands from the host
  txq,      \* state responses to the host
  session   \* the host runs a command (host/python: a BTCtlCmd thread)

ctlHost == <<rxq, session>>
btctl == <<state, txq, eir, expired, drain>>
ctlVars == <<state, mode, died, agenda, tick, call, clkn, tx, rx, pkt,
          scan, radio, eir, expired, drain, rxq, txq, session>>

-----------------------------------------------------------------------------
(* The TDMA agenda (tdma_sched.c).                                         *)
Prio(cb) == IF cb \in {"tx_prepare", "rx_prepare", "rx_decode"} THEN 0 ELSE -3

Items == {"tx_prepare", "tx_execute", "tx_finalize", "rx_prepare",
          "rx_execute", "rx_decode", "scan_start", "scan_wait_more",
          "paging_start_sync", "inquiry_start_sync", "start_monitor2"}

Full(a, offset) == Len(a[offset % NUM_FRAMES]) >= NUM_CB

(* An item that finds its bucket full is dropped; no caller looks.         *)
tdma_schedule(a, offset, cb) ==
  IF Full(a, offset) THEN a
  ELSE [a EXCEPT ![offset % NUM_FRAMES] = Append(@, cb)]

(* The sets the firmware schedules are two frames of one item.             *)
tdma_schedule_set(a, offset, first, second) ==
  IF Full(a, offset) THEN a
  ELSE tdma_schedule(tdma_schedule(a, offset, first), offset + 1, second)

TxSet(a, delay) == tdma_schedule_set(a, delay, "tx_prepare", "tx_execute")
RxSet(a, delay) == tdma_schedule_set(a, delay, "rx_prepare", "rx_execute")

(* The exchange sort of a bucket: not stable, items of one priority may    *)
(* change places.                                                          *)
Arranged(bucket) ==
  {[i \in DOMAIN bucket |-> bucket[p[i]]] : p \in Bijection(DOMAIN bucket, DOMAIN bucket)}
Sorted(bucket) ==
  {s \in Arranged(bucket) : \A i, j \in DOMAIN s : i < j => Prio(s[i]) <= Prio(s[j])}

Advanced(a) == [k \in DOMAIN a |-> IF k = NUM_FRAMES - 1 THEN << >>
                                   ELSE a[k + 1]]

(* 3&(idx - clk): ticks until the clock is idx modulo 4.                   *)
Until(idx, clk) == (idx - clk) % 4

(* x_PREPARE_IDX of the state modules: masters transmit at clk1_0 = 0 and  *)
(* receive at 2, slaves the other way round.                               *)
MasterTx == 3
MasterRx == 1
SlaveTx == 1
SlaveRx == 3

-----------------------------------------------------------------------------
(* DIE, and the sanity checks that end in it.                              *)
Operating == died = {}
TxBusy == IF tx.hdr THEN {"txs: already got pkt"} ELSE {}
RxBusy == IF rx.msg THEN {"rx_schedule: rx_msg!=0"} ELSE {}

transition_valid(cur, next) ==
  \/ next = "STANDBY"
  \/ next = "CONNECTED" /\ cur \in {"PAGE", "PAGE_SCAN", "CONNECTED"}
  \/ next \notin {"STANDBY", "CONNECTED"} /\ cur = "STANDBY"

BadTransition(next) ==
  IF transition_valid(state, next) THEN {} ELSE {"Invalid state transition"}

set_state_mute(next) ==
  IF transition_valid(state, next)
    THEN state' = next /\ UNCHANGED txq
    ELSE UNCHANGED <<state, txq>>

set_state(next) ==
  IF transition_valid(state, next)
    THEN /\ state' = next
         /\ txq' = IF state = "STANDBY" /\ next = "STANDBY" THEN txq
                    ELSE Append(txq, next)
    ELSE UNCHANGED <<state, txq>>

NoTx == [cb |-> "none", hdr |-> FALSE]
NoRx == [cb |-> "none", msg |-> FALSE, left |-> 0]
NoScan == [cb |-> "none", slots |-> 0]

tx_task(cb, hdr) == tx' = [cb |-> cb, hdr |-> hdr]
rx_task(cb) == rx' = [rx EXCEPT !.cb = cb]

(* tx_task_schedule, rx_task_schedule, both in a row, scan_task_schedule.  *)
ScheduleTx(delay, cb, hdr) ==
  /\ died' = TxBusy
  /\ tx_task(cb, hdr)
  /\ agenda' = TxSet(agenda, delay)
  /\ UNCHANGED <<rx, scan>>

ScheduleRx(delay, cb) ==
  /\ died' = RxBusy
  /\ rx_task(cb)
  /\ agenda' = RxSet(agenda, delay)
  /\ UNCHANGED <<tx, scan>>

ScheduleTxRx(delay, hdr, cb) ==
  /\ died' = TxBusy \cup RxBusy
  /\ tx_task("none", hdr)
  /\ rx_task(cb)
  /\ agenda' = RxSet(TxSet(agenda, delay), delay + 2)
  /\ UNCHANGED scan

ScheduleScan(offset, cb) ==
  /\ scan' = [scan EXCEPT !.cb = cb]
  /\ agenda' = tdma_schedule(agenda, offset, "scan_start")
  /\ UNCHANGED <<died, tx, rx>>

ScheduleNothing == UNCHANGED <<died, agenda, tx, rx, scan>>

-----------------------------------------------------------------------------
(* Inside the timer interrupt.  Run(cb) takes the next item of the current *)
(* bucket; an item the callbacks add to that bucket runs in the same tick. *)
Item(cb) == /\ Operating /\ call = "none"
            /\ tick \in 1 .. Len(agenda[0])
            /\ agenda[0][tick] = cb
            /\ tick' = tick + 1
            /\ UNCHANGED <<eir, drain, ctlHost>>

Run(cb) == Item(cb) /\ UNCHANGED <<mode, expired>>

(* A user callback entered from its task.  A good packet that is not FHS,  *)
(* where the FHS is expected, leaves the search without anything to do.    *)
WrongType(cb) == /\ cb \in {"page_scan_rx_fhs_cb", "monitor1_rx_fhs_cb"}
                 /\ state = "PAGE_SCAN"
                 /\ pkt = "acl"

Called(cb) == /\ Operating /\ call = cb
              /\ call' = "none"
              /\ pkt' = IF WrongType(cb) THEN pkt ELSE "none"
              /\ UNCHANGED <<tick, radio, eir, expired, drain, ctlHost>>

(* btphy_handler up to the scheduler: the clkn advance, the current      *)
(* bucket is sorted.  The idle handler, if it waits, has waited one tick.  *)
TickStart == /\ Operating /\ tick = 0
             /\ clkn' = (clkn + 1) % 4
             /\ \E s \in Sorted(agenda[0]) : agenda' = [agenda EXCEPT ![0] = s]
             /\ tick' = 1
             /\ drain' = IF drain > 0 THEN drain - 1 ELSE 0
             /\ UNCHANGED <<state, txq, mode, died, call, tx, rx, pkt, scan,
                            radio, eir, expired, ctlHost>>

(* The bucket is cleared and the scheduler moves to the next one.          *)
TickEnd == /\ Operating /\ call = "none"
           /\ tick > Len(agenda[0])
           /\ agenda' = Advanced(agenda)
           /\ tick' = 0
           /\ UNCHANGED <<btctl, mode, died, call, clkn, tx, rx, pkt, scan,
                          radio, ctlHost>>

(* tx_task.c.  Only ACL and EIR packets last more than one slot.           *)
SlotsOf(task) ==
  IF task.hdr /\ task.cb \in {"tx_eir_cb", "master_tx_done", "slave_tx_done"}
  THEN PacketSlots ELSE {1}

tx_prepare ==
  /\ Run("tx_prepare")
  /\ radio' = "tx"
  /\ \E nslots \in SlotsOf(tx) :
        agenda' = tdma_schedule(agenda, 2 * nslots, "tx_finalize")
  /\ UNCHANGED <<state, txq, died, call, clkn, tx, rx, pkt, scan>>

tx_execute ==
  /\ Run("tx_execute")
  /\ \/ /\ died' = IF clkn % 2 = 1 THEN {"txe: wrong clkn"} ELSE {}
        /\ UNCHANGED <<tx, radio>>
     \/ /\ tx' = [tx EXCEPT !.hdr = FALSE]     \* RF not tuned
        /\ radio' = "idle"
        /\ UNCHANGED died
  /\ UNCHANGED <<state, txq, agenda, call, clkn, rx, pkt, scan>>

tx_finalize_no_reset ==
  /\ Run("tx_finalize")
  /\ radio' = "idle"
  /\ call' = tx.cb
  /\ UNCHANGED <<state, txq, died, agenda, clkn, tx, rx, pkt, scan>>

tx_finalize ==
  /\ Run("tx_finalize")
  /\ radio' = "idle"
  /\ tx' = NoTx
  /\ call' = tx.cb
  /\ UNCHANGED <<state, txq, died, agenda, clkn, rx, pkt, scan>>

(* rx_task.c.  A receiver that expects an ID packet (paging) looks for the *)
(* access code only.                                                       *)
rx_prepare ==
  /\ Run("rx_prepare")
  /\ radio' = "rx"
  /\ rx' = [rx EXCEPT !.msg = TRUE]
  /\ UNCHANGED <<state, txq, died, agenda, call, clkn, tx, pkt, scan>>

rx_finalize ==
  /\ radio' = "idle"
  /\ died' = IF rx.msg THEN {} ELSE {"rxnd: no rx_pkt"}
  /\ rx' = NoRx
  /\ call' = rx.cb

IdOnly == rx.cb \in {"paging_rx_cb", "paging_rx_ack_cb"}

(* A payload that its first chunk does not complete is decoded in the      *)
(* following ticks, at most 2 * nslots - 1 of them.  FHS lasts one slot    *)
(* and more than one chunk.                                                *)
rx_execute ==
  /\ Run("rx_execute")
  /\ \/ /\ pkt' \in IF IdOnly THEN {"none", "id"} ELSE PktKinds \ {"fhs"}
        /\ rx_finalize
        /\ UNCHANGED agenda
     \/ /\ ~IdOnly
        /\ pkt' \in {"hdr", "acl", "fhs"}
        /\ \E nslots \in IF pkt' = "fhs" THEN {1} ELSE PacketSlots :
              rx' = [rx EXCEPT !.left = 2 * nslots - 1]
        /\ agenda' = tdma_schedule(agenda, 1, "rx_decode")
        /\ UNCHANGED <<died, call, radio>>
  /\ UNCHANGED <<state, txq, clkn, tx, scan>>

rx_decode ==
  /\ Run("rx_decode")
  /\ \/ rx_finalize /\ UNCHANGED agenda
     \/ /\ rx.left > 1
        /\ rx' = [rx EXCEPT !.left = @ - 1]
        /\ agenda' = tdma_schedule(agenda, 1, "rx_decode")
        /\ UNCHANGED <<died, call, radio>>
  /\ UNCHANGED <<state, txq, clkn, pkt, tx, scan>>

(* scan_task.c: an access code sets the slave clock to 0.                  *)
scan_wait(slots) ==
  \/ /\ pkt' = "id" /\ clkn' = 0
     /\ call' = scan.cb /\ radio' = "idle"
     /\ scan' = NoScan
     /\ UNCHANGED agenda
  \/ /\ pkt' = "none" /\ slots = SCAN_MAX_SLOTS
     /\ call' = scan.cb /\ radio' = "idle"
     /\ scan' = NoScan
     /\ UNCHANGED <<agenda, clkn>>
  \/ /\ pkt' = "none" /\ slots # SCAN_MAX_SLOTS
     /\ agenda' = tdma_schedule(agenda, 1, "scan_wait_more")
     /\ scan' = [scan EXCEPT !.slots = slots]
     /\ radio' = "scan"
     /\ UNCHANGED <<call, clkn>>

scan_start == /\ Run("scan_start")
              /\ scan_wait(1)
              /\ UNCHANGED <<state, txq, died, tx, rx>>

scan_wait_more == /\ Run("scan_wait_more")
                  /\ scan_wait(scan.slots + 1)
                  /\ UNCHANGED <<state, txq, died, tx, rx>>

-----------------------------------------------------------------------------
(* The state modules.  Each callback looks first whether the state it runs *)
(* for was cancelled; those that do not are marked.                        *)
SameState == UNCHANGED <<state, txq, mode, clkn>>
Canceled(s) == state # s /\ ScheduleNothing /\ SameState
Timeout == /\ set_state("STANDBY")
           /\ ScheduleNothing
           /\ UNCHANGED <<mode, clkn>>

(* x_schedule of the two states that transmit, and of the three that scan. *)
inquire_forever(delay, cb) == ScheduleTxRx(delay, FALSE, cb) /\ SameState

inquire(delay, cb) ==
  \/ expired /\ Timeout
  \/ ~expired /\ ScheduleTxRx(delay, FALSE, cb) /\ SameState

listen(cb) ==
  \/ expired /\ Timeout
  \/ ~expired /\ ScheduleScan(1, cb) /\ SameState

(* inquiry_state.c *)
inquiry_rx_cb ==
  /\ Called("inquiry_rx_cb")
  /\ \/ Canceled("INQUIRY")
     \/ /\ state = "INQUIRY" /\ pkt = "fhs"
        /\ ScheduleRx(2, "inquiry_rx_cb")
        /\ SameState
     \/ /\ state = "INQUIRY" /\ pkt # "fhs"
        /\ inquire(Until(MasterTx, clkn), "inquiry_rx_cb")

(* paging_state.c *)
paging_rx_cb ==
  /\ Called("paging_rx_cb")
  /\ \/ Canceled("PAGE")
     \/ /\ state = "PAGE" /\ pkt = "id"
        /\ ScheduleTxRx(Until(MasterTx, clkn), TRUE, "paging_rx_ack_cb")
        /\ SameState
     \/ /\ state = "PAGE" /\ pkt = "none"
        /\ inquire(Until(MasterTx, clkn), "paging_rx_cb")

(* master_state_init when the slave acknowledged the FHS.                  *)
paging_rx_ack_cb ==
  /\ Called("paging_rx_ack_cb")
  /\ \/ Canceled("PAGE")
     \/ /\ state = "PAGE" /\ pkt = "id"
        /\ mode' = "MASTER"
        /\ set_state("CONNECTED")
        /\ ScheduleTx(4 + Until(MasterTx, clkn), "master_tx_done", TRUE)
        /\ UNCHANGED clkn
     \/ /\ state = "PAGE" /\ pkt = "none"
        /\ inquire(Until(MasterTx, clkn), "paging_rx_cb")

(* The first tick of a search: btphy_cancel_clkn_delay shifts the master   *)
(* clock by the ticks the slave clock was delayed; the deadline is taken   *)
(* from it.                                                                *)

start_sync(cb, rx_cb) ==
  /\ Item(cb)
  /\ clkn' \in 0 .. 3
  /\ expired' = FALSE
  /\ ScheduleTxRx(4 + Until(MasterTx, clkn'), FALSE, rx_cb)
  /\ UNCHANGED <<state, txq, mode, call, pkt, radio>>

inquiry_start_sync == start_sync("inquiry_start_sync", "inquiry_rx_cb")
paging_start_sync == start_sync("paging_start_sync", "paging_rx_cb")

(* inquiry_scan_state.c; the transmit callbacks do not look whether the    *)
(* scan was cancelled.                                                     *)
inquiry_scan_rx_cb ==
  /\ Called("inquiry_scan_rx_cb")
  /\ \/ Canceled("INQUIRY_SCAN")
     \/ /\ state = "INQUIRY_SCAN" /\ pkt = "id"
        /\ ScheduleTx(Until(SlaveTx, clkn), "tx_fhs_cb", TRUE)
        /\ SameState
     \/ state = "INQUIRY_SCAN" /\ pkt = "none" /\ listen("inquiry_scan_rx_cb")

tx_fhs_cb ==
  /\ Called("tx_fhs_cb")
  /\ \/ /\ eir
        /\ ScheduleTx(Until(SlaveTx, clkn), "tx_eir_cb", TRUE)
        /\ SameState
     \/ ~eir /\ listen("inquiry_scan_rx_cb")

tx_eir_cb == Called("tx_eir_cb") /\ listen("inquiry_scan_rx_cb")

(* page_scan_state.c and monitor1_state.c up to the FHS.                   *)
rx_id_cb(cb, rx_fhs) ==
  /\ Called(cb)
  /\ \/ Canceled("PAGE_SCAN")
     \/ /\ state = "PAGE_SCAN" /\ pkt = "id"
        /\ ScheduleTxRx(Until(SlaveTx, clkn), FALSE, rx_fhs)
        /\ SameState
     \/ state = "PAGE_SCAN" /\ pkt = "none" /\ listen(cb)

(* The slave clock is set to the master's, as sampled in the FHS (0 modulo *)
(* 4), plus the ticks since the packet began: its payload takes one more.  *)
SlaveSync == 1

page_scan_rx_fhs_cb ==
  /\ Called("page_scan_rx_fhs_cb")
  /\ \/ Canceled("PAGE_SCAN")
     \/ /\ state = "PAGE_SCAN" /\ pkt = "fhs"
        /\ clkn' = SlaveSync
        /\ ScheduleTx(Until(SlaveTx, clkn'), "page_scan_tx_cb", FALSE)
        /\ UNCHANGED <<state, txq, mode>>
     \/ state = "PAGE_SCAN" /\ pkt = "acl" /\ ScheduleNothing /\ SameState
     \/ /\ state = "PAGE_SCAN" /\ pkt \notin {"fhs", "acl"}
        /\ listen("page_scan_rx_id_cb")

(* slave_state_init; no look at whether the scan was cancelled.            *)
page_scan_tx_cb ==
  /\ Called("page_scan_tx_cb")
  /\ mode' = "SLAVE"
  /\ set_state("CONNECTED")
  /\ rx_task("slave_rx_cb")
  /\ agenda' = RxSet(agenda, 4 + Until(SlaveRx, clkn))
  /\ died' = BadTransition("CONNECTED") \cup RxBusy
  /\ UNCHANGED <<clkn, tx, scan>>

monitor1_rx_fhs_cb ==
  /\ Called("monitor1_rx_fhs_cb")
  /\ \/ Canceled("PAGE_SCAN")
     \/ /\ state = "PAGE_SCAN" /\ pkt = "fhs"
        /\ clkn' = SlaveSync
        /\ agenda' = tdma_schedule(agenda, 1, "start_monitor2")
        /\ UNCHANGED <<state, txq, mode, died, tx, rx, scan>>
     \/ state = "PAGE_SCAN" /\ pkt = "acl" /\ ScheduleNothing /\ SameState
     \/ /\ state = "PAGE_SCAN" /\ pkt \notin {"fhs", "acl"}
        /\ listen("monitor1_rx_id_cb")

(* monitor2_state_init; no look at whether the monitor was cancelled.      *)
start_monitor2 ==
  /\ Item("start_monitor2")
  /\ mode' = "SLAVE"
  /\ set_state("CONNECTED")
  /\ rx_task("monitor2_rx_cb")
  /\ agenda' = RxSet(agenda, 2 + ((1 - clkn) % 2))
  /\ died' = BadTransition("CONNECTED") \cup RxBusy
  /\ UNCHANGED <<call, clkn, tx, pkt, scan, radio, expired>>

(* monitor2_state.c: every slot, whatever was heard.                       *)
monitor2_rx_cb ==
  /\ Called("monitor2_rx_cb")
  /\ \/ Canceled("CONNECTED")
     \/ /\ state = "CONNECTED"
        /\ ScheduleRx((1 - clkn) % 2, "monitor2_rx_cb")
        /\ SameState

(* master_state.c and slave_state.c around the link layer: without a       *)
(* header the link may have timed out; the master always transmits next,   *)
(* the slave only to answer a packet.  The transmit callbacks do not look  *)
(* whether the connection was cancelled.                                   *)
Header == pkt \notin {"none", "id"}

master_rx_cb ==
  /\ Called("master_rx_cb")
  /\ \/ Canceled("CONNECTED")
     \/ state = "CONNECTED" /\ ~Header /\ Timeout
     \/ /\ state = "CONNECTED"
        /\ ScheduleTx(Until(MasterTx, clkn), "master_tx_done", TRUE)
        /\ SameState

slave_rx_cb ==
  /\ Called("slave_rx_cb")
  /\ \/ Canceled("CONNECTED")
     \/ state = "CONNECTED" /\ ~Header /\ Timeout
     \/ /\ state = "CONNECTED" /\ Header
        /\ ScheduleTx(Until(SlaveTx, clkn), "slave_tx_done", TRUE)
        /\ SameState
     \/ /\ state = "CONNECTED"
        /\ ScheduleRx(Until(SlaveRx, clkn), "slave_rx_cb")
        /\ SameState

master_tx_done == /\ Called("master_tx_done")
                  /\ ScheduleRx(Until(MasterRx, clkn), "master_rx_cb")
                  /\ SameState
slave_tx_done == /\ Called("slave_tx_done")
                 /\ ScheduleRx(Until(SlaveRx, clkn), "slave_rx_cb")
                 /\ SameState

-----------------------------------------------------------------------------
(* The main loop takes the next command of the host (btctl_work).  A tick  *)
(* that falls inside a handler finds nothing to run; it may leave the      *)
(* bucket number computed before it one tick short (early).                *)
Handle(cmd) == /\ Operating /\ tick = 0 /\ call = "none" /\ drain = 0
               /\ rxq # << >> /\ Head(rxq) = cmd
               /\ rxq' = Tail(rxq)
               /\ pkt' = "none"
               /\ UNCHANGED <<tick, call, clkn, radio, session>>

(* btctl_handle_idle_req: cancel, then let the tasks come to their end.    *)
idle_req_short == /\ Handle("idle")
                  /\ set_state("STANDBY")
                  /\ drain' = DRAIN \div 2
                  /\ UNCHANGED <<mode, died, agenda, tx, rx, scan, eir,
                                 expired>>

idle_req == /\ Handle("idle")
            /\ set_state("STANDBY")
            /\ drain' = DRAIN
            /\ UNCHANGED <<mode, died, agenda, tx, rx, scan, eir, expired>>

(* inquiry_state_setup and paging_state_setup.                             *)
start_sync_req(cmd, m, sync, next) ==
  /\ Handle(cmd)
  /\ mode' = m
  /\ \E early \in {0, 1} : agenda' = tdma_schedule(agenda, 2 - early, sync)
  /\ set_state(next)
  /\ died' = BadTransition(next)
  /\ UNCHANGED <<tx, rx, scan, eir, expired, drain>>

(* page_scan_, monitor1_ and inquiry_scan_state_setup; the deadline is     *)
(* taken from the clock.                                                   *)
listen_req(cmd, m, cb, next) ==
  /\ Handle(cmd)
  /\ mode' = m
  /\ set_state(next)
  /\ died' = BadTransition(next)
  /\ expired' = FALSE
  /\ scan' = [scan EXCEPT !.cb = cb]
  /\ \E early \in {0, 1} :
        agenda' = tdma_schedule(agenda, 1 - early, "scan_start")
  /\ UNCHANGED <<tx, rx, eir, drain>>

set_eir_req == /\ Handle("set_eir")
               /\ eir' = (eir \/ state = "STANDBY")
               /\ UNCHANGED <<state, txq, mode, died, agenda, tx, rx, scan,
                              expired, drain>>

(* The clock passes the deadline of a search.                              *)
Expire == /\ Operating /\ tick = 0
          /\ ~expired
          /\ expired' = TRUE
          /\ UNCHANGED <<state, mode, died, agenda, tick, call, clkn, tx, rx,
                         pkt, scan, radio, eir, drain, rxq, txq, session>>

(* The host (btctl.py).  A command runs until the host reads that the      *)
(* device is back in STANDBY; only then does the next one start.  stop()   *)
(* sends an idle request at any time.                                      *)
DeviceUnchanged ==
  tick = 0 /\ UNCHANGED <<state, mode, died, agenda, tick, call, clkn,
                               tx, rx, pkt, scan, radio, eir, expired, drain>>

Send(cmd) == Len(rxq) < RxqCap /\ rxq' = Append(rxq, cmd)

HostStart == /\ ~session
             /\ \E cmd \in Commands : Send(cmd)
             /\ session' = TRUE
             /\ DeviceUnchanged /\ UNCHANGED txq

HostStop == /\ session
            /\ "idle" \notin {rxq[i] : i \in DOMAIN rxq}
            /\ Send("idle")
            /\ DeviceUnchanged /\ UNCHANGED <<txq, session>>

HostSetEir == /\ ~session /\ ~eir
              /\ Send("set_eir")
              /\ DeviceUnchanged /\ UNCHANGED <<txq, session>>

HostRead == /\ txq # << >>
            /\ session' = (session /\ Head(txq) # "STANDBY")
            /\ txq' = Tail(txq)
            /\ DeviceUnchanged /\ UNCHANGED rxq

-----------------------------------------------------------------------------
CtlInit == /\ state = "STANDBY" /\ mode = "INQUIRY" /\ died = {}
        /\ agenda = [k \in 0 .. NUM_FRAMES - 1 |-> << >>]
        /\ tick = 0 /\ call = "none"
        /\ clkn = 0
        /\ tx = NoTx /\ rx = NoRx /\ pkt = "none" /\ scan = NoScan
        /\ radio = "idle"
        /\ eir = FALSE /\ expired = FALSE /\ drain = 0
        /\ rxq = << >> /\ txq = << >> /\ session = FALSE

Interrupt ==
  \/ TickStart \/ TickEnd
  \/ tx_prepare \/ tx_execute \/ tx_finalize
  \/ rx_prepare \/ rx_execute \/ rx_decode
  \/ scan_start \/ scan_wait_more
  \/ inquiry_start_sync \/ inquiry_rx_cb
  \/ paging_start_sync \/ paging_rx_cb \/ paging_rx_ack_cb
  \/ inquiry_scan_rx_cb \/ tx_fhs_cb \/ tx_eir_cb
  \/ rx_id_cb("page_scan_rx_id_cb", "page_scan_rx_fhs_cb")
  \/ page_scan_rx_fhs_cb \/ page_scan_tx_cb
  \/ rx_id_cb("monitor1_rx_id_cb", "monitor1_rx_fhs_cb")
  \/ monitor1_rx_fhs_cb \/ start_monitor2 \/ monitor2_rx_cb
  \/ master_rx_cb \/ master_tx_done \/ slave_rx_cb \/ slave_tx_done

CtlMainLoop ==
  \/ idle_req \/ set_eir_req
  \/ start_sync_req("inquiry", "INQUIRY", "inquiry_start_sync", "INQUIRY")
  \/ start_sync_req("paging", "PAGING", "paging_start_sync", "PAGE")
  \/ listen_req("inquiry_scan", "INQUIRY_SCAN", "inquiry_scan_rx_cb",
                "INQUIRY_SCAN")
  \/ listen_req("page_scan", "PAGE_SCAN", "page_scan_rx_id_cb", "PAGE_SCAN")
  \/ listen_req("monitor", "PAGE_SCAN", "monitor1_rx_id_cb", "PAGE_SCAN")

CtlNext == \/ Interrupt
        \/ CtlMainLoop
        \/ Expire
        \/ HostStart \/ HostStop \/ HostSetEir \/ HostRead

CtlSpec == CtlInit /\ [][CtlNext]_ctlVars

(* The timer ticks and its handler ends; between two ticks the main loop   *)
(* gets its turn, at the USB messages and at the commands; the clock goes  *)
(* on; and the air does not carry an FHS in every receive slot.            *)
Fairness == /\ WF_ctlVars(Interrupt)
            /\ SF_ctlVars(CtlMainLoop)
            /\ SF_ctlVars(Expire)
            /\ SF_ctlVars(HostRead)
            /\ SF_ctlVars(rx_execute /\ pkt' # "fhs")

CtlFairSpec == CtlSpec /\ Fairness

-----------------------------------------------------------------------------
Modes == {"INQUIRY", "PAGING", "INQUIRY_SCAN", "PAGE_SCAN", "MASTER", "SLAVE"}
TxCallbacks == {"none", "tx_fhs_cb", "tx_eir_cb", "page_scan_tx_cb",
                "master_tx_done", "slave_tx_done"}
RxCallbacks == {"none", "inquiry_rx_cb", "paging_rx_cb", "paging_rx_ack_cb",
                "page_scan_rx_fhs_cb", "monitor1_rx_fhs_cb", "monitor2_rx_cb",
                "master_rx_cb", "slave_rx_cb"}
ScanCallbacks == {"none", "inquiry_scan_rx_cb", "page_scan_rx_id_cb",
                  "monitor1_rx_id_cb"}
Reasons == {"txs: already got pkt", "rx_schedule: rx_msg!=0",
            "rxnd: no rx_pkt", "txe: wrong clkn", "Invalid state transition"}

CtlTypeOK ==
  /\ state \in States /\ mode \in Modes /\ died \subseteq Reasons
  /\ agenda \in [0 .. NUM_FRAMES - 1 -> Seq(Items)]
  /\ \A k \in 0 .. NUM_FRAMES - 1 : Len(agenda[k]) <= NUM_CB
  /\ tick \in 0 .. NUM_CB + 1
  /\ call \in TxCallbacks \cup RxCallbacks \cup ScanCallbacks
  /\ clkn \in 0 .. 3
  /\ tx \in [cb : TxCallbacks, hdr : BOOLEAN]
  /\ rx \in [cb : RxCallbacks, msg : BOOLEAN, left : 0 .. 9]
  /\ pkt \in PktKinds
  /\ scan \in [cb : ScanCallbacks, slots : 0 .. SCAN_MAX_SLOTS]
  /\ radio \in {"idle", "tx", "rx", "scan"}
  /\ eir \in BOOLEAN /\ expired \in BOOLEAN
  /\ drain \in 0 .. DRAIN
  /\ rxq \in Seq(Commands \cup {"idle", "set_eir"})
  /\ txq \in Seq(States)
  /\ session \in BOOLEAN

NothingScheduled == /\ tick = 0
         /\ \A k \in 0 .. NUM_FRAMES - 1 : agenda[k] = << >>

(* Whatever the host and the air do, the tasks never trip over one another:*)
(* a packet is never handed to a transmitter or a receiver still at work,  *)
(* none ends without a buffer, and a transmission starts on an even clock. *)
(* No bucket of the agenda ever fills, so tdma_schedule drops none of them.*)
(* Masters transmit at clk1_0 = 0 and slaves at 2, through multi-slot      *)
(* packets, clock changes and retries.                                     *)
DueNow(cb) == call = "none" /\ tick \in 1 .. Len(agenda[0]) /\ agenda[0][tick] = cb
SlotsAligned ==
  DueNow("tx_execute") => clkn = IF mode \in {"INQUIRY", "PAGING", "MASTER"} THEN 0 ELSE 2
RadioOwned == /\ DueNow("tx_execute") => radio = "tx"
              /\ DueNow("rx_execute") \/ DueNow("rx_decode") => radio = "rx"
              /\ DueNow("scan_wait_more") => radio = "scan"
TasksNeverCollide ==
  /\ CtlTypeOK /\ died \subseteq {"Invalid state transition"} /\ SlotsAligned /\ RadioOwned
  /\ \A k \in 0 .. NUM_FRAMES - 1 : Len(agenda[k]) < NUM_CB

(* When the main loop takes a command in STANDBY, nothing of the last      *)
(* search or connection is left: no callback, no packet, no buffer.  Out   *)
(* of STANDBY something is always scheduled that will take the search or   *)
(* the connection on, with one exception: a page scan or a monitor that    *)
(* receives a good packet other than FHS where it expects the FHS.         *)
Stalled == state = "PAGE_SCAN" /\ pkt = "acl"
StandbyIsQuiet ==
  /\ drain = 0 /\ tick = 0 /\ state = "STANDBY" /\ Operating
       => NothingScheduled /\ ~tx.hdr /\ ~rx.msg /\ radio = "idle"
  /\ Operating /\ state # "STANDBY" /\ NothingScheduled => Stalled

(* Every search ends: in a connection, with the timeout, or with a stop of *)
(* the host, but for the packet of the wrong type (Stalled) and for the    *)
(* halt the host may cause by stopping a page scan (see NeverHalts).       *)
SearchEnds == state \in Searching ~> state \notin Searching \/ Stalled
                                     \/ ~Operating

(* A host that sends a stop hears that the device is back in STANDBY, or   *)
(* the firmware has halted: btctl.py waits for it without a timeout.       *)
StopAnswered == session /\ rxq # << >> /\ rxq[Len(rxq)] = "idle"
                  ~> ~session \/ ~Operating

(* The firmware never halts.                                               *)
NeverHalts == died = {}
=============================================================================
