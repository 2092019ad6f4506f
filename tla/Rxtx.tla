-------------------------------- MODULE Rxtx --------------------------------
(* The main loop of the bluetooth_rxtx firmware (bluetooth_rxtx.c): it polls *)
(* USB, compares requested_mode with mode and enters the requested mode's    *)
(* function, which runs until it notices another request.  The symbol stream *)
(* (bt_stream_rx) is modelled step by step against the DMA interrupt, which  *)
(* swaps the two receive buffers under it, and the hop timer.                *)
(*                                                                           *)
(* Blocks of symbols have no numbers: a block is known by how many blocks    *)
(* completed since, up to Cap.                                               *)
EXTENDS VendorRequests, FiniteSets

CONSTANTS
  Script,     \* the sets of control requests the host chooses the first, the second, ... from
  QueueSize, \* entries of the USB queue's ring: one is always free
  SweepSteps \* packets of readings in one sweep of the spectrum analyser

ASSUME RxtxAssumption ==
  /\ QueueSize \in Nat \ {0, 1} /\ SweepSteps \in Nat \ {0}
  /\ Len(Script) \in Nat /\ \A k \in 1..Len(Script) : \A r \in Script[k] : {r.v, r.data} \subseteq Words

VARIABLES
  pc,       \* where the main loop is
  d,        \* the shared variables the vendor requests also touch; d.q is the USB queue, whose
            \* packets are known by their kind and whether they are of an earlier mode
  radio,    \* state: off, rx or tx; fs: the frequency in FSDIV; ssel: the symbol output is selected
  status,   \* flags for the next packet
  dma,      \* on, tc (rx_tc), mixed and filling: idle and active block saw a retune
  pkt,      \* the packet bt_stream_rx is making
  since,    \* blocks completed since the one last put into the queue
  race,     \* packets still to come that an interrupt in a window may have spoilt
  bulk,     \* the packets in the bulk endpoint's two buffers
  made      \* requests the host has made

vars == <<pc, d, radio, status, dma, pkt, since, race, bulk, made>>

Cap == 3
Several == 2  \* how far rx_tc and blocks lost are counted
UpTo(n, max) == IF n > max THEN max ELSE n
Flags == {"DMA_OVERFLOW", "FIFO_OVERFLOW", "DISCARD"}
PacketKinds == {"BR", "SPECAN", "LE", "EGO"}

\* The packet bt_stream_rx makes: swaps of the buffers since it took the idle
\* one; the blocks its stamps, first and last bytes are of, counted from that;
\* ghosts: gap, blocks were lost before it, and mixed, it saw a retune.
NoPacket == [swaps |-> 0, stamp |-> 0, first |-> 0, last |-> 0, gap |-> FALSE, mixed |-> FALSE, flags |-> {},
             dirty |-> FALSE]

-----------------------------------------------------------------------------
(* The USB queue and handle_usb.                                            *)

Full(q) == Len(q) = QueueSize - 1
\* A mode that starts its own stream of packets empties the queue.
Aged(s) == [i \in DOMAIN s |-> [s[i] EXCEPT !.old = TRUE]]

\* enqueue: a full queue is remembered for the next packet's status.
enqueue(p) ==
  IF Full(d.q) THEN /\ status' = status \cup {"FIFO_OVERFLOW"}
                    /\ UNCHANGED d
  ELSE /\ d' = [d EXCEPT !.q = Append(@, p)]
       /\ status' = {}
Packet(kind) == [kind |-> kind, old |-> FALSE]

\* dequeue_send for each of the endpoint's buffers that is free.
Sent(q, b) == LET k == IF Len(q) < 2 - Len(b) THEN Len(q) ELSE 2 - Len(b)
              IN  [q |-> SubSeq(q, k + 1, Len(q)), b |-> b \o SubSeq(q, 1, k)]
\* One request, or none, is waiting when USBHwISR looks.
Serve(d0, b0) ==
  \/ d' = d0 /\ bulk' = b0 /\ UNCHANGED made
  \/ /\ made < Len(Script)
     /\ made' = made + 1
     /\ \E r \in Script[made + 1] : /\ d' = vendor_request_handler(r, d0).d
                                  /\ bulk' = IF LeOp(r) THEN Aged(b0) ELSE b0
\* Where the loop goes on after each of its calls of handle_usb.
AfterUsb == [main |-> "switch", poll |-> "hop", enqueued |-> "clear", tx |-> "sent", reading |-> "sweep",
             led |-> "ledtest", generic |-> "receive", lepoll |-> "le"]
handle_usb ==
  /\ pc \in DOMAIN AfterUsb
  /\ pc' = AfterUsb[pc]
  /\ LET s == Sent(d.q, bulk) IN Serve([d EXCEPT !.q = s.q], s.b)
  /\ pkt' = IF pc = "enqueued" THEN NoPacket ELSE pkt
  /\ UNCHANGED <<radio, status, dma, since, race>>

\* The modes that wait with USB interrupts enabled: requests are served at
\* any time, the queue is not sent.
UsbInterrupt ==
  /\ pc \in {"slave", "xmas", "ego"}
  /\ Serve(d, bulk)
  /\ UNCHANGED <<pc, radio, status, dma, pkt, since, race>>

HostReads == /\ bulk # << >>
             /\ bulk' = Tail(bulk)
             /\ UNCHANGED <<pc, d, radio, status, dma, pkt, since, race, made>>

-----------------------------------------------------------------------------
(* The symbol stream: bt_stream_rx.                                         *)

\* cc2400_rx: an unknown modulation leaves the registers, and so the channel,
\* as they were, and starts the radio all the same.
Modulated == d.set["MOD"] \in {0, 1}
cc2400_rx == [state |-> "rx", fs |-> IF Modulated THEN d.channel - 1 ELSE radio.fs, ssel |-> TRUE]
Streaming == {"test", "waiting", "poll", "hop", "retune", "flag", "stamp", "first", "rest", "enqueued", "clear"}
dma_init_rx_symbols == dma' = [on |-> TRUE, tc |-> 0, mixed |-> FALSE, filling |-> FALSE]
LoopTest_mode ==
  /\ pc = "test"
  /\ IF d.mode \in {"RX_SYMBOLS", "BT_FOLLOW"}
     THEN pc' = "waiting" /\ UNCHANGED <<radio, dma, since, race>>
     ELSE /\ pc' = "main"
          /\ dma' = [dma EXCEPT !.on = FALSE, !.mixed = FALSE, !.filling = FALSE]
          /\ radio' = [radio EXCEPT !.ssel = FALSE]
          /\ since' = 0 /\ race' = 0
  /\ UNCHANGED <<d, status, pkt, bulk, made>>
LoopTest ==
  /\ pc = "test"
  /\ IF d.requested_mode \in {"RX_SYMBOLS", "BT_FOLLOW"}
     THEN pc' = "waiting" /\ UNCHANGED <<radio, dma, since, race>>
     ELSE /\ pc' = "main"
          /\ dma' = [dma EXCEPT !.on = FALSE, !.mixed = FALSE, !.filling = FALSE]
          /\ radio' = [radio EXCEPT !.ssel = FALSE]
          /\ since' = 0 /\ race' = 0
  /\ UNCHANGED <<d, status, pkt, bulk, made>>

WaitForBlock ==
  /\ pc = "waiting"
  /\ pc' = IF dma.tc = 0 THEN "poll" ELSE "flag"
  /\ UNCHANGED <<d, radio, status, dma, pkt, since, race, bulk, made>>

\* hop: choose the channel and retune, with the radio off until the
\* synthesizer locks again.  Which channel sweep, AFH detection or the
\* hopping sequence comes to does not matter here: one of HopChannels.
HopChannels == {2402, 2480}
HopTo(mode, ch) == IF mode \in {"SWEEP", "AFH", "BLUETOOTH"} THEN HopChannels ELSE {ch}
Hop ==
  /\ pc = "hop"
  /\ IF ~ d.do_hop \/ (d.hop_mode = "NONE" /\ radio.fs = d.channel - 1)
     THEN /\ pc' = "waiting"
          /\ d' = [d EXCEPT !.do_hop = FALSE]
          /\ UNCHANGED <<radio, dma, race>>
     ELSE /\ pc' = "retune"
          /\ race' = IF dma.tc > 0 THEN 2 ELSE race
          /\ \E ch \in HopTo(d.hop_mode, d.channel) :
                /\ d' = [d EXCEPT !.do_hop = FALSE, !.channel = ch]
                /\ radio' = [radio EXCEPT !.fs = ch - 1]
          /\ dma' = [dma EXCEPT !.filling = TRUE]
  /\ UNCHANGED <<status, pkt, since, bulk, made>>
Locked ==
  /\ pc = "retune"
  /\ pc' = "waiting"
  /\ d' = [d EXCEPT !.discard = TRUE]
  /\ UNCHANGED <<radio, status, dma, pkt, since, race, bulk, made>>

\* The status of the packet, then enqueue: the argument idle_rxbuf is read
\* first, the entry's stamps after, the bytes last.
FlagPacket_nocount ==
  /\ pc = "flag"
  /\ pc' = "stamp"
  /\ status' = status \cup (IF d.discard THEN {"DISCARD"} ELSE {})
  /\ d' = [d EXCEPT !.discard = FALSE]
  /\ pkt' = [NoPacket EXCEPT !.gap = (since > 1), !.mixed = dma.mixed]
  /\ UNCHANGED <<radio, dma, since, race, bulk, made>>
FlagPacket ==
  /\ pc = "flag"
  /\ pc' = "stamp"
  /\ status' = status \cup (IF dma.tc > 1 THEN {"DMA_OVERFLOW"} ELSE {})
                      \cup (IF d.discard THEN {"DISCARD"} ELSE {})
  /\ d' = [d EXCEPT !.discard = FALSE]
  /\ pkt' = [NoPacket EXCEPT !.gap = (since > 1), !.mixed = dma.mixed]
  /\ UNCHANGED <<radio, dma, since, race, bulk, made>>

Stamp ==
  /\ pc = "stamp"
  /\ IF Full(d.q) THEN /\ pc' = "enqueued"
                       /\ status' = status \cup {"FIFO_OVERFLOW"}
                       /\ pkt' = NoPacket
     ELSE /\ pc' = "first"
          /\ pkt' = [pkt EXCEPT !.stamp = pkt.swaps]
          /\ UNCHANGED status
  /\ UNCHANGED <<d, radio, dma, since, race, bulk, made>>

\* What the pointer's buffer holds after s swaps: its block, and from the
\* first swap on the block DMA writes over it.
Contents(s) == CASE s = 0 -> {0} [] s = 1 -> {0, 2} [] s = 2 -> {2} [] s = Cap -> {2, 4}
CopyFirst ==
  /\ pc = "first"
  /\ pc' = "rest"
  /\ \E b \in Contents(pkt.swaps) : pkt' = [pkt EXCEPT !.first = b]
  /\ UNCHANGED <<d, radio, status, dma, since, race, bulk, made>>
CopyRest ==
  /\ pc = "rest"
  /\ pc' = "enqueued"
  /\ \E b \in Contents(pkt.swaps) :
        pkt' = [pkt EXCEPT !.last = b, !.flags = status, !.dirty = (race > 0)]
  /\ d' = [d EXCEPT !.q = Append(@, [Packet("BR") EXCEPT !.old = IsLe(d.requested_mode)])]
  /\ status' = {}
  /\ since' = UpTo(pkt.swaps, Several)
  /\ race' = IF race = 0 THEN 0 ELSE race - 1
  /\ UNCHANGED <<radio, dma, bulk, made>>

ClearCount ==
  /\ pc = "clear"
  /\ dma' = [dma EXCEPT !.tc = 0]
  /\ pc' = "test"
  /\ UNCHANGED <<d, radio, status, pkt, since, race, bulk, made>>

-----------------------------------------------------------------------------
(* Interrupts.                                                              *)

\* legacy_DMA_IRQHandler: a block is complete.  With BLUETOOTH hopping the
\* output is deselected until a carrier is sensed.  race remembers that it
\* came while a packet was made, or while the radio was being retuned.
Window == {"stamp", "first", "rest"}
legacy_DMA_IRQHandler ==
  /\ dma.on /\ radio.ssel /\ d.mode \in {"RX_SYMBOLS", "BT_FOLLOW"} /\ pc \in Streaming
  /\ dma' = [dma EXCEPT !.tc = UpTo(@ + 1, Several), !.mixed = dma.filling, !.filling = (pc = "retune")]
  /\ radio' = [radio EXCEPT !.ssel = (d.hop_mode # "BLUETOOTH")]
  /\ since' = UpTo(since + 1, Several)
  /\ pkt' = IF pc \in Window THEN [pkt EXCEPT !.swaps = UpTo(@ + 1, Cap)] ELSE pkt
  /\ race' = IF pc \in Window \cup {"retune"} THEN 2 ELSE IF pc \in {"enqueued", "clear"} THEN 1 ELSE race
  /\ UNCHANGED <<pc, d, status, bulk, made>>

\* A carrier above the threshold, while bt_stream_rx has the trigger enabled.
\* Following a piconet, it takes the discard of a retuned block back.
EINT3_IRQHandler ==
  /\ dma.on /\ pc \in Streaming
  /\ ~ radio.ssel \/ (d.hop_mode = "BLUETOOTH" /\ d.discard)
  /\ radio' = [radio EXCEPT !.ssel = TRUE]
  /\ d' = [d EXCEPT !.discard = (@ /\ d.hop_mode # "BLUETOOTH")]
  /\ race' = IF d'.discard # d.discard THEN 2 ELSE race
  /\ UNCHANGED <<pc, status, dma, pkt, since, bulk, made>>

\* The clock says it is time to hop: every so many ticks in the hop modes of
\* the stream, never by itself in the others.
TIMER0_IRQHandler ==
  /\ pc \in Streaming \cup {"tx", "sent"}
  /\ d.hop_mode \in {"NONE", "SWEEP", "BLUETOOTH", "AFH"} /\ ~ d.do_hop
  /\ d' = [d EXCEPT !.do_hop = TRUE]
  /\ UNCHANGED <<pc, radio, status, dma, pkt, since, race, bulk, made>>

-----------------------------------------------------------------------------
(* Entering a mode.  SPECAN, LED_SPECAN and BT_SLAVE_LE leave mode as it is. *)

cc2400_idle(d0) ==
  [InitialDevice(d0.q) EXCEPT !.target_set = d0.target_set, !.do_follow = d0.do_follow,
     !.cancel_follow = d0.cancel_follow, !.afh_map = d0.afh_map, !.afh_enabled = d0.afh_enabled,
     !.dfu = d0.dfu, !.set = [d0.set EXCEPT !["MOD"] = 0, !["JAM_MODE"] = 0, !["EGO_MODE"] = 0,
                                           !["PAEN"] = 0, !["HGM"] = 0, !["SQUELCH"] = 0,
                                           !["USRLED"] = 0, !["RXLED"] = 0, !["TXLED"] = 0]]
Off == [radio EXCEPT !.state = "off", !.ssel = FALSE]
InMode(m) == [d EXCEPT !.mode = m]

IdleMode == /\ d' = cc2400_idle(d)
            /\ radio' = Off
            /\ status' = {} /\ pc' = "main"
            /\ UNCHANGED <<dma, pkt, since, race, bulk, made>>
\* Go to a mode's own steps, or back to the loop, with the radio so.
Enter(m, at, r) == /\ d' = InMode(m) /\ pc' = at /\ radio' = r
                   /\ UNCHANGED <<status, dma, pkt, since, race, bulk, made>>
StreamMode_keeps(m) ==
  /\ d' = [InMode(m) EXCEPT !.q = Aged(@)]
  /\ bulk' = Aged(bulk)
  /\ dma_init_rx_symbols
  /\ radio' = cc2400_rx
  /\ since' = 0 /\ race' = 0 /\ pkt' = NoPacket
  /\ pc' = "test"
  /\ UNCHANGED <<status, made>>
StreamMode(m) ==
  /\ d' = [InMode(m) EXCEPT !.q = << >>]
  /\ bulk' = Aged(bulk)
  /\ dma_init_rx_symbols
  /\ radio' = cc2400_rx
  /\ since' = 0 /\ race' = 0 /\ pkt' = NoPacket
  /\ pc' = "test"
  /\ UNCHANGED <<status, made>>
\* Modes that send their own packets without the symbol DMA.
FreshQueue(m, at, r) == /\ d' = [InMode(m) EXCEPT !.q = << >>]
                        /\ bulk' = Aged(bulk)
                        /\ pc' = at /\ radio' = r
                        /\ UNCHANGED <<status, dma, pkt, since, race, made>>
\* Packets for the air: cc2400_tx_sync leaves the transmitter on (or does
\* nothing, for an unknown modulation), le_transmit turns it off again.
cc2400_tx_sync == IF Modulated THEN [radio EXCEPT !.state = "tx", !.fs = d.channel]
                  ELSE [radio EXCEPT !.fs = d.channel]
le_transmit == Off
Receiving    == [radio EXCEPT !.state = "rx"]
Transmitting == [radio EXCEPT !.state = "tx"]

\* rx_generic tests cc2400_get(GRMDM) && 0x0400, which is true of every value
\* but zero, and no mode of this firmware leaves the register zero.
rx_generic == FreshQueue("RX_GENERIC", "receive", Receiving)
tx_generic == /\ d' = [d EXCEPT !.mode = "TX_GENERIC", !.requested_mode = d.mode]
              /\ radio' = Off /\ pc' = "main"
              /\ UNCHANGED <<status, dma, pkt, since, race, bulk, made>>
cc2400_txtest == Enter("TX_TEST", "main", IF Modulated THEN [Transmitting EXCEPT !.fs = d.channel] ELSE radio)

Switch ==
  /\ pc = "switch"
  /\ LET m == d.requested_mode
     IN  \/ m = d.mode /\ pc' = "main" /\ UNCHANGED <<d, radio, status, dma, pkt, since, race, bulk, made>>
         \/ m # d.mode /\ m = "RESET" /\ Enter(d.mode, "reset", radio)
         \/ m # d.mode /\ m \in {"AFH", "RX_SYMBOLS", "BT_FOLLOW"} /\ StreamMode(m)
         \/ m # d.mode /\ m = "TX_SYMBOLS"   /\ Enter(m, "sent", cc2400_tx_sync)
         \/ m # d.mode /\ m = "BT_FOLLOW_LE" /\ Enter(m, "le", Receiving)
         \/ m # d.mode /\ m = "BT_PROMISC_LE" /\ Enter(m, "le", Receiving)
         \/ m # d.mode /\ m = "BT_SLAVE_LE"  /\ Enter(d.mode, "slave", radio)
         \/ m # d.mode /\ m = "TX_TEST"      /\ cc2400_txtest
         \/ m # d.mode /\ m = "RANGE_TEST"   /\ Enter(m, "range", Receiving)
         \/ m # d.mode /\ m = "REPEATER"     /\ Enter(m, "repeater", Receiving)
         \/ m # d.mode /\ m = "SPECAN"       /\ FreshQueue(d.mode, "unlock", radio)
         \/ m # d.mode /\ m = "LED_SPECAN"   /\ Enter(d.mode, "ledunlock", radio)
         \/ m # d.mode /\ m = "EGO"          /\ Enter(m, "ego", Receiving)
         \/ m # d.mode /\ m = "RX_GENERIC"   /\ rx_generic
         \/ m # d.mode /\ m = "TX_GENERIC"   /\ tx_generic
         \/ m # d.mode /\ m = "XMAS"         /\ Enter(m, "xmas", radio)
         \/ m # d.mode /\ m = "IDLE"         /\ IdleMode

-----------------------------------------------------------------------------
(* The other modes' own steps.                                              *)

Go(at, r) == /\ pc' = at /\ radio' = r
             /\ UNCHANGED <<dma, pkt, since, race, bulk, made>>
\* br_transmit: a packet per slot, then USB; the radio is left on at the end.
br_transmit ==
  /\ pc = "sent"
  /\ IF d.requested_mode # "TX_SYMBOLS" THEN Go("main", radio) /\ UNCHANGED d
     ELSE \E ch \in (IF d.do_hop THEN HopTo(d.hop_mode, d.channel) ELSE {d.channel}) :
            /\ d' = [d EXCEPT !.channel = ch, !.do_hop = FALSE, !.discard = (@ \/ d.do_hop)]
            /\ Go("tx", [Transmitting EXCEPT !.fs = IF d.do_hop THEN ch ELSE @])
  /\ UNCHANGED status

\* The two analysers wait for the synthesizer to be unlocked, which it never
\* is when the mode before left the radio on.
AwaitUnlock ==
  /\ pc \in {"unlock", "ledunlock"} /\ radio.state = "off"
  /\ Go(IF pc = "unlock" THEN "sweep" ELSE "ledtest", radio)
  /\ UNCHANGED <<d, status>>
\* specan: readings go out sixteen to a packet, the mode is looked at after a
\* whole sweep.  pkt.swaps is used as the position in the sweep.
SweepAt(k) == pkt' = [pkt EXCEPT !.swaps = k]
specan ==
  /\ pc = "sweep"
  /\ IF pkt.swaps >= SweepSteps
     THEN /\ SweepAt(0)
          /\ pc' = IF d.requested_mode = "SPECAN" THEN "sweep" ELSE "main"
          /\ radio' = Off
          /\ UNCHANGED <<d, status>>
     ELSE /\ SweepAt(pkt.swaps + 1)
          /\ enqueue(Packet("SPECAN"))
          /\ pc' = "reading" /\ radio' = Receiving
  /\ UNCHANGED <<dma, since, race, bulk, made>>
led_specan ==
  /\ pc = "ledtest"
  /\ IF d.requested_mode = "LED_SPECAN" THEN Go("led", Receiving) ELSE Go("main", Off)
  /\ UNCHANGED <<d, status>>

\* bt_slave_le: advertise, sleep; the mode is looked at after the sleep.
bt_slave_le ==
  /\ pc = "slave"
  /\ Go(IF d.requested_mode = "BT_SLAVE_LE" THEN "slave" ELSE "main",
        IF d.requested_mode = "BT_SLAVE_LE" THEN le_transmit ELSE radio)
  /\ UNCHANGED <<d, status>>

\* The range test waits for a good reply and asks for IDLE; the repeater has
\* no way out.
cc2400_rangetest ==
  /\ pc = "range"
  /\ d' = [d EXCEPT !.requested_mode = "IDLE"]
  /\ Go("main", Off)
  /\ UNCHANGED status
cc2400_repeater ==
  /\ pc = "repeater"
  /\ Go("repeater", IF radio.state = "rx" THEN Transmitting ELSE Receiving)
  /\ UNCHANGED <<d, status>>

rx_generic_sync ==
  /\ pc = "receive"
  /\ enqueue(Packet("BR"))
  /\ Go("generic", Receiving)

\* The LE modes: following leaves the radio on, the promiscuous one ends in
\* cc2400_idle, whatever was requested meanwhile.
LeMode ==
  /\ pc = "le"
  /\ IF d.requested_mode = d.mode
     THEN Go("lepoll", radio) /\ (enqueue(Packet("LE")) \/ UNCHANGED <<d, status>>)
     ELSE IF d.mode = "BT_FOLLOW_LE" THEN Go("main", radio) /\ UNCHANGED <<d, status>>
     ELSE IdleMode

ego_main ==
  /\ pc = "ego"
  /\ IF d.requested_mode = "EGO"
     THEN Go("ego", radio) /\ enqueue(Packet("EGO"))
     ELSE Go("main", Off) /\ UNCHANGED <<d, status>>

xmas_main == /\ pc = "xmas" /\ d.requested_mode # "XMAS"
             /\ Go("main", radio)
             /\ UNCHANGED <<d, status>>

-----------------------------------------------------------------------------
Init ==
  /\ pc = "main" /\ d = InitialDevice(<< >>)
  /\ radio = [state |-> "off", fs |-> 0, ssel |-> FALSE]
  /\ status = {} /\ dma = [on |-> FALSE, tc |-> 0, mixed |-> FALSE, filling |-> FALSE]
  /\ pkt = NoPacket /\ since = 0 /\ race = 0 /\ bulk = << >> /\ made = 0

\* reset: with dfu set the boot loader stays, otherwise the program starts
\* again.
reset ==
  /\ pc = "reset" /\ ~ d.dfu
  /\ pc' = "main" /\ d' = InitialDevice(<< >>)
  /\ radio' = [state |-> "off", fs |-> 0, ssel |-> FALSE]
  /\ status' = {} /\ dma' = [on |-> FALSE, tc |-> 0, mixed |-> FALSE, filling |-> FALSE]
  /\ pkt' = NoPacket /\ since' = 0 /\ race' = 0 /\ bulk' = << >>
  /\ UNCHANGED made

StreamStep == \/ LoopTest \/ WaitForBlock \/ Hop \/ Locked \/ FlagPacket \/ Stamp \/ CopyFirst
              \/ CopyRest \/ ClearCount
ModeStep == \/ br_transmit \/ AwaitUnlock \/ specan \/ led_specan \/ bt_slave_le \/ rx_generic_sync
            \/ LeMode \/ ego_main \/ xmas_main \/ cc2400_repeater
MainLoop == handle_usb \/ Switch \/ StreamStep \/ ModeStep \/ reset
Next == \/ MainLoop \/ cc2400_rangetest \/ UsbInterrupt \/ HostReads
        \/ legacy_DMA_IRQHandler \/ EINT3_IRQHandler \/ TIMER0_IRQHandler

\* The processor runs, symbols come, and now and then a carrier is sensed;
\* nothing answers a range test.
Fairness == WF_vars(MainLoop) /\ WF_vars(legacy_DMA_IRQHandler) /\ WF_vars(EINT3_IRQHandler)
Spec == Init /\ [][Next]_vars /\ Fairness

-----------------------------------------------------------------------------
TypeOK ==
  /\ DeviceTypes(d) /\ Len(d.q) < QueueSize /\ Len(bulk) <= 2
  /\ radio.state \in {"off", "rx", "tx"} /\ status \subseteq Flags
  /\ dma.tc \in 0..Several /\ since \in 0..Several /\ race \in 0..2 /\ made \in 0..Len(Script)
  /\ \A i \in DOMAIN d.q : d.q[i].kind \in PacketKinds

\* The packets of the symbol stream, beside the types: unless the DMA interrupt hit
\* between the test of rx_tc and its reset, or between the loop's look at
\* rx_tc and the end of a retune, each packet is one
\* block with its own time stamp, a retuned one is marked DISCARD, and
\* blocks lost before it leave an overflow flag in it.
PacketsTrue ==
  TypeOK /\
  (pc = "enqueued" /\ ~ pkt.dirty =>
    /\ pkt.stamp = pkt.first /\ pkt.first = pkt.last
    /\ pkt.mixed => "DISCARD" \in pkt.flags
    /\ pkt.gap => pkt.flags \cap {"DMA_OVERFLOW", "FIFO_OVERFLOW"} # {})

\* After a mode starts its stream the host first reads at most three packets
\* of before: two in the endpoint's buffers, and one the symbol stream put in
\* after the request for LE had emptied the queue.
Reading == bulk \o d.q
Old == {i \in DOMAIN Reading : Reading[i].old}
OldFirst == Cardinality(Old) <= 3 /\ \A i \in Old : 1..i \subseteq Old

\* STOP is obeyed, or overtaken by another request, except in the modes that
\* do not look: generic reception, the repeater, a range test without reply,
\* and an analyser entered with the synthesizer locked.
Deaf == pc \in {"receive", "generic", "range", "repeater"}
        \/ (pc \in {"unlock", "ledunlock"} /\ radio.state # "off")
Stopped == d.mode = "IDLE" /\ pc \in {"main", "switch"}
StopObeyed == (d.requested_mode = "IDLE") ~> (Stopped \/ d.requested_mode # "IDLE" \/ Deaf)
=============================================================================
