# Ubertooth in TLA+

Specifications of the Ubertooth firmware and host programs, the TLC
configurations that check them on small instances, and theorems about them that
TLAPS checks for every value of the constants. Paths are those of the
repository (`src/` is its root here). Names in the modules are the source's
names wherever TLA+ allows it.

- [1. The system](#1-the-system)
- [2. Modules](#2-modules)
- [3. Runs](#3-runs)
- [4. What the checks found](#4-what-the-checks-found)
- [5. Proofs](#5-proofs)
- [6. What is not modelled](#6-what-is-not-modelled)
- [7. Plan](#7-plan)
- [8. How to run](#8-how-to-run)

## 1. The system

An Ubertooth is an LPC1756 microcontroller with a CC2400 radio on a USB stick.
One of three programs runs on it: the *bootloader*, which writes the flash; the
sniffer firmware *bluetooth_rxtx*; or *btbr*, a small Bluetooth BR/EDR
controller. On the host, the C library *libubertooth* with its tools drives the
sniffer, the Python package *ubtbr* drives btbr, and *ubertooth-dfu* drives the
bootloader.

    host            ubtbr (btctl.py, lmp.py)   libubertooth, tools    ubertooth-dfu
                          | messages                | packets, requests      | DFU requests
    ----- USB ------------+-------------------------+------------------------+------
    device          btbr                       bluetooth_rxtx           bootloader
                     btctl: requests, state     main loop, modes         DFU object
                     state modules, tasks       DMA, TIMER0/1, USB        flash writer
                     TDMA scheduler (timer)     packet queues
                     link layer, queues
                          | radio                   | radio

Every program on the device is a main loop with interrupts and without an
operating system. The hard behaviours follow from that: two or three execution
contexts share words of memory; work is scheduled ticks ahead and cancelled by
setting a flag; the radio loses and damages packets at will; the host asks for
things at any moment and may die; buffers are few.

### Components

| Component | State it keeps | Operations | Talks to | Hard behaviour | Correct when |
|---|---|---|---|---|---|
| btbr message rings (`util/queue.c`, `btctl_intf.h`) | `head`, `tail`, slots of `tx_q`, `rx_q`, `acl_tx_q` | enqueue, dequeue, empty, full, with interrupts masked | main loop, timer interrupt, USB | an interrupt between a check and the index it guards; nested masking | each ring is an atomic FIFO of size - 1 |
| btbr link layer (`ll.c`, `master_state.c`, `slave_state.c`) | `loc_seqn`, `rem_seqn`, `loc_arqn`, `cur_pkt`, last time heard | prepare a packet, process a reception, reset; the tx/rx round of either role | rings, tasks, radio | lost, damaged and repeated packets; a host that cancels in mid-round; each end times out alone | messages arrive in order, once, and are acknowledged only when delivered |
| btbr control, tasks, scheduler (`btctl.c`, `*_state.c`, `*_task.c`, `tdma_sched.c`) | the state, stop and cancel flags, the deadline of a search; the packet of each task; a ring of 16 buckets of up to 4 items | requests of the host; prepare, execute, finalize of each task in successive ticks; one callback per reception or transmission | host, radio | cancellation while tasks are in flight, two tasks meeting in a tick, invalid transitions that halt the firmware | every search ends, every stop is answered, nothing runs after a stop, one task at a time owns the radio |
| btbr clock, hopping, AFH (`btphy.c`, `hop.c`) | native clock and piconet offset, up to 10 instant timers, the channel map | tick, schedule a timer, switch map, hop | scheduler, main loop, `lmp.py` | timers removed while they are scanned; a map replaced before its instant | both ends switch in the same slot; no timer is lost |
| btbr message pool and USB framing (`mem_pool.c`, `ubertooth_usb.c`, `console.c`, `btctl.py`) | 16 buffers, partial messages in both directions | allocate, free, split into 64-byte packets, join | everything | buffers run out; a partial message and a new one; last words of a device that stops | no buffer leaks, messages are neither merged nor cut, none is stuck |
| btbr codec (`codec.c`, `bitstream_proc.c`, `packet_proc.c`) | whitening register, CRC, bit position | encode and decode a header, a chunk of payload | radio DMA | chunks of different sizes; words across chunks; damaged bits | what is sent is received, damage is noticed |
| ubtbr commands (`btctl.py`, `ubertooth-btbr`) | a thread, a queue and a state per command; the reader thread | start, run, stop, join; alternate two commands | btbr | a stop at any point of a command; answers of the command before | the prompt comes back, commands do not mix |
| ubtbr LMP (`lmp.py`) | features, version, names exchanged; set-up complete | one handler per PDU | link layer | both ends start; refusals | set-up completes at both ends |
| LE following (`le_phy.c`) | pool of four buffers, the buffer in reception, the queue, the connection and its current event, four timer matches | DMA handler (per byte), TIMER1 handler, main loop, packet handlers | radio, USB | TIMER1 preempts DMA, both preempt the main loop; packets at the edge of an event; updates at an instant | every buffer has one owner; the hop counter follows the connection's |
| LE promiscuous mode (`bluetooth_rxtx.c`, `bluetooth_le.c`) | candidate access addresses, `le` link state, what is recovered so far | one packet handler per stage of recovery, hop timer | radio, host | packets lost during recovery, clock wrap, hops by wall time | the device is on the connection's channel at each event |
| symbol stream and modes (`bluetooth_rxtx.c`, `ubertooth_dma.c`, `ubertooth_usb.c`) | `active_rxbuf`/`idle_rxbuf`, `rx_tc`, the USB queue of 128 slots, `mode`/`requested_mode` | DMA interrupt, main loop, vendor requests | radio, host | swap while the main loop copies; a mode request lost | no packet is silently half old and half new; a request is obeyed |
| clock, trims, sweeps (`bluetooth_rxtx.c`, `ubertooth_clock.c`, `bluetooth.c`) | `clkn`, offsets, drift correction, hop mode, map | timer tick, trim, drift and map requests, hop | host callbacks | trims decided from packets older than the last trim | a trimmed clock is the piconet's; the map found is the piconet's |
| ego mode (`ego.c`) | state, channel index, timeouts | one handler per state | radio | packets lost, handlers that wait | the follower is on the transmitter's channel |
| vendor requests and control endpoint (`bluetooth_rxtx.c`, lpcusb) | the shared variables of the main loop; stage, residue and buffer of a control transfer | about 70 requests; setup, data, status stages | host, main loop | a transfer given up and the next begun; bus reset | host and device agree on what was done |
| bootloader (`dfu.cpp`, `flash.h`, `iap.cpp`, `bootloader.cpp`) | DFU state and status, flash, the RAM word `bootloader_ctrl` | seven DFU requests, erase and program, time out, reset | ubertooth-dfu | a failed or refused write, power loss, a killed host program, other programs | the bootloader survives; success means written |
| ubertooth-dfu | program counter, block, what is still asked for | enter DFU mode, upload, download, detach | bootloader | results ignored or misread | it ends, and says what it did |
| libubertooth (`ubertooth.c`, `ubertooth_fifo.c`, `ubertooth_control.c`, `ubertooth_callback.c`) | ring of packets, the transfer in flight, stop flags | submit, callback in the event thread, pop in the reader; one wrapper per request | device, tools | two threads without a lock; a transfer not resubmitted | a packet is read whole, once, in order |
| command line tools | options, what the device was asked for | a script of requests, a loop, a clean-up | libubertooth | interrupted anywhere; the mode the last tool left | the device runs with what was asked, and is left idle |

The rest (radio drivers, sync words, serial port, board support, test
firmwares, Kismet plugins) is listed with its reason in section 6 and in
`PROJECT.json`.

## 2. Modules

Each component has one module with the component's state as `VARIABLES`, one
action per operation and its properties; an `MC` module with the constants of
an instance; and where theorems exist a module of proofs. Just before some
definitions stands a *wrong variant* of it (`Full_whole` before `Full`): the
same definition with a plausible slip, a guard dropped or an order swapped. No
specification uses them. Put in place of the definition they vary, each makes
TLC report the property that names the slip, which is how the properties were
tried out.

| Module | Models | Uses |
|---|---|---|
| `BoundedFifo` | what a ring promises: an atomic FIFO with a capacity | - |
| `MsgQueue` | btbr's rings, one memory access at a time, in two contexts under PRIMASK | refines `BoundedFifo` |
| `ReliableLink` | what a connection promises: each direction delivers in order, once, and acknowledges what it delivered | - |
| `LinkLayer` | both ends of a BR/EDR connection over a radio channel | refines `ReliableLink` |
| `Btctl` | control, state modules, tasks and scheduler of one btbr device, with its host | - |
| `MessagePipe` | what the message transport promises in one direction | - |
| `BtrUsb` | btbr's buffers, queues, USB packets and main loop, and ubtbr's reader and writer | refines `MessagePipe` both ways |
| `BtrAfh` | instant timers and the change of channel map, with the master's announcements | - |
| `Codec` | headers and payloads to bits on air and back | - |
| `HopSelection` | hop selection of both firmwares | - |
| `BtrHost` | ubtbr's commands, threads and prompt | - |
| `Lmp` | link set-up between ubtbr and another device | - |
| `LePhy` | LE connection following in the sniffer, and a connection on the air | - |
| `LePromisc` | LE promiscuous mode, and a connection it did not see begin | - |
| `VendorRequests` | what each vendor request does to the sniffer's shared variables, as operators | - |
| `Rxtx` | the sniffer's main loop: modes, symbol stream, USB queue, interrupts | `VendorRequests` |
| `ClockTrim` | the sniffer's clock and the host that trims it | - |
| `AfhMap` | finding a piconet's channels, device and host | - |
| `Ego` | ego mode and the transmitter it follows | - |
| `HostCommands` | libubertooth's control requests, as records | - |
| `UsbControl` | a control transfer through lpcusb, from wrapper to handler and back | `VendorRequests`, `HostCommands` |
| `HostStream` | libubertooth's ring of packets, event thread and main thread | - |
| `Tools` | the command line tools as scripts, one after another, against the main loop | `VendorRequests`, `HostCommands` |
| `Dfu` | bootloader, flash, USB control pipe and ubertooth-dfu | - |

Components that are small, or alike in what they need of a run, are checked
together: `MCBtbr`, `MCSignals`, `MCHosts` and `MCRequests` have a variable
`part`, chosen in the initial state. A behaviour is then a behaviour of one
component, with the variables of the others resting in one initial state, and a
property reads `part = "usb" => ...`. `MCLePhy` has `setting` in the same way:
`LePhy` under two sets of constants. Nothing is composed by this; it only saves
starting TLC once per component.

### MsgQueue

`msg_enqueue` and `msg_dequeue` are each split where an interrupt can come:
`irq_save_disable`, the test of full or empty, the slot, the index,
`irq_restore`. `ctx` holds one record per context, `Main` and `Irq`; the main
loop takes a step only while no interrupt is active, and `primask` keeps the
interrupt from starting. `EnterSection`/`LeaveSection` are `console_flush`,
which masks interrupts around several operations: the inner restore must not
unmask. A message is a model value.

### LinkLayer

`ll[e]` is `link_layer_t` at end `e` (`"master"` or `"slave"`) with its ACL queue,
prepared packet and task; `air` is the packet of the current slot. The master
sends in its slot and the slave answers in the next; `Tick` advances the clock by a
frame. `RxPacket` is `ll_process_rx` from line 42 to 169, with one operator for each
decision (`IsAck`, `IsDuplicate`, `IsNew`, `ArqnAfter`, ...); `RxNothing`,
`RxTimeout`, `RxCanceled`, `RxForeign` and `RxDie` are its other exits. A packet
is its type, SEQN, ARQN and message; the channel loses it, damages its payload,
or delivers it. Responses of state changes take room in `tx_q` (`TxqHeard`,
`state_resp`); console output does not, and is left out. `Connect` happens when both
ends' tasks are off, as `btctl_set_state` requires; `ConnectSlaveOnly` is a slave
whose last answer the master never heard. `sent`, `rcvd` and `acked` are history,
read by properties alone.

### Btctl

A tick is half a slot (312.5 us). `agenda` is the ring of buckets relative to the
current one, so advancing rotates it; an item is a task step with its arguments
and priority. `TickStart` is the timer interrupt up to `tdma_sched_execute`, which
sorts the bucket: the code's exchange sort is not stable, so `Sorted` is any
arrangement by priority; then each item of the bucket is an action (`tx_prepare` ...
`scan_wait_more`), including those that earlier items add to the same bucket; a
reception ends in the callback of the state module that asked for it (`call`).
`TickEnd` advances. The main loop, the host and the deadline act between ticks
only, as the interrupt cannot be seen half done from there; the exception is the
one the code has, a bucket number read just before the interrupt advances it,
which schedules one tick early (`early`).

The radio is nondeterministic: nothing, an ID, a packet of any type, good, header
only, or damaged, of 1 or 5 slots. `btphy_cur_clkn` is kept modulo 4, which is all
that slots and parity use; the deadline of a search is `expired`, set by `Expire`.
A reason in `died` is DIE: the firmware prints and halts, so nothing is enabled after it and
deadlock is not checked in these runs. The host follows `btctl.py`: it starts a
command, may stop it, and reads responses until STANDBY.

### BtrUsb and MessagePipe

A message is its number, its size and its kind; a packet of it is its first part
(`Start`, four bytes of header) or a later one (`Cont`, one). Every place that can hold a
buffer is a variable: the partial message in either direction, the queues, the
message being handled, the ACL queue, the receive task's, the console's. `free` counts
the rest, and an allocation that finds none is `die`, after which the device only sends
its last words (`usb_send_sync`, past all queues). `usb_work`, `btctl_work`, `console_flush` and
`rx_task` take their steps in any order. On the host, `_send_usb` cuts the next packet off the message it
is `writing` until nothing is left, and the reader joins what it reads. `MessagePipe` says what both directions
promise: numbered messages, handed over whole and lowest number first; the one towards the device may lose whole
messages, as a full queue does there. An answer of the device that finds its queue full was never posted.

### BtrAfh

`timers` and `count` are `btphy_timers`; `btphy_timers_execute` (called in the clock
interrupt) scans them with the code's loop, whose bound it lowers as it goes. The
master announces a map with its instant; `lmp.py` hands it to the device, whose handler keeps it in
one static buffer. A connection may end and another begin at any tick: the
clock is then the new master's and the timers are what they were. `spoiled`
records the two cases the code leaves open, a request that comes after its instant and a timer of
an earlier connection.

### Codec

Transmission and reception as the interrupts do them: header, then payload in
chunks of `CODEC_TX_CHUNK_SIZE` and `CODEC_RX_CHUNK_SIZE` bytes, with whitening, CRC and FEC state carried from one to the
next. `Flip` inverts chosen bits on the air. The lookup tables of the code are
defined by what they hold (`whiten_state_tbl`, `crc_tbl`, `hec_tbl`, `fec23_tbl`). `Junk` is what the sender's
stack holds behind a chunk.

### HopSelection

A state is a question: address, clock, map. Both programs' selection are operators, with
the five-bit permutation as the loop of `bluetooth.c` and as the two tables of
`perm5.c`; btbr's sum is kept in a byte, as in `hop.c`. The single
action is asking the next question.

### BtrHost and Lmp

`BtrHost` has a thread of the prompt, one of the command, one of a discoverable command that
alternates two, and the reader; each step is one call that another thread can
come between. The device is reduced to what the host sees of `btctl.c`: a state, left and entered with an answer.
`Lmp` is `lmp.py` at one end and any device at the other that answers what it is
asked and completes the set-up when nothing is open; `Refused` says what it
may refuse. The link below is reliable, which `LinkLayer` shows.

### VendorRequests and Rxtx

`VendorRequests` is `vendor_request_handler` as an operator: from a request and the record `d` of
the shared variables to the return value, the new `d` and the
length answered. `Rxtx`, `Tools` and `UsbControl` all use it.

`Rxtx` is `main` and the functions it calls, as a program counter: the `switch`
over `requested_mode`, `bt_stream_rx` with a step for each access that an interrupt can come
between (wait, stamp, copy of the first and of the other bytes, enqueue, retune), and the other modes by
the loops they wait in. `legacy_DMA_IRQHandler`, `EINT3_IRQHandler` (carrier), `TIMER0_IRQHandler` (hop) and
`USB_IRQHandler` come between any two. A block of symbols has no number: a packet knows
by how many blocks its parts are behind the newest. The USB queue is a sequence of packets, of which only kind and
whether they are of an earlier mode are kept; `bulk` is the endpoint's two buffers. The host makes the
requests of `Script`, one set per step. `race` and `dirty` mark the packets that an interrupt hit in one of the two windows
the code leaves open.

### LePhy

Three contexts: the DMA handler, TIMER1, which interrupts it, and the main loop,
which both interrupt. `buf` is the pool; a buffer is owned by the DMA handler
(`current_rxbuf`), by `packet_queue`, by the main loop (`packet`), or free. The
code's DMA handler runs once per byte. Only two of those runs matter here: the first
byte (`le_DMA_first_byte` cancels the hop) and the last, which is split in two,
`le_DMA_last_byte` up to `queue_insert` and `le_DMA_next_buffer` after it, because
TIMER1 may come in between (`isr`). The TIMER1 handler is one action per match and
branch: `mr0` opens and closes connection events, `mr2` waits for the synthesiser,
`mr3` retries `buffer_get`. `finish_conn_event` is called from both handlers and
is one operator: it settles the anchor (`Observed`, `Estimated`), counts the event,
and then times out, is cancelled, or sets the next hop. The main loop's handlers are
`packet_handler` and what it calls; `channel_map_update_handler` has two steps because
it marks the update pending before it stores its instant.

Time is in units of 10 us, and every point in time is kept as its distance from now:
ahead for a match (`mr0`), back for a timestamp (`last_anchor`). `Pass` lets time
go on to the next thing due. A match set in the past never fires in this model (`Past`);
in the code it fires when the counter wraps, 429 s later.

The air is a connection (`link`) with its own event counter, channel, map and
procedures, whose packets may go unheard, and advertisers. `Anchor` and `Reply` are its
master and slave. `Unheard` says whether packets may be lost before the sniffer
knows an anchor, after, or both. Writing through a NULL buffer lands in the vector
table, in flash: `fault` becomes `"null"`, and from then on the processor may
fault (`Halt`).

Deliberately narrow: an event has at most two packets (with three, and the first
unheard, the sniffer takes the slave's packet for the anchor: FIXME at `le_phy.c:225`);
and a request for a connection comes only when none is on.

### LePromisc

`bt_generic_le` counts access addresses, `bt_le_sync` runs one callback per stage: `promisc_follow_cb` and the
recoveries of CRC, interval and increment. The connection on the air has all 37
data channels, its own interval, increment and updates; some of its packets are not heard. Time is in
units of 1.25 ms and `CLK100NS` starts again at `WRAP`, by which `ROLLOVER` is
added in the code.

### ClockTrim, AfhMap

`ClockTrim`: the tick of the device with trim and drift correction (`TIMER0_IRQHandler`),
a master that is a little fast or slow, packets under way to the host (`pipe`) and
requests under way back (`cmds`); `cb_rx` decides. `AfhMap`: `hop` over the
channels, in use or not, and the callbacks `cb_afh_initial`, `cb_afh_monitor` and `cb_afh_r`.

### Ego

One action per state handler of `ego.c`; a handler that waits (for the
synthesizer, for bytes, for the radio to warm up) is in `doing` and time passes meanwhile. The transmitter hops
over the four channels in its own period.

### HostCommands and UsbControl

`HostCommands` is the set of wrappers of `ubertooth_control.c` as records: opcode,
direction, values, length, and how many bytes of the answer the wrapper goes
on to use. `UsbControl` carries one through: SETUP, data and status packets, the
endpoint's single buffers, `USBHandleControlTransfer` with `iResidue` and `pbData`, standard requests, the answer to Windows's
vendor request, the handler's result, and the wrapper's reading of it. The main loop polls
`USBHwISR`, so events wait; the host may give up a transfer and begin the next one
meanwhile, and the bus may be reset.

### HostStream

The event thread (`poll_thread_main`, `cb_xfer`) and the main thread (`ubertooth_bulk_receive`, `fifo_pop`) share `fifo`
without a lock; every access the other can come between is a step. `xfer` is the transfer, submitted, in
flight, or ended in one of the ways `cb_xfer` tells apart with its callback still due. Packets
are numbered as the device sends them. `lossy` says that the ring has been
full: from there on a packet may be discarded, or written over as it is taken.

### Tools

A tool is a sequence of steps (`Ask` a request, `Try` a call, `Do` a loop or a
join), obtained from its options by an operator named after it (`rx`, `follow`, `btle`, ...). A step
either must succeed or may fail. Signals and alarms come at any step; SIGKILL ends a tool without its clean-up.
The device is `VendorRequests` and the mode function it is in, and one tool is followed by another.

### Dfu

One action per DFU request; `dnload` has three (last packet, refused, written) and a
fourth in which the flash fails. Flash is a function from blocks of 256 bytes to
their content: `"boot"`, `"blank"`, `"old"`, a block of the image, or `"mixed"`,
which is a block programmed without being blank. `SectorStarts` gives the erase
sectors, and `Flash::write` erases a sector when its first block is written. The
bus is a pipe with at most one control transfer: `Idle`, a question, an answer
(`ok`, a stall, an error). `running` says what the device does: `"dfu"` (the
bootloader), `"app"`, `"reset"` or `"off"`; `bootloader_ctrl` is the word of RAM that survives a reset and not a loss
of power; the jumper is the other way into the bootloader. The tool is its
program counter: `enter_dfu_mode` (a loop over DFU states), `upload`, `download`,
`detach`, each step the control transfer of the code.

The environment loses transfers (at most `MaxLost`, flash failures included),
kills the tool (`MaxKills`), unplugs the device at any point, in the middle of a
sector too, moves the jumper, and sends requests of another program while
the tool is idle (`OtherRequest`, blocks `OtherBlocks`). The part is taken to be the
512K one, whose flash is exactly the range `valid_address` accepts.

## 3. Runs

Numbers are distinct states.

| Run | Configuration | Properties | States |
|---|---|---|---|
| `btbr` | `MCBtbr.cfg` | `CheckedStaysTrue`, `TasksNeverCollide`, `StandbyIsQuiet`, `BuffersKept`, `NothingStuck`, `MapWithMaster`, `ImplementsFifo`, `MessagesWhole` | 2,623,187 |
| `btctl_live` | `MCBtctlLive.cfg` | `SearchEnds`, `StopAnswered` | 315,958 |
| `btctl_halt` | `MCBtctlHalt.cfg` | `NeverHalts` (violated) | - |
| `link_layer` | `MCLinkLayer.cfg` | `NothingLost`, `ImplementsReliableLink` | 3,277,908 |
| `link_layer_live` | `MCLinkLayerLive.cfg` | `Delivered`, `BothLeave` | 48,318 |
| `rxtx` | `MCRxtx.cfg` | `PacketsTrue`, `OldFirst`, `StopObeyed` | 1,933,126 |
| `le_phy_busy` | `MCLePhyBusy.cfg` | `OneOwner`, `EveryBufferOwned`, `ConnectionGivenUp` | 744,486 |
| `signals` | `MCSignals.cfg` | `PromiscInStep`, `GivenUp`, `FollowerInStep`, `HopsAgree`, `PacketArrives`, `Follows`, `TrimLands` | 2,910,170 |
| `hosts` | `MCHosts.cfg` | `EveryPacket`, `StreamServed`, `MapRight`, `CommandsEnd`, `SetupEnds` | 68,821 |
| `requests` | `MCRequests.cfg` | `AsAsked`, `ReplyHonest`, `SignalEnds`, `TransferEnds` | 242,786 |
| `dfu` | `MCDfu.cfg` | `BootKept`, `SuccessIfFaultless`, `ToolEnds`, `ResetRunsApp` | 1,619,646 |
| `dfu_written` | `MCDfuWritten.cfg` | `SuccessMeansWritten` (violated) | - |

### What the properties say

*btbr.* `CheckedStaysTrue`: between its check and its index update, what a ring
operation checked still holds. `ImplementsFifo`: the ring is `BoundedFifo` of size - 1, with the index update
as the point of change. `TasksNeverCollide`: no task finds its predecessor's packet (DIE in the code), transmissions
start in the slot of their role, an item that runs finds the radio tuned for it, and no full bucket drops an item. `StandbyIsQuiet`: in STANDBY nothing is scheduled
and the radio is idle; in any other state something is, but for the one branch named `Stalled`. `BuffersKept`: free
and held buffers add up to the pool. `MessagesWhole`: either direction of the transport implements `MessagePipe`.
`NothingStuck`: with a message under way some step of device or host is enabled. `MapWithMaster`:
unless `spoiled`, the device's map is the piconet's at every tick.

*btctl_live.* `SearchEnds`: inquiry, paging and the scans end in STANDBY or a connection.
`StopAnswered`: a host that stopped a command reads STANDBY.

*link_layer, link_layer_live.* `NothingLost`: an accepted message is acknowledged, current or queued
while the link is up. `ImplementsReliableLink`: seen from the hosts there is no ARQ: in order, at most once,
acknowledged only when delivered. `Delivered`: a message accepted while
connected arrives or the connection ends. `BothLeave`: when one end leaves, so does the other.

*rxtx.* `PacketsTrue`: a packet of symbols is one block with its own time stamp; one that saw a retune says so, one
after lost blocks says so; exempt are packets hit by an interrupt in two named windows.
`OldFirst`: after a mode starts its stream the host reads at most three packets of before, and those first. `StopObeyed`: STOP ends
every mode but those that do not look (`Deaf`).

*le_phy_busy.* `OneOwner`, `EveryBufferOwned`: no buffer has two owners, and none is lost by
all, even when the pool runs dry or the mode is left and entered again. `ConnectionGivenUp`: a connection
that ends while it is followed is given up.

*signals.* `PromiscInStep`: promiscuous mode is on the connection's channel at each event once its interval is right.
`GivenUp`: it gives a silent connection up. `FollowerInStep`: the same of `LePhy` once an anchor is known, with its event counter; a map update is applied
in the event of its instant; and no handler writes through an empty pool's NULL as long as the main loop keeps up. `HopsAgree`: the two firmwares hop
alike, and with a map only to its channels. `PacketArrives`: a packet with no more errors than its codes
correct arrives, and a worse one is noticed. `Follows`: ego mode listens where the transmitter sends. `TrimLands`: a trim leaves the clock within tolerance.

*hosts.* `EveryPacket`: the tool gets each packet once and in order until the ring was full. `StreamServed`: a stream goes on to the last packet, and a signal closes
the device. `MapRight`: the host's map comes to hold what the piconet uses, and loses what it has left. `CommandsEnd`: a stopped command
gives the prompt back, and leaves nothing of itself to the next. `SetupEnds`: both ends complete the set-up.

*requests.* `AsAsked`: while a tool receives, the device runs with the settings the tool asked for.
`SignalEnds`: one signal ends a tool (but for the first phase of ubertooth-afh with a time limit), and a device found idle is left idle. `ReplyHonest`: a transfer that
succeeded ran its handler once, and what the host reads is its own answer, whole. `TransferEnds`: a transfer ends without its timeout.

*dfu.* `BootKept`: the bootloader's blocks never change. `SuccessIfFaultless`: a download that ends without an error, and met no
fault, has written the image, whatever state the device was in before. `ToolEnds`: the tool ends unless the device it opened has gone.
`ResetRunsApp`: a reset leads to the application, unless the jumper is in or the power goes.

### Bounds, and why they are enough

| Module | Bounds | Why |
|---|---|---|
| `MsgQueue` | four slots (eight), two messages | empty, partly full, full and every wrap; the theorems hold for every size |
| `Btctl` | `PacketSlots` {1, 5} | the extremes; buckets, items and window are the code's. `DRAIN` 29 is what the thirty-step wait of `btctl_handle_idle_req` guarantees; the longest tail is 27, and the theorems hold for every ring, window and wait that `FirmwareAssumption` allows. The liveness run shortens window and wait together |
| `BtrUsb` | packets of 6 bytes (64), 3 buffers (16), queues of 2 (7), sizes {2, 8}, 2 messages down, 3 up, 1 reset, 4 in all | a message in one packet and in several; queues and pool both run out; a message is cut by another and by a reset |
| `BtrAfh` | 3 timers (10), 2 maps, 3 ticks ahead, 11 ticks | timers run out, several connections fall into 11 ticks |
| `LinkLayer` | three messages and one, queues of one, supervision after one silent frame | the sequence bit has two values, so the third message repeats the first one's; reconnections are unlimited |
| `Rxtx` | ring of 3 (128), one packet per sweep, two requests after one another, losses counted to 2 and 3 | the ring fills; every mode is met by every kind of request; the theorems hold for every ring and every script |
| `LePhy` busy | 2 buffers (4), 2 packets per event, interval 7.5 ms, main loop up to 8 ms late, one channel | the pool runs dry; counters play no part in ownership |
| `LePhy` leaving | interval 40 ms, 3 event numbers, a map update | an event, an instant, and supervision (100 ms) overlap in all ways |
| `LePhy` in step | 3 buffers, 3 channels and event numbers, interval 40 to 50 ms, both procedures, window at 1.25 ms | a slip of one or two events is seen; `Instant` 2 leaves one whole event before the instant |
| `LePromisc` | 2 addresses listed (32), intervals 6, 7 and 9, increments 5 and 16, clock restarting at 4000 (262144), 250 events, one loss | the clock restarts during recovery and during following; every stage meets a loss |
| `ClockTrim` | tick of 8 (3125), 22 ticks, three packets heard during a trim | more than three over-correct (section 4) |
| `Ego` | 3 ticks a millisecond, clock restarting at 70, two packets lost in a row, one unheard at the start | finer than the waits of the handlers; the clock restarts often |
| `Codec` | chunks of 20 and 10 bytes (80, 10), every packet type with lengths around words and chunks, errors in one word and in all | chunk ends fall at every offset of a word |
| `HopSelection` | 8 addresses, 128 clocks over all fields, 3 maps | it is a function; fields with carries, small and large sums |
| `HostStream` | ring of 3, 7 packets, 2 failures | the ring fills and wraps twice; the theorems hold for every size |
| `AfhMap` | 5 channels (79), counter of 3, one packet and one request under way | a step over used and unused channels comes round |
| `Lmp` | nothing refused | a refusal of ubtbr's own request is never acted on (section 4) |
| `Tools` | one fault; every tool, then one of seven | the second needs the device as it was |
| `UsbControl` | every wrapper and standard request, then one of six; one timeout, one bus reset | the second differs in direction and length |
| `Dfu` | two blocks of bootloader, three of application in two sectors; one fault, one kill | an image crosses a sector boundary and has blocks that are first in their sector and one that is not |

Deadlock is checked for `LinkLayer` and `Dfu`. Elsewhere the system may stop: the
firmware halts (`die`), a host program has ended, a budget of messages is used
up, or a sniffer has nothing armed and nothing on the air.

### Fairness

**LinkLayer**: weak fairness of the clock and of the turn (the clock is
hardware), strong fairness of a transmission and of a *good* reception (a channel
that damages every packet from some time on delivers nothing, and the supervision
timeout covers it), weak fairness of the host's reader. Nothing is assumed of the
host's commands.

**Btctl**: weak fairness of the interrupt; strong fairness of the main loop, of the
deadline and of the host's reader, which are enabled between ticks only, infinitely often and
not continuously; strong fairness of a reception that is not an FHS, since a
scanner that hears an FHS in every window for ever is outside what a timeout can
end.

**Rxtx**: weak fairness of the main loop, of the DMA interrupt (symbols come while the radio is on) and of the
carrier interrupt. **LePhy**: weak fairness of both interrupts, of the main loop and of time; a
packet that has begun ends, and a connection that is on sends. Nothing obliges
a connection to begin, to be heard, or to end.

**HostStream**: the two threads run, the event loop returns within a second, and a device told to stream sends (strong, because
transfers time out in between). **AfhMap**: the device's loop and timer, requests and callbacks; and a piconet
uses each of its channels again and again (strong). **BtrHost**, **Lmp**: threads run, searches time out, the other device goes on. A link is not
obliged to end. **Tools**, **UsbControl**: main loop, ends of modes, the tool; the host controller and the polling of `USBHwISR`.

**Dfu**: weak fairness of the device's steps, of the tool's steps, and of the
bootloader's timeout. Faults, unplugging, the jumper and other programs are
not fair; they are bounded or free.

## 4. What the checks found

Two runs are expected to be violated, and TLC's counterexample is the scenario.

1. **A stop can halt btbr** (`btctl_halt`, `NeverHalts`). `page_scan_tx_cb`
   (`page_scan_state.c:55`) and `start_monitor2` (`monitor1_state.c:55`) do not
   ask whether the scan was cancelled, as every other callback does. An idle
   request served in the few ticks between the FHS and the ID(3) sets STANDBY; the
   callback then asks for CONNECTED, which is an invalid transition, and the firmware
   halts. `src/host/python/ubtbr/README.md:34` says a command can be stopped with Ctrl+C.
2. **ubertooth-dfu reports success for a download that was not written**
   (`dfu_written`, `SuccessMeansWritten`). A stalled DNLOAD is taken for "control
   message unsupported" and passed over (`ubertooth-dfu.c:355`); the status read
   afterwards is not looked at.

Also met while modelling, by reading or with constants other than those of the runs kept.

LE following:

- A connection that was never heard is never given up: `finish_conn_event` (`le_phy.c:264`) takes the stale anchor, renews the
  time of the last packet, and sets the next hop in the past, where `host/doc/ubertooth-btle.md:28` says Ubertooth returns to the advertising channel.
  The same happens after an update, which forgets the anchor at its instant (`le_phy.c:605`). `ConnectionGivenUp` leaves updates out for that reason.
- After the timeout of an event the radio still receives; a late reply to a long packet
  (`Durations = {8, 209}`) cancels the next hop (`le_phy.c:331`) and closes an event that was
  not opened (`le_phy.c:652`), and the counter is one off.
- A first hop between `queue_insert` and `buffer_get` clears the packet just queued, which is
  still `current_rxbuf` (`le_phy.c:359`; `Advertised = {"adv", "connect"}`, `MaxLag = 100`).
- `le_phy_main` (`le_phy.c:967`) and `le_connect_handler` leave `channel_idx` and the event
  counter of the last connection to the next one, when the mode was left while following.
- An update still queued when its connection is cancelled is handled after the reset and stays
  pending in the cleared struct (`le_phy.c:869`).
- After an update to a shorter interval the window's timeout is computed from the new interval and
  the last anchor (`le_phy.c:613`), and may lie in the past.
- MR3 stays enabled once a buffer was found (`le_phy.c:695`; `timer1_cancel_wait_buffer` has no
  caller). It matches again when the counter wraps and replaces `current_rxbuf`, which no one owns
  any more. The wrap itself is outside the model.
- Promiscuous mode: `smallest_hop_interval` never grows, so a short first interval, of two packets of one event, is taken for the connection's
  (`bluetooth_rxtx.c:2176`). `PromiscInStep` speaks of a connection whose interval was recovered rightly.

Symbol stream, modes, clock:

- STOP is not seen in generic reception (`rx_generic_sync` loops for ever, `bluetooth_rxtx.c:2432`), in the repeater, in a range test that gets no reply, nor in the
  analysers when entered with the synthesizer locked. The modes SPECAN, LED_SPECAN and BT_SLAVE_LE leave `mode` unchanged, so a second TX_GENERIC is
  not entered and `cc2400_idle` is not run after STOP.
- Promiscuous mode ends in `cc2400_idle`, which drops a request made meanwhile.
- More than three packets heard before a trim takes effect over-correct; a trim after an offset below `CLK_TUNE_TIME` can be a negative number sent as a
  `uint16_t`; START_HOPPING cancels a trim that is pending.
- `next_hop` with a map reads `afh_bank`, which nothing fills (`bluetooth.c:158`): always channel 0; with a map sent after the address, `used_channels` is 0 and it divides by it.
  SET_AFHMAP leaves `used_channels` 0, so that with a full map `hop` never ends (`bluetooth_rxtx.c:1287`).
- btbr's hop kernel sums in a byte (`hop.c:67`) and differs from the other firmware for addresses whose E is above 114. `HopsAgree` excepts sums that do not fit.
- Time stamps are extended as if the clock restarted at 2^32, while it does at 3276800000.
- Ego mode: `enqueue_with_ts` advances the tail before it fills the entry; a follower that is not in step cycles through the channels in the
  transmitter's own period, so only lag brings it there.

Host programs:

- rx_afh with a time limit: one signal ends only the first phase, and `stop_ubertooth = 0` may lose one (`SignalEnds` excepts the first phase).
- A tool that follows one killed in promiscuous mode has its first settings wiped as that mode ends (`AsAsked` excepts it); so has one after a range test.
- ubertooth-btle `-f` with `-a`, `-v` or `-s` uses its handle after `ubertooth_stop` closed it (`ubertooth-btle.c:358`).
- ubertooth-dfu does not end when its device goes: the negative result of a failed transfer
  becomes a `uint8_t` that matches no case (`ubertooth-dfu.c:216`). `ToolEnds` excepts it.
- A jumpered device never runs its application: after the timeout `main` resets
  (`bootloader.cpp:297`) and the jumper leads into the bootloader again, where
  `bootloader/README:28-32` says the application runs. `ResetRunsApp` excepts it.

btbr and ubtbr:

- A state answer, a host's message or a sent ACL packet that finds its queue full is neither queued nor freed (`overflow`); the pool of 16 serves three
  queues of 7 each, and the device stops when it is empty.
- A host killed in mid-message leaves `rx_msg` to the next session, whose first packet stops the device; a reader closed between two packets fails the next session's
  assertion (`btctl.py:804`). Neither is in a run.
- A command stopped before its thread has sent its request sends idle first, and runs on (`early` in `BtrHost`). A discoverable command has no `done()`, which the prompt
  calls; `x` and `q` call `do_exit` without its argument.
- `lmp.py`: a refused request is ignored, so the set-up waits for ever; there is no handler of an encryption key size mask request.
- `timers_execute` stops early when it serves a timer; timers are forgotten at start-up only; one static buffer holds the map of all of them (`btctl.c:142`).
- Codec: `fec23` writes half as many words again as there are (`bitstream_proc.c:390`); FEC 2/3 payloads of more than one chunk get bits of
  the stack ORed into their first byte (`Overrun`); `air_bytes` cuts check bits of the last word (`codec.c:95`; `TailCut`). `PacketArrives` excepts the last two.

## 5. Proofs

tlapm checks every proof to its last leaf, with Z3, Zenon and LS4. The constants are bounded by
named assumptions alone, which TLC evaluates in the runs too:

| Assumption | Says |
|---|---|
| `QueueAssumption` of `MsgQueue` | a ring has at least one slot; `NULL` is no message; the contexts are two |
| `BtctlAssumption`, `FirmwareAssumption` of `Btctl` | a bucket holds four items or more and the ring eleven buckets or more (four and sixteen in `tdma_sched.h:13`); the idle handler waits for the longest chain of tasks that a stop can find (`Air` is the longest reception: at least `Air` + 12, 2 `Air` + 7 and `Air` plus the scan window plus 8 ticks; the code's numbers make 22, 27 and 26 of 29) |
| `LinkAssumption`, `NoPktAssumption` of `LinkLayer` | queues hold at least one message; timeout and budgets are natural numbers; `NULL` is no message, `NoPkt` no packet |
| `FlashAssumption`, `AskedAssumption`, `BoundsAssumption` of `Dfu` | a sector begins where the bootloader ends; the image is not empty and fits behind it; the tool is asked for something; blocks named are of the flash |
| `LePhyAssumption` | `NULL` is no buffer; counts and times are natural numbers |
| `HostStreamAssumption` | the ring has two elements or more |
| `PromiscAssumption` of `LePromisc` | clocks and times are natural numbers; an interval, the timer's range and the clock's are at least one |
| `EgoAssumption` of `Ego` | the transmitter sends every 11 ms (`ego.c:275`); the clock's range exceeds the longest sleep; the 6 ms after a packet, its reception, the lock and two ticks of lateness for each packet lost fit into 11 ms |
| `RxtxAssumption` | the ring has two entries or more; the script's values are 16-bit words |
| `BtrUsbAssumption` | a packet has room behind its header of four bytes; messages are not empty |
| `ControlAssumption` of `UsbControl` | arguments are 16-bit words; the script's steps are sets of requests of the host |
| `ScriptsAssumption` of `Tools` | the order in which tools ask (`Orderly`), see Requests_proofs below |

An empty message is ruled out in `BtrUsb` because every message of `btctl_intf.h` begins with its type.

| Module | Theorems |
|---|---|
| `Btbr_proofs` | of `MsgQueue`: `TypeCorrect`, `ExclusionHolds`, `CheckedHolds`, `RingImplementsFifo`; of `BtrUsb`: `FramesMatch`, `MessagesArriveWhole`, `NoBufferLeaks`; of `Btctl`: `TheTasksNeverCollide`, `StandbyStaysQuiet` |
| `LinkLayer_proofs` | `TypeCorrect`, `LinkInvHolds`, `InOrder`, `AckedDelivered`, `NoLoss`, `LinkImplementsReliable` |
| `LePhy_proofs` | `PoolOwnership`, `NoBufferLost` |
| `Rxtx_proofs` | of `Rxtx`: `RxtxTypes`, `OldPacketsFirst`, `SymbolPacketsTrue`; of `HostStream`: `StreamTypes`, `NoPacketMissed` |
| `Followers_proofs` | of `LePromisc`: `GivesUp`; of `Ego`: `KeepsUp` |
| `Dfu_proofs` | `TypeCorrect`, `BootKeptHolds`, `StatusHolds`, `DownloadsWrite` |
| `VendorRequests_proofs` | lemmas on the request handler, which `Rxtx_proofs` and `Requests_proofs` share |
| `Requests_proofs` | `RepliesAreHonest`, `SettingsAsAsked` |

The properties that the runs check and these theorems state are `CheckedStaysTrue`, `ImplementsFifo`, `NothingLost`,
`ImplementsReliableLink`, `MessagesWhole`, `BuffersKept`, `OneOwner`, `EveryBufferOwned`, `PacketsTrue`, `OldFirst`,
`EveryPacket`, `GivenUp`, `Follows`, `BootKept`, `SuccessIfFaultless`, `ReplyHonest`, `AsAsked`, `TasksNeverCollide` and `StandbyIsQuiet`. `InOrderOnce`, `AckedOnlyIfDelivered`, `LinkInv`, `Exclusion`, `StatusHonest`
and the type invariants are proved and in no run of their own: they are implied by, or part of, an invariant that is.

### Btbr_proofs: the ring

The invariant adds to the type which program counters can coexist under which `primask` (exclusion), and
what each program counter knows: after the test, that the ring is not full; after the
slot is written, that it holds the message. With exclusion, nobody else moves an index
meanwhile, so the knowledge is stable. The refinement maps the FIFO to the messages
between `head` and `tail` modulo the size; the two index updates are its steps,
everything else stutters.

### LinkLayer_proofs

`InOrderOnce` alone is not inductive: a repetition is harmless only because of what the
two bits say. `LinkInv` says it: for each direction, the sender's bit differs from the
last bit the receiver took exactly when the current message is undelivered;
an acknowledgement pending at the receiver or on the air speaks of the current
message; delivered is acknowledged, or acknowledged plus the current one. From it
`InOrder`, `AckedDelivered`, `NoLoss` follow, and `LinkImplementsReliable`: each step is
a step of `ReliableLink` (send, deliver, acknowledge, reset) or a stutter.

### Btbr_proofs: messages over USB

What must hold between a sender that cuts and a receiver that joins, while packets wait in
the endpoint, is `Chain(pos, s, end)`: a reader that stands at `pos` is given by each packet of `s`
exactly what it expects there, and after the last one stands at `end`. The invariant says that the reader stands
where the sender has got to, less the packets between them (`Sent`, `Got`): so much is inductive, and from it neither
the framing check of `usb_bulk_out_handler` nor an assertion of `_rx_thread_main` ever fails (`FramesMatch`).
Console lines fit anywhere and move nobody. Towards the device the chain is broken when the pool runs out, but then
the device has stopped.

For the order, messages are taken as sets by their place (in a queue, begun in the endpoint, under way at either end): each place is
`Before` the next, numbers rise in every queue, and the newest number is the number posted. A step moves a
message from one place to the next one, and the refinement does not see it; a step that completes one takes the lowest
number out (`FirstOfAll`); one that finds a queue full, or the pool empty, takes out one message, whole: at that moment it is in one place only,
as the sender has cut the last of it or the device stops for good.

`NoBufferLeaks` needs the types and the chain too: that `rx_msg` keeps its buffer as long as a message is under way is true because
a packet that fits never leaves a message with nothing in it. The sum is proved in three parts, which the provers can add.

### Btbr_proofs: the control

Sixteen buckets could hold anything; what makes the agenda tractable is that it never holds more than the rest of one chain of
tasks. `Pend` is the set of items still to run, each with the ticks until it is due, whatever order a bucket has; `TaskChain` lists
the patterns it can have: nothing (`Rest`), a callback about to be entered (`Calling`), a search about to begin (`Waits`), a scan that
listens (`Scans`), and a transmission, a reception, or both, in each of their stages (`TxReady`, `TxGoes`, `TxEnds`, ...). Every pattern says what goes with it: which
task holds a packet or a buffer, for whom the radio is tuned, that the callback at its end serves the present state or a cancelled one
(`For`), where the transmission falls modulo four ticks (`On`), and within how many ticks the chain ends if the state is
cancelled (`Soon`). Each task and callback leads from one pattern to one other (the lemmas `TxPrepareStep` to `SlaveTxDoneStep`); lemmas about the
scheduler alone (`ItemRuns`, `TickEnds`, `ItemAdded`, `SetAdded`) say what an item taken or added does to `Pend`, and that no bucket gets
a fourth item (`Orderly`, `NeverFull`).

The rest is the host. `Soon` fits the idle handler's wait because a cancelled chain starts no new one, but for what the callbacks that
do not look whether they were cancelled may add (`Then`); so when the handler has returned, `Rest` is all that is left (`Awaited`). A command is
taken in STANDBY only, since the host sends it when it has read the answer to the one before (`HostInv`: never a command and
an answer STANDBY under way at the same time). `FirmwareAssumption` is what the arithmetic needs of the code's numbers. The invariant was
checked by TLC, with the firmware's numbers and with those of `btctl_live`, before it was proved.

### LePhy_proofs

`PoolOwnership`: the invariant adds to
`OneOwner` that the main loop holds a packet exactly between `queue_remove` and
`buffer_release`: a restart between the two would otherwise free a buffer the main loop goes on
to release. Every action is one of six kinds: it keeps all owners (`KeepInv`; tuning clears
the current buffer without giving it away), gets a buffer that was free (`GetInv`), queues
(`AppendInv`), takes (`TakeInv`), releases (`ReleaseInv`) or starts anew (`RestartInv`).
`NoBufferLost` is the converse, that every buffer has an owner: a handler that takes a new current buffer
has passed the old one on before, or found none to have. It is here that the retry on MR3 matters, since it
must find `current_rxbuf` empty.
Ages, instants and times play no part, so both theorems hold of any interleaving, including
those the timing of the model excludes.

### Rxtx_proofs: the main loop

The invariant is `Types /\ Order /\ Stream`. `VendorRequests_proofs` says what a vendor request
can do to the shared variables, and every step the USB interrupt can take uses it. `OldPacketsFirst`: packets of the mode before are a prefix of what
the host will read, because the queue is emptied when a mode starts, but for the LE modes, and a packet being made
belongs to the mode that makes it; at most two are in the endpoint and one in the hand of the main loop. `SymbolPacketsTrue`:
without an interrupt in a window (`race = 0`) no swap falls into the copy, so its two parts are of one block;
while a buffer is being filled after a retune, either the retune is still to be
marked or the packet is discarded; and blocks lost are counted in `rx_tc` until the main loop
reports them, so that `since <= rx_tc` or the packet says FIFO_OVERFLOW.

### Rxtx_proofs: the host's ring

`NoPacketMissed`: as long as the ring was never full (`~lossy`) it has one free place besides what it holds, which are consecutive packet numbers; the
event thread writes the place behind them, the main thread the one it empties, and
neither index is moved by the other's thread. So a check made before the other thread moved remains true in the
direction it is used: what was not empty stays so for its only reader.

### Followers_proofs

`GivesUp`: `GivenUp` is not inductive, for a hop turn may come as late as the timer says. `PromiscInv` adds the time left on the timer:
quiet plus that never exceeds the timeout by more than an interval (the timer's whole range for an interval of 0 or 1, which half of it or one less
makes 0, and TIMER0 decrements before it compares). The timer is loaded in three places: at a hop, which comes only if the timeout is not over, and by two
packet handlers, which also end the quiet. What a handler may do to the timer is `Answers`, one lemma per `packet_cb`.

`KeepsUp`: once a packet has been heard the device is in one of six situations (`Tracks`), each with its place in the transmitter's
period: `Since` is the time since the last packet, `Slept` the time of the sleep or window, and in every one of them `Since - Slept` is within
an interval that only a lost packet moves, by two ticks at most. At the lower end the window of 7 ms is still open when the packet comes
(`WindowOpen`), at the upper end the receiver is already on (`ListensWhenDue`). Lateness is bounded because a turn with something to do is put off once;
`SleptTick` carries the sum across the clock's wrap.

### Dfu_proofs

`BootKeptHolds`: the address check protects blocks, an erase clears a
sector; the assumption that a sector begins at the bootloader's end closes the gap.
`StatusHolds`: status and state change together. `DownloadsWrite`: `SuccessIfFaultless` for every
image and layout. The invariant `DownloadInv` says that at block b of a download without
a fault all blocks before b hold the image and, if b is not the first of its
sector, b's sector has been erased from b on; `Joined` ties the tool's program counter to
the question in the pipe.

### VendorRequests_proofs

What one of the seventy requests can do to the shared variables is stated once. `HandlerHeeds`: it keeps mode and types, never takes
`discard` back, and only an LE request asks for an LE mode. `HandlerFrames`: each setting is written by the requests named
there and no other; a device asked to rest, to test its range or to be promiscuous was asked so by
the one request for it; a poll asks for nothing. `HandlerLengths`: an accepted request answers with as many bytes as the wrapper reads.

### Requests_proofs: control transfers

`RepliesAreHonest`: if libusb reports a transfer as whole, the handler accepted it, once, and its answer came in order, all the
wrapper reads and no more than it has room for. `ReplyHonest` says nothing of a transfer under way, so the invariant
`ControlInv` does: a SETUP packet not read yet has had no effect (`Waiting`); afterwards the firmware's request
is the caller's (`InHand`), and the transfer is in one of five situations (`Staged`): refused and the endpoint stalled, left by the device, on its way
in (`Receiving`: what is left of it plus the packet waiting is `iResidue`), on its way out (`Replying`: what came, what is in the endpoint
and `iResidue` make between `reads` and `n` bytes), or waiting for the empty status packet. Which packet is whose is the delicate part:
a SETUP that overtakes the interrupt of an earlier answer makes the firmware take that interrupt for its own; from then on `stale` holds and,
as in the property, nothing is said.
The wrappers and the handler meet in two lemmas, `RequestFacts` and `HandlerLengths`.

### Requests_proofs: tools

`SettingsAsAsked` is about `cc2400_idle`, which forgets modulation, jamming, channel and hopping when a mode ends, at a moment the host does not see.
It holds of any scripts in this order (`ScriptsAssumption`, which TLC evaluates for every tool and option of the runs): after STOP, RESET or FLASH a tool
writes a setting only by starting a mode, after a range test none; RESET and the rest do not follow a setting; and after `BTLE_PROMISC`
comes only a poll or STOP. The invariant `ToolInv` says where the device may be when it forgets: asked to rest and
not resting (`Resting`), in the range test or asked for it (`Ranging`), or leaving the promiscuous mode (`Promiscuous`), and that the tool wants nothing
of it then, as it has come past the request that brought it there. The rest is order: a request that would write a setting now would have to follow that one
in the script. Signals, refused requests that were served all the same, and kills only move the tool forward, past more requests (`Onward`).
The exception in `AsAsked` is the hypothesis of `Promiscuous`: a tool that found the device promiscuous did not ask for it.

### Only model-checked

- Liveness, which the installed provers cannot do under fairness: `SearchEnds`, `StopAnswered`, `Delivered`, `BothLeave`, `StopObeyed`,
  `ConnectionGivenUp`, `TrimLands`, `StreamServed`, `MapRight`, `CommandsEnd`, `SetupEnds`, `SignalEnds`, `TransferEnds`, `ToolEnds`, `ResetRunsApp`;
  and `NothingStuck`, which says ENABLED.
- `PacketArrives`, `HopsAgree` and `MapWithMaster`: their modules compute with recursive operators, for which there is no proof by induction here.
- `PromiscInStep`, `FollowerInStep`: no proof. They need an invariant on two devices' clocks and the table of hop increments; section 7 says what would come next.

## 6. What is not modelled

| Part | Reason |
|---|---|
| btbr sync words (`btbb.c`) | a table of constants and a correlator in hardware |
| btbr radio driver and DMA (`rf.c`, `ubertooth_dma.c`), register drivers of the sniffer (`cc2400.c`) | registers; the models keep who owns the radio and when it listens |
| rssi, carrier sense level, UART, fault dump | readings and printing; no property is about them |
| `usb_serial.c` and its FIFO | serial port of the test firmware, in none of the three programs |
| board support (`common/ubertooth.c`, start-up code) | pins, clocks and vectors, set once |
| test and badge firmwares, further tools | small loops on one peripheral; they share no state with the rest |
| Kismet plugins, specan UI, extcap | option parsing, drawing and packet formats around library calls |
| DFU suffix and signing | file format |

Components with status `partly` in `PROJECT.json` say there which of their operations are left out: those that print, parse or
format, and requests that change nothing another part looks at.

## 7. Plan

All components of section 1 are modelled and checked. What is left is proof:

1. `FollowerInStep`: that the anchor and the event counter of `LePhy` are those of the connection, with `Followers_proofs` as the pattern.
2. The indices of `BtrAfh`'s timer array, with the array scanned by a function in place of a recursive operator.

## 8. How to run

    tlc -workers 2 -config MCLinkLayer.cfg MCLinkLayer
    tlapm LinkLayer_proofs.tla

TLC takes from some seconds to four minutes for a run with two workers, tlapm up to some minutes for a module. `PROJECT.json` lists the components, the runs, the source lines of every definition, the
hazards and which properties cover them, the wrong variants with the property each
must break, and the theorems.
