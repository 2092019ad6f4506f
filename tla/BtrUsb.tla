------------------------------- MODULE BtrUsb -------------------------------
(* The message transport of btbr: messages cut into USB packets (usb_work,   *)
(* usb_bulk_out_handler of drivers/ubertooth_usb.c), the queues and buffers  *)
(* they wait in (btctl.c, mem_pool.c, console.c), the main loop that serves  *)
(* them, and the reader and writer of ubtbr (btctl.py).                      *)
EXTENDS Integers, Sequences

CONSTANTS
  MAX_PACKET_SIZE, \* bytes of a packet; a first packet has a header of 4, a later one of 1
  BUF_NUM,         \* buffers of the pool
  QueueLen,        \* messages a queue holds
  HostSizes, DeviceSizes, \* lengths of messages
  Sends, Posts, Resets,   \* how many each side, and the vendor request, send
  Traffic          \* and how many together

ASSUME BtrUsbAssumption ==
  /\ MAX_PACKET_SIZE \in Nat /\ MAX_PACKET_SIZE > 4 /\ BUF_NUM \in Nat
  /\ HostSizes \cup DeviceSizes \subseteq Nat \ {0}

VARIABLES
  free, rx_msg, rx_q, handling, acl_q, held, console, tx_q, tx_msg, \* buffers and who has them
  dead, early,  \* DIE: why the device stopped; its last words are still to be sent
  in_ep, out_ep, \* packets in the endpoint's buffers
  writing,      \* the message _send_usb is sending
  reading,      \* the message _rx_thread_main is putting together
  failed,       \* an assertion of the reader failed
  up_last, down_last, \* the message each side took last
  sends, posts, resets,
  overflow      \* a full queue has lost a message

buffers == <<free, rx_msg, rx_q, handling, acl_q, held, console, tx_q, tx_msg>>
host == <<writing, reading, failed, up_last>>
uvars == <<buffers, dead, early, in_ep, out_ep, host, down_last, sends, posts, resets, overflow>>

No == [id |-> 0]
Whole(m) == [id |-> m.id, size |-> m.size]
Running == dead = "no"
Quiet == sends + posts + resets < Traffic
least(a, b) == IF a < b THEN a ELSE b

\* A packet carries n bytes of message id.
Start(m, n) == [t |-> "S", id |-> m.id, size |-> m.size, kind |-> m.kind, n |-> n]
Cont(m, n) == [t |-> "C", id |-> m.id, n |-> n]
Printed == [t |-> "P", id |-> 0, n |-> 0]
FirstRoom == MAX_PACKET_SIZE - 4
Room_first == MAX_PACKET_SIZE - 4
Room == MAX_PACKET_SIZE - 1

-----------------------------------------------------------------------------
(* Buffers, and the end of the device.                                      *)

die(why) == dead' = why /\ early' = TRUE
Alive == UNCHANGED <<dead, early>>
\* die() waits for the endpoint to empty, then sends its message past all queues.
usb_send_sync == /\ early /\ in_ep = <<>> /\ in_ep' = <<Printed>> /\ early' = FALSE
                 /\ UNCHANGED <<buffers, dead, out_ep, host, down_last, sends, posts, resets, overflow>>

\* Put m in the queue for the host; a full queue is what each caller makes of it.
btctl_tx_enqueue(m, full) ==
  IF Len(tx_q) < QueueLen
  THEN tx_q' = Append(tx_q, m) /\ posts' = posts + 1 /\ Alive /\ UNCHANGED overflow
  ELSE full /\ UNCHANGED <<tx_q, posts>>

\* A receive task takes a buffer, then frees it or has it sent to the host.
rx_task_alloc ==
  /\ Running /\ held = 0 /\ posts < Posts /\ Quiet
  /\ IF free = 0 THEN die("pool") /\ UNCHANGED <<free, held>>
     ELSE Alive /\ held' = 1 /\ free' = free - 1
  /\ UNCHANGED <<rx_msg, rx_q, handling, acl_q, console, tx_q, tx_msg, in_ep, out_ep, host, down_last, sends, posts, resets, overflow>>
rx_task_done ==
  /\ Running /\ held = 1 /\ held' = 0
  /\ \/ /\ free' = free + 1 /\ Alive /\ UNCHANGED <<tx_q, posts, overflow>>
     \/ /\ posts < Posts /\ Quiet
        /\ \E s \in DeviceSizes : btctl_tx_enqueue([id |-> posts + 1, size |-> s, kind |-> "rx"], die("tx_q") /\ UNCHANGED overflow)
        /\ UNCHANGED free
  /\ UNCHANGED <<rx_msg, rx_q, handling, acl_q, console, tx_msg, in_ep, out_ep, host, down_last, sends, resets>>

\* A state answer that finds the queue full is neither queued nor freed.
btctl_send_state_resp ==
  /\ Running /\ posts < Posts /\ Quiet
  /\ IF free = 0 THEN die("pool") /\ UNCHANGED <<free, tx_q, posts, overflow>>
     ELSE /\ free' = free - 1
          /\ btctl_tx_enqueue([id |-> posts + 1, size |-> 2, kind |-> "state"], Alive /\ overflow' = TRUE)
  /\ UNCHANGED <<rx_msg, rx_q, handling, acl_q, held, console, tx_msg, in_ep, out_ep, host, down_last, sends, resets>>

console_putc ==
  /\ Running /\ console = 0 /\ posts < Posts /\ Quiet
  /\ IF free = 0 THEN die("pool") /\ UNCHANGED <<free, console>>
     ELSE Alive /\ console' = 1 /\ free' = free - 1
  /\ UNCHANGED <<rx_msg, rx_q, handling, acl_q, held, tx_q, tx_msg, in_ep, out_ep, host, down_last, sends, posts, resets, overflow>>
console_flush ==
  /\ Running /\ console = 1 /\ posts < Posts /\ Quiet /\ console' = 0
  /\ \E s \in DeviceSizes : btctl_tx_enqueue([id |-> posts + 1, size |-> s, kind |-> "debug"], die("console") /\ UNCHANGED overflow)
  /\ UNCHANGED <<free, rx_msg, rx_q, handling, acl_q, held, tx_msg, in_ep, out_ep, host, down_last, sends, resets>>

-----------------------------------------------------------------------------
(* To the host.                                                             *)

MainLoopFree == handling # No => handling.kind = "idle"
\* One packet of m that has sent `from` bytes.
Cut(m, from, new) == IF new THEN Start(m, least(m.size, FirstRoom)) ELSE Cont(m, least(m.size - from, Room))
\* usb_work fills the endpoint's free buffers with packets of one message.
usb_work ==
  /\ Running /\ MainLoopFree /\ Len(in_ep) < 2 /\ (tx_msg # No \/ tx_q # <<>>)
  /\ LET new == tx_msg = No
         m   == IF new THEN Head(tx_q) ELSE tx_msg.m
         at  == IF new THEN 0 ELSE tx_msg.read
         p1  == Cut(m, at, new)
         at1 == at + p1.n
         two == Len(in_ep) = 0 /\ at1 < m.size
         p2  == Cut(m, at1, FALSE)
         at2 == IF two THEN at1 + p2.n ELSE at1
     IN /\ in_ep' = in_ep \o (IF two THEN <<p1, p2>> ELSE <<p1>>)
        /\ tx_q' = IF new THEN Tail(tx_q) ELSE tx_q
        /\ IF at2 = m.size THEN tx_msg' = No /\ free' = free + 1
           ELSE tx_msg' = [id |-> m.id, m |-> m, read |-> at2] /\ UNCHANGED free
  /\ UNCHANGED <<rx_msg, rx_q, handling, acl_q, held, console, dead, early, out_ep, host, down_last, sends, posts, resets, overflow>>

\* Length of a packet, and the length the reader expects.
Bytes(p) == p.n + (IF p.t = "S" THEN 4 ELSE 1)
Expected(p) == p.t # "P" =>
  IF reading = No THEN p.t = "S" /\ Bytes(p) = least(MAX_PACKET_SIZE, 4 + p.size)
  ELSE p.t = "C" /\ Bytes(p) = least(MAX_PACKET_SIZE, 1 + reading.size - reading.n)
Glued(p) == IF reading = No THEN [id |-> p.id, size |-> p.size, n |-> p.n]
            ELSE [reading EXCEPT !.n = @ + p.n, !.id = IF p.id = reading.id THEN @ ELSE -1]
rx_thread ==
  /\ in_ep # <<>> /\ ~failed /\ in_ep' = Tail(in_ep)
  /\ LET p == Head(in_ep)
     IN IF p.t = "P" THEN UNCHANGED <<reading, failed, up_last>>
        ELSE IF ~Expected(p) THEN failed' = TRUE /\ UNCHANGED <<reading, up_last>>
        ELSE IF Glued(p).n = Glued(p).size THEN reading' = No /\ up_last' = Whole(Glued(p)) /\ UNCHANGED failed
        ELSE reading' = Glued(p) /\ UNCHANGED <<failed, up_last>>
  /\ UNCHANGED <<buffers, dead, early, out_ep, writing, down_last, sends, posts, resets, overflow>>

-----------------------------------------------------------------------------
(* From the host.                                                           *)

send_usb ==
  /\ writing = No /\ sends < Sends /\ Quiet /\ sends' = sends + 1
  /\ \E s \in HostSizes, k \in {"idle", "acl", "other"} :
       writing' = [id |-> sends + 1, m |-> [id |-> sends + 1, size |-> s, kind |-> k], read |-> 0]
  /\ UNCHANGED <<buffers, dead, early, in_ep, out_ep, reading, failed, up_last, down_last, posts, resets, overflow>>
\* The next packet, until nothing is left of the message.
bulkWrite ==
  /\ writing # No /\ out_ep = <<>>
  /\ LET p == Cut(writing.m, writing.read, writing.read = 0)
     IN /\ out_ep' = <<p>>
        /\ writing' = IF writing.read + p.n = writing.m.size THEN No ELSE [writing EXCEPT !.read = @ + p.n]
  /\ UNCHANGED <<buffers, dead, early, in_ep, reading, failed, up_last, down_last, sends, posts, resets, overflow>>

\* btctl_rx_enqueue: a message that finds rx_q full is neither queued nor freed.
btctl_rx_enqueue(m) == IF Len(rx_q) < QueueLen THEN rx_q' = Append(rx_q, m) /\ UNCHANGED overflow
                       ELSE overflow' = TRUE /\ UNCHANGED rx_q
\* rx_msg with more bytes: kept, or queued with what it holds when complete.
Received_early(m) == IF m.n >= m.size - 1 THEN rx_msg' = No /\ btctl_rx_enqueue([id |-> m.id, size |-> m.n, kind |-> m.kind])
                     ELSE rx_msg' = m /\ UNCHANGED <<rx_q, overflow>>
Received(m) == IF m.n = m.size THEN rx_msg' = No /\ btctl_rx_enqueue([id |-> m.id, size |-> m.n, kind |-> m.kind])
               ELSE rx_msg' = m /\ UNCHANGED <<rx_q, overflow>>
usb_bulk_out_handler ==
  /\ Running /\ out_ep # <<>> /\ out_ep' = <<>>
  /\ LET p == Head(out_ep)
     IN IF p.t # (IF rx_msg = No THEN "S" ELSE "C") THEN die("framing") /\ UNCHANGED <<rx_msg, rx_q, free, overflow>>
        ELSE IF rx_msg = No
        THEN IF free = 0 THEN die("pool") /\ UNCHANGED <<rx_msg, rx_q, free, overflow>>
             ELSE Alive /\ free' = free - 1 /\ Received([id |-> p.id, size |-> p.size, kind |-> p.kind, n |-> least(p.n, p.size)])
        ELSE Alive /\ UNCHANGED free
             /\ Received([rx_msg EXCEPT !.n = @ + least(p.n, rx_msg.size - @), !.id = IF p.id = @ THEN @ ELSE -1])
  /\ UNCHANGED <<handling, acl_q, held, console, tx_q, tx_msg, in_ep, host, down_last, sends, posts, resets>>
\* The vendor request RESET queues a message of its own.
request_reset ==
  /\ Running /\ resets < Resets /\ Quiet /\ resets' = resets + 1
  /\ IF free = 0 THEN die("pool") /\ UNCHANGED <<free, rx_q, overflow>>
     ELSE Alive /\ free' = free - 1 /\ btctl_rx_enqueue([id |-> 0, size |-> 1, kind |-> "reset"])
  /\ UNCHANGED <<rx_msg, handling, acl_q, held, console, tx_q, tx_msg, in_ep, out_ep, host, down_last, sends, posts>>

btctl_work ==
  /\ Running /\ handling = No /\ rx_q # <<>>
  /\ rx_q' = Tail(rx_q)
  /\ IF Head(rx_q).kind = "reset" THEN dead' = "reset" /\ UNCHANGED <<handling, down_last>>
     ELSE handling' = Head(rx_q) /\ down_last' = Whole(Head(rx_q)) /\ UNCHANGED dead
  /\ UNCHANGED <<free, rx_msg, acl_q, held, console, tx_q, tx_msg, early, in_ep, out_ep, host, sends, posts, resets, overflow>>
btctl_handle_msg_keeps ==
  /\ Running /\ handling # No /\ handling' = No
  /\ IF acl_q < QueueLen THEN acl_q' = acl_q + (IF handling.kind = "acl" THEN 1 ELSE 0) /\ UNCHANGED overflow
     ELSE overflow' = TRUE /\ UNCHANGED acl_q
  /\ UNCHANGED <<free, rx_msg, rx_q, held, console, tx_q, tx_msg, dead, early, in_ep, out_ep, host, down_last, sends, posts, resets>>
\* The handler ends: a packet to send keeps its buffer, other messages are freed.
btctl_handle_msg ==
  /\ Running /\ handling # No /\ handling' = No
  /\ CASE handling.kind # "acl" -> free' = free + 1 /\ UNCHANGED <<acl_q, overflow>>
       [] acl_q < QueueLen      -> acl_q' = acl_q + 1 /\ UNCHANGED <<free, overflow>>
       [] OTHER                 -> overflow' = TRUE /\ UNCHANGED <<free, acl_q>>
  /\ UNCHANGED <<rx_msg, rx_q, held, console, tx_q, tx_msg, dead, early, in_ep, out_ep, host, down_last, sends, posts, resets>>
acl_sent == /\ Running /\ acl_q > 0 /\ acl_q' = acl_q - 1 /\ free' = free + 1
            /\ UNCHANGED <<rx_msg, rx_q, handling, held, console, tx_q, tx_msg, dead, early, in_ep, out_ep, host, down_last, sends, posts, resets, overflow>>

-----------------------------------------------------------------------------
UInit == /\ free = BUF_NUM /\ rx_msg = No /\ rx_q = <<>> /\ handling = No /\ acl_q = 0
         /\ held = 0 /\ console = 0 /\ tx_q = <<>> /\ tx_msg = No
         /\ dead = "no" /\ early = FALSE /\ in_ep = <<>> /\ out_ep = <<>> /\ writing = No
         /\ reading = No /\ failed = FALSE /\ up_last = No /\ down_last = No
         /\ sends = 0 /\ posts = 0 /\ resets = 0 /\ overflow = FALSE
UNext == \/ usb_send_sync \/ rx_task_alloc \/ rx_task_done \/ btctl_send_state_resp \/ console_putc \/ console_flush
         \/ usb_work \/ rx_thread
         \/ send_usb \/ bulkWrite \/ usb_bulk_out_handler \/ request_reset \/ btctl_work \/ btctl_handle_msg \/ acl_sent
USpec == UInit /\ [][UNext]_uvars

-----------------------------------------------------------------------------
One(m) == IF m = No THEN {} ELSE {Whole(m)}
Begun(ps) == {Whole(ps[i]) : i \in {k \in DOMAIN ps : ps[k].t = "S"}}
Wholes(q) == {Whole(q[i]) : i \in {k \in DOMAIN q : q[k].kind # "reset"}}
Unsent(w) == IF w # No /\ w.read = 0 THEN {Whole(w.m)} ELSE {}
Up == One(reading) \cup Begun(in_ep) \cup Wholes(tx_q)
Down == Wholes(rx_q) \cup One(rx_msg) \cup Begun(out_ep) \cup Unsent(writing)
UpPipe == INSTANCE MessagePipe WITH pipe <- Up, posted <- posts, last <- up_last, Lossy <- FALSE,
                                    Sizes <- DeviceSizes \cup {2}
DownPipe == INSTANCE MessagePipe WITH pipe <- Down, posted <- sends, last <- down_last, Lossy <- TRUE,
                                      Sizes <- HostSizes

(* The packets of usb_work, _send_usb and the two receivers carry messages   *)
(* whole and in order both ways, whatever console lines, answers and last    *)
(* words come between; towards the device a message may be lost, but whole.  *)
MessagesWhole == UpPipe!Spec /\ DownPipe!Spec

(* Every buffer taken from the pool is free again or held by exactly one     *)
(* queue, message under way or task, until a full queue loses one.           *)
Held(m) == IF m = No THEN 0 ELSE 1
BuffersKept == (Running /\ ~overflow) =>
  free + Held(rx_msg) + Len(rx_q) + Held(handling) + acl_q + held + console + Len(tx_q) + Held(tx_msg) = BUF_NUM

(* The transport never comes to rest with a message under way: while the     *)
(* device runs, one of its loops and handlers or a side of ubtbr can go on   *)
(* until all that was posted is delivered.                                   *)
NothingStuck == (Running /\ (Up # {} \/ Down # {})) =>
  ENABLED (usb_work \/ rx_thread \/ bulkWrite \/ usb_bulk_out_handler \/ btctl_work \/ btctl_handle_msg)
=============================================================================
