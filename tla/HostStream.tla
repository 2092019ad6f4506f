----------------------------- MODULE HostStream -----------------------------
(* The host's packet stream (libubertooth: ubertooth.c, ubertooth_fifo.c):   *)
(* the event thread completes USB transfers into a ring of packets, the main *)
(* thread takes them out and calls the tool's function, a signal asks both   *)
(* to stop.  Packets are numbered as the device sends them.                  *)
EXTENDS Integers, FiniteSets

CONSTANTS
  FIFO_SIZE,
  MaxPackets,  \* the device sends in all
  Faults       \* of libusb: submissions, event handling, control requests that fail

\* A ring of one element is always full.
ASSUME HostStreamAssumption == FIFO_SIZE \in Nat \ {0, 1} /\ {MaxPackets, Faults} \subseteq Nat

VARIABLES
  fifo,      \* read_ptr, write_ptr and packets, by their numbers
  xfer,      \* rx_xfer: none, flight, or how it ended with its callback still due; its buffer; cancelling
  stop,      \* stop_ubertooth
  do_exit, thread,  \* the event thread: asked to end; running
  main,      \* where the main thread is
  selected, last,   \* the element fifo_pop reads; the packet the callback got last
  lossy,     \* the ring has been full: a packet may be discarded, or written over as it is taken
  sent, faults

streamVars == <<fifo, xfer, stop, do_exit, thread, main, selected, last, lossy, sent, faults>>

Next1(p) == (p + 1) % FIFO_SIZE
NoXfer == [state |-> "none", buffer |-> 0, cancel |-> FALSE]
Fails == faults < Faults /\ faults' = faults + 1
Works == UNCHANGED faults

-----------------------------------------------------------------------------
(* The ring.                                                                *)

fifo_empty == fifo.read_ptr = fifo.write_ptr
FifoFull(f) == f.read_ptr = Next1(f.write_ptr)
fifo_inc_write_ptr(f) == IF FifoFull(f) THEN f ELSE [f EXCEPT !.write_ptr = Next1(@)]
fifo_get_write_element_read(f) == f.read_ptr
fifo_get_write_element(f) == f.write_ptr

-----------------------------------------------------------------------------
(* libusb: the transfer ends in one of the ways cb_xfer tells apart.        *)

Ends(how) == /\ xfer.state = "flight"
             /\ xfer' = [xfer EXCEPT !.state = how]
Completed == /\ sent < MaxPackets /\ sent' = sent + 1
             /\ Ends("completed")
             /\ fifo' = [fifo EXCEPT !.packets[xfer.buffer] = sent + 1]
             /\ UNCHANGED <<stop, do_exit, thread, main, selected, last, lossy, faults>>
NotCompleted ==
  /\ \/ Ends("timed_out") /\ Works
     \/ xfer.cancel /\ Ends("cancelled") /\ Works
     \/ Ends("error") /\ Fails
  /\ UNCHANGED <<fifo, stop, do_exit, thread, main, selected, last, lossy, sent>>

\* A transfer that cannot be submitted again is only reported.
Resubmitted(b) ==
  \/ xfer' = [state |-> "flight", buffer |-> b, cancel |-> FALSE] /\ Works
  \/ xfer' = [state |-> "failed", buffer |-> b, cancel |-> FALSE] /\ Fails
Freed == xfer' = NoXfer /\ Works
AfterTimeout_freed == Freed
AfterTimeout == Resubmitted(xfer.buffer)
cb_xfer ==
  /\ thread /\ xfer.state \notin {"none", "flight", "failed", "stopped"}
  /\ CASE xfer.state = "timed_out" -> AfterTimeout /\ UNCHANGED <<fifo, lossy>>
       [] xfer.state \in {"cancelled", "error"} -> Freed /\ UNCHANGED <<fifo, lossy>>
       [] xfer.state = "completed" /\ stop ->
            xfer' = [xfer EXCEPT !.state = "stopped"] /\ Works /\ UNCHANGED <<fifo, lossy>>
       [] OTHER -> /\ fifo' = fifo_inc_write_ptr(fifo)
                   /\ lossy' = (lossy \/ FifoFull(fifo'))
                   /\ Resubmitted(fifo_get_write_element(fifo'))
  /\ UNCHANGED <<stop, do_exit, thread, main, selected, last, sent>>

poll_thread_main ==
  /\ thread
  /\ \/ do_exit /\ UNCHANGED <<do_exit, faults>>
     \/ ~do_exit /\ do_exit' = TRUE /\ Fails
  /\ thread' = FALSE
  /\ UNCHANGED <<fifo, xfer, stop, main, selected, last, lossy, sent>>

\* cleanup, or stop_transfers on an alarm; at any time once it is registered.
Signal == /\ ~stop /\ main # "closed" /\ stop' = TRUE
          /\ UNCHANGED <<fifo, xfer, do_exit, thread, main, selected, last, lossy, sent, faults>>

-----------------------------------------------------------------------------
(* The main thread: stream_rx_usb and ubertooth_stop.                       *)

MainAt(a, b) == main = a /\ main' = b
ubertooth_bulk_init ==
  /\ main = "init"
  /\ \/ /\ xfer' = [state |-> "flight", buffer |-> fifo_get_write_element(fifo), cancel |-> FALSE]
        /\ main' = "start" /\ Works
     \/ /\ xfer' = [NoXfer EXCEPT !.state = "failed"]
        /\ main' = "stop" /\ Fails
  /\ UNCHANGED <<fifo, stop, do_exit, thread, selected, last, lossy, sent>>
ubertooth_bulk_thread_start ==
  /\ MainAt("start", "ask") /\ thread' = TRUE /\ do_exit' = FALSE
  /\ UNCHANGED <<fifo, xfer, stop, selected, last, lossy, sent, faults>>
\* A failure returns with the event thread running.
AskForPackets ==
  /\ main = "ask"
  /\ \/ main' = "loop" /\ Works
     \/ main' = "stop" /\ Fails
  /\ UNCHANGED <<fifo, xfer, stop, do_exit, thread, selected, last, lossy, sent>>
\* while(!stop), ubertooth_bulk_wait and the test of ubertooth_bulk_receive.
ubertooth_bulk_wait ==
  /\ main = "loop" /\ (stop \/ ~fifo_empty)
  /\ main' = IF stop THEN "leave" ELSE "pop"
  /\ UNCHANGED <<fifo, xfer, stop, do_exit, thread, selected, last, lossy, sent, faults>>
\* fifo_pop moves read_ptr, then copies the packet.
fifo_pop ==
  /\ MainAt("pop", "copy")
  /\ selected' = fifo.read_ptr
  /\ fifo' = [fifo EXCEPT !.read_ptr = Next1(@)]
  /\ UNCHANGED <<xfer, stop, do_exit, thread, last, lossy, sent, faults>>
Copy ==
  /\ MainAt("copy", "called")
  /\ last' = fifo.packets[selected]
  /\ UNCHANGED <<fifo, xfer, stop, do_exit, thread, selected, lossy, sent, faults>>
Cancelled == IF xfer.state = "flight" THEN [xfer EXCEPT !.cancel = TRUE] ELSE xfer
ubertooth_bulk_receive ==
  /\ MainAt("called", "loop")
  /\ xfer' = IF stop THEN Cancelled ELSE xfer
  /\ UNCHANGED <<fifo, stop, do_exit, thread, selected, last, lossy, sent, faults>>
ubertooth_bulk_thread_stop ==
  /\ \/ MainAt("leave", "join") /\ do_exit' = TRUE
     \/ MainAt("join", "stop") /\ ~thread /\ UNCHANGED do_exit
  /\ UNCHANGED <<fifo, xfer, stop, thread, selected, last, lossy, sent, faults>>
ubertooth_stop ==
  /\ MainAt("stop", "closed") /\ xfer' = Cancelled
  /\ UNCHANGED <<fifo, stop, do_exit, thread, selected, last, lossy, sent, faults>>

ubertooth_init == /\ fifo = [read_ptr |-> 0, write_ptr |-> 0, packets |-> [i \in 0 .. FIFO_SIZE - 1 |-> 0]]
                  /\ xfer = NoXfer /\ stop = FALSE
                  /\ do_exit = TRUE /\ thread = FALSE
StreamInit == /\ ubertooth_init /\ main = "init" /\ selected = 0 /\ last = 0
              /\ lossy = FALSE /\ sent = 0 /\ faults = 0
Main == \/ ubertooth_bulk_init \/ ubertooth_bulk_thread_start \/ AskForPackets \/ ubertooth_bulk_wait \/ fifo_pop
        \/ Copy \/ ubertooth_bulk_receive \/ ubertooth_bulk_thread_stop \/ ubertooth_stop
StreamNext == Main \/ Completed \/ NotCompleted \/ cb_xfer \/ poll_thread_main \/ Signal
StreamSpec == StreamInit /\ [][StreamNext]_streamVars

-----------------------------------------------------------------------------
(* Properties.                                                              *)

StreamTypeOK ==
  /\ fifo \in [read_ptr : 0 .. FIFO_SIZE - 1, write_ptr : 0 .. FIFO_SIZE - 1,
               packets : [0 .. FIFO_SIZE - 1 -> 0 .. MaxPackets]]
  /\ xfer.state \in {"none", "flight", "completed", "timed_out", "cancelled", "error", "failed", "stopped"}
  /\ xfer.buffer \in 0 .. FIFO_SIZE - 1 /\ {stop, do_exit, thread, lossy, xfer.cancel} \subseteq BOOLEAN
  /\ last \in 0 .. MaxPackets /\ selected \in 0 .. FIFO_SIZE - 1

(* The tool's function gets every packet once, in order and whole, until    *)
(* the ring was full: the two threads share it without a lock (fifo_pop,    *)
(* fifo_inc_write_ptr).                                                     *)
EveryPacket == [][main = "copy" /\ main' # "copy" /\ ~lossy => last' = last + 1]_streamVars

(* A started stream goes on to the last packet whatever order transfers end *)
(* in, unless the tool is asked to stop, the ring was full or libusb failed *)
(* (cb_xfer is all that keeps a transfer in flight).                        *)
Delivered == main = "loop" ~> last = MaxPackets \/ stop \/ lossy \/ faults > 0

(* Asked to stop, a tool closes the device, whatever became of its transfer *)
(* and of the event thread.                                                 *)
StreamEnds == stop ~> main = "closed"
=============================================================================
