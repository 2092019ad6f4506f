----------------------------- MODULE UsbControl -----------------------------
(* A control transfer from libubertooth to the firmware and back: the host's *)
(* wrapper, the control endpoint of the USB controller, and the firmware's   *)
(* control transfer handler (firmware/common/lpcusb/target/usbcontrol.c),    *)
(* standard requests (usbstdreq.c) and vendor requests.  The main loop calls *)
(* USBHwISR now and then, so the endpoint's events wait, and the host may    *)
(* give a transfer up after its timeout and start the next one while the     *)
(* device still holds what is left of the old.                               *)
EXTENDS VendorRequests, HostCommands

CONSTANTS
  Arguments,     \* what the callers of libubertooth's wrappers pass
  Script,        \* for each transfer the host makes, the commands it may choose from
  MaxTimeouts,   \* transfers it gives up
  MaxBusResets   \* USB bus resets

VARIABLES
  caller, \* the transfer in hand: phase, cmd, tag, got, inOrder, left (bytes to send), result
  ep,     \* endpoint 0: a SETUP or an OUT packet waiting, the IN buffer, the IN interrupt, stall
  ctl,    \* usbcontrol.c: Setup, iResidue, offset of pbData, and the transfer Setup belongs to
  dev,    \* the firmware's shared variables (VendorRequests)
  usb,    \* usbstdreq.c: bConfiguration; hardware: address, endpoints enabled, bulk IN halted
  ran,    \* per transfer: what the handler answered, << >> before it ran
  stale,  \* a SETUP came while the interrupt of an earlier IN packet was not served yet
  timeouts, resets

usbVars == <<caller, ep, ctl, dev, usb, ran, stale, timeouts, resets>>

MaxPacketSize0 == 64
None == [none |-> TRUE]
NoPacket == -1
Least(a, b) == IF a < b THEN a ELSE b

\* The descriptors the host asks for, by wValue, and their lengths: device;
\* configuration, with its interface and two endpoints; two strings; OS string.
abDescriptors == [v \in {256, 512, 770, 771, 1006} |->
                    CASE v = 512 -> 32 [] v = 770 -> 28 [] v = 771 -> 66 [] OTHER -> 18]

StdIn(op, recip, v, n) == [op |-> op, dir |-> "in", v |-> v, i |-> 0, n |-> n, data |-> 0, reads |-> 0,
                           recip |-> recip]
StdOut(op, recip, v) == [op |-> op, dir |-> "out", v |-> v, i |-> 0, n |-> 0, data |-> 0, reads |-> 0,
                         recip |-> recip]
StandardCommands ==
  {StdIn("GET_STATUS", x, 0, 2) : x \in {"device", "interface", "endpoint"}}
  \cup {StdIn("GET_DESCRIPTOR", "device", x, 255) : x \in {256, 512, 770, 771, 772, 1006}}
  \cup {StdIn("GET_CONFIGURATION", "device", 0, 1), StdIn("GET_INTERFACE", "interface", 0, 1),
        StdOut("SET_ADDRESS", "device", 5), StdOut("SET_CONFIGURATION", "device", 1),
        StdOut("SET_CONFIGURATION", "device", 0), StdOut("SET_INTERFACE", "interface", 0),
        StdOut("SET_FEATURE", "endpoint", 0), StdOut("CLEAR_FEATURE", "endpoint", 0),
        StdOut("SET_FEATURE", "device", 1)}
\* Windows asks for the extended properties with vendor request 0xFF.
OsCommands == {[In("OS_VENDOR", 0, n, 0) EXCEPT !.i = x] : n \in {16, 255}, x \in {4, 5, 6}}

HostRequests == Commands(Arguments) \cup StandardCommands \cup OsCommands
ASSUME ControlAssumption == Arguments \subseteq Words /\ Script \in Seq(SUBSET HostRequests)

-----------------------------------------------------------------------------
(* The firmware's answers: [ok, len, dev, usb].                             *)

USBGetDescriptor(r) ==
  IF r.v \in DOMAIN abDescriptors THEN [ok |-> TRUE, len |-> abDescriptors[r.v], usb |-> usb]
                                  ELSE [ok |-> FALSE, len |-> r.n, usb |-> usb]
\* Configuration 0 only unconfigures; another one also sets its endpoints up.
USBSetConfiguration(v) ==
  IF v = 0 THEN [usb EXCEPT !.configuration = 0, !.enabled = FALSE]
           ELSE [usb EXCEPT !.configuration = v, !.enabled = TRUE, !.halted = FALSE]
HandleStdDeviceReq(r) ==
  CASE r.op = "GET_STATUS"        -> [ok |-> TRUE, len |-> 2, usb |-> usb]
    [] r.op = "SET_ADDRESS"       -> [ok |-> TRUE, len |-> r.n, usb |-> [usb EXCEPT !.address = r.v]]
    [] r.op = "GET_DESCRIPTOR"    -> USBGetDescriptor(r)
    [] r.op = "GET_CONFIGURATION" -> [ok |-> TRUE, len |-> 1, usb |-> usb]
    [] r.op = "SET_CONFIGURATION" -> [ok |-> TRUE, len |-> r.n, usb |-> USBSetConfiguration(r.v)]
    [] OTHER                      -> [ok |-> FALSE, len |-> r.n, usb |-> usb]
HandleStdInterfaceReq(r) ==
  CASE r.op = "GET_STATUS"    -> [ok |-> TRUE, len |-> 2, usb |-> usb]
    [] r.op = "GET_INTERFACE" -> [ok |-> TRUE, len |-> 1, usb |-> usb]
    [] r.op = "SET_INTERFACE" -> [ok |-> r.v = 0, len |-> r.n, usb |-> usb]
    [] OTHER                  -> [ok |-> FALSE, len |-> r.n, usb |-> usb]
HandleStdEndPointReq(r) ==
  CASE r.op = "GET_STATUS"                         -> [ok |-> TRUE, len |-> 2, usb |-> usb]
    [] r.op \in {"CLEAR_FEATURE", "SET_FEATURE"} /\ r.v = 0 ->
         [ok |-> TRUE, len |-> r.n, usb |-> [usb EXCEPT !.halted = (r.op = "SET_FEATURE")]]
    [] OTHER                                       -> [ok |-> FALSE, len |-> r.n, usb |-> usb]

USBHandleStandardRequest(r) ==
  CASE r.recip = "device"    -> HandleStdDeviceReq(r)
    [] r.recip = "interface" -> HandleStdInterfaceReq(r)
    [] r.recip = "endpoint"  -> HandleStdEndPointReq(r)

\* The OS descriptors: features (index 4) or properties (index 5), first page,
\* cut to the length asked for.
USBFilterOsVendorMessage(r) ==
  [ok |-> r.i \in {4, 5}, len |-> Least(r.n, IF r.i = 5 THEN 146 ELSE 40), usb |-> usb]

HandleRequest(r) ==
  LET std == USBHandleStandardRequest(r)
      os  == USBFilterOsVendorMessage(r)
      ven == vendor_request_handler(r, dev)
  IN  CASE "recip" \in DOMAIN r  -> [ok |-> std.ok, len |-> std.len, usb |-> std.usb, dev |-> dev]
        [] r.op = "OS_VENDOR"    -> [ok |-> os.ok, len |-> os.len, usb |-> os.usb, dev |-> dev]
        [] OTHER                 -> [ok |-> ven.ok, len |-> ven.len, usb |-> usb, dev |-> ven.d]

-----------------------------------------------------------------------------
(* The device.  Its control IN buffer cannot be filled while a SETUP waits,  *)
(* and a SETUP empties it; what a second write to a full buffer does is left *)
(* open.  USBHwISR serves the OUT and the IN side of the endpoint one after  *)
(* the other and the host's packets come in between.                        *)

DataIn(c) == [c EXCEPT !.residue = @ - Least(MaxPacketSize0, @), !.off = @ + Least(MaxPacketSize0, c.residue)]
Chunk(c)  == [tag |-> c.tag, off |-> c.off, len |-> Least(MaxPacketSize0, c.residue)]
USBHwEPRead(e) == [e EXCEPT !.out = NoPacket]
USBHwEPStall(e) == [e EXCEPT !.stalled = TRUE]
USBHwEPWrite(e, p) == IF e.setup # None THEN {e.in}
                      ELSE IF e.in = None THEN {p} ELSE {e.in, p}

\* Run the handler on the request in c and send the first part of the answer,
\* or stall.  limit is the most the host takes.  SET_ISP does not return.
Answer(c, e, limit) ==
  LET h == HandleRequest(c.req)
      d == [c EXCEPT !.residue = Least(h.len, limit), !.off = 0]
  IN  /\ ran' = [ran EXCEPT ![c.tag] = Append(@, h.ok)]
      /\ dev' = h.dev
      /\ usb' = h.usb
      /\ IF h.dev.gone THEN ctl' = c /\ ep' = e
         ELSE IF h.ok
         THEN /\ ctl' = DataIn(d)
              /\ \E p \in USBHwEPWrite(e, Chunk(d)) : ep' = [e EXCEPT !.in = p]
         ELSE /\ ctl' = c
              /\ ep' = USBHwEPStall(e)

\* A SETUP packet starts the request over; unless data is to follow, the
\* request is handled at once.
SetupReceived ==
  /\ ep.setup # None
  /\ LET c == [req |-> ep.setup, tag |-> caller.tag, residue |-> ep.setup.n, off |-> 0]
         e == [ep EXCEPT !.setup = None]
     IN  IF c.req.n = 0 \/ c.req.dir = "in"
         THEN Answer(c, e, c.req.n)
         ELSE ctl' = c /\ ep' = e /\ UNCHANGED <<dev, usb, ran>>

OutReceived_unhandled ==
  /\ ep.setup = None /\ ep.out # NoPacket
  /\ LET e == USBHwEPRead(ep)
         c == [ctl EXCEPT !.residue = @ - ep.out, !.off = @ + ep.out]
     IN  IF ctl.residue > 0 /\ c.residue = 0
         THEN ctl' = DataIn(c) /\ (\E p \in USBHwEPWrite(e, Chunk(c)) : ep' = [e EXCEPT !.in = p])
         ELSE ctl' = (IF ctl.residue <= 0 THEN ctl ELSE c) /\ ep' = e
  /\ UNCHANGED <<dev, usb, ran>>
\* An OUT packet: data of the request, the last of which has it handled, or
\* the host's empty status packet.
OutReceived ==
  /\ ep.setup = None /\ ep.out # NoPacket
  /\ LET e == USBHwEPRead(ep)
         c == [ctl EXCEPT !.residue = @ - ep.out, !.off = @ + ep.out]
     IN  IF ctl.residue <= 0 THEN ep' = e /\ UNCHANGED <<ctl, dev, usb, ran>>
         ELSE IF c.residue = 0 THEN Answer(c, e, 0)
         ELSE ctl' = c /\ ep' = e /\ UNCHANGED <<dev, usb, ran>>

InAcknowledged_nothingleft ==
  /\ ep.acked /\ ctl.residue > 0
  /\ ctl' = DataIn(ctl)
  /\ \E p \in USBHwEPWrite(ep, Chunk(ctl)) : ep' = [ep EXCEPT !.acked = FALSE, !.in = p]
  /\ UNCHANGED <<dev, usb, ran>>
\* The host took a packet: send the next part, an empty one if none is left.
InAcknowledged ==
  /\ ep.acked
  /\ ctl' = DataIn(ctl)
  /\ \E p \in USBHwEPWrite(ep, Chunk(ctl)) : ep' = [ep EXCEPT !.acked = FALSE, !.in = p]
  /\ UNCHANGED <<dev, usb, ran>>

USBHandleControlTransfer == SetupReceived \/ OutReceived \/ InAcknowledged

USBHwISR ==
  /\ ~ dev.gone
  /\ USBHandleControlTransfer
  /\ UNCHANGED <<caller, stale, timeouts, resets>>

\* RESET and FLASH: back in the main loop, one millisecond later, the device
\* restarts and leaves the bus.
MainLoopResets ==
  /\ dev.requested_mode = "RESET" /\ ~ dev.gone
  /\ dev' = [dev EXCEPT !.gone = TRUE]
  /\ UNCHANGED <<caller, ep, ctl, usb, ran, stale, timeouts, resets>>

-----------------------------------------------------------------------------
(* The host: libubertooth's wrapper and the controller under it.             *)

Idle == caller.phase = "idle"
AfterSetup(cmd) == IF cmd.n = 0 THEN "statusin" ELSE IF cmd.dir = "in" THEN "datain" ELSE "dataout"
Finished(h, res) == [h EXCEPT !.phase = "idle", !.result = res]
Took(e) == [e EXCEPT !.in = None, !.acked = TRUE]

\* The SETUP packet is always taken: it unstalls the endpoint, empties both
\* buffers and replaces a SETUP not read yet.
Setup(cmd, tag) ==
  /\ caller' = [phase |-> AfterSetup(cmd), cmd |-> cmd, tag |-> tag, got |-> 0,
              inOrder |-> TRUE, left |-> IF cmd.dir = "out" THEN cmd.n ELSE 0, result |-> "none"]
  /\ ep' = [ep EXCEPT !.setup = cmd, !.out = NoPacket, !.in = None, !.stalled = FALSE]
  /\ ran' = Append(ran, << >>)
  /\ stale' = (stale \/ ep.acked)
  /\ UNCHANGED <<ctl, dev, usb, timeouts, resets>>

libusb_control_transfer(cmd) ==
  /\ Idle /\ Len(ran) < Len(Script) /\ ~ dev.gone
  /\ cmd \in Script[Len(ran) + 1]
  /\ Setup(cmd, Len(ran) + 1)

\* A packet of the answer.  The data stage ends with a short packet or with
\* as many bytes as were asked for.
TakeData ==
  /\ caller.phase = "datain" /\ ep.in # None
  /\ LET p   == ep.in
         got == caller.got + p.len
     IN  caller' = [caller EXCEPT !.got = got,
                                  !.inOrder = @ /\ p.tag = caller.tag /\ p.off = caller.got,
                                  !.phase = IF p.len < MaxPacketSize0 \/ got >= caller.cmd.n
                                        THEN "statusout" ELSE @]
  /\ ep' = Took(ep)
  /\ UNCHANGED <<ctl, dev, usb, ran, stale, timeouts, resets>>

SendData ==
  /\ caller.phase = "dataout" /\ ep.setup = None /\ ep.out = NoPacket /\ ~ ep.stalled
  /\ LET n == Least(MaxPacketSize0, caller.left)
     IN  /\ ep' = [ep EXCEPT !.out = n]
         /\ caller' = [caller EXCEPT !.left = @ - n,
                                     !.phase = IF caller.left = n THEN "statusin" ELSE @]
  /\ UNCHANGED <<ctl, dev, usb, ran, stale, timeouts, resets>>

\* The status stage: an empty packet the other way.  Anything else in the
\* status stage is an error.
TakeStatus ==
  /\ caller.phase = "statusin" /\ ep.in # None
  /\ caller' = Finished(caller, IF ep.in.len = 0 THEN "ok" ELSE "error")
  /\ ep' = Took(ep)
  /\ UNCHANGED <<ctl, dev, usb, ran, stale, timeouts, resets>>
SendStatus ==
  /\ caller.phase = "statusout" /\ ep.setup = None /\ ep.out = NoPacket /\ ~ ep.stalled
  /\ ep' = [ep EXCEPT !.out = 0]
  /\ caller' = Finished(caller, "ok")
  /\ UNCHANGED <<ctl, dev, usb, ran, stale, timeouts, resets>>

Stalled ==
  /\ ~ Idle /\ ep.stalled /\ ep.in = None
  /\ caller' = Finished(caller, "pipe")
  /\ UNCHANGED <<ep, ctl, dev, usb, ran, stale, timeouts, resets>>
NoDevice ==
  /\ ~ Idle /\ dev.gone
  /\ caller' = Finished(caller, "nodevice")
  /\ UNCHANGED <<ep, ctl, dev, usb, ran, stale, timeouts, resets>>
Timeout ==
  /\ ~ Idle /\ timeouts < MaxTimeouts
  /\ caller' = Finished(caller, "timeout")
  /\ timeouts' = timeouts + 1
  /\ UNCHANGED <<ep, ctl, dev, usb, ran, stale, resets>>

\* A bus reset: the hardware drops packets, address and endpoints; the
\* firmware's handler (HandleUsbReset) does nothing, so bConfiguration and a
\* half finished transfer stay.  The host's transfer fails.
HandleUsbReset ==
  /\ resets < MaxBusResets
  /\ resets' = resets + 1
  /\ usb' = [usb EXCEPT !.address = 0, !.enabled = FALSE, !.halted = FALSE]
  /\ ep' = [setup |-> None, out |-> NoPacket, in |-> None, acked |-> FALSE, stalled |-> FALSE]
  /\ caller' = IF Idle THEN caller ELSE Finished(caller, "error")
  /\ UNCHANGED <<ctl, dev, ran, stale, timeouts>>

-----------------------------------------------------------------------------
NoTransfer == In("PING", 0, 0, 0)

\* The device is on the bus and configured; an LE mode may have left a packet.
UsbInit ==
  /\ caller = [phase |-> "idle", cmd |-> NoTransfer, tag |-> 0, got |-> 0, inOrder |-> TRUE,
             left |-> 0, result |-> "none"]
  /\ ep = [setup |-> None, out |-> NoPacket, in |-> None, acked |-> FALSE, stalled |-> FALSE]
  /\ ctl = [req |-> NoTransfer, tag |-> 0, residue |-> 0, off |-> 0]
  /\ \E queue \in {<< >>, <<1, 2>>} : dev = InitialDevice(queue)
  /\ usb = [configuration |-> 1, address |-> 5, enabled |-> TRUE, halted |-> FALSE]
  /\ ran = << >> /\ stale = FALSE /\ timeouts = 0 /\ resets = 0

HostStep == TakeData \/ SendData \/ TakeStatus \/ SendStatus \/ Stalled \/ NoDevice
UsbNext == \/ \E cmd \in UNION {Script[k] : k \in DOMAIN Script} : libusb_control_transfer(cmd)
        \/ HostStep \/ Timeout \/ HandleUsbReset
        \/ USBHwISR \/ MainLoopResets

-----------------------------------------------------------------------------
Phases == {"idle", "datain", "dataout", "statusin", "statusout"}
TypeOK ==
  /\ caller.phase \in Phases /\ caller.got \in 0..512 /\ caller.left \in 0..300
  /\ caller.result \in {"none", "ok", "pipe", "error", "timeout", "nodevice"}
  /\ ctl.residue \in 1 - MaxPacketSize0..300 /\ ep.out \in {NoPacket} \cup 0..MaxPacketSize0
  /\ DeviceTypes(dev)

\* The host's verdict is the handler's: a transfer that succeeded ran the
\* handler once and it accepted, one that stalled was refused by it; no
\* request is run twice, or reported done before it ran.  Only a SETUP that
\* overtakes the device's own interrupt can break this.
ResultHonest ==
  ~ stale => /\ caller.result = "ok"   => ran[caller.tag] = <<TRUE>>
             /\ caller.result = "pipe" => ran[caller.tag] = <<FALSE>>

\* What the host reads is this request's answer, from its first byte and in
\* order, and at least as long as the wrapper goes on to use.
ReplyWhole ==
  (caller.result = "ok" /\ ~ stale /\ caller.cmd.dir = "in") =>
     caller.inOrder /\ caller.got >= caller.cmd.reads /\ caller.got <= caller.cmd.n

\* A transfer's verdict and its bytes are those of its own request, beside the types.
ReplyHonest == TypeOK /\ ResultHonest /\ ReplyWhole

\* Each transfer ends without the help of its timeout.
TransferEnds == (caller.phase # "idle" /\ ~ stale) ~> (caller.phase = "idle" \/ stale)
=============================================================================
