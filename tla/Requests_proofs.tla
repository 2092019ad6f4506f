---------------------------- MODULE Requests_proofs ----------------------------
(* Proofs about the host's control requests, for any script of the requests   *)
(* its wrappers make: what a transfer reports is what the handler answered.   *)
EXTENDS UsbControl, Tools, VendorRequests_proofs

-----------------------------------------------------------------------------
(* The requests.                                                            *)

CommandFields == {"op", "dir", "v", "i", "n", "data", "reads"}
Shape(c) == /\ "op" \in DOMAIN c /\ c.dir \in {"in", "out"} /\ c.v \in Words /\ c.data \in Words
            /\ c.n \in 0..258 /\ c.reads \in 0..c.n
\* A request to the vendor handler, and one that is answered elsewhere.
Vendor(c) == /\ Shape(c) /\ "recip" \notin DOMAIN c /\ c.op # "OS_VENDOR"
             /\ c.reads # 0 => <<c.op, c.reads>> \in Lengths
Standard(c) == /\ Shape(c) /\ "recip" \in DOMAIN c /\ c.recip \in {"device", "interface", "endpoint"}
               /\ c.op # "OS_VENDOR" /\ c.reads = 0
OsVendor(c) == /\ Shape(c) /\ "recip" \notin DOMAIN c /\ c.op = "OS_VENDOR" /\ c.reads = 0

LEMMA SmallWords == 0..772 \subseteq Words /\ {1006, 2402, 2480} \subseteq Words
<1>1. WordMax \in Nat /\ 2480 <= WordMax
  BY DEF WordMax
<1> QED BY <1>1 DEF Words

LEMMA OutVendor == \A op, i : \A v \in Words : op # "OS_VENDOR" => Vendor(Out(op, v, i))
  BY SmallWords DEF Out, Vendor, Shape

LEMMA OutDataVendor ==
  \A op : \A v, x \in Words : \A n \in 0..258 : op # "OS_VENDOR" => Vendor(OutData(op, v, n, x))
  BY SmallWords DEF OutData, Vendor, Shape

\* The answers' lengths, named for the same reason.
Answerable(op, k) == op # "OS_VENDOR" /\ (k # 0 => <<op, k>> \in Lengths)
Spans == 0..258

LEMMA InVendor == \A op : \A n \in Spans : \A k \in 0..n : Answerable(op, k) => Vendor(In(op, 0, n, k))
  BY SmallWords DEF In, Vendor, Shape, Answerable, Spans

LEMMA InsVendor ==
  /\ \A op \in {"GET_USRLED", "GET_RXLED", "GET_TXLED", "GET_MOD", "GET_PALEVEL", "GET_BOARD_ID", "GET_SQUELCH", "GET_CRC_VERIFY"} :
       Vendor(In(op, 0, 1, 1))
  /\ \A op \in {"GET_CLOCK", "GET_ACCESS_ADDRESS"} : Vendor(In(op, 0, 4, 4))
  /\ \A op \in {"GET_PARTNUM", "RANGE_CHECK"} : Vendor(In(op, 0, 5, 5))
  /\ \A op \in {"GET_CHANNEL", "READ_REGISTER"} : Vendor(In(op, 0, 2, 2))
  /\ Vendor(In("GET_SERIAL", 0, 17, 17)) /\ Vendor(In("PING", 0, 0, 0)) /\ Vendor(In("DO_SOMETHING_REPLY", 0, 2, 0))
  /\ Vendor(In("GET_REV_NUM", 0, 2 + 1 + 255, 3)) /\ Vendor(In("GET_COMPILE_INFO", 0, 1 + 255, 1)) /\ Vendor(PollCommand)
<1>1. /\ \A op \in {"GET_USRLED", "GET_RXLED", "GET_TXLED", "GET_MOD"} : Answerable(op, 1)
      /\ \A op \in {"GET_PALEVEL", "GET_BOARD_ID", "GET_SQUELCH", "GET_CRC_VERIFY"} : Answerable(op, 1)
  BY DEF Answerable, Lengths
<1>2. /\ \A op \in {"GET_CLOCK", "GET_ACCESS_ADDRESS"} : Answerable(op, 4)
      /\ \A op \in {"GET_PARTNUM", "RANGE_CHECK"} : Answerable(op, 5)
      /\ \A op \in {"GET_CHANNEL", "READ_REGISTER"} : Answerable(op, 2)
  BY DEF Answerable, Lengths
<1>3. /\ Answerable("GET_SERIAL", 17) /\ Answerable("GET_REV_NUM", 3) /\ Answerable("GET_COMPILE_INFO", 1)
      /\ Answerable("PING", 0) /\ Answerable("DO_SOMETHING_REPLY", 0) /\ Answerable("POLL", 0)
  BY DEF Answerable, Lengths
<1>4. /\ \A n \in {0, 1, 2, 4, 5, 17, 64} : n \in Spans /\ n \in 0..n /\ 0 \in 0..n
      /\ 2 + 1 + 255 \in Spans /\ 1 + 255 \in Spans /\ 3 \in 0..(2 + 1 + 255) /\ 1 \in 0..(1 + 255)
  BY DEF Spans
<1>5. /\ \A op : Answerable(op, 1) => Vendor(In(op, 0, 1, 1)) /\ Vendor(In(op, 0, 1 + 255, 1))
      /\ \A op : Answerable(op, 2) => Vendor(In(op, 0, 2, 2))
      /\ \A op : Answerable(op, 3) => Vendor(In(op, 0, 2 + 1 + 255, 3))
      /\ \A op : Answerable(op, 4) => Vendor(In(op, 0, 4, 4))
      /\ \A op : Answerable(op, 5) => Vendor(In(op, 0, 5, 5))
      /\ \A op : Answerable(op, 17) => Vendor(In(op, 0, 17, 17))
      /\ \A op : Answerable(op, 0) => Vendor(In(op, 0, 0, 0)) /\ Vendor(In(op, 0, 2, 0)) /\ Vendor(In(op, 0, 64, 0))
  BY <1>4, InVendor
<1>6. Vendor(In("POLL", 0, 64, 0)) => Vendor(PollCommand)
  BY DEF PollCommand
<1> QED BY <1>1, <1>2, <1>3, <1>5, <1>6

LEMMA CommandsVendor ==
  ASSUME Arguments \subseteq Words
  PROVE  \A c \in Commands(Arguments) : Vendor(c)
<1> USE SmallWords, OutVendor, OutDataVendor, InsVendor
<1>1. \A c \in PlainCommands(Arguments) : Vendor(c)
  BY DEF PlainCommands
<1>2. \A c \in PinCommands(Arguments) : Vendor(c)
  BY DEF PinCommands
<1>3. \A c \in StateCommands(Arguments) : Vendor(c)
  BY DEF StateCommands
<1>4. \A c \in RangeCommands(Arguments) : Vendor(c)
  BY DEF RangeCommands
<1>5. \A c \in FollowCommands(Arguments) : Vendor(c)
  BY DEF FollowCommands
<1>6. \A c \in LeCommands(Arguments) : Vendor(c)
  BY DEF LeCommands
<1>7. \A c \in TargetCommands(Arguments) : Vendor(c)
  <2>1. \A y \in {z \in Arguments : z <= 255} : y \in Words /\ y \in 0..258
    BY DEF Words
  <2>2. \A y \in {z \in Arguments : z <= 255} :
          Vendor(OutData("LE_SET_ADV_DATA", 0, y, 0)) /\ Vendor(OutData("BTLE_SET_TARGET", 0, 7, y))
    <3> HIDE OutVendor, OutDataVendor, InsVendor
    <3>1. 0 \in Words /\ 7 \in 0..258
      BY SmallWords
    <3> QED BY <2>1, <3>1 DEF OutData, Vendor, Shape
  <2>3. \A y \in Arguments : Vendor(Out("JAM_MODE", y, 0))
    OBVIOUS
  <2>4. Vendor(Out("BTLE_PROMISC", 0, 0)) /\ Vendor(In("READ_REGISTER", 0, 2, 2)) /\ Vendor(OutData("BTLE_SLAVE", 0, 6, 0))
    OBVIOUS
  <2> HIDE OutVendor, OutDataVendor, InsVendor
  <2> QED BY <2>2, <2>3, <2>4 DEF TargetCommands
<1>8. \A c \in RestCommands(Arguments) : Vendor(c)
  BY DEF RestCommands
<1>9. Vendor(PollCommand)
  OBVIOUS
<1> QED BY <1>1, <1>2, <1>3, <1>4, <1>5, <1>6, <1>7, <1>8, <1>9 DEF Commands

LEMMA StandardFacts == \A c \in StandardCommands : Standard(c)
<1>3. {0, 1, 5, 256, 512, 770, 771, 772, 1006} \subseteq Words
  BY SmallWords
<1>4. /\ \A x \in {"device", "interface", "endpoint"} : Standard(StdIn("GET_STATUS", x, 0, 2))
      /\ \A x \in {256, 512, 770, 771, 772, 1006} : Standard(StdIn("GET_DESCRIPTOR", "device", x, 255))
  BY <1>3, SmallWords DEF StdIn, Standard, Shape
<1>5. /\ Standard(StdIn("GET_CONFIGURATION", "device", 0, 1)) /\ Standard(StdIn("GET_INTERFACE", "interface", 0, 1))
  BY <1>3 DEF StdIn, Standard, Shape
<1>6. /\ Standard(StdOut("SET_ADDRESS", "device", 5)) /\ Standard(StdOut("SET_CONFIGURATION", "device", 1))
      /\ Standard(StdOut("SET_CONFIGURATION", "device", 0)) /\ Standard(StdOut("SET_INTERFACE", "interface", 0))
      /\ Standard(StdOut("SET_FEATURE", "endpoint", 0)) /\ Standard(StdOut("CLEAR_FEATURE", "endpoint", 0))
      /\ Standard(StdOut("SET_FEATURE", "device", 1))
  BY <1>3 DEF StdOut, Standard, Shape
<1> QED BY <1>4, <1>5, <1>6 DEF StandardCommands

LEMMA OsFacts == \A c \in OsCommands : OsVendor(c)
  BY SmallWords DEF OsCommands, In, OsVendor, Shape

LEMMA RequestFacts ==
  ASSUME Arguments \subseteq Words, NEW c \in HostRequests
  PROVE  Shape(c) /\ c # None /\ (Vendor(c) \/ Standard(c) \/ OsVendor(c))
<1>1. Vendor(c) \/ Standard(c) \/ OsVendor(c)
  BY CommandsVendor, StandardFacts, OsFacts DEF HostRequests
<1>2. Shape(c)
  BY <1>1 DEF Vendor, Standard, OsVendor
<1>3. DOMAIN None = {"none"}
  BY DEF None
<1> QED BY <1>1, <1>2, <1>3 DEF Shape

-----------------------------------------------------------------------------
(* The answers.                                                             *)

LEMMA Leasts == \A a, b \in Int : Least(a, b) \in Int /\ Least(a, b) <= a /\ Least(a, b) <= b /\ Least(a, b) \in {a, b}
  BY DEF Least

LEMMA StandardAnswers ==
  ASSUME NEW r, Standard(r), NEW h, h = USBHandleStandardRequest(r)
  PROVE  Sound(h)
<1>1. r.n \in Nat
  BY DEF Standard, Shape
<1>2. ASSUME NEW x, x = USBGetDescriptor(r) PROVE Sound(x)
  BY <1>1, <1>2 DEF USBGetDescriptor, abDescriptors, Sound
<1>3. \A f, u : /\ Sound([ok |-> TRUE, len |-> r.n, usb |-> u]) /\ Sound([ok |-> FALSE, len |-> r.n, usb |-> u])
                /\ Sound([ok |-> TRUE, len |-> 1, usb |-> u]) /\ Sound([ok |-> TRUE, len |-> 2, usb |-> u])
                /\ Sound([ok |-> r.v = 0, len |-> r.n, usb |-> u])
  BY <1>1 DEF Sound
<1>4. CASE h = HandleStdDeviceReq(r)
  BY <1>2, <1>3, <1>4, Zenon DEF HandleStdDeviceReq
<1>5. CASE h = HandleStdInterfaceReq(r)
  BY <1>3, <1>5, Zenon DEF HandleStdInterfaceReq
<1>6. CASE h = HandleStdEndPointReq(r)
  BY <1>3, <1>6, Zenon DEF HandleStdEndPointReq
<1>7. r.recip \in {"device", "interface", "endpoint"}
  BY DEF Standard
<1> QED BY <1>4, <1>5, <1>6, <1>7 DEF USBHandleStandardRequest

\* Whatever answers a request, it says yes or no and gives a length, one that
\* covers what the wrapper goes on to read.
LEMMA AnswerFacts ==
  ASSUME Arguments \subseteq Words, NEW c \in HostRequests, Device(dev), dev.build \in Nat, NEW h, h = HandleRequest(c)
  PROVE  Sound(h) /\ Device(h.dev) /\ h.dev.build \in Nat /\ (h.ok => h.len >= c.reads)
<1>1. Shape(c) /\ c.n \in Nat /\ c.v \in Words /\ c.data \in Words
  BY RequestFacts DEF Shape
<1>2. CASE Standard(c)
  <2>1. PICK std : std = USBHandleStandardRequest(c)
    OBVIOUS
  <2>2. h = [ok |-> std.ok, len |-> std.len, usb |-> std.usb, dev |-> dev]
    BY <1>2, <2>1 DEF HandleRequest, Standard
  <2>3. Sound(std)
    BY <1>2, <2>1, StandardAnswers
  <2>4. c.reads = 0
    BY <1>2 DEF Standard
  <2> QED BY <2>2, <2>3, <2>4 DEF Sound
<1>3. CASE OsVendor(c)
  <2>1. h = [ok |-> c.i \in {4, 5}, len |-> Least(c.n, IF c.i = 5 THEN 146 ELSE 40), usb |-> usb, dev |-> dev]
    BY <1>3 DEF HandleRequest, OsVendor, USBFilterOsVendorMessage
  <2>2. Least(c.n, IF c.i = 5 THEN 146 ELSE 40) \in Nat
    BY <1>1 DEF Least
  <2>3. c.reads = 0
    BY <1>3 DEF OsVendor
  <2> QED BY <2>1, <2>2, <2>3 DEF Sound
<1>4. CASE Vendor(c)
  <2>1. PICK ven : ven = vendor_request_handler(c, dev)
    OBVIOUS
  <2>2. h = [ok |-> ven.ok, len |-> ven.len, usb |-> usb, dev |-> ven.d]
    BY <1>4, <2>1 DEF HandleRequest, Vendor
  <2>3. Sound(ven)
    BY <1>1, <2>1, HandlerAnswers
  <2>4. Device(ven.d) /\ ven.d.build \in Nat
    BY <1>1, <2>1, HandlerHeeds DEF Heeds
  <2>5. c.reads # 0 => <<c.op, c.reads>> \in Lengths
    BY <1>4 DEF Vendor
  <2>6. c.reads # 0 => ven.len >= c.reads
    BY <2>1, <2>5, HandlerLengths
  <2>7. ven.len >= 0
    BY <2>3 DEF Sound
  <2> QED BY <2>2, <2>3, <2>4, <2>6, <2>7 DEF Sound
<1> QED BY <1>2, <1>3, <1>4, RequestFacts

-----------------------------------------------------------------------------
(* The inductive invariant.                                                 *)

Verdicts == {"none", "ok", "pipe", "error", "timeout", "nodevice"}
Callers == [phase : Phases, cmd : HostRequests, tag : Nat, got : 0..512, inOrder : BOOLEAN, left : 0..300, result : Verdicts]
Packets == [tag : Nat, off : Int, len : 1 - MaxPacketSize0..MaxPacketSize0]
Endpoints == [setup : HostRequests \cup {None}, out : {NoPacket} \cup 0..MaxPacketSize0, in : Packets \cup {None},
              acked : BOOLEAN, stalled : BOOLEAN]
Controls == [req : HostRequests, tag : Nat, residue : 1 - MaxPacketSize0..300, off : Int]

Active == caller.phase # "idle"
Now == ran[caller.tag]
Flying == IF ep.in = None THEN 0 ELSE ep.in.len
Arriving == IF ep.out = NoPacket THEN 0 ELSE ep.out
\* The device answers with packets of its own: at least the status stage's.
Reads(c) == c.dir = "in" \/ c.n = 0

Shapes == /\ caller \in Callers /\ ep \in Endpoints /\ ctl \in Controls /\ ran \in Seq(Seq(BOOLEAN))
          /\ caller.tag = Len(ran) /\ Device(dev) /\ dev.build \in Nat

\* While the SETUP packet waits nothing has happened for it yet.
Waiting ==
  ep.setup # None =>
    /\ ep.setup = caller.cmd /\ caller.tag > 0 /\ Now = << >>
    /\ ep.out = NoPacket /\ ep.in = None /\ ~ ep.stalled /\ (~ stale => ~ ep.acked)
    /\ caller.phase \in {AfterSetup(caller.cmd), "idle"} /\ caller.result \in {"none", "timeout", "nodevice"}
    /\ caller.got = 0 /\ caller.inOrder
    /\ caller.left = (IF caller.cmd.dir = "out" THEN caller.cmd.n ELSE 0)

\* Once it was read the firmware's request is the caller's.
InHand ==
  /\ (Active /\ ep.setup = None) \/ ep.out # NoPacket => ctl.tag = caller.tag /\ ctl.req = caller.cmd /\ caller.tag > 0
  /\ ep.out > 0 => ~ Reads(caller.cmd)
  /\ Active => caller.result = "none"
  /\ caller.phase = "datain" => caller.got < caller.cmd.n /\ caller.cmd.dir = "in"
  /\ caller.phase = "statusout" => caller.cmd.dir = "in" /\ caller.cmd.n > 0
  /\ caller.phase = "dataout" => ~ Reads(caller.cmd) /\ caller.left > 0
  /\ Active /\ Reads(caller.cmd) /\ ep.setup = None => ctl.residue >= 0 /\ (ep.in # None => ep.in.len >= 0)

\* A transfer whose SETUP was read is in one of five situations: the handler
\* refused it; the device left the bus in it; its data is still on the way to
\* the device; the answer is on the way to the host; only the device's empty
\* status packet is missing.
Quiet == ~ ep.stalled /\ ep.in = None /\ ~ ep.acked
Refused == caller.phase \in {"datain", "statusin"} /\ Now = <<FALSE>> /\ ep.stalled /\ ep.in = None /\ ~ ep.acked /\ ep.out = NoPacket
Vanished == caller.phase \in {"datain", "statusin"} /\ dev.gone /\ Quiet /\ ep.out = NoPacket
Receiving == /\ caller.phase \in {"dataout", "statusin"} /\ ~ Reads(caller.cmd) /\ Now = << >> /\ Quiet
             /\ ctl.residue = caller.left + Arriving /\ ctl.residue > 0
             /\ caller.phase = "statusin" => caller.left = 0
Replying == /\ caller.phase \in {"datain", "statusout"} /\ Now = <<TRUE>> /\ ~ ep.stalled /\ ep.out = NoPacket
            /\ caller.inOrder /\ ep.acked = (ep.in = None)
            /\ ctl.off = caller.got + Flying
            /\ caller.got + Flying + ctl.residue \in caller.cmd.reads..caller.cmd.n
            /\ ep.in # None => /\ ep.in.tag = caller.tag /\ ep.in.off = caller.got
                               /\ ep.in.len < MaxPacketSize0 => ctl.residue = 0
            /\ caller.phase = "statusout" => ctl.residue = 0 /\ Flying = 0
Acking == /\ caller.phase = "statusin" /\ Now = <<TRUE>> /\ ~ ep.stalled /\ ep.out = NoPacket
          /\ ~ ep.acked /\ ep.in # None /\ ep.in.len = 0
          /\ caller.cmd.dir = "in" => caller.inOrder /\ caller.got = 0 /\ caller.cmd.n = 0

Staged == ~ stale /\ Active /\ ep.setup = None => Refused \/ Vanished \/ Receiving \/ Replying \/ Acking
Judged == ~ stale /\ caller.result \in {"ok", "pipe"} =>
            /\ ~ Active /\ ep.setup = None /\ ep.out \in {NoPacket, 0}
            /\ ep.out = 0 => Reads(caller.cmd)
ControlInv == Shapes /\ Waiting /\ InHand /\ Staged /\ Judged /\ ResultHonest /\ ReplyWhole

LEMMA Numbers == NoPacket \in Int /\ NoPacket < 0 /\ MaxPacketSize0 = 64
  BY DEF NoPacket, MaxPacketSize0

LEMMA Requested ==
  \A c \in HostRequests : /\ c.dir \in {"in", "out"} /\ c.n \in 0..258 /\ c.reads \in 0..c.n /\ c # None
  BY RequestFacts, ControlAssumption DEF Shape

LEMMA NoneIsNone == None \notin Packets
<1>1. DOMAIN None = {"none"}
  BY DEF None
<1>2. \A p \in Packets : "tag" \in DOMAIN p
  BY DEF Packets
<1> QED BY <1>1, <1>2

LEMMA ControlInit == UsbInit => ControlInv
<1> SUFFICES ASSUME UsbInit PROVE ControlInv
  OBVIOUS
<1>1. NoTransfer \in HostRequests
  BY DEF NoTransfer, HostRequests, Commands, PlainCommands
<1>2. /\ caller.phase = "idle" /\ caller.tag = 0 /\ caller.got = 0 /\ caller.inOrder = TRUE /\ caller.left = 0
      /\ caller.result = "none" /\ caller.cmd = NoTransfer
  BY DEF UsbInit
<1>3. ep.setup = None /\ ep.out = NoPacket /\ ep.in = None /\ ep.acked = FALSE /\ ep.stalled = FALSE
  BY DEF UsbInit
<1>4. Device(dev) /\ dev.build \in Nat
  <2>1. PICK queue : dev = InitialDevice(queue)
    BY DEF UsbInit
  <2>2. dev.build \in Nat
    BY <2>1 DEF InitialDevice
  <2> QED BY <2>1, <2>2, InitiallyIdle
<1>5. Shapes
  <2>1. caller \in Callers
    BY <1>1 DEF UsbInit, Callers, Phases, Verdicts
  <2>2. ep \in Endpoints
    BY DEF UsbInit, Endpoints
  <2>3. ctl \in Controls
    BY <1>1, Numbers DEF UsbInit, Controls
  <2>4. ran = << >> /\ ran \in Seq(Seq(BOOLEAN)) /\ Len(ran) = 0
    BY DEF UsbInit
  <2> QED BY <1>2, <1>4, <2>1, <2>2, <2>3, <2>4 DEF Shapes
<1> QED BY <1>2, <1>3, <1>5, Numbers
        DEF ControlInv, Waiting, InHand, Active, Staged, Judged, ResultHonest, ReplyWhole

-----------------------------------------------------------------------------
(* Every step keeps it.  The caller's steps first.                          *)

LEMMA CallerIs ==
  ASSUME Shapes
  PROVE  /\ caller.phase \in Phases /\ caller.cmd \in HostRequests /\ caller.tag \in Nat /\ caller.got \in 0..512
         /\ caller.inOrder \in BOOLEAN /\ caller.left \in 0..300 /\ caller.result \in Verdicts
         /\ caller.cmd.dir \in {"in", "out"} /\ caller.cmd.n \in 0..258 /\ caller.cmd.reads \in 0..caller.cmd.n
         /\ caller.cmd # None
<1>1. caller \in Callers
  BY DEF Shapes
<1>2. /\ caller.phase \in Phases /\ caller.cmd \in HostRequests /\ caller.tag \in Nat /\ caller.got \in 0..512
      /\ caller.inOrder \in BOOLEAN /\ caller.left \in 0..300 /\ caller.result \in Verdicts
  BY <1>1 DEF Callers
<1> QED BY <1>2, Requested

LEMMA EndpointIs ==
  ASSUME Shapes
  PROVE  /\ ep.setup \in HostRequests \cup {None} /\ ep.out \in {NoPacket} \cup 0..64 /\ ep.out \in Int
         /\ ep.in \in Packets \cup {None} /\ ep.acked \in BOOLEAN /\ ep.stalled \in BOOLEAN
         /\ ep.in # None => ep.in.tag \in Nat /\ ep.in.off \in Int /\ ep.in.len \in -63..64
<1>1. ep \in Endpoints
  BY DEF Shapes
<1>2. /\ ep.setup \in HostRequests \cup {None} /\ ep.out \in {NoPacket} \cup 0..MaxPacketSize0
      /\ ep.in \in Packets \cup {None} /\ ep.acked \in BOOLEAN /\ ep.stalled \in BOOLEAN
  BY <1>1 DEF Endpoints
<1>3. \A p \in Packets : p.tag \in Nat /\ p.off \in Int /\ p.len \in -63..64
  BY Numbers DEF Packets
<1> QED BY <1>2, <1>3, Numbers

LEMMA ControlIs ==
  ASSUME Shapes
  PROVE  ctl.req \in HostRequests /\ ctl.tag \in Nat /\ ctl.residue \in -63..300 /\ ctl.off \in Int
<1>1. ctl \in Controls
  BY DEF Shapes
<1> QED BY <1>1, Numbers DEF Controls

\* The ranges of the numbers, named so that a prover which does no arithmetic is
\* not shown them.
Gots == 0..512
Sizes == 0..258
Lefts == 0..300
Payloads == 0..64
Residues == -63..300

LEMMA CallerRanges ==
  Shapes => caller \in Callers /\ caller.got \in Gots /\ caller.left \in Lefts /\ caller.cmd.n \in Sizes /\ caller.result \in Verdicts
<1>1. Shapes => caller \in Callers
  BY DEF Shapes
<1> QED BY <1>1, CallerIs DEF Gots, Lefts, Sizes

\* What the steps change of the caller.
Taken(c, p, g, o, l, r) == [c EXCEPT !.phase = p, !.got = g, !.inOrder = o, !.left = l, !.result = r]

LEMMA CallerTakes ==
  \A h \in Callers : \A c, p, g, o, l, r :
    c = Taken(h, p, g, o, l, r) => /\ c.phase = p /\ c.got = g /\ c.inOrder = o /\ c.left = l /\ c.result = r
                                   /\ c.cmd = h.cmd /\ c.tag = h.tag
  BY DEF Taken, Callers

LEMMA CallerStays ==
  \A h \in Callers : \A p \in Phases, g \in Gots, o \in BOOLEAN, l \in Lefts, r \in Verdicts :
    Taken(h, p, g, o, l, r) \in Callers
<1> SUFFICES ASSUME NEW h \in Callers, NEW p \in Phases, NEW g \in Gots, NEW o \in BOOLEAN, NEW l \in Lefts,
                    NEW r \in Verdicts
             PROVE  Taken(h, p, g, o, l, r) \in Callers
  OBVIOUS
<1> PICK c : c = Taken(h, p, g, o, l, r)
  OBVIOUS
<1>1. /\ DOMAIN h = {"phase", "cmd", "tag", "got", "inOrder", "left", "result"}
      /\ h.cmd \in HostRequests /\ h.tag \in Nat
  BY DEF Callers
<1>2. DOMAIN c = DOMAIN h
  BY DEF Taken
<1>3. c = [phase |-> p, cmd |-> h.cmd, tag |-> h.tag, got |-> g, inOrder |-> o, left |-> l, result |-> r]
  BY <1>1, <1>2 DEF Taken
<1> QED BY <1>1, <1>3 DEF Callers, Gots, Lefts

\* Sums of fields, for the provers.
LEMMA Fits == \A g \in Gots, n \in Sizes, l \in Payloads : g < n => g + l \in Gots
  BY DEF Gots, Sizes, Payloads

LEMMA Ends == \A g \in Gots, n \in Sizes, r \in Lefts : \A k \in 0..n : g + r \in k..n => (g >= n => r = 0)
  BY DEF Gots, Sizes, Lefts

LEMMA Compare == \A g \in Gots, n \in Sizes : (g >= n \/ g < n) /\ (g < n => n > 0) /\ g + 0 = g
  BY DEF Gots, Sizes

LEMMA StepTakeData == ASSUME ControlInv, TakeData PROVE ControlInv'
<1> USE DEF ControlInv
<1>1. /\ caller.phase = "datain" /\ ep.in \in Packets /\ ep.in # None /\ ep.setup = None /\ Active
  BY EndpointIs DEF TakeData, Waiting, Active
<1>2. /\ caller.cmd.dir = "in" /\ caller.got < caller.cmd.n /\ Reads(caller.cmd) /\ ep.in.len \in 0..64
      /\ ctl.residue \in 0..300 /\ caller.result = "none" /\ ctl.tag = caller.tag /\ ctl.req = caller.cmd /\ caller.tag > 0
      /\ ~ (ep.out > 0)
  <2>1. InHand
    OBVIOUS
  <2>2. caller.cmd.dir = "in" /\ Reads(caller.cmd) /\ caller.result = "none"
    BY <1>1, <2>1 DEF InHand, Reads
  <2> QED BY <1>1, <2>1, <2>2, EndpointIs, ControlIs DEF InHand
<1> DEFINE got == caller.got + ep.in.len
           last == ep.in.len < 64 \/ got >= caller.cmd.n
           phase == IF last THEN "statusout" ELSE "datain"
           ord == caller.inOrder /\ ep.in.tag = caller.tag /\ ep.in.off = caller.got
<1>3. got \in 0..512 /\ caller.cmd.n > 0 /\ (got >= caller.cmd.n \/ got < caller.cmd.n) /\ got + 0 = got
  <2>1. caller.got \in Gots /\ caller.cmd.n \in Sizes /\ ep.in.len \in Payloads /\ caller.got < caller.cmd.n
    BY <1>2, CallerRanges DEF Payloads
  <2>2. got \in Gots
    BY <2>1, Fits, Zenon
  <2>3. caller.cmd.n > 0
    BY <2>1, Compare, Zenon
  <2> HIDE DEF got
  <2> QED BY <2>1, <2>2, <2>3 DEF Gots, Sizes
<1>4. caller' = Taken(caller, phase, got, ord, caller.left, caller.result)
  BY <1>1, Numbers DEF TakeData, Taken, Shapes, Callers
<1>5. /\ caller' \in Callers /\ caller'.phase = phase /\ caller'.got = got
      /\ caller'.inOrder = ord /\ caller'.left = caller.left /\ caller'.result = caller.result
      /\ caller'.cmd = caller.cmd /\ caller'.tag = caller.tag
  <2>1. phase \in Phases
    BY DEF Phases
  <2>2. ord \in BOOLEAN
    BY Zenon
  <2> HIDE DEF got, last, ord, phase
  <2>3. caller \in Callers /\ caller.left \in Lefts /\ caller.result \in Verdicts
    BY CallerRanges
  <2>4. got \in Gots
    BY <1>3 DEF Gots
  <2> HIDE DEF ControlInv
  <2>5. caller' \in Callers
    BY <1>4, <2>1, <2>2, <2>3, <2>4, CallerStays, Zenon
  <2> QED BY <1>4, <2>3, <2>5, CallerTakes
<1>6. /\ ep' \in Endpoints /\ ep'.setup = None /\ ep'.out = ep.out /\ ep'.in = None /\ ep'.acked = TRUE
      /\ ep'.stalled = ep.stalled
  BY <1>1 DEF TakeData, Took, Shapes, Endpoints
<1>7. UNCHANGED <<ctl, dev, usb, ran, stale>>
  BY DEF TakeData
<1>8. Shapes'
  BY <1>5, <1>6, <1>7 DEF Shapes
<1>9. Waiting'
  BY <1>6 DEF Waiting
<1>10. InHand'
  <2>1. caller'.phase \in {"datain", "statusout"} /\ (caller'.phase = "datain" => got < caller.cmd.n)
    <3> HIDE DEF ControlInv, got
    <3> QED BY <1>3, <1>5, Zenon
  <2> HIDE DEF ControlInv, got, last, ord, phase
  <2>2. /\ caller'.phase \in {"datain", "statusout"} /\ (caller'.phase = "datain" => caller'.got < caller'.cmd.n)
        /\ caller'.cmd.dir = "in" /\ caller'.cmd.n > 0 /\ Reads(caller'.cmd) /\ caller'.result = "none"
        /\ ctl'.tag = caller'.tag /\ ctl'.req = caller'.cmd /\ caller'.tag > 0 /\ ~ (ep'.out > 0) /\ ctl'.residue >= 0
        /\ ep'.in = None
    BY <1>2, <1>3, <1>5, <1>6, <1>7, <2>1
  <2> QED BY <2>2 DEF InHand, Active
<1>11. ASSUME ~ stale PROVE Replying'
  <2>1. Replying
    BY <1>1, <1>11 DEF Staged, Refused, Vanished, Quiet, Receiving, Acking
  <2>2. /\ ran[caller.tag] = <<TRUE>> /\ ~ ep.stalled /\ ep.out = NoPacket /\ caller.inOrder
        /\ ep.in.tag = caller.tag /\ ep.in.off = caller.got /\ ctl.off = got
        /\ got + ctl.residue \in caller.cmd.reads..caller.cmd.n
        /\ ep.in.len < 64 => ctl.residue = 0
    BY <1>1, <2>1, Numbers DEF Replying, Now, Flying
  <2>3. last => ctl.residue = 0
    <3>1. got >= caller.cmd.n => ctl.residue = 0
      <4>1. got \in Gots /\ caller.cmd.n \in Sizes /\ ctl.residue \in Lefts /\ caller.cmd.reads \in 0..caller.cmd.n
        BY <1>2, <1>3, CallerIs DEF Gots, Sizes, Lefts
      <4>2. got + ctl.residue \in caller.cmd.reads..caller.cmd.n
        BY <2>2
      <4> HIDE DEF got, ControlInv
      <4> QED BY <4>1, <4>2, Ends, Zenon
    <3> QED BY <2>2, <3>1
  <2>4. Flying' = 0 /\ Now' = <<TRUE>> /\ ord
    BY <1>5, <1>6, <1>7, <2>2 DEF Flying, Now
  <2> HIDE DEF ControlInv, last, ord, got
  <2>5. /\ caller'.phase \in {"datain", "statusout"} /\ ~ ep'.stalled /\ ep'.out = NoPacket /\ ep'.in = None /\ ep'.acked = TRUE
        /\ (caller'.phase = "statusout" => ctl'.residue = 0)
    BY <1>5, <1>6, <1>7, <2>2, <2>3
  <2>6. caller'.inOrder
    BY <1>5, <2>4
  <2>7. /\ ctl'.off = caller'.got + Flying' /\ caller'.got + Flying' + ctl'.residue \in caller'.cmd.reads..caller'.cmd.n
    BY <1>3, <1>5, <1>7, <2>2, <2>4
  <2> QED BY <2>4, <2>5, <2>6, <2>7 DEF Replying
<1>12. Staged' /\ Judged' /\ ResultHonest' /\ ReplyWhole'
  BY <1>2, <1>5, <1>7, <1>11 DEF Staged, Judged, ResultHonest, ReplyWhole
<1> QED BY <1>8, <1>9, <1>10, <1>12

\* The steps that end the transfer in hand.
LEMMA Finishes ==
  ASSUME Shapes, NEW res \in Verdicts, caller' = Finished(caller, res)
  PROVE  /\ caller' \in Callers /\ caller'.phase = "idle" /\ caller'.result = res /\ caller'.cmd = caller.cmd
         /\ caller'.tag = caller.tag /\ caller'.got = caller.got /\ caller'.inOrder = caller.inOrder
         /\ caller'.left = caller.left /\ ~ Active'
<1>1. caller \in Callers
  BY DEF Shapes
<1>2. caller' = Taken(caller, "idle", caller.got, caller.inOrder, caller.left, res)
  BY <1>1 DEF Finished, Taken, Callers
<1>3. caller' \in Callers
  <2>1. "idle" \in Phases
    BY DEF Phases
  <2>2. caller.got \in Gots /\ caller.inOrder \in BOOLEAN /\ caller.left \in Lefts
    BY CallerIs, CallerRanges
  <2>3. Taken(caller, "idle", caller.got, caller.inOrder, caller.left, res) \in Callers
    BY <1>1, <2>1, <2>2, CallerStays, Zenon
  <2> QED BY <1>2, <2>3, Zenon
<1> QED BY <1>1, <1>2, <1>3, CallerTakes DEF Active

LEMMA StepTakeStatus == ASSUME ControlInv, TakeStatus PROVE ControlInv'
<1> USE DEF ControlInv
<1>1. caller.phase = "statusin" /\ ep.in \in Packets /\ ep.in # None /\ ep.setup = None /\ Active
  BY EndpointIs DEF TakeStatus, Waiting, Active
<1> DEFINE res == IF ep.in.len = 0 THEN "ok" ELSE "error"
<1>2. res \in Verdicts /\ caller' = Finished(caller, res)
  BY DEF TakeStatus, Verdicts
<1>3. /\ caller' \in Callers /\ caller'.phase = "idle" /\ caller'.result = res /\ caller'.cmd = caller.cmd
      /\ caller'.tag = caller.tag /\ caller'.got = caller.got /\ caller'.inOrder = caller.inOrder /\ ~ Active'
  <2> HIDE DEF res
  <2> QED BY <1>2, Finishes
<1>4. /\ ep' \in Endpoints /\ ep'.setup = None /\ ep'.out = ep.out /\ ep'.in = None
  BY <1>1 DEF TakeStatus, Took, Shapes, Endpoints
<1>5. UNCHANGED <<ctl, dev, usb, ran, stale>>
  BY DEF TakeStatus
<1>6. Shapes'
  BY <1>3, <1>4, <1>5 DEF Shapes
<1>7. Waiting' /\ Staged'
  BY <1>3, <1>4 DEF Waiting, Staged
<1>8. InHand'
  BY <1>1, <1>3, <1>4, <1>5 DEF InHand, Active
<1>9. ASSUME ~ stale PROVE Judged' /\ ResultHonest' /\ ReplyWhole'
  <2>1. Acking
    BY <1>1, <1>9 DEF Staged, Refused, Vanished, Quiet, Receiving, Replying
  <2>2. /\ ran[caller.tag] = <<TRUE>> /\ ep.out = NoPacket /\ res = "ok"
        /\ caller.cmd.dir = "in" => caller.inOrder /\ caller.got = 0 /\ caller.cmd.n = 0
    BY <2>1 DEF Acking, Now
  <2> HIDE DEF ControlInv
  <2>3. Judged'
    BY <1>3, <1>4, <2>2, Numbers DEF Judged
  <2>4. ResultHonest'
    BY <1>3, <1>5, <2>2 DEF ResultHonest
  <2>5. ReplyWhole'
    <3>1. caller.cmd.n = 0 => caller.cmd.reads = 0
      BY CallerIs DEF ControlInv
    <3> QED BY <1>3, <2>2, <3>1 DEF ReplyWhole
  <2> QED BY <2>3, <2>4, <2>5
<1> QED BY <1>5, <1>6, <1>7, <1>8, <1>9 DEF Judged, ResultHonest, ReplyWhole

LEMMA StepSendStatus == ASSUME ControlInv, SendStatus PROVE ControlInv'
<1> USE DEF ControlInv
<1>1. caller.phase = "statusout" /\ ep.setup = None /\ ep.out = NoPacket /\ Active
  BY DEF SendStatus, Active
<1>2. /\ caller' \in Callers /\ caller'.phase = "idle" /\ caller'.result = "ok" /\ caller'.cmd = caller.cmd
      /\ caller'.tag = caller.tag /\ caller'.got = caller.got /\ caller'.inOrder = caller.inOrder /\ ~ Active'
  <2>1. "ok" \in Verdicts /\ caller' = Finished(caller, "ok")
    BY DEF SendStatus, Verdicts
  <2> QED BY <2>1, Finishes
<1>3. /\ ep' \in Endpoints /\ ep'.setup = None /\ ep'.out = 0
  <2>1. 0 \in {NoPacket} \cup 0..MaxPacketSize0
    BY Numbers
  <2> QED BY <1>1, <2>1 DEF SendStatus, Shapes, Endpoints
<1>4. UNCHANGED <<ctl, dev, usb, ran, stale>>
  BY DEF SendStatus
<1>5. Shapes'
  BY <1>2, <1>3, <1>4 DEF Shapes
<1>6. Waiting' /\ Staged'
  BY <1>2, <1>3 DEF Waiting, Staged
<1>7. ctl.tag = caller.tag /\ ctl.req = caller.cmd /\ caller.tag > 0 /\ Reads(caller.cmd)
  BY <1>1 DEF InHand, Reads
<1>8. InHand'
  BY <1>2, <1>3, <1>4, <1>7, Numbers DEF InHand, Active
<1>9. ASSUME ~ stale PROVE Judged' /\ ResultHonest' /\ ReplyWhole'
  <2>1. Replying
    BY <1>1, <1>9 DEF Staged, Refused, Vanished, Receiving, Acking
  <2>2. /\ ran[caller.tag] = <<TRUE>> /\ caller.inOrder
        /\ caller.got + 0 + 0 \in caller.cmd.reads..caller.cmd.n
    BY <1>1, <2>1 DEF Replying, Now
  <2>3. caller.got >= caller.cmd.reads /\ caller.got <= caller.cmd.n
    BY <2>2, CallerIs
  <2> HIDE DEF ControlInv
  <2> QED BY <1>2, <1>3, <1>4, <1>7, <2>2, <2>3 DEF Judged, ResultHonest, ReplyWhole
<1> QED BY <1>4, <1>5, <1>6, <1>8, <1>9 DEF Judged, ResultHonest, ReplyWhole

LEMMA StepStalled == ASSUME ControlInv, Stalled PROVE ControlInv'
<1> USE DEF ControlInv
<1>1. Active /\ ep.setup = None /\ ep.stalled
  BY DEF Stalled, Idle, Active, Waiting
<1>2. /\ caller' \in Callers /\ caller'.phase = "idle" /\ caller'.result = "pipe" /\ caller'.cmd = caller.cmd
      /\ caller'.tag = caller.tag /\ ~ Active'
  <2>1. "pipe" \in Verdicts /\ caller' = Finished(caller, "pipe")
    BY DEF Stalled, Verdicts
  <2> QED BY <2>1, Finishes
<1>3. UNCHANGED <<ep, ctl, dev, usb, ran, stale>>
  BY DEF Stalled
<1>4. Shapes'
  BY <1>2, <1>3 DEF Shapes
<1>5. Waiting' /\ Staged'
  BY <1>1, <1>2, <1>3 DEF Waiting, Staged
<1>6. InHand'
  BY <1>1, <1>2, <1>3 DEF InHand, Active
<1>7. ASSUME ~ stale PROVE Refused
  BY <1>1, <1>7 DEF Staged, Vanished, Quiet, Receiving, Replying, Acking
<1>8. ~ stale => ran[caller.tag] = <<FALSE>> /\ ep.out = NoPacket
  BY <1>7 DEF Refused, Now
<1>9. Judged'
  BY <1>1, <1>2, <1>3, <1>8, Numbers DEF Judged
<1>10. ResultHonest' /\ ReplyWhole'
  BY <1>2, <1>3, <1>8 DEF ResultHonest, ReplyWhole
<1> QED BY <1>4, <1>5, <1>6, <1>9, <1>10

LEMMA StepGivesUp == ASSUME ControlInv, NoDevice \/ Timeout PROVE ControlInv'
<1> USE DEF ControlInv
<1>1. Active
  BY DEF NoDevice, Timeout, Idle, Active
<1>2. PICK res \in {"nodevice", "timeout"} : caller' = Finished(caller, res)
  BY DEF NoDevice, Timeout
<1>3. /\ caller' \in Callers /\ caller'.phase = "idle" /\ caller'.result = res /\ caller'.cmd = caller.cmd
      /\ caller'.tag = caller.tag /\ caller'.got = caller.got /\ caller'.inOrder = caller.inOrder
      /\ caller'.left = caller.left /\ ~ Active'
  BY <1>2, Finishes DEF Verdicts
<1>4. UNCHANGED <<ep, ctl, dev, usb, ran, stale>>
  BY DEF NoDevice, Timeout
<1>5. Shapes'
  BY <1>3, <1>4 DEF Shapes
<1>6. Waiting'
  BY <1>3, <1>4 DEF Waiting, Now
<1>7. InHand'
  BY <1>1, <1>3, <1>4 DEF InHand, Active
<1>8. Staged' /\ Judged' /\ ResultHonest' /\ ReplyWhole'
  BY <1>3, <1>4 DEF Staged, Judged, ResultHonest, ReplyWhole
<1> QED BY <1>5, <1>6, <1>7, <1>8

LEMMA StepUsbReset == ASSUME ControlInv, HandleUsbReset PROVE ControlInv'
<1> USE DEF ControlInv
<1>1. /\ ep'.setup = None /\ ep'.out = NoPacket /\ ep' \in Endpoints
  BY DEF HandleUsbReset, Endpoints
<1>2. UNCHANGED <<ctl, dev, ran, stale>>
  BY DEF HandleUsbReset
<1>3. /\ caller' \in Callers /\ caller'.tag = caller.tag /\ ~ Active' /\ caller'.phase = "idle"
      /\ caller' = caller \/ caller'.result = "error"
  <2>1. CASE Idle
    BY <2>1 DEF HandleUsbReset, Idle, Shapes, Active
  <2>2. CASE ~ Idle
    <3>1. "error" \in Verdicts /\ caller' = Finished(caller, "error")
      BY <2>2 DEF HandleUsbReset, Verdicts
    <3> QED BY <3>1, Finishes
  <2> QED BY <2>1, <2>2
<1>4. Shapes'
  BY <1>1, <1>2, <1>3 DEF Shapes
<1>5. Waiting' /\ InHand' /\ Staged'
  BY <1>1, <1>3, Numbers DEF Waiting, InHand, Staged
<1>6. Judged'
  BY <1>1, <1>2, <1>3, Numbers DEF Judged
<1>7. ResultHonest' /\ ReplyWhole'
  <2>1. CASE caller' = caller
    BY <1>2, <2>1 DEF ResultHonest, ReplyWhole
  <2>2. CASE caller'.result = "error"
    BY <2>2 DEF ResultHonest, ReplyWhole
  <2> QED BY <1>3, <2>1, <2>2
<1> QED BY <1>4, <1>5, <1>6, <1>7

LEMMA StepMainLoopResets == ASSUME ControlInv, MainLoopResets PROVE ControlInv'
<1> USE DEF ControlInv
<1>1. UNCHANGED <<caller, ep, ctl, usb, ran, stale>> /\ dev' = [dev EXCEPT !.gone = TRUE]
  BY DEF MainLoopResets
<1>2. Device(dev') /\ dev'.build = dev.build /\ dev'.gone = TRUE
  BY <1>1, FieldsAre DEF Shapes, Device, DeviceTypes
<1>3. Shapes'
  BY <1>1, <1>2 DEF Shapes
<1>4. Waiting' /\ InHand'
  BY <1>1 DEF Waiting, InHand, Active, Now
<1>5. Judged' /\ ResultHonest' /\ ReplyWhole'
  BY <1>1 DEF Judged, ResultHonest, ReplyWhole, Active
<1>6. Staged'
  <2>1. /\ Refused => Refused'
        /\ Vanished => Vanished'
        /\ Receiving => Receiving'
        /\ Replying => Replying'
        /\ Acking => Acking'
    BY <1>1, <1>2 DEF Refused, Vanished, Receiving, Replying, Acking, Now, Flying, Arriving, Quiet
  <2> QED BY <1>1, <2>1 DEF Staged, Active
<1> QED BY <1>3, <1>4, <1>5, <1>6

LEMMA StepTransfer == ASSUME ControlInv, NEW cmd \in HostRequests, libusb_control_transfer(cmd) PROVE ControlInv'
<1> USE DEF ControlInv
<1> DEFINE left == IF cmd.dir = "out" THEN cmd.n ELSE 0
<1>1. cmd.dir \in {"in", "out"} /\ cmd.n \in 0..258 /\ cmd.reads \in 0..cmd.n /\ cmd # None
  BY Requested
<1>2. left \in 0..300 /\ AfterSetup(cmd) \in Phases /\ AfterSetup(cmd) # "idle"
  BY <1>1 DEF AfterSetup, Phases
<1>3. caller' = [phase |-> AfterSetup(cmd), cmd |-> cmd, tag |-> Len(ran) + 1, got |-> 0, inOrder |-> TRUE,
                 left |-> left, result |-> "none"]
  BY DEF libusb_control_transfer, Setup
<1>4. /\ caller' \in Callers /\ caller'.phase = AfterSetup(cmd) /\ caller'.cmd = cmd /\ caller'.tag = Len(ran) + 1
      /\ caller'.got = 0 /\ caller'.inOrder = TRUE /\ caller'.left = left /\ caller'.result = "none"
  <2>1. Len(ran) + 1 \in Nat /\ "none" \in Verdicts
    BY DEF Shapes, Verdicts
  <2> HIDE DEF left
  <2> QED BY <1>2, <1>3, <2>1 DEF Callers
<1>5. /\ ep'.setup = cmd /\ ep'.out = NoPacket /\ ep'.in = None /\ ep'.stalled = FALSE /\ ep'.acked = ep.acked
      /\ ep' \in Endpoints
  BY DEF libusb_control_transfer, Setup, Shapes, Endpoints
<1>6. UNCHANGED <<ctl, dev>> /\ ran' = Append(ran, << >>) /\ stale' = (stale \/ ep.acked)
  BY DEF libusb_control_transfer, Setup
<1>7. /\ ran' \in Seq(Seq(BOOLEAN)) /\ Len(ran') = Len(ran) + 1 /\ ran'[Len(ran) + 1] = << >> /\ Len(ran) \in Nat
  <2>1. << >> \in Seq(BOOLEAN) /\ ran \in Seq(Seq(BOOLEAN))
    BY DEF Shapes
  <2> QED BY <1>6, <2>1
<1>8. Shapes'
  BY <1>4, <1>5, <1>6, <1>7 DEF Shapes
<1>9. Waiting'
  <2>1. caller'.tag > 0 /\ Now' = << >>
    BY <1>4, <1>7 DEF Now
  <2> QED BY <1>4, <1>5, <1>6, <2>1 DEF Waiting
<1>10. InHand'
  <2>1. /\ caller'.phase # "statusout" /\ (caller'.phase = "datain" => 0 < cmd.n /\ cmd.dir = "in")
        /\ (caller'.phase = "dataout" => cmd.dir = "out" /\ cmd.n > 0)
    <3>1. CASE cmd.n = 0
      BY <1>4, <3>1 DEF AfterSetup
    <3>2. CASE cmd.n > 0 /\ cmd.dir = "in"
      BY <1>4, <3>2 DEF AfterSetup
    <3>3. CASE cmd.n > 0 /\ cmd.dir = "out"
      BY <1>4, <3>3 DEF AfterSetup
    <3> QED BY <1>1, <3>1, <3>2, <3>3
  <2>2. ~ (ep'.out > 0) /\ ep'.setup # None
    BY <1>1, <1>5, Numbers
  <2>3. caller'.phase = "dataout" => ~ Reads(cmd) /\ left > 0
    BY <1>1, <2>1 DEF Reads
  <2> HIDE DEF left
  <2> QED BY <1>4, <1>5, <2>1, <2>2, <2>3 DEF InHand
<1>11. Staged' /\ Judged' /\ ResultHonest' /\ ReplyWhole'
  BY <1>1, <1>4, <1>5 DEF Staged, Judged, ResultHonest, ReplyWhole
<1> QED BY <1>8, <1>9, <1>10, <1>11

LEMMA Parts == \A l \in Lefts : l > 0 => /\ Least(64, l) \in 1..64 /\ l - Least(64, l) \in Lefts
                                          /\ (l = Least(64, l) <=> l - Least(64, l) = 0)
                                          /\ l - Least(64, l) + Least(64, l) = l /\ l + 0 = l
                                          /\ (l - Least(64, l) > 0 \/ l - Least(64, l) = 0)
  BY DEF Least, Lefts

LEMMA StepSendData == ASSUME ControlInv, SendData PROVE ControlInv'
<1> USE DEF ControlInv
<1>1. caller.phase = "dataout" /\ ep.setup = None /\ ep.out = NoPacket /\ Active /\ ~ ep.stalled
  BY DEF SendData, Active
<1>2. /\ ~ Reads(caller.cmd) /\ caller.left > 0 /\ caller.result = "none" /\ ctl.tag = caller.tag /\ ctl.req = caller.cmd
      /\ caller.tag > 0
  BY <1>1 DEF InHand
<1> DEFINE n == Least(64, caller.left)
           phase == IF caller.left = n THEN "statusin" ELSE "dataout"
           left == caller.left - n
<1>3. n \in 1..64 /\ left \in 0..300 /\ (caller.left = n <=> left = 0) /\ left + n = caller.left /\ (left > 0 \/ left = 0)
      /\ caller.left + 0 = caller.left
  <2>1. /\ n \in 1..64 /\ left \in Lefts /\ (caller.left = n <=> left = 0) /\ left + n = caller.left /\ (left > 0 \/ left = 0)
        /\ caller.left + 0 = caller.left
    BY <1>2, CallerRanges, Parts, Zenon
  <2> HIDE DEF n, left
  <2> QED BY <2>1 DEF Lefts
<1> HIDE DEF n, left
<1>4. caller' = Taken(caller, phase, caller.got, caller.inOrder, left, caller.result)
  BY <1>1, Numbers DEF SendData, Taken, Shapes, Callers, n, left
<1>5. /\ caller' \in Callers /\ caller'.phase = phase /\ caller'.got = caller.got
      /\ caller'.left = left /\ caller'.result = caller.result
      /\ caller'.cmd = caller.cmd /\ caller'.tag = caller.tag
  <2>1. phase \in Phases
    BY DEF Phases
  <2>2. caller \in Callers
    BY DEF Shapes
  <2>3. caller.got \in Gots /\ caller.inOrder \in BOOLEAN /\ caller.result \in Verdicts /\ left \in Lefts
    BY <1>3, CallerIs, CallerRanges DEF Lefts
  <2> HIDE DEF ControlInv, phase
  <2>4. Taken(caller, phase, caller.got, caller.inOrder, left, caller.result) \in Callers
    BY <2>1, <2>2, <2>3, CallerStays, Zenon
  <2>5. caller' \in Callers
    BY <1>4, <2>4, Zenon
  <2> QED BY <1>4, <2>2, <2>5, CallerTakes
<1>6. /\ ep' \in Endpoints /\ ep'.setup = None /\ ep'.out = n /\ ep'.in = ep.in /\ ep'.acked = ep.acked
      /\ ep'.stalled = ep.stalled
  <2>1. ep' = [ep EXCEPT !.out = n]
    BY Numbers DEF SendData, n
  <2>2. n \in {NoPacket} \cup 0..MaxPacketSize0
    BY <1>3, Numbers
  <2> QED BY <1>1, <2>1, <2>2 DEF Shapes, Endpoints
<1>7. UNCHANGED <<ctl, dev, usb, ran, stale>>
  BY DEF SendData
<1>8. Shapes'
  BY <1>5, <1>6, <1>7 DEF Shapes
<1>9. Waiting'
  BY <1>6 DEF Waiting
<1>10. caller'.phase \in {"dataout", "statusin"} /\ (caller'.phase = "dataout" => left > 0) /\ (caller'.phase = "statusin" => left = 0)
  BY <1>3, <1>5
<1> HIDE DEF phase
<1>11. InHand'
  BY <1>2, <1>5, <1>6, <1>7, <1>10 DEF InHand
<1>12. ASSUME ~ stale PROVE Receiving'
  <2>1. Receiving
    BY <1>1, <1>12 DEF Staged, Refused, Vanished, Replying, Acking
  <2>2. /\ Now = << >> /\ Quiet /\ ctl.residue = caller.left + 0 /\ ctl.residue > 0
    BY <1>1, <2>1 DEF Receiving, Arriving
  <2>3. n # NoPacket
    BY <1>3, Numbers
  <2>4. Arriving' = n
    BY <1>6, <2>3 DEF Arriving
  <2>5. Quiet' /\ Now' = << >>
    BY <1>5, <1>6, <1>7, <2>2 DEF Quiet, Now
  <2>6. ctl'.residue = caller'.left + Arriving' /\ ctl'.residue > 0
    BY <1>3, <1>5, <1>7, <2>2, <2>4
  <2> QED BY <1>2, <1>5, <1>10, <2>5, <2>6 DEF Receiving
<1>13. Staged' /\ Judged' /\ ResultHonest' /\ ReplyWhole'
  BY <1>2, <1>5, <1>7, <1>12 DEF Staged, Judged, ResultHonest, ReplyWhole
<1> QED BY <1>8, <1>9, <1>11, <1>13

-----------------------------------------------------------------------------
(* The device's steps.  First what it sends: pieces of at most 64 bytes.    *)

LEMMA Pieces == \A r \in -63..300 : /\ Least(64, r) \in -63..64 /\ r - Least(64, r) \in 0..300
                                    /\ (Least(64, r) < 64 => r - Least(64, r) = 0)
                                    /\ (r >= 0 => Least(64, r) >= 0)
                                    /\ (r = 0 => Least(64, r) = 0)
                                    /\ Least(64, r) + (r - Least(64, r)) = r
  BY DEF Least

LEMMA Chunks ==
  ASSUME NEW c \in Controls
  PROVE  /\ Chunk(c) \in Packets /\ Chunk(c).tag = c.tag /\ Chunk(c).off = c.off /\ Chunk(c).len = Least(64, c.residue)
<1>1. c.residue \in -63..300 /\ c.tag \in Nat /\ c.off \in Int
  BY Numbers DEF Controls
<1> DEFINE n == Least(64, c.residue)
<1>2. n \in 1 - MaxPacketSize0..MaxPacketSize0
  <2>1. n \in -63..64
    BY <1>1, Pieces
  <2> HIDE DEF n
  <2> QED BY <2>1, Numbers
<1>3. Chunk(c) = [tag |-> c.tag, off |-> c.off, len |-> n]
  BY Numbers DEF Chunk
<1> HIDE DEF n
<1>4. Chunk(c) \in Packets /\ Chunk(c).tag = c.tag /\ Chunk(c).off = c.off /\ Chunk(c).len = n
  BY <1>1, <1>2, <1>3 DEF Packets
<1> QED BY <1>4 DEF n

LEMMA DataIns ==
  ASSUME NEW c \in Controls, NEW sent, sent = DataIn(c)
  PROVE  /\ sent \in Controls /\ sent.req = c.req /\ sent.tag = c.tag
         /\ sent.residue = c.residue - Least(64, c.residue) /\ sent.off = c.off + Least(64, c.residue)
<1>1. c.residue \in -63..300 /\ c.tag \in Nat /\ c.off \in Int /\ c.req \in HostRequests
  BY Numbers DEF Controls
<1> DEFINE n == Least(64, c.residue)
           left == c.residue - n
<1>2. n \in Int /\ left \in 1 - MaxPacketSize0..300 /\ c.off + n \in Int
  <2>1. n \in -63..64 /\ left \in 0..300
    BY <1>1, Pieces
  <2> HIDE DEF n, left
  <2>2. n \in Int
    BY <2>1
  <2>3. left \in 1 - MaxPacketSize0..300
    BY <2>1, Numbers
  <2> QED BY <1>1, <2>2, <2>3
<1>3. sent = [c EXCEPT !.residue = left, !.off = c.off + n]
  BY Numbers DEF DataIn
<1> HIDE DEF n, left
<1>4. sent \in Controls /\ sent.req = c.req /\ sent.tag = c.tag /\ sent.residue = left /\ sent.off = c.off + n
  BY <1>1, <1>2, <1>3 DEF Controls
<1> QED BY <1>4 DEF n, left

\* The handler ran: it is gone, the answer's first piece is on its way, or the
\* endpoint is stalled.
Outcome(c, e, limit, h, r) ==
  /\ h.ok \in BOOLEAN /\ r \in 0..limit /\ (h.ok /\ c.req.reads <= limit => r >= c.req.reads)
  /\ Device(dev') /\ dev'.build \in Nat /\ ran' \in Seq(Seq(BOOLEAN)) /\ Len(ran') = Len(ran)
  /\ ran'[caller.tag] = Append(ran[caller.tag], h.ok)
  /\ ctl' \in Controls /\ ctl'.tag = c.tag /\ ctl'.req = c.req
  /\ ep' \in Endpoints /\ ep'.setup = None /\ ep'.out = e.out /\ ep'.acked = e.acked
  /\ \/ dev'.gone /\ ctl' = c /\ ep' = e
     \/ /\ h.ok /\ ctl'.residue = r - Least(64, r) /\ ctl'.off = Least(64, r) /\ ep'.stalled = e.stalled /\ ep'.in # None
        /\ e.in = None => ep'.in.tag = c.tag /\ ep'.in.off = 0 /\ ep'.in.len = Least(64, r)
     \/ ~ h.ok /\ ctl' = c /\ ep'.stalled = TRUE /\ ep'.in = e.in

LEMMA Answered ==
  ASSUME Shapes, caller.tag > 0
  PROVE  \A c \in Controls, e \in Endpoints, limit \in 0..258 :
           c.tag = caller.tag /\ e.setup = None /\ Answer(c, e, limit) => \E h, r : Outcome(c, e, limit, h, r)
<1> SUFFICES ASSUME NEW c \in Controls, NEW e \in Endpoints, c.tag = caller.tag, e.setup = None,
                    NEW limit \in 0..258, Answer(c, e, limit), NEW h, h = HandleRequest(c.req), NEW r, r = Least(h.len, limit)
             PROVE  Outcome(c, e, limit, h, r)
  OBVIOUS
<1> USE DEF Outcome
<1>1. c.req \in HostRequests /\ c.req.reads \in Nat
  <2>1. c.req \in HostRequests
    BY DEF Controls
  <2>2. \A n \in 0..258 : \A k \in 0..n : k \in Nat
    OBVIOUS
  <2> QED BY <2>1, <2>2, Requested
<1>2. Sound(h) /\ Device(h.dev) /\ h.dev.build \in Nat /\ (h.ok => h.len >= c.req.reads)
  BY <1>1, AnswerFacts, ControlAssumption DEF Shapes
<1>3. h.ok \in BOOLEAN /\ h.len \in Nat
  BY <1>2 DEF Sound
<1>4. \A l, k \in Nat, m \in 0..258 : Least(l, m) \in 0..m /\ (l >= k /\ k <= m => Least(l, m) >= k)
  BY DEF Least
<1>5. r \in 0..limit /\ (h.ok /\ c.req.reads <= limit => r >= c.req.reads)
  BY <1>1, <1>2, <1>3, <1>4, Zenon
<1>6. dev' = h.dev /\ ran' = [ran EXCEPT ![c.tag] = Append(@, h.ok)]
  BY DEF Answer
<1>7. /\ ran' \in Seq(Seq(BOOLEAN)) /\ Len(ran') = Len(ran) /\ ran'[caller.tag] = Append(ran[caller.tag], h.ok)
  <2>1. ran \in Seq(Seq(BOOLEAN)) /\ caller.tag \in 1..Len(ran)
    BY DEF Shapes
  <2>2. ran[caller.tag] \in Seq(BOOLEAN)
    BY <2>1
  <2>3. PICK b \in BOOLEAN : b = h.ok
    BY <1>3
  <2>4. Append(ran[caller.tag], b) \in Seq(BOOLEAN)
    BY <2>2
  <2> QED BY <1>6, <2>1, <2>3, <2>4
<1> PICK sent : sent = [c EXCEPT !.residue = r, !.off = 0]
  OBVIOUS
<1>8. sent \in Controls /\ sent.residue = r /\ sent.off = 0 /\ sent.tag = c.tag /\ sent.req = c.req
  <2>1. r \in 1 - MaxPacketSize0..300
    BY <1>5, Numbers
  <2>2. /\ DOMAIN c = {"req", "tag", "residue", "off"} /\ c.req \in HostRequests /\ c.tag \in Nat
    BY DEF Controls
  <2>3. sent = [req |-> c.req, tag |-> c.tag, residue |-> r, off |-> 0]
    BY <2>2
  <2> QED BY <2>1, <2>2, <2>3 DEF Controls
<1>9. \/ h.dev.gone /\ ctl' = c /\ ep' = e
      \/ h.ok /\ ctl' = DataIn(sent) /\ \E p \in USBHwEPWrite(e, Chunk(sent)) : ep' = [e EXCEPT !.in = p]
      \/ ~ h.ok /\ ctl' = c /\ ep' = USBHwEPStall(e)
  BY DEF Answer
<1>10. CASE h.dev.gone /\ ctl' = c /\ ep' = e
  BY <1>2, <1>3, <1>5, <1>6, <1>7, <1>10
<1>11. CASE h.ok /\ ctl' = DataIn(sent) /\ \E p \in USBHwEPWrite(e, Chunk(sent)) : ep' = [e EXCEPT !.in = p]
  <2>1. PICK p : p \in USBHwEPWrite(e, Chunk(sent)) /\ ep' = [e EXCEPT !.in = p]
    BY <1>11
  <2>2. Chunk(sent) \in Packets /\ Chunk(sent).tag = c.tag /\ Chunk(sent).off = 0 /\ Chunk(sent).len = Least(64, r)
    BY <1>8, Chunks
  <2>3. p \in Packets /\ p # None /\ (e.in = None => p = Chunk(sent))
    BY <2>1, <2>2, NoneIsNone DEF USBHwEPWrite, Endpoints
  <2>4. /\ ep' \in Endpoints /\ ep'.setup = None /\ ep'.out = e.out /\ ep'.acked = e.acked /\ ep'.stalled = e.stalled
        /\ ep'.in = p
    BY <2>1, <2>3 DEF Endpoints
  <2>5. /\ ctl' \in Controls /\ ctl'.req = c.req /\ ctl'.tag = c.tag
        /\ ctl'.residue = r - Least(64, r) /\ ctl'.off = 0 + Least(64, r)
    <3>1. /\ ctl' \in Controls /\ ctl'.req = sent.req /\ ctl'.tag = sent.tag
          /\ ctl'.residue = sent.residue - Least(64, sent.residue) /\ ctl'.off = sent.off + Least(64, sent.residue)
      BY <1>8, <1>11, DataIns, Zenon
    <3> QED BY <1>8, <3>1, Zenon
  <2>6. 0 + Least(64, r) = Least(64, r)
    BY <1>5 DEF Least
  <2> QED BY <1>2, <1>3, <1>5, <1>6, <1>7, <1>11, <2>2, <2>3, <2>4, <2>5, <2>6
<1>12. CASE ~ h.ok /\ ctl' = c /\ ep' = USBHwEPStall(e)
  <2>1. /\ ep' \in Endpoints /\ ep'.setup = None /\ ep'.out = e.out /\ ep'.acked = e.acked /\ ep'.stalled = TRUE
        /\ ep'.in = e.in
    BY <1>12 DEF USBHwEPStall, Endpoints
  <2> QED BY <1>2, <1>3, <1>5, <1>6, <1>7, <1>12, <2>1
<1> QED BY <1>9, <1>10, <1>11, <1>12

\* Sums again: what was sent and what is left.
FirstPacket(n, k, r) == /\ 0 + Least(64, r) + (r - Least(64, r)) \in k..n /\ Least(64, r) = 0 + Least(64, r)
                        /\ (Least(64, r) < 64 => r - Least(64, r) = 0) /\ (n = 0 => Least(64, r) = 0)

LEMMA Sums == \A n \in Sizes : \A r, k \in 0..n : r >= k => FirstPacket(n, k, r)
  BY DEF FirstPacket, Least, Sizes

LEMMA Positive == \A n \in Sizes : \A r \in 0..n : Least(64, r) >= 0 /\ r - Least(64, r) >= 0 /\ n >= 0
  BY DEF Least, Sizes

LEMMA StepSetupReceived == ASSUME ControlInv, SetupReceived, UNCHANGED <<caller, stale>> PROVE ControlInv'
<1> USE DEF ControlInv
<1>1. /\ ep.setup = caller.cmd /\ caller.tag > 0 /\ ran[caller.tag] = << >> /\ ep.setup # None
      /\ ep.out = NoPacket /\ ep.in = None /\ ~ ep.stalled /\ (~ stale => ~ ep.acked)
      /\ caller.phase \in {AfterSetup(caller.cmd), "idle"} /\ caller.result \in {"none", "timeout", "nodevice"}
      /\ caller.got = 0 /\ caller.inOrder
      /\ caller.left = (IF caller.cmd.dir = "out" THEN caller.cmd.n ELSE 0)
  BY DEF SetupReceived, Waiting, Now
<1> DEFINE cmd == caller.cmd
           c == [req |-> cmd, tag |-> caller.tag, residue |-> cmd.n, off |-> 0]
           e == [ep EXCEPT !.setup = None]
<1>2. cmd \in HostRequests /\ cmd.dir \in {"in", "out"} /\ cmd.n \in 0..258 /\ cmd.reads \in 0..cmd.n /\ cmd.n \in Sizes
  BY CallerIs, CallerRanges
<1>3. c \in Controls /\ c.req = cmd /\ c.tag = caller.tag /\ c.residue = cmd.n /\ c.off = 0
  <2>1. cmd.n \in 1 - MaxPacketSize0..300
    BY <1>2, Numbers
  <2>2. caller.tag \in Nat
    BY CallerIs
  <2> QED BY <1>2, <2>1, <2>2 DEF Controls
<1>4. e \in Endpoints /\ e.setup = None /\ e.out = NoPacket /\ e.in = None /\ e.acked = ep.acked /\ e.stalled = ep.stalled
  BY <1>1 DEF Shapes, Endpoints
<1>5. /\ caller.result \in {"none", "timeout", "nodevice"} /\ caller'= caller /\ stale' = stale
      /\ (Active <=> caller.phase # "idle") /\ (Active' <=> caller.phase # "idle")
  BY <1>1 DEF Active
<1>6. Judged' /\ ResultHonest' /\ ReplyWhole'
  BY <1>5 DEF Judged, ResultHonest, ReplyWhole
<1>7. \/ Reads(cmd) /\ Answer(c, e, cmd.n)
      \/ ~ Reads(cmd) /\ ctl' = c /\ ep' = e /\ UNCHANGED <<dev, usb, ran>>
  BY <1>1 DEF SetupReceived, Reads
<1>8. ASSUME ep'.setup = None, ep'.out = NoPacket, ctl'.tag = caller.tag, ctl'.req = cmd,
             Reads(cmd) => ctl'.residue >= 0 /\ (ep'.in # None => ep'.in.len >= 0)
      PROVE  InHand' /\ Waiting'
  BY <1>1, <1>5, <1>8, Numbers DEF InHand, Waiting, Active
<1> HIDE DEF ControlInv
<1>9. Shapes
  BY DEF ControlInv
<1>10. CASE ~ Reads(cmd) /\ ctl' = c /\ ep' = e /\ UNCHANGED <<dev, usb, ran>>
  <2>1. cmd.dir = "out" /\ cmd.n > 0 /\ caller.left = cmd.n /\ AfterSetup(cmd) = "dataout"
    <3>1. cmd.dir # "in" /\ cmd.n # 0
      BY <1>10 DEF Reads
    <3>2. cmd.n > 0
      BY <1>2, <3>1
    <3> QED BY <1>1, <1>2, <3>1, <3>2 DEF AfterSetup
  <2>2. Shapes'
    BY <1>3, <1>4, <1>5, <1>9, <1>10 DEF Shapes
  <2>3. InHand' /\ Waiting'
    <3> HIDE DEF c, e
    <3> QED BY <1>3, <1>4, <1>8, <1>10
  <2>4. ASSUME ~ stale, Active' PROVE Receiving'
    <3>1. caller'.phase = "dataout" /\ ~ Reads(caller'.cmd) /\ Now' = << >>
      BY <1>1, <1>5, <1>10, <2>1, <2>4 DEF Now
    <3>2. Quiet'
      <4> HIDE DEF c, e
      <4> QED BY <1>1, <1>4, <1>10, <2>4 DEF Quiet
    <3>3. Arriving' = 0
      <4> HIDE DEF c, e
      <4> QED BY <1>4, <1>10 DEF Arriving
    <3>4. cmd.n + 0 = cmd.n
      BY <1>2
    <3>5. ctl'.residue = caller'.left + Arriving' /\ ctl'.residue > 0
      <4> HIDE DEF c, e
      <4> QED BY <1>3, <1>5, <1>10, <2>1, <3>3, <3>4
    <3> QED BY <3>1, <3>2, <3>5 DEF Receiving
  <2>5. Staged'
    BY <1>5, <2>4 DEF Staged
  <2> QED BY <1>6, <2>2, <2>3, <2>5 DEF ControlInv
<1>11. CASE Reads(cmd) /\ Answer(c, e, cmd.n)
  <2> HIDE DEF c, e
  <2>1. PICK h, r : Outcome(c, e, cmd.n, h, r)
    BY <1>1, <1>2, <1>3, <1>4, <1>9, <1>11, Answered
  <2>2. /\ h.ok \in BOOLEAN /\ r \in 0..cmd.n /\ (h.ok /\ c.req.reads <= cmd.n => r >= c.req.reads)
        /\ Device(dev') /\ dev'.build \in Nat /\ ran' \in Seq(Seq(BOOLEAN)) /\ Len(ran') = Len(ran)
        /\ ran'[caller.tag] = Append(ran[caller.tag], h.ok)
        /\ ctl' \in Controls /\ ctl'.tag = c.tag /\ ctl'.req = c.req
        /\ ep' \in Endpoints /\ ep'.setup = None /\ ep'.out = e.out /\ ep'.acked = e.acked
        /\ \/ dev'.gone /\ ctl' = c /\ ep' = e
           \/ /\ h.ok /\ ctl'.residue = r - Least(64, r) /\ ctl'.off = Least(64, r) /\ ep'.stalled = e.stalled /\ ep'.in # None
              /\ e.in = None => ep'.in.tag = c.tag /\ ep'.in.off = 0 /\ ep'.in.len = Least(64, r)
           \/ ~ h.ok /\ ctl' = c /\ ep'.stalled = TRUE /\ ep'.in = e.in
    BY <2>1, Zenon DEF Outcome
  <2>3. Shapes'
    BY <1>5, <1>9, <2>2 DEF Shapes
  <2>4. cmd.reads <= cmd.n
    BY <1>2
  <2>5. /\ ep'.out = NoPacket /\ ep'.acked = ep.acked /\ ctl'.tag = caller.tag /\ ctl'.req = cmd
        /\ Now' = <<h.ok>>
    BY <1>1, <1>3, <1>4, <1>5, <2>2 DEF Now
  <2>6. \/ dev'.gone /\ ctl'.residue = cmd.n /\ ep'.in = None /\ ep'.stalled = FALSE
        \/ /\ h.ok /\ r >= cmd.reads /\ ctl'.residue = r - Least(64, r) /\ ctl'.off = Least(64, r)
           /\ ep'.stalled = FALSE /\ ep'.in # None /\ ep'.in.tag = caller.tag /\ ep'.in.off = 0 /\ ep'.in.len = Least(64, r)
        \/ ~ h.ok /\ ctl'.residue = cmd.n /\ ep'.stalled = TRUE /\ ep'.in = None
    <3>1. e.stalled = FALSE
      BY <1>1, <1>4, <1>9, EndpointIs
    <3> QED BY <1>3, <1>4, <2>2, <2>4, <3>1
  <2>7. InHand' /\ Waiting'
    <3>1. Least(64, r) >= 0 /\ r - Least(64, r) >= 0 /\ cmd.n >= 0
      <4>1. cmd.n \in Sizes /\ r \in 0..cmd.n
        BY <1>2, <2>2
      <4> QED BY <4>1, Positive, Zenon
    <3>2. ctl'.residue >= 0 /\ (ep'.in # None => ep'.in.len >= 0)
      BY <2>6, <3>1
    <3> QED BY <1>8, <2>2, <2>5, <3>2
  <2>8. ASSUME ~ stale, Active' PROVE Refused' \/ Vanished' \/ Replying' \/ Acking'
    <3>1. /\ caller'.phase = AfterSetup(cmd) /\ (cmd.n = 0 => AfterSetup(cmd) = "statusin")
          /\ (cmd.n # 0 => cmd.dir = "in" /\ AfterSetup(cmd) = "datain") /\ AfterSetup(cmd) \in {"datain", "statusin"}
      BY <1>1, <1>5, <1>11, <2>8 DEF AfterSetup, Reads
    <3>2. ~ ep'.acked
      BY <1>1, <2>5, <2>8
    <3>3. CASE dev'.gone /\ ctl'.residue = cmd.n /\ ep'.in = None /\ ep'.stalled = FALSE
      BY <2>5, <3>1, <3>2, <3>3 DEF Vanished, Quiet
    <3>4. CASE ~ h.ok /\ ctl'.residue = cmd.n /\ ep'.stalled = TRUE /\ ep'.in = None
      <4>1. h.ok = FALSE
        BY <2>2, <3>4
      <4> QED BY <2>5, <3>1, <3>2, <3>4, <4>1 DEF Refused
    <3>5. CASE /\ h.ok /\ r >= cmd.reads /\ ctl'.residue = r - Least(64, r) /\ ctl'.off = Least(64, r)
               /\ ep'.stalled = FALSE /\ ep'.in # None /\ ep'.in.tag = caller.tag /\ ep'.in.off = 0 /\ ep'.in.len = Least(64, r)
      <4>1. Now' = <<TRUE>>
        BY <2>2, <2>5, <3>5
      <4>2. /\ 0 + Least(64, r) + (r - Least(64, r)) \in cmd.reads..cmd.n /\ Least(64, r) = 0 + Least(64, r)
            /\ (Least(64, r) < 64 => r - Least(64, r) = 0) /\ (cmd.n = 0 => Least(64, r) = 0)
        <5>1. cmd.n \in Sizes /\ r \in 0..cmd.n /\ cmd.reads \in 0..cmd.n /\ r >= cmd.reads
          BY <1>2, <2>2, <3>5
        <5>2. FirstPacket(cmd.n, cmd.reads, r)
          BY <5>1, Sums, Zenon
        <5> QED BY <5>2 DEF FirstPacket
      <4>3. CASE cmd.n = 0
        BY <1>1, <1>5, <2>5, <3>1, <3>2, <3>5, <4>1, <4>2, <4>3 DEF Acking
      <4>4. CASE cmd.n # 0
        <5>1. Flying' = Least(64, r)
          BY <3>5 DEF Flying
        <5>2. caller'.phase = "datain" /\ caller'.got = 0 /\ caller'.inOrder /\ ep'.acked = (ep'.in = None) /\ caller'.tag = caller.tag
          BY <1>1, <1>5, <2>2, <3>1, <3>2, <3>5, <4>4 DEF Endpoints
        <5>3. ctl'.off = caller'.got + Flying' /\ caller'.got + Flying' + ctl'.residue \in caller'.cmd.reads..caller'.cmd.n
          BY <1>5, <3>5, <4>2, <5>1, <5>2
        <5> QED BY <2>5, <3>5, <4>1, <4>2, <5>2, <5>3, Numbers DEF Replying
      <4> QED BY <4>3, <4>4
    <3> QED BY <2>6, <3>3, <3>4, <3>5
  <2>9. Staged'
    BY <1>5, <2>8 DEF Staged
  <2> QED BY <1>6, <2>3, <2>7, <2>9 DEF ControlInv
<1> QED BY <1>7, <1>10, <1>11

\* Counting down what is left of the data.
LEMMA CountBound == \A r \in Residues, n \in Payloads : (r > 0 => r - n \in Residues) /\ ~ (r <= 0 /\ r > 0)
  BY DEF Residues, Payloads
LEMMA CountNone == \A r \in Residues, n \in Payloads : ~ (n > 0) => r - n = r
  BY DEF Residues, Payloads
LEMMA CountAll == \A r \in Residues, n \in Payloads : r > 0 /\ r - n = 0 => n > 0
  BY DEF Residues, Payloads
LEMMA CountLast == \A r \in Residues, n \in Payloads, l \in Lefts : r = l + n /\ r - n = 0 => l = 0
  BY DEF Residues, Payloads, Lefts

LEMMA StepOutReceived == ASSUME ControlInv, OutReceived, UNCHANGED <<caller, stale>> PROVE ControlInv'
<1> USE DEF ControlInv
<1>1. ep.setup = None /\ ep.out # NoPacket /\ ep.out \in 0..64
  BY EndpointIs DEF OutReceived
<1>2. ctl.tag = caller.tag /\ ctl.req = caller.cmd /\ caller.tag > 0 /\ (ep.out > 0 => ~ Reads(caller.cmd))
  BY <1>1 DEF InHand
<1> DEFINE e == [ep EXCEPT !.out = NoPacket]
           left == ctl.residue - ep.out
           c == [ctl EXCEPT !.residue = left, !.off = ctl.off + ep.out]
<1>3. e \in Endpoints /\ e.setup = None /\ e.out = NoPacket /\ e.in = ep.in /\ e.acked = ep.acked /\ e.stalled = ep.stalled
  BY <1>1 DEF Shapes, Endpoints
<1>4. ctl.residue \in -63..300 /\ ctl.req \in HostRequests /\ ctl.tag \in Nat /\ ctl.off \in Int /\ caller.left \in 0..300
  BY ControlIs, CallerIs
<1>4a. ctl.residue \in Residues /\ ep.out \in Payloads /\ caller.left \in Lefts
  BY <1>1, <1>4 DEF Residues, Payloads, Lefts
<1>5. c.tag = caller.tag /\ c.req = caller.cmd /\ c.residue = left
  BY <1>2 DEF Shapes, Controls
<1>6. ctl.residue > 0 => c \in Controls
  <2>1. ctl.off + ep.out \in Int
    BY <1>1, <1>4
  <2>2. ctl.residue > 0 => left \in -63..300
    <3>1. ctl.residue > 0 => left \in Residues
      BY <1>4a, CountBound, Zenon
    <3> QED BY <3>1 DEF Residues
  <2>3. ctl.residue > 0 => left \in 1 - MaxPacketSize0..300
    <3> HIDE DEF left
    <3> QED BY <2>2, Numbers
  <2> HIDE DEF left
  <2> QED BY <2>1, <2>3 DEF Shapes, Controls
<1>7. \/ ctl.residue <= 0 /\ ep' = e /\ UNCHANGED <<ctl, dev, usb, ran>>
      \/ ctl.residue > 0 /\ left = 0 /\ Answer(c, e, 0)
      \/ ctl.residue > 0 /\ left # 0 /\ ctl' = c /\ ep' = e /\ UNCHANGED <<dev, usb, ran>>
  <2>1. ctl.residue <= 0 \/ ctl.residue > 0
    BY <1>4
  <2>2. e = USBHwEPRead(ep)
    BY DEF USBHwEPRead
  <2>3. \/ ctl.residue <= 0 /\ ep' = e /\ UNCHANGED <<ctl, dev, usb, ran>>
        \/ ~ (ctl.residue <= 0) /\ c.residue = 0 /\ Answer(c, e, 0)
        \/ ~ (ctl.residue <= 0) /\ c.residue # 0 /\ ctl' = c /\ ep' = e /\ UNCHANGED <<dev, usb, ran>>
    BY <2>2 DEF OutReceived
  <2> HIDE DEF e, c, left
  <2> QED BY <1>5, <2>1, <2>3
<1>8. caller' = caller /\ stale' = stale /\ (Active' <=> Active)
  BY DEF Active
<1>9. ASSUME ~ stale, Active PROVE Receiving
  BY <1>1, <1>9 DEF Staged, Refused, Vanished, Replying, Acking
<1>10. ASSUME ~ stale, caller.result \in {"ok", "pipe"} PROVE ~ Active /\ ep.out = 0
  <2>1. Judged
    OBVIOUS
  <2> HIDE DEF ControlInv
  <2> QED BY <1>1, <1>10, <2>1 DEF Judged
<1>11. ASSUME ep'.setup = None, ep'.out = NoPacket, ctl'.tag = caller.tag, ctl'.req = caller.cmd,
              Active /\ Reads(caller.cmd) => ctl'.residue >= 0 /\ (ep'.in # None => ep'.in.len >= 0)
       PROVE  InHand' /\ Waiting'
  BY <1>2, <1>8, <1>11, Numbers DEF InHand, Waiting
<1>12. Active /\ Reads(caller.cmd) => ctl.residue >= 0 /\ (ep.in # None => ep.in.len >= 0)
  BY <1>1 DEF InHand
<1>13. Active /\ caller.phase = "dataout" => caller.left > 0
  BY DEF InHand
<1> HIDE DEF ControlInv
<1>14. Shapes /\ Judged /\ ResultHonest /\ ReplyWhole
  BY DEF ControlInv
<1>15. ASSUME ep'.setup = None, ep'.out = NoPacket, ran' = ran PROVE Judged' /\ ResultHonest' /\ ReplyWhole'
  <2>1. Judged'
    BY <1>8, <1>10, <1>15, Numbers DEF Judged
  <2>2. ResultHonest'
    <3>1. caller' = caller /\ stale' = stale /\ ran' = ran
      BY <1>8, <1>15
    <3>2. ResultHonest
      BY <1>14
    <3>3. ran'[caller'.tag] = ran[caller.tag] /\ caller'.result = caller.result /\ (stale' <=> stale)
      BY <3>1
    <3> QED BY <3>2, <3>3, Zenon DEF ResultHonest
  <2>3. ReplyWhole'
    BY <1>8, <1>14 DEF ReplyWhole
  <2> QED BY <2>1, <2>2, <2>3
<1>16. CASE ctl.residue <= 0 /\ ep' = e /\ UNCHANGED <<ctl, dev, usb, ran>>
  <2> HIDE DEF e, c, left
  <2>1. Shapes'
    BY <1>3, <1>8, <1>14, <1>16 DEF Shapes
  <2>2. InHand' /\ Waiting'
    BY <1>2, <1>3, <1>11, <1>12, <1>16
  <2>3. ~ stale => ~ Active
    <3>1. Receiving => ctl.residue > 0
      BY DEF Receiving
    <3>2. ~ (ctl.residue <= 0 /\ ctl.residue > 0)
      BY <1>4a, CountBound, Zenon
    <3> QED BY <1>9, <1>16, <3>1, <3>2
  <2> QED BY <1>3, <1>8, <1>15, <1>16, <2>1, <2>2, <2>3 DEF ControlInv, Staged
<1>17. CASE ctl.residue > 0 /\ left # 0 /\ ctl' = c /\ ep' = e /\ UNCHANGED <<dev, usb, ran>>
  <2>1. ~ (ep.out > 0) => left = ctl.residue
    BY <1>4a, CountNone, Zenon
  <2>2. ctl.residue = caller.left + ep.out => left = caller.left + 0 /\ left > 0 /\ caller.left # 0
    <3>1. PICK r \in -63..300, n \in 0..64, l \in 0..300 : r = ctl.residue /\ n = ep.out /\ l = caller.left
      BY <1>1, <1>4
    <3>2. r - n # 0
      BY <1>17, <3>1, Zenon
    <3>3. r = l + n => r - n = l + 0 /\ r - n > 0 /\ l # 0
      BY <3>2
    <3> QED BY <3>1, <3>3, Zenon
  <2> HIDE DEF e, c, left
  <2>3. Shapes'
    BY <1>3, <1>6, <1>8, <1>14, <1>17 DEF Shapes
  <2>4. InHand' /\ Waiting'
    <3>1. Reads(caller.cmd) => ctl'.residue = ctl.residue
      BY <1>2, <1>5, <1>17, <2>1
    <3> QED BY <1>2, <1>3, <1>5, <1>11, <1>12, <1>17, <3>1
  <2>5. ASSUME ~ stale, Active PROVE Receiving'
    <3>1. Receiving
      BY <1>9, <2>5
    <3>2. ctl.residue = caller.left + ep.out /\ Now = << >> /\ Quiet
      BY <1>1, <3>1 DEF Receiving, Arriving
    <3>3. Arriving' = 0 /\ Quiet' /\ Now' = << >>
      BY <1>3, <1>8, <1>17, <3>2 DEF Arriving, Quiet, Now
    <3>4. ctl'.residue = caller'.left + Arriving' /\ ctl'.residue > 0 /\ caller.left # 0
      BY <1>5, <1>8, <1>17, <2>2, <3>2, <3>3
    <3> QED BY <1>8, <3>1, <3>3, <3>4 DEF Receiving
  <2> QED BY <1>3, <1>8, <1>15, <1>17, <2>3, <2>4, <2>5 DEF ControlInv, Staged
<1>18. CASE ctl.residue > 0 /\ left = 0 /\ Answer(c, e, 0)
  <2>1. ep.out > 0
    BY <1>4a, <1>18, CountAll, Zenon
  <2>2. ctl.residue = caller.left + ep.out => caller.left = 0
    BY <1>4a, <1>18, CountLast, Zenon
  <2> HIDE DEF e, c, left
  <2>3. PICK h, r : Outcome(c, e, 0, h, r)
    <3>1. 0 \in 0..258
      OBVIOUS
    <3> QED BY <1>2, <1>3, <1>5, <1>6, <1>14, <1>18, <3>1, Answered
  <2>4. /\ h.ok \in BOOLEAN /\ r \in 0..0
        /\ Device(dev') /\ dev'.build \in Nat /\ ran' \in Seq(Seq(BOOLEAN)) /\ Len(ran') = Len(ran)
        /\ ran'[caller.tag] = Append(ran[caller.tag], h.ok)
        /\ ctl' \in Controls /\ ctl'.tag = c.tag /\ ctl'.req = c.req
        /\ ep' \in Endpoints /\ ep'.setup = None /\ ep'.out = e.out /\ ep'.acked = e.acked
        /\ \/ dev'.gone /\ ctl' = c /\ ep' = e
           \/ /\ h.ok /\ ep'.stalled = e.stalled /\ ep'.in # None
              /\ e.in = None => ep'.in.len = Least(64, r)
           \/ ~ h.ok /\ ctl' = c /\ ep'.stalled = TRUE /\ ep'.in = e.in
    BY <2>3, Zenon DEF Outcome
  <2>5. Least(64, r) = 0
    BY <2>4 DEF Least
  <2>6. Shapes'
    BY <1>8, <1>14, <2>4 DEF Shapes
  <2>7. ~ Reads(caller.cmd)
    BY <1>2, <2>1
  <2>8. InHand' /\ Waiting'
    BY <1>3, <1>5, <1>11, <2>4, <2>7
  <2>9. ASSUME ~ stale, Active PROVE Refused' \/ Vanished' \/ Acking'
    <3>1. Receiving
      BY <1>9, <2>9
    <3>2. ctl.residue = caller.left + ep.out /\ ran[caller.tag] = << >> /\ ~ ep.stalled /\ ep.in = None /\ ~ ep.acked
      BY <1>1, <3>1 DEF Receiving, Arriving, Now, Quiet
    <3>3. caller.left = 0 /\ caller.phase \in {"dataout", "statusin"}
      BY <2>2, <3>1, <3>2 DEF Receiving
    <3>4. caller'.phase = "statusin"
      BY <1>8, <1>13, <2>9, <3>3
    <3>5. Now' = <<h.ok>> /\ ep'.out = NoPacket /\ ~ ep'.acked /\ caller'.cmd.dir # "in"
      BY <1>3, <1>8, <2>4, <2>7, <3>2 DEF Now, Reads
    <3>6. CASE dev'.gone /\ ctl' = c /\ ep' = e
      BY <1>3, <3>2, <3>4, <3>5, <3>6 DEF Vanished, Quiet
    <3>7. CASE h.ok /\ ep'.stalled = e.stalled /\ ep'.in # None /\ ep'.in.len = 0
      <4>1. Now' = <<TRUE>>
        BY <2>4, <3>5, <3>7
      <4> QED BY <1>3, <3>2, <3>4, <3>5, <3>7, <4>1 DEF Acking
    <3>8. CASE ~ h.ok /\ ctl' = c /\ ep'.stalled = TRUE /\ ep'.in = e.in
      <4>1. Now' = <<FALSE>>
        BY <2>4, <3>5, <3>8
      <4> QED BY <1>3, <3>2, <3>4, <3>5, <3>8, <4>1 DEF Refused
    <3> QED BY <1>3, <2>4, <2>5, <3>2, <3>6, <3>7, <3>8
  <2>10. Staged'
    BY <1>8, <2>9 DEF Staged
  <2>11. ~ stale => caller.result \notin {"ok", "pipe"}
    <3>1. ASSUME ~ stale, caller.result \in {"ok", "pipe"} PROVE FALSE
      BY <1>10, <2>1, <3>1
    <3> QED BY <3>1
  <2>12. Judged' /\ ResultHonest'
    <3>1. caller' = caller /\ stale' = stale
      BY <1>8
    <3>2. ~ stale' => caller'.result # "ok" /\ caller'.result # "pipe"
      BY <2>11, <3>1
    <3> QED BY <3>2 DEF Judged, ResultHonest
  <2>13. ReplyWhole'
    BY <1>8, <1>14 DEF ReplyWhole
  <2> QED BY <2>6, <2>8, <2>10, <2>12, <2>13 DEF ControlInv
<1> QED BY <1>7, <1>16, <1>17, <1>18

LEMMA StepInAcknowledged == ASSUME ControlInv, InAcknowledged, UNCHANGED <<caller, stale>> PROVE ControlInv'
<1> USE DEF ControlInv
<1>1. ep.acked /\ ctl' = DataIn(ctl) /\ UNCHANGED <<dev, usb, ran>>
  BY DEF InAcknowledged
<1>2. PICK p \in USBHwEPWrite(ep, Chunk(ctl)) : ep' = [ep EXCEPT !.acked = FALSE, !.in = p]
  BY DEF InAcknowledged
<1> DEFINE n == Least(64, ctl.residue)
<1>3. /\ ctl' \in Controls /\ ctl'.req = ctl.req /\ ctl'.tag = ctl.tag /\ ctl'.residue = ctl.residue - n
      /\ ctl'.off = ctl.off + n
  BY <1>1, DataIns DEF Shapes
<1>4. /\ Chunk(ctl) \in Packets /\ Chunk(ctl).tag = ctl.tag /\ Chunk(ctl).off = ctl.off /\ Chunk(ctl).len = n
      /\ Chunk(ctl) # None
  BY Chunks, NoneIsNone DEF Shapes
<1>5. ctl.residue \in -63..300 /\ n \in -63..64 /\ ctl.residue - n \in 0..300 /\ (n < 64 => ctl.residue - n = 0)
      /\ (ctl.residue >= 0 => n >= 0) /\ (ctl.residue = 0 => n = 0) /\ n + (ctl.residue - n) = ctl.residue
  BY ControlIs, Pieces, Zenon
<1> HIDE DEF n
<1>6. /\ (ep.setup # None => p = ep.in) /\ (ep.setup = None => p \in {ep.in, Chunk(ctl)} /\ p # None)
      /\ (ep.setup = None /\ ep.in = None => p = Chunk(ctl)) /\ p \in Packets \cup {None}
  BY <1>2, <1>4, EndpointIs DEF USBHwEPWrite
<1>7. /\ ep' \in Endpoints /\ ep'.setup = ep.setup /\ ep'.out = ep.out /\ ep'.in = p /\ ep'.acked = FALSE
      /\ ep'.stalled = ep.stalled
  BY <1>2, <1>6 DEF Shapes, Endpoints
<1>8. caller' = caller /\ stale' = stale /\ ran' = ran /\ dev' = dev /\ (Active' <=> Active)
  BY <1>1 DEF Active
<1>9. Shapes'
  BY <1>3, <1>7, <1>8 DEF Shapes
<1>10. Waiting'
  BY <1>6, <1>7, <1>8 DEF Waiting, Now
<1>11. InHand'
  <2>1. InHand
    OBVIOUS
  <2>2. Active /\ Reads(caller.cmd) /\ ep.setup = None => ctl'.residue >= 0 /\ (ep'.in # None => ep'.in.len >= 0)
    <3>1. ctl'.residue >= 0
      BY <1>3, <1>5
    <3>2. Active /\ Reads(caller.cmd) /\ ep.setup = None => (ep.in # None => ep.in.len >= 0) /\ n >= 0
      BY <1>5, <2>1 DEF InHand
    <3> HIDE DEF ControlInv
    <3> QED BY <1>4, <1>6, <1>7, <3>1, <3>2
  <2> HIDE DEF ControlInv
  <2> QED BY <1>3, <1>7, <1>8, <2>1, <2>2 DEF InHand
<1>12. ASSUME ~ stale, Active, ep.setup = None PROVE Replying'
  <2>1. Replying
    BY <1>1, <1>12 DEF Staged, Refused, Vanished, Quiet, Receiving, Acking
  <2>2. /\ ep.in = None /\ ran[caller.tag] = <<TRUE>> /\ ~ ep.stalled /\ ep.out = NoPacket /\ caller.inOrder
        /\ ctl.off = caller.got + 0 /\ caller.got + 0 + ctl.residue \in caller.cmd.reads..caller.cmd.n
        /\ caller.phase \in {"datain", "statusout"} /\ (caller.phase = "statusout" => ctl.residue = 0)
    BY <1>1, <2>1 DEF Replying, Now, Flying
  <2>3. ctl.tag = caller.tag
    BY <1>12 DEF InHand
  <2>4. /\ ep'.in = Chunk(ctl) /\ ep'.in # None /\ ep'.in.tag = caller.tag /\ ep'.in.off = ctl.off /\ ep'.in.len = n
        /\ Flying' = n
    BY <1>4, <1>6, <1>7, <1>12, <2>2, <2>3 DEF Flying
  <2> HIDE DEF ControlInv
  <2>5. caller.got + 0 = caller.got /\ caller.got + n + (ctl.residue - n) = caller.got + 0 + ctl.residue
    <3>1. PICK g \in 0..512, k \in -63..300, m \in -63..64 : g = caller.got /\ k = ctl.residue /\ m = n
      BY <1>5, CallerIs DEF ControlInv
    <3>2. g + 0 = g /\ g + m + (k - m) = g + 0 + k
      OBVIOUS
    <3> QED BY <3>1, <3>2, Zenon
  <2>6. /\ ctl'.off = caller'.got + Flying' /\ caller'.got + Flying' + ctl'.residue \in caller'.cmd.reads..caller'.cmd.n
        /\ ep'.in.off = caller'.got
    BY <1>3, <1>8, <2>2, <2>4, <2>5
  <2>7. /\ caller'.phase \in {"datain", "statusout"} /\ Now' = <<TRUE>> /\ ~ ep'.stalled /\ ep'.out = NoPacket
        /\ caller'.inOrder /\ ep'.acked = (ep'.in = None) /\ ep'.in.tag = caller'.tag
        /\ (ep'.in.len < MaxPacketSize0 => ctl'.residue = 0)
        /\ (caller'.phase = "statusout" => ctl'.residue = 0 /\ Flying' = 0)
    <3>1. ctl.residue = 0 => n = 0 /\ ctl.residue - n = 0
      BY <1>5
    <3>2. /\ caller'.phase \in {"datain", "statusout"} /\ Now' = <<TRUE>> /\ ~ ep'.stalled /\ ep'.out = NoPacket
          /\ caller'.inOrder /\ ep'.in.tag = caller'.tag
      BY <1>7, <1>8, <2>2, <2>4 DEF Now
    <3>3. ep'.in.len < MaxPacketSize0 => ctl'.residue = 0
      BY <1>3, <1>5, <2>4, Numbers
    <3>4. caller'.phase = "statusout" => ctl'.residue = 0 /\ Flying' = 0
      BY <1>3, <1>8, <2>2, <2>4, <3>1
    <3> QED BY <1>7, <2>4, <3>2, <3>3, <3>4
  <2> QED BY <2>6, <2>7 DEF Replying
<1>13. Staged'
  BY <1>7, <1>8, <1>12 DEF Staged
<1> HIDE DEF ControlInv
<1>14. Judged /\ ResultHonest /\ ReplyWhole
  BY DEF ControlInv
<1>15. Judged' /\ ReplyWhole'
  BY <1>7, <1>8, <1>14 DEF Judged, ReplyWhole
<1>16. ResultHonest'
  <2>1. ran'[caller'.tag] = ran[caller.tag] /\ caller'.result = caller.result /\ (stale' <=> stale)
    BY <1>8
  <2> QED BY <1>14, <2>1, Zenon DEF ResultHonest
<1> QED BY <1>9, <1>10, <1>11, <1>13, <1>15, <1>16 DEF ControlInv

-----------------------------------------------------------------------------
\* The invariant in full: in every state whose SETUP was not overtaken the
\* transfer stands in one of the five situations, whatever the host asks for
\* and however often it gives a transfer up or resets the bus.
LEMMA ControlHolds == UsbInit /\ [][UsbNext]_usbVars => []ControlInv
<1>1. ControlInv /\ [UsbNext]_usbVars => ControlInv'
  <2> SUFFICES ASSUME ControlInv, [UsbNext]_usbVars PROVE ControlInv'
    OBVIOUS
  <2>1. ASSUME NEW cmd \in UNION {Script[k] : k \in DOMAIN Script}, libusb_control_transfer(cmd) PROVE ControlInv'
    <3>1. cmd \in HostRequests
      BY ControlAssumption
    <3> QED BY <2>1, <3>1, StepTransfer
  <2>2. CASE HostStep
    BY <2>2, StepTakeData, StepSendData, StepTakeStatus, StepSendStatus, StepStalled, StepGivesUp DEF HostStep
  <2>3. CASE Timeout
    BY <2>3, StepGivesUp
  <2>4. CASE HandleUsbReset
    BY <2>4, StepUsbReset
  <2>5. CASE USBHwISR
    BY <2>5, StepSetupReceived, StepOutReceived, StepInAcknowledged DEF USBHwISR, USBHandleControlTransfer
  <2>6. CASE MainLoopResets
    BY <2>6, StepMainLoopResets
  <2>7. CASE UNCHANGED usbVars
    <3>1. caller' = caller /\ ep' = ep /\ ctl' = ctl /\ dev' = dev /\ ran' = ran /\ stale' = stale
      BY <2>7 DEF usbVars
    <3>2. Shapes' /\ Waiting' /\ InHand' /\ Judged' /\ ResultHonest' /\ ReplyWhole'
      BY <3>1 DEF ControlInv, Shapes, Waiting, InHand, Judged, ResultHonest, ReplyWhole, Active, Now
    <3>3. Staged'
      BY <3>1 DEF ControlInv, Staged, Refused, Vanished, Receiving, Replying, Acking, Active, Now, Flying, Arriving, Quiet
    <3> QED BY <3>2, <3>3 DEF ControlInv
  <2> QED BY <2>1, <2>2, <2>3, <2>4, <2>5, <2>6, <2>7 DEF UsbNext
<1> QED BY <1>1, ControlInit, PTL

\* A control transfer that the host reports as done ran the handler once and
\* was accepted, one it reports as stalled was refused; what it read is its
\* own answer from the first byte, in order, and covers what the wrapper goes
\* on to use (libubertooth's ubertooth_control.c over usbcontrol.c), unless a
\* SETUP overtook the device's own interrupt.
THEOREM RepliesAreHonest == UsbInit /\ [][UsbNext]_usbVars => []ReplyHonest
<1>1. ControlInv => ReplyHonest
  <2> SUFFICES ASSUME ControlInv PROVE ReplyHonest
    OBVIOUS
  <2>1. Shapes /\ ResultHonest /\ ReplyWhole
    BY DEF ControlInv
  <2>2. caller.result \in {"none", "ok", "pipe", "error", "timeout", "nodevice"}
    BY <2>1, CallerIs DEF Verdicts
  <2>3. caller.phase \in Phases /\ caller.got \in 0..512 /\ caller.left \in 0..300
    BY <2>1, CallerIs
  <2>4. ctl.residue \in 1 - MaxPacketSize0..300 /\ ep.out \in {NoPacket} \cup 0..MaxPacketSize0
    BY <2>1 DEF Shapes, Controls, Endpoints
  <2> QED BY <2>1, <2>2, <2>3, <2>4 DEF ReplyHonest, TypeOK, Shapes, Device
<1> QED BY <1>1, ControlHolds, PTL

-----------------------------------------------------------------------------
(* The tools over the device: what a tool set is still set while it receives. *)

Wishes == {"channel", "hop_mode", "target", "MOD", "JAM_MODE", "EGO_MODE"}
\* The running tool has come past such a request; it has come past one that writes.
Passed(ops) == \E i \in 1..at - 1 : i <= Len(tool) /\ OpAt(tool[i]) \in ops
Written == \E i \in 1..at - 1 : i <= Len(tool) /\ Writes(OpAt(tool[i])) # {}

ToolShapes == /\ tool \in First \cup Second /\ at \in Nat \ {0} /\ "found" \in DOMAIN host /\ Device(d)
              /\ DOMAIN wants \subseteq Wishes /\ func \notin {"IDLE", "RESET"}
Granted == host.found # "BT_PROMISC_LE" => \A f \in DOMAIN wants : Value(d, f) = wants[f]
\* A device about to forget its settings has been told to, and holds none of the tool's.
Resting == d.requested_mode \in {"IDLE", "RESET"} /\ d.requested_mode # d.mode => DOMAIN wants = {} /\ Passed(Enders)
Ranging == func = "RANGE_TEST" \/ (d.requested_mode = "RANGE_TEST" /\ d.mode # "RANGE_TEST") =>
             DOMAIN wants = {} /\ Passed({"RANGE_TEST"})
Promiscuous ==
  host.found # "BT_PROMISC_LE" =>
    /\ d.requested_mode = "BT_PROMISC_LE" \/ func = "BT_PROMISC_LE" => Passed({"BTLE_PROMISC"})
    /\ func = "BT_PROMISC_LE" /\ d.requested_mode # "BT_PROMISC_LE" => DOMAIN wants = {}
Wished == DOMAIN wants # {} => Written
ToolInv == ToolShapes /\ Granted /\ Resting /\ Ranging /\ Promiscuous /\ Wished

\* The scripts' steps.
LEMMA ScriptIs ==
  ASSUME ToolShapes
  PROVE  /\ Len(tool) \in Nat /\ \A i \in 1..Len(tool) : tool[i] \in Steps
         /\ \A i \in 1..Len(tool) : tool[i].if = "skip" => Joins(tool, i) # {}
         /\ \A j \in 1..Len(tool) : \A i \in 1..j - 1 : MayFollow(OpAt(tool[i]), OpAt(tool[j]))
<1>1. Orderly(tool)
  BY ScriptsAssumption DEF ScriptsAssumption, ToolShapes
<1>2. tool \in Seq(Steps)
  BY <1>1 DEF Orderly
<1> QED BY <1>1, <1>2 DEF Orderly

LEMMA StepIs ==
  ASSUME ToolShapes, NEW kinds, Here(kinds)
  PROVE  at \in 1..Len(tool) /\ tool[at] \in Steps /\ tool[at].do \in kinds
<1>1. Len(tool) \in Nat /\ at \in Nat \ {0} /\ ~ (at > Len(tool))
  BY ScriptIs DEF ToolShapes, Here, Over
<1> QED BY <1>1, ScriptIs DEF Here

LEMMA GoesOn ==
  ASSUME ToolShapes, NEW kinds, Here(kinds)
  PROVE  AfterFailure \in Nat /\ AfterFailure > at /\ at + 1 \in Nat /\ at + 1 > at
<1>1. at \in 1..Len(tool) /\ Len(tool) \in Nat
  BY StepIs, ScriptIs
<1>2. ASSUME tool[at].if = "skip" PROVE NextJoin \in at + 1..Len(tool)
  <2>1. Joins(tool, at) # {}
    BY <1>1, <1>2, ScriptIs
  <2>2. NextJoin \in Joins(tool, at)
    BY <2>1 DEF NextJoin
  <2> QED BY <2>2 DEF Joins
<1>3. CASE tool[at].if = "must"
  BY <1>1, <1>3 DEF AfterFailure
<1>4. CASE tool[at].if = "skip"
  <2>1. AfterFailure = NextJoin + 1
    BY <1>4 DEF AfterFailure
  <2> QED BY <1>1, <1>2, <1>4, <2>1
<1>5. CASE tool[at].if \notin {"must", "skip"}
  BY <1>1, <1>5 DEF AfterFailure
<1> QED BY <1>1, <1>3, <1>4, <1>5

\* What a step asked of the device follows.
LEMMA Ordered ==
  ASSUME ToolShapes, at \in 1..Len(tool), NEW ops, Passed(ops)
  PROVE  \E before \in ops : MayFollow(before, OpAt(tool[at]))
<1>1. PICK i \in 1..at - 1 : i <= Len(tool) /\ OpAt(tool[i]) \in ops
  BY DEF Passed
<1> QED BY <1>1, ScriptIs

LEMMA WritesWishes == \A op : Writes(op) \subseteq Wishes
  BY DEF Writes, Wishes

LEMMA Values == \A e : /\ Value(e, "channel") = e.channel /\ Value(e, "hop_mode") = e.hop_mode /\ Value(e, "target") = e.target
                       /\ \A s \in {"MOD", "JAM_MODE", "EGO_MODE"} : Value(e, s) = e.set[s]
  BY DEF Value

\* What a tool has come past it has come past for good.
LEMMA Onward ==
  ASSUME ToolShapes, UNCHANGED tool, at' \in Nat, at' >= at
  PROVE  (\A ops : Passed(ops) => Passed(ops)') /\ (Written => Written')
<1>1. \A i \in 1..at - 1 : i \in 1..at' - 1
  <2>1. \A m, n \in Nat : n >= m => \A i \in 1..m - 1 : i \in 1..n - 1
    OBVIOUS
  <2> QED BY <2>1 DEF ToolShapes
<1>2. ASSUME NEW ops, Passed(ops) PROVE Passed(ops)'
  <2>1. PICK i \in 1..at - 1 : i <= Len(tool) /\ OpAt(tool[i]) \in ops
    BY <1>2 DEF Passed
  <2> QED BY <1>1, <2>1 DEF Passed
<1>3. ASSUME Written PROVE Written'
  <2>1. PICK i \in 1..at - 1 : i <= Len(tool) /\ Writes(OpAt(tool[i])) # {}
    BY <1>3 DEF Written
  <2> QED BY <1>1, <2>1 DEF Written
<1> QED BY <1>2, <1>3

\* Steps that leave the device alone.
LEMMA IdleStep ==
  ASSUME ToolInv, UNCHANGED <<d, func, wants, tool>>, host'.found = host.found, "found" \in DOMAIN host', at' \in Nat, at' >= at
  PROVE  ToolInv'
<1>1. (\A ops : Passed(ops) => Passed(ops)') /\ (Written => Written')
  BY Onward DEF ToolInv
<1>2. Passed(Enders) => Passed(Enders)'
  BY <1>1
<1>3. Passed({"RANGE_TEST"}) => Passed({"RANGE_TEST"})'
  BY <1>1
<1>4. Passed({"BTLE_PROMISC"}) => Passed({"BTLE_PROMISC"})'
  BY <1>1
<1>5. ToolShapes'
  BY DEF ToolInv, ToolShapes
<1>6. Granted' /\ Wished'
  BY <1>1 DEF ToolInv, Granted, Wished
<1>7. Resting' /\ Ranging' /\ Promiscuous'
  BY <1>2, <1>3, <1>4 DEF ToolInv, Resting, Ranging, Promiscuous
<1> QED BY <1>5, <1>6, <1>7 DEF ToolInv

\* A request that is served: the device, and what the tool then wishes.
LEMMA ServedDoes ==
  ASSUME Device(d), DOMAIN wants \subseteq Wishes, NEW c, {c.v, c.data} \subseteq Words, Served(c)
  PROVE  /\ Device(d') /\ d'.mode = d.mode /\ Frames(c, d, d') /\ func' = func
         /\ DOMAIN wants' = (IF c.op = "STOP" THEN {} ELSE DOMAIN wants \cup Writes(c.op))
         /\ (\A f \in DOMAIN wants : Value(d, f) = wants[f]) => \A f \in DOMAIN wants' : Value(d', f) = wants'[f]
<1>1. PICK x : x = vendor_request_handler(c, d)
  OBVIOUS
<1>2. d' = x.d /\ wants' = Wants(wants, c.op, d') /\ func' = func
  BY <1>1 DEF Served
<1>3. Device(d') /\ d'.mode = d.mode
  <2>1. Heeds(c, d, x.d)
    BY <1>1, HandlerHeeds
  <2> QED BY <1>2, <2>1 DEF Heeds
<1>4. Frames(c, d, d')
  <2>1. Frames(c, d, x.d)
    BY <1>1, HandlerFrames
  <2> QED BY <1>2, <2>1
<1>5. CASE c.op = "STOP"
  <2>1. wants' = << >>
    BY <1>2, <1>5 DEF Wants
  <2> QED BY <1>2, <1>3, <1>4, <1>5, <2>1
<1>6. CASE c.op # "STOP"
  <2>1. wants' = [f \in DOMAIN wants \cup Writes(c.op) |-> IF f \in Writes(c.op) THEN Value(d', f) ELSE wants[f]]
    BY <1>2, <1>6 DEF Wants
  <2>2. DOMAIN wants' = DOMAIN wants \cup Writes(c.op)
    BY <2>1
  <2>3. ASSUME NEW f \in Wishes, f \notin Writes(c.op) PROVE Value(d', f) = Value(d, f)
    <3>1. CASE f = "channel"
      <4>1. c.op # "SET_CHANNEL"
        BY <2>3, <3>1 DEF Writes
      <4> QED BY <1>4, <3>1, <4>1, Values DEF Frames
    <3>2. CASE f = "hop_mode"
      <4>1. c.op \notin {"SET_CHANNEL", "AFH", "START_HOPPING", "BTLE_SNIFFING", "BTLE_PROMISC", "TX_SYMBOLS"}
        BY <2>3, <3>2 DEF Writes
      <4> QED BY <1>4, <3>2, <4>1, Values DEF Frames
    <3>3. CASE f = "target"
      <4>1. c.op # "SET_BDADDR"
        BY <2>3, <3>3 DEF Writes
      <4> QED BY <1>4, <3>3, <4>1, Values DEF Frames
    <3>4. CASE f = "MOD"
      <4>1. c.op # "SET_MOD"
        BY <2>3, <3>4 DEF Writes
      <4> QED BY <1>4, <3>4, <4>1, Values DEF Frames
    <3>5. CASE f = "JAM_MODE"
      <4>1. c.op # "JAM_MODE"
        BY <2>3, <3>5 DEF Writes
      <4> QED BY <1>4, <3>5, <4>1, Values DEF Frames
    <3>6. CASE f = "EGO_MODE"
      <4>1. c.op # "EGO"
        BY <2>3, <3>6 DEF Writes
      <4> QED BY <1>4, <3>6, <4>1, Values DEF Frames
    <3> QED BY <2>3, <3>1, <3>2, <3>3, <3>4, <3>5, <3>6 DEF Wishes
  <2>4. ASSUME \A f \in DOMAIN wants : Value(d, f) = wants[f], NEW f \in DOMAIN wants'
        PROVE  Value(d', f) = wants'[f]
    <3>1. CASE f \in Writes(c.op)
      BY <2>1, <2>2, <3>1
    <3>2. CASE f \notin Writes(c.op)
      <4>1. f \in DOMAIN wants /\ f \in Wishes
        BY <2>2, <2>4, <3>2
      <4>2. wants'[f] = wants[f]
        BY <2>1, <3>2, <4>1
      <4> QED BY <2>3, <2>4, <3>2, <4>1, <4>2
    <3> QED BY <3>1, <3>2
  <2> QED BY <1>2, <1>3, <1>4, <1>6, <2>2, <2>4
<1> QED BY <1>5, <1>6

\* A request the running step, or the polling loop, makes and the device serves.
LEMMA ServedStep ==
  ASSUME ToolInv, NEW c, {c.v, c.data} \subseteq Words, Served(c), UNCHANGED tool,
         host'.found = host.found, "found" \in DOMAIN host', at' \in Nat, at' >= at,
         (at \in 1..Len(tool) /\ OpAt(tool[at]) = c.op /\ at' > at) \/ c.op = "CANCEL_FOLLOW"
  PROVE  ToolInv'
<1>1. /\ Device(d') /\ d'.mode = d.mode /\ Frames(c, d, d') /\ func' = func
      /\ DOMAIN wants' = (IF c.op = "STOP" THEN {} ELSE DOMAIN wants \cup Writes(c.op))
      /\ (\A f \in DOMAIN wants : Value(d, f) = wants[f]) => \A f \in DOMAIN wants' : Value(d', f) = wants'[f]
  BY ServedDoes DEF ToolInv, ToolShapes
<1>2. Writes("CANCEL_FOLLOW") = {} /\ \A op \in {"RESET", "FLASH", "RANGE_TEST", "STOP", "POLL"} : Writes(op) = {}
  BY DEF Writes
<1>3. (\A ops : Passed(ops) => Passed(ops)') /\ (Written => Written')
  BY Onward DEF ToolInv
<1>4. ASSUME c.op # "CANCEL_FOLLOW" PROVE at \in 1..at' - 1 /\ at <= Len(tool) /\ OpAt(tool[at]) = c.op
  <2>1. at \in 1..Len(tool) /\ OpAt(tool[at]) = c.op /\ at' > at
    BY <1>4
  <2>2. \A m, n \in Nat : n > m /\ m >= 1 => m \in 1..n - 1
    OBVIOUS
  <2>3. at \in Nat /\ at >= 1 /\ at <= Len(tool)
    BY <2>1, ScriptIs DEF ToolInv, ToolShapes
  <2> QED BY <2>1, <2>2, <2>3
<1>5. ASSUME c.op # "CANCEL_FOLLOW", NEW ops, c.op \in ops PROVE Passed(ops)'
  BY <1>4, <1>5 DEF Passed
<1>6. ASSUME NEW ops, Passed(ops) PROVE c.op = "CANCEL_FOLLOW" \/ \E before \in ops : MayFollow(before, c.op)
  <2>1. CASE at \in 1..Len(tool) /\ OpAt(tool[at]) = c.op
    BY <1>6, <2>1, Ordered DEF ToolInv
  <2> QED BY <2>1
<1>7. ASSUME c.op \in {"RESET", "FLASH", "RANGE_TEST"} PROVE DOMAIN wants = {}
  <2>1. SUFFICES ASSUME Written PROVE FALSE
    BY DEF ToolInv, Wished
  <2>2. PICK i \in 1..at - 1 : i <= Len(tool) /\ Writes(OpAt(tool[i])) # {}
    BY <2>1 DEF Written
  <2>3. Passed({OpAt(tool[i])})
    BY <2>2 DEF Passed
  <2>4. MayFollow(OpAt(tool[i]), c.op)
    BY <1>6, <1>7, <2>3
  <2> QED BY <1>7, <2>2, <2>4 DEF MayFollow, Enders
<1>8. ToolShapes'
  <2>1. DOMAIN wants' \subseteq Wishes
    BY <1>1, WritesWishes DEF ToolInv, ToolShapes
  <2>2. at' \in Nat \ {0}
    <3>1. \A m, n \in Nat : n >= m /\ m # 0 => n # 0
      OBVIOUS
    <3> QED BY <3>1 DEF ToolInv, ToolShapes
  <2> QED BY <1>1, <2>1, <2>2 DEF ToolInv, ToolShapes
<1>9. Granted'
  BY <1>1 DEF ToolInv, Granted
<1>10. Wished'
  <2>1. CASE Writes(c.op) # {}
    BY <1>2, <1>4, <2>1 DEF Wished, Written
  <2>2. CASE Writes(c.op) = {}
    BY <1>1, <1>3, <2>2 DEF ToolInv, Wished
  <2> QED BY <2>1, <2>2
<1>11. Resting'
  <2>1. SUFFICES ASSUME d'.requested_mode \in {"IDLE", "RESET"}, d'.requested_mode # d'.mode
                 PROVE  DOMAIN wants' = {} /\ Passed(Enders)'
    BY DEF Resting
  <2>2. CASE c.op \in {"STOP", "RESET", "FLASH"}
    <3>1. Passed(Enders)'
      BY <1>5, <2>2 DEF Enders
    <3> QED BY <1>1, <1>2, <1>7, <2>2, <3>1
  <2>3. CASE d'.requested_mode = d.requested_mode /\ c.op \notin ModeSetters
    <3>1. DOMAIN wants = {} /\ Passed(Enders)
      BY <1>1, <2>1, <2>3 DEF ToolInv, Resting
    <3>2. Writes(c.op) = {}
      BY <1>2, <1>6, <2>3, <3>1 DEF MayFollow, Starters, ModeSetters
    <3> QED BY <1>1, <1>3, <3>1, <3>2
  <2> QED BY <1>1, <2>1, <2>2, <2>3 DEF Frames
<1>12. Ranging'
  <2>1. SUFFICES ASSUME func = "RANGE_TEST" \/ (d'.requested_mode = "RANGE_TEST" /\ d.mode # "RANGE_TEST")
                 PROVE  DOMAIN wants' = {} /\ Passed({"RANGE_TEST"})'
    BY <1>1 DEF Ranging
  <2>2. CASE c.op = "RANGE_TEST"
    <3>1. Passed({"RANGE_TEST"})'
      BY <1>5, <2>2
    <3> QED BY <1>1, <1>2, <1>7, <2>2, <3>1
  <2>3. CASE c.op # "RANGE_TEST"
    <3>1. DOMAIN wants = {} /\ Passed({"RANGE_TEST"})
      BY <1>1, <2>1, <2>3 DEF ToolInv, Ranging, Frames
    <3>2. Writes(c.op) = {}
      BY <1>2, <1>6, <3>1 DEF MayFollow
    <3> QED BY <1>1, <1>3, <3>1, <3>2
  <2> QED BY <2>2, <2>3
<1>13. Promiscuous'
  <2>1. SUFFICES ASSUME host.found # "BT_PROMISC_LE"
                 PROVE  /\ d'.requested_mode = "BT_PROMISC_LE" \/ func = "BT_PROMISC_LE" => Passed({"BTLE_PROMISC"})'
                        /\ func = "BT_PROMISC_LE" /\ d'.requested_mode # "BT_PROMISC_LE" => DOMAIN wants' = {}
    BY <1>1 DEF Promiscuous
  <2>2. /\ d.requested_mode = "BT_PROMISC_LE" \/ func = "BT_PROMISC_LE" => Passed({"BTLE_PROMISC"})
        /\ func = "BT_PROMISC_LE" /\ d.requested_mode # "BT_PROMISC_LE" => DOMAIN wants = {}
    BY <2>1 DEF ToolInv, Promiscuous
  <2>3. d'.requested_mode = "BT_PROMISC_LE" => c.op = "BTLE_PROMISC" \/ d.requested_mode = "BT_PROMISC_LE"
    BY <1>1 DEF Frames
  <2>4. c.op = "BTLE_PROMISC" => Passed({"BTLE_PROMISC"})'
    BY <1>5
  <2>5. Passed({"BTLE_PROMISC"}) => Passed({"BTLE_PROMISC"})'
    BY <1>3
  <2>6. ASSUME func = "BT_PROMISC_LE", d'.requested_mode # "BT_PROMISC_LE" PROVE DOMAIN wants' = {}
    <3>1. c.op \in {"STOP", "POLL", "CANCEL_FOLLOW"}
      BY <1>6, <2>2, <2>6 DEF MayFollow
    <3>2. CASE c.op = "STOP"
      BY <1>1, <3>2
    <3>3. CASE c.op \in {"POLL", "CANCEL_FOLLOW"}
      <4>1. d.requested_mode # "BT_PROMISC_LE"
        BY <1>1, <2>6, <3>3 DEF Frames
      <4> QED BY <1>1, <1>2, <2>2, <2>6, <3>3, <4>1
    <3> QED BY <3>1, <3>2, <3>3
  <2> QED BY <2>2, <2>3, <2>4, <2>5, <2>6
<1> QED BY <1>8, <1>9, <1>10, <1>11, <1>12, <1>13 DEF ToolInv

LEMMA RequestStep ==
  ASSUME ToolInv, NEW kinds, Here(kinds), NEW c, {c.v, c.data} \subseteq Words, OpAt(tool[at]) = c.op, Request(c), HostSame
  PROVE  ToolInv'
<1>1. at \in 1..Len(tool) /\ at \in Nat
  BY StepIs DEF ToolInv, ToolShapes
<1>2. /\ AfterFailure \in Nat /\ AfterFailure > at /\ AfterFailure >= at
      /\ at + 1 \in Nat /\ at + 1 > at /\ at + 1 >= at
  BY <1>1, GoesOn DEF ToolInv
<1>3. at' \in Nat /\ at' > at /\ at' >= at
  BY <1>2 DEF Request, GoOn
<1>4. host'.found = host.found /\ "found" \in DOMAIN host' /\ tool' = tool
  BY DEF HostSame, ToolInv, ToolShapes
<1>5. CASE Served(c)
  BY <1>1, <1>3, <1>4, <1>5, ServedStep
<1>6. CASE DeviceSame
  BY <1>3, <1>4, <1>6, IdleStep DEF DeviceSame
<1> QED BY <1>5, <1>6 DEF Request

LEMMA Running ==
  ASSUME ToolShapes, ~ Over
  PROVE  Len(tool) + 1 \in Nat /\ Len(tool) + 1 >= at
<1>1. Len(tool) \in Nat /\ at \in Nat /\ ~ (at > Len(tool))
  BY ScriptIs DEF ToolShapes, Over
<1> QED BY <1>1

\* Steps of the tool and signals that make no request.
LEMMA QuietStep ==
  ASSUME ToolInv, UNCHANGED tool, DeviceSame, HostSame \/ \E e : host' = e /\ DOMAIN e = DOMAIN host /\ e.found = host.found,
         \/ at' = at
         \/ \E kinds : Here(kinds) /\ at' \in {at + 1, AfterFailure}
         \/ ~ Over /\ at' = Len(tool) + 1
  PROVE  ToolInv'
<1>1. host'.found = host.found /\ "found" \in DOMAIN host'
  BY DEF HostSame, ToolInv, ToolShapes
<1>2. at' \in Nat /\ at' >= at
  <2>1. CASE at' = at
    BY <2>1 DEF ToolInv, ToolShapes
  <2>2. CASE \E kinds : Here(kinds) /\ at' \in {at + 1, AfterFailure}
    <3>1. PICK kinds : Here(kinds) /\ at' \in {at + 1, AfterFailure}
      BY <2>2
    <3>2. at' \in Nat /\ at' > at /\ at \in Nat
      BY <3>1, GoesOn DEF ToolInv, ToolShapes
    <3> QED BY <3>2
  <2>3. CASE ~ Over /\ at' = Len(tool) + 1
    BY <2>3, Running DEF ToolInv
  <2> QED BY <2>1, <2>2, <2>3
<1> QED BY <1>1, <1>2, IdleStep DEF DeviceSame

\* What the start of the firmware and cc2400_idle leave.
LEMMA Idled ==
  ASSUME Device(d), NEW e, e \in {cc2400_idle(d), InitialDevice(<< >>)}
  PROVE  Device(e) /\ e.mode = "IDLE" /\ e.requested_mode = "IDLE"
<1>1. PICK f : f = InitialDevice(<< >>)
  OBVIOUS
<1>2. Device(f) /\ f.mode = "IDLE" /\ f.requested_mode = "IDLE"
  BY <1>1, InitiallyIdle
<1>3. CASE e = cc2400_idle(d)
  <2>1. PICK values : values = [d.set EXCEPT !["MOD"] = 0, !["JAM_MODE"] = 0, !["EGO_MODE"] = 0]
    OBVIOUS
  <2>2. values \in [Settings -> Words]
    <3>1. 0 \in Words
      BY DEF Words, WordMax
    <3>2. d.set \in [Settings -> Words]
      BY DEF Device, DeviceTypes
    <3> QED BY <2>1, <3>1, <3>2
  <2>3. e = [f EXCEPT !.target_set = d.target_set, !.do_follow = d.do_follow, !.cancel_follow = d.cancel_follow,
                      !.afh_map = d.afh_map, !.afh_enabled = d.afh_enabled, !.set = values]
    BY <1>1, <1>3, <2>1 DEF cc2400_idle
  <2>4. /\ DOMAIN e = Fields /\ e.set = values /\ e.mode = f.mode /\ e.requested_mode = f.requested_mode
        /\ e.hop_mode = f.hop_mode /\ e.channel = f.channel /\ e.requested_channel = f.requested_channel
    BY <1>2, <2>3, FieldsAre DEF Device
  <2> QED BY <1>2, <2>2, <2>4 DEF Device, DeviceTypes
<1>4. CASE e = InitialDevice(<< >>)
  BY <1>1, <1>2, <1>4
<1> QED BY <1>3, <1>4

\* A device at rest, its settings gone, is one the tool wants nothing of.
LEMMA RestsStep ==
  ASSUME ToolInv, UNCHANGED <<tool, at, host, wants>>, d' \in {cc2400_idle(d), InitialDevice(<< >>)}, func' = "main",
         host.found # "BT_PROMISC_LE" => DOMAIN wants = {}
  PROVE  ToolInv'
<1>1. Device(d') /\ d'.mode = "IDLE" /\ d'.requested_mode = "IDLE"
  BY Idled DEF ToolInv, ToolShapes
<1>2. ToolShapes'
  BY <1>1 DEF ToolInv, ToolShapes
<1>3. Granted' /\ Wished'
  BY DEF ToolInv, Granted, Wished, Written
<1>4. Resting' /\ Ranging' /\ Promiscuous'
  BY <1>1 DEF Resting, Ranging, Promiscuous
<1> QED BY <1>2, <1>3, <1>4 DEF ToolInv

LEMMA MainLoopKeeps == ASSUME ToolInv, MainLoop PROVE ToolInv'
<1>1. func = "main" /\ d.requested_mode # d.mode /\ UNCHANGED <<tool, at, host, wants>>
  BY DEF MainLoop
<1>2. CASE d.requested_mode \in {"IDLE", "RESET"}
  <2>1. d' \in {cc2400_idle(d), InitialDevice(<< >>)} /\ func' = "main"
    BY <1>1, <1>2 DEF MainLoop
  <2>2. DOMAIN wants = {}
    BY <1>1, <1>2 DEF ToolInv, Resting
  <2> QED BY <1>1, <2>1, <2>2, RestsStep
<1>3. CASE d.requested_mode \notin {"IDLE", "RESET"}
  <2>1. d' \in {d, [d EXCEPT !.mode = d.requested_mode]} /\ func' \in {"main", d.requested_mode}
    BY <1>1, <1>3 DEF MainLoop
  <2>2. Device(d) /\ d'.mode \in {d.mode, d.requested_mode} /\ d'.requested_mode = d.requested_mode /\ DOMAIN d' = Fields
        /\ d'.hop_mode = d.hop_mode /\ d'.channel = d.channel /\ d'.requested_channel = d.requested_channel
        /\ d'.set = d.set /\ d'.target = d.target
    BY <2>1, FieldsAre DEF ToolInv, ToolShapes, Device
  <2>3. ToolShapes'
    BY <1>1, <1>3, <2>1, <2>2 DEF ToolInv, ToolShapes, Device, DeviceTypes
  <2>4. Granted' /\ Wished'
    <3>1. \A f : Value(d', f) = Value(d, f)
      BY <2>2 DEF Value
    <3> QED BY <1>1, <3>1 DEF ToolInv, Granted, Wished, Written
  <2>5. \A ops : Passed(ops)' <=> Passed(ops)
    BY <1>1 DEF Passed
  <2>6. Resting' /\ Ranging' /\ Promiscuous'
    BY <1>1, <1>3, <2>1, <2>2, <2>5 DEF ToolInv, Resting, Ranging, Promiscuous
  <2> QED BY <2>3, <2>4, <2>6 DEF ToolInv
<1> QED BY <1>2, <1>3

LEMMA ModeEndsKeeps == ASSUME ToolInv, ModeEnds PROVE ToolInv'
<1>1. func' = "main" /\ UNCHANGED <<tool, at, host, wants>>
  BY DEF ModeEnds
<1>2. \A ops : Passed(ops)' <=> Passed(ops)
  BY <1>1 DEF Passed
<1>3. CASE func = "RANGE_TEST" /\ d' = [d EXCEPT !.requested_mode = "IDLE"]
  <2>1. DOMAIN wants = {} /\ Passed(Enders)'
    BY <1>2, <1>3 DEF ToolInv, Ranging, Passed, Enders
  <2>2. ToolShapes' /\ d'.requested_mode = "IDLE"
    <3>1. /\ DOMAIN d' = Fields /\ d'.requested_mode = "IDLE" /\ d'.mode = d.mode /\ d'.hop_mode = d.hop_mode
          /\ d'.channel = d.channel /\ d'.requested_channel = d.requested_channel /\ d'.set = d.set
      BY <1>3, FieldsAre DEF ToolInv, ToolShapes, Device
    <3> QED BY <1>1, <3>1 DEF ToolInv, ToolShapes, Device, DeviceTypes, ModeNames
  <2>3. Granted' /\ Wished' /\ Resting' /\ Ranging' /\ Promiscuous'
    BY <1>1, <2>1, <2>2 DEF Granted, Wished, Resting, Ranging, Promiscuous
  <2> QED BY <2>2, <2>3 DEF ToolInv
<1>4. CASE func = "BT_PROMISC_LE" /\ d.requested_mode # func /\ d' = cc2400_idle(d)
  <2>1. host.found # "BT_PROMISC_LE" => DOMAIN wants = {}
    BY <1>4 DEF ToolInv, Promiscuous
  <2> QED BY <1>1, <1>4, <2>1, RestsStep
<1>5. CASE d' = d
  <2>1. ToolShapes'
    BY <1>1, <1>5 DEF ToolInv, ToolShapes
  <2>2. Granted' /\ Wished'
    BY <1>1, <1>5 DEF ToolInv, Granted, Wished, Written
  <2>3. Resting' /\ Ranging' /\ Promiscuous'
    BY <1>1, <1>2, <1>5 DEF ToolInv, Resting, Ranging, Promiscuous
  <2> QED BY <2>1, <2>2, <2>3 DEF ToolInv
<1> QED BY <1>3, <1>4, <1>5 DEF ModeEnds

LEMMA RunNextKeeps == ASSUME ToolInv, RunNext PROVE ToolInv'
<1>1. /\ Settled /\ func # "RANGE_TEST" /\ tool' \in Second /\ at' = 1 /\ wants' = << >> /\ d' = d /\ func' = func
      /\ "found" \in DOMAIN host' /\ host'.found = d.requested_mode
  BY DEF RunNext, FreshHost
<1>2. ToolShapes' /\ Granted' /\ Wished'
  BY <1>1 DEF ToolInv, ToolShapes, Granted, Wished
<1>3. Resting' /\ Ranging' /\ Promiscuous'
  BY <1>1 DEF ToolInv, ToolShapes, Settled, Resting, Ranging, Promiscuous
<1> QED BY <1>2, <1>3 DEF ToolInv

LEMMA PollKeeps == ASSUME ToolInv, Poll PROVE ToolInv'
<1>1. Here({"poll"}) /\ UNCHANGED <<tool, tools>>
  BY DEF Poll
<1>2. CASE at' = at + 1 /\ DeviceSame /\ UNCHANGED host
  BY <1>1, <1>2, QuietStep DEF HostSame
<1>3. CASE host' = [host EXCEPT !.cancel = FALSE] /\ Served(Plain("CANCEL_FOLLOW")) /\ UNCHANGED at
  <2>1. PICK c : c = Plain("CANCEL_FOLLOW")
    OBVIOUS
  <2>2. c.op = "CANCEL_FOLLOW" /\ {c.v, c.data} \subseteq Words
    BY <2>1 DEF Plain, Out, Words, WordMax
  <2>3. host'.found = host.found /\ "found" \in DOMAIN host' /\ at' \in Nat /\ at' >= at
    BY <1>3 DEF ToolInv, ToolShapes
  <2> QED BY <1>1, <1>3, <2>1, <2>2, <2>3, ServedStep
<1> QED BY <1>2, <1>3 DEF Poll, GoOn

LEMMA ToolStepKeeps == ASSUME ToolInv, ToolStep PROVE ToolInv'
<1>1. CASE AskDevice
  <2>1. tool[at] \in Steps /\ tool[at].do = "ask" /\ Here({"ask"}) /\ Request(tool[at].cmd) /\ HostSame
    BY <1>1, StepIs DEF AskDevice, ToolInv
  <2>2. {tool[at].cmd.v, tool[at].cmd.data} \subseteq Words
    BY <2>1 DEF Steps
  <2>3. OpAt(tool[at]) = tool[at].cmd.op
    BY <2>1 DEF OpAt
  <2> QED BY <2>1, <2>2, <2>3, RequestStep
<1>2. CASE ubertooth_stop
  <2>1. PICK c : c = Plain("STOP")
    OBVIOUS
  <2>2. c.op = "STOP" /\ {c.v, c.data} \subseteq Words
    BY <2>1 DEF Plain, Out, Words, WordMax
  <2>3. tool[at].do = "stop" /\ Here({"stop"}) /\ Request(c) /\ HostSame
    BY <1>2, <2>1, StepIs DEF ubertooth_stop, ToolInv
  <2>4. OpAt(tool[at]) = c.op
    BY <2>2, <2>3 DEF OpAt
  <2> QED BY <2>2, <2>3, <2>4, RequestStep
<1>3. CASE Simple
  BY <1>3, QuietStep DEF Simple, GoOn, Advance, HostSame
<1>4. CASE register_cleanup_handler
  <2>1. DOMAIN [host EXCEPT !.handlers = TRUE] = DOMAIN host /\ [host EXCEPT !.handlers = TRUE].found = host.found
    BY DEF ToolInv, ToolShapes
  <2> QED BY <1>4, <2>1, QuietStep DEF register_cleanup_handler, GoOn
<1>5. CASE ubertooth_set_timeout
  <2>1. DOMAIN [host EXCEPT !.armed = TRUE] = DOMAIN host /\ [host EXCEPT !.armed = TRUE].found = host.found
    BY DEF ToolInv, ToolShapes
  <2> QED BY <1>5, <2>1, QuietStep DEF ubertooth_set_timeout, GoOn
<1>6. CASE Again
  <2>1. DOMAIN [host EXCEPT !.stop = FALSE, !.asked = FALSE] = DOMAIN host
        /\ [host EXCEPT !.stop = FALSE, !.asked = FALSE].found = host.found
    BY DEF ToolInv, ToolShapes
  <2> QED BY <1>6, <2>1, QuietStep DEF Again, GoOn
<1>7. CASE Loop
  BY <1>7, QuietStep DEF Loop, GoOn, HostSame
<1>8. CASE Poll
  BY <1>8, PollKeeps
<1> QED BY <1>1, <1>2, <1>3, <1>4, <1>5, <1>6, <1>7, <1>8 DEF ToolStep

LEMMA SignalsKeep == ASSUME ToolInv, Signal \/ SigAlarm \/ SigUsr1 \/ SigKill PROVE ToolInv'
<1>1. CASE Signal
  <2>1. DOMAIN [host EXCEPT !.stop = host.handlers, !.asked = TRUE] = DOMAIN host
        /\ [host EXCEPT !.stop = host.handlers, !.asked = TRUE].found = host.found
    BY DEF ToolInv, ToolShapes
  <2> QED BY <1>1, <2>1, QuietStep DEF Signal
<1>2. CASE SigAlarm
  <2>1. DOMAIN [host EXCEPT !.stop = TRUE, !.armed = FALSE, !.asked = TRUE] = DOMAIN host
        /\ [host EXCEPT !.stop = TRUE, !.armed = FALSE, !.asked = TRUE].found = host.found
    BY DEF ToolInv, ToolShapes
  <2> QED BY <1>2, <2>1, QuietStep DEF SigAlarm
<1>3. CASE SigUsr1
  <2>1. DOMAIN [host EXCEPT !.cancel = TRUE] = DOMAIN host /\ [host EXCEPT !.cancel = TRUE].found = host.found
    BY DEF ToolInv, ToolShapes
  <2> QED BY <1>3, <2>1, QuietStep DEF SigUsr1
<1>4. CASE SigKill
  BY <1>4, QuietStep DEF SigKill, HostSame
<1> QED BY <1>1, <1>2, <1>3, <1>4

(* While a tool receives, the device runs with every setting the tool asked  *)
(* for, whichever tools run, whatever requests fail and whenever signals      *)
(* come: what bluetooth_rxtx.c's main loop and cc2400_idle make of the         *)
(* settings the tools' requests wrote (ToolInv).                              *)
THEOREM SettingsAsAsked == Init /\ [][Next]_vars => []AsAsked
<1>1. ASSUME Init PROVE ToolInv
  <2>1. tool \in First /\ at = 1 /\ func = "main" /\ wants = << >> /\ "found" \in DOMAIN host
    BY <1>1 DEF Init, FreshHost
  <2>2. Device(d) /\ d.mode = "IDLE" /\ d.requested_mode = "IDLE"
    BY <1>1, InitiallyIdle DEF Init
  <2>3. ToolShapes /\ Granted /\ Wished
    BY <2>1, <2>2 DEF ToolShapes, Granted, Wished
  <2> QED BY <2>1, <2>2, <2>3 DEF ToolInv, Resting, Ranging, Promiscuous
<1>2. ASSUME ToolInv, [Next]_vars PROVE ToolInv'
  <2>1. CASE UNCHANGED vars
    <3>1. UNCHANGED <<tool, at, host, d, func, wants>>
      BY <2>1 DEF vars
    <3> QED BY <1>2, <3>1, IdleStep DEF ToolInv, ToolShapes
  <2>2. CASE MainLoop \/ ModeEnds
    BY <1>2, <2>2, MainLoopKeeps, ModeEndsKeeps
  <2>3. CASE ToolStep
    BY <1>2, <2>3, ToolStepKeeps
  <2>4. CASE Signal \/ SigAlarm \/ SigUsr1 \/ SigKill
    BY <1>2, <2>4, SignalsKeep
  <2>5. CASE RunNext
    BY <1>2, <2>5, RunNextKeeps
  <2> QED BY <1>2, <2>1, <2>2, <2>3, <2>4, <2>5 DEF Next
<1>3. ToolInv => AsAsked
  BY DEF ToolInv, Granted, AsAsked
<1> QED BY <1>1, <1>2, <1>3, PTL
=============================================================================
