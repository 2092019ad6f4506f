------------------------------ MODULE Rxtx_proofs ------------------------------
(* Proofs about the stream of symbol packets at both its ends.  In the main   *)
(* loop of the bluetooth_rxtx firmware: the types of its shared variables     *)
(* under any requests, OldFirst and PacketsTrue.  In the host's library: no   *)
(* packet missing or twice, EveryPacket.                                      *)
EXTENDS Rxtx, HostStream, VendorRequests_proofs, FiniteSetTheorems

-----------------------------------------------------------------------------
(* The types.                                                               *)

Pkt(p) == DOMAIN p = DOMAIN NoPacket /\ p.swaps \in Nat
Entry == [kind : PacketKinds, old : BOOLEAN]
RadioStates == [state : {"off", "rx", "tx"}, fs : Int, ssel : BOOLEAN]
DmaStates == [on : BOOLEAN, tc : 0..Several, mixed : BOOLEAN, filling : BOOLEAN]
Places == {"main", "switch", "reset", "tx", "sent", "unlock", "ledunlock", "sweep", "reading", "led", "ledtest",
           "slave", "range", "repeater", "receive", "generic", "le", "lepoll", "ego", "xmas"} \cup Streaming
Types ==
  /\ pc \in Places /\ Device(d)
  /\ d.q \in Seq(Entry) /\ Len(d.q) < QueueSize /\ (pc \in {"first", "rest"} => ~ Full(d.q))
  /\ bulk \in Seq(Entry) /\ Len(bulk) <= 2
  /\ radio \in RadioStates /\ status \in SUBSET Flags
  /\ dma \in DmaStates
  /\ Pkt(pkt)
  /\ since \in 0..Several /\ race \in 0..2 /\ made \in 0..Len(Script)

-----------------------------------------------------------------------------
(* The order of packets in the endpoint's buffers b and the queue q.        *)

AllOld(s) == \A i \in 1..Len(s) : s[i].old
Ordered(b, q) == /\ \A i \in 1..Len(b) : b[i].old => \A j \in 1..i : b[j].old
                 /\ \A i \in 1..Len(q) : q[i].old => i = 1 /\ AllOld(b)
\* Where the next packet of the symbol stream is still to come.
Before == {"test", "waiting", "poll", "hop", "retune", "flag"}
Making == (Before \ {"test"}) \cup Window
Order == /\ Ordered(bulk, d.q)
         /\ pc \in Making /\ IsLe(d.requested_mode) => d.q = << >> /\ AllOld(bulk)

-----------------------------------------------------------------------------
(* The symbol stream.                                                       *)

Blocks ==
  /\ pc \in {"flag", "enqueued", "clear"} \cup Window => dma.tc > 0
  /\ pc \in Window /\ race < 2 => pkt.swaps = 0
  /\ pc \in {"first", "rest"} /\ race = 0 => pkt.stamp = 0
  /\ pc = "rest" /\ race = 0 => pkt.first = 0
Marks ==
  /\ pc \in Streaming /\ race = 1 /\ dma.filling => dma.tc = 0 \/ pc \in {"enqueued", "clear"}
  /\ pc \in Streaming /\ race = 0 /\ dma.filling => dma.tc = 0 /\ (pc = "retune" \/ d.discard)
  /\ pc \in Before /\ race = 0 /\ dma.mixed /\ dma.tc > 0 => d.discard
  /\ pc \in Window /\ race = 0 /\ pkt.mixed => "DISCARD" \in status
Gaps ==
  /\ pc \in Streaming /\ race = 0 => since <= dma.tc \/ "FIFO_OVERFLOW" \in status
  /\ pc \in {"enqueued", "clear"} /\ race = 0 => since = 0 \/ "FIFO_OVERFLOW" \in status
  /\ pc \in Window /\ race = 0 /\ pkt.gap => status \cap {"DMA_OVERFLOW", "FIFO_OVERFLOW"} # {}
Made == pc = "enqueued" /\ ~ pkt.dirty =>
          /\ pkt.stamp = pkt.first /\ pkt.first = pkt.last
          /\ pkt.mixed => "DISCARD" \in pkt.flags
          /\ pkt.gap => pkt.flags \cap {"DMA_OVERFLOW", "FIFO_OVERFLOW"} # {}
Stream == Blocks /\ Marks /\ Gaps /\ Made

-----------------------------------------------------------------------------
(* What the model does to the two sequences of packets.                     *)

LEMMA SentOrdered ==
  ASSUME NEW b \in Seq(Entry), NEW q \in Seq(Entry), Len(b) <= 2, NEW s, s = Sent(q, b)
  PROVE  /\ s.q \in Seq(Entry) /\ Len(s.q) <= Len(q) /\ s.b \in Seq(Entry) /\ Len(s.b) <= 2
         /\ Ordered(b, q) => Ordered(s.b, s.q)
         /\ q = << >> /\ AllOld(b) => s.q = << >> /\ AllOld(s.b)
<1>1. PICK k : k = IF Len(q) < 2 - Len(b) THEN Len(q) ELSE 2 - Len(b)
  OBVIOUS
<1>2. k \in 0..Len(q) /\ k + Len(b) <= 2
  BY <1>1, LenProperties
<1>3. s.q = SubSeq(q, k + 1, Len(q)) /\ s.b = b \o SubSeq(q, 1, k)
  BY <1>1 DEF Sent
<1>4. /\ s.q \in Seq(Entry) /\ Len(s.q) = Len(q) - k
      /\ \A i \in 1..Len(s.q) : s.q[i] = q[k + i]
  <2>1. \A i \in k + 1..Len(q) : q[i] \in Entry
    BY <1>2, ElementOfSeq
  <2> QED BY <1>2, <1>3, <2>1, LenProperties, SubSeqProperties
<1>5. /\ s.b \in Seq(Entry) /\ Len(s.b) = Len(b) + k
      /\ \A i \in 1..Len(s.b) : s.b[i] = IF i <= Len(b) THEN b[i] ELSE q[i - Len(b)]
  <2>1. \A i \in 1..k : q[i] \in Entry
    BY <1>2, ElementOfSeq
  <2>2. PICK t : t = SubSeq(q, 1, k)
    OBVIOUS
  <2>3. t \in Seq(Entry) /\ Len(t) = k /\ \A i \in 1..k : t[i] = q[i]
    BY <1>2, <2>1, <2>2, LenProperties, SubSeqProperties
  <2> QED BY <1>2, <1>3, <2>2, <2>3, LenProperties, ConcatProperties
<1>6. ASSUME Ordered(b, q) PROVE Ordered(s.b, s.q)
  <2>1. ASSUME NEW i \in 1..Len(s.b), s.b[i].old, NEW j \in 1..i PROVE s.b[j].old
    BY <1>2, <1>5, <1>6, <2>1, LenProperties DEF Ordered, AllOld
  <2>2. ASSUME NEW i \in 1..Len(s.q), s.q[i].old PROVE i = 1 /\ AllOld(s.b)
    <3>1. k = 0 /\ i = 1 /\ AllOld(b)
      BY <1>2, <1>4, <1>6, <2>2, LenProperties DEF Ordered
    <3> QED BY <3>1, <1>5, LenProperties DEF AllOld
  <2> QED BY <2>1, <2>2 DEF Ordered
<1>7. ASSUME q = << >>, AllOld(b) PROVE s.q = << >> /\ AllOld(s.b)
  BY <1>2, <1>4, <1>5, <1>7, LenProperties, EmptySeq DEF AllOld
<1> QED BY <1>2, <1>4, <1>5, <1>6, <1>7, LenProperties

LEMMA AgedOld ==
  ASSUME NEW s \in Seq(Entry)
  PROVE  Aged(s) \in Seq(Entry) /\ Len(Aged(s)) = Len(s) /\ AllOld(Aged(s))
<1>1. PICK t : t = Aged(s)
  OBVIOUS
<1>2. DOMAIN t = 1..Len(s) /\ \A i \in 1..Len(s) : t[i] = [s[i] EXCEPT !.old = TRUE]
  BY <1>1, LenProperties DEF Aged
<1>3. ASSUME NEW i \in 1..Len(s) PROVE t[i] \in Entry /\ t[i].old
  <2>1. PICK x \in Entry : x = s[i]
    BY ElementOfSeq
  <2>2. [x EXCEPT !.old = TRUE] \in Entry /\ [x EXCEPT !.old = TRUE].old
    BY DEF Entry
  <2> QED BY <1>2, <2>1, <2>2
<1>4. t \in Seq(Entry) /\ Len(t) = Len(s)
  BY <1>1, <1>2, <1>3, LenProperties DEF Aged
<1> QED BY <1>1, <1>3, <1>4 DEF AllOld

LEMMA TailOrdered ==
  ASSUME NEW b \in Seq(Entry), NEW q \in Seq(Entry), Ordered(b, q)
  PROVE  /\ q # << >> => Ordered(b, Tail(q))
         /\ b # << >> => Ordered(Tail(b), q)
         /\ b # << >> /\ AllOld(b) => AllOld(Tail(b))
<1>1. ASSUME q # << >> PROVE Ordered(b, Tail(q))
  <2>1. /\ Len(q) \in Nat /\ Len(Tail(q)) = Len(q) - 1
        /\ \A i \in 1..Len(Tail(q)) : Tail(q)[i] = q[i + 1]
    BY <1>1, HeadTailProperties, LenProperties
  <2>2. ASSUME NEW i \in 1..Len(Tail(q)) PROVE ~ Tail(q)[i].old
    BY <2>1, <2>2 DEF Ordered
  <2> QED BY <2>2 DEF Ordered
<1>2. ASSUME b # << >> PROVE Ordered(Tail(b), q) /\ (AllOld(b) => AllOld(Tail(b)))
  <2>1. /\ Len(b) \in Nat /\ Len(Tail(b)) = Len(b) - 1
        /\ \A i \in 1..Len(Tail(b)) : Tail(b)[i] = b[i + 1]
    BY <1>2, HeadTailProperties, LenProperties
  <2>2. AllOld(b) => AllOld(Tail(b))
    BY <2>1 DEF AllOld
  <2>3. ASSUME NEW i \in 1..Len(Tail(b)), Tail(b)[i].old, NEW j \in 1..i PROVE Tail(b)[j].old
    BY <2>1, <2>3 DEF Ordered
  <2> QED BY <2>2, <2>3 DEF Ordered
<1> QED BY <1>1, <1>2

LEMMA EmptyOrdered ==
  ASSUME NEW b \in Seq(Entry), NEW c \in Seq(Entry), NEW q \in Seq(Entry), Ordered(b, q), AllOld(c)
  PROVE  Ordered(b, << >>) /\ Ordered(c, << >>)
  BY LenProperties DEF Ordered, AllOld

LEMMA AppendOrdered ==
  ASSUME NEW b \in Seq(Entry), NEW q \in Seq(Entry), Ordered(b, q), NEW p \in Entry,
         p.old => q = << >> /\ AllOld(b)
  PROVE  Ordered(b, Append(q, p))
<1>1. /\ Len(q) \in Nat /\ Len(Append(q, p)) = Len(q) + 1 /\ Append(q, p)[Len(q) + 1] = p
      /\ \A i \in 1..Len(q) : Append(q, p)[i] = q[i]
  BY AppendProperties, LenProperties
<1>2. ASSUME NEW i \in 1..Len(q) + 1, Append(q, p)[i].old PROVE i = 1 /\ AllOld(b)
  <2>1. CASE i = Len(q) + 1
    BY <1>1, <1>2, <2>1, EmptySeq
  <2>2. CASE i \in 1..Len(q)
    BY <1>1, <1>2, <2>2 DEF Ordered
  <2> QED BY <1>1, <2>1, <2>2
<1> QED BY <1>1, <1>2 DEF Ordered

-----------------------------------------------------------------------------
(* Every step keeps the types.                                              *)

LEMMA ServeHeeds ==
  ASSUME NEW e, NEW b, Device(e), e.q \in Seq(Entry), Len(e.q) < QueueSize, b \in Seq(Entry), Len(b) <= 2,
         made \in 0..Len(Script), Serve(e, b)
  PROVE  /\ Device(d') /\ d'.mode = e.mode /\ (e.discard => d'.discard)
         /\ d'.q \in Seq(Entry) /\ Len(d'.q) < QueueSize /\ bulk' \in Seq(Entry) /\ Len(bulk') <= 2
         /\ made' \in 0..Len(Script)
         /\ Ordered(b, e.q) => Ordered(bulk', d'.q)
         /\ IsLe(d'.requested_mode) /\ (IsLe(e.requested_mode) => e.q = << >> /\ AllOld(b))
            => d'.q = << >> /\ AllOld(bulk')
<1>1. CASE d' = e /\ bulk' = b /\ UNCHANGED made
  BY <1>1
<1>2. CASE /\ made < Len(Script) /\ made' = made + 1
           /\ \E r \in Script[made + 1] : /\ d' = vendor_request_handler(r, e).d
                                        /\ bulk' = IF LeOp(r) THEN Aged(b) ELSE b
  <2>1. PICK r \in Script[made + 1] : /\ d' = vendor_request_handler(r, e).d
                                      /\ bulk' = IF LeOp(r) THEN Aged(b) ELSE b
    BY <1>2
  <2>2. made + 1 \in 1..Len(Script) /\ made' \in 0..Len(Script)
    BY <1>2, RxtxAssumption
  <2>3. {r.v, r.data} \subseteq Words
    BY <2>2, RxtxAssumption
  <2>4. Heeds(r, e, d')
    BY <2>1, <2>3, HandlerHeeds
  <2>5. /\ d'.q \in Seq(Entry) /\ Len(d'.q) \in Nat /\ Len(d'.q) <= Len(e.q)
        /\ Ordered(b, e.q) => Ordered(b, d'.q)
    <3>1. CASE d'.q = e.q
      BY <3>1, LenProperties
    <3>2. CASE d'.q = << >>
      BY <3>2, EmptySeq, LenProperties DEF Ordered
    <3>3. CASE e.q # << >> /\ d'.q = Tail(e.q)
      BY <3>3, HeadTailProperties, LenProperties, TailOrdered
    <3> QED BY <2>4, <3>1, <3>2, <3>3 DEF Heeds
  <2>6. Len(d'.q) < QueueSize
    BY <2>5, LenProperties, RxtxAssumption
  <2>7. /\ bulk' \in Seq(Entry) /\ Len(bulk') <= 2
        /\ AllOld(b) \/ LeOp(r) => AllOld(bulk')
        /\ ~ LeOp(r) => bulk' = b
    BY <2>1, AgedOld
  <2>8. ASSUME Ordered(b, e.q) PROVE Ordered(bulk', d'.q)
    <3>1. CASE LeOp(r)
      BY <2>4, <2>7, <2>8, <3>1, EmptyOrdered DEF Heeds
    <3>2. CASE ~ LeOp(r)
      BY <2>5, <2>7, <2>8, <3>2
    <3> QED BY <3>1, <3>2
  <2>9. ASSUME IsLe(d'.requested_mode), IsLe(e.requested_mode) => e.q = << >> /\ AllOld(b)
        PROVE  d'.q = << >> /\ AllOld(bulk')
    <3>1. CASE LeOp(r)
      BY <2>4, <2>7, <3>1 DEF Heeds
    <3>2. CASE ~ LeOp(r)
      <4>1. e.q = << >> /\ AllOld(b)
        BY <2>4, <2>9, <3>2 DEF Heeds
      <4> QED BY <2>4, <2>7, <4>1 DEF Heeds
    <3> QED BY <3>1, <3>2
  <2> QED BY <2>2, <2>4, <2>5, <2>6, <2>7, <2>8, <2>9 DEF Heeds
<1> QED BY <1>1, <1>2 DEF Serve

LEMMA InitialTyped == ASSUME NEW q, NEW e, e = InitialDevice(q) PROVE Device(e) /\ e.q = q
<1>1. DOMAIN e = Fields
  BY DEF InitialDevice, Fields
<1>2. 0 \in Words
  BY DEF Words, WordMax
<1>3. e.set \in [Settings -> Words]
  BY <1>2 DEF InitialDevice
<1> QED BY <1>1, <1>3, Frequencies DEF InitialDevice, Device, DeviceTypes, ModeNames, HopModes

LEMMA IdleTyped == ASSUME NEW e, Device(e), NEW f, f = cc2400_idle(e) PROVE Device(f) /\ f.q = e.q
<1>1. PICK g : g = InitialDevice(e.q)
  OBVIOUS
<1>2. Device(g) /\ g.q = e.q
  BY <1>1, InitialTyped
<1> DEFINE set == [e.set EXCEPT !["MOD"] = 0, !["JAM_MODE"] = 0, !["EGO_MODE"] = 0, !["PAEN"] = 0, !["HGM"] = 0,
                                !["SQUELCH"] = 0, !["USRLED"] = 0, !["RXLED"] = 0, !["TXLED"] = 0]
<1>3. set \in [Settings -> Words]
  <2>1. 0 \in Words
    BY DEF Words, WordMax
  <2> QED BY <2>1 DEF Device, DeviceTypes
<1>4. f = [g EXCEPT !.target_set = e.target_set, !.do_follow = e.do_follow, !.cancel_follow = e.cancel_follow,
                    !.afh_map = e.afh_map, !.afh_enabled = e.afh_enabled, !.dfu = e.dfu, !.set = set]
  BY <1>1 DEF cc2400_idle
<1> HIDE DEF set
<1> QED BY <1>2, <1>3, <1>4, FieldsAre DEF Device, DeviceTypes

\* The fields a step of the loop writes itself.
LEMMA FlagTyped ==
  ASSUME NEW e, Device(e), NEW x, NEW f, f \in {[e EXCEPT !.do_hop = x], [e EXCEPT !.discard = x], [e EXCEPT !.q = x]}
  PROVE  Device(f)
  BY FieldsAre DEF Device, DeviceTypes
LEMMA ChannelTyped ==
  ASSUME NEW e, Device(e), NEW x, NEW y, NEW ch \in MinFreq..MaxFreq, NEW f,
         \/ f = [e EXCEPT !.do_hop = x, !.channel = ch]
         \/ f = [e EXCEPT !.channel = ch, !.do_hop = x, !.discard = y]
  PROVE  Device(f)
  BY FieldsAre DEF Device, DeviceTypes
LEMMA ModeTyped ==
  ASSUME NEW e, Device(e), NEW m \in ModeNames, NEW f,
         f \in {[e EXCEPT !.mode = m], [e EXCEPT !.requested_mode = m]}
  PROVE  Device(f)
  BY FieldsAre DEF Device, DeviceTypes

LEMMA EnqueueTyped ==
  ASSUME Types, NEW kind \in PacketKinds, enqueue(Packet(kind))
  PROVE  /\ Device(d') /\ d'.q \in Seq(Entry) /\ Len(d'.q) < QueueSize /\ status' \in SUBSET Flags
         /\ d'.mode = d.mode /\ d'.requested_mode = d.requested_mode
         /\ d'.q = d.q \/ d'.q = Append(d.q, Packet(kind))
<1>1. Packet(kind) \in Entry
  BY DEF Packet, Entry
<1>2. CASE Full(d.q)
  BY <1>2 DEF enqueue, Types, Flags
<1>3. CASE ~ Full(d.q)
  <2>1. d' = [d EXCEPT !.q = Append(d.q, Packet(kind))] /\ status' = {}
    BY <1>3 DEF enqueue
  <2>2. Device(d')
    BY <2>1, FlagTyped DEF Types
  <2>3. d'.q = Append(d.q, Packet(kind)) /\ d'.mode = d.mode /\ d'.requested_mode = d.requested_mode
    BY <2>1, FieldsAre DEF Types, Device
  <2>4. Len(d.q) \in Nat /\ Len(d'.q) = Len(d.q) + 1 /\ d'.q \in Seq(Entry)
    BY <1>1, <2>3, AppendProperties, LenProperties DEF Types
  <2>5. Len(d'.q) < QueueSize
    BY <1>3, <2>4, RxtxAssumption DEF Full, Types
  <2> QED BY <2>1, <2>2, <2>3, <2>4, <2>5
<1> QED BY <1>2, <1>3

LEMMA RadioTyped ==
  ASSUME NEW r \in RadioStates, NEW x \in {"off", "rx", "tx"}
  PROVE  [r EXCEPT !.state = x] \in RadioStates /\ [r EXCEPT !.state = x, !.ssel = FALSE] \in RadioStates
  BY DEF RadioStates
LEMMA SselTyped == ASSUME NEW r \in RadioStates, NEW b \in BOOLEAN PROVE [r EXCEPT !.ssel = b] \in RadioStates
  BY DEF RadioStates
LEMMA TunedTyped ==
  ASSUME NEW r \in RadioStates, NEW x \in {"off", "rx", "tx"}, NEW f \in Int
  PROVE  [r EXCEPT !.fs = f] \in RadioStates /\ [r EXCEPT !.state = x, !.fs = f] \in RadioStates
  BY DEF RadioStates

LEMMA PacketFields ==
  DOMAIN NoPacket = {"swaps", "stamp", "first", "last", "gap", "mixed", "flags", "dirty"} /\ NoPacket.swaps = 0
  BY DEF NoPacket
LEMMA SwapsTyped == ASSUME NEW p, Pkt(p), NEW n \in Nat PROVE Pkt([p EXCEPT !.swaps = n])
  BY PacketFields DEF Pkt
LEMMA BlockTyped ==
  ASSUME NEW p, Pkt(p), NEW x, NEW f, f \in {[p EXCEPT !.first = x], [p EXCEPT !.stamp = x]} PROVE Pkt(f)
  BY PacketFields DEF Pkt
LEMMA EndTyped ==
  ASSUME NEW p, Pkt(p), NEW x, NEW y, NEW z, NEW f, f = [p EXCEPT !.last = x, !.flags = y, !.dirty = z] PROVE Pkt(f)
  BY PacketFields DEF Pkt
LEMMA StartTyped == ASSUME NEW x, NEW y, NEW f, f = [NoPacket EXCEPT !.gap = x, !.mixed = y] PROVE Pkt(f)
  BY PacketFields DEF Pkt
LEMMA NoPacketTyped == Pkt(NoPacket)
  BY PacketFields DEF Pkt

LEMMA CountTyped == ASSUME NEW t \in DmaStates, NEW n \in 0..Several PROVE [t EXCEPT !.tc = n] \in DmaStates
  BY DEF DmaStates
LEMMA FillingTyped == ASSUME NEW t \in DmaStates PROVE [t EXCEPT !.filling = TRUE] \in DmaStates
  BY DEF DmaStates
LEMMA DmaOffTyped ==
  ASSUME NEW t \in DmaStates PROVE [t EXCEPT !.on = FALSE, !.mixed = FALSE, !.filling = FALSE] \in DmaStates
  BY DEF DmaStates
LEMMA SwapTyped ==
  ASSUME NEW t \in DmaStates, NEW n \in 0..Several, NEW b \in BOOLEAN, NEW c \in BOOLEAN
  PROVE  [t EXCEPT !.tc = n, !.mixed = b, !.filling = c] \in DmaStates
  BY DEF DmaStates

LEMMA ChannelNumber == Types => d.channel \in MinFreq..MaxFreq /\ d.channel \in Int
<1>1. Types => d.channel \in MinFreq..MaxFreq
  BY DEF Types, Device, DeviceTypes
<1> QED BY <1>1, Frequencies

\* A device with one field written: its queue and, but for that field, the rest.
LEMMA WroteFlag ==
  ASSUME NEW e, Device(e), NEW x, NEW y, NEW z, NEW f,
         \/ f \in {[e EXCEPT !.do_hop = x], [e EXCEPT !.discard = x], [e EXCEPT !.mode = x],
                   [e EXCEPT !.requested_mode = x]}
         \/ f = [e EXCEPT !.do_hop = x, !.channel = y]
         \/ f = [e EXCEPT !.channel = y, !.do_hop = x, !.discard = z]
  PROVE  f.q = e.q
  BY FieldsAre DEF Device

LEMMA EnterTyped ==
  ASSUME Types, NEW m \in ModeNames, NEW at \in Places \ Streaming, NEW r \in RadioStates, Enter(m, at, r)
  PROVE  Types'
<1>1. d' = [d EXCEPT !.mode = m] /\ pc' = at /\ radio' = r
  BY DEF Enter, InMode
<1>2. Device(d') /\ d'.q = d.q
  BY <1>1, ModeTyped, WroteFlag DEF Types
<1> QED BY <1>1, <1>2 DEF Enter, Types, Streaming

LEMMA FreshTyped ==
  ASSUME Types, NEW m \in ModeNames, NEW r \in RadioStates, NEW at \in Places \ Streaming, FreshQueue(m, at, r)
  PROVE  Types'
<1>1. PICK e : e = [d EXCEPT !.mode = m]
  OBVIOUS
<1>2. d' = [e EXCEPT !.q = << >>] /\ bulk' = Aged(bulk) /\ pc' = at /\ radio' = r
  BY <1>1 DEF FreshQueue, InMode
<1>3. Device(e)
  BY <1>1, ModeTyped DEF Types
<1>4. Device(d') /\ d'.q = << >>
  BY <1>2, <1>3, FlagTyped, FieldsAre DEF Device
<1>5. d'.q \in Seq(Entry) /\ Len(d'.q) < QueueSize
  BY <1>4, EmptySeq, RxtxAssumption
<1>6. bulk' \in Seq(Entry) /\ Len(bulk') <= 2
  BY <1>2, AgedOld DEF Types
<1> QED BY <1>2, <1>4, <1>5, <1>6 DEF FreshQueue, Types, Streaming

LEMMA StreamTyped == ASSUME Types, NEW m \in ModeNames, StreamMode(m) PROVE Types'
<1>1. PICK e : e = [d EXCEPT !.mode = m]
  OBVIOUS
<1>2. d' = [e EXCEPT !.q = << >>] /\ bulk' = Aged(bulk) /\ pc' = "test"
  BY <1>1 DEF StreamMode, InMode
<1>3. Device(e)
  BY <1>1, ModeTyped DEF Types
<1>4. Device(d') /\ d'.q = << >>
  BY <1>2, <1>3, FlagTyped, FieldsAre DEF Device
<1>5. d'.q \in Seq(Entry) /\ Len(d'.q) < QueueSize
  BY <1>4, EmptySeq, RxtxAssumption
<1>6. bulk' \in Seq(Entry) /\ Len(bulk') <= 2
  BY <1>2, AgedOld DEF Types
<1>7. radio' \in RadioStates
  BY ChannelNumber DEF StreamMode, cc2400_rx, RadioStates, Types
<1>8. dma' \in DmaStates
  BY DEF StreamMode, dma_init_rx_symbols, DmaStates, Several
<1>9. Pkt(pkt') /\ since' \in 0..Several /\ race' \in 0..2
  BY DEF StreamMode, Pkt, NoPacket, Several
<1>10. status' \in SUBSET Flags /\ made' \in 0..Len(Script) /\ pc' \in Places
  BY <1>2 DEF StreamMode, Types, Places, Streaming
<1> QED BY <1>2, <1>4, <1>5, <1>6, <1>7, <1>8, <1>9, <1>10 DEF Types

LEMMA IdleModeTyped == ASSUME Types, IdleMode PROVE Types'
<1>1. d' = cc2400_idle(d) /\ radio' = Off /\ status' = {} /\ pc' = "main"
  BY DEF IdleMode
<1>2. Device(d') /\ d'.q = d.q
  BY <1>1, IdleTyped DEF Types
<1>3. radio' \in RadioStates
  BY <1>1, RadioTyped DEF Off, Types
<1> QED BY <1>1, <1>2, <1>3 DEF IdleMode, Types, Places

LEMMA SwitchTyped == ASSUME Types, Switch PROVE Types'
<1>1. d.requested_mode \in ModeNames /\ d.mode \in ModeNames
  BY DEF Types, Device, DeviceTypes
<1>2. /\ radio \in RadioStates /\ Off \in RadioStates /\ Receiving \in RadioStates /\ Transmitting \in RadioStates
      /\ [Transmitting EXCEPT !.fs = d.channel] \in RadioStates /\ cc2400_tx_sync \in RadioStates
  <2>1. d.channel \in Int /\ radio \in RadioStates
    BY ChannelNumber DEF Types
  <2>2. Off \in RadioStates /\ Receiving \in RadioStates /\ Transmitting \in RadioStates
    BY <2>1, RadioTyped DEF Off, Receiving, Transmitting
  <2> QED BY <2>1, <2>2, TunedTyped DEF cc2400_tx_sync
<1>3. {"main", "reset", "sent", "le", "slave", "range", "repeater", "unlock", "ledunlock", "ego", "receive", "xmas"}
         \subseteq Places \ Streaming
  BY DEF Places, Streaming
<1>4. CASE pc' = "main" /\ UNCHANGED <<d, radio, status, dma, pkt, since, race, bulk, made>>
  BY <1>3, <1>4 DEF Types
<1>5. CASE \E m \in ModeNames : \E at \in Places \ Streaming : \E r \in RadioStates : Enter(m, at, r) \/ FreshQueue(m, at, r)
  BY <1>5, EnterTyped, FreshTyped
<1>6. CASE StreamMode(d.requested_mode)
  BY <1>1, <1>6, StreamTyped
<1>7. CASE IdleMode
  BY <1>7, IdleModeTyped
<1>8. CASE tx_generic
  <2>1. PICK e : e = [d EXCEPT !.mode = "TX_GENERIC"]
    OBVIOUS
  <2>2. Device(e) /\ e.q = d.q
    BY <2>1, ModeTyped, WroteFlag DEF Types, ModeNames
  <2>3. d' = [e EXCEPT !.requested_mode = d.mode]
    BY <1>8, <2>1 DEF tx_generic
  <2>4. Device(d') /\ d'.q = d.q
    BY <1>1, <2>2, <2>3, ModeTyped, WroteFlag
  <2> QED BY <1>2, <1>3, <1>8, <2>4 DEF tx_generic, Types
<1>9. CASE cc2400_txtest
  <2>1. PICK r \in RadioStates : Enter("TX_TEST", "main", r)
    BY <1>2, <1>9 DEF cc2400_txtest
  <2> QED BY <1>3, <2>1, EnterTyped DEF ModeNames
<1>10. CASE rx_generic
  BY <1>2, <1>3, <1>10, FreshTyped DEF rx_generic, ModeNames
<1> QED
  BY <1>1, <1>2, <1>3, <1>4, <1>5, <1>6, <1>7, <1>8, <1>9, <1>10 DEF Switch

LEMMA UsbTyped ==
  ASSUME Types, handle_usb \/ UsbInterrupt
  PROVE  Types'
<1>1. CASE handle_usb
  <2>1. PICK s : s = Sent(d.q, bulk)
    OBVIOUS
  <2>2. PICK e : e = [d EXCEPT !.q = s.q]
    OBVIOUS
  <2>3. s.q \in Seq(Entry) /\ Len(s.q) <= Len(d.q) /\ s.b \in Seq(Entry) /\ Len(s.b) <= 2
    BY <2>1, SentOrdered DEF Types
  <2>4. Device(e) /\ e.q = s.q
    BY <2>2, FlagTyped, FieldsAre DEF Types, Device
  <2>5. Len(e.q) < QueueSize
    BY <2>3, <2>4, LenProperties, RxtxAssumption DEF Types
  <2>6. Serve(e, s.b)
    BY <1>1, <2>1, <2>2 DEF handle_usb
  <2>7. /\ Device(d') /\ d'.q \in Seq(Entry) /\ Len(d'.q) < QueueSize /\ bulk' \in Seq(Entry) /\ Len(bulk') <= 2
        /\ made' \in 0..Len(Script)
    BY <2>3, <2>4, <2>5, <2>6, ServeHeeds DEF Types
  <2>8. pc' \in Places
    BY <1>1 DEF handle_usb, AfterUsb, Places, Streaming
  <2>9. Pkt(pkt') /\ pc' \notin {"first", "rest"}
    BY <1>1, NoPacketTyped DEF handle_usb, Types, AfterUsb
  <2> QED BY <1>1, <2>7, <2>8, <2>9 DEF handle_usb, Types
<1>2. CASE UsbInterrupt
  <2>1. Serve(d, bulk) /\ UNCHANGED <<pc, radio, status, dma, pkt, since, race>>
    BY <1>2 DEF UsbInterrupt
  <2>2. /\ Device(d') /\ d'.q \in Seq(Entry) /\ Len(d'.q) < QueueSize /\ bulk' \in Seq(Entry) /\ Len(bulk') <= 2
        /\ made' \in 0..Len(Script)
    BY <2>1, ServeHeeds DEF Types
  <2> QED BY <1>2, <2>1, <2>2 DEF UsbInterrupt, Types
<1> QED BY <1>1, <1>2

LEMMA StreamStepTyped == ASSUME Types, StreamStep PROVE Types'
<1>1. CASE LoopTest
  <2>1. pc' \in Places
    BY <1>1 DEF LoopTest, Places, Streaming
  <2>2. radio' \in RadioStates /\ dma' \in DmaStates
    BY <1>1, SselTyped, DmaOffTyped DEF LoopTest, Types
  <2>3. since' \in 0..Several /\ race' \in 0..2 /\ pc' \notin {"first", "rest"}
    BY <1>1 DEF LoopTest, Types, Several
  <2> QED BY <1>1, <2>1, <2>2, <2>3 DEF LoopTest, Types
<1>2. CASE WaitForBlock
  BY <1>2 DEF WaitForBlock, Types, Places, Streaming
<1>3. CASE Hop
  <2>1. CASE ~ d.do_hop \/ (d.hop_mode = "NONE" /\ radio.fs = d.channel - 1)
    <3>1. pc' = "waiting" /\ d' = [d EXCEPT !.do_hop = FALSE] /\ UNCHANGED <<radio, dma, race>>
      BY <1>3, <2>1 DEF Hop
    <3>2. Device(d') /\ d'.q = d.q
      BY <3>1, FlagTyped, WroteFlag DEF Types
    <3> QED BY <1>3, <3>1, <3>2 DEF Hop, Types, Places, Streaming
  <2>2. CASE ~ (~ d.do_hop \/ (d.hop_mode = "NONE" /\ radio.fs = d.channel - 1))
    <3>1. PICK ch \in HopTo(d.hop_mode, d.channel) : /\ d' = [d EXCEPT !.do_hop = FALSE, !.channel = ch]
                                                      /\ radio' = [radio EXCEPT !.fs = ch - 1]
      BY <1>3, <2>2 DEF Hop
    <3>2. ch \in MinFreq..MaxFreq /\ ch - 1 \in Int
      <4>1. ch \in MinFreq..MaxFreq
        BY ChannelNumber, Frequencies DEF HopTo, HopChannels
      <4> QED BY <4>1, Frequencies
    <3>3. Device(d') /\ d'.q = d.q
      <4>1. Device(d')
        BY <3>1, <3>2, ChannelTyped DEF Types
      <4> QED BY <3>1, <4>1, FieldsAre DEF Types, Device
    <3>4. radio' \in RadioStates
      BY <3>1, <3>2, TunedTyped DEF Types
    <3>5. pc' = "retune" /\ race' \in 0..2 /\ dma' \in DmaStates
      <4>1. dma' = [dma EXCEPT !.filling = TRUE] /\ pc' = "retune" /\ race' \in {2, race}
        BY <1>3, <2>2 DEF Hop
      <4> QED BY <4>1, FillingTyped DEF Types
    <3> QED BY <1>3, <3>3, <3>4, <3>5 DEF Hop, Types, Places, Streaming
  <2> QED BY <2>1, <2>2
<1>4. CASE Locked
  <2>1. Device(d') /\ d'.q = d.q
    BY <1>4, FlagTyped, WroteFlag DEF Locked, Types
  <2> QED BY <1>4, <2>1 DEF Locked, Types, Places, Streaming
<1>5. CASE FlagPacket
  <2>1. Device(d') /\ d'.q = d.q
    BY <1>5, FlagTyped, WroteFlag DEF FlagPacket, Types
  <2>2. status' \in SUBSET Flags
    BY <1>5 DEF FlagPacket, Types, Flags
  <2>3. Pkt(pkt')
    BY <1>5, StartTyped DEF FlagPacket, Types
  <2> QED BY <1>5, <2>1, <2>2, <2>3 DEF FlagPacket, Types, Places, Streaming
<1>6. CASE Stamp
  <2>1. status' \in SUBSET Flags /\ pc' \in Places
    BY <1>6 DEF Stamp, Types, Flags, Places, Streaming
  <2>2. Pkt(pkt')
    <3>1. CASE pkt' = NoPacket
      BY <3>1, NoPacketTyped
    <3>2. CASE pkt' = [pkt EXCEPT !.stamp = pkt.swaps]
      BY <3>2, BlockTyped DEF Types
    <3> QED BY <1>6, <3>1, <3>2 DEF Stamp
  <2> QED BY <1>6, <2>1, <2>2 DEF Stamp, Types
<1>7. CASE CopyFirst
  <2>1. Pkt(pkt')
    <3>1. PICK b : pkt' = [pkt EXCEPT !.first = b]
      BY <1>7 DEF CopyFirst
    <3> QED BY <3>1, BlockTyped DEF Types
  <2> QED BY <1>7, <2>1 DEF CopyFirst, Types, Places, Streaming
<1>8. CASE CopyRest
  <2>1. PICK p : p = [Packet("BR") EXCEPT !.old = IsLe(d.requested_mode)]
    OBVIOUS
  <2>2. p \in Entry
    <3>1. Packet("BR") = [kind |-> "BR", old |-> FALSE]
      BY DEF Packet
    <3>2. p = [kind |-> "BR", old |-> IsLe(d.requested_mode)]
      BY <2>1, <3>1
    <3>3. IsLe(d.requested_mode) \in BOOLEAN
      BY DEF IsLe
    <3> QED BY <3>2, <3>3 DEF Entry, PacketKinds
  <2>3. d' = [d EXCEPT !.q = Append(d.q, p)]
    BY <1>8, <2>1 DEF CopyRest
  <2>4. Device(d') /\ d'.q = Append(d.q, p)
    BY <2>3, FlagTyped, FieldsAre DEF Types, Device
  <2>5. Pkt(pkt')
    BY <1>8, EndTyped DEF CopyRest, Types
  <2>6. since' \in 0..Several /\ race' \in 0..2
    BY <1>8 DEF CopyRest, UpTo, Several, Types, Pkt
  <2>7. d'.q \in Seq(Entry) /\ Len(d'.q) < QueueSize
    <3>1. Len(d.q) \in Nat /\ Len(d'.q) = Len(d.q) + 1 /\ d'.q \in Seq(Entry)
      BY <2>2, <2>4, AppendProperties, LenProperties DEF Types
    <3> QED BY <1>8, <3>1, RxtxAssumption DEF CopyRest, Types, Full
  <2> QED BY <1>8, <2>4, <2>5, <2>6, <2>7 DEF CopyRest, Types, Places, Streaming
<1>9. CASE ClearCount
  <2>1. dma' \in DmaStates
    <3>1. 0 \in 0..Several /\ dma' = [dma EXCEPT !.tc = 0]
      BY <1>9 DEF ClearCount, Several
    <3> QED BY <3>1, CountTyped DEF Types
  <2> QED BY <1>9, <2>1 DEF ClearCount, Types, Places, Streaming
<1> QED BY <1>1, <1>2, <1>3, <1>4, <1>5, <1>6, <1>7, <1>8, <1>9 DEF StreamStep

\* A step of a mode that leaves the shared variables alone but perhaps a flag.
LEMMA GoTyped ==
  ASSUME Types, NEW at \in Places \ Streaming, NEW r \in RadioStates, Go(at, r), Device(d'), d'.q \in Seq(Entry),
         Len(d'.q) < QueueSize, status' \in SUBSET Flags
  PROVE  Types'
  BY DEF Go, Types, Streaming

LEMMA ModeStepTyped == ASSUME Types, ModeStep PROVE Types'
<1>1. /\ radio \in RadioStates /\ Off \in RadioStates /\ Receiving \in RadioStates /\ Transmitting \in RadioStates
      /\ \A ch \in Int : [Transmitting EXCEPT !.fs = ch] \in RadioStates
  <2>1. radio \in RadioStates
    BY DEF Types
  <2>2. Off \in RadioStates /\ Receiving \in RadioStates /\ Transmitting \in RadioStates
    BY <2>1, RadioTyped DEF Off, Receiving, Transmitting
  <2> QED BY <2>1, <2>2, TunedTyped
<1>2. Places \ Streaming = {"main", "switch", "reset", "tx", "sent", "unlock", "ledunlock", "sweep", "reading", "led",
                           "ledtest", "slave", "range", "repeater", "receive", "generic", "le", "lepoll", "ego", "xmas"}
  BY DEF Places, Streaming
<1>3. Device(d) /\ d.q \in Seq(Entry) /\ Len(d.q) < QueueSize /\ status \in SUBSET Flags
  BY DEF Types
<1>4. ASSUME NEW at \in Places \ Streaming, NEW r \in RadioStates, Go(at, r), UNCHANGED <<d, status>> PROVE Types'
  BY <1>3, <1>4, GoTyped
<1>5. CASE br_transmit
  <2>1. CASE d.requested_mode # "TX_SYMBOLS"
    <3>1. Go("main", radio) /\ UNCHANGED <<d, status>>
      BY <1>5, <2>1 DEF br_transmit
    <3> QED BY <1>1, <1>2, <1>4, <3>1
  <2>2. CASE d.requested_mode = "TX_SYMBOLS"
    <3>1. PICK ch \in (IF d.do_hop THEN HopTo(d.hop_mode, d.channel) ELSE {d.channel}) :
             /\ d' = [d EXCEPT !.channel = ch, !.do_hop = FALSE, !.discard = (@ \/ d.do_hop)]
             /\ Go("tx", [Transmitting EXCEPT !.fs = IF d.do_hop THEN ch ELSE @])
      BY <1>5, <2>2 DEF br_transmit
    <3>2. ch \in MinFreq..MaxFreq
      BY ChannelNumber, Frequencies DEF HopTo, HopChannels
    <3>3. Device(d')
      BY <1>3, <3>1, <3>2, ChannelTyped
    <3>4. d'.q = d.q
      BY <1>3, <3>1, FieldsAre DEF Device
    <3>5. PICK r : r = [Transmitting EXCEPT !.fs = IF d.do_hop THEN ch ELSE @]
      OBVIOUS
    <3>6. r \in RadioStates
      <4>1. ch \in Int /\ Transmitting.fs \in Int
        BY <1>1, <3>2, Frequencies DEF RadioStates
      <4> QED BY <1>1, <3>5, <4>1
    <3>7. status' = status
      BY <1>5 DEF br_transmit
    <3> QED BY <1>2, <1>3, <3>1, <3>3, <3>4, <3>5, <3>6, <3>7, GoTyped
  <2> QED BY <2>1, <2>2
<1>6. CASE AwaitUnlock
  BY <1>1, <1>2, <1>4, <1>6 DEF AwaitUnlock
<1>7. CASE specan
  <2>1. CASE pkt.swaps >= SweepSteps
    <3>1. pkt' = [pkt EXCEPT !.swaps = 0] /\ pc' \in {"sweep", "main"} /\ radio' = Off /\ UNCHANGED <<d, status>>
      BY <1>7, <2>1 DEF specan, SweepAt
    <3>2. Pkt(pkt')
      BY <3>1, SwapsTyped DEF Types
    <3>3. pc' \in Places \ Streaming
      BY <1>2, <3>1
    <3> QED BY <1>1, <1>3, <1>7, <3>1, <3>2, <3>3 DEF specan, Types, Streaming
  <2>2. CASE ~ (pkt.swaps >= SweepSteps)
    <3>1. /\ pkt' = [pkt EXCEPT !.swaps = pkt.swaps + 1] /\ enqueue(Packet("SPECAN"))
          /\ pc' = "reading" /\ radio' = Receiving
      BY <1>7, <2>2 DEF specan, SweepAt
    <3>2. Pkt(pkt')
      <4>1. pkt.swaps + 1 \in Nat /\ Pkt(pkt)
        BY DEF Types, Pkt
      <4> QED BY <3>1, <4>1, SwapsTyped
    <3>3. Device(d') /\ d'.q \in Seq(Entry) /\ Len(d'.q) < QueueSize /\ status' \in SUBSET Flags
      BY <3>1, EnqueueTyped DEF PacketKinds
    <3> QED BY <1>1, <1>2, <1>7, <3>1, <3>2, <3>3 DEF specan, Types
  <2> QED BY <2>1, <2>2
<1>8. CASE led_specan
  BY <1>1, <1>2, <1>4, <1>8 DEF led_specan
<1>9. CASE bt_slave_le
  BY <1>1, <1>2, <1>4, <1>9 DEF bt_slave_le, le_transmit
<1>10. CASE rx_generic_sync
  <2>1. enqueue(Packet("BR")) /\ Go("generic", Receiving)
    BY <1>10 DEF rx_generic_sync
  <2> QED BY <1>1, <1>2, <2>1, EnqueueTyped, GoTyped DEF PacketKinds
<1>11. CASE LeMode
  <2>1. CASE enqueue(Packet("LE")) /\ Go("lepoll", radio)
    BY <1>1, <1>2, <2>1, EnqueueTyped, GoTyped DEF PacketKinds
  <2>2. CASE IdleMode
    BY <2>2, IdleModeTyped
  <2> QED BY <1>1, <1>2, <1>4, <1>11, <2>1, <2>2 DEF LeMode
<1>12. CASE ego_main
  <2>1. CASE enqueue(Packet("EGO")) /\ Go("ego", radio)
    BY <1>1, <1>2, <2>1, EnqueueTyped, GoTyped DEF PacketKinds
  <2> QED BY <1>1, <1>2, <1>4, <1>12, <2>1 DEF ego_main
<1>13. CASE xmas_main
  BY <1>1, <1>2, <1>4, <1>13 DEF xmas_main
<1>14. CASE cc2400_repeater
  BY <1>1, <1>2, <1>4, <1>14 DEF cc2400_repeater
<1> QED BY <1>5, <1>6, <1>7, <1>8, <1>9, <1>10, <1>11, <1>12, <1>13, <1>14 DEF ModeStep

LEMMA InterruptTyped ==
  ASSUME Types, legacy_DMA_IRQHandler \/ EINT3_IRQHandler \/ TIMER0_IRQHandler
  PROVE  Types'
<1>1. CASE legacy_DMA_IRQHandler
  <2>1. PICK n, b, c : /\ dma' = [dma EXCEPT !.tc = n, !.mixed = b, !.filling = c]
                       /\ n = UpTo(dma.tc + 1, Several) /\ b = dma.filling /\ c = (pc = "retune")
    BY <1>1 DEF legacy_DMA_IRQHandler
  <2>2. n \in 0..Several /\ b \in BOOLEAN /\ c \in BOOLEAN
    BY <2>1 DEF Types, DmaStates, UpTo, Several
  <2>3. dma' \in DmaStates
    BY <2>1, <2>2, SwapTyped DEF Types
  <2>4. radio' \in RadioStates
    <3>1. PICK b2 \in BOOLEAN : radio' = [radio EXCEPT !.ssel = b2]
      BY <1>1 DEF legacy_DMA_IRQHandler
    <3> QED BY <3>1, SselTyped DEF Types
  <2>5. Pkt(pkt')
    <3>1. CASE pkt' = pkt
      BY <3>1 DEF Types
    <3>2. CASE pkt' = [pkt EXCEPT !.swaps = UpTo(pkt.swaps + 1, Cap)]
      <4>1. Pkt(pkt) /\ UpTo(pkt.swaps + 1, Cap) \in Nat
        BY DEF Types, Pkt, UpTo, Cap
      <4> QED BY <3>2, <4>1, SwapsTyped
    <3> QED BY <1>1, <3>1, <3>2 DEF legacy_DMA_IRQHandler
  <2>6. since' \in 0..Several /\ race' \in 0..2
    BY <1>1 DEF legacy_DMA_IRQHandler, Types, UpTo, Several
  <2> QED BY <1>1, <2>3, <2>4, <2>5, <2>6 DEF legacy_DMA_IRQHandler, Types
<1>2. CASE EINT3_IRQHandler
  <2>1. PICK b : d' = [d EXCEPT !.discard = b]
    BY <1>2 DEF EINT3_IRQHandler
  <2>2. Device(d') /\ d'.q = d.q
    BY <2>1, FlagTyped, FieldsAre DEF Types, Device
  <2>3. radio' \in RadioStates /\ race' \in 0..2
    <3>1. radio' = [radio EXCEPT !.ssel = TRUE] /\ race' \in {2, race}
      BY <1>2 DEF EINT3_IRQHandler
    <3>2. radio \in RadioStates /\ race \in 0..2
      BY DEF Types
    <3>3. [radio EXCEPT !.ssel = TRUE] \in RadioStates
      BY <3>2, SselTyped
    <3> QED BY <3>1, <3>2, <3>3
  <2> QED BY <1>2, <2>2, <2>3 DEF EINT3_IRQHandler, Types
<1>3. CASE TIMER0_IRQHandler
  <2>1. d' = [d EXCEPT !.do_hop = TRUE]
    BY <1>3 DEF TIMER0_IRQHandler
  <2>2. Device(d') /\ d'.q = d.q
    BY <2>1, FlagTyped, FieldsAre DEF Types, Device
  <2> QED BY <1>3, <2>2 DEF TIMER0_IRQHandler, Types
<1> QED BY <1>1, <1>2, <1>3

LEMMA InitTypes == ASSUME Init PROVE Types
<1>1. Device(d) /\ d.q = << >>
  BY InitialTyped DEF Init
<1>2. d.q \in Seq(Entry) /\ Len(d.q) < QueueSize /\ bulk \in Seq(Entry) /\ Len(bulk) <= 2
  <2>1. << >> \in Seq(Entry) /\ Len(<< >>) = 0
    BY EmptySeq
  <2>2. 0 < QueueSize /\ bulk = << >>
    BY RxtxAssumption DEF Init
  <2> QED BY <1>1, <2>1, <2>2
<1>3. radio \in RadioStates /\ dma \in DmaStates /\ status \in SUBSET Flags
  BY DEF Init, RadioStates, DmaStates, Several
<1>4. Pkt(pkt) /\ since \in 0..Several /\ race \in 0..2 /\ made \in 0..Len(Script)
  BY NoPacketTyped, RxtxAssumption DEF Init, Several
<1> QED BY <1>1, <1>2, <1>3, <1>4 DEF Init, Types, Places

LEMMA NextTypes == ASSUME Types, [Next]_vars PROVE Types'
<1>1. CASE handle_usb \/ UsbInterrupt
  BY <1>1, UsbTyped
<1>2. CASE Switch
  BY <1>2, SwitchTyped
<1>3. CASE StreamStep
  BY <1>3, StreamStepTyped
<1>4. CASE ModeStep
  BY <1>4, ModeStepTyped
<1>5. CASE reset
  <2>1. d' = InitialDevice(<< >>)
    BY <1>5 DEF reset
  <2>2. Device(d') /\ d'.q = << >>
    BY <2>1, InitialTyped
  <2>3. d'.q \in Seq(Entry) /\ Len(d'.q) < QueueSize /\ bulk' \in Seq(Entry) /\ Len(bulk') <= 2
    <3>1. << >> \in Seq(Entry) /\ Len(<< >>) = 0
      BY EmptySeq
    <3>2. 0 < QueueSize /\ bulk' = << >>
      BY <1>5, RxtxAssumption DEF reset
    <3> QED BY <2>2, <3>1, <3>2
  <2>4. radio' \in RadioStates /\ dma' \in DmaStates /\ status' \in SUBSET Flags
    BY <1>5 DEF reset, RadioStates, DmaStates, Several
  <2>5. Pkt(pkt') /\ since' \in 0..Several /\ race' \in 0..2 /\ made' \in 0..Len(Script)
    BY <1>5, NoPacketTyped DEF reset, Types, Several
  <2> QED BY <1>5, <2>2, <2>3, <2>4, <2>5 DEF reset, Types, Places
<1>6. CASE cc2400_rangetest
  <2>1. d' = [d EXCEPT !.requested_mode = "IDLE"]
    BY <1>6 DEF cc2400_rangetest
  <2>2. Device(d')
    BY <2>1, ModeTyped DEF Types, ModeNames
  <2>3. d'.q = d.q /\ "main" \in Places \ Streaming
    BY <2>1, FieldsAre DEF Types, Device, Places, Streaming
  <2>4. Off \in RadioStates
    BY RadioTyped DEF Off, Types
  <2>5. d'.q \in Seq(Entry) /\ Len(d'.q) < QueueSize /\ status' \in SUBSET Flags
    BY <1>6, <2>3 DEF cc2400_rangetest, Types
  <2> QED BY <1>6, <2>2, <2>3, <2>4, <2>5, GoTyped DEF cc2400_rangetest
<1>7. CASE HostReads
  <2>1. bulk' \in Seq(Entry) /\ Len(bulk') <= 2
    BY <1>7, HeadTailProperties, LenProperties DEF HostReads, Types
  <2> QED BY <1>7, <2>1 DEF HostReads, Types
<1>8. CASE legacy_DMA_IRQHandler \/ EINT3_IRQHandler \/ TIMER0_IRQHandler
  BY <1>8, InterruptTyped
<1>9. CASE UNCHANGED vars
  BY <1>9 DEF vars, Types
<1> QED BY <1>1, <1>2, <1>3, <1>4, <1>5, <1>6, <1>7, <1>8, <1>9 DEF Next, MainLoop

-----------------------------------------------------------------------------
(* Every step keeps the order of the packets: what a mode left is in front.  *)

LEMMA MakingAre == Making = {"waiting", "poll", "hop", "retune", "flag", "stamp", "first", "rest"}
  BY DEF Making, Before, Window

LEMMA SameOrder ==
  ASSUME Order, d'.q = d.q, bulk' = bulk,
         pc' \in Making => (pc \in Making /\ d'.requested_mode = d.requested_mode) \/ ~ IsLe(d'.requested_mode)
  PROVE  Order'
  BY DEF Order, Ordered, AllOld

LEMMA UsbOrder == ASSUME Types, Order, handle_usb \/ UsbInterrupt PROVE Order'
<1>1. CASE handle_usb
  <2>1. PICK s : s = Sent(d.q, bulk)
    OBVIOUS
  <2>2. PICK e : e = [d EXCEPT !.q = s.q]
    OBVIOUS
  <2>3. /\ s.q \in Seq(Entry) /\ Len(s.q) <= Len(d.q) /\ s.b \in Seq(Entry) /\ Len(s.b) <= 2
        /\ Ordered(s.b, s.q) /\ (d.q = << >> /\ AllOld(bulk) => s.q = << >> /\ AllOld(s.b))
    BY <2>1, SentOrdered DEF Types, Order
  <2>4. Device(e) /\ e.q = s.q /\ e.requested_mode = d.requested_mode
    BY <2>2, FlagTyped, FieldsAre DEF Types, Device
  <2>5. Len(e.q) < QueueSize
    BY <2>3, <2>4, LenProperties, RxtxAssumption DEF Types
  <2>6. Serve(e, s.b)
    BY <1>1, <2>1, <2>2 DEF handle_usb
  <2>7. /\ Ordered(bulk', d'.q)
        /\ IsLe(d'.requested_mode) /\ (IsLe(e.requested_mode) => e.q = << >> /\ AllOld(s.b))
           => d'.q = << >> /\ AllOld(bulk')
    <3>1. made \in 0..Len(Script)
      BY DEF Types
    <3> QED BY <2>3, <2>4, <2>5, <2>6, <3>1, ServeHeeds
  <2>8. pc' \in Making => pc \in Making
    BY <1>1, MakingAre DEF handle_usb, AfterUsb
  <2> QED BY <2>3, <2>4, <2>7, <2>8 DEF Order, Ordered, AllOld
<1>2. CASE UsbInterrupt
  <2>1. Serve(d, bulk) /\ pc' = pc /\ pc \notin Making
    BY <1>2, MakingAre DEF UsbInterrupt
  <2>2. Ordered(bulk', d'.q)
    BY <2>1, ServeHeeds DEF Types, Order
  <2> QED BY <2>1, <2>2 DEF Order, Ordered, AllOld
<1> QED BY <1>1, <1>2

LEMMA FreshOrder ==
  ASSUME Types, NEW m, NEW e, e = [d EXCEPT !.mode = m], d' = [e EXCEPT !.q = << >>], bulk' = Aged(bulk), pc' \notin Making
  PROVE  Order'
<1>1. d'.q = << >>
  BY FieldsAre DEF Types, Device
<1>2. AllOld(bulk')
  BY AgedOld DEF Types
<1>3. Len(<< >>) = 0
  BY EmptySeq
<1> QED BY <1>1, <1>2, <1>3 DEF Order, Ordered, AllOld

LEMMA EnqueueOrder ==
  ASSUME Types, Order, NEW kind \in PacketKinds, enqueue(Packet(kind)), bulk' = bulk, pc' \notin Making
  PROVE  Order'
<1>1. d'.q = d.q \/ d'.q = Append(d.q, Packet(kind))
  BY EnqueueTyped
<1>2. Packet(kind) \in Entry /\ ~ Packet(kind).old
  BY DEF Packet, Entry
<1>3. Ordered(bulk, d'.q)
  BY <1>1, <1>2, AppendOrdered DEF Types, Order
<1> QED BY <1>3 DEF Order, Ordered, AllOld

LEMMA SwitchOrder == ASSUME Types, Order, Switch PROVE Order'
<1>1. pc' \notin Making
  BY MakingAre DEF Switch, Enter, StreamMode, FreshQueue, IdleMode, tx_generic, cc2400_txtest, rx_generic
<1>2. ASSUME NEW m, NEW at, NEW r, Enter(m, at, r) PROVE Order'
  <2>1. d'.q = d.q /\ bulk' = bulk
    BY <1>2, FieldsAre DEF Enter, InMode, Types, Device
  <2> QED BY <1>1, <2>1, SameOrder
<1>3. ASSUME NEW m, NEW at, NEW r, FreshQueue(m, at, r) \/ StreamMode(m) PROVE Order'
  <2>1. PICK e : e = [d EXCEPT !.mode = m]
    OBVIOUS
  <2>2. d' = [e EXCEPT !.q = << >>] /\ bulk' = Aged(bulk)
    BY <1>3, <2>1 DEF FreshQueue, StreamMode, InMode
  <2> QED BY <1>1, <2>1, <2>2, FreshOrder
<1>4. CASE tx_generic
  <2>1. d'.q = d.q /\ bulk' = bulk
    BY <1>4, FieldsAre DEF tx_generic, Types, Device
  <2> QED BY <1>1, <2>1, SameOrder
<1>5. CASE IdleMode
  <2>1. d'.q = d.q /\ bulk' = bulk
    BY <1>5, IdleTyped DEF IdleMode, Types
  <2> QED BY <1>1, <2>1, SameOrder
<1>6. CASE UNCHANGED <<d, radio, status, dma, pkt, since, race, bulk, made>>
  BY <1>1, <1>6, SameOrder
<1> QED BY <1>2, <1>3, <1>4, <1>5, <1>6 DEF Switch, rx_generic, cc2400_txtest

LEMMA StreamStepOrder == ASSUME Types, Order, StreamStep PROVE Order'
<1>1. CASE LoopTest
  <2>1. d' = d /\ bulk' = bulk /\ (pc' \in Making => ~ IsLe(d.requested_mode))
    BY <1>1, MakingAre DEF LoopTest, IsLe
  <2> QED BY <2>1, SameOrder
<1>2. CASE WaitForBlock \/ Stamp \/ CopyFirst
  <2>1. d' = d /\ bulk' = bulk /\ pc \in Making
    BY <1>2, MakingAre DEF WaitForBlock, Stamp, CopyFirst
  <2> QED BY <2>1, SameOrder
<1>3. CASE Hop
  <2>1. bulk' = bulk /\ pc \in Making
    BY <1>3, MakingAre DEF Hop
  <2>2. (\E b : d' = [d EXCEPT !.do_hop = b]) \/ \E b, c : d' = [d EXCEPT !.do_hop = b, !.channel = c]
    BY <1>3 DEF Hop
  <2>3. d'.q = d.q /\ d'.requested_mode = d.requested_mode
    BY <2>2, FieldsAre DEF Types, Device
  <2> QED BY <2>1, <2>3, SameOrder
<1>4. CASE Locked \/ FlagPacket
  <2>1. bulk' = bulk /\ pc \in Making /\ \E b : d' = [d EXCEPT !.discard = b]
    BY <1>4, MakingAre DEF Locked, FlagPacket
  <2>2. d'.q = d.q /\ d'.requested_mode = d.requested_mode
    BY <2>1, FieldsAre DEF Types, Device
  <2> QED BY <2>1, <2>2, SameOrder
<1>5. CASE CopyRest
  <2>1. PICK p : p = [Packet("BR") EXCEPT !.old = IsLe(d.requested_mode)]
    OBVIOUS
  <2>2. p \in Entry /\ p.old = IsLe(d.requested_mode)
    <3>1. Packet("BR") = [kind |-> "BR", old |-> FALSE]
      BY DEF Packet
    <3>2. p = [kind |-> "BR", old |-> IsLe(d.requested_mode)]
      BY <2>1, <3>1
    <3>3. IsLe(d.requested_mode) \in BOOLEAN
      BY DEF IsLe
    <3> QED BY <3>2, <3>3 DEF Entry, PacketKinds
  <2>3. d'.q = Append(d.q, p) /\ bulk' = bulk /\ pc = "rest" /\ pc' = "enqueued"
    BY <1>5, <2>1, FieldsAre DEF CopyRest, Types, Device
  <2>4. p.old => d.q = << >> /\ AllOld(bulk)
    BY <2>2, <2>3, MakingAre DEF Order
  <2>5. Ordered(bulk, d'.q)
    BY <2>2, <2>3, <2>4, AppendOrdered DEF Types, Order
  <2> QED BY <2>3, <2>5, MakingAre DEF Order, Ordered, AllOld
<1>6. CASE ClearCount
  <2>1. d' = d /\ bulk' = bulk /\ pc' \notin Making
    BY <1>6, MakingAre DEF ClearCount
  <2> QED BY <2>1, SameOrder
<1> QED BY <1>1, <1>2, <1>3, <1>4, <1>5, <1>6 DEF StreamStep

LEMMA ModeStepOrder == ASSUME Types, Order, ModeStep PROVE Order'
<1>1. pc' \notin Making
  BY MakingAre DEF ModeStep, br_transmit, AwaitUnlock, specan, led_specan, bt_slave_le, rx_generic_sync, LeMode,
                   ego_main, xmas_main, cc2400_repeater, Go, IdleMode
<1>2. CASE bulk' = bulk /\ \E kind \in PacketKinds : enqueue(Packet(kind))
  BY <1>1, <1>2, EnqueueOrder
<1>3. CASE bulk' = bulk /\ d'.q = d.q
  BY <1>1, <1>3, SameOrder
<1>4. CASE br_transmit
  <2>1. CASE d' = d /\ bulk' = bulk
    BY <1>3, <2>1
  <2>2. CASE bulk' = bulk /\ \E ch, b : d' = [d EXCEPT !.channel = ch, !.do_hop = FALSE, !.discard = b]
    BY <1>3, <2>2, FieldsAre DEF Types, Device
  <2> QED BY <1>4, <2>1, <2>2 DEF br_transmit, Go
<1>5. CASE AwaitUnlock \/ led_specan \/ bt_slave_le \/ xmas_main \/ cc2400_repeater
  BY <1>3, <1>5 DEF AwaitUnlock, led_specan, bt_slave_le, xmas_main, cc2400_repeater, Go
<1>6. CASE specan
  BY <1>2, <1>3, <1>6 DEF specan, PacketKinds
<1>7. CASE rx_generic_sync
  BY <1>2, <1>7 DEF rx_generic_sync, PacketKinds, Go
<1>8. CASE LeMode
  <2>1. CASE IdleMode
    BY <1>3, <2>1, IdleTyped DEF IdleMode, Types
  <2> QED BY <1>2, <1>3, <1>8, <2>1 DEF LeMode, PacketKinds, Go
<1>9. CASE ego_main
  BY <1>2, <1>3, <1>9 DEF ego_main, PacketKinds, Go
<1> QED BY <1>4, <1>5, <1>6, <1>7, <1>8, <1>9 DEF ModeStep

LEMMA NextOrder == ASSUME Types, Order, [Next]_vars PROVE Order'
<1>1. CASE handle_usb \/ UsbInterrupt
  BY <1>1, UsbOrder
<1>2. CASE Switch
  BY <1>2, SwitchOrder
<1>3. CASE StreamStep
  BY <1>3, StreamStepOrder
<1>4. CASE ModeStep
  BY <1>4, ModeStepOrder
<1>5. CASE reset
  <2>1. d'.q = << >> /\ bulk' = << >> /\ pc' \notin Making
    BY <1>5, InitialTyped, MakingAre DEF reset
  <2>2. Len(<< >>) = 0
    BY EmptySeq
  <2> QED BY <2>1, <2>2 DEF Order, Ordered, AllOld
<1>6. CASE cc2400_rangetest
  <2>1. d'.q = d.q /\ bulk' = bulk /\ pc' \notin Making
    BY <1>6, FieldsAre, MakingAre DEF cc2400_rangetest, Go, Types, Device
  <2> QED BY <2>1, SameOrder
<1>7. CASE HostReads
  <2>1. bulk # << >> /\ bulk' = Tail(bulk) /\ UNCHANGED <<pc, d>>
    BY <1>7 DEF HostReads
  <2>2. Ordered(bulk', d.q) /\ (AllOld(bulk) => AllOld(bulk'))
    BY <2>1, TailOrdered DEF Types, Order
  <2> QED BY <2>1, <2>2 DEF Order, Ordered, AllOld
<1>8. CASE legacy_DMA_IRQHandler \/ EINT3_IRQHandler \/ TIMER0_IRQHandler
  <2>1. /\ UNCHANGED <<pc, bulk>>
        /\ \/ d' = d
           \/ \E b : d' = [d EXCEPT !.discard = b]
           \/ \E b : d' = [d EXCEPT !.do_hop = b]
    BY <1>8 DEF legacy_DMA_IRQHandler, EINT3_IRQHandler, TIMER0_IRQHandler
  <2>2. d'.q = d.q /\ d'.requested_mode = d.requested_mode
    BY <2>1, FieldsAre DEF Types, Device
  <2> QED BY <2>1, <2>2, SameOrder
<1>9. CASE UNCHANGED vars
  BY <1>9, SameOrder DEF vars
<1> QED BY <1>1, <1>2, <1>3, <1>4, <1>5, <1>6, <1>7, <1>8, <1>9 DEF Next, MainLoop

LEMMA InitOrder == ASSUME Init PROVE Order
<1>1. bulk = << >> /\ d.q = << >> /\ pc = "main"
  BY InitialTyped DEF Init
<1>2. Len(<< >>) = 0
  BY EmptySeq
<1> QED BY <1>1, <1>2, MakingAre DEF Order, Ordered, AllOld

-----------------------------------------------------------------------------
(* Every step keeps what the symbol stream relies on.                        *)

LEMMA StreamPlaces == /\ Window = {"stamp", "first", "rest"} /\ Before \cup Window \cup {"enqueued", "clear"} = Streaming
                      /\ Before = {"test", "waiting", "poll", "hop", "retune", "flag"}
  BY DEF Window, Before, Streaming

LEMMA OtherStream == ASSUME pc' \notin Streaming PROVE Stream'
  BY StreamPlaces DEF Stream, Blocks, Marks, Gaps, Made

LEMMA SameStream ==
  ASSUME Stream, UNCHANGED <<pc, status, dma, pkt, since, race>>, d.discard => d'.discard
  PROVE  Stream'
  BY DEF Stream, Blocks, Marks, Gaps, Made

LEMMA OneBlock == Contents(0) = {0}
<1>1. 0 # 1 /\ 0 # 2 /\ 0 # Cap
  BY DEF Cap
<1> QED BY <1>1, Zenon DEF Contents

LEMMA StreamModeStream == ASSUME NEW m, StreamMode(m) PROVE Stream'
<1>1. /\ pc' = "test" /\ since' = 0 /\ race' = 0 /\ pkt' = NoPacket
      /\ dma' = [on |-> TRUE, tc |-> 0, mixed |-> FALSE, filling |-> FALSE]
  BY DEF StreamMode, dma_init_rx_symbols
<1>2. dma'.tc = 0 /\ ~ dma'.mixed /\ ~ dma'.filling
  BY <1>1
<1> QED BY <1>1, <1>2, StreamPlaces DEF Stream, Blocks, Marks, Gaps, Made

LEMMA LoopStream ==
  ASSUME Types, Stream, LoopTest \/ WaitForBlock \/ Locked \/ ClearCount PROVE Stream'
<1>0. dma \in DmaStates /\ dma.tc \in 0..Several /\ since \in 0..Several /\ race \in 0..2
  BY DEF Types, DmaStates
<1>1. CASE LoopTest
  <2>1. CASE d.requested_mode \in {"RX_SYMBOLS", "BT_FOLLOW"}
    <3>1. pc = "test" /\ pc' = "waiting" /\ UNCHANGED <<d, status, dma, pkt, since, race>>
      BY <1>1, <2>1 DEF LoopTest
    <3> QED BY <3>1, StreamPlaces DEF Stream, Blocks, Marks, Gaps, Made
  <2>2. CASE d.requested_mode \notin {"RX_SYMBOLS", "BT_FOLLOW"}
    <3>1. pc' = "main"
      BY <1>1, <2>2 DEF LoopTest
    <3> QED BY <3>1, OtherStream DEF Streaming
  <2> QED BY <2>1, <2>2
<1>2. CASE WaitForBlock
  <2>1. /\ pc = "waiting" /\ UNCHANGED <<d, status, dma, pkt, since, race>>
        /\ pc' = IF dma.tc = 0 THEN "poll" ELSE "flag"
    BY <1>2 DEF WaitForBlock
  <2> QED BY <1>0, <2>1, StreamPlaces DEF Stream, Blocks, Marks, Gaps, Made, Several
<1>3. CASE Locked
  <2>1. pc = "retune" /\ pc' = "waiting" /\ d'.discard /\ UNCHANGED <<status, dma, pkt, since, race>>
    BY <1>3, FieldsAre DEF Locked, Types, Device
  <2> QED BY <1>0, <2>1, StreamPlaces DEF Stream, Blocks, Marks, Gaps, Made
<1>4. CASE ClearCount
  <2>1. pc = "clear" /\ pc' = "test" /\ dma' = [dma EXCEPT !.tc = 0] /\ UNCHANGED <<d, status, pkt, since, race>>
    BY <1>4 DEF ClearCount
  <2>2. dma'.tc = 0 /\ dma'.mixed = dma.mixed /\ dma'.filling = dma.filling
    BY <1>0, <2>1 DEF DmaStates
  <2> QED BY <1>0, <2>1, <2>2, StreamPlaces DEF Stream, Blocks, Marks, Gaps, Made
<1> QED BY <1>1, <1>2, <1>3, <1>4

LEMMA HopStream == ASSUME Types, Stream, Hop PROVE Stream'
<1>1. dma \in DmaStates /\ dma.tc \in Nat /\ race \in 0..2 /\ pc = "hop" /\ UNCHANGED <<status, pkt, since>>
  <2>1. dma \in DmaStates /\ dma.tc \in Nat /\ race \in 0..2
    BY DEF Types, DmaStates, Several
  <2>2. pc = "hop" /\ UNCHANGED <<status, pkt, since>>
    BY DEF Hop
  <2> QED BY <2>1, <2>2
<1>2. d'.discard = d.discard
  <2>1. (\E b : d' = [d EXCEPT !.do_hop = b]) \/ \E b, c : d' = [d EXCEPT !.do_hop = b, !.channel = c]
    BY DEF Hop
  <2> QED BY <2>1, FieldsAre DEF Types, Device
<1>3. CASE pc' = "waiting" /\ UNCHANGED <<dma, race>>
  BY <1>1, <1>2, <1>3, StreamPlaces DEF Stream, Blocks, Marks, Gaps, Made
<1>4. CASE pc' = "retune" /\ dma' = [dma EXCEPT !.filling = TRUE] /\ race' = IF dma.tc > 0 THEN 2 ELSE race
  <2>1. dma'.tc = dma.tc /\ dma'.mixed = dma.mixed /\ dma'.filling
    BY <1>1, <1>4 DEF DmaStates
  <2> QED BY <1>1, <1>2, <1>4, <2>1, StreamPlaces DEF Stream, Blocks, Marks, Gaps, Made
<1> QED BY <1>3, <1>4 DEF Hop

LEMMA FlagStream == ASSUME Types, Stream, FlagPacket PROVE Stream'
<1>1. /\ dma \in DmaStates /\ dma.tc \in Nat /\ since \in Nat /\ race \in 0..2 /\ status \in SUBSET Flags
      /\ pc = "flag" /\ pc' = "stamp" /\ UNCHANGED <<dma, since, race>>
  BY DEF FlagPacket, Types, DmaStates, Several
<1>2. /\ pkt'.swaps = 0 /\ pkt'.mixed = dma.mixed /\ pkt'.gap = (since > 1)
  <2>1. pkt' = [NoPacket EXCEPT !.gap = (since > 1), !.mixed = dma.mixed]
    BY DEF FlagPacket
  <2> QED BY <2>1, PacketFields
<1>3. /\ status \subseteq status'
      /\ dma.tc > 1 => "DMA_OVERFLOW" \in status'
      /\ d.discard => "DISCARD" \in status'
  BY DEF FlagPacket
<1>4. dma.filling /\ race = 0 => FALSE
  BY <1>1, StreamPlaces DEF Stream, Blocks, Marks
<1>5. pkt'.mixed /\ race = 0 => "DISCARD" \in status'
  BY <1>1, <1>2, <1>3, StreamPlaces DEF Stream, Blocks, Marks
<1>6. pkt'.gap /\ race = 0 => status' \cap {"DMA_OVERFLOW", "FIFO_OVERFLOW"} # {}
  <2>1. race = 0 => since <= dma.tc \/ "FIFO_OVERFLOW" \in status
    BY <1>1, StreamPlaces DEF Stream, Gaps
  <2>2. race = 0 /\ since > 1 => "DMA_OVERFLOW" \in status' \/ "FIFO_OVERFLOW" \in status'
    BY <1>1, <1>3, <2>1
  <2> QED BY <1>2, <2>2
<1>7. race = 0 => since <= dma.tc \/ "FIFO_OVERFLOW" \in status'
  BY <1>1, <1>3, StreamPlaces DEF Stream, Gaps
<1>8. dma.tc > 0 /\ (race = 1 => ~ dma.filling)
  BY <1>1, StreamPlaces DEF Stream, Blocks, Marks
<1> QED BY <1>1, <1>2, <1>4, <1>5, <1>6, <1>7, <1>8, StreamPlaces DEF Stream, Blocks, Marks, Gaps, Made

LEMMA StampStream == ASSUME Types, Stream, Stamp PROVE Stream'
<1>1. dma.tc \in Nat /\ race \in 0..2 /\ pc = "stamp" /\ UNCHANGED <<d, dma, since, race>>
  BY DEF Stamp, Types, DmaStates, Several
<1>2. CASE pc' = "enqueued" /\ status' = status \cup {"FIFO_OVERFLOW"} /\ pkt' = NoPacket
  <2>1. pkt'.stamp = 0 /\ pkt'.first = 0 /\ pkt'.last = 0 /\ ~ pkt'.mixed /\ ~ pkt'.gap
    BY <1>2 DEF NoPacket
  <2> QED BY <1>1, <1>2, <2>1, StreamPlaces DEF Stream, Blocks, Marks, Gaps, Made
<1>3. CASE pc' = "first" /\ pkt' = [pkt EXCEPT !.stamp = pkt.swaps] /\ UNCHANGED status
  <2>1. pkt'.stamp = pkt.swaps /\ pkt'.swaps = pkt.swaps /\ pkt'.mixed = pkt.mixed /\ pkt'.gap = pkt.gap
    BY <1>3, PacketFields DEF Types, Pkt
  <2> QED BY <1>1, <1>3, <2>1, StreamPlaces DEF Stream, Blocks, Marks, Gaps, Made
<1> QED BY <1>2, <1>3 DEF Stamp

LEMMA CopyStream == ASSUME Types, Stream, CopyFirst \/ CopyRest PROVE Stream'
<1>1. dma.tc \in Nat /\ race \in 0..2 /\ Pkt(pkt)
  BY DEF Types, DmaStates, Several
<1>2. CASE CopyFirst
  <2>1. pc = "first" /\ pc' = "rest" /\ UNCHANGED <<d, status, dma, since, race>>
    BY <1>2 DEF CopyFirst
  <2>2. PICK b \in Contents(pkt.swaps) : pkt' = [pkt EXCEPT !.first = b]
    BY <1>2 DEF CopyFirst
  <2>3. /\ pkt'.first = b /\ pkt'.stamp = pkt.stamp /\ pkt'.swaps = pkt.swaps /\ pkt'.mixed = pkt.mixed
        /\ pkt'.gap = pkt.gap
    BY <1>1, <2>2, PacketFields DEF Pkt
  <2>4. race = 0 => b = 0
    BY <2>1, <2>2, OneBlock, StreamPlaces DEF Stream, Blocks
  <2> QED BY <1>1, <2>1, <2>3, <2>4, StreamPlaces DEF Stream, Blocks, Marks, Gaps, Made
<1>3. CASE CopyRest
  <2>1. pc = "rest" /\ pc' = "enqueued" /\ UNCHANGED dma
    BY <1>3 DEF CopyRest
  <2>2. PICK b \in Contents(pkt.swaps) : pkt' = [pkt EXCEPT !.last = b, !.flags = status, !.dirty = (race > 0)]
    BY <1>3 DEF CopyRest
  <2>3. /\ pkt'.last = b /\ pkt'.first = pkt.first /\ pkt'.stamp = pkt.stamp /\ pkt'.flags = status
        /\ pkt'.mixed = pkt.mixed /\ pkt'.gap = pkt.gap /\ pkt'.dirty = (race > 0)
    BY <1>1, <2>2, PacketFields DEF Pkt
  <2>4. race' = (IF race = 0 THEN 0 ELSE race - 1) /\ since' = UpTo(pkt.swaps, Several)
    BY <1>3 DEF CopyRest
  <2>5. race < 2 => pkt.swaps = 0
    BY <2>1, StreamPlaces DEF Stream, Blocks
  <2>6. race < 2 => since' = 0
    BY <2>4, <2>5 DEF UpTo, Several
  <2>7. race = 0 => b = 0 /\ pkt.first = 0 /\ pkt.stamp = 0
    BY <2>1, <2>2, <2>5, OneBlock DEF Stream, Blocks
  <2>8. race = 0 => /\ pkt.mixed => "DISCARD" \in status
                    /\ pkt.gap => status \cap {"DMA_OVERFLOW", "FIFO_OVERFLOW"} # {}
    BY <2>1, StreamPlaces DEF Stream, Marks, Gaps
  <2>9. dma.tc > 0
    BY <2>1, StreamPlaces DEF Stream, Blocks
  <2>10. Made'
    <3>1. ~ pkt'.dirty => race = 0
      <4>1. race # 0 => race > 0
        BY <1>1
      <4>2. race > 0 => pkt'.dirty
        BY <2>3, Zenon
      <4> QED BY <4>1, <4>2, Zenon
    <3> QED BY <2>3, <2>7, <2>8, <3>1 DEF Made
  <2>11. race' = 0 => race < 2 /\ (race = 0 \/ race = 1)
    BY <1>1, <2>4
  <2>12. race' = 0 => ~ dma.filling
    BY <2>1, <2>9, <2>11, StreamPlaces DEF Stream, Marks
  <2>13. Blocks' /\ Marks' /\ Gaps'
    BY <1>1, <2>1, <2>6, <2>9, <2>11, <2>12, StreamPlaces DEF Blocks, Marks, Gaps
  <2> QED BY <2>10, <2>13 DEF Stream
<1> QED BY <1>2, <1>3

LEMMA UsbStream == ASSUME Types, Stream, handle_usb PROVE Stream'
<1>1. UNCHANGED <<status, dma, since, race>> /\ (pc = "enqueued" => pkt' = NoPacket) /\ dma.tc \in Nat /\ race \in 0..2
  BY DEF handle_usb, Types, DmaStates, Several
<1>2. CASE pc = "poll" /\ pc' = "hop"
  <2>1. d.discard => d'.discard
    <3>1. PICK s : s = Sent(d.q, bulk)
      OBVIOUS
    <3>2. PICK e : e = [d EXCEPT !.q = s.q]
      OBVIOUS
    <3>3. s.q \in Seq(Entry) /\ Len(s.q) <= Len(d.q) /\ s.b \in Seq(Entry) /\ Len(s.b) <= 2
      BY <3>1, SentOrdered DEF Types
    <3>4. Device(e) /\ e.q = s.q /\ e.discard = d.discard
      BY <3>2, FlagTyped, FieldsAre DEF Types, Device
    <3>5. Len(e.q) < QueueSize
      BY <3>3, <3>4, LenProperties, RxtxAssumption DEF Types
    <3>6. Serve(e, s.b)
      BY <3>1, <3>2 DEF handle_usb
    <3>7. made \in 0..Len(Script)
      BY DEF Types
    <3> QED BY <3>3, <3>4, <3>5, <3>6, <3>7, ServeHeeds
  <2> QED BY <1>1, <1>2, <2>1, StreamPlaces DEF Stream, Blocks, Marks, Gaps, Made
<1>3. CASE pc = "enqueued" /\ pc' = "clear"
  BY <1>1, <1>3, StreamPlaces DEF Stream, Blocks, Marks, Gaps, Made
<1>4. CASE pc' \notin Streaming
  BY <1>4, OtherStream
<1>5. (pc = "poll" /\ pc' = "hop") \/ (pc = "enqueued" /\ pc' = "clear") \/ pc' \notin Streaming
  BY DEF handle_usb, AfterUsb, Streaming
<1> QED BY <1>2, <1>3, <1>4, <1>5

LEMMA InterruptStream ==
  ASSUME Types, Stream, legacy_DMA_IRQHandler \/ EINT3_IRQHandler \/ TIMER0_IRQHandler PROVE Stream'
<1>1. dma \in DmaStates /\ dma.tc \in 0..Several /\ since \in 0..Several /\ race \in 0..2 /\ Pkt(pkt)
  BY DEF Types, DmaStates
<1>2. CASE legacy_DMA_IRQHandler
  <2>1. UNCHANGED <<pc, d, status>>
    BY <1>2 DEF legacy_DMA_IRQHandler
  <2>2. /\ dma'.tc = UpTo(dma.tc + 1, Several) /\ dma'.mixed = dma.filling /\ dma'.filling = (pc = "retune")
    <3>1. dma' = [dma EXCEPT !.tc = UpTo(dma.tc + 1, Several), !.mixed = dma.filling, !.filling = (pc = "retune")]
      BY <1>2 DEF legacy_DMA_IRQHandler
    <3> QED BY <1>1, <3>1 DEF DmaStates
  <2>3. since' = UpTo(since + 1, Several) /\ (pc \notin Window => pkt' = pkt)
    BY <1>2 DEF legacy_DMA_IRQHandler
  <2>4. race' = IF pc \in Window \cup {"retune"} THEN 2 ELSE IF pc \in {"enqueued", "clear"} THEN 1 ELSE race
    BY <1>2 DEF legacy_DMA_IRQHandler
  <2>5. dma'.tc > 0 /\ (since <= dma.tc => since' <= dma'.tc)
    BY <1>1, <2>2, <2>3 DEF UpTo, Several
  <2>6. dma'.filling => pc = "retune"
    BY <2>2
  <2>7. pc \in Window \/ pc \notin Window
    OBVIOUS
  <2>8. CASE pc \in Window \cup {"retune"}
    BY <2>1, <2>4, <2>5, <2>8, StreamPlaces DEF Stream, Blocks, Marks, Gaps, Made
  <2>9. CASE pc \in {"enqueued", "clear"}
    BY <2>1, <2>3, <2>4, <2>5, <2>9, StreamPlaces DEF Stream, Blocks, Marks, Gaps, Made
  <2>10. CASE pc \in {"test", "waiting", "poll", "hop", "flag"}
    <3>1. race' = race /\ pkt' = pkt /\ ~ dma'.filling
      BY <2>3, <2>4, <2>6, <2>10, StreamPlaces
    <3>2. race = 0 /\ dma'.mixed => d.discard
      BY <2>2, <2>10, StreamPlaces DEF Stream, Marks
    <3> QED BY <2>1, <2>5, <2>10, <3>1, <3>2, StreamPlaces DEF Stream, Blocks, Marks, Gaps, Made
  <2>11. pc \in Streaming
    BY <1>2 DEF legacy_DMA_IRQHandler
  <2> QED BY <2>8, <2>9, <2>10, <2>11, StreamPlaces
<1>3. CASE EINT3_IRQHandler
  <2>1. UNCHANGED <<pc, status, dma, pkt, since>> /\ race' = IF d'.discard # d.discard THEN 2 ELSE race
    BY <1>3 DEF EINT3_IRQHandler
  <2>2. CASE d'.discard = d.discard
    BY <2>1, <2>2, SameStream
  <2>3. CASE d'.discard # d.discard
    BY <2>1, <2>3, StreamPlaces DEF Stream, Blocks, Marks, Gaps, Made
  <2> QED BY <2>2, <2>3
<1>4. CASE TIMER0_IRQHandler
  <2>1. d' = [d EXCEPT !.do_hop = TRUE] /\ UNCHANGED <<pc, status, dma, pkt, since, race>>
    BY <1>4 DEF TIMER0_IRQHandler
  <2>2. d'.discard = d.discard
    BY <2>1, FieldsAre DEF Types, Device
  <2> QED BY <2>1, <2>2, SameStream
<1> QED BY <1>2, <1>3, <1>4

LEMMA NextStream == ASSUME Types, Stream, [Next]_vars PROVE Stream'
<1>1. CASE handle_usb
  BY <1>1, UsbStream
<1>2. CASE StreamStep
  BY <1>2, LoopStream, HopStream, FlagStream, StampStream, CopyStream DEF StreamStep
<1>3. CASE legacy_DMA_IRQHandler \/ EINT3_IRQHandler \/ TIMER0_IRQHandler
  BY <1>3, InterruptStream
<1>4. CASE Switch
  <2>1. CASE StreamMode(d.requested_mode)
    BY <2>1, StreamModeStream
  <2>2. CASE ~ StreamMode(d.requested_mode)
    <3>1. pc' \notin Streaming
      BY <1>4, <2>2 DEF Switch, Enter, FreshQueue, IdleMode, tx_generic, cc2400_txtest, rx_generic, Streaming
    <3> QED BY <3>1, OtherStream
  <2> QED BY <2>1, <2>2
<1>5. CASE UsbInterrupt \/ ModeStep \/ reset \/ cc2400_rangetest
  <2>1. pc' \notin Streaming
    BY <1>5 DEF UsbInterrupt, reset, cc2400_rangetest, ModeStep, br_transmit, AwaitUnlock, specan, led_specan,
                bt_slave_le, rx_generic_sync, LeMode, ego_main, xmas_main, cc2400_repeater, Go, IdleMode, Streaming
  <2> QED BY <2>1, OtherStream
<1>6. CASE HostReads \/ UNCHANGED vars
  BY <1>6, SameStream DEF HostReads, vars
<1> QED BY <1>1, <1>2, <1>3, <1>4, <1>5, <1>6 DEF Next, MainLoop

LEMMA InitStream == ASSUME Init PROVE Stream
  BY StreamPlaces DEF Init, Stream, Blocks, Marks, Gaps, Made

-----------------------------------------------------------------------------
(* The theorems.                                                            *)

IInv == Types /\ Order /\ Stream

LEMMA Invariant == Spec => []IInv
<1>1. Init => IInv
  BY InitTypes, InitOrder, InitStream DEF IInv
<1>2. IInv /\ [Next]_vars => IInv'
  BY NextTypes, NextOrder, NextStream DEF IInv
<1> QED BY <1>1, <1>2, PTL DEF Spec

LEMMA TypesHold == Types => TypeOK
<1> SUFFICES ASSUME Types PROVE TypeOK
  OBVIOUS
<1>1. ASSUME NEW i \in DOMAIN d.q PROVE d.q[i].kind \in PacketKinds
  <2>1. d.q \in Seq(Entry)
    BY DEF Types
  <2>2. i \in 1..Len(d.q)
    BY <2>1, LenProperties
  <2>3. d.q[i] \in Entry
    BY <2>1, <2>2, ElementOfSeq
  <2> QED BY <2>3 DEF Entry
<1>2. radio.state \in {"off", "rx", "tx"} /\ dma.tc \in 0..Several
  BY DEF Types, RadioStates, DmaStates
<1> QED BY <1>1, <1>2 DEF Types, TypeOK, Device

\* The shared variables of the firmware keep their types whatever vendor
\* requests of the script the host makes and whenever it makes them.
THEOREM RxtxTypes == Spec => []TypeOK
<1>1. IInv => TypeOK
  BY TypesHold DEF IInv
<1> QED BY <1>1, Invariant, PTL

LEMMA OrderedOldFirst == Types /\ Order => OldFirst
<1> SUFFICES ASSUME Types, Order PROVE OldFirst
  OBVIOUS
<1>1. /\ Len(Reading) = Len(bulk) + Len(d.q) /\ DOMAIN Reading = 1..Len(Reading)
      /\ \A i \in 1..Len(Reading) : Reading[i] = IF i <= Len(bulk) THEN bulk[i] ELSE d.q[i - Len(bulk)]
      /\ Len(bulk) \in 0..2 /\ Len(d.q) \in Nat
  <2>1. bulk \in Seq(Entry) /\ d.q \in Seq(Entry) /\ Len(bulk) <= 2
    BY DEF Types
  <2>2. Reading \in Seq(Entry) /\ Len(bulk) \in Nat /\ Len(d.q) \in Nat
    BY <2>1, LenProperties, ConcatProperties DEF Reading
  <2>3. /\ Len(Reading) = Len(bulk) + Len(d.q)
        /\ \A i \in 1..Len(Reading) : Reading[i] = IF i <= Len(bulk) THEN bulk[i] ELSE d.q[i - Len(bulk)]
    BY <2>1, <2>2, ConcatProperties DEF Reading
  <2>4. DOMAIN Reading = 1..Len(Reading)
    BY <2>2, LenProperties
  <2>5. Len(bulk) \in 0..2
    <3>1. \A n \in Nat : n <= 2 => n \in 0..2
      OBVIOUS
    <3> QED BY <2>1, <2>2, <3>1, Zenon
  <2> QED BY <2>2, <2>3, <2>4, <2>5, Zenon
<1>2. ASSUME NEW i \in Old PROVE i \in 1..3 /\ 1..i \subseteq Old
  <2>1. i \in 1..Len(Reading) /\ Reading[i].old
    BY <1>1 DEF Old
  <2>2. CASE i <= Len(bulk)
    <3>1. \A j \in 1..i : bulk[j].old
      BY <1>1, <2>1, <2>2 DEF Order, Ordered
    <3> QED BY <1>1, <2>1, <2>2, <3>1 DEF Old
  <2>3. CASE i > Len(bulk)
    <3>1. i = Len(bulk) + 1 /\ \A j \in 1..Len(bulk) : bulk[j].old
      BY <1>1, <2>1, <2>3 DEF Order, Ordered, AllOld
    <3> QED BY <1>1, <2>1, <3>1 DEF Old
  <2> QED BY <1>1, <2>1, <2>2, <2>3
<1>3. Cardinality(Old) <= 3
  <2>1. IsFiniteSet(1..3) /\ Cardinality(1..3) = 3
    <3>1. IsFiniteSet(1..3) /\ Cardinality(1..3) = IF 1 > 3 THEN 0 ELSE 3 - 1 + 1
      <4>1. 1 \in Int /\ 3 \in Int
        OBVIOUS
      <4> QED BY <4>1, FS_Interval, Zenon
    <3> QED BY <3>1
  <2>2. Old \subseteq 1..3
    BY <1>2
  <2>3. Cardinality(Old) <= Cardinality(1..3)
    BY <2>1, <2>2, FS_Subset
  <2> QED BY <2>1, <2>3
<1> QED BY <1>2, <1>3 DEF OldFirst

\* After a mode has started its stream, the packets the host reads that were
\* made before it are at most three and come before every new one: an entry
\* of the mode before survives in the queue only at its head.
THEOREM OldPacketsFirst == Spec => []OldFirst
<1>1. IInv => OldFirst
  BY OrderedOldFirst DEF IInv
<1> QED BY <1>1, Invariant, PTL

\* The symbol stream's packets: one whose making no DMA interrupt hit in a
\* window is one block with its own time stamp, says if the block was
\* received during a retune and if blocks were lost before it.
THEOREM SymbolPacketsTrue == Spec => []PacketsTrue
<1>1. IInv => PacketsTrue
  BY TypesHold DEF IInv, Stream, Made, PacketsTrue
<1> QED BY <1>1, Invariant, PTL

-----------------------------------------------------------------------------
(* The host's end of the stream, HostStream: whatever the size of the ring,  *)
(* however many packets come and whichever calls of libusb fail, the tool's  *)
(* function gets the packets in order, none missing and none twice, until    *)
(* the ring was full.                                                        *)

Slots == 0 .. FIFO_SIZE - 1
Numbers == 0 .. MaxPackets
XferStates == {"none", "flight", "completed", "timed_out", "cancelled", "error", "failed", "stopped"}

(* Types, as the steps need them.                                            *)
Typed ==
  /\ fifo \in [read_ptr : Slots, write_ptr : Slots, packets : [Slots -> Numbers]]
  /\ xfer \in [state : XferStates, buffer : Slots, cancel : BOOLEAN]
  /\ stop \in BOOLEAN /\ do_exit \in BOOLEAN /\ thread \in BOOLEAN /\ lossy \in BOOLEAN
  /\ last \in Numbers /\ sent \in Numbers /\ selected \in Slots

(* The packets in the ring are Used(f); k places after read_ptr is           *)
(* Place(f, k).                                                              *)
Used(f) == IF f.read_ptr <= f.write_ptr THEN f.write_ptr - f.read_ptr
           ELSE f.write_ptr - f.read_ptr + FIFO_SIZE
Place(f, k) == IF f.read_ptr + k < FIFO_SIZE THEN f.read_ptr + k ELSE f.read_ptr + k - FIFO_SIZE

(* The packets taken from the ring, of which the last is still to be copied  *)
(* in "copy"; the one that libusb has written but cb_xfer has not put in.    *)
Taken == IF main = "copy" THEN last + 1 ELSE last
Outside == IF xfer.state \in {"completed", "stopped"} THEN 1 ELSE 0

(* The transfer writes where the ring ends; it is submitted once.            *)
AtEnd == /\ xfer.state \notin {"none", "failed"} => xfer.buffer = fifo.write_ptr
         /\ main = "init" => xfer.state = "none"

(* The ring holds the packets after those taken, and what is being copied is *)
(* not where the transfer writes: that takes a free place besides.           *)
InOrder ==
  /\ Used(fifo) < FIFO_SIZE - 1
  /\ \A k \in Slots : k < Used(fifo) => fifo.packets[Place(fifo, k)] = Taken + k + 1
  /\ main = "copy" => /\ Next1(selected) = fifo.read_ptr
                      /\ fifo.packets[selected] = Taken
  /\ main = "pop" => Used(fifo) > 0
  /\ xfer.state = "completed" => fifo.packets[fifo.write_ptr] = sent
  /\ sent = Taken + Used(fifo) + Outside

HostInv == Typed /\ AtEnd /\ (~lossy => InOrder)

-----------------------------------------------------------------------------
(* The ring.                                                                 *)

LEMMA Size == FIFO_SIZE \in Nat /\ FIFO_SIZE >= 2 /\ MaxPackets \in Nat /\ 0 \in Slots /\ 0 \in Numbers
  BY HostStreamAssumption DEF Slots, Numbers

LEMMA NextValue ==
  ASSUME NEW i \in Slots
  PROVE  /\ Next1(i) = IF i = FIFO_SIZE - 1 THEN 0 ELSE i + 1
         /\ Next1(i) \in Slots
<1>1. CASE i = FIFO_SIZE - 1
  BY <1>1, Size DEF Next1, Slots
<1>2. CASE i # FIFO_SIZE - 1
  BY <1>2, Size DEF Next1, Slots
<1>. QED  BY <1>1, <1>2

IsRing(f) == f \in [read_ptr : Slots, write_ptr : Slots, packets : [Slots -> Numbers]]

LEMMA RingFacts ==
  ASSUME NEW f, IsRing(f)
  PROVE  /\ Used(f) \in Slots
         /\ FifoFull(f) <=> Used(f) = FIFO_SIZE - 1
         /\ f.read_ptr = f.write_ptr <=> Used(f) = 0
         /\ \A k \in Slots : /\ Place(f, k) \in Slots
                             /\ k < Used(f) => Place(f, k) # f.write_ptr
         /\ Place(f, 0) = f.read_ptr /\ Place(f, Used(f)) = f.write_ptr
<1>1. f.read_ptr \in Slots /\ f.write_ptr \in Slots
  BY DEF IsRing
<1>2. FifoFull(f) <=> Used(f) = FIFO_SIZE - 1
  BY <1>1, NextValue, Size DEF FifoFull, Used, Slots
<1>. QED  BY <1>1, <1>2, Size DEF Used, Place, Slots

(* Taking a packet out.                                                      *)
Read(f) == [f EXCEPT !.read_ptr = Next1(@)]
LEMMA RingRead ==
  ASSUME NEW f, IsRing(f), Used(f) > 0
  PROVE  /\ IsRing(Read(f)) /\ Used(Read(f)) = Used(f) - 1
         /\ Read(f).packets = f.packets /\ Read(f).write_ptr = f.write_ptr
         /\ Read(f).read_ptr = Next1(f.read_ptr)
         /\ \A k \in Slots : k < Used(Read(f)) =>
              k + 1 \in Slots /\ k + 1 < Used(f) /\ Place(Read(f), k) = Place(f, k + 1)
<1>. DEFINE g == Read(f)
<1>1. /\ f.read_ptr \in Slots /\ f.write_ptr \in Slots
      /\ g.write_ptr = f.write_ptr /\ g.packets = f.packets /\ g.read_ptr = Next1(f.read_ptr)
  BY DEF IsRing, Read
<1>2. IsRing(g)
  BY <1>1, NextValue DEF IsRing, Read
<1>3. g.read_ptr = IF f.read_ptr = FIFO_SIZE - 1 THEN 0 ELSE f.read_ptr + 1
  BY <1>1, NextValue
<1>. HIDE DEF g
<1>4. Used(g) = Used(f) - 1
  BY <1>1, <1>3, Size DEF Used, Slots
<1>5. \A k \in Slots : k < Used(g) => k + 1 \in Slots /\ k + 1 < Used(f) /\ Place(g, k) = Place(f, k + 1)
  <2>1. Used(f) \in Slots
    BY RingFacts
  <2>2. ASSUME NEW k \in Slots, k < Used(g) PROVE k + 1 \in Slots /\ k + 1 < Used(f)
    BY <1>4, <2>1, <2>2, Size DEF Slots
  <2>3. ASSUME NEW k \in Slots, k < Used(g) PROVE Place(g, k) = Place(f, k + 1)
    BY <1>1, <1>3, <2>2, <2>3, Size DEF Place, Slots
  <2>. QED  BY <2>2, <2>3
<1>. QED  BY <1>1, <1>2, <1>4, <1>5 DEF g

(* Putting one in.                                                           *)
LEMMA RingWrite ==
  ASSUME NEW f, IsRing(f)
  PROVE  /\ IsRing(fifo_inc_write_ptr(f))
         /\ fifo_inc_write_ptr(f).packets = f.packets /\ fifo_inc_write_ptr(f).read_ptr = f.read_ptr
         /\ ~FifoFull(f) => /\ Used(fifo_inc_write_ptr(f)) = Used(f) + 1
                        /\ \A k \in Slots : Place(fifo_inc_write_ptr(f), k) = Place(f, k)
<1>1. CASE FifoFull(f)
  BY <1>1 DEF fifo_inc_write_ptr
<1>2. CASE ~FifoFull(f)
  <2>. DEFINE g == [f EXCEPT !.write_ptr = Next1(@)]
  <2>1. fifo_inc_write_ptr(f) = g
    BY <1>2 DEF fifo_inc_write_ptr
  <2>2. /\ f.read_ptr \in Slots /\ f.write_ptr \in Slots
        /\ g.read_ptr = f.read_ptr /\ g.packets = f.packets /\ g.write_ptr = Next1(f.write_ptr)
    BY DEF IsRing
  <2>3. IsRing(g)
    BY <2>2, NextValue DEF IsRing
  <2>4. g.write_ptr = (IF f.write_ptr = FIFO_SIZE - 1 THEN 0 ELSE f.write_ptr + 1) /\ g.write_ptr # f.read_ptr
    BY <1>2, <2>2, NextValue DEF FifoFull
  <2>. HIDE DEF g
  <2>5. Used(g) = Used(f) + 1
    BY <2>2, <2>4, Size DEF Used, Slots
  <2>6. \A k \in Slots : Place(g, k) = Place(f, k)
    BY <2>2 DEF Place
  <2>. QED  BY <2>1, <2>2, <2>3, <2>5, <2>6
<1>. QED  BY <1>1, <1>2

-----------------------------------------------------------------------------
(* Types.                                                                    *)

LEMMA HostInit == StreamInit => HostInv
<1>. SUFFICES ASSUME StreamInit PROVE HostInv
  OBVIOUS
<1>. USE Size DEF StreamInit, ubertooth_init, NoXfer
<1>1. Typed
  <2>1. fifo \in [read_ptr : Slots, write_ptr : Slots, packets : [Slots -> Numbers]]
    BY DEF Slots
  <2>2. xfer \in [state : XferStates, buffer : Slots, cancel : BOOLEAN]
    BY DEF XferStates
  <2>. QED  BY <2>1, <2>2 DEF Typed
<1>2. AtEnd
  BY DEF AtEnd
<1>3. Used(fifo) = 0 /\ Taken = 0 /\ Outside = 0
  BY DEF Used, Taken, Outside
<1>4. InOrder
  BY <1>3 DEF InOrder, Slots
<1>. QED  BY <1>1, <1>2, <1>4 DEF HostInv

(* A transfer as each step leaves it.                                        *)
IsXfer(x) == x \in [state : XferStates, buffer : Slots, cancel : BOOLEAN]

LEMMA XferStep ==
  ASSUME Typed
  PROVE  /\ \A how \in XferStates : Ends(how) => IsXfer(xfer')
         /\ \A b \in Slots : Resubmitted(b) => IsXfer(xfer')
         /\ Freed => IsXfer(xfer')
         /\ IsXfer(Cancelled)
<1>1. IsXfer(xfer)
  BY DEF Typed, IsXfer
<1>2. ASSUME NEW how \in XferStates PROVE IsXfer([xfer EXCEPT !.state = how])
  BY <1>1 DEF IsXfer
<1>3. IsXfer([xfer EXCEPT !.cancel = TRUE])
  BY <1>1 DEF IsXfer
<1>4. ASSUME NEW b \in Slots, Resubmitted(b) PROVE IsXfer(xfer')
  <2>1. \A s \in XferStates : IsXfer([state |-> s, buffer |-> b, cancel |-> FALSE])
    BY DEF IsXfer
  <2>2. "flight" \in XferStates /\ "failed" \in XferStates
    BY DEF XferStates
  <2>. QED  BY <1>4, <2>1, <2>2 DEF Resubmitted
<1>5. Freed => IsXfer(xfer')
  BY Size DEF Freed, NoXfer, IsXfer, XferStates
<1>6. ASSUME NEW how \in XferStates, Ends(how) PROVE IsXfer(xfer')
  BY <1>2, <1>6 DEF Ends
<1>7. IsXfer(Cancelled)
  BY <1>1, <1>3 DEF Cancelled
<1>. QED  BY <1>4, <1>5, <1>6, <1>7

(* Everything but the ring and the transfer, as a step leaves it.            *)
Rest == /\ stop' \in BOOLEAN /\ do_exit' \in BOOLEAN /\ thread' \in BOOLEAN /\ lossy' \in BOOLEAN
        /\ last' \in Numbers /\ sent' \in Numbers /\ selected' \in Slots

LEMMA TypedStep == ASSUME Typed, [StreamNext]_streamVars PROVE Typed'
<1>. USE DEF Typed
<1>1. IsRing(fifo) /\ IsXfer(xfer) /\ fifo.read_ptr \in Slots /\ xfer.buffer \in Slots
  BY DEF IsRing, IsXfer
<1>2. \A b \in Slots : fifo.packets[b] \in Numbers
  BY <1>1 DEF IsRing
<1>3. ASSUME IsRing(fifo'), IsXfer(xfer'), Rest PROVE Typed'
  BY <1>3 DEF IsRing, IsXfer, Rest
<1>. USE <1>1, XferStep DEF Rest
<1>4. CASE Completed
  <2>1. sent + 1 \in Numbers
    BY <1>4, Size DEF Completed, Numbers
  <2>2. IsRing([fifo EXCEPT !.packets[xfer.buffer] = sent + 1])
    BY <2>1 DEF IsRing
  <2>3. IsXfer(xfer')
    BY <1>4 DEF Completed, XferStates
  <2>. QED  BY <1>4, <2>1, <2>2, <2>3, <1>3 DEF Completed
<1>5. CASE NotCompleted
  BY <1>5, <1>3 DEF NotCompleted, XferStates
<1>6. CASE cb_xfer
  <2>1. IsRing(fifo_inc_write_ptr(fifo))
    BY RingWrite
  <2>2. IsRing(fifo')
    BY <1>6, <2>1 DEF cb_xfer
  <2>3. fifo'.write_ptr \in Slots
    BY <2>2 DEF IsRing
  <2>4. IsXfer([xfer EXCEPT !.state = "stopped"])
    BY DEF IsXfer, XferStates
  <2>5. IsXfer(xfer')
    BY <1>6, <2>3, <2>4 DEF cb_xfer, AfterTimeout, fifo_get_write_element
  <2>6. FifoFull(fifo') \in BOOLEAN
    BY DEF FifoFull
  <2>7. Rest
    BY <1>6, <2>6 DEF cb_xfer
  <2>. QED  BY <2>2, <2>5, <2>7, <1>3
<1>7. CASE fifo_pop
  <2>1. IsRing(Read(fifo))
    BY NextValue DEF IsRing, Read, Slots, Numbers
  <2>. QED  BY <1>7, <2>1, <1>3 DEF fifo_pop, Read
<1>8. CASE Copy
  BY <1>8, <1>2, <1>3 DEF Copy
<1>9. CASE ubertooth_bulk_init
  <2>1. IsXfer(xfer')
    <3>1. fifo.write_ptr \in Slots
      BY DEF IsRing
    <3>2. IsXfer([state |-> "flight", buffer |-> fifo.write_ptr, cancel |-> FALSE])
      BY <3>1 DEF IsXfer, XferStates
    <3>3. IsXfer([NoXfer EXCEPT !.state = "failed"])
      BY Size DEF NoXfer, IsXfer, XferStates
    <3>. QED  BY <1>9, <3>2, <3>3 DEF ubertooth_bulk_init, fifo_get_write_element
  <2>. QED  BY <1>9, <2>1, <1>3 DEF ubertooth_bulk_init
<1>10. CASE ubertooth_bulk_receive \/ ubertooth_stop
  BY <1>10, <1>3 DEF ubertooth_bulk_receive, ubertooth_stop
<1>11. CASE \/ ubertooth_bulk_thread_start \/ AskForPackets \/ ubertooth_bulk_wait
            \/ ubertooth_bulk_thread_stop \/ poll_thread_main \/ Signal \/ UNCHANGED streamVars
  BY <1>11, <1>3 DEF ubertooth_bulk_thread_start, AskForPackets, ubertooth_bulk_wait,
     ubertooth_bulk_thread_stop, poll_thread_main, Signal, streamVars
<1>. QED  BY <1>4, <1>5, <1>6, <1>7, <1>8, <1>9, <1>10, <1>11 DEF StreamNext, Main

-----------------------------------------------------------------------------
(* The transfer writes where the ring ends: only cb_xfer moves the end, and  *)
(* it hands the new one to the transfer it submits.                          *)

LEMMA AtEndStep == ASSUME Typed, AtEnd, [StreamNext]_streamVars PROVE AtEnd'
<1>. USE DEF AtEnd
<1>1. IsRing(fifo) /\ IsXfer(xfer)
  BY DEF Typed, IsRing, IsXfer
<1>2. ASSUME NEW how, Ends(how) PROVE xfer'.buffer = xfer.buffer /\ xfer.state = "flight"
  BY <1>1, <1>2 DEF Ends, IsXfer
<1>3. Cancelled.state = xfer.state /\ Cancelled.buffer = xfer.buffer
  BY <1>1 DEF Cancelled, IsXfer
<1>4. CASE Completed
  <2>1. fifo'.write_ptr = fifo.write_ptr
    BY <1>1, <1>4 DEF Completed, IsRing
  <2>. QED  BY <1>2, <1>4, <2>1 DEF Completed
<1>5. CASE NotCompleted
  BY <1>2, <1>5 DEF NotCompleted
<1>6. CASE cb_xfer
  <2>1. Freed => xfer'.state = "none"
    BY DEF Freed, NoXfer
  <2>2. ASSUME NEW b, Resubmitted(b) PROVE xfer'.buffer = b
    BY <2>2 DEF Resubmitted
  <2>3. xfer' = [xfer EXCEPT !.state = "stopped"] => xfer'.buffer = xfer.buffer
    BY <1>1 DEF IsXfer
  <2>. QED  BY <1>6, <2>1, <2>2, <2>3 DEF cb_xfer, AfterTimeout, fifo_get_write_element
<1>7. CASE fifo_pop
  <2>1. fifo'.write_ptr = fifo.write_ptr
    BY <1>1, <1>7 DEF fifo_pop, IsRing
  <2>. QED  BY <1>7, <2>1 DEF fifo_pop, MainAt
<1>8. CASE ubertooth_bulk_init
  <2>1. main' # "init" /\ fifo' = fifo
    BY <1>8 DEF ubertooth_bulk_init
  <2>2. xfer'.state \in {"none", "failed"} \/ xfer'.buffer = fifo.write_ptr
    BY <1>8 DEF ubertooth_bulk_init, fifo_get_write_element, NoXfer
  <2>. QED  BY <2>1, <2>2
<1>9. CASE ubertooth_bulk_receive \/ ubertooth_stop
  BY <1>3, <1>9 DEF ubertooth_bulk_receive, ubertooth_stop, MainAt
<1>10. CASE \/ ubertooth_bulk_thread_start \/ AskForPackets \/ ubertooth_bulk_wait \/ Copy
            \/ ubertooth_bulk_thread_stop \/ poll_thread_main \/ Signal \/ UNCHANGED streamVars
  BY <1>10 DEF ubertooth_bulk_thread_start, AskForPackets, ubertooth_bulk_wait, Copy,
     ubertooth_bulk_thread_stop, poll_thread_main, Signal, streamVars, MainAt
<1>. QED  BY <1>4, <1>5, <1>6, <1>7, <1>8, <1>9, <1>10 DEF StreamNext, Main

-----------------------------------------------------------------------------
(* The order of packets.                                                     *)

(* Steps that leave the ring, the counts and a transfer that has data alone. *)
Aside ==
  /\ UNCHANGED <<fifo, last, sent, selected>> /\ Outside' = Outside
  /\ xfer'.state = "completed" => xfer.state = "completed"
  /\ main' = main \/ {main, main'} \cap {"copy", "pop"} = {}

LEMMA AsideInOrder == ASSUME InOrder, Aside PROVE InOrder'
<1>1. Taken' = Taken
  BY DEF Aside, Taken
<1>. QED  BY <1>1 DEF Aside, InOrder

(* A packet is written behind the ring's last.                               *)
LEMMA WriteInOrder == ASSUME Typed, AtEnd, InOrder, Completed PROVE InOrder'
<1>. DEFINE g == [fifo EXCEPT !.packets[xfer.buffer] = sent + 1]
<1>1. IsRing(fifo) /\ IsXfer(xfer) /\ xfer.buffer = fifo.write_ptr /\ xfer.state = "flight"
  BY DEF Typed, AtEnd, IsRing, IsXfer, Completed, Ends
<1>2. /\ g.read_ptr = fifo.read_ptr /\ g.write_ptr = fifo.write_ptr
      /\ g.packets = [fifo.packets EXCEPT ![fifo.write_ptr] = sent + 1]
  BY <1>1 DEF IsRing
<1>3. fifo' = g /\ sent' = sent + 1 /\ UNCHANGED <<main, selected, last>> /\ xfer'.state = "completed"
  BY <1>1 DEF Completed, Ends, IsXfer
<1>. HIDE DEF g
<1>4. Used(fifo') = Used(fifo) /\ Taken' = Taken /\ Outside = 0 /\ Outside' = 1
  BY <1>1, <1>2, <1>3 DEF Used, Taken, Outside
<1>5. \A k \in Slots : k < Used(fifo) => /\ Place(fifo', k) = Place(fifo, k)
                                         /\ g.packets[Place(fifo, k)] = fifo.packets[Place(fifo, k)]
  BY <1>1, <1>2, <1>3, RingFacts DEF Place, IsRing
<1>6. g.packets[fifo.write_ptr] = sent + 1
  BY <1>1, <1>2 DEF IsRing
<1>7. main = "copy" => g.packets[selected] = fifo.packets[selected]
  <2>1. ASSUME main = "copy" PROVE selected # fifo.write_ptr
    <3>1. Next1(selected) = fifo.read_ptr /\ selected \in Slots /\ Used(fifo) < FIFO_SIZE - 1
      BY <2>1 DEF InOrder, Typed
    <3>2. Next1(fifo.write_ptr) # fifo.read_ptr
      BY <1>1, <3>1, RingFacts, Size DEF FifoFull
    <3>. QED  BY <3>1, <3>2
  <2>. QED  BY <1>1, <1>2, <2>1 DEF IsRing, Typed
<1>8. \A k \in Slots : k < Used(fifo') => fifo'.packets[Place(fifo', k)] = Taken' + k + 1
  BY <1>3, <1>4, <1>5 DEF InOrder
<1>9. main' = "copy" => Next1(selected') = fifo'.read_ptr /\ fifo'.packets[selected'] = Taken'
  BY <1>2, <1>3, <1>4, <1>7 DEF InOrder
<1>10. sent' = Taken' + Used(fifo') + Outside'
  <2>1. Taken \in Int /\ Used(fifo) \in Int /\ sent \in Int
    BY <1>1, RingFacts, Size DEF Typed, Taken, Numbers, Slots
  <2>. QED  BY <1>3, <1>4, <2>1 DEF InOrder
<1>. QED  BY <1>2, <1>3, <1>4, <1>6, <1>8, <1>9, <1>10 DEF InOrder

(* cb_xfer puts it in.                                                       *)
LEMMA PutInOrder ==
  ASSUME Typed, AtEnd, ~lossy, InOrder, cb_xfer, ~lossy'
  PROVE  InOrder'
<1>1. IsRing(fifo) /\ IsXfer(xfer) /\ UNCHANGED <<main, selected, last, sent>>
  BY DEF Typed, IsRing, IsXfer, cb_xfer
<1>2. Freed => xfer'.state = "none"
  BY DEF Freed, NoXfer
<1>3. ASSUME NEW b, Resubmitted(b) PROVE xfer'.state \in {"flight", "failed"}
  BY <1>3 DEF Resubmitted
<1>4. CASE xfer.state \in {"timed_out", "cancelled", "error"}
  BY <1>1, <1>2, <1>3, <1>4, AsideInOrder DEF cb_xfer, AfterTimeout, Aside, Outside
<1>5. CASE xfer.state = "completed" /\ stop
  <2>1. xfer'.state = "stopped"
    BY <1>1, <1>5 DEF cb_xfer, IsXfer
  <2>. QED  BY <1>1, <1>5, <2>1, AsideInOrder DEF cb_xfer, Aside, Outside
<1>6. CASE xfer.state = "completed" /\ ~stop
  <2>. DEFINE u == Used(fifo)
              e == fifo.write_ptr
  <2>1. fifo' = fifo_inc_write_ptr(fifo) /\ xfer'.state \in {"flight", "failed"} /\ ~FifoFull(fifo')
    BY <1>3, <1>6 DEF cb_xfer
  <2>2. u \in Slots /\ u < FIFO_SIZE - 1 /\ ~FifoFull(fifo)
    BY <1>1, RingFacts, Size DEF InOrder, Slots
  <2>3. /\ fifo'.packets = fifo.packets /\ fifo'.read_ptr = fifo.read_ptr /\ Used(fifo') = u + 1
        /\ \A k \in Slots : Place(fifo', k) = Place(fifo, k)
    BY <1>1, <2>1, <2>2, RingWrite
  <2>4. Taken' = Taken /\ Outside = 1 /\ Outside' = 0
    BY <1>1, <1>6, <2>1 DEF Taken, Outside
  <2>5. Taken \in Int /\ sent \in Int /\ sent = Taken + u + 1
    BY <2>4, Size DEF InOrder, Typed, Taken, Numbers
  <2>6. fifo.packets[Place(fifo, u)] = Taken + u + 1
    BY <1>1, <1>6, <2>5, RingFacts DEF InOrder
  <2>7. \A k \in Slots : k < u + 1 => k < u \/ k = u
    BY <2>2 DEF Slots
  <2>8. \A k \in Slots : k < Used(fifo') => fifo'.packets[Place(fifo', k)] = Taken' + k + 1
    BY <2>3, <2>4, <2>6, <2>7 DEF InOrder
  <2>9. Used(fifo') < FIFO_SIZE - 1
    <3>1. IsRing(fifo')
      BY <1>1, <2>1, RingWrite
    <3>. QED  BY <2>1, <3>1, RingFacts, Size DEF Slots
  <2>10. sent' = Taken' + Used(fifo') + Outside'
    BY <1>1, <2>2, <2>3, <2>4, <2>5 DEF Slots
  <2>11. main' = "copy" => Next1(selected') = fifo'.read_ptr /\ fifo'.packets[selected'] = Taken'
    BY <1>1, <2>3, <2>4 DEF InOrder
  <2>12. main' = "pop" => Used(fifo') > 0
    BY <2>2, <2>3 DEF Slots
  <2>. QED  BY <2>1, <2>8, <2>9, <2>10, <2>11, <2>12 DEF InOrder
<1>. QED  BY <1>1, <1>4, <1>5, <1>6 DEF cb_xfer, IsXfer, XferStates

(* The main thread takes the oldest, and copies it.                          *)
LEMMA TakeInOrder == ASSUME Typed, InOrder, fifo_pop PROVE InOrder'
<1>1. /\ IsRing(fifo) /\ main = "pop" /\ main' = "copy" /\ selected' = fifo.read_ptr
      /\ fifo' = Read(fifo) /\ UNCHANGED <<xfer, last, sent>>
  BY DEF Typed, IsRing, fifo_pop, MainAt, Read
<1>2. Used(fifo) > 0 /\ Used(fifo) \in Slots
  BY <1>1, RingFacts DEF InOrder
<1>3. /\ Used(fifo') = Used(fifo) - 1 /\ fifo'.packets = fifo.packets /\ fifo'.write_ptr = fifo.write_ptr
      /\ fifo'.read_ptr = Next1(fifo.read_ptr)
      /\ \A k \in Slots : k < Used(fifo') =>
           k + 1 \in Slots /\ k + 1 < Used(fifo) /\ Place(fifo', k) = Place(fifo, k + 1)
  BY <1>1, <1>2, RingRead
<1>4. Taken = last /\ Taken' = last + 1 /\ Outside' = Outside /\ last \in Int
  BY <1>1, Size DEF Taken, Outside, Typed, Numbers
<1>5. fifo.packets[fifo.read_ptr] = last + 1
  BY <1>1, <1>2, <1>4, RingFacts, Size DEF InOrder
<1>6. \A k \in Slots : k < Used(fifo') => fifo'.packets[Place(fifo', k)] = Taken' + k + 1
  BY <1>3, <1>4, Size DEF InOrder, Slots
<1>7. sent' = Taken' + Used(fifo') + Outside'
  BY <1>1, <1>2, <1>3, <1>4 DEF InOrder, Slots, Outside
<1>8. Used(fifo') < FIFO_SIZE - 1
  BY <1>2, <1>3, Size DEF InOrder, Slots
<1>. QED  BY <1>1, <1>3, <1>4, <1>5, <1>6, <1>7, <1>8 DEF InOrder

LEMMA CopyInOrder == ASSUME Typed, InOrder, Copy PROVE InOrder' /\ last' = last + 1
<1>1. /\ main = "copy" /\ main' = "called" /\ last' = fifo.packets[selected]
      /\ UNCHANGED <<fifo, xfer, sent>>
  BY DEF Copy, MainAt
<1>2. last' = last + 1 /\ Taken' = Taken /\ Outside' = Outside
  BY <1>1 DEF InOrder, Taken, Outside
<1>. QED  BY <1>1, <1>2 DEF InOrder

(* What the main thread decides on: it pops only what is there.              *)
LEMMA WaitInOrder == ASSUME Typed, InOrder, ubertooth_bulk_wait PROVE InOrder'
<1>1. /\ main = "loop" /\ main' \in {"leave", "pop"} /\ (main' = "pop" => ~fifo_empty)
      /\ UNCHANGED <<fifo, xfer, last, sent, selected>>
  BY DEF ubertooth_bulk_wait
<1>2. main' = "pop" => Used(fifo) > 0
  BY <1>1, RingFacts DEF Typed, IsRing, fifo_empty, Slots
<1>3. Taken' = Taken /\ Outside' = Outside
  BY <1>1 DEF Taken, Outside
<1>. QED  BY <1>1, <1>2, <1>3 DEF InOrder

LEMMA InOrderStep ==
  ASSUME Typed, AtEnd, ~lossy => InOrder, [StreamNext]_streamVars
  PROVE  ~lossy' => InOrder'
<1>. SUFFICES ASSUME ~lossy' PROVE InOrder'
  OBVIOUS
<1>1. ~lossy /\ InOrder
  <2>1. cb_xfer /\ lossy => lossy'
    BY DEF cb_xfer
  <2>2. lossy' = lossy \/ cb_xfer
    BY DEF StreamNext, Main, Completed, NotCompleted, poll_thread_main, Signal, ubertooth_bulk_init,
       ubertooth_bulk_thread_start, AskForPackets, ubertooth_bulk_wait, fifo_pop, Copy, ubertooth_bulk_receive,
       ubertooth_bulk_thread_stop, ubertooth_stop, streamVars
  <2>. QED  BY <2>1, <2>2
<1>2. IsXfer(xfer)
  BY DEF Typed, IsXfer
<1>3. CASE NotCompleted
  <2>1. xfer.state = "flight" /\ xfer'.state \in {"timed_out", "cancelled", "error"}
    BY <1>2, <1>3 DEF NotCompleted, Ends, IsXfer
  <2>. QED  BY <1>1, <1>3, <2>1, AsideInOrder DEF NotCompleted, Aside, Outside
<1>4. CASE ubertooth_bulk_init
  <2>1. xfer.state = "none" /\ xfer'.state \in {"flight", "failed"}
    BY <1>4 DEF AtEnd, ubertooth_bulk_init, NoXfer
  <2>. QED  BY <1>1, <1>4, <2>1, AsideInOrder DEF ubertooth_bulk_init, Aside, Outside
<1>5. CASE ubertooth_bulk_receive \/ ubertooth_stop
  <2>1. xfer'.state = xfer.state
    BY <1>2, <1>5 DEF ubertooth_bulk_receive, ubertooth_stop, Cancelled, IsXfer
  <2>. QED  BY <1>1, <1>5, <2>1, AsideInOrder DEF ubertooth_bulk_receive, ubertooth_stop, MainAt, Aside, Outside
<1>6. CASE ubertooth_bulk_thread_start \/ AskForPackets \/ ubertooth_bulk_thread_stop
  BY <1>1, <1>6, AsideInOrder DEF ubertooth_bulk_thread_start, AskForPackets, ubertooth_bulk_thread_stop, MainAt,
     Aside, Outside
<1>7. CASE poll_thread_main \/ Signal \/ UNCHANGED streamVars
  BY <1>1, <1>7, AsideInOrder DEF poll_thread_main, Signal, streamVars, Aside, Outside
<1>. QED  BY <1>1, <1>3, <1>4, <1>5, <1>6, <1>7, WriteInOrder, PutInOrder, TakeInOrder, CopyInOrder, WaitInOrder
          DEF StreamNext, Main

LEMMA HostInvStep == HostInv /\ [StreamNext]_streamVars => HostInv'
  BY TypedStep, AtEndStep, InOrderStep DEF HostInv

-----------------------------------------------------------------------------
(* The ring, the transfer and the numbers of packets stay what they are.     *)
THEOREM StreamTypes == StreamSpec => []StreamTypeOK
<1>1. HostInv => StreamTypeOK
  BY DEF HostInv, Typed, StreamTypeOK, Slots, Numbers, XferStates
<1>. QED  BY HostInit, HostInvStep, <1>1, PTL DEF StreamSpec

(* The tool's function gets every packet once, in order and whole, until the *)
(* ring was full, although the event thread writes, the main thread reads    *)
(* and nothing locks (libubertooth, cb_xfer, fifo_pop, ubertooth_fifo.c).    *)
THEOREM NoPacketMissed == StreamSpec => EveryPacket
<1>1. HostInv /\ [StreamNext]_streamVars => [main = "copy" /\ main' # "copy" /\ ~lossy => last' = last + 1]_streamVars
  <2>. SUFFICES ASSUME HostInv, [StreamNext]_streamVars, main = "copy", main' # "copy", ~lossy PROVE last' = last + 1
    OBVIOUS
  <2>1. Copy
    BY DEF StreamNext, Main, Completed, NotCompleted, cb_xfer, poll_thread_main, Signal, ubertooth_bulk_init,
       ubertooth_bulk_thread_start, AskForPackets, ubertooth_bulk_wait, fifo_pop, MainAt, ubertooth_bulk_receive,
       ubertooth_bulk_thread_stop, ubertooth_stop, streamVars
  <2>. QED  BY <2>1, CopyInOrder DEF HostInv
<1>. QED  BY HostInit, HostInvStep, <1>1, PTL DEF StreamSpec, EveryPacket
=============================================================================
