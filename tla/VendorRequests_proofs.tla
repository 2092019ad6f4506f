------------------------ MODULE VendorRequests_proofs ------------------------
(* What the vendor request handler keeps, whatever the request: lemmas for    *)
(* the proofs about the main loop, the control transfers and the tools.       *)
EXTENDS VendorRequests, SequenceTheorems, TLAPS

-----------------------------------------------------------------------------
(* What a request may do to the shared variables.                           *)

Fields == DOMAIN InitialDevice(<< >>)
Device(e) == DOMAIN e = Fields /\ DeviceTypes(e)

\* Most requests leave mode and queue alone, never take a discard back and
\* ask for no LE mode.
Calm(e, f) == /\ Device(f) /\ f.build = e.build /\ f.mode = e.mode /\ f.q = e.q /\ (e.discard => f.discard)
              /\ IsLe(f.requested_mode) => IsLe(e.requested_mode)

\* The rest empty the queue, to enter an LE mode, or take a packet out of it.
Heeds(r, e, f) ==
  /\ Device(f) /\ f.build = e.build /\ f.mode = e.mode /\ (e.discard => f.discard)
  /\ f.q \in {e.q, << >>} \/ (e.q # << >> /\ f.q = Tail(e.q))
  /\ LeOp(r) => f.q = << >>
  /\ IsLe(f.requested_mode) => LeOp(r) \/ IsLe(e.requested_mode)

LEMMA FieldsAre ==
  Fields = {"mode", "requested_mode", "hop_mode", "do_hop", "discard", "channel", "requested_channel",
            "le_adv_channel", "target", "target_set", "do_follow", "cancel_follow", "afh_map",
            "afh_enabled", "dfu", "gone", "build", "q", "set"}
  BY DEF Fields, InitialDevice

LEMMA Results == ASSUME NEW r, NEW e, NEW l, NEW v
                 PROVE Answers(e, l, v).d = e /\ Accepts(r, e).d = e /\ Refuses(r, e).d = e
  BY DEF Answers, Accepts, Refuses

LEMMA Bytes == ASSUME NEW x \in Words PROVE x % 256 \in Words /\ x \in Int /\ Truth(x) \in Words
<1>1. WordMax \in Nat /\ 255 <= WordMax
  BY DEF WordMax
<1>2. x \in Nat /\ x % 256 \in 0..255
  BY <1>1 DEF Words
<1> QED BY <1>1, <1>2 DEF Words, Truth

LEMMA Frequencies == /\ {2402, 2441, 2480} \subseteq MinFreq..MaxFreq /\ MinFreq..MaxFreq \subseteq Int
                     /\ \A x \in Int : Clamp(x) \in MinFreq..MaxFreq
<1>1. MinFreq \in Int /\ MaxFreq \in Int /\ MinFreq <= 2402 /\ 2480 <= MaxFreq
  BY DEF MinFreq, MaxFreq
<1> QED BY <1>1 DEF Clamp

\* The shared variables at start.
LEMMA InitiallyIdle ==
  ASSUME NEW queue, NEW e, e = InitialDevice(queue)
  PROVE  Device(e) /\ e.mode = "IDLE" /\ e.requested_mode = "IDLE"
<1>1. e.set \in [Settings -> Words]
  <2>1. 0 \in Words
    BY DEF Words, WordMax
  <2>2. e.set = [x \in Settings |-> 0]
    BY DEF InitialDevice
  <2> QED BY <2>1, <2>2
<1>2. /\ e.mode = "IDLE" /\ e.requested_mode = "IDLE" /\ e.hop_mode = "NONE" /\ e.channel = 2441
      /\ e.requested_channel = 0 /\ DOMAIN e = Fields
  BY FieldsAre DEF InitialDevice
<1>3. e.channel \in MinFreq..MaxFreq /\ e.requested_channel \in {0} \cup MinFreq..MaxFreq
  BY <1>2, Frequencies
<1>4. e.mode \in ModeNames /\ e.hop_mode \in HopModes
  BY <1>2 DEF ModeNames, HopModes
<1> QED BY <1>1, <1>2, <1>3, <1>4 DEF Device, DeviceTypes

LEMMA RequestsCalm ==
  ASSUME NEW e, Device(e), NEW m \in ModeNames, ~ IsLe(m), NEW f, f = Requests(e, m)
  PROVE  Calm(e, f)
  BY FieldsAre DEF Device, DeviceTypes, Requests, Calm

LEMMA PutCalm ==
  ASSUME NEW e, Device(e), NEW name \in Settings, NEW x \in Words, NEW f, f = Put(e, name, x)
  PROVE  Calm(e, f)
<1>1. f.set = [e.set EXCEPT ![name] = x] /\ DOMAIN f = Fields
  BY FieldsAre DEF Device, DeviceTypes, Put
<1>2. f.set \in [Settings -> Words]
  BY <1>1 DEF Device, DeviceTypes
<1>3. /\ f.q = e.q /\ f.build = e.build /\ f.mode = e.mode /\ f.requested_mode = e.requested_mode /\ f.hop_mode = e.hop_mode
      /\ f.channel = e.channel /\ f.requested_channel = e.requested_channel /\ f.discard = e.discard
  BY FieldsAre DEF Device, Put
<1> QED BY <1>1, <1>2, <1>3 DEF Device, DeviceTypes, Calm

LEMMA SetChannelCalm ==
  ASSUME NEW e, Device(e), NEW r, r.v \in Int, NEW f, f = SetChannel(r, e)
  PROVE  Calm(e, f)
<1> DEFINE req == IF r.v > MaxFreq THEN 2402 ELSE Clamp(r.v)
           hop == IF r.v > MaxFreq THEN "SWEEP" ELSE "NONE"
<1>1. req \in MinFreq..MaxFreq
  BY Frequencies
<1>2. hop \in HopModes
  BY DEF HopModes
<1>3. f = IF e.mode = "BT_FOLLOW_LE"
          THEN [e EXCEPT !.hop_mode = hop, !.le_adv_channel = req, !.requested_channel = req]
          ELSE [e EXCEPT !.hop_mode = hop, !.le_adv_channel = req, !.channel = req, !.requested_channel = 0]
  BY DEF SetChannel
<1> HIDE DEF req, hop
<1> QED BY <1>1, <1>2, <1>3, FieldsAre DEF Device, DeviceTypes, Calm

LEMMA BasicCalm ==
  ASSUME NEW r, NEW e, r.op \in BasicOps, Device(e), r.v \in Words, NEW x, x = BasicRequests(r, e)
  PROVE  Calm(e, x.d)
<1>1. DOMAIN PinRead = {"GET_USRLED", "GET_RXLED", "GET_TXLED", "GET_1V8", "GET_PAEN", "GET_HGM"}
  BY DEF PinRead
<1>2. DOMAIN PinWrite = {"SET_USRLED", "SET_RXLED", "SET_TXLED", "SET_1V8", "SET_PAEN", "SET_HGM"}
  BY DEF PinWrite
<1>3. \/ \E l, v : x = Answers(e, l, v)
      \/ x = Answers(Requests(e, "RX_SYMBOLS"), 0, 0)
      \/ x = Answers([Requests(e, "TX_SYMBOLS") EXCEPT !.hop_mode = "BLUETOOTH"], 0, 0)
      \/ r.op \in DOMAIN PinWrite /\ x = Accepts(r, Put(e, PinWrite[r.op], Truth(r.v)))
      \/ x = Accepts(r, Requests(e, "RESET"))
  BY <1>1, <1>2, ZenonT(60) DEF BasicRequests, BasicOps
<1>4. CASE x.d = e
  BY <1>4 DEF Calm
<1>5. CASE x.d \in {Requests(e, "RX_SYMBOLS"), Requests(e, "RESET")}
  BY <1>5, RequestsCalm DEF ModeNames, IsLe
<1>6. CASE x.d = [Requests(e, "TX_SYMBOLS") EXCEPT !.hop_mode = "BLUETOOTH"]
  BY <1>6, FieldsAre DEF Requests, Calm, Device, DeviceTypes, HopModes, ModeNames, IsLe
<1>7. CASE r.op \in DOMAIN PinWrite /\ x.d = Put(e, PinWrite[r.op], Truth(r.v))
  <2>1. PinWrite[r.op] \in Settings
    BY <1>7 DEF PinWrite, Settings
  <2> QED BY <1>7, <2>1, PutCalm, Bytes
<1> QED BY <1>3, <1>4, <1>5, <1>6, <1>7, Results

LEMMA RadioCalm ==
  ASSUME NEW r, NEW e, r.op \in RadioOps, Device(e), r.v \in Words, NEW x, x = RadioRequests(r, e)
  PROVE  Calm(e, x.d)
<1>1. \/ \E l, v : x = Answers(e, l, v)
      \/ x = Refuses(r, e)
      \/ \E m \in {"TX_TEST", "RANGE_TEST", "REPEATER", "IDLE"} : x = Accepts(r, Requests(e, m))
      \/ x = Accepts(r, Put(e, "PALEVEL", r.v))
      \/ x = Accepts(r, Put(e, "MOD", r.v % 256))
      \/ x = Accepts(r, SetChannel(r, e))
  BY ZenonT(60) DEF RadioRequests, RadioOps
<1>2. CASE x.d = e
  BY <1>2 DEF Calm
<1>3. CASE \E m \in {"TX_TEST", "RANGE_TEST", "REPEATER", "IDLE"} : x.d = Requests(e, m)
  BY <1>3, RequestsCalm DEF ModeNames, IsLe
<1>4. CASE x.d = Put(e, "PALEVEL", r.v) \/ x.d = Put(e, "MOD", r.v % 256)
  BY <1>4, PutCalm, Bytes DEF Settings
<1>5. CASE x.d = SetChannel(r, e)
  <2>1. r.v \in Int
    BY Bytes
  <2> QED BY <1>5, <2>1, SetChannelCalm
<1>6. \/ x.d = e
      \/ \E m \in {"TX_TEST", "RANGE_TEST", "REPEATER", "IDLE"} : x.d = Requests(e, m)
      \/ x.d = Put(e, "PALEVEL", r.v) \/ x.d = Put(e, "MOD", r.v % 256)
      \/ x.d = SetChannel(r, e)
  <2>1. CASE (\E l, v : x = Answers(e, l, v)) \/ x = Refuses(r, e)
    BY <2>1, Results
  <2>2. CASE \E m \in {"TX_TEST", "RANGE_TEST", "REPEATER", "IDLE"} : x = Accepts(r, Requests(e, m))
    BY <2>2, Results
  <2>3. CASE x = Accepts(r, Put(e, "PALEVEL", r.v)) \/ x = Accepts(r, Put(e, "MOD", r.v % 256)) \/ x = Accepts(r, SetChannel(r, e))
    BY <2>3, Results
  <2> QED BY <1>1, <2>1, <2>2, <2>3, Zenon
<1> QED BY <1>2, <1>3, <1>4, <1>5, <1>6

LEMMA BuildCalm ==
  ASSUME NEW r, NEW e, r.op \in BuildOps, Device(e), r.v \in Words, NEW x, x = BuildRequests(r, e)
  PROVE  Calm(e, x.d)
<1> DEFINE isp == [e EXCEPT !.gone = TRUE]
           flash == [Requests(e, "RESET") EXCEPT !.dfu = TRUE]
<1>1. \/ \E l, v : x = Answers(e, l, v)
      \/ x = Refuses(r, e)
      \/ x = Answers(isp, 0, 0)
      \/ x = Accepts(r, flash)
      \/ \E m \in {"SPECAN", "RX_GENERIC", "LED_SPECAN"} : x = Answers(Requests(e, m), 0, 0)
      \/ x = Accepts(r, Put(e, "SQUELCH", r.v % 256))
  BY ZenonT(60) DEF BuildRequests, BuildOps
<1>2. CASE x.d = e
  BY <1>2 DEF Calm
<1>3. CASE \E m \in {"SPECAN", "RX_GENERIC", "LED_SPECAN"} : x.d = Requests(e, m)
  BY <1>3, RequestsCalm DEF ModeNames, IsLe
<1>4. CASE x.d = Put(e, "SQUELCH", r.v % 256)
  BY <1>4, PutCalm, Bytes DEF Settings
<1>5. CASE x.d = isp
  BY <1>5, FieldsAre DEF Calm, Device, DeviceTypes
<1>6. CASE x.d = flash
  <2> DEFINE f == Requests(e, "RESET")
  <2>1. Calm(e, f)
    BY RequestsCalm DEF ModeNames, IsLe
  <2> HIDE DEF f
  <2>2. x.d = [f EXCEPT !.dfu = TRUE]
    BY <1>6 DEF f
  <2> QED BY <2>1, <2>2, FieldsAre DEF Calm, Device, DeviceTypes
<1> HIDE DEF isp, flash
<1>7. \/ x.d \in {e, isp, flash} \/ x.d = Put(e, "SQUELCH", r.v % 256)
      \/ \E m \in {"SPECAN", "RX_GENERIC", "LED_SPECAN"} : x.d = Requests(e, m)
  BY <1>1 DEF Answers, Accepts, Refuses
<1> QED BY <1>2, <1>3, <1>4, <1>5, <1>6, <1>7

LEMMA FollowCalm ==
  ASSUME NEW r, NEW e, r.op \in FollowOps, Device(e), NEW x, x = FollowRequests(r, e)
  PROVE  Calm(e, x.d)
<1> DEFINE bdaddr == [e EXCEPT !.target = r.data]
           hopping == [Requests(e, "BT_FOLLOW") EXCEPT !.hop_mode = "BLUETOOTH", !.discard = TRUE]
           afh == [Requests(e, "AFH") EXCEPT !.hop_mode = "AFH", !.afh_map = 0, !.afh_enabled = TRUE]
           hop == [e EXCEPT !.do_hop = TRUE]
           afhmap(m, b) == [e EXCEPT !.afh_map = m, !.afh_enabled = b]
<1>1. \/ \E l, v : x = Answers(e, l, v)
      \/ x = Accepts(r, e)
      \/ x = Accepts(r, bdaddr)
      \/ x = Accepts(r, hopping)
      \/ x = Accepts(r, afh)
      \/ x = Accepts(r, hop)
      \/ \E m, b : x = Answers(afhmap(m, b), 10, 0)
  BY ZenonT(60) DEF FollowRequests, FollowOps
<1>2. CASE x.d = e
  BY <1>2 DEF Calm
<1>3. CASE x.d \in {bdaddr, hop}
  BY <1>3, FieldsAre DEF Calm, Device, DeviceTypes
<1>4. CASE \E m, b : x.d = afhmap(m, b)
  BY <1>4, FieldsAre DEF Calm, Device, DeviceTypes
<1>5. CASE x.d = hopping
  BY <1>5, FieldsAre DEF Requests, Calm, Device, DeviceTypes, HopModes, ModeNames, IsLe
<1>6. CASE x.d = afh
  BY <1>6, FieldsAre DEF Requests, Calm, Device, DeviceTypes, HopModes, ModeNames, IsLe
<1> HIDE DEF bdaddr, hopping, afh, hop, afhmap
<1> QED BY <1>1, <1>2, <1>3, <1>4, <1>5, <1>6, Results

LEMMA TransmitCalm ==
  ASSUME NEW r, NEW e, r.op \in TransmitOps, Device(e), r.v \in Words, NEW x, x = TransmitRequests(r, e)
  PROVE  Calm(e, x.d)
<1> DEFINE target(b) == [e EXCEPT !.target_set = b]
           cancel == [e EXCEPT !.cancel_follow = TRUE]
           jam == Put(e, "JAM_MODE", r.v % 256)
<1>1. \/ x = Accepts(r, e) \/ x = Refuses(r, e)
      \/ x = Answers(Requests(e, "TX_GENERIC"), 0, 0)
      \/ \E m \in {"BT_SLAVE_LE", "XMAS"} : x = Accepts(r, Requests(e, m))
      \/ \E b : x = Accepts(r, target(b))
      \/ x = Accepts(r, cancel)
      \/ x = Accepts(r, jam)
      \/ x = Accepts(r, Requests(Put(e, "EGO_MODE", r.v % 256), "EGO"))
  BY ZenonT(60) DEF TransmitRequests, TransmitOps
<1>2. CASE x.d = e
  BY <1>2 DEF Calm
<1>3. CASE \E m \in {"TX_GENERIC", "BT_SLAVE_LE", "XMAS"} : x.d = Requests(e, m)
  BY <1>3, RequestsCalm DEF ModeNames, IsLe
<1>4. CASE \E b : x.d = target(b)
  BY <1>4, FieldsAre DEF Calm, Device, DeviceTypes
<1>5. CASE x.d = cancel
  BY <1>5, FieldsAre DEF Calm, Device, DeviceTypes
<1>6. CASE x.d = jam
  BY <1>6, PutCalm, Bytes DEF Settings
<1>7. CASE x.d = Requests(Put(e, "EGO_MODE", r.v % 256), "EGO")
  <2>1. PICK g : g = Put(e, "EGO_MODE", r.v % 256)
    OBVIOUS
  <2>2. Calm(e, g)
    BY <2>1, PutCalm, Bytes DEF Settings
  <2>3. Calm(g, x.d)
    BY <1>7, <2>1, <2>2, RequestsCalm DEF ModeNames, IsLe, Calm
  <2> QED BY <2>2, <2>3 DEF Calm
<1> HIDE DEF target, cancel, jam
<1> QED BY <1>1, <1>2, <1>3, <1>4, <1>5, <1>6, <1>7, Results

LEMMA LeHeeds ==
  ASSUME NEW r, NEW e, r.op \in LeOps, Device(e), {r.v, r.data} \subseteq Words, NEW x, x = LeRequests(r, e)
  PROVE  Heeds(r, e, x.d)
<1> DEFINE sniffing(b) == [Requests(e, "BT_FOLLOW_LE") EXCEPT !.do_follow = b, !.do_hop = FALSE, !.hop_mode = "BTLE", !.q = << >>]
           address == [Put(e, "ACCESS_ADDRESS", r.data) EXCEPT !.target_set = TRUE]
           poll == [e EXCEPT !.q = Tail(@)]
           promisc == [Requests(e, "BT_PROMISC_LE") EXCEPT !.hop_mode = "NONE", !.q = << >>]
<1>1. \/ ~ LeOp(r) /\ \E l, v : x = Answers(e, l, v)
      \/ ~ LeOp(r) /\ x = Accepts(r, e)
      \/ LeOp(r) /\ \E b : x = Answers(sniffing(b), 0, 0)
      \/ ~ LeOp(r) /\ x = Accepts(r, address)
      \/ ~ LeOp(r) /\ x = Accepts(r, Put(e, "CRC_VERIFY", Truth(r.v)))
      \/ ~ LeOp(r) /\ e.q # << >> /\ \E v : x = Answers(poll, PacketSize, v)
      \/ LeOp(r) /\ x = Answers(promisc, 0, 0)
  BY ZenonT(60) DEF LeRequests, LeOps, LeOp
<1>2. CASE ~ LeOp(r) /\ x.d = e
  BY <1>2 DEF Heeds
<1>3. CASE LeOp(r) /\ \E b : x.d = sniffing(b)
  BY <1>3, FieldsAre DEF Requests, Heeds, Device, DeviceTypes, HopModes, ModeNames
<1>4. CASE ~ LeOp(r) /\ x.d = address
  <2>1. PICK g : g = Put(e, "ACCESS_ADDRESS", r.data)
    OBVIOUS
  <2>2. Calm(e, g)
    BY <2>1, PutCalm DEF Settings
  <2>3. Calm(g, x.d)
    BY <1>4, <2>1, <2>2, FieldsAre DEF Calm, Device, DeviceTypes
  <2> QED BY <1>4, <2>2, <2>3 DEF Calm, Heeds
<1>5. CASE ~ LeOp(r) /\ x.d = Put(e, "CRC_VERIFY", Truth(r.v))
  <2>1. Calm(e, x.d)
    BY <1>5, PutCalm, Bytes DEF Settings
  <2> QED BY <1>5, <2>1 DEF Calm, Heeds
<1>6. CASE ~ LeOp(r) /\ e.q # << >> /\ x.d = poll
  BY <1>6, FieldsAre DEF Heeds, Device, DeviceTypes
<1>7. CASE LeOp(r) /\ x.d = promisc
  BY <1>7, FieldsAre DEF Requests, Heeds, Device, DeviceTypes, HopModes, ModeNames
<1> HIDE DEF sniffing, address, poll, promisc
<1>8. \/ ~ LeOp(r) /\ (x.d = e \/ x.d = address \/ x.d = Put(e, "CRC_VERIFY", Truth(r.v)))
      \/ ~ LeOp(r) /\ e.q # << >> /\ x.d = poll
      \/ LeOp(r) /\ ((\E b : x.d = sniffing(b)) \/ x.d = promisc)
  <2>1. CASE LeOp(r)
    BY <1>1, <2>1, Results
  <2>2. CASE ~ LeOp(r) /\ e.q # << >> /\ \E v : x = Answers(poll, PacketSize, v)
    BY <2>2, Results
  <2>3. CASE ~ LeOp(r) /\ ~ (e.q # << >> /\ \E v : x = Answers(poll, PacketSize, v))
    <3>1. \/ (\E l, v : x = Answers(e, l, v)) \/ x = Accepts(r, e) \/ x = Accepts(r, address)
          \/ x = Accepts(r, Put(e, "CRC_VERIFY", Truth(r.v)))
      BY <1>1, <2>3, Zenon
    <3> QED BY <2>3, <3>1, Results
  <2> QED BY <1>1, <2>1, <2>2, <2>3
<1> QED BY <1>2, <1>3, <1>4, <1>5, <1>6, <1>7, <1>8

LEMMA CalmHeeds == ASSUME NEW r, NEW e, NEW f, Calm(e, f), ~ LeOp(r) PROVE Heeds(r, e, f)
  BY DEF Calm, Heeds

LEMMA Pins == /\ DOMAIN PinRead = {"GET_USRLED", "GET_RXLED", "GET_TXLED", "GET_1V8", "GET_PAEN", "GET_HGM"}
              /\ DOMAIN PinWrite = {"SET_USRLED", "SET_RXLED", "SET_TXLED", "SET_1V8", "SET_PAEN", "SET_HGM"}
  BY DEF PinRead, PinWrite

(* The handler's switch, group by group.                                      *)
LEMMA HandlerGroups ==
  ASSUME NEW r, NEW e, NEW x, x = vendor_request_handler(r, e)
  PROVE  \/ r.op \notin BasicOps \cup RadioOps \cup BuildOps \cup FollowOps \cup LeOps \cup TransmitOps /\ x = Refuses(r, e)
         \/ r.op \in BasicOps /\ x = BasicRequests(r, e)
         \/ r.op \in RadioOps /\ x = RadioRequests(r, e)
         \/ r.op \in BuildOps /\ x = BuildRequests(r, e)
         \/ r.op \in FollowOps /\ x = FollowRequests(r, e)
         \/ r.op \in LeOps /\ x = LeRequests(r, e)
         \/ r.op \in TransmitOps /\ x = TransmitRequests(r, e)
<1>1. CASE r.op \in BasicOps
  <2>1. /\ r.op \notin RadioOps /\ r.op \notin BuildOps /\ r.op \notin FollowOps /\ r.op \notin LeOps /\ r.op \notin TransmitOps
    BY <1>1, Pins DEF BasicOps, RadioOps, BuildOps, FollowOps, LeOps, TransmitOps
  <2> QED BY <1>1, <2>1, Zenon DEF vendor_request_handler
<1>2. CASE r.op \in RadioOps
  <2>1. /\ r.op \notin BasicOps /\ r.op \notin BuildOps /\ r.op \notin FollowOps /\ r.op \notin LeOps /\ r.op \notin TransmitOps
    BY <1>2, Pins DEF BasicOps, RadioOps, BuildOps, FollowOps, LeOps, TransmitOps
  <2> QED BY <1>2, <2>1, Zenon DEF vendor_request_handler
<1>3. CASE r.op \in BuildOps
  <2>1. /\ r.op \notin BasicOps /\ r.op \notin RadioOps /\ r.op \notin FollowOps /\ r.op \notin LeOps /\ r.op \notin TransmitOps
    BY <1>3, Pins DEF BasicOps, RadioOps, BuildOps, FollowOps, LeOps, TransmitOps
  <2> QED BY <1>3, <2>1, Zenon DEF vendor_request_handler
<1>4. CASE r.op \in FollowOps
  <2>1. /\ r.op \notin BasicOps /\ r.op \notin RadioOps /\ r.op \notin BuildOps /\ r.op \notin LeOps /\ r.op \notin TransmitOps
    BY <1>4, Pins DEF BasicOps, RadioOps, BuildOps, FollowOps, LeOps, TransmitOps
  <2> QED BY <1>4, <2>1, Zenon DEF vendor_request_handler
<1>5. CASE r.op \in LeOps
  <2>1. /\ r.op \notin BasicOps /\ r.op \notin RadioOps /\ r.op \notin BuildOps /\ r.op \notin FollowOps /\ r.op \notin TransmitOps
    BY <1>5, Pins DEF BasicOps, RadioOps, BuildOps, FollowOps, LeOps, TransmitOps
  <2> QED BY <1>5, <2>1, Zenon DEF vendor_request_handler
<1>6. CASE r.op \in TransmitOps
  <2>1. /\ r.op \notin BasicOps /\ r.op \notin RadioOps /\ r.op \notin BuildOps /\ r.op \notin FollowOps /\ r.op \notin LeOps
    BY <1>6, Pins DEF BasicOps, RadioOps, BuildOps, FollowOps, LeOps, TransmitOps
  <2> QED BY <1>6, <2>1, Zenon DEF vendor_request_handler
<1>7. CASE r.op \notin BasicOps \cup RadioOps \cup BuildOps \cup FollowOps \cup LeOps \cup TransmitOps
  BY <1>7, Zenon DEF vendor_request_handler
<1> QED BY <1>1, <1>2, <1>3, <1>4, <1>5, <1>6, <1>7

LEMMA HandlerHeeds ==
  ASSUME NEW r, NEW e, Device(e), {r.v, r.data} \subseteq Words, NEW x, x = vendor_request_handler(r, e)
  PROVE  Heeds(r, e, x.d)
<1>1. r.op \notin LeOps => Calm(e, x.d)
  <2>1. CASE x = Refuses(r, e)
    BY <2>1, Results DEF Calm
  <2> QED BY HandlerGroups, <2>1, BasicCalm, RadioCalm, BuildCalm, FollowCalm, TransmitCalm
<1>2. r.op \notin LeOps => ~ LeOp(r)
  BY DEF LeOp, LeOps
<1>3. r.op \in LeOps => x = LeRequests(r, e)
  BY Pins, HandlerGroups DEF BasicOps, RadioOps, BuildOps, FollowOps, LeOps, TransmitOps
<1> QED BY <1>1, <1>2, <1>3, LeHeeds, CalmHeeds

-----------------------------------------------------------------------------
(* The answers.  Some requests are always accepted and answered with at      *)
(* least so many bytes.                                                     *)

Lengths == {<<"GET_USRLED", 1>>, <<"GET_RXLED", 1>>, <<"GET_TXLED", 1>>, <<"GET_MOD", 1>>, <<"GET_CHANNEL", 2>>,
            <<"GET_PARTNUM", 5>>, <<"GET_SERIAL", 17>>, <<"GET_PALEVEL", 1>>, <<"RANGE_CHECK", 5>>,
            <<"GET_REV_NUM", 3>>, <<"GET_COMPILE_INFO", 1>>, <<"GET_BOARD_ID", 1>>, <<"GET_SQUELCH", 1>>,
            <<"GET_CLOCK", 4>>, <<"GET_ACCESS_ADDRESS", 4>>, <<"GET_CRC_VERIFY", 1>>, <<"READ_REGISTER", 2>>}
Sound(x) == x.ok \in BOOLEAN /\ x.len \in Nat

LEMMA Waysout ==
  ASSUME NEW r, r.n \in Nat
  PROVE  \A e, v : /\ Sound(Accepts(r, e)) /\ Sound(Refuses(r, e))
                   /\ \A l \in Nat : Sound(Answers(e, l, v))
  BY DEF Sound, Accepts, Refuses, Answers

LEMMA BasicAnswers ==
  ASSUME NEW r, NEW e, r.op \in BasicOps, r.n \in Nat, NEW x, x = BasicRequests(r, e)
  PROVE  Sound(x)
<1>1. \/ \E f, v : \E l \in {0, 1, 5, 17} : x = Answers(f, l, v)
      \/ \E f : x = Accepts(r, f)
  BY Pins, ZenonT(60) DEF BasicRequests, BasicOps
<1> QED BY <1>1, Waysout

LEMMA RadioAnswers ==
  ASSUME NEW r, NEW e, r.op \in RadioOps, r.n \in Nat, NEW x, x = RadioRequests(r, e)
  PROVE  Sound(x)
<1>1. \/ \E f, v : \E l \in {0, 1, 2, 5} : x = Answers(f, l, v)
      \/ x = Refuses(r, e) \/ \E f : x = Accepts(r, f)
  BY ZenonT(60) DEF RadioRequests, RadioOps
<1> QED BY <1>1, Waysout

LEMMA BuildAnswers ==
  ASSUME NEW r, NEW e, r.op \in BuildOps, r.n \in Nat, e.build \in Nat, NEW x, x = BuildRequests(r, e)
  PROVE  Sound(x)
<1>1. \/ \E f, v : \E l \in {0, 1, 3 + e.build, 1 + e.build} : x = Answers(f, l, v)
      \/ x = Refuses(r, e) \/ \E f : x = Accepts(r, f)
  BY ZenonT(60) DEF BuildRequests, BuildOps
<1> QED BY <1>1, Waysout

LEMMA FollowAnswers ==
  ASSUME NEW r, NEW e, r.op \in FollowOps, r.n \in Nat, NEW x, x = FollowRequests(r, e)
  PROVE  Sound(x)
<1>1. \/ \E f, v : \E l \in {0, 4, 10} : x = Answers(f, l, v)
      \/ \E f : x = Accepts(r, f)
  BY ZenonT(60) DEF FollowRequests, FollowOps
<1> QED BY <1>1, Waysout

LEMMA LeAnswers ==
  ASSUME NEW r, NEW e, r.op \in LeOps, r.n \in Nat, NEW x, x = LeRequests(r, e)
  PROVE  Sound(x)
<1>1. \/ \E f, v : \E l \in {0, 1, 2, 4, PacketSize, 45 * 3} : x = Answers(f, l, v)
      \/ \E f : x = Accepts(r, f)
  BY ZenonT(60) DEF LeRequests, LeOps
<1>2. PacketSize \in Nat
  BY DEF PacketSize
<1> QED BY <1>1, <1>2, Waysout

LEMMA TransmitAnswers ==
  ASSUME NEW r, NEW e, r.op \in TransmitOps, r.n \in Nat, NEW x, x = TransmitRequests(r, e)
  PROVE  Sound(x)
<1>1. \/ \E f : x = Answers(f, 0, 0)
      \/ x = Refuses(r, e) \/ \E f : x = Accepts(r, f)
  BY ZenonT(60) DEF TransmitRequests, TransmitOps
<1> QED BY <1>1, Waysout

LEMMA HandlerAnswers ==
  ASSUME NEW r, NEW e, r.n \in Nat, e.build \in Nat, NEW x, x = vendor_request_handler(r, e)
  PROVE  Sound(x)
<1>1. CASE x = Refuses(r, e)
  BY <1>1, Waysout
<1> QED BY <1>1, HandlerGroups, BasicAnswers, RadioAnswers, BuildAnswers, FollowAnswers, LeAnswers, TransmitAnswers

LEMMA HandlerLengths ==
  ASSUME NEW r, NEW e, e.build \in Nat, NEW k, <<r.op, k>> \in Lengths, NEW x, x = vendor_request_handler(r, e)
  PROVE  x.ok /\ x.len \in Nat /\ k \in Nat /\ x.len >= k
<1> DEFINE Gives(l) == \E v : x = Answers(e, l, v)
<1>1. \A l \in Nat : Gives(l) /\ k \in Nat /\ l >= k => x.ok /\ x.len \in Nat /\ x.len >= k
  BY DEF Answers
<1> HIDE DEF Gives
<1>2. k \in Nat
  BY DEF Lengths
<1>3. CASE r.op \in {"GET_USRLED", "GET_RXLED", "GET_TXLED", "GET_PARTNUM", "GET_SERIAL"}
  <2>1. x = BasicRequests(r, e)
    BY <1>3, Pins, HandlerGroups DEF BasicOps, RadioOps, BuildOps, FollowOps, LeOps, TransmitOps
  <2>2. /\ r.op \in {"GET_USRLED", "GET_RXLED", "GET_TXLED"} => Gives(1)
        /\ r.op = "GET_PARTNUM" => Gives(5)
        /\ r.op = "GET_SERIAL" => Gives(17)
    BY <1>3, <2>1, Pins, ZenonT(60) DEF BasicRequests, Gives
  <2> QED BY <1>1, <1>2, <1>3, <2>2 DEF Lengths
<1>4. CASE r.op \in {"GET_MOD", "GET_CHANNEL", "GET_PALEVEL", "RANGE_CHECK"}
  <2>1. x = RadioRequests(r, e)
    BY <1>4, Pins, HandlerGroups DEF BasicOps, RadioOps, BuildOps, FollowOps, LeOps, TransmitOps
  <2>2. /\ r.op \in {"GET_MOD", "GET_PALEVEL"} => Gives(1)
        /\ r.op = "GET_CHANNEL" => Gives(2)
        /\ r.op = "RANGE_CHECK" => Gives(5)
    BY <1>4, <2>1, ZenonT(60) DEF RadioRequests, Gives
  <2> QED BY <1>1, <1>2, <1>4, <2>2 DEF Lengths
<1>5. CASE r.op \in {"GET_REV_NUM", "GET_COMPILE_INFO", "GET_BOARD_ID", "GET_SQUELCH"}
  <2>1. x = BuildRequests(r, e)
    BY <1>5, Pins, HandlerGroups DEF BasicOps, RadioOps, BuildOps, FollowOps, LeOps, TransmitOps
  <2>2. /\ r.op = "GET_REV_NUM" => Gives(3 + e.build)
        /\ r.op = "GET_COMPILE_INFO" => Gives(1 + e.build)
        /\ r.op \in {"GET_BOARD_ID", "GET_SQUELCH"} => Gives(1)
    BY <1>5, <2>1, ZenonT(60) DEF BuildRequests, Gives
  <2>3. 3 + e.build \in Nat /\ 1 + e.build \in Nat /\ 3 + e.build >= 3 /\ 1 + e.build >= 1
    OBVIOUS
  <2> QED BY <1>1, <1>2, <1>5, <2>2, <2>3 DEF Lengths
<1>6. CASE r.op = "GET_CLOCK"
  <2>1. x = FollowRequests(r, e)
    BY <1>6, Pins, HandlerGroups DEF BasicOps, RadioOps, BuildOps, FollowOps, LeOps, TransmitOps
  <2>2. Gives(4)
    BY <1>6, <2>1, ZenonT(60) DEF FollowRequests, Gives
  <2> QED BY <1>1, <1>2, <1>6, <2>2 DEF Lengths
<1>7. CASE r.op \in {"GET_ACCESS_ADDRESS", "GET_CRC_VERIFY", "READ_REGISTER"}
  <2>1. x = LeRequests(r, e)
    BY <1>7, Pins, HandlerGroups DEF BasicOps, RadioOps, BuildOps, FollowOps, LeOps, TransmitOps
  <2>2. /\ r.op = "GET_ACCESS_ADDRESS" => Gives(4)
        /\ r.op = "GET_CRC_VERIFY" => Gives(1)
        /\ r.op = "READ_REGISTER" => Gives(2)
    BY <1>7, <2>1, ZenonT(60) DEF LeRequests, Gives
  <2> QED BY <1>1, <1>2, <1>7, <2>2 DEF Lengths
<1> QED BY <1>3, <1>4, <1>5, <1>6, <1>7 DEF Lengths

-----------------------------------------------------------------------------
(* What a request leaves alone.  A few write the settings a tool makes, or   *)
(* ask for a mode in which the device forgets them; these are taken one by   *)
(* one.  All others leave the settings as they are and ask for other modes.  *)

Setters == {"SET_CHANNEL", "SET_MOD", "JAM_MODE", "SET_BDADDR"}
ModeSetters == {"AFH", "START_HOPPING", "BTLE_SNIFFING", "BTLE_PROMISC", "TX_SYMBOLS", "EGO"}
Resters == {"STOP", "RESET", "FLASH", "RANGE_TEST"}
Special == Setters \cup ModeSetters \cup Resters
Kept(e, f) == /\ f.channel = e.channel /\ f.hop_mode = e.hop_mode /\ f.target = e.target
              /\ \A s \in {"MOD", "JAM_MODE", "EGO_MODE"} : f.set[s] = e.set[s]
Forgetful == {"IDLE", "RESET", "RANGE_TEST", "BT_PROMISC_LE"}
Steady(e, f) == Kept(e, f) /\ (f.requested_mode \in Forgetful => f.requested_mode = e.requested_mode)

LEMMA SteadySame == ASSUME NEW e PROVE Steady(e, e)
  BY DEF Steady, Kept

LEMMA SteadyRequests ==
  ASSUME NEW e, Device(e), NEW m, m \notin Forgetful PROVE Steady(e, Requests(e, m))
  BY FieldsAre DEF Device, Requests, Steady, Kept

LEMMA SteadyPut ==
  ASSUME NEW e, Device(e), NEW name \in Settings, name \notin {"MOD", "JAM_MODE", "EGO_MODE"}, NEW x
  PROVE  Steady(e, Put(e, name, x))
<1> PICK f : f = Put(e, name, x)
  OBVIOUS
<1>1. f.set = [e.set EXCEPT ![name] = x] /\ DOMAIN e.set = Settings
  BY FieldsAre DEF Device, DeviceTypes, Put
<1>2. \A s \in {"MOD", "JAM_MODE", "EGO_MODE"} : f.set[s] = e.set[s]
  BY <1>1 DEF Settings
<1>3. f.channel = e.channel /\ f.hop_mode = e.hop_mode /\ f.target = e.target /\ f.requested_mode = e.requested_mode
  BY FieldsAre DEF Device, Put
<1> QED BY <1>2, <1>3 DEF Steady, Kept

\* The groups of the switch, without the special requests.
LEMMA BasicSteady ==
  ASSUME NEW r, NEW e, r.op \in BasicOps, r.op \notin Special, Device(e), NEW x, x = BasicRequests(r, e)
  PROVE  Steady(e, x.d)
<1>1. \/ \E l, v : x = Answers(e, l, v)
      \/ x = Answers(Requests(e, "RX_SYMBOLS"), 0, 0)
      \/ r.op \in DOMAIN PinWrite /\ x = Accepts(r, Put(e, PinWrite[r.op], Truth(r.v)))
  <2>1. r.op \notin {"TX_SYMBOLS", "RESET"}
    BY DEF Special, ModeSetters, Resters
  <2> QED BY <2>1, Pins, ZenonT(60) DEF BasicRequests, BasicOps
<1>2. CASE x.d = e
  BY <1>2, SteadySame
<1>3. CASE x.d = Requests(e, "RX_SYMBOLS")
  BY <1>3, SteadyRequests DEF Forgetful
<1>4. CASE r.op \in DOMAIN PinWrite /\ x.d = Put(e, PinWrite[r.op], Truth(r.v))
  <2>1. PinWrite[r.op] \in Settings /\ PinWrite[r.op] \notin {"MOD", "JAM_MODE", "EGO_MODE"}
    BY <1>4 DEF PinWrite, Settings
  <2> QED BY <1>4, <2>1, SteadyPut
<1>5. x.d \in {e, Requests(e, "RX_SYMBOLS")} \/ (r.op \in DOMAIN PinWrite /\ x.d = Put(e, PinWrite[r.op], Truth(r.v)))
  BY <1>1, Results
<1> QED BY <1>2, <1>3, <1>4, <1>5

LEMMA RadioSteady ==
  ASSUME NEW r, NEW e, r.op \in RadioOps, r.op \notin Special, Device(e), NEW x, x = RadioRequests(r, e)
  PROVE  Steady(e, x.d)
<1>1. \/ \E l, v : x = Answers(e, l, v)
      \/ x = Refuses(r, e)
      \/ \E m \in {"TX_TEST", "REPEATER"} : x = Accepts(r, Requests(e, m))
      \/ x = Accepts(r, Put(e, "PALEVEL", r.v))
  <2>1. r.op \notin {"RANGE_TEST", "STOP", "SET_MOD", "SET_CHANNEL"}
    BY DEF Special, Setters, Resters
  <2> QED BY <2>1, ZenonT(60) DEF RadioRequests, RadioOps
<1>2. CASE x.d = e
  BY <1>2, SteadySame
<1>3. CASE \E m \in {"TX_TEST", "REPEATER"} : x.d = Requests(e, m)
  BY <1>3, SteadyRequests DEF Forgetful
<1>4. CASE x.d = Put(e, "PALEVEL", r.v)
  BY <1>4, SteadyPut DEF Settings
<1>5. x.d = e \/ (\E m \in {"TX_TEST", "REPEATER"} : x.d = Requests(e, m)) \/ x.d = Put(e, "PALEVEL", r.v)
  BY <1>1, Results
<1> QED BY <1>2, <1>3, <1>4, <1>5

LEMMA BuildSteady ==
  ASSUME NEW r, NEW e, r.op \in BuildOps, r.op \notin Special, Device(e), NEW x, x = BuildRequests(r, e)
  PROVE  Steady(e, x.d)
<1> DEFINE isp == [e EXCEPT !.gone = TRUE]
<1>1. \/ \E l, v : x = Answers(e, l, v)
      \/ x = Refuses(r, e)
      \/ x = Answers(isp, 0, 0)
      \/ \E m \in {"SPECAN", "RX_GENERIC", "LED_SPECAN"} : x = Answers(Requests(e, m), 0, 0)
      \/ x = Accepts(r, Put(e, "SQUELCH", r.v % 256))
  <2>1. r.op # "FLASH"
    BY DEF Special, Resters
  <2> QED BY <2>1, ZenonT(60) DEF BuildRequests, BuildOps
<1>2. CASE x.d = e
  BY <1>2, SteadySame
<1>3. CASE \E m \in {"SPECAN", "RX_GENERIC", "LED_SPECAN"} : x.d = Requests(e, m)
  BY <1>3, SteadyRequests DEF Forgetful
<1>4. CASE x.d = Put(e, "SQUELCH", r.v % 256)
  BY <1>4, SteadyPut DEF Settings
<1>5. CASE x.d = isp
  BY <1>5, FieldsAre DEF Device, Steady, Kept
<1> HIDE DEF isp
<1>6. \/ x.d = e \/ (\E m \in {"SPECAN", "RX_GENERIC", "LED_SPECAN"} : x.d = Requests(e, m))
      \/ x.d = Put(e, "SQUELCH", r.v % 256) \/ x.d = isp
  BY <1>1, Results
<1> QED BY <1>2, <1>3, <1>4, <1>5, <1>6

LEMMA FollowSteady ==
  ASSUME NEW r, NEW e, r.op \in FollowOps, r.op \notin Special, Device(e), NEW x, x = FollowRequests(r, e)
  PROVE  Steady(e, x.d)
<1> DEFINE hop == [e EXCEPT !.do_hop = TRUE]
           afhmap(m, b) == [e EXCEPT !.afh_map = m, !.afh_enabled = b]
<1>1. \/ \E l, v : x = Answers(e, l, v)
      \/ x = Accepts(r, e)
      \/ x = Accepts(r, hop)
      \/ \E m, b : x = Answers(afhmap(m, b), 10, 0)
  <2>1. r.op \notin {"SET_BDADDR", "START_HOPPING", "AFH"}
    BY DEF Special, Setters, ModeSetters
  <2> QED BY <2>1, ZenonT(60) DEF FollowRequests, FollowOps
<1>2. CASE x.d = e
  BY <1>2, SteadySame
<1>3. CASE x.d = hop
  BY <1>3, FieldsAre DEF Device, Steady, Kept
<1>4. CASE \E m, b : x.d = afhmap(m, b)
  BY <1>4, FieldsAre DEF Device, Steady, Kept
<1> HIDE DEF hop, afhmap
<1>5. x.d = e \/ x.d = hop \/ \E m, b : x.d = afhmap(m, b)
  BY <1>1, Results
<1> QED BY <1>2, <1>3, <1>4, <1>5

LEMMA LeSteady ==
  ASSUME NEW r, NEW e, r.op \in LeOps, r.op \notin Special, Device(e), NEW x, x = LeRequests(r, e)
  PROVE  Steady(e, x.d)
<1> DEFINE address == [Put(e, "ACCESS_ADDRESS", r.data) EXCEPT !.target_set = TRUE]
           poll == [e EXCEPT !.q = Tail(@)]
<1>1. \/ \E l, v : x = Answers(e, l, v)
      \/ x = Accepts(r, e)
      \/ x = Accepts(r, address)
      \/ x = Accepts(r, Put(e, "CRC_VERIFY", Truth(r.v)))
      \/ \E v : x = Answers(poll, PacketSize, v)
  <2>1. r.op \notin {"BTLE_SNIFFING", "BTLE_PROMISC"}
    BY DEF Special, ModeSetters
  <2> QED BY <2>1, ZenonT(60) DEF LeRequests, LeOps
<1>2. CASE x.d = e
  BY <1>2, SteadySame
<1>3. CASE x.d = Put(e, "CRC_VERIFY", Truth(r.v))
  BY <1>3, SteadyPut DEF Settings
<1>4. CASE x.d = address
  <2>1. PICK g : g = Put(e, "ACCESS_ADDRESS", r.data)
    OBVIOUS
  <2>2. Steady(e, g) /\ DOMAIN g = DOMAIN e
    BY <2>1, SteadyPut DEF Settings, Put
  <2>3. x.d = [g EXCEPT !.target_set = TRUE]
    BY <1>4, <2>1
  <2> QED BY <2>2, <2>3, FieldsAre DEF Device, Steady, Kept
<1>5. CASE x.d = poll
  BY <1>5, FieldsAre DEF Device, Steady, Kept
<1> HIDE DEF address, poll
<1>6. x.d = e \/ x.d = address \/ x.d = Put(e, "CRC_VERIFY", Truth(r.v)) \/ x.d = poll
  BY <1>1, Results
<1> QED BY <1>2, <1>3, <1>4, <1>5, <1>6

LEMMA TransmitSteady ==
  ASSUME NEW r, NEW e, r.op \in TransmitOps, r.op \notin Special, Device(e), NEW x, x = TransmitRequests(r, e)
  PROVE  Steady(e, x.d)
<1> DEFINE target(b) == [e EXCEPT !.target_set = b]
           cancel == [e EXCEPT !.cancel_follow = TRUE]
<1>1. \/ x = Accepts(r, e) \/ x = Refuses(r, e)
      \/ x = Answers(Requests(e, "TX_GENERIC"), 0, 0)
      \/ \E m \in {"BT_SLAVE_LE", "XMAS"} : x = Accepts(r, Requests(e, m))
      \/ \E b : x = Accepts(r, target(b))
      \/ x = Accepts(r, cancel)
  <2>1. r.op \notin {"JAM_MODE", "EGO"}
    BY DEF Special, Setters, ModeSetters
  <2> QED BY <2>1, ZenonT(60) DEF TransmitRequests, TransmitOps
<1>2. CASE x.d = e
  BY <1>2, SteadySame
<1>3. CASE \E m \in {"TX_GENERIC", "BT_SLAVE_LE", "XMAS"} : x.d = Requests(e, m)
  BY <1>3, SteadyRequests DEF Forgetful
<1>4. CASE \E b : x.d = target(b)
  BY <1>4, FieldsAre DEF Device, Steady, Kept
<1>5. CASE x.d = cancel
  BY <1>5, FieldsAre DEF Device, Steady, Kept
<1> HIDE DEF target, cancel
<1>6. \/ x.d = e \/ (\E m \in {"TX_GENERIC", "BT_SLAVE_LE", "XMAS"} : x.d = Requests(e, m))
      \/ (\E b : x.d = target(b)) \/ x.d = cancel
  <2>1. CASE x = Accepts(r, e) \/ x = Refuses(r, e) \/ x = Answers(Requests(e, "TX_GENERIC"), 0, 0)
    BY <2>1, Results
  <2>2. CASE \E m \in {"BT_SLAVE_LE", "XMAS"} : x = Accepts(r, Requests(e, m))
    BY <2>2, Results
  <2>3. CASE (\E b : x = Accepts(r, target(b))) \/ x = Accepts(r, cancel)
    BY <2>3, Results
  <2> QED BY <1>1, <2>1, <2>2, <2>3, Zenon
<1> QED BY <1>2, <1>3, <1>4, <1>5, <1>6

LEMMA HandlerSteady ==
  ASSUME NEW r, NEW e, Device(e), r.op \notin Special, NEW x, x = vendor_request_handler(r, e)
  PROVE  Steady(e, x.d)
<1>1. CASE x = Refuses(r, e)
  BY <1>1, Results, SteadySame
<1> QED BY <1>1, HandlerGroups, BasicSteady, RadioSteady, BuildSteady, FollowSteady, LeSteady, TransmitSteady

\* The special ones.
SetBy(r, e, f) == /\ r.op = "SET_CHANNEL" => f = SetChannel(r, e)
                  /\ r.op = "SET_MOD" => f = Put(e, "MOD", r.v % 256)
                  /\ r.op = "JAM_MODE" => f = Put(e, "JAM_MODE", r.v % 256)
                  /\ r.op = "SET_BDADDR" => f = [e EXCEPT !.target = r.data]
LEMMA SettersDo ==
  ASSUME NEW r, NEW e, r.op \in Setters, NEW x, x = vendor_request_handler(r, e)
  PROVE  SetBy(r, e, x.d)
<1>1. ASSUME r.op = "SET_CHANNEL" PROVE x = RadioRequests(r, e) /\ RadioRequests(r, e) = Accepts(r, SetChannel(r, e))
  <2>1. RadioRequests(r, e) = Accepts(r, SetChannel(r, e))
    BY <1>1, Zenon DEF RadioRequests
  <2> QED BY <1>1, <2>1, Pins, HandlerGroups DEF BasicOps, RadioOps, BuildOps, FollowOps, LeOps, TransmitOps
<1>2. ASSUME r.op = "SET_MOD" PROVE x = RadioRequests(r, e) /\ RadioRequests(r, e) = Accepts(r, Put(e, "MOD", r.v % 256))
  <2>1. RadioRequests(r, e) = Accepts(r, Put(e, "MOD", r.v % 256))
    BY <1>2, Zenon DEF RadioRequests
  <2> QED BY <1>2, <2>1, Pins, HandlerGroups DEF BasicOps, RadioOps, BuildOps, FollowOps, LeOps, TransmitOps
<1>3. ASSUME r.op = "JAM_MODE" PROVE x = TransmitRequests(r, e) /\ TransmitRequests(r, e) = Accepts(r, Put(e, "JAM_MODE", r.v % 256))
  <2>1. TransmitRequests(r, e) = Accepts(r, Put(e, "JAM_MODE", r.v % 256))
    BY <1>3, Zenon DEF TransmitRequests
  <2> QED BY <1>3, <2>1, Pins, HandlerGroups DEF BasicOps, RadioOps, BuildOps, FollowOps, LeOps, TransmitOps
<1>4. ASSUME r.op = "SET_BDADDR" PROVE x = FollowRequests(r, e) /\ FollowRequests(r, e) = Accepts(r, [e EXCEPT !.target = r.data])
  <2>1. FollowRequests(r, e) = Accepts(r, [e EXCEPT !.target = r.data])
    BY <1>4, Zenon DEF FollowRequests
  <2> QED BY <1>4, <2>1, Pins, HandlerGroups DEF BasicOps, RadioOps, BuildOps, FollowOps, LeOps, TransmitOps
<1> QED BY <1>1, <1>2, <1>3, <1>4, Results DEF SetBy

LEMMA RestersDo ==
  ASSUME NEW r, NEW e, r.op \in Resters, NEW x, x = vendor_request_handler(r, e)
  PROVE  /\ r.op = "STOP" => x.d = Requests(e, "IDLE")
         /\ r.op = "RESET" => x.d = Requests(e, "RESET")
         /\ r.op = "FLASH" => x.d = [Requests(e, "RESET") EXCEPT !.dfu = TRUE]
         /\ r.op = "RANGE_TEST" => x.d = Requests(e, "RANGE_TEST")
<1>1. ASSUME r.op = "STOP" PROVE x = RadioRequests(r, e) /\ RadioRequests(r, e) = Accepts(r, Requests(e, "IDLE"))
  <2>1. RadioRequests(r, e) = Accepts(r, Requests(e, "IDLE"))
    BY <1>1, Zenon DEF RadioRequests
  <2> QED BY <1>1, <2>1, Pins, HandlerGroups DEF BasicOps, RadioOps, BuildOps, FollowOps, LeOps, TransmitOps
<1>2. ASSUME r.op = "RESET" PROVE x = BasicRequests(r, e) /\ BasicRequests(r, e) = Accepts(r, Requests(e, "RESET"))
  <2>1. BasicRequests(r, e) = Accepts(r, Requests(e, "RESET"))
    BY <1>2, Pins, Zenon DEF BasicRequests
  <2> QED BY <1>2, <2>1, Pins, HandlerGroups DEF BasicOps, RadioOps, BuildOps, FollowOps, LeOps, TransmitOps
<1>3. ASSUME r.op = "FLASH"
      PROVE  x = BuildRequests(r, e) /\ BuildRequests(r, e) = Accepts(r, [Requests(e, "RESET") EXCEPT !.dfu = TRUE])
  <2>1. BuildRequests(r, e) = Accepts(r, [Requests(e, "RESET") EXCEPT !.dfu = TRUE])
    BY <1>3, Zenon DEF BuildRequests
  <2> QED BY <1>3, <2>1, Pins, HandlerGroups DEF BasicOps, RadioOps, BuildOps, FollowOps, LeOps, TransmitOps
<1>4. ASSUME r.op = "RANGE_TEST" PROVE x = RadioRequests(r, e) /\ RadioRequests(r, e) = Accepts(r, Requests(e, "RANGE_TEST"))
  <2>1. RadioRequests(r, e) = Accepts(r, Requests(e, "RANGE_TEST"))
    BY <1>4, Zenon DEF RadioRequests
  <2> QED BY <1>4, <2>1, Pins, HandlerGroups DEF BasicOps, RadioOps, BuildOps, FollowOps, LeOps, TransmitOps
<1> QED BY <1>1, <1>2, <1>3, <1>4, Results

\* What starting a mode with a setting of its own does.
Begins(r, e, f) == /\ f.channel = e.channel /\ f.target = e.target
                   /\ \A s \in {"MOD", "JAM_MODE"} : f.set[s] = e.set[s]
                   /\ IF r.op = "EGO" THEN f.hop_mode = e.hop_mode ELSE f.set["EGO_MODE"] = e.set["EGO_MODE"]
                   /\ f.requested_mode \notin {"IDLE", "RESET", "RANGE_TEST"}
                   /\ f.requested_mode = "BT_PROMISC_LE" => r.op = "BTLE_PROMISC"

LEMMA ModeSettersDo ==
  ASSUME NEW r, NEW e, Device(e), r.op \in ModeSetters, NEW x, x = vendor_request_handler(r, e)
  PROVE  Begins(r, e, x.d)
<1>1. CASE r.op = "AFH"
  <2>1. FollowRequests(r, e) = Accepts(r, [Requests(e, "AFH") EXCEPT !.hop_mode = "AFH", !.afh_map = 0, !.afh_enabled = TRUE])
    BY <1>1, Zenon DEF FollowRequests
  <2>2. x = FollowRequests(r, e)
    BY <1>1, Pins, HandlerGroups DEF BasicOps, RadioOps, BuildOps, FollowOps, LeOps, TransmitOps
  <2>3. x.d = [Requests(e, "AFH") EXCEPT !.hop_mode = "AFH", !.afh_map = 0, !.afh_enabled = TRUE]
    BY <2>1, <2>2, Results
  <2> QED BY <1>1, <2>3, FieldsAre DEF Requests, Device, Begins
<1>2. CASE r.op = "START_HOPPING"
  <2>1. FollowRequests(r, e) = Accepts(r, [Requests(e, "BT_FOLLOW") EXCEPT !.hop_mode = "BLUETOOTH", !.discard = TRUE])
    BY <1>2, Zenon DEF FollowRequests
  <2>2. x = FollowRequests(r, e)
    BY <1>2, Pins, HandlerGroups DEF BasicOps, RadioOps, BuildOps, FollowOps, LeOps, TransmitOps
  <2>3. x.d = [Requests(e, "BT_FOLLOW") EXCEPT !.hop_mode = "BLUETOOTH", !.discard = TRUE]
    BY <2>1, <2>2, Results
  <2> QED BY <1>2, <2>3, FieldsAre DEF Requests, Device, Begins
<1>3. CASE r.op = "TX_SYMBOLS"
  <2>1. BasicRequests(r, e) = Answers([Requests(e, "TX_SYMBOLS") EXCEPT !.hop_mode = "BLUETOOTH"], 0, 0)
    BY <1>3, Pins, Zenon DEF BasicRequests
  <2>2. x = BasicRequests(r, e)
    BY <1>3, Pins, HandlerGroups DEF BasicOps, RadioOps, BuildOps, FollowOps, LeOps, TransmitOps
  <2>3. x.d = [Requests(e, "TX_SYMBOLS") EXCEPT !.hop_mode = "BLUETOOTH"]
    BY <2>1, <2>2, Results
  <2> QED BY <1>3, <2>3, FieldsAre DEF Requests, Device, Begins
<1>4. CASE r.op = "BTLE_SNIFFING"
  <2> DEFINE b == (r.v % 256) # 0
  <2>1. LeRequests(r, e) =
          Answers([Requests(e, "BT_FOLLOW_LE") EXCEPT !.do_follow = b, !.do_hop = FALSE, !.hop_mode = "BTLE", !.q = << >>], 0, 0)
    BY <1>4, Zenon DEF LeRequests
  <2>2. x = LeRequests(r, e)
    BY <1>4, Pins, HandlerGroups DEF BasicOps, RadioOps, BuildOps, FollowOps, LeOps, TransmitOps
  <2> HIDE DEF b
  <2>3. x.d = [Requests(e, "BT_FOLLOW_LE") EXCEPT !.do_follow = b, !.do_hop = FALSE, !.hop_mode = "BTLE", !.q = << >>]
    BY <2>1, <2>2, Results
  <2> QED BY <1>4, <2>3, FieldsAre DEF Requests, Device, Begins
<1>5. CASE r.op = "BTLE_PROMISC"
  <2>1. LeRequests(r, e) = Answers([Requests(e, "BT_PROMISC_LE") EXCEPT !.hop_mode = "NONE", !.q = << >>], 0, 0)
    BY <1>5, Zenon DEF LeRequests
  <2>2. x = LeRequests(r, e)
    BY <1>5, Pins, HandlerGroups DEF BasicOps, RadioOps, BuildOps, FollowOps, LeOps, TransmitOps
  <2>3. x.d = [Requests(e, "BT_PROMISC_LE") EXCEPT !.hop_mode = "NONE", !.q = << >>]
    BY <2>1, <2>2, Results
  <2> QED BY <1>5, <2>3, FieldsAre DEF Requests, Device, Begins
<1>6. CASE r.op = "EGO"
  <2>1. TransmitRequests(r, e) = Accepts(r, Requests(Put(e, "EGO_MODE", r.v % 256), "EGO"))
    BY <1>6, Zenon DEF TransmitRequests
  <2>2. x = TransmitRequests(r, e)
    BY <1>6, Pins, HandlerGroups DEF BasicOps, RadioOps, BuildOps, FollowOps, LeOps, TransmitOps
  <2>3. x.d = Requests(Put(e, "EGO_MODE", r.v % 256), "EGO")
    BY <2>1, <2>2, Results
  <2>4. PICK g : g = Put(e, "EGO_MODE", r.v % 256)
    OBVIOUS
  <2>5. g.set = [e.set EXCEPT !["EGO_MODE"] = r.v % 256] /\ DOMAIN e.set = Settings /\ DOMAIN g = Fields
    BY <2>4, FieldsAre DEF Device, DeviceTypes, Put
  <2>6. \A s \in {"MOD", "JAM_MODE"} : g.set[s] = e.set[s]
    BY <2>5 DEF Settings
  <2>7. g.channel = e.channel /\ g.target = e.target /\ g.hop_mode = e.hop_mode
    BY <2>4, FieldsAre DEF Device, Put
  <2>8. x.d = Requests(g, "EGO")
    BY <2>3, <2>4
  <2>9. /\ x.d.channel = g.channel /\ x.d.target = g.target /\ x.d.hop_mode = g.hop_mode /\ x.d.set = g.set
        /\ x.d.requested_mode = "EGO"
    BY <2>5, <2>8, FieldsAre DEF Requests
  <2> QED BY <1>6, <2>6, <2>7, <2>9 DEF Begins
<1> QED BY <1>1, <1>2, <1>3, <1>4, <1>5, <1>6 DEF ModeSetters

\* Polling and the end of following ask for no mode.
LEMMA PollsAsk ==
  ASSUME NEW r, NEW e, Device(e), r.op \in {"POLL", "CANCEL_FOLLOW"}, NEW x, x = vendor_request_handler(r, e)
  PROVE  x.d.requested_mode = e.requested_mode
<1>1. CASE r.op = "POLL"
  <2> DEFINE poll == [e EXCEPT !.q = Tail(@)]
  <2>1. (\E l, v : x = Answers(e, l, v)) \/ \E v : x = Answers(poll, PacketSize, v)
    <3>1. (\E l, v : LeRequests(r, e) = Answers(e, l, v)) \/ \E v : LeRequests(r, e) = Answers(poll, PacketSize, v)
      BY <1>1, Zenon DEF LeRequests
    <3>2. x = LeRequests(r, e)
      BY <1>1, Pins, HandlerGroups DEF BasicOps, RadioOps, BuildOps, FollowOps, LeOps, TransmitOps
    <3> HIDE DEF poll
    <3> QED BY <3>1, <3>2, Zenon
  <2>2. poll.requested_mode = e.requested_mode
    BY FieldsAre DEF Device
  <2> HIDE DEF poll
  <2> QED BY <2>1, <2>2, Results
<1>2. CASE r.op = "CANCEL_FOLLOW"
  <2>1. TransmitRequests(r, e) = Accepts(r, [e EXCEPT !.cancel_follow = TRUE])
    BY <1>2, Zenon DEF TransmitRequests
  <2>2. x = TransmitRequests(r, e)
    BY <1>2, Pins, HandlerGroups DEF BasicOps, RadioOps, BuildOps, FollowOps, LeOps, TransmitOps
  <2>3. x.d = [e EXCEPT !.cancel_follow = TRUE]
    BY <2>1, <2>2, Results
  <2> QED BY <2>3, FieldsAre DEF Device
<1> QED BY <1>1, <1>2

\* What any request leaves alone of the settings, and when it asks for one of
\* the modes in which they are forgotten.
Frames(r, e, f) ==
  /\ r.op # "SET_CHANNEL" => f.channel = e.channel
  /\ r.op \notin {"SET_CHANNEL", "AFH", "START_HOPPING", "BTLE_SNIFFING", "BTLE_PROMISC", "TX_SYMBOLS"} => f.hop_mode = e.hop_mode
  /\ r.op # "SET_BDADDR" => f.target = e.target
  /\ r.op # "SET_MOD" => f.set["MOD"] = e.set["MOD"]
  /\ r.op # "JAM_MODE" => f.set["JAM_MODE"] = e.set["JAM_MODE"]
  /\ r.op # "EGO" => f.set["EGO_MODE"] = e.set["EGO_MODE"]
  /\ f.requested_mode \in {"IDLE", "RESET"} =>
       r.op \in {"STOP", "RESET", "FLASH"} \/ (f.requested_mode = e.requested_mode /\ r.op \notin ModeSetters)
  /\ f.requested_mode = "RANGE_TEST" => r.op = "RANGE_TEST" \/ f.requested_mode = e.requested_mode
  /\ f.requested_mode = "BT_PROMISC_LE" => r.op = "BTLE_PROMISC" \/ f.requested_mode = e.requested_mode
  /\ r.op \in {"POLL", "CANCEL_FOLLOW"} => f.requested_mode = e.requested_mode

LEMMA HandlerFrames ==
  ASSUME NEW r, NEW e, Device(e), {r.v, r.data} \subseteq Words, NEW x, x = vendor_request_handler(r, e)
  PROVE  Frames(r, e, x.d)
<1>1. CASE r.op \notin Special
  <2>1. Steady(e, x.d)
    BY <1>1, HandlerSteady
  <2> QED BY <1>1, <2>1, PollsAsk DEF Steady, Kept, Forgetful, Frames, Special, Setters, ModeSetters, Resters
<1>2. CASE r.op \in ModeSetters
  <2>1. Begins(r, e, x.d)
    BY <1>2, ModeSettersDo
  <2> QED BY <1>2, <2>1 DEF Begins, Frames, ModeSetters
<1>3. CASE r.op \in Resters
  <2>1. \A m : Kept(e, Requests(e, m)) /\ Requests(e, m).requested_mode = m /\ DOMAIN Requests(e, m) = Fields
    BY FieldsAre DEF Device, Requests, Kept
  <2>2. PICK m \in {"IDLE", "RESET", "RANGE_TEST"} :
          /\ x.d = Requests(e, m) \/ x.d = [Requests(e, m) EXCEPT !.dfu = TRUE]
          /\ m = "RANGE_TEST" <=> r.op = "RANGE_TEST"
    BY <1>3, RestersDo DEF Resters
  <2>3. Kept(e, x.d) /\ x.d.requested_mode = m
    <3> PICK g : g = Requests(e, m)
      OBVIOUS
    <3>1. Kept(e, g) /\ g.requested_mode = m /\ DOMAIN g = Fields
      BY <2>1
    <3>2. x.d = g \/ x.d = [g EXCEPT !.dfu = TRUE]
      BY <2>2
    <3> QED BY <3>1, <3>2, FieldsAre DEF Kept
  <2> QED BY <1>3, <2>2, <2>3 DEF Kept, Frames, Resters, ModeSetters
<1>4. CASE r.op = "SET_CHANNEL"
  <2> r.op \in Setters
    BY <1>4 DEF Setters
  <2>1. x.d = SetChannel(r, e)
    <3>1. SetBy(r, e, x.d)
      BY SettersDo, Zenon
    <3> QED BY <1>4, <3>1 DEF SetBy
  <2>2. x.d.target = e.target /\ x.d.set = e.set /\ x.d.requested_mode = e.requested_mode
    BY <2>1, FieldsAre DEF SetChannel, Device
  <2> QED BY <1>4, <2>2 DEF Frames, ModeSetters
<1>5. CASE r.op \in {"SET_MOD", "JAM_MODE"}
  <2> r.op \in Setters
    BY <1>5 DEF Setters
  <2>1. PICK name \in {"MOD", "JAM_MODE"} : x.d = Put(e, name, r.v % 256) /\ (name = "MOD" <=> r.op = "SET_MOD")
    <3>1. SetBy(r, e, x.d)
      BY SettersDo, Zenon
    <3> QED BY <1>5, <3>1 DEF SetBy
  <2>2. x.d.set = [e.set EXCEPT ![name] = r.v % 256] /\ DOMAIN e.set = Settings
    BY <2>1, FieldsAre DEF Device, DeviceTypes, Put
  <2>3. \A s \in {"MOD", "JAM_MODE", "EGO_MODE"} : s # name => x.d.set[s] = e.set[s]
    BY <2>2 DEF Settings
  <2>4. /\ x.d.channel = e.channel /\ x.d.hop_mode = e.hop_mode /\ x.d.target = e.target
        /\ x.d.requested_mode = e.requested_mode
    BY <2>1, FieldsAre DEF Device, Put
  <2> QED BY <1>5, <2>1, <2>3, <2>4 DEF Frames, ModeSetters
<1>6. CASE r.op = "SET_BDADDR"
  <2> r.op \in Setters
    BY <1>6 DEF Setters
  <2>1. x.d = [e EXCEPT !.target = r.data]
    <3>1. SetBy(r, e, x.d)
      BY SettersDo, Zenon
    <3> QED BY <1>6, <3>1 DEF SetBy
  <2>2. /\ x.d.channel = e.channel /\ x.d.hop_mode = e.hop_mode /\ x.d.set = e.set
        /\ x.d.requested_mode = e.requested_mode
    BY <2>1, FieldsAre DEF Device
  <2> QED BY <1>6, <2>2 DEF Frames, ModeSetters
<1> QED BY <1>1, <1>2, <1>3, <1>4, <1>5, <1>6 DEF Special, Setters
=============================================================================
