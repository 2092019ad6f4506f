------------------------------- MODULE Codec -------------------------------
(***************************************************************************)
(* btbr's baseband codec: how a packet becomes bits on air and how the     *)
(* receiver gets it back (codec.c, bitstream_proc.c, packet_proc.c,        *)
(* bb.h).  Both ends work on the payload in chunks and carry the whitening *)
(* register, the CRC and the bit position from one chunk to the next; the  *)
(* sender's chunks and the receiver's have different sizes.                *)
(*                                                                         *)
(* A byte string is the sequence of its bits, least significant first,     *)
(* which is air order.  The lookup tables are defined by what they hold.   *)
(***************************************************************************)
EXTENDS Naturals, Sequences, FiniteSets

CONSTANTS
  CODEC_TX_CHUNK_SIZE,   \* bytes encoded at a time (80): five make words
  CODEC_RX_CHUNK_SIZE,   \* bytes decoded at a time (10), a multiple of 5
  Packets,               \* the packets sent: [type, lt_addr, flags, payload, uap, whiten]
  Flips,                 \* sets of air bits the channel inverts
  Junk                   \* what the sender's stack may hold behind the chunk (bits)

VARIABLES stage, pkt, tx, in_data, air, flipped, rx, bt_data, bb_hdr, size, rc
codecVars == <<stage, pkt, tx, in_data, air, flipped, rx, bt_data, bb_hdr, size, rc>>

Least(a, b) == IF a <= b THEN a ELSE b
Bits(n, k) == [i \in 1..k |-> (n \div 2^(i - 1)) % 2]
RECURSIVE Num(_)
Num(b) == IF b = <<>> THEN 0 ELSE Head(b) + 2 * Num(Tail(b))
Reversed(b) == [i \in DOMAIN b |-> b[Len(b) + 1 - i]]
Xor(a, b) == [i \in DOMAIN a |-> (a[i] + b[i]) % 2]
Slice(s, from, n) == SubSeq(s, from + 1, from + n)
Zeros(n) == [i \in 1..n |-> 0]
ByteAlign(n) == (n + 7) \div 8

---------------------------------------------------------------------------
(* The frequency hop synchronisation payload: parity 34, LAP 24, EIR, 0, SR, SP, UAP 8,  *)
(* NAP 16, class 24, LT_ADDR 3, clock 26, page scan mode 3.                              *)
bbpkt_fhs_prepare_payload(parity, a, cls, lt_addr, eir) ==
  parity \o Bits(a.lap, 24) \o <<eir, 0>> \o <<1, 0>> \o <<0, 1>> \o Bits(a.uap, 8)
  \o Bits(a.nap, 16) \o Bits(cls, 24) \o Bits(lt_addr, 8) \o Zeros(24)
bbpkt_fhs_finalize_payload(data, clk27_2) ==
  Slice(data, 0, 115) \o Bits(clk27_2, 26) \o Zeros(3)
bbpkt_decode_fhs(data) ==
  [bdaddr |-> [lap |-> Num(Slice(data, 34, 24)), uap |-> Num(Slice(data, 64, 8)), nap |-> Num(Slice(data, 72, 16))],
   clk27_2 |-> Num(Slice(data, 115, 26)), lt_addr |-> Num(Slice(data, 112, 3))]

---------------------------------------------------------------------------
(* Registers: whitening x^7+x^4+1, HEC and CRC, one bit at a time. *)
WhitenStep(s) == LET d == 2 * (s % 64) IN
  IF s < 64 THEN d ELSE IF (d \div 16) % 2 = 0 THEN d + 17 ELSE d - 15
RECURSIVE WhitenSteps(_, _)
WhitenSteps(s, k) == IF k = 0 THEN s ELSE WhitenSteps(WhitenStep(s), k - 1)
whiten_state_tbl == [k \in 0..8 |-> [s \in 0..127 |-> WhitenSteps(s, k)]]
whiten_word_tbl == [s \in 0..127 |-> [k \in 1..8 |-> whiten_state_tbl[k - 1][s] \div 64]]

RECURSIVE ByteStates(_, _)
ByteStates(s, nbytes) ==
  IF nbytes = 0 THEN <<s>> ELSE <<s>> \o ByteStates(whiten_state_tbl[8][s], nbytes - 1)
whiten(in, s) ==
  LET nbytes == Len(in) \div 8
      at     == ByteStates(s, nbytes)
  IN [out   |-> [i \in DOMAIN in |->
                   (in[i] + whiten_word_tbl[at[((i - 1) \div 8) + 1]][((i - 1) % 8) + 1]) % 2],
      state |-> whiten_state_tbl[Len(in) % 8][at[nbytes + 1]]]

\* A register shifted once for every bit of a byte or less: what the tables hold.
RECURSIVE Shifted(_, _, _)
Shifted(in, reg, taps) ==
  IF in = <<>> THEN reg
  ELSE LET b == (Head(in) + reg[1]) % 2
       IN Shifted(Tail(in),
            [i \in DOMAIN reg |-> ((IF i < Len(reg) THEN reg[i + 1] ELSE 0)
                                   + (IF i \in taps THEN b ELSE 0)) % 2], taps)
crc_tbl == [n \in 0..255 |-> Shifted(Bits(n, 8), Zeros(16), {4, 11, 16})]
hec_tbl == [n \in 0..31 |-> Shifted(Bits(n, 5), Zeros(8), {1, 3, 6, 7, 8})]
RECURSIVE crc_compute(_, _)
crc_compute(in, crc) ==
  IF in = <<>> THEN crc
  ELSE crc_compute(SubSeq(in, 9, Len(in)),
         Xor(Slice(crc, 8, 8) \o Zeros(8), crc_tbl[Num(Xor(Slice(in, 0, 8), Slice(crc, 0, 8)))]))
HecStep(in, hec) == Xor(Slice(hec, 5, 3) \o Zeros(5), hec_tbl[Num(Xor(in, Slice(hec, 0, 5)))])
hec_compute(hdr, uap) ==
  HecStep(Slice(hdr, 5, 5), HecStep(Slice(hdr, 0, 5), Reversed(Bits(uap, 8))))

---------------------------------------------------------------------------
(* Forward error correction. *)
fec13(in) == [i \in 1..(3 * Len(in)) |-> in[((i - 1) \div 3) + 1]]
Ones(t) == t[1] + t[2] + t[3]
Triple(in, k) == Slice(in, 3 * (k - 1), 3)
unfec13(in) ==
  LET bits == 1..(Len(in) \div 3) IN
  [out |-> [k \in bits |-> IF Ones(Triple(in, k)) >= 2 THEN 1 ELSE 0],
   be  |-> Cardinality({k \in bits : Ones(Triple(in, k)) \notin {0, 3}})]

\* The five check bits of each of the ten data bits, also the syndrome of its error.
Check == [i \in 1..10 |-> Bits(<<11, 22, 7, 14, 28, 19, 13, 26, 31, 21>>[i], 5)]
fec23_tbl(d) == [j \in 1..5 |-> Cardinality({i \in 1..10 : d[i] = 1 /\ Check[i][j] = 1}) % 2]
fec23_cor(err) == [i \in 1..10 |-> IF Check[i] = err THEN 1 ELSE 0]
Words(n) == (n + 9) \div 10

\* The loop counts input bits up to the number of output bits: half as many words again
\* are written, from whatever lies behind the input.
fec23(in, junk) ==
  LET words == Words(Words(Len(in)) * 15)
      In(i) == IF i <= Len(in) THEN in[i] ELSE junk
  IN [k \in 1..(15 * words) |->
        LET base == 10 * ((k - 1) \div 15)
            j    == ((k - 1) % 15) + 1
        IN IF j <= 10 THEN In(base + j)
           ELSE fec23_tbl([i \in 1..10 |-> In(base + i)])[j - 10]]
unfec23_10bits(w) == LET d == Slice(w, 0, 10) IN
  Xor(d, fec23_cor(Xor(Slice(w, 10, 5), fec23_tbl(d))))
unfec23(in, nbits) ==
  LET word == [w \in 1..Words(nbits) |-> unfec23_10bits(Slice(in, 15 * (w - 1), 15))]
  IN [k \in 1..nbits |-> word[((k - 1) \div 10) + 1][((k - 1) % 10) + 1]]

\* Bits written at an offset: the byte begun before is ORed into, the others overwritten.
Put(buf, off, new) ==
  [i \in 1..(IF off + Len(new) > Len(buf) THEN off + Len(new) ELSE Len(buf)) |->
     LET old == IF i <= Len(buf) THEN buf[i] ELSE 0 IN
     IF i <= off \/ i > off + Len(new) THEN old
     ELSE IF i <= 8 * ByteAlign(off) /\ old = 1 THEN 1 ELSE new[i - off]]

---------------------------------------------------------------------------
(* The codec's state and the packet types. *)
NoType == [payload_header_bytes |-> 0, payload_bytes |-> 0, has_fec23 |-> FALSE, has_crc |-> FALSE]
Type(hdr, bytes, fec) ==
  [payload_header_bytes |-> hdr, payload_bytes |-> bytes, has_fec23 |-> fec, has_crc |-> TRUE]
bbcodec_acl_types == [t \in 0..15 |->
  CASE t = 2  -> Type(0, 18, TRUE)     [] t = 3  -> Type(1, 17, TRUE)
    [] t = 4  -> Type(1, 27, FALSE)    [] t = 10 -> Type(2, 121, TRUE)
    [] t = 11 -> Type(2, 183, FALSE)   [] t = 14 -> Type(2, 224, TRUE)
    [] t = 15 -> Type(2, 339, FALSE)   [] OTHER  -> NoType]

bbcodec_init(p) ==
  [uap |-> p.uap, whiten_state |-> p.whiten,
   crc_state |-> Zeros(8) \o Reversed(Bits(p.uap, 8)),
   crc_pos |-> 0, t |-> NoType, air_bytes |-> 0, coded_total |-> 0, air_off_b |-> 0, coded_pos |-> 0]

bbcodec_calc_payload_length(c, payload) ==
  LET hdr  == c.t.payload_header_bytes
      said == CASE hdr = 1 -> Num(Slice(payload, 3, 5))
                [] hdr = 2 -> Num(Slice(payload, 3, 10))
                [] OTHER   -> c.t.payload_bytes
      total == hdr + (IF said > c.t.payload_bytes THEN 0 ELSE said) + (IF c.t.has_crc THEN 2 ELSE 0)
  IN [c EXCEPT !.coded_total = total,
               !.air_bytes = ByteAlign(58 + total * (IF c.t.has_fec23 THEN 12 ELSE 8))]

---------------------------------------------------------------------------
(* The sender. *)
trailer == <<0, 1, 0, 1>>
bbcodec_encode_header ==
  LET hdr   == Bits(pkt.lt_addr, 3) \o Bits(pkt.type, 4) \o Bits(pkt.flags, 3)
      white == whiten(hdr \o hec_compute(hdr, tx.uap), tx.whiten_state)
      typed == [tx EXCEPT !.whiten_state = white.state, !.air_off_b = 58,
                          !.t = bbcodec_acl_types[pkt.type]]
  IN /\ stage = "encode_header"
     /\ air' = Put(trailer, 4, fec13(white.out))
     /\ tx' = bbcodec_calc_payload_length(typed, pkt.payload)
     /\ in_data' = pkt.payload \o Zeros(16)
     /\ stage' = "encode"
     /\ UNCHANGED <<pkt, flipped, rx, bt_data, bb_hdr, size, rc>>

bbcodec_encode_chunk ==
  LET byte_left == tx.coded_total - tx.coded_pos
      byte_num  == Least(byte_left, CODEC_TX_CHUNK_SIZE)
      crc_num   == Least(byte_left - 2, CODEC_TX_CHUNK_SIZE)
      crc       == IF tx.t.has_crc /\ byte_left > 2
                   THEN crc_compute(Slice(in_data, 8 * tx.coded_pos, 8 * crc_num), tx.crc_state)
                   ELSE tx.crc_state
      data      == IF tx.t.has_crc /\ byte_left > 2
                   THEN Slice(in_data, 0, 8 * (tx.coded_total - 2)) \o crc ELSE in_data
      white     == whiten(Slice(data, 8 * tx.coded_pos, 8 * byte_num), tx.whiten_state)
  IN /\ stage = "encode" /\ byte_left > 0
     /\ \E junk \in Junk :
          air' = Put(air, tx.air_off_b, IF tx.t.has_fec23 THEN fec23(white.out, junk) ELSE white.out)
     /\ in_data' = data
     /\ tx' = [tx EXCEPT !.crc_state = crc, !.whiten_state = white.state,
                         !.coded_pos = @ + byte_num,
                         !.air_off_b = @ + byte_num * (IF tx.t.has_fec23 THEN 12 ELSE 8)]
     /\ UNCHANGED <<stage, pkt, flipped, rx, bt_data, bb_hdr, size, rc>>

\* air_bytes of the buffer go out; the receiver's buffer goes on with noise.
Sent == Least(Len(air), 8 * tx.air_bytes)
OnAir ==
  /\ stage = "encode" /\ tx.coded_pos = tx.coded_total
  /\ \E flips \in Flips, noise \in {0, 1} :
       /\ air' = [i \in 1..(8 * (tx.air_bytes + 2 * CODEC_RX_CHUNK_SIZE)) |->
                    IF i <= Sent THEN (air[i] + (IF i \in flips THEN 1 ELSE 0)) % 2 ELSE noise]
       /\ flipped' = flips \cap 1..Sent
  /\ stage' = "decode_header"
  /\ UNCHANGED <<pkt, tx, in_data, rx, bt_data, bb_hdr, size, rc>>

---------------------------------------------------------------------------
(* The receiver. *)
Reject == stage' = "rejected" /\ UNCHANGED <<pkt, tx, in_data, air, flipped, rx, bt_data, bb_hdr, size, rc>>

bbcodec_decode_header ==
  LET read  == unfec13(Slice(air, 4, 54))
      white == whiten(read.out, rx.whiten_state)
      hdr   == Slice(white.out, 0, 10)
      type  == Num(Slice(hdr, 3, 4))
      good  == /\ read.be <= 3
               /\ Slice(hec_compute(hdr, rx.uap), 0, 7) = Slice(white.out, 10, 7)
  IN /\ stage = "decode_header"
     /\ IF ~good THEN Reject
        ELSE /\ bb_hdr' = [lt_addr |-> Num(Slice(hdr, 0, 3)), type |-> type, flags |-> Num(Slice(hdr, 7, 3))]
             /\ rx' = [rx EXCEPT !.whiten_state = white.state, !.air_off_b = 58, !.t = bbcodec_acl_types[type]]
             /\ size' = ByteAlign(58)
             /\ stage' = IF bbcodec_acl_types[type].payload_bytes = 0 THEN "header_only" ELSE "decode"
             /\ UNCHANGED <<pkt, tx, in_data, air, flipped, bt_data, rc>>

\* More of the packet is in the receive buffer.
Arrives == /\ stage = "decode" /\ size < Len(air) \div 8
           /\ size' = Least(size + CODEC_RX_CHUNK_SIZE, Len(air) \div 8)
           /\ UNCHANGED <<stage, pkt, tx, in_data, air, flipped, rx, bt_data, bb_hdr, rc>>

bbcodec_decode_update_crc_all(c, data) ==
  IF c.coded_pos <= c.crc_pos THEN c
  ELSE [c EXCEPT !.crc_state = crc_compute(Slice(data, 8 * c.crc_pos, 8 * (c.coded_pos - c.crc_pos)), @),
                 !.crc_pos = c.coded_pos]
bbcodec_decode_update_crc(c, data) ==
  LET upto == Least(c.coded_total - 2, c.coded_pos)
  IN IF upto <= c.crc_pos THEN c
     ELSE [c EXCEPT !.crc_state = crc_compute(Slice(data, 8 * c.crc_pos, 8 * (upto - c.crc_pos)), @),
                    !.crc_pos = upto]

bbcodec_decode_chunk ==
  LET first    == rx.coded_pos = 0
      byte_num == IF first THEN CODEC_RX_CHUNK_SIZE
                  ELSE Least(CODEC_RX_CHUNK_SIZE, rx.coded_total - rx.coded_pos)
      bitlen   == byte_num * (IF rx.t.has_fec23 THEN 12 ELSE 8)
      from     == SubSeq(air, rx.air_off_b + 1, Len(air))
      white    == whiten(IF rx.t.has_fec23 THEN unfec23(from, 8 * byte_num) ELSE Slice(from, 0, 8 * byte_num),
                         rx.whiten_state)
      data     == SubSeq(bt_data, 1, 8 * rx.coded_pos) \o white.out
      moved    == [rx EXCEPT !.whiten_state = white.state, !.air_off_b = @ + bitlen, !.coded_pos = @ + byte_num]
      sized    == IF first THEN bbcodec_calc_payload_length(moved, data) ELSE moved
      summed   == bbcodec_decode_update_crc(sized, data)
  IN /\ stage = "decode"
     /\ 8 * size >= rx.air_off_b + bitlen                                 \* else BBCODEC_SHORT
     /\ bt_data' = data /\ rx' = summed
     /\ stage' = IF summed.coded_pos >= summed.coded_total THEN "finalize" ELSE stage
     /\ UNCHANGED <<pkt, tx, in_data, air, flipped, bb_hdr, size, rc>>

bbcodec_decode_finalize ==
  /\ stage = "finalize"
  /\ rc' = (Slice(bt_data, 8 * (rx.coded_total - 2), 16) = rx.crc_state)   \* BBPKT_F_GOOD_CRC
  /\ bt_data' = SubSeq(bt_data, 1, 8 * (rx.coded_total - 2))
  /\ stage' = "done"
  /\ UNCHANGED <<pkt, tx, in_data, air, flipped, rx, bb_hdr, size>>

CodecInit == /\ pkt \in Packets
             /\ tx = bbcodec_init(pkt) /\ rx = bbcodec_init(pkt)
             /\ stage = "encode_header" /\ in_data = <<>> /\ air = <<>> /\ bt_data = <<>>
             /\ bb_hdr = [lt_addr |-> 0, type |-> 0, flags |-> 0] /\ size = 0 /\ rc = FALSE
             /\ flipped = {}
CodecNext == \/ bbcodec_encode_header \/ bbcodec_encode_chunk \/ OnAir
             \/ bbcodec_decode_header \/ Arrives \/ bbcodec_decode_chunk \/ bbcodec_decode_finalize
CodecSpec == CodecInit /\ [][CodecNext]_codecVars

---------------------------------------------------------------------------
PacketOver == stage \in {"done", "header_only", "rejected"}
AsSent == /\ stage # "rejected"
          /\ bb_hdr = [lt_addr |-> pkt.lt_addr, type |-> pkt.type, flags |-> pkt.flags]
          /\ stage = "done" => /\ rc /\ bt_data = pkt.payload
                               /\ pkt.type = 2 => bbpkt_decode_fhs(bt_data) = pkt.info
\* What the code corrects: one wrong bit in a triple, in three triples; in a 15-bit word.
InHeader(k) == {i \in flipped : i \in (3 * k + 5)..(3 * k + 7)}
InWord(w)   == {i \in flipped : i \in (15 * w + 59)..(15 * w + 73)}
Correctable ==
  /\ \A k \in 0..17 : Cardinality(InHeader(k)) <= 1
  /\ Cardinality({k \in 0..17 : InHeader(k) # {}}) <= 3
  /\ IF tx.t.has_fec23 THEN \A w \in 0..(Sent \div 15) : Cardinality(InWord(w)) <= 1
     ELSE \A i \in flipped : i <= 58
\* air_bytes leaves check bits of the last word behind.
TailCut == tx.t.has_fec23 /\ 58 + 15 * Words(8 * tx.coded_total) > 8 * tx.air_bytes
\* Encoded in several chunks: the stack behind one is ORed into the next one's first byte.
Overrun == tx.t.has_fec23 /\ tx.coded_total > CODEC_TX_CHUNK_SIZE

\* A packet with no more wrong bits than its codes correct is received as it was sent, with a
\* good CRC, whatever its type, its length and the way both ends cut it into chunks; the two
\* cases the code gets wrong are excepted (codec.c:194-373).
Undamaged == (PacketOver /\ Correctable /\ ~TailCut /\ ~Overrun) => AsSent

\* A packet damaged beyond that is never taken for another: its header is rejected or right,
\* and a good CRC comes with the payload that was sent (codec.c:141-147, 354-364).
DamageNoticed ==
  /\ stage \notin {"encode_header", "encode", "decode_header", "rejected"} =>
       bb_hdr = [lt_addr |-> pkt.lt_addr, type |-> pkt.type, flags |-> pkt.flags]
  /\ (stage = "done" /\ rc) => bt_data = pkt.payload
PacketArrives == Undamaged /\ DamageNoticed
============================================================================
