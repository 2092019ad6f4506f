---------------------------- MODULE HopSelection ----------------------------
(* Which channel a Bluetooth clock means: the hop selection of the legacy    *)
(* firmware (bluetooth.c) and of btbr (hop.c, perm5.c), both written after   *)
(* the same chapter of the standard.  A state is one question: an address,   *)
(* a clock, a map of the channels in use.                                    *)
EXTENDS Integers, Sequences, SequencesExt, FiniteSets

CONSTANTS Addresses, Clocks, Maps

VARIABLES address, clk, map
vars == <<address, clk, map>>

NUM_BREDR_CHANNELS == 79
Bit(n, i) == (n \div 2^i) % 2
Field(n, i, width) == (n \div 2^i) % 2^width
RECURSIVE Number(_)
Number(bits) == IF bits = <<>> THEN 0 ELSE bits[1] + 2 * Number(Tail(bits))
\* Every other bit of the address, from bit i.
EveryOther(n, i, width) == Number([k \in 1 .. width |-> Bit(n, i + 2 * (k - 1))])
Xor(m, n, width) == Number([k \in 1 .. width |-> (Bit(m, k - 1) + Bit(n, k - 1)) % 2])

basic_bank == [i \in 0 .. NUM_BREDR_CHANNELS - 1 |-> (i * 2) % NUM_BREDR_CHANNELS]
\* The channels of a map, in the order of the register bank.
InUse(chans) == SelectSeq([i \in 1 .. NUM_BREDR_CHANNELS |-> basic_bank[i - 1]], LAMBDA c : c \in chans)

-----------------------------------------------------------------------------
(* The five bit permutation: control bit i swaps bits index1[i], index2[i].  *)

index1 == <<0, 2, 1, 3, 0, 1, 0, 3, 1, 0, 2, 1, 0, 1>>
index2 == <<1, 3, 2, 4, 4, 3, 2, 4, 4, 3, 4, 3, 3, 2>>
RECURSIVE Butterflies(_, _, _, _)
Butterflies(z, p, from, to) ==
  IF from < to THEN z
  ELSE LET i == index1[from + 1]
           j == index2[from + 1]
           swapped == z + (Bit(z, j) - Bit(z, i)) * (2^i - 2^j)
       IN Butterflies(IF Bit(p, from) = 1 THEN swapped ELSE z, p, from - 1, to)
perm5_late(z, p_high, p_low) == Butterflies(z % 32, (p_high % 32) * 512 + (p_low % 512), 12, 0)
perm5(z, p_high, p_low) == Butterflies(z % 32, (p_high % 32) * 512 + (p_low % 512), 13, 0)
\* btbr looks the permutation up, in two halves.
perm5_lut0(z, p) == Butterflies(z, p, 13, 7)
perm5_lut1(z, p) == Butterflies(z, p, 6, 0)
perm5_btbr(z, p_high, p_low) ==
  LET p == (p_high % 32) * 512 + (p_low % 512) IN perm5_lut1(perm5_lut0(z % 32, p), p)

-----------------------------------------------------------------------------
(* The legacy firmware.                                                     *)

precalc(addr) == [a1 |-> Field(addr, 23, 5), b |-> Field(addr, 19, 4), c1 |-> EveryOther(addr, 0, 5),
                  d1 |-> Field(addr, 10, 9), e |-> EveryOther(addr, 1, 7)]
\* precalc writes the channels in use over bank and leaves afh_bank as it was, empty.
afh_bank == [i \in 0 .. NUM_BREDR_CHANNELS - 1 |-> 0]
next_hop(addr, clock, afh_enabled, used_channels) ==
  LET s == precalc(addr)
      y1 == Bit(clock, 1)
      base_f == 16 * Field(clock, 7, 21)
      perm == perm5(Xor((Field(clock, 2, 5) + Xor(s.a1, Field(clock, 21, 5), 5)) % 32, s.b, 5),
                    Xor(y1 * 31, Xor(s.c1, Field(clock, 16, 5), 5), 5),
                    Xor(s.d1, Field(clock, 7, 9), 9))
      sum(f) == perm + s.e + f + 32 * y1
  IN 2402 + IF afh_enabled THEN afh_bank[sum(base_f % used_channels) % used_channels]
            ELSE basic_bank[sum(base_f % NUM_BREDR_CHANNELS) % NUM_BREDR_CHANNELS]

-----------------------------------------------------------------------------
(* btbr.  The selection is computed in a byte.                              *)

hop_init(addr) == [a27_23 |-> Field(addr, 23, 5), a22_19 |-> Field(addr, 19, 4), C |-> EveryOther(addr, 0, 5),
                   a18_10 |-> Field(addr, 10, 9), E |-> EveryOther(addr, 1, 7),
                   afh_enabled |-> FALSE, bank |-> basic_bank, chan_count |-> NUM_BREDR_CHANNELS]
Sum(x, y1, a, b, c, d, e, f) == perm5_btbr(Xor((a + x) % 32, b, 5), Xor(y1 * 31, c, 5), d) + e + f + 32 * y1
hop_selection_kernel(x, y1, a, b, c, d, e, f) == Sum(x, y1, a, b, c, d, e, f) % 256

hop_set_afh_map(chans) == [i \in 0 .. Len(InUse(chans)) - 1 |-> InUse(chans)[i + 1]]
hop_cfg_afh(s, enabled, chans) ==
  [s EXCEPT !.afh_enabled = enabled,
            !.bank = IF enabled THEN hop_set_afh_map(chans) ELSE basic_bank,
            !.chan_count = IF enabled THEN Cardinality(chans) ELSE NUM_BREDR_CHANNELS]

hop_inquiry(s, x, clock) ==
  s.bank[hop_selection_kernel(x, Bit(clock, 1), s.a27_23, s.a22_19, s.C, s.a18_10, s.E, 0) % NUM_BREDR_CHANNELS]
Arguments(s, clock) ==
  [x |-> Field(clock, 2, 5), y1 |-> IF s.afh_enabled THEN 0 ELSE Bit(clock, 1),
   a |-> Xor(s.a27_23, Field(clock, 21, 5), 5), c |-> Xor(s.C, Field(clock, 16, 5), 5),
   d |-> Xor(s.a18_10, Field(clock, 7, 9), 9), f |-> (16 * Field(clock, 7, 21)) % s.chan_count]
hop_basic(s, clock) ==
  LET g == Arguments(s, clock)
  IN s.bank[hop_selection_kernel(g.x, g.y1, g.a, s.a22_19, g.c, g.d, s.E, g.f) % s.chan_count]
FitsAByte(s, clock) ==
  LET g == Arguments(s, clock) IN Sum(g.x, g.y1, g.a, s.a22_19, g.c, g.d, s.E, g.f) < 256

-----------------------------------------------------------------------------
Init == address \in Addresses /\ clk \in Clocks /\ map \in Maps
Next == UNCHANGED vars
Spec == Init /\ [][Next]_vars

-----------------------------------------------------------------------------
Basic == hop_init(address)
Adapted == hop_cfg_afh(Basic, TRUE, map)

(* The two programs hop alike, lookup table or loop, where the sum fits the  *)
(* byte btbr keeps it in; and an inquiry passes over 32 channels, none of    *)
(* them twice.                                                               *)
HopsAgree ==
  /\ FitsAByte(Basic, clk) => 2402 + hop_basic(Basic, clk) = next_hop(address, clk, FALSE, 0)
  /\ Cardinality({hop_inquiry(Basic, x, clk) : x \in 0 .. 31}) = 32

(* With a map in force btbr hops to its channels only, answers on the        *)
(* channel it was spoken to on, and goes back to all channels without it.    *)
AfhHops ==
  /\ hop_basic(Adapted, clk) \in map
  /\ Bit(clk, 1) = 0 => hop_basic(Adapted, clk) = hop_basic(Adapted, clk + 2)
  /\ hop_basic(hop_cfg_afh(Adapted, FALSE, map), clk) = hop_basic(Basic, clk)
=============================================================================
