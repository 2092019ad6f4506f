----------------------------- MODULE ClockTrim ------------------------------
(* The device's clock and the host that trims it (TIMER0_IRQHandler and the  *)
(* clock requests of bluetooth_rxtx.c, ubertooth_clock.c, and cb_rx of       *)
(* ubertooth_callback.c).  The master sends once a slot; the device notes    *)
(* where in its own slot a packet begins; the host, some packets later,      *)
(* lengthens one tick so that packets begin CLK_TUNE_TIME after the edge.    *)
(* Time is in units of the 100 ns clock, scaled: a tick is HALF of them.     *)
EXTENDS Integers, Sequences

CONSTANTS
  HALF,             \* 3125
  CLK_TUNE_TIME,    \* 2250
  CLK_TUNE_OFFSET,  \* 200
  RATE,             \* 320: ticks in which one ppm is one unit
  WORD,             \* 2^16, the width of clk100ns_offset
  Stale,            \* packets heard between one that is trimmed for and the trim taking effect
  Latency,          \* ticks from a packet's beginning to its trim taking effect
  Gain,             \* ticks in which the master gains or loses one unit
  Life, Finds       \* ticks, and how often the piconet's clock is found

VARIABLES
  clkn, clkn_offset, clk100ns_offset,
  mr,       \* T0MR0 + 1: the length of this tick
  drift,    \* clk_drift_ppm, clk_drift_correction, clkn_last_drift_fix, clkn_next_drift_fix
  next,     \* units from the start of this tick to the master's next packet
  skew,     \* -1, 0 or 1: whether the master runs fast, true or slow
  pipe,     \* packets on their way to the host: where they began and when
  cmds,     \* requests on their way to the device
  owed,     \* packets the host took while a trim was on its way
  host,     \* trim_counter, calibrated, clkn_trim
  ticks, finds

dev == <<clkn, clkn_offset, clk100ns_offset, mr, drift, next, skew, ticks>>
vars == <<dev, pipe, cmds, owed, host, finds>>

THRESHOLD == 2  \* CLOCK_TRIM_THRESHOLD
PERIOD == 2 * HALF
Abs(n) == IF n < 0 THEN -n ELSE n
\* C's division, towards zero.
Quot(a, b) == IF (a < 0) = (b < 0) THEN Abs(a) \div Abs(b) ELSE -(Abs(a) \div Abs(b))

-----------------------------------------------------------------------------
(* The device.                                                              *)

\* Where the packets that follow this tick begin in the device's slot.
Phase == ((clkn + 1 + clkn_offset) * HALF + next - mr) % PERIOD

\* A fix by one unit when none was asked for: a longer tick, or one and two ticks less one.
DriftFix(c) ==
  LET due == drift.next # 0 /\ clk100ns_offset = 0 /\ c >= drift.next
  IN IF ~due THEN [by |-> clk100ns_offset, drift |-> drift]
     ELSE [by |-> IF drift.ppm >= 0 THEN 1 ELSE PERIOD - 1,
           drift |-> [drift EXCEPT !.last = c, !.next = c + drift.correction]]
TIMER0_IRQHandler ==
  LET c == clkn + clkn_offset + 1
      fix == DriftFix(c)
  IN /\ drift' = fix.drift
     /\ clkn' = IF fix.by > HALF - 1 THEN c + 2 ELSE c
     /\ mr' = HALF + fix.by
     /\ clkn_offset' = 0 /\ clk100ns_offset' = 0

\* A packet whose access code the host will find: where it begins, by CLK100NS.
Packet == [off |-> (clkn * HALF + next) % PERIOD, clkn |-> clkn + next \div HALF]
Trimming == \E i \in DOMAIN cmds : cmds[i].op = "trim"
\* The tick ends: the first packet that began in it was heard or not.
Tick ==
  /\ ticks < Life /\ ticks' = ticks + 1
  /\ pipe # <<>> => clkn - Head(pipe).clkn < Latency \div 2
  /\ Trimming => clkn - host.clkn_trim < Latency
  /\ \/ pipe' = pipe
     \/ (/\ next < mr /\ Len(pipe) + owed <= Stale
         /\ pipe' = Append(pipe, Packet))
  /\ LET gain == IF ticks % Gain = 0 THEN skew ELSE 0
         left == next - mr + gain
     IN next' = IF left < 0 THEN left % PERIOD ELSE left
  /\ TIMER0_IRQHandler
  /\ owed' = IF clk100ns_offset = 0 /\ ~Trimming THEN 0 ELSE owed
  /\ UNCHANGED <<skew, cmds, host, finds>>

Corrected(ppm) ==
  LET c == IF ppm = 0 THEN 0 ELSE RATE \div Abs(ppm)
  IN [ppm |-> ppm, correction |-> c, last |-> drift.last, next |-> IF ppm = 0 THEN 0 ELSE drift.last + c]
Request ==
  /\ cmds # <<>> /\ cmds' = Tail(cmds)
  /\ LET r == Head(cmds)
     IN \/ /\ r.op = "trim" /\ clk100ns_offset' = r.by
           /\ UNCHANGED <<clkn_offset, drift>>
        \/ /\ r.op = "drift" /\ drift' = Corrected(drift.ppm + r.by)
           /\ UNCHANGED <<clkn_offset, clk100ns_offset>>
        \/ /\ r.op = "hop" /\ clkn_offset' = r.by /\ clk100ns_offset' = 0
           /\ UNCHANGED drift
  /\ UNCHANGED <<clkn, mr, next, skew, ticks, pipe, owed, host, finds>>

-----------------------------------------------------------------------------
(* The host: cb_rx for the packet it takes.                                 *)

\* A bug: an already calibrated clock is taken for a new one.
Early_again(p) == host.trim_counter < -THRESHOLD \/ p.off < CLK_TUNE_TIME - CLK_TUNE_OFFSET
                  \/ (p.off < CLK_TUNE_TIME /\ ~host.calibrated)
Trim(by, p) ==
  LET ago == p.clkn - host.clkn_trim
  IN /\ cmds' = cmds \o <<[op |-> "trim", by |-> by % WORD]>> \o
          IF host.calibrated THEN <<[op |-> "drift", by |-> Quot((p.off - CLK_TUNE_TIME) * RATE, ago)]>> ELSE <<>>
     /\ host' = [trim_counter |-> 0, calibrated |-> TRUE, clkn_trim |-> p.clkn]
Early(p) == host.trim_counter < -THRESHOLD \/ (p.off < CLK_TUNE_TIME /\ ~host.calibrated)
Late(p) == host.trim_counter > THRESHOLD \/ (p.off > CLK_TUNE_TIME /\ ~host.calibrated)
Count(p) == host' = [host EXCEPT !.trim_counter = IF p.off < CLK_TUNE_TIME - CLK_TUNE_OFFSET THEN @ - 1
                                                  ELSE IF p.off > CLK_TUNE_TIME + CLK_TUNE_OFFSET THEN @ + 1 ELSE 0]
\* btbb_process_packet finds the piconet's clock: the device is told to hop, by whole slots.
Found(p) == /\ Abs(p.off - CLK_TUNE_TIME) <= CLK_TUNE_OFFSET /\ finds < Finds /\ finds' = finds + 1
           /\ \E by \in {0, 2} : cmds' = Append(cmds, [op |-> "hop", by |-> by])
           /\ host' = [host EXCEPT !.trim_counter = 0, !.calibrated = FALSE]
cb_rx ==
  /\ pipe # <<>> /\ pipe' = Tail(pipe)
  /\ LET p == Head(pipe)
     IN \/ Early(p) /\ Trim(PERIOD + p.off - CLK_TUNE_TIME, p) /\ UNCHANGED finds
        \/ ~Early(p) /\ Late(p) /\ Trim(p.off - CLK_TUNE_TIME, p) /\ UNCHANGED finds
        \/ ~Early(p) /\ ~Late(p) /\ Count(p) /\ UNCHANGED <<cmds, finds>>
        \/ ~Early(p) /\ ~Late(p) /\ Found(p)
  /\ owed' = IF Trimming' \/ clk100ns_offset # 0 \/ owed > 0 THEN owed + 1 ELSE 0
  /\ UNCHANGED dev

-----------------------------------------------------------------------------
Init == /\ clkn = 0 /\ clkn_offset = 0 /\ clk100ns_offset = 0 /\ mr = HALF
        /\ drift = [ppm |-> 0, correction |-> 0, last |-> 0, next |-> 0]
        /\ next \in 0 .. PERIOD - 1 /\ skew \in {-1, 0, 1}
        /\ pipe = <<>> /\ cmds = <<>> /\ owed = 0
        /\ host = [trim_counter |-> 0, calibrated |-> FALSE, clkn_trim |-> 0]
        /\ ticks = 0 /\ finds = 0
Next == Tick \/ Request \/ cb_rx
Spec == Init /\ [][Next]_vars

-----------------------------------------------------------------------------
(* A trim the host asked for leaves packets beginning at CLK_TUNE_TIME, give *)
(* or take what the host tolerates twice and what the clocks drift as the    *)
(* trim is on its way: the host does not trim again for packets that were    *)
(* heard before its first trim took effect.                                  *)
Off == Abs(Phase - CLK_TUNE_TIME)
TrimLands == [][clk100ns_offset # 0 /\ ticks' # ticks => Off' <= 2 * CLK_TUNE_OFFSET + 1]_vars
=============================================================================
