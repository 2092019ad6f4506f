-------------------------------- MODULE Ego --------------------------------
(* Ego mode (ego.c): a device that follows a transmitter hopping over four   *)
(* channels, or listens on one.  The main loop calls the handler of the      *)
(* current state; the clock and the transmitter go on while a handler waits  *)
(* for the synthesizer or for bytes.  The transmit states (a build option)   *)
(* are left out.                                                             *)
EXTENDS Naturals

CONSTANTS
  Modes,        \* of the EGO request: 0 follows, 1 listens, others are refused
  Ms,           \* ticks of a millisecond
  EGO_WRAP,     \* ticks after which CLK100NS starts again
  EgoStarts,    \* CLK100NS at first
  Period,       \* ticks between two of the transmitter's packets
  LOCK,         \* ticks the synthesizer may take
  Reads,        \* ticks a packet may take to come in
  MaxMissed, MaxUnheard \* packets in a row that may be lost; that are not heard before the first

ASSUME EgoAssumption ==
  /\ Ms \in Nat \ {0} /\ Period = 11 * Ms
  /\ EGO_WRAP \in Nat /\ EGO_WRAP > 7 * Ms + 2 /\ EgoStarts \subseteq 0 .. EGO_WRAP - 1
  /\ LOCK \in Nat /\ MaxMissed \in Nat /\ Reads \subseteq Nat
  /\ \A r \in Reads : 6 * Ms + r + 2 * MaxMissed + LOCK + 4 <= Period

VARIABLES
  ego_requested, \* requested_mode is still MODE_EGO
  state, channel_index, sleep,  \* ego_fsm_state_t: sleep is [start, duration]
  ego_channel,
  radio,         \* the channel received, or OFF
  sync,          \* SYNC_RECEIVED
  doing, wait,   \* the wait a handler is in: "lock", "rx", "warm" or "no"; its ticks
  ego_clk,       \* CLK100NS
  late,          \* a turn with something to do has been put off for a tick
  mode,
  remote,        \* the transmitter: ticks to its next packet, and that one's channel
  heard, missed  \* ghosts: a packet has been heard; packets lost since

fsm == <<state, channel_index, sleep>>
device == <<ego_requested, fsm, ego_channel, radio, sync, doing, wait, late>>
egoVars == <<device, ego_clk, mode, remote, heard, missed>>

Chans == 0 .. 3    \* channels; 4 stands for every other one
OFF == 5
Turn == ego_requested /\ doing = "no" /\ late' = FALSE

\* sleep_ms and sleep_elapsed.
sleep_ms(n) == sleep' = [start |-> ego_clk, duration |-> n * Ms]
sleep_elapsed == (IF ego_clk < sleep.start THEN ego_clk + EGO_WRAP ELSE ego_clk) - sleep.start >= sleep.duration
\* SRFOFF and ssp_stop.
RadioOff == radio' = OFF /\ sync' = FALSE
Waits(what, ticks) == doing' = what /\ wait' \in ticks

init_state ==
  /\ Turn /\ state = "INIT"
  /\ state' = "START_RX"
  /\ IF mode = 0 THEN channel_index' = 0 /\ ego_channel' = 0 ELSE UNCHANGED <<channel_index, ego_channel>>
  /\ UNCHANGED <<ego_requested, sleep, radio, sync, doing, wait, ego_clk, mode, remote, heard, missed>>

start_rf_state ==
  /\ Turn /\ state = "START_RX"
  /\ Waits("lock", 0 .. LOCK)
  /\ UNCHANGED <<ego_requested, fsm, ego_channel, radio, sync, ego_clk, mode, remote, heard, missed>>
rf_on ==
  /\ doing = "lock" /\ wait = 0
  /\ doing' = "no"
  /\ radio' = ego_channel /\ sync' = FALSE
  /\ state' = "CAP"
  /\ UNCHANGED <<ego_requested, channel_index, sleep, ego_channel, wait, late, ego_clk, mode, remote, heard, missed>>

\* A sync overrides a timeout noticed in the same turn.
cap_state ==
  /\ Turn /\ state = "CAP" /\ mode = 0
  /\ \/ sync /\ Waits("rx", Reads) /\ UNCHANGED <<fsm, radio, sync>>
     \/ /\ ~sync /\ sleep_elapsed
        /\ sleep_ms(4) /\ state' = "SLEEP" /\ RadioOff
        /\ UNCHANGED <<channel_index, doing, wait>>
  /\ UNCHANGED <<ego_requested, ego_channel, ego_clk, mode, remote, heard, missed>>
do_rx ==
  /\ doing = "rx" /\ wait = 0
  /\ doing' = "no"
  /\ sleep_ms(6) /\ state' = "SLEEP" /\ RadioOff
  /\ UNCHANGED <<ego_requested, channel_index, ego_channel, wait, late, ego_clk, mode, remote, heard, missed>>

sleep_state_unarmed ==
  /\ Turn /\ state = "SLEEP" /\ sleep_elapsed
  /\ channel_index' = (channel_index + 1) % 4
  /\ ego_channel' = channel_index'
  /\ state' = "START_RX"
  /\ UNCHANGED <<ego_requested, sleep, radio, sync, doing, wait, ego_clk, mode, remote, heard, missed>>
sleep_state ==
  /\ Turn /\ state = "SLEEP" /\ sleep_elapsed
  /\ channel_index' = (channel_index + 1) % 4
  /\ ego_channel' = channel_index'
  /\ sleep_ms(7) /\ state' = "START_RX"
  /\ UNCHANGED <<ego_requested, radio, sync, doing, wait, ego_clk, mode, remote, heard, missed>>

\* Continuous reception: the packet, then a restart with the radio warm.
continuous_cap_state ==
  /\ Turn /\ state = "CAP" /\ mode = 1 /\ sync
  /\ Waits("rx1", Reads)
  /\ UNCHANGED <<ego_requested, fsm, ego_channel, radio, sync, ego_clk, mode, remote, heard, missed>>
Warm ==
  /\ doing = "rx1" /\ wait = 0
  /\ Waits("warm", 0 .. LOCK)
  /\ RadioOff
  /\ UNCHANGED <<ego_requested, fsm, ego_channel, ego_clk, late, mode, remote, heard, missed>>
Restart ==
  /\ doing = "warm" /\ wait = 0
  /\ doing' = "no"
  /\ radio' = ego_channel
  /\ UNCHANGED <<ego_requested, fsm, ego_channel, sync, wait, late, ego_clk, mode, remote, heard, missed>>

-----------------------------------------------------------------------------
\* The USB interrupt takes another mode's request; ego_main sees it once the
\* handler is done, and switches the radio off.
EgoStop == /\ ego_requested /\ ego_requested' = FALSE
           /\ UNCHANGED <<fsm, ego_channel, radio, sync, doing, wait, ego_clk, late, mode, remote, heard, missed>>
Leaves == /\ ~ego_requested /\ doing = "no" /\ state # "left"
          /\ state' = "left" /\ channel_index' = 0 /\ sleep' = [start |-> 0, duration |-> 0]
          /\ RadioOff
          /\ remote' = [in |-> 0, chan |-> 0] /\ ego_clk' = 0 /\ missed' = 0 /\ heard' = FALSE
          /\ UNCHANGED <<ego_requested, ego_channel, doing, wait, late, mode>>

\* The transmitter sends a packet; it may be lost, or find nobody listening.
Sends(lost) ==
  /\ state # "left" /\ remote.in = 0
  /\ remote' = [in |-> Period, chan |-> (remote.chan + 1) % 4]
  /\ IF radio = remote.chan /\ ~lost
     THEN sync' = TRUE /\ heard' = TRUE /\ missed' = 0
     ELSE /\ UNCHANGED <<sync, heard>>
          /\ missed' = missed + 1
  /\ UNCHANGED <<ego_requested, fsm, ego_channel, radio, doing, wait, ego_clk, late, mode>>

\* A turn of the loop with something to do comes a tick late at most; the
\* others do not matter.
TurnDue == doing = "no" /\ (~ego_requested \/ state \in {"INIT", "START_RX"} \/ (state = "CAP" /\ sync)
                        \/ (sleep_elapsed /\ mode = 0))
EgoPass ==
  /\ state # "left" /\ remote.in > 0 /\ missed <= (IF heard THEN MaxMissed ELSE MaxUnheard)
  /\ wait > 0 \/ (doing = "no" /\ ~(late /\ TurnDue))
  /\ ego_clk' = (ego_clk + 1) % EGO_WRAP
  /\ remote' = [remote EXCEPT !.in = @ - 1]
  /\ wait' = IF wait > 0 THEN wait - 1 ELSE 0
  /\ late' = TurnDue
  /\ UNCHANGED <<ego_requested, fsm, ego_channel, radio, sync, doing, mode, heard, missed>>

\* ego_main: a mode it does not have ends at once.
EgoInit ==
  /\ mode \in Modes /\ ego_requested = (mode \in {0, 1})
  /\ state = "INIT" /\ channel_index = 0 /\ sleep = [start |-> 0, duration |-> 0]
  /\ ego_channel \in (IF mode = 0 THEN {4} ELSE Chans \cup {4})
  /\ radio = OFF /\ sync = FALSE /\ doing = "no" /\ wait = 0
  /\ ego_clk \in EgoStarts /\ late = FALSE
  /\ remote \in [in : 0 .. Period, chan : Chans]
  /\ heard = FALSE /\ missed = 0

EgoNext == \/ init_state \/ start_rf_state \/ rf_on \/ cap_state \/ do_rx \/ sleep_state
        \/ continuous_cap_state \/ Warm \/ Restart
        \/ EgoStop \/ Leaves \/ (\E lost \in BOOLEAN : Sends(lost)) \/ EgoPass
EgoSpec == EgoInit /\ [][EgoNext]_egoVars

-----------------------------------------------------------------------------
(* Once the device has heard a packet it listens on the transmitter's        *)
(* channel whenever a packet goes out, however its own turns and waits fall  *)
(* and though MaxMissed packets in a row are lost: the timeouts of a lost    *)
(* packet (7 ms and 4 ms) and of one heard (6 ms) keep the window around it. *)
Follows == (mode = 0 /\ ego_requested /\ heard /\ missed <= MaxMissed /\ remote.in = 0) => radio = remote.chan
============================================================================
