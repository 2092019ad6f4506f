------------------------------- MODULE AfhMap -------------------------------
(* Finding the channels a piconet uses (ubertooth-afh): the device steps     *)
(* over the channels (hop of bluetooth_rxtx.c, its AFH requests, TIMER0);    *)
(* the host notes the channels it hears the piconet on (cb_afh_initial,      *)
(* cb_afh_monitor, cb_afh_r of ubertooth_callback.c) and, at first, tells    *)
(* the device to look among the others only.                                 *)
EXTENDS Integers, Sequences, FiniteSets

CONSTANTS
  N, Step,             \* 79 channels, taken 32 at a time
  packet_counter_max,  \* packets after which a channel not heard is no longer used
  Piconets,            \* the sets of channels a piconet may use
  Queue                \* packets, and requests, on their way at once

VARIABLES
  afh_map, afh_enabled, used_channels, hop_mode, channel, do_hop,
  hung,      \* hop() found no channel to step to
  seen,      \* the host's map of the piconet
  tool,      \* "initial" or "monitor": which callback takes the packets
  last_seen, \* packets since each channel was heard
  pipe,      \* channels of packets on their way to the host
  cmds,      \* requests on their way to the device
  piconet    \* the channels in use

device == <<afh_map, afh_enabled, used_channels, hop_mode, channel, do_hop, hung>>
host == <<seen, tool, last_seen>>
vars == <<device, host, pipe, cmds, piconet>>

Channels == 0 .. N - 1

-----------------------------------------------------------------------------
(* The device.                                                              *)

\* The channels hop() passes over: those not in use when it follows a map,
\* those in use when it looks for others.
Passed_found == IF hop_mode = "AFH" THEN Channels \ afh_map ELSE {}
Passed == IF hop_mode = "AFH" THEN IF used_channels = N THEN {} ELSE afh_map
          ELSE IF used_channels # 0 /\ afh_enabled THEN Channels \ afh_map ELSE {}
Stepped(k) == (channel + k * Step) % N
hop ==
  /\ do_hop /\ ~hung
  /\ IF Passed = Channels THEN hung' = TRUE /\ UNCHANGED <<channel, do_hop>>
     ELSE /\ do_hop' = FALSE /\ UNCHANGED hung
          /\ \E k \in 1 .. N : /\ Stepped(k) \notin Passed /\ channel' = Stepped(k)
                               /\ \A j \in 1 .. k - 1 : Stepped(j) \in Passed
  /\ UNCHANGED <<afh_map, afh_enabled, used_channels, hop_mode, host, pipe, cmds, piconet>>
TIMER0_IRQHandler == /\ ~do_hop /\ do_hop' = TRUE
                     /\ UNCHANGED <<afh_map, afh_enabled, used_channels, hop_mode, channel, hung, host, pipe, cmds, piconet>>

\* The interrupt serves requests whatever the main loop does.
Request ==
  /\ cmds # <<>> /\ cmds' = Tail(cmds)
  /\ LET r == Head(cmds)
     IN \/ /\ r.op = "AFH" /\ hop_mode' = "AFH" /\ afh_map' = {} /\ used_channels' = 0 /\ afh_enabled' = TRUE
           /\ UNCHANGED do_hop
        \/ /\ r.op = "SET_AFHMAP" /\ afh_map' = r.map /\ afh_enabled' = TRUE
           /\ UNCHANGED <<hop_mode, used_channels, do_hop>>
        \/ /\ r.op = "CLEAR_AFHMAP" /\ afh_map' = {} /\ afh_enabled' = FALSE
           /\ UNCHANGED <<hop_mode, used_channels, do_hop>>
        \/ /\ r.op = "HOP" /\ do_hop' = TRUE /\ UNCHANGED <<afh_map, afh_enabled, used_channels, hop_mode>>
  /\ UNCHANGED <<channel, hung, host, pipe, piconet>>

\* A packet of the piconet on the channel the device is tuned to.
Hear(c) == /\ channel = c /\ c \in piconet /\ ~hung /\ Len(pipe) < Queue
           /\ pipe' = Append(pipe, c)
           /\ UNCHANGED <<device, host, cmds, piconet>>

-----------------------------------------------------------------------------
(* The host.                                                                *)

channel_seen(s, c) == c \notin Channels \/ c \in s
\* A channel beside the new one that would be left alone among used ones is taken as used.
Filled(c) ==
  LET s1 == seen \cup {c}
      s2 == IF ~channel_seen(s1, c + 1) /\ channel_seen(s1, c + 2) THEN s1 \cup {c + 1} ELSE s1
  IN IF ~channel_seen(s2, c - 1) /\ channel_seen(s2, c - 2) THEN s2 \cup {c - 1} ELSE s2

cb_afh_initial(c) ==
  /\ tool = "initial"
  /\ IF c \in seen THEN seen' = seen ELSE seen' = Filled(c)
  /\ cmds' = cmds \o (IF c \in seen THEN <<>> ELSE <<[op |-> "SET_AFHMAP", map |-> seen']>>) \o <<[op |-> "HOP"]>>
  /\ UNCHANGED last_seen
Since(c) == [d \in Channels |-> IF d = c THEN 0 ELSE IF last_seen[d] < packet_counter_max THEN last_seen[d] + 1 ELSE last_seen[d]]
cb_afh_monitor(c) ==
  /\ tool = "monitor"
  /\ last_seen' = Since(c)
  /\ seen' = {d \in seen \cup {c} : last_seen'[d] < packet_counter_max}
  /\ cmds' = Append(cmds, [op |-> "HOP"])
Callback == /\ pipe # <<>> /\ pipe' = Tail(pipe) /\ Len(cmds) < Queue
            /\ cb_afh_initial(Head(pipe)) \/ cb_afh_monitor(Head(pipe))
            /\ UNCHANGED <<device, tool, piconet>>
\* rx_afh: the time given for the first map is over.
Timeout == /\ tool = "initial" /\ tool' = "monitor" /\ Len(cmds) < Queue
           /\ cmds' = cmds \o <<[op |-> "CLEAR_AFHMAP"], [op |-> "AFH"]>>
           /\ UNCHANGED <<device, seen, last_seen, pipe, piconet>>

\* The piconet adapts: it leaves channels.
Adapt == /\ tool = "monitor"
         /\ \E p \in Piconets : p \subseteq piconet /\ p # piconet /\ piconet' = p
         /\ UNCHANGED <<device, host, pipe, cmds>>

-----------------------------------------------------------------------------
\* The device is as another tool left it, and has been asked to look for channels.
Init == /\ piconet \in Piconets /\ tool \in {"initial", "monitor"}
        /\ afh_enabled \in BOOLEAN /\ afh_map \in {{}, {0}} /\ used_channels = Cardinality(afh_map)
        /\ hop_mode = "SWEEP" /\ channel = 0 /\ do_hop = FALSE /\ hung = FALSE
        /\ seen = {} /\ last_seen = [c \in Channels |-> 0]
        /\ pipe = <<>> /\ cmds = <<[op |-> "AFH"]>>
Next == \/ hop \/ TIMER0_IRQHandler \/ Request \/ Callback \/ Timeout \/ Adapt
        \/ \E c \in Channels : Hear(c)
Spec == Init /\ [][Next]_vars
\* The main loop, the timer, the requests and the callback go on; a piconet
\* hops over all its channels, so one the device keeps coming back to is heard.
FairSpec == /\ Spec /\ WF_vars(hop) /\ WF_vars(TIMER0_IRQHandler) /\ WF_vars(Request) /\ WF_vars(Callback)
            /\ \A c \in Channels : SF_vars(Hear(c))

-----------------------------------------------------------------------------
(* A tool that goes on looking ends with all the channels the piconet uses,  *)
(* and one that monitors it with none that it has left.                      *)
MapRight == /\ <>[](tool = "initial" => piconet \subseteq seen)
            /\ <>[](tool = "monitor" => seen \subseteq piconet)
=============================================================================
