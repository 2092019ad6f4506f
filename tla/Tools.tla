------------------------------- MODULE Tools --------------------------------
(* The command line tools (host/ubertooth-tools): each is a script of what   *)
(* its main does to the device, one control request at a time, while signals *)
(* arrive and the firmware's main loop enters and leaves modes.  One tool is *)
(* run after another.  Files, printing and the choice of options that end in *)
(* a usage message are left out; HostStream has the packets.                 *)
EXTENDS VendorRequests, HostCommands

CONSTANTS
  First, Second,  \* the tools to run
  Faults          \* requests and submissions that fail, and tools that are killed

VARIABLES
  tool, at,      \* the running tool and its step
  host,          \* stop (or running = 0), cancel, armed: the alarm, handlers: signals are caught; ghosts:
                 \* asked, it was signalled, and found, the mode it found the device in
  tools,         \* tools started
  d, func,       \* the device's shared variables; the mode's function it is in
  wants,         \* ghost: the settings the tool's own requests made
  faults

vars == <<tool, at, host, tools, d, func, wants, faults>>

-----------------------------------------------------------------------------
(* The scripts.  A step that fails ends the tool when "must", goes on after  *)
(* the next join when "skip" (rx_dump, rx_afh), and is ignored otherwise.    *)

NoCommand == PollCommand
Do(kind)  == [do |-> kind, cmd |-> NoCommand, if |-> "go on"]
Try(kind, if) == [do |-> kind, cmd |-> NoCommand, if |-> if]
Ask(c)    == [do |-> "ask", cmd |-> c, if |-> "go on"]
Must(c)   == [do |-> "ask", cmd |-> c, if |-> "must"]
When(cond, steps) == IF cond THEN steps ELSE << >>

SetChannel_(f) == Out("SET_CHANNEL", f, 0)
Sweep == SetChannel_(9999)
Bdaddr == OutData("SET_BDADDR", 0, 16, 7)
Plain(op) == Out(op, 0, 0)
RxSyms == Plain("RX_SYMBOLS")
Start == <<Try("connect", "must"), Try("check", "must")>>
Handlers == <<Do("handlers")>>
Alarm == <<Do("alarm")>>
\* ubertooth_bulk_init to ubertooth_bulk_thread_stop around the requests that start the mode.
Stream(asks, c, if) == <<Try("submit", if)>> \o asks \o <<[Ask(c) EXCEPT !.if = if], Do("loop"), Do("join")>>
Stop == <<Do("stop")>>

rx(uap, channel, timeout) ==
  Start \o When(uap, <<Ask(Bdaddr)>>) \o <<Ask(SetChannel_(channel))>> \o Handlers \o When(timeout, Alarm)
  \o Stream(<< >>, RxSyms, "must") \o Stop
scan == Start \o <<Ask(Sweep)>> \o Handlers \o Alarm \o Stream(<< >>, RxSyms, "must") \o Stop
follow(afh) ==
  Handlers \o Start
  \o Stream(<<Ask(Bdaddr), Ask(OutData("SET_CLOCK", 0, 4, 0))>> \o When(afh, <<Ask(OutData("SET_AFHMAP", 0, 10, 3))>>),
            OutData("START_HOPPING", 0, 6, 0), "must") \o Stop
specan == Start \o Handlers \o Stream(<< >>, Out("SPECAN", 2402, 2480), "must") \o Stop
tx(timeout) == Start \o <<Must(Bdaddr)>> \o Handlers \o When(timeout, Alarm)
               \o <<Must(Plain("TX_SYMBOLS")), Do("loop")>> \o Stop
rx_dump(le) == Start \o Handlers \o <<Ask(Out("SET_MOD", le, 0))>> \o Stream(<< >>, RxSyms, "skip") \o Stop
ego(mode) == Start \o Handlers \o When(mode = 1, <<Ask(SetChannel_(2418))>>)
             \o <<Ask(OutData("RFCAT_SUBCMD", 2, 1, 0)), Must(Out("EGO", mode, 0)), Do("poll")>> \o Stop
AdvFreq == [x \in 37 .. 39 |-> CASE x = 37 -> 2402 [] x = 38 -> 2426 [] OTHER -> 2480]
Slave(adv) == <<Ask(SetChannel_(AdvFreq[adv])), Ask(OutData("LE_SET_ADV_DATA", 0, 18, 0)), Ask(OutData("BTLE_SLAVE", 0, 6, 0))>>
ducky(adv) == Start \o Handlers \o Slave(adv) \o <<Do("sleep")>> \o Stop
btle(major, adv, target, jam) ==
  Start \o Handlers \o When(target, <<Must(OutData("BTLE_SET_TARGET", 0, 7, 48))>>)
  \o (IF major = "slave" THEN Slave(adv)
      ELSE <<[Ask(Out("JAM_MODE", jam, 0)) EXCEPT !.if = IF jam = 0 THEN "go on" ELSE "must"], Ask(Out("SET_MOD", 1, 0))>>
           \o (IF major = "promisc" THEN <<Ask(Plain("BTLE_PROMISC"))>>
               ELSE <<Ask(SetChannel_(AdvFreq[adv])), Ask(Out("BTLE_SNIFFING", IF major = "follow" THEN 1 ELSE 0, 0))>>)
           \o <<Do("poll")>> \o Stop)
rx_afh(timeout) ==
  <<Ask(Sweep)>>
  \o When(timeout, Alarm \o <<Ask(Plain("AFH"))>> \o Stream(<< >>, RxSyms, "skip") \o <<Ask(Plain("STOP")), Do("again")>>)
  \o <<Ask(Plain("CLEAR_AFHMAP")), Ask(Plain("AFH"))>> \o Stream(<< >>, RxSyms, "skip")
rx_afh_r == <<Ask(Sweep), Ask(Plain("AFH"))>> \o Stream(<< >>, RxSyms, "skip")
afh(r, timeout) == Start \o Handlers \o (IF r THEN rx_afh_r ELSE rx_afh(timeout)) \o Stop
util(cmd) == <<Try("connect", "must"), Ask(cmd)>>
UtilCommands == {Plain(op) : op \in {"STOP", "TX_TEST", "RANGE_TEST", "REPEATER", "RESET"}}
                \cup {Out("LED_SPECAN", 225, 0), SetChannel_(2440)}
debug == <<Try("connect", "must"), Ask(In("READ_REGISTER", 0, 2, 2))>>

Steps == [do : {"connect", "check", "submit", "join", "sleep", "handlers", "alarm", "again", "loop", "poll", "ask", "stop"},
          cmd : [op : STRING, dir : {"in", "out"}, v : Words, i : Words, n : 0 .. 258, data : Words, reads : 0 .. 258],
          if : {"go on", "must", "skip"}]
\* Where a step that is skipped goes on after, and what a step asks the device for.
Joins(script, i) == {j \in i + 1 .. Len(script) : script[j].do = "join" /\ \A k \in i + 1 .. j - 1 : script[k].do # "join"}
OpAt(step) == CASE step.do = "ask" -> step.cmd.op [] step.do = "stop" -> "STOP" [] OTHER -> "POLL"

\* The order of the requests in the scripts above: after one that takes the device
\* out of its mode, only those that start a mode write a setting, and after a
\* range test none; a device in the promiscuous mode is only stopped.
Writes(op) == CASE op = "SET_CHANNEL" -> {"channel", "hop_mode"} [] op = "SET_MOD" -> {"MOD"} [] op = "JAM_MODE" -> {"JAM_MODE"}
                [] op = "SET_BDADDR" -> {"target"} [] op = "EGO" -> {"EGO_MODE"}
                [] op \in {"AFH", "START_HOPPING", "BTLE_SNIFFING", "BTLE_PROMISC", "TX_SYMBOLS"} -> {"hop_mode"}
                [] OTHER -> {}
Starters == {"AFH", "START_HOPPING", "BTLE_SNIFFING", "BTLE_PROMISC", "TX_SYMBOLS", "EGO"}
Enders == {"STOP", "RESET", "FLASH", "RANGE_TEST"}
MayFollow(before, op) ==
  /\ before \in Enders => Writes(op) = {} \/ op \in Starters
  /\ before = "RANGE_TEST" => Writes(op) = {}
  /\ Writes(before) # {} => op \notin Enders \/ op = "STOP"
  /\ before = "BTLE_PROMISC" => op \in {"STOP", "POLL"}
Orderly(script) ==
  /\ script \in Seq(Steps)
  /\ \A i \in 1 .. Len(script) : script[i].if = "skip" => Joins(script, i) # {}
  /\ \A j \in 1 .. Len(script) : \A i \in 1 .. j - 1 : MayFollow(OpAt(script[i]), OpAt(script[j]))
ScriptsAssumption == \A script \in First \cup Second : Orderly(script)
ASSUME ScriptsAssumption

-----------------------------------------------------------------------------
(* The firmware's main loop (Rxtx has its steps): requests are served when   *)
(* the mode's function polls.                                               *)

cc2400_idle(d0) ==
  [InitialDevice(<< >>) EXCEPT !.target_set = d0.target_set, !.do_follow = d0.do_follow, !.cancel_follow = d0.cancel_follow,
     !.afh_map = d0.afh_map, !.afh_enabled = d0.afh_enabled,
     !.set = [d0.set EXCEPT !["MOD"] = 0, !["JAM_MODE"] = 0, !["EGO_MODE"] = 0]]
KeepsMode == {"SPECAN", "LED_SPECAN", "BT_SLAVE_LE"}
ReturnsAtOnce == {"AFH", "TX_TEST"}
MainLoop ==
  /\ func = "main" /\ d.requested_mode # d.mode
  /\ LET m == d.requested_mode
     IN  CASE m = "IDLE"  -> d' = cc2400_idle(d) /\ UNCHANGED func
           [] m = "RESET" -> d' = InitialDevice(<< >>) /\ UNCHANGED func
           [] OTHER -> /\ d' = IF m \in KeepsMode THEN d ELSE [d EXCEPT !.mode = m]
                       /\ func' = IF m \in ReturnsAtOnce THEN "main" ELSE m
  /\ UNCHANGED <<tool, at, host, tools, wants, faults>>
\* A mode ends when it sees another request; the promiscuous one in cc2400_idle; the repeater never.
Streams == {"RX_SYMBOLS", "BT_FOLLOW"}
ModeEnds_idles ==
  /\ func \notin {"main", "REPEATER", "RANGE_TEST"} /\ func' = "main"
  /\ d.requested_mode # func /\ ~(func \in Streams /\ d.requested_mode \in Streams)
  /\ d' = cc2400_idle(d)
  /\ UNCHANGED <<tool, at, host, tools, wants, faults>>
ModeEnds ==
  /\ func \notin {"main", "REPEATER"} /\ func' = "main"
  /\ \/ func = "RANGE_TEST" /\ d' = [d EXCEPT !.requested_mode = "IDLE"]
     \/ /\ func # "RANGE_TEST" /\ d.requested_mode # func /\ ~(func \in Streams /\ d.requested_mode \in Streams)
        /\ d' = IF func = "BT_PROMISC_LE" THEN cc2400_idle(d) ELSE d
  /\ UNCHANGED <<tool, at, host, tools, wants, faults>>
Settled == IF func = "main" THEN d.requested_mode = d.mode ELSE d.requested_mode = func

-----------------------------------------------------------------------------
(* A tool's steps.                                                          *)

Over == at > Len(tool)
Here(kinds) == ~Over /\ tool[at].do \in kinds
Fails == faults < Faults /\ faults' = faults + 1
Works == UNCHANGED faults
NextJoin == CHOOSE j \in Joins(tool, at) : TRUE
AfterFailure == CASE tool[at].if = "must" -> Len(tool) + 1
                  [] tool[at].if = "skip" -> NextJoin + 1
                  [] OTHER -> at + 1
GoOn == at' = at + 1 /\ UNCHANGED faults
Advance == GoOn \/ (Fails /\ at' = AfterFailure)
HostSame == UNCHANGED <<tool, tools, host>>
DeviceSame == UNCHANGED <<d, func, wants>>

Value(d0, f) == CASE f = "channel" -> d0.channel [] f = "hop_mode" -> d0.hop_mode [] f = "target" -> d0.target
                  [] OTHER -> d0.set[f]
Wants(w, op, d0) == IF op = "STOP" THEN << >>
                    ELSE [f \in DOMAIN w \cup Writes(op) |-> IF f \in Writes(op) THEN Value(d0, f) ELSE w[f]]
\* ubertooth_cmd_sync: a request that fails may have been served all the same.
Served(c) == LET e == vendor_request_handler(c, d).d IN d' = e /\ wants' = Wants(wants, c.op, e) /\ UNCHANGED func
Request(c) == \/ Served(c) /\ GoOn
              \/ Fails /\ at' = AfterFailure /\ (Served(c) \/ DeviceSame)
AskDevice == Here({"ask"}) /\ Request(tool[at].cmd) /\ HostSame

Simple == /\ Here({"connect", "check", "submit", "join", "sleep"})
          /\ IF tool[at].if = "go on" THEN GoOn ELSE Advance
          /\ HostSame /\ DeviceSame
register_cleanup_handler == /\ Here({"handlers"}) /\ GoOn /\ host' = [host EXCEPT !.handlers = TRUE]
                            /\ UNCHANGED <<tool, tools>> /\ DeviceSame
ubertooth_set_timeout == /\ Here({"alarm"}) /\ GoOn /\ host' = [host EXCEPT !.armed = TRUE]
                         /\ UNCHANGED <<tool, tools>> /\ DeviceSame
\* rx_afh's second phase: the flag is cleared, whoever set it.
Again == /\ Here({"again"}) /\ GoOn /\ host' = [host EXCEPT !.stop = FALSE, !.asked = FALSE]
         /\ UNCHANGED <<tool, tools>> /\ DeviceSame
Loop == Here({"loop"}) /\ host.stop /\ GoOn /\ HostSame /\ DeviceSame
Poll_error == Here({"poll"}) /\ Fails /\ at' = at + 1 /\ DeviceSame /\ HostSame
\* The polling loop ends on a failed request too.
Poll == /\ Here({"poll"}) /\ UNCHANGED <<tool, tools>>
        /\ \/ host.stop /\ GoOn /\ DeviceSame /\ UNCHANGED host
           \/ ~host.stop /\ Fails /\ at' = at + 1 /\ DeviceSame /\ UNCHANGED host
           \/ /\ ~host.stop /\ host.cancel /\ Works
              /\ host' = [host EXCEPT !.cancel = FALSE]
              /\ Served(Plain("CANCEL_FOLLOW")) /\ UNCHANGED at
ubertooth_stop == Here({"stop"}) /\ Request(Plain("STOP")) /\ HostSame
ToolStep == AskDevice \/ Simple \/ register_cleanup_handler \/ ubertooth_set_timeout \/ Again \/ Loop \/ Poll \/ ubertooth_stop

\* SIGINT, SIGQUIT or SIGTERM: caught, or the end of the tool; SIGALRM; SIGUSR1 of ubertooth-btle; SIGKILL.
Signal == /\ ~Over /\ ~host.asked
          /\ host' = [host EXCEPT !.stop = host.handlers, !.asked = TRUE]
          /\ at' = IF host.handlers THEN at ELSE Len(tool) + 1
          /\ UNCHANGED <<tool, tools, faults>> /\ DeviceSame
SigAlarm == /\ ~Over /\ host.armed /\ host' = [host EXCEPT !.stop = TRUE, !.armed = FALSE, !.asked = TRUE]
            /\ UNCHANGED <<tool, at, tools, faults>> /\ DeviceSame
SigUsr1 == /\ Here({"poll"}) /\ ~host.cancel /\ d.requested_mode \in {"BT_FOLLOW_LE", "BT_PROMISC_LE"}
           /\ host' = [host EXCEPT !.cancel = TRUE] /\ UNCHANGED <<tool, at, tools, faults>> /\ DeviceSame
SigKill == /\ ~Over /\ Fails /\ at' = Len(tool) + 1 /\ HostSame /\ DeviceSame
\* The next tool, by when the device's main loop has done what it was asked
\* and no range test is waiting to end by itself.
FreshHost(d0) == [stop |-> FALSE, cancel |-> FALSE, armed |-> FALSE, handlers |-> FALSE, asked |-> FALSE,
                  found |-> d0.requested_mode]
RunNext == /\ Over /\ tools = 1 /\ Settled /\ func # "RANGE_TEST" /\ tools' = 2
           /\ tool' \in Second /\ at' = 1 /\ host' = FreshHost(d) /\ wants' = << >>
           /\ UNCHANGED <<d, func, faults>>

Init == /\ tool \in First /\ at = 1 /\ tools = 1
        /\ d = InitialDevice(<< >>) /\ host = FreshHost(d) /\ func = "main" /\ wants = << >> /\ faults = 0
Next == MainLoop \/ ModeEnds \/ ToolStep \/ Signal \/ SigAlarm \/ SigUsr1 \/ SigKill \/ RunNext
\* The processor runs its loop, the operating system the tool.
FairSpec == Init /\ [][Next]_vars /\ WF_vars(MainLoop) /\ WF_vars(ModeEnds) /\ WF_vars(ToolStep)

-----------------------------------------------------------------------------
(* Properties.                                                              *)

(* While a tool receives, the device runs with every setting the tool asked *)
(* for: none is undone by the mode the last tool left or by cc2400_idle --  *)
(* unless that mode is the promiscuous one, which ends in cc2400_idle when  *)
(* the first request of the new tool has already been served.               *)
InLoop == Here({"loop", "poll"})
AsAsked == host.found # "BT_PROMISC_LE" /\ InLoop /\ Settled /\ func # "main" => \A f \in DOMAIN wants : Value(d, f) = wants[f]

(* A tool that was interrupted, at any moment, and not refused anything by  *)
(* USB leaves an idle device idle, unless it is one that starts a mode and ends *)
(* (util, btle -s).                                                         *)
Leaves == tool \in {util(c) : c \in UtilCommands} \cup {btle("slave", a, t, 0) : a \in 37 .. 39, t \in BOOLEAN}
InterruptedLeavesIdle == (Over /\ host.asked /\ host.found = "IDLE" /\ faults = 0 /\ ~Leaves) ~> (func = "main" /\ d.mode = "IDLE" /\ Settled)

(* One signal ends every tool, but for the first phase of rx_afh with a     *)
(* time limit, which it only ends.                                          *)
LastPhase == \A i \in at .. Len(tool) : tool[i].do # "again"
OneSignalEnds == (host.asked /\ LastPhase) ~> Over
=============================================================================
