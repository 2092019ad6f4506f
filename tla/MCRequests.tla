----------------------------- MODULE MCRequests ----------------------------
(* The control requests of the host, in one run: the tools with the device   *)
(* over them, and below them the control endpoint of the device. Each        *)
(* behaviour is a behaviour of one of the two, and the other rests in an     *)
(* initial state.                                                            *)
EXTENDS Tools, UsbControl

VARIABLE part

-----------------------------------------------------------------------------
\* Every tool with the options that change its script, then one that needs the
\* device as it was.
MCFirst == {rx(u, c, t) : u, t \in BOOLEAN, c \in {9999, 2441}}
           \cup {scan, specan, debug}
           \cup {follow(a) : a \in BOOLEAN} \cup {tx(t) : t \in BOOLEAN}
           \cup {rx_dump(m) : m \in {0, 1}} \cup {ego(m) : m \in 0 .. 2} \cup {ducky(38)}
           \cup {afh(r, t) : r, t \in BOOLEAN} \cup {util(c) : c \in UtilCommands}
           \cup {btle(m, a, t, 0) : m \in {"follow", "none", "promisc", "slave"}, a \in {37, 38}, t \in BOOLEAN}
           \cup {btle("follow", 37, FALSE, 1)}
MCSecond == {rx(TRUE, 9999, FALSE), follow(TRUE), rx_dump(1), btle("follow", 38, FALSE, 0),
             specan, ego(1), afh(FALSE, TRUE)}

\* Every wrapper and standard request, with arguments on both sides of the
\* limits the firmware checks, followed by one of a few that differ in
\* direction and in length: none, one packet, exactly two packets.
MCAll == HostRequests
MCFew == {PollCommand, In("GET_REV_NUM", 0, 2 + 1 + 255, 3), In("GET_SERIAL", 0, 17, 17), Out("STOP", 0, 0),
          OutData("SET_BDADDR", 0, 16, 60), Out("SET_PALEVEL", 60, 0)}
MCScript == <<MCAll, MCFew>>

-----------------------------------------------------------------------------
RequestsInit == /\ part \in {"tools", "usb"}
                /\ Init /\ (part # "tools" => tool = specan)
                /\ UsbInit
RequestsNext == /\ UNCHANGED part
                /\ \/ part = "tools" /\ Next /\ UNCHANGED usbVars
                   \/ part = "usb" /\ UsbNext /\ UNCHANGED vars

\* Each part's own fairness: the main loop goes on, the modes that end do, tools run;
\* the USB controller completes what can be completed and USBHwISR keeps being called.
PartsFair ==
  /\ WF_vars(part = "tools" /\ MainLoop) /\ WF_vars(part = "tools" /\ ModeEnds) /\ WF_vars(part = "tools" /\ ToolStep)
  /\ WF_usbVars(part = "usb" /\ HostStep) /\ WF_usbVars(part = "usb" /\ USBHwISR)
RequestsSpec == RequestsInit /\ [][RequestsNext]_<<part, vars, usbVars>> /\ PartsFair

(* AsAsked is Tools', ReplyHonest and TransferEnds are UsbControl's.         *)

(* One signal ends a tool's last phase, and a tool it has ended leaves the   *)
(* idle device it found idle (Tools).                                        *)
SignalEnds == OneSignalEnds /\ InterruptedLeavesIdle
=============================================================================
