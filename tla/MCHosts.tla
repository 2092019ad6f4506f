------------------------------ MODULE MCHosts ------------------------------
(* The parts in which a host and a device wait for each other, in one run:   *)
(* each behaviour is a behaviour of one of them, and the others rest in an   *)
(* initial state.                                                            *)
EXTENDS HostStream, Sequences

VARIABLES
  part,
  afh_map, afh_enabled, used_channels, hop_mode, channel, do_hop, hung, seen, callback, last_seen, pipe, cmds, piconet,
  prompt, running, cmd, super, stopped, msg_q, req_q, resp_q, btr_dev, hasty,
  role, rmt, up, down, setup, peer, afh, lmp_stopped

-----------------------------------------------------------------------------
CONSTANTS Piconets
AfhMap == INSTANCE AfhMap WITH tool <- callback, N <- 5, Step <- 2, packet_counter_max <- 3, Queue <- 1
BtrHost == INSTANCE BtrHost WITH dev <- btr_dev, early <- hasty
Lmp == INSTANCE Lmp WITH stopped <- lmp_stopped, Roles <- {"master", "slave"}, Refused <- {}

MCPiconets == {{1, 2}, {2}, {0, 1}, {0, 1, 4}}

-----------------------------------------------------------------------------
\* The parts with several initial states rest in one of them.
AfhMapRests == piconet = {2} /\ callback = "initial" /\ afh_enabled = FALSE /\ afh_map = {} /\ AfhMap!Init
LmpRests == role = "master" /\ Lmp!Init

HostsInit ==
  /\ part \in {"stream", "afh", "btrhost", "lmp"}
  /\ StreamInit /\ BtrHost!Init
  /\ IF part = "afh" THEN AfhMap!Init ELSE AfhMapRests
  /\ IF part = "lmp" THEN Lmp!Init ELSE LmpRests

afhVars == <<afh_map, afh_enabled, used_channels, hop_mode, channel, do_hop, hung, seen, callback, last_seen, pipe,
             cmds, piconet>>
btrhostVars == <<prompt, running, cmd, super, stopped, msg_q, req_q, resp_q, btr_dev, hasty>>
lmpVars == <<role, rmt, up, down, setup, peer, afh, lmp_stopped>>

HostsNext ==
  /\ UNCHANGED part
  /\ \/ part = "stream" /\ StreamNext /\ UNCHANGED <<afhVars, btrhostVars, lmpVars>>
     \/ part = "afh" /\ AfhMap!Next /\ UNCHANGED <<streamVars, btrhostVars, lmpVars>>
     \/ part = "btrhost" /\ BtrHost!Next /\ UNCHANGED <<streamVars, afhVars, lmpVars>>
     \/ part = "lmp" /\ Lmp!Next /\ UNCHANGED <<streamVars, afhVars, btrhostVars>>

(* Each part's own fairness.  The stream's: the operating system runs both   *)
(* threads; libusb_handle_events_timeout returns within a second, so the     *)
(* event thread looks at do_exit; a device told to stream sends, so that     *)
(* transfers do not time out for ever.                                       *)
PartsFair ==
  /\ WF_streamVars(part = "stream" /\ Main) /\ WF_streamVars(part = "stream" /\ cb_xfer)
  /\ WF_streamVars(part = "stream" /\ poll_thread_main /\ do_exit)
  /\ SF_streamVars(part = "stream" /\ Completed)
  /\ WF_afhVars(part = "afh" /\ AfhMap!hop) /\ WF_afhVars(part = "afh" /\ AfhMap!TIMER0_IRQHandler)
  /\ WF_afhVars(part = "afh" /\ AfhMap!Request) /\ WF_afhVars(part = "afh" /\ AfhMap!Callback)
  /\ \A c \in 0 .. 4 : SF_afhVars(part = "afh" /\ AfhMap!Hear(c))
  /\ WF_btrhostVars(part = "btrhost" /\ BtrHost!_start) /\ WF_btrhostVars(part = "btrhost" /\ BtrHost!run)
  /\ WF_btrhostVars(part = "btrhost" /\ BtrHost!run_ends) /\ WF_btrhostVars(part = "btrhost" /\ BtrHost!_handle_msg)
  /\ WF_btrhostVars(part = "btrhost" /\ BtrHost!run_super) /\ WF_btrhostVars(part = "btrhost" /\ BtrHost!Joined)
  /\ WF_btrhostVars(part = "btrhost" /\ BtrHost!btctl_handle_msg)
  /\ WF_btrhostVars(part = "btrhost" /\ BtrHost!SearchEnds)
  /\ WF_lmpVars(part = "lmp" /\ Lmp!receive) /\ WF_lmpVars(part = "lmp" /\ Lmp!PeerReceive)
  /\ WF_lmpVars(part = "lmp" /\ Lmp!PeerAct)

HostsSpec == /\ HostsInit
             /\ [][HostsNext]_<<part, streamVars, afhVars, btrhostVars, lmpVars>>
             /\ PartsFair

-----------------------------------------------------------------------------
(* EveryPacket is HostStream's.                                              *)

(* A started stream goes on to the last packet unless the tool is asked to   *)
(* stop, the ring was full or libusb failed; a signal closes it whatever     *)
(* became of its transfers (HostStream's Delivered and StreamEnds).               *)
StreamServed == Delivered /\ StreamEnds

(* The host's map of a piconet comes to hold every channel it uses, and the  *)
(* monitor's loses those it has left (AfhMap!MapRight).                      *)
MapRight == part = "afh" => AfhMap!MapRight

(* Who stops a ubtbr command that had started gets the prompt back, and a    *)
(* command that is over leaves nothing of its own to the next (BtrHost).     *)
CommandsEnd == BtrHost!StopReturns /\ []BtrHost!CommandsSeparate

(* Both ends finish the set-up of a link (Lmp!SetupEnds).                    *)
SetupEnds == part = "lmp" => Lmp!SetupEnds
=============================================================================
