----------------------------- MODULE LinkLayer -----------------------------
(***************************************************************************)
(* The BR/EDR link layer of btphy/ll.c at both ends of a connection, as    *)
(* master_state.c and slave_state.c drive it: stop-and-wait retransmission *)
(* with the one-bit SEQN and ARQN flags of the packet header, the          *)
(* supervision timeout, cancellation by the host, and the radio channel    *)
(* between the two, which loses packets, damages payloads and carries the  *)
(* packets of other connections of the piconet.                            *)
(*                                                                         *)
(* A frame is one master slot followed by one slave slot.  In its slot an  *)
(* end whose next task is tx transmits; the other, if its next task is rx, *)
(* then runs its receive callback.  The slots that a multi-slot packet and *)
(* its decoding take are frames in which the end lets its turn pass.       *)
(*                                                                         *)
(* Messages are abstract; tx_q, shared with the rest of the firmware, is   *)
(* reduced to its length (MsgQueue shows it is a FIFO).                    *)
(***************************************************************************)
EXTENDS Integers, Sequences

CONSTANTS Msgs,             \* ACL messages of the hosts
          NULL,             \* no message
          NoPkt,            \* no packet
          AclCap, TxqCap,   \* messages acl_tx_q and tx_q hold
          SUPERVISION_TO,   \* supervision timeout, in frames
          MaxSent,          \* bound: messages the host of each end sends
                            \* per connection
          Foreign           \* other connections share the master's channel

ASSUME LinkAssumption ==
  /\ NULL \notin Msgs
  /\ AclCap \in Nat \ {0} /\ TxqCap \in Nat \ {0}
  /\ SUPERVISION_TO \in Nat
  /\ MaxSent \in [{"master", "slave"} -> Nat]
  /\ Foreign \in BOOLEAN

Ends == {"master", "slave"}
peer(e) == IF e = "master" THEN "slave" ELSE "master"

Flag == {0, 1}
Pkt == [type : {"POLL", "NULL", "ACL"}, arqn : Flag, seqn : Flag,
        msg : Msgs \cup {NULL}]
ASSUME NoPktAssumption == NoPkt \notin Pkt

VARIABLES
  (* link_layer_t *)
  is_connected, rmt_seqn, loc_seqn, loc_arqn, cur_tx_msg,
  age,        \* age[e]: frames since clkn_last_rx
  (* btctl *)
  state,      \* state[e]: btctl.state; "PAGE" also stands for PAGE_SCAN
  acl_tx_q,   \* acl_tx_q[e]: messages waiting to be transmitted
  tx_q,       \* tx_q[e]: number of messages waiting for the host
  (* the end's next task, its packet, and the radio *)
  task,       \* task[e]: "tx", "rx" or "off"
  pkt,        \* pkt[e]: the packet handed to tx_task_schedule
  air,        \* the packet on the air
  slot,       \* whose turn it is
  (* history *)
  sent,       \* sent[e]: messages accepted into acl_tx_q
  rcvd,       \* rcvd[e]: messages put into tx_q
  acked       \* acked[e]: messages freed on an ARQN

ll == <<is_connected, rmt_seqn, loc_seqn, loc_arqn, cur_tx_msg, age>>
hist == <<sent, rcvd, acked>>
vars == <<ll, state, acl_tx_q, tx_q, task, pkt, air, slot, hist>>

Slots == <<"master_tx", "slave_rx", "slave_tx", "master_rx", "tick">>
TxSlot(e) == IF e = "master" THEN "master_tx" ELSE "slave_tx"
RxSlot(e) == IF e = "master" THEN "master_rx" ELSE "slave_rx"
After(s) == CASE s = "master_tx" -> "slave_rx"
              [] s = "slave_rx"  -> "slave_tx"
              [] s = "slave_tx"  -> "master_rx"
              [] s = "master_rx" -> "tick"
              [] s = "tick"      -> "master_tx"

Init == /\ is_connected = [e \in Ends |-> FALSE]
        /\ rmt_seqn = [e \in Ends |-> 0]
        /\ loc_seqn = [e \in Ends |-> 0]
        /\ loc_arqn = [e \in Ends |-> 0]
        /\ cur_tx_msg = [e \in Ends |-> NULL]
        /\ age = [e \in Ends |-> 0]
        /\ state = [e \in Ends |-> "STANDBY"]
        /\ acl_tx_q = [e \in Ends |-> << >>]
        /\ tx_q = [e \in Ends |-> 0]
        /\ task = [e \in Ends |-> "off"]
        /\ pkt = [e \in Ends |-> NoPkt]
        /\ air = NoPkt
        /\ slot = "master_tx"
        /\ sent = [e \in Ends |-> << >>]
        /\ rcvd = [e \in Ends |-> << >>]
        /\ acked = [e \in Ends |-> << >>]

-----------------------------------------------------------------------------
(* The host's side of a device.                                            *)

(* btctl_send_state_resp: the host is told of a new state if tx_q has room.*)
state_resp(n) == IF n < TxqCap THEN n + 1 ELSE n

(* btctl_handle_tx_acl_req: a message that does not fit is dropped.        *)
TxAcl(e, m) ==
  /\ state[e] # "HALTED"
  /\ Len(sent[e]) < MaxSent[e]
  /\ Len(acl_tx_q[e]) < AclCap
  /\ acl_tx_q' = [acl_tx_q EXCEPT ![e] = Append(@, m)]
  /\ sent' = [sent EXCEPT ![e] = Append(@, m)]
  /\ UNCHANGED <<ll, state, tx_q, task, pkt, air, slot, rcvd, acked>>

(* usb_work passes a message on.                                           *)
HostRead(e) ==
  /\ state[e] # "HALTED"
  /\ tx_q[e] > 0
  /\ tx_q' = [tx_q EXCEPT ![e] = @ - 1]
  /\ UNCHANGED <<ll, state, acl_tx_q, task, pkt, air, slot, hist>>

(* btctl_handle_idle_req: the scheduled task finds out at its callback.    *)
Idle(e) ==
  /\ state[e] \in {"PAGE", "CONNECTED"}
  /\ state' = [state EXCEPT ![e] = "STANDBY"]
  /\ tx_q' = [tx_q EXCEPT ![e] = state_resp(@)]
  /\ UNCHANGED <<ll, acl_tx_q, task, pkt, air, slot, hist>>

(* btctl_handle_paging_req at one end, btctl_handle_page_scan_req at the   *)
(* other: each flushes its queue.                                          *)
Page ==
  /\ \A e \in Ends : state[e] = "STANDBY" /\ task[e] = "off"
  /\ state' = [e \in Ends |-> "PAGE"]
  /\ acl_tx_q' = [e \in Ends |-> << >>]
  /\ sent' = [e \in Ends |-> << >>]
  /\ rcvd' = [e \in Ends |-> << >>]
  /\ acked' = [e \in Ends |-> << >>]
  /\ tx_q' = [e \in Ends |-> state_resp(tx_q[e])]
  /\ UNCHANGED <<ll, task, pkt, air, slot>>

-----------------------------------------------------------------------------
(* ll_prepare_tx after the callback has left cur_tx_msg, loc_seqn and      *)
(* loc_arqn at cur, seqn and arqn; then the state module schedules tx.     *)
ll_prepare_tx(e, cur, seqn, arqn) ==
  LET fetch == cur = NULL /\ acl_tx_q[e] # << >>
      m     == IF fetch THEN Head(acl_tx_q[e]) ELSE cur
      type  == IF m # NULL THEN "ACL" ELSE IF e = "master" THEN "POLL" ELSE "NULL"
  IN  /\ cur_tx_msg' = [cur_tx_msg EXCEPT ![e] = m]
      /\ acl_tx_q' = IF fetch THEN [acl_tx_q EXCEPT ![e] = Tail(@)] ELSE acl_tx_q
      /\ pkt' = [pkt EXCEPT ![e] = [type |-> type, arqn |-> arqn,
                                    seqn |-> seqn, msg |-> m]]
      /\ loc_seqn' = [loc_seqn EXCEPT ![e] = seqn]
      /\ loc_arqn' = [loc_arqn EXCEPT ![e] = 0]
      /\ task' = [task EXCEPT ![e] = "tx"]

(* ... or schedules rx instead.                                            *)
ScheduleRx(e, cur, seqn, arqn) ==
  /\ cur_tx_msg' = [cur_tx_msg EXCEPT ![e] = cur]
  /\ loc_seqn' = [loc_seqn EXCEPT ![e] = seqn]
  /\ loc_arqn' = [loc_arqn EXCEPT ![e] = arqn]
  /\ task' = [task EXCEPT ![e] = "rx"]
  /\ UNCHANGED <<acl_tx_q, pkt>>

(* The state module acts on the result of ll_process_rx.                   *)
Respond(e, tx, cur, seqn, arqn) ==
  IF tx THEN ll_prepare_tx(e, cur, seqn, arqn)
        ELSE ScheduleRx(e, cur, seqn, arqn)

(* master_state_init, slave_state_init: ll_init, and the first tx (master) *)
(* or rx (slave).  If the last ID packet of the page response is lost, the *)
(* slave alone connects and the master goes on paging until it times out.  *)
ll_init(E) ==
  /\ is_connected' = [e \in Ends |-> IF e \in E THEN FALSE ELSE is_connected[e]]
  /\ rmt_seqn' = [e \in Ends |-> IF e \in E THEN 1 ELSE rmt_seqn[e]]
  /\ age' = [e \in Ends |-> IF e \in E THEN 0 ELSE age[e]]

Connect ==
  /\ \A e \in Ends : state[e] = "PAGE" /\ task[e] = "off"
  /\ slot = "master_tx"
  /\ ll_init(Ends)
  /\ state' = [e \in Ends |-> "CONNECTED"]
  /\ LET fetch == acl_tx_q["master"] # << >>
         m == IF fetch THEN Head(acl_tx_q["master"]) ELSE NULL
     IN  /\ cur_tx_msg' = [e \in Ends |-> IF e = "master" THEN m ELSE NULL]
         /\ acl_tx_q' = IF fetch THEN [acl_tx_q EXCEPT !["master"] = Tail(@)]
                                 ELSE acl_tx_q
         /\ pkt' = [pkt EXCEPT !["master"] =
                      [type |-> IF fetch THEN "ACL" ELSE "POLL", arqn |-> 0,
                       seqn |-> 1, msg |-> m]]
  /\ loc_seqn' = [e \in Ends |-> 1]
  /\ loc_arqn' = [e \in Ends |-> 0]
  /\ task' = [e \in Ends |-> IF e = "master" THEN "tx" ELSE "rx"]
  /\ tx_q' = [e \in Ends |-> state_resp(tx_q[e])]
  /\ UNCHANGED <<air, slot, hist>>

ConnectSlaveOnly ==
  /\ \A e \in Ends : state[e] = "PAGE" /\ task[e] = "off"
  /\ slot = "master_tx"
  /\ ll_init({"slave"})
  /\ state' = [e \in Ends |-> IF e = "slave" THEN "CONNECTED" ELSE "STANDBY"]
  /\ ScheduleRx("slave", NULL, 1, 0)
  /\ tx_q' = [e \in Ends |-> state_resp(tx_q[e])]
  /\ UNCHANGED <<air, slot, hist>>

-----------------------------------------------------------------------------
(* The two slots of a frame.                                               *)
Advance(a) == slot' = After(slot) /\ air' = a

(* tx_execute, and tx_done_cb, which schedules the next rx.                *)
Transmit(e) ==
  /\ slot = TxSlot(e) /\ task[e] = "tx"
  /\ Advance(pkt[e])
  /\ task' = [task EXCEPT ![e] = "rx"]
  /\ pkt' = [pkt EXCEPT ![e] = NoPkt]
  /\ UNCHANGED <<ll, state, acl_tx_q, tx_q, hist>>

(* The turn passes: nothing is scheduled in this slot, or a multi-slot     *)
(* packet is still being sent, received or decoded.                        *)
TurnPasses ==
  /\ slot # "tick"
  /\ Advance(NoPkt)
  /\ UNCHANGED <<ll, state, acl_tx_q, tx_q, task, pkt, hist>>

Listening(e) == slot = RxSlot(e) /\ task[e] = "rx"

(* ll_reset: the state module gives up the link.                           *)
ll_reset(e) == /\ cur_tx_msg' = [cur_tx_msg EXCEPT ![e] = NULL]
               /\ task' = [task EXCEPT ![e] = "off"]
               /\ UNCHANGED <<is_connected, rmt_seqn, loc_seqn, loc_arqn,
                              acl_tx_q, pkt, hist>>

(* master_rx_cb, slave_rx_cb after cancellation.                           *)
RxCanceled(e) ==
  /\ Listening(e)
  /\ state[e] # "CONNECTED"
  /\ Advance(NoPkt)
  /\ ll_reset(e)
  /\ UNCHANGED <<age, state, tx_q>>

(* ll_process_rx: no header.  The slot was empty, or the header was lost.  *)
TimedOut_if_connected(e) == is_connected[e] /\ age[e] > SUPERVISION_TO
TimedOut(e) == age[e] > SUPERVISION_TO

RxTimeout(e) ==
  /\ Listening(e)
  /\ state[e] = "CONNECTED"
  /\ TimedOut(e)
  /\ Advance(NoPkt)
  /\ state' = [state EXCEPT ![e] = "STANDBY"]
  /\ tx_q' = [tx_q EXCEPT ![e] = state_resp(@)]
  /\ ll_reset(e)
  /\ UNCHANGED age

RxNothing(e) ==
  /\ Listening(e)
  /\ state[e] = "CONNECTED"
  /\ ~TimedOut(e)
  /\ Advance(NoPkt)
  /\ Respond(e, e = "master", cur_tx_msg[e], loc_seqn[e], loc_arqn[e])
  /\ UNCHANGED <<is_connected, rmt_seqn, age, state, tx_q, hist>>

(* ll_process_rx: a header is traffic of the connection, and the first one *)
(* is reported to the host.                                                *)
Heard(e) == /\ is_connected' = [is_connected EXCEPT ![e] = TRUE]
            /\ age' = [age EXCEPT ![e] = 0]
TxqHeard(e) == IF is_connected[e] THEN tx_q[e] ELSE state_resp(tx_q[e])

(* ll_process_rx: the header of another slave's packet.  It counts as      *)
(* traffic of the connection, but is not answered.                         *)
RxForeign(e) ==
  /\ Foreign /\ e = "slave" /\ air = NoPkt
  /\ Listening(e) /\ state[e] = "CONNECTED"
  /\ Advance(NoPkt)
  /\ Heard(e)
  /\ tx_q' = [tx_q EXCEPT ![e] = TxqHeard(e)]
  /\ ScheduleRx(e, cur_tx_msg[e], loc_seqn[e], loc_arqn[e])
  /\ UNCHANGED <<rmt_seqn, state, hist>>

(* ll_process_rx: a packet for this end.                                   *)
HasCrc == air.msg # NULL
IsAck(e) == air.arqn = 1 /\ cur_tx_msg[e] # NULL
IsDuplicate(e) == HasCrc /\ air.seqn # rmt_seqn[e]
IsNew(e, goodCrc) == HasCrc /\ air.seqn = rmt_seqn[e] /\ goodCrc

CurAfterAck_dropped(e) == NULL
CurAfterAck(e) == IF IsAck(e) THEN NULL ELSE cur_tx_msg[e]
SeqnAfterAck(e) == IF IsAck(e) THEN 1 - loc_seqn[e] ELSE loc_seqn[e]
ArqnAfter_bad_crc(e, goodCrc) == IF HasCrc THEN 1 ELSE loc_arqn[e]
ArqnAfter(e, goodCrc) ==
  IF IsDuplicate(e) \/ IsNew(e, goodCrc) THEN 1 ELSE loc_arqn[e]

RxPacket(e, goodCrc) ==
  /\ Listening(e)
  /\ state[e] = "CONNECTED"
  /\ air # NoPkt
  /\ IsNew(e, goodCrc) => TxqHeard(e) < TxqCap
  /\ Advance(NoPkt)
  /\ Heard(e)
  /\ acked' = IF IsAck(e) THEN [acked EXCEPT ![e] = Append(@, cur_tx_msg[e])]
                          ELSE acked
  /\ IF IsNew(e, goodCrc)
     THEN /\ rcvd' = [rcvd EXCEPT ![e] = Append(@, air.msg)]
          /\ tx_q' = [tx_q EXCEPT ![e] = TxqHeard(e) + 1]
          /\ rmt_seqn' = [rmt_seqn EXCEPT ![e] = 1 - @]
     ELSE /\ tx_q' = [tx_q EXCEPT ![e] = TxqHeard(e)]
          /\ UNCHANGED <<rcvd, rmt_seqn>>
  /\ Respond(e, \/ e = "master"
                \/ air.type = "POLL"
                \/ ArqnAfter(e, goodCrc) = 1,
             CurAfterAck(e), SeqnAfterAck(e), ArqnAfter(e, goodCrc))
  /\ UNCHANGED <<state, sent>>

(* ll_process_rx: the host does not read, tx_q is full: DIE.               *)
RxDie(e) ==
  /\ Listening(e)
  /\ state[e] = "CONNECTED"
  /\ air # NoPkt
  /\ IsNew(e, TRUE)
  /\ TxqHeard(e) = TxqCap
  /\ Advance(NoPkt)
  /\ state' = [state EXCEPT ![e] = "HALTED"]
  /\ task' = [task EXCEPT ![e] = "off"]
  /\ Heard(e)
  /\ acked' = IF IsAck(e) THEN [acked EXCEPT ![e] = Append(@, cur_tx_msg[e])]
                          ELSE acked
  /\ cur_tx_msg' = [cur_tx_msg EXCEPT ![e] = CurAfterAck(e)]
  /\ loc_seqn' = [loc_seqn EXCEPT ![e] = SeqnAfterAck(e)]
  /\ tx_q' = [tx_q EXCEPT ![e] = TxqCap]
  /\ UNCHANGED <<rmt_seqn, loc_arqn, acl_tx_q, pkt, sent, rcvd>>

(* A frame of the native clock has passed (the count is capped where its   *)
(* value no longer matters).                                               *)
Tick ==
  /\ slot = "tick"
  /\ Advance(NoPkt)
  /\ age' = [e \in Ends |-> IF age[e] > SUPERVISION_TO THEN age[e] ELSE age[e] + 1]
  /\ UNCHANGED <<is_connected, rmt_seqn, loc_seqn, loc_arqn, cur_tx_msg, state,
                 acl_tx_q, tx_q, task, pkt, hist>>

Rx(e) == \/ RxCanceled(e) \/ RxTimeout(e) \/ RxNothing(e) \/ RxForeign(e)
         \/ \E goodCrc \in BOOLEAN : RxPacket(e, goodCrc)
         \/ RxDie(e)

Next == \/ \E e \in Ends : \/ \E m \in Msgs : TxAcl(e, m)
                           \/ HostRead(e) \/ Idle(e)
                           \/ Transmit(e) \/ Rx(e)
        \/ Page \/ Connect \/ ConnectSlaveOnly
        \/ TurnPasses \/ Tick

Spec == Init /\ [][Next]_vars

(* The clock runs; an end gets its turn again after a multi-slot packet;   *)
(* the channel lets a packet through from time to time; the USB host reads.*)
Fairness == /\ WF_vars(Tick \/ TurnPasses)
            /\ \A e \in Ends : /\ SF_vars(Transmit(e))
                              /\ SF_vars(Rx(e))
                              /\ SF_vars(RxPacket(e, TRUE))
                              /\ WF_vars(HostRead(e))

FairSpec == Spec /\ Fairness

-----------------------------------------------------------------------------
TypeOK ==
  /\ is_connected \in [Ends -> BOOLEAN]
  /\ rmt_seqn \in [Ends -> Flag]
  /\ loc_seqn \in [Ends -> Flag]
  /\ loc_arqn \in [Ends -> Flag]
  /\ cur_tx_msg \in [Ends -> Msgs \cup {NULL}]
  /\ age \in [Ends -> 0 .. SUPERVISION_TO + 1]
  /\ state \in [Ends -> {"STANDBY", "PAGE", "CONNECTED", "HALTED"}]
  /\ acl_tx_q \in [Ends -> Seq(Msgs)]
  /\ tx_q \in [Ends -> 0 .. TxqCap]
  /\ task \in [Ends -> {"tx", "rx", "off"}]
  /\ pkt \in [Ends -> Pkt \cup {NoPkt}]
  /\ air \in Pkt \cup {NoPkt}
  /\ slot \in {"master_tx", "slave_rx", "slave_tx", "master_rx", "tick"}
  /\ sent \in [Ends -> Seq(Msgs)]
  /\ rcvd \in [Ends -> Seq(Msgs)]
  /\ acked \in [Ends -> Seq(Msgs)]

Begins(s, t) == Len(s) <= Len(t) /\ \A i \in 1 .. Len(s) : s[i] = t[i]

(* Over a channel that loses headers and damages payloads, each host is    *)
(* handed the other's messages in order, each at most once and none made   *)
(* up, whatever is retransmitted, cancelled or timed out.                  *)
InOrderOnce == \A e \in Ends : Begins(rcvd[peer(e)], sent[e])

(* A message is freed as acknowledged only after the peer has passed it to *)
(* its host: an ARQN is never taken for the acknowledgement of a message   *)
(* it was not sent for, and at most one message is ahead of its            *)
(* acknowledgement.                                                        *)
AckedOnlyIfDelivered ==
  \A e \in Ends : /\ Begins(acked[e], rcvd[peer(e)])
                  /\ task[e] # "off" => Len(rcvd[peer(e)]) <= Len(acked[e]) + 1

(* While the link is up no message is lost on the way from the host: every *)
(* accepted message is acknowledged, current, or still queued.             *)
Live(e) == task[e] # "off"
Current(e) == IF cur_tx_msg[e] = NULL THEN << >> ELSE <<cur_tx_msg[e]>>
NothingLost ==
  \A e \in Ends : Live(e) => sent[e] = (acked[e] \o Current(e)) \o acl_tx_q[e]

(* The two devices together are a reliable link.                           *)
Reliable == INSTANCE ReliableLink
ImplementsReliableLink == Reliable!Spec

(* A message accepted while both ends are connected reaches the other host *)
(* unless the connection ends.                                             *)
Up == \A e \in Ends : state[e] = "CONNECTED"
Delivered ==
  \A e \in Ends : \A n \in 1 .. MaxSent[e] :
     Up /\ Len(sent[e]) >= n ~> ~Up \/ Len(rcvd[peer(e)]) >= n

(* When one end has left the connection the other one notices, by its      *)
(* supervision timeout, and leaves it too.                                 *)
BothLeave ==
  \A e \in Ends : state[peer(e)] # "CONNECTED" ~> state[e] # "CONNECTED"

-----------------------------------------------------------------------------
(* The inductive invariant behind the safety properties, for the           *)
(* messages from e to its peer.  delivered: the peer has e's current       *)
(* message already, and only its acknowledgement is missing.               *)
IsDelivered(e) == rcvd[peer(e)] # acked[e]

SenderState(e) ==
  /\ Live(e) => sent[e] = (acked[e] \o Current(e)) \o acl_tx_q[e]
  /\ Live(e) => \/ rcvd[peer(e)] = acked[e]
                \/ /\ cur_tx_msg[e] # NULL
                   /\ rcvd[peer(e)] = Append(acked[e], cur_tx_msg[e])
  /\ state[e] = "PAGE" => /\ ~Live(e)
                          /\ sent[e] = acl_tx_q[e]
                          /\ acked[e] = << >> /\ rcvd[e] = << >>

(* The sequence bits agree exactly when the current message is undelivered.*)
SeqnAgree(e) ==
  Live(e) /\ Live(peer(e)) => (rmt_seqn[peer(e)] = loc_seqn[e] <=> ~IsDelivered(e))

(* A prepared packet, and one on the air, is the end's current message     *)
(* under its current sequence bit, and is the only copy.                   *)
PktIsCurrent(e) ==
  /\ pkt[e] # NoPkt <=> task[e] = "tx"
  /\ pkt[e] # NoPkt => pkt[e].seqn = loc_seqn[e] /\ pkt[e].msg = cur_tx_msg[e]
  /\ slot = RxSlot(peer(e)) /\ air # NoPkt =>
        task[e] = "rx" /\ air.seqn = loc_seqn[e] /\ air.msg = cur_tx_msg[e]
AirInSlot == air # NoPkt => slot \in {"slave_rx", "master_rx"}

(* An acknowledgement under way to e is for e's current message.           *)
AckIsCurrent(e) ==
  /\ loc_arqn[e] = 0
  /\ Live(e) /\ pkt[peer(e)] # NoPkt /\ pkt[peer(e)].arqn = 1 => IsDelivered(e)
  /\ Live(e) /\ slot = RxSlot(e) /\ air # NoPkt /\ air.arqn = 1 => IsDelivered(e)

DirInv(e) == /\ SenderState(e) /\ SeqnAgree(e) /\ PktIsCurrent(e) /\ AckIsCurrent(e)
             /\ Begins(rcvd[peer(e)], sent[e])
             /\ Begins(acked[e], rcvd[peer(e)])
             /\ Live(e) => Len(rcvd[peer(e)]) <= Len(acked[e]) + 1

LinkInv == AirInSlot /\ \A e \in Ends : DirInv(e)
=============================================================================
