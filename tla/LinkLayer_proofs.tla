-------------------------- MODULE LinkLayer_proofs --------------------------
(***************************************************************************)
(* Proofs about LinkLayer for every set of messages, every queue size,     *)
(* every supervision timeout and every bound on what the hosts send: type  *)
(* correctness, the ARQ invariant LinkInv with the delivery properties it  *)
(* carries, and that the two link layers implement ReliableLink.           *)
(***************************************************************************)
EXTENDS LinkLayer, TLAPS, SequenceTheorems

LEMMA EndFacts ==
  \A e \in Ends : /\ peer(e) \in Ends /\ peer(e) # e /\ peer(peer(e)) = e
                  /\ \A f \in Ends : f = e \/ f = peer(e)
  BY DEF Ends, peer

(* A packet sent in e's slot is on the air in the slot in which the peer   *)
(* listens, and the two ends never listen in the same slot.                *)
LEMMA SlotFacts ==
  \A e \in Ends : /\ After(TxSlot(e)) = RxSlot(peer(e))
                  /\ RxSlot(e) # RxSlot(peer(e))
                  /\ TxSlot(e) # RxSlot(e) /\ TxSlot(e) # RxSlot(peer(e))
                  /\ RxSlot(e) \in {"slave_rx", "master_rx"}
  BY DEF Ends, peer, After, TxSlot, RxSlot

SlotNames == {"master_tx", "slave_rx", "slave_tx", "master_rx", "tick"}
LEMMA AfterType == \A s \in SlotNames : After(s) \in SlotNames
  BY DEF SlotNames, After

-----------------------------------------------------------------------------
LEMMA TypeInit == Init => TypeOK
<1>. SUFFICES ASSUME Init PROVE TypeOK
  OBVIOUS
<1>1. /\ is_connected \in [Ends -> BOOLEAN]
      /\ rmt_seqn \in [Ends -> Flag]
      /\ loc_seqn \in [Ends -> Flag]
      /\ loc_arqn \in [Ends -> Flag]
      /\ cur_tx_msg \in [Ends -> Msgs \cup {NULL}]
      /\ age \in [Ends -> 0 .. SUPERVISION_TO + 1]
  BY LinkAssumption DEF Init, Flag
<1>2. /\ state \in [Ends -> {"STANDBY", "PAGE", "CONNECTED", "HALTED"}]
      /\ acl_tx_q \in [Ends -> Seq(Msgs)]
      /\ tx_q \in [Ends -> 0 .. TxqCap]
      /\ task \in [Ends -> {"tx", "rx", "off"}]
      /\ pkt \in [Ends -> Pkt \cup {NoPkt}]
      /\ air \in Pkt \cup {NoPkt}
      /\ slot \in SlotNames
  BY LinkAssumption DEF Init, SlotNames
<1>3. /\ sent \in [Ends -> Seq(Msgs)]
      /\ rcvd \in [Ends -> Seq(Msgs)]
      /\ acked \in [Ends -> Seq(Msgs)]
  BY DEF Init
<1>. QED  BY <1>1, <1>2, <1>3 DEF TypeOK, SlotNames

(* What preparing a packet and scheduling a reception leave behind.        *)
LEMMA PrepareType ==
  ASSUME TypeOK, NEW e \in Ends, NEW cur \in Msgs \cup {NULL},
         NEW seqn \in Flag, NEW arqn \in Flag, ll_prepare_tx(e, cur, seqn, arqn)
  PROVE  /\ cur_tx_msg' \in [Ends -> Msgs \cup {NULL}]
         /\ acl_tx_q' \in [Ends -> Seq(Msgs)]
         /\ pkt' \in [Ends -> Pkt \cup {NoPkt}]
         /\ loc_seqn' \in [Ends -> Flag]
         /\ loc_arqn' \in [Ends -> Flag]
         /\ task' \in [Ends -> {"tx", "rx", "off"}]
<1>. DEFINE fetch == cur = NULL /\ acl_tx_q[e] # << >>
            m == IF fetch THEN Head(acl_tx_q[e]) ELSE cur
            type == IF m # NULL THEN "ACL"
                    ELSE IF e = "master" THEN "POLL" ELSE "NULL"
<1>1. acl_tx_q[e] \in Seq(Msgs)
  BY DEF TypeOK
<1>2. m \in Msgs \cup {NULL} /\ type \in {"POLL", "NULL", "ACL"}
  BY <1>1
<1>3. [type |-> type, arqn |-> arqn, seqn |-> seqn, msg |-> m] \in Pkt
  BY <1>2 DEF Pkt
<1>4. /\ cur_tx_msg' = [cur_tx_msg EXCEPT ![e] = m]
      /\ acl_tx_q' = IF fetch THEN [acl_tx_q EXCEPT ![e] = Tail(acl_tx_q[e])]
                              ELSE acl_tx_q
      /\ pkt' = [pkt EXCEPT ![e] = [type |-> type, arqn |-> arqn,
                                    seqn |-> seqn, msg |-> m]]
      /\ loc_seqn' = [loc_seqn EXCEPT ![e] = seqn]
      /\ loc_arqn' = [loc_arqn EXCEPT ![e] = 0]
      /\ task' = [task EXCEPT ![e] = "tx"]
  BY DEF ll_prepare_tx
<1>. HIDE DEF m, type
<1>5. fetch => Tail(acl_tx_q[e]) \in Seq(Msgs)
  BY <1>1
<1>. QED  BY <1>2, <1>3, <1>4, <1>5 DEF TypeOK, Flag

LEMMA RespondType ==
  ASSUME TypeOK, NEW e \in Ends, NEW cur \in Msgs \cup {NULL}, NEW tx \in BOOLEAN,
         NEW seqn \in Flag, NEW arqn \in Flag, Respond(e, tx, cur, seqn, arqn)
  PROVE  /\ cur_tx_msg' \in [Ends -> Msgs \cup {NULL}]
         /\ acl_tx_q' \in [Ends -> Seq(Msgs)]
         /\ pkt' \in [Ends -> Pkt \cup {NoPkt}]
         /\ loc_seqn' \in [Ends -> Flag]
         /\ loc_arqn' \in [Ends -> Flag]
         /\ task' \in [Ends -> {"tx", "rx", "off"}]
<1>1. CASE tx = TRUE
  <2>1. ll_prepare_tx(e, cur, seqn, arqn)
    BY <1>1 DEF Respond
  <2>. QED  BY <2>1, PrepareType
<1>2. CASE tx = FALSE
  <2>1. ScheduleRx(e, cur, seqn, arqn)
    BY <1>2 DEF Respond
  <2>. QED  BY <2>1 DEF ScheduleRx, TypeOK
<1>. QED  BY <1>1, <1>2

LEMMA AfterAckType ==
  ASSUME TypeOK, NEW e \in Ends, NEW g \in BOOLEAN
  PROVE  /\ CurAfterAck(e) \in Msgs \cup {NULL}
         /\ SeqnAfterAck(e) \in Flag
         /\ ArqnAfter(e, g) \in Flag
  BY DEF TypeOK, CurAfterAck, SeqnAfterAck, ArqnAfter, Flag

LEMMA AckedType ==
  ASSUME TypeOK, NEW e \in Ends,
         acked' = IF IsAck(e) THEN [acked EXCEPT ![e] = Append(@, cur_tx_msg[e])]
                              ELSE acked
  PROVE  acked' \in [Ends -> Seq(Msgs)]
<1>1. CASE IsAck(e)
  <2>1. cur_tx_msg[e] \in Msgs /\ acked[e] \in Seq(Msgs)
    BY <1>1 DEF IsAck, TypeOK
  <2>. QED  BY <1>1, <2>1 DEF TypeOK
<1>2. CASE ~IsAck(e)
  BY <1>2 DEF TypeOK
<1>. QED  BY <1>1, <1>2

LEMMA AdvanceType ==
  ASSUME TypeOK, NEW a \in Pkt \cup {NoPkt}, Advance(a)
  PROVE  slot' \in SlotNames /\ air' \in Pkt \cup {NoPkt}
  BY AfterType DEF TypeOK, Advance, SlotNames

(* Telling the host of a new state, and hearing a packet.                  *)
LEMMA StateRespType == \A n \in 0 .. TxqCap : state_resp(n) \in 0 .. TxqCap
  BY LinkAssumption DEF state_resp

LEMMA HeardType ==
  ASSUME TypeOK, NEW e \in Ends
  PROVE  /\ TxqHeard(e) \in 0 .. TxqCap
         /\ Heard(e) => /\ is_connected' \in [Ends -> BOOLEAN]
                        /\ age' \in [Ends -> 0 .. SUPERVISION_TO + 1]
<1>1. TxqHeard(e) \in 0 .. TxqCap
  BY StateRespType DEF TxqHeard, TypeOK
<1>2. Heard(e) => is_connected' \in [Ends -> BOOLEAN]
  BY DEF Heard, TypeOK
<1>3. Heard(e) => age' \in [Ends -> 0 .. SUPERVISION_TO + 1]
  BY LinkAssumption DEF Heard, TypeOK
<1>. QED  BY <1>1, <1>2, <1>3

LEMMA TypeRxPacket ==
  ASSUME TypeOK, NEW e \in Ends, NEW g \in BOOLEAN, RxPacket(e, g)
  PROVE  TypeOK'
<1>1. air \in Pkt /\ air # NoPkt
  BY DEF RxPacket, TypeOK
<1>2. slot' \in SlotNames /\ air' \in Pkt \cup {NoPkt}
  BY AdvanceType DEF RxPacket
<1>3. /\ is_connected' \in [Ends -> BOOLEAN]
      /\ age' \in [Ends -> 0 .. SUPERVISION_TO + 1]
      /\ UNCHANGED <<state, sent>>
  BY HeardType DEF RxPacket
<1>4. acked' \in [Ends -> Seq(Msgs)]
  BY AckedType DEF RxPacket
<1>5. /\ rcvd' \in [Ends -> Seq(Msgs)]
      /\ tx_q' \in [Ends -> 0 .. TxqCap]
      /\ rmt_seqn' \in [Ends -> Flag]
  <2>1. CASE IsNew(e, g)
    <3>1. /\ rcvd' = [rcvd EXCEPT ![e] = Append(@, air.msg)]
          /\ tx_q' = [tx_q EXCEPT ![e] = TxqHeard(e) + 1]
          /\ rmt_seqn' = [rmt_seqn EXCEPT ![e] = 1 - @]
          /\ TxqHeard(e) < TxqCap
      BY <2>1 DEF RxPacket
    <3>2. air.msg \in Msgs
      BY <1>1, <2>1 DEF IsNew, HasCrc, Pkt
    <3>3. rcvd[e] \in Seq(Msgs) /\ rmt_seqn[e] \in Flag
      BY DEF TypeOK
    <3>4. Append(rcvd[e], air.msg) \in Seq(Msgs)
      BY <3>2, <3>3
    <3>5. 1 - rmt_seqn[e] \in Flag
      BY <3>3 DEF Flag
    <3>6. TxqHeard(e) + 1 \in 0 .. TxqCap
      BY <3>1, HeardType, LinkAssumption
    <3>. QED  BY <3>1, <3>4, <3>5, <3>6 DEF TypeOK
  <2>2. CASE ~IsNew(e, g)
    <3>1. tx_q' = [tx_q EXCEPT ![e] = TxqHeard(e)] /\ UNCHANGED <<rcvd, rmt_seqn>>
      BY <2>2 DEF RxPacket
    <3>. QED  BY <3>1, HeardType DEF TypeOK
  <2>. QED  BY <2>1, <2>2
<1>6. /\ cur_tx_msg' \in [Ends -> Msgs \cup {NULL}]
      /\ acl_tx_q' \in [Ends -> Seq(Msgs)]
      /\ pkt' \in [Ends -> Pkt \cup {NoPkt}]
      /\ loc_seqn' \in [Ends -> Flag]
      /\ loc_arqn' \in [Ends -> Flag]
      /\ task' \in [Ends -> {"tx", "rx", "off"}]
  BY AfterAckType, RespondType DEF RxPacket
<1>. QED  BY <1>2, <1>3, <1>4, <1>5, <1>6 DEF TypeOK, SlotNames

LEMMA TypeRxDie ==
  ASSUME TypeOK, NEW e \in Ends, RxDie(e)
  PROVE  TypeOK'
<1>1. slot' \in SlotNames /\ air' \in Pkt \cup {NoPkt}
  BY AdvanceType DEF RxDie
<1>2. acked' \in [Ends -> Seq(Msgs)]
  BY AckedType DEF RxDie
<1>3. /\ is_connected' \in [Ends -> BOOLEAN]
      /\ age' \in [Ends -> 0 .. SUPERVISION_TO + 1]
      /\ state' \in [Ends -> {"STANDBY", "PAGE", "CONNECTED", "HALTED"}]
      /\ task' \in [Ends -> {"tx", "rx", "off"}]
      /\ tx_q' \in [Ends -> 0 .. TxqCap]
  <2>1. /\ state' \in [Ends -> {"STANDBY", "PAGE", "CONNECTED", "HALTED"}]
        /\ task' \in [Ends -> {"tx", "rx", "off"}]
    BY DEF RxDie, TypeOK
  <2>2. tx_q' \in [Ends -> 0 .. TxqCap]
    BY LinkAssumption DEF RxDie, TypeOK
  <2>. QED  BY <2>1, <2>2, HeardType DEF RxDie
<1>4. /\ cur_tx_msg' \in [Ends -> Msgs \cup {NULL}]
      /\ loc_seqn' \in [Ends -> Flag]
  BY AfterAckType DEF RxDie, TypeOK
<1>. QED  BY <1>1, <1>2, <1>3, <1>4 DEF RxDie, TypeOK, SlotNames

LEMMA TypeConnect ==
  ASSUME TypeOK, Connect \/ ConnectSlaveOnly
  PROVE  TypeOK'
<1>1. CASE Connect
  <2>. DEFINE q == acl_tx_q["master"]
              m == IF q # << >> THEN Head(q) ELSE NULL
  <2>1. q \in Seq(Msgs) /\ m \in Msgs \cup {NULL}
    BY DEF TypeOK, Ends
  <2>2. /\ cur_tx_msg' = [e \in Ends |-> IF e = "master" THEN m ELSE NULL]
        /\ acl_tx_q' = IF q # << >> THEN [acl_tx_q EXCEPT !["master"] = Tail(q)]
                                    ELSE acl_tx_q
        /\ pkt' = [pkt EXCEPT !["master"] =
                     [type |-> IF q # << >> THEN "ACL" ELSE "POLL", arqn |-> 0,
                      seqn |-> 1, msg |-> m]]
    BY <1>1 DEF Connect
  <2>3. [type |-> IF q # << >> THEN "ACL" ELSE "POLL", arqn |-> 0, seqn |-> 1,
         msg |-> m] \in Pkt
    BY <2>1 DEF Pkt, Flag
  <2>. HIDE DEF m
  <2>4. q # << >> => Tail(q) \in Seq(Msgs)
    BY <2>1
  <2>7. cur_tx_msg' \in [Ends -> Msgs \cup {NULL}]
    BY <2>1, <2>2
  <2>8. acl_tx_q' \in [Ends -> Seq(Msgs)]
    BY <2>2, <2>4 DEF TypeOK
  <2>9. pkt' \in [Ends -> Pkt \cup {NoPkt}]
    BY <2>2, <2>3 DEF TypeOK
  <2>5. /\ is_connected' \in [Ends -> BOOLEAN]
        /\ rmt_seqn' \in [Ends -> Flag]
        /\ age' \in [Ends -> 0 .. SUPERVISION_TO + 1]
    BY <1>1, LinkAssumption DEF Connect, ll_init, TypeOK, Flag
  <2>6. /\ state' \in [Ends -> {"STANDBY", "PAGE", "CONNECTED", "HALTED"}]
        /\ loc_seqn' \in [Ends -> Flag]
        /\ loc_arqn' \in [Ends -> Flag]
        /\ task' \in [Ends -> {"tx", "rx", "off"}]
    BY <1>1 DEF Connect, Flag
  <2>10. tx_q' \in [Ends -> 0 .. TxqCap]
    BY <1>1, StateRespType DEF Connect, TypeOK
  <2>. QED  BY <1>1, <2>5, <2>6, <2>7, <2>8, <2>9, <2>10 DEF Connect, TypeOK, hist
<1>2. CASE ConnectSlaveOnly
  <2>3. ll_init({"slave"})
    BY <1>2 DEF ConnectSlaveOnly
  <2>4. is_connected' \in [Ends -> BOOLEAN]
    BY <2>3 DEF ll_init, TypeOK
  <2>5. rmt_seqn' \in [Ends -> Flag]
    BY <2>3 DEF ll_init, TypeOK, Flag
  <2>6. age' \in [Ends -> 0 .. SUPERVISION_TO + 1]
    BY <2>3, LinkAssumption DEF ll_init, TypeOK
  <2>1. /\ is_connected' \in [Ends -> BOOLEAN]
        /\ rmt_seqn' \in [Ends -> Flag]
        /\ age' \in [Ends -> 0 .. SUPERVISION_TO + 1]
    BY <2>4, <2>5, <2>6
  <2>2. /\ state' \in [Ends -> {"STANDBY", "PAGE", "CONNECTED", "HALTED"}]
        /\ loc_seqn' \in [Ends -> Flag]
        /\ loc_arqn' \in [Ends -> Flag]
        /\ task' \in [Ends -> {"tx", "rx", "off"}]
        /\ cur_tx_msg' \in [Ends -> Msgs \cup {NULL}]
    BY <1>2 DEF ConnectSlaveOnly, ScheduleRx, Flag, TypeOK, Ends
  <2>7. tx_q' \in [Ends -> 0 .. TxqCap]
    BY <1>2, StateRespType DEF ConnectSlaveOnly, TypeOK
  <2>. QED  BY <1>2, <2>1, <2>2, <2>7 DEF ConnectSlaveOnly, ScheduleRx, TypeOK, hist
<1>. QED  BY <1>1, <1>2

(* The model stays within its types: in particular no queue overflows and  *)
(* the sequence bits stay bits.                                            *)
THEOREM TypeCorrect == Spec => []TypeOK
<1>1. TypeOK /\ [Next]_vars => TypeOK'
  <2>. SUFFICES ASSUME TypeOK, [Next]_vars PROVE TypeOK'
    OBVIOUS
  <2>1. ASSUME NEW e \in Ends, NEW m \in Msgs, TxAcl(e, m)
        PROVE  TypeOK'
    <3>1. /\ Append(acl_tx_q[e], m) \in Seq(Msgs)
          /\ Append(sent[e], m) \in Seq(Msgs)
      BY DEF TypeOK
    <3>. QED  BY <2>1, <3>1 DEF TxAcl, TypeOK, ll
  <2>2. ASSUME NEW e \in Ends, HostRead(e)
        PROVE  TypeOK'
    BY <2>2, LinkAssumption DEF HostRead, TypeOK, ll, hist
  <2>3. ASSUME NEW e \in Ends, Idle(e)
        PROVE  TypeOK'
    <3>1. tx_q' \in [Ends -> 0 .. TxqCap]
      BY <2>3, StateRespType DEF Idle, TypeOK
    <3>. QED  BY <2>3, <3>1 DEF Idle, TypeOK, ll, hist
  <2>4. CASE Page
    <3>1. tx_q' \in [Ends -> 0 .. TxqCap]
      BY <2>4, StateRespType DEF Page, TypeOK
    <3>. QED  BY <2>4, <3>1 DEF Page, TypeOK, ll
  <2>5. CASE Connect \/ ConnectSlaveOnly
    BY <2>5, TypeConnect
  <2>6. ASSUME NEW e \in Ends, Transmit(e)
        PROVE  TypeOK'
    <3>1. pkt[e] \in Pkt \cup {NoPkt}
      BY DEF TypeOK
    <3>2. slot' \in SlotNames /\ air' \in Pkt \cup {NoPkt}
      BY <2>6, <3>1, AdvanceType DEF Transmit
    <3>. QED  BY <2>6, <3>2 DEF Transmit, TypeOK, ll, hist, SlotNames
  <2>7. CASE TurnPasses
    <3>1. slot' \in SlotNames /\ air' \in Pkt \cup {NoPkt}
      BY <2>7, AdvanceType DEF TurnPasses
    <3>. QED  BY <2>7, <3>1 DEF TurnPasses, TypeOK, ll, hist, SlotNames
  <2>8. ASSUME NEW e \in Ends, RxCanceled(e)
        PROVE  TypeOK'
    <3>1. slot' \in SlotNames /\ air' \in Pkt \cup {NoPkt}
      BY <2>8, AdvanceType DEF RxCanceled
    <3>. QED  BY <2>8, <3>1 DEF RxCanceled, ll_reset, TypeOK, hist, SlotNames
  <2>9. ASSUME NEW e \in Ends, RxTimeout(e)
        PROVE  TypeOK'
    <3>1. slot' \in SlotNames /\ air' \in Pkt \cup {NoPkt}
      BY <2>9, AdvanceType DEF RxTimeout
    <3>2. tx_q' \in [Ends -> 0 .. TxqCap]
      BY <2>9, StateRespType DEF RxTimeout, TypeOK
    <3>. QED  BY <2>9, <3>1, <3>2 DEF RxTimeout, ll_reset, TypeOK, hist, SlotNames
  <2>10. ASSUME NEW e \in Ends, RxNothing(e)
         PROVE  TypeOK'
    <3>1. slot' \in SlotNames /\ air' \in Pkt \cup {NoPkt}
      BY <2>10, AdvanceType DEF RxNothing
    <3>2. /\ cur_tx_msg' \in [Ends -> Msgs \cup {NULL}]
          /\ acl_tx_q' \in [Ends -> Seq(Msgs)]
          /\ pkt' \in [Ends -> Pkt \cup {NoPkt}]
          /\ loc_seqn' \in [Ends -> Flag]
          /\ loc_arqn' \in [Ends -> Flag]
          /\ task' \in [Ends -> {"tx", "rx", "off"}]
      <4>1. /\ cur_tx_msg[e] \in Msgs \cup {NULL}
            /\ loc_seqn[e] \in Flag /\ loc_arqn[e] \in Flag
        BY DEF TypeOK
      <4>. QED  BY <2>10, <4>1, RespondType DEF RxNothing
    <3>. QED  BY <2>10, <3>1, <3>2 DEF RxNothing, TypeOK, hist, SlotNames
  <2>11. ASSUME NEW e \in Ends, RxForeign(e)
         PROVE  TypeOK'
    <3>1. slot' \in SlotNames /\ air' \in Pkt \cup {NoPkt}
      BY <2>11, AdvanceType DEF RxForeign
    <3>2. /\ is_connected' \in [Ends -> BOOLEAN]
          /\ age' \in [Ends -> 0 .. SUPERVISION_TO + 1]
      BY <2>11, HeardType DEF RxForeign
    <3>3. tx_q' \in [Ends -> 0 .. TxqCap]
      BY <2>11, HeardType DEF RxForeign, TypeOK
    <3>. QED
      BY <2>11, <3>1, <3>2, <3>3 DEF RxForeign, ScheduleRx, TypeOK, hist, SlotNames
  <2>12. ASSUME NEW e \in Ends, NEW g \in BOOLEAN, RxPacket(e, g)
         PROVE  TypeOK'
    BY <2>12, TypeRxPacket
  <2>13. ASSUME NEW e \in Ends, RxDie(e)
         PROVE  TypeOK'
    BY <2>13, TypeRxDie
  <2>14. CASE Tick
    <3>1. slot' \in SlotNames /\ air' \in Pkt \cup {NoPkt}
      BY <2>14, AdvanceType DEF Tick
    <3>2. age' \in [Ends -> 0 .. SUPERVISION_TO + 1]
      BY <2>14, LinkAssumption DEF Tick, TypeOK
    <3>. QED  BY <2>14, <3>1, <3>2 DEF Tick, TypeOK, hist, SlotNames
  <2>15. CASE UNCHANGED vars
    BY <2>15 DEF vars, ll, hist, TypeOK
  <2>. QED
    BY <2>1, <2>2, <2>3, <2>4, <2>5, <2>6, <2>7, <2>8, <2>9, <2>10, <2>11,
       <2>12, <2>13, <2>14, <2>15 DEF Next, Rx
<1>. QED  BY <1>1, TypeInit, PTL DEF Spec

-----------------------------------------------------------------------------
(* The ARQ invariant LinkInv is inductive, and carries in-order delivery   *)
(* and honest acknowledgement; with it every step of the two link layers   *)
(* is a step of ReliableLink or a stutter.                                 *)

(* The message register as a sequence of at most one message.              *)
OneOf(m) == IF m = NULL THEN << >> ELSE <<m>>

LEMMA OneOfType ==
  ASSUME NEW m \in Msgs \cup {NULL}
  PROVE  OneOf(m) \in Seq(Msgs)
  BY DEF OneOf

-----------------------------------------------------------------------------
(* Sequences.                                                              *)

LEMMA AppendToConcat ==
  ASSUME NEW s \in Seq(Msgs), NEW t \in Seq(Msgs), NEW x \in Msgs
  PROVE  /\ Append(s \o t, x) = s \o Append(t, x)
         /\ s \o <<x>> = Append(s, x)
  OBVIOUS

LEMMA HeadThenTail ==
  ASSUME NEW t \in Seq(Msgs), t # << >>
  PROVE  /\ Head(t) \in Msgs /\ Tail(t) \in Seq(Msgs)
         /\ <<Head(t)>> \o Tail(t) = t
  OBVIOUS

(* Moving the head of the queue into the empty register.                   *)
LEMMA FetchKeeps ==
  ASSUME NEW a \in Seq(Msgs), NEW q \in Seq(Msgs), q # << >>
  PROVE  (a \o <<Head(q)>>) \o Tail(q) = (a \o << >>) \o q
<1>1. /\ Head(q) \in Msgs /\ Tail(q) \in Seq(Msgs)
      /\ <<Head(q)>> \o Tail(q) = q
  BY HeadThenTail
<1>2. <<Head(q)>> \in Seq(Msgs)
  BY <1>1
<1>3. (a \o <<Head(q)>>) \o Tail(q) = a \o (<<Head(q)>> \o Tail(q))
  BY <1>1, <1>2, ConcatAssociative
<1>4. a \o << >> = a
  BY ConcatEmptySeq
<1>. QED  BY <1>1, <1>3, <1>4

(* Moving the register to the acknowledged messages.                       *)
LEMMA AckKeeps ==
  ASSUME NEW a \in Seq(Msgs), NEW x \in Msgs
  PROVE  a \o <<x>> = Append(a, x) \o << >>
<1>1. Append(a, x) \in Seq(Msgs)
  OBVIOUS
<1>. QED  BY <1>1, AppendToConcat, ConcatEmptySeq

LEMMA BeginsFacts ==
  ASSUME NEW s \in Seq(Msgs), NEW t \in Seq(Msgs), NEW x \in Msgs
  PROVE  /\ Begins(s, s)
         /\ Begins(s, Append(s, x))
         /\ Begins(s, t) => Begins(s, Append(t, x))
         /\ Begins(s, s \o t)
  BY DEF Begins

LEMMA BeginsEmpty == Begins(<< >>, << >>)
  BY DEF Begins

(* The shape of one direction of the link and the two delivery properties. *)
LEMMA ShapeIsSafe ==
  ASSUME NEW a \in Seq(Msgs), NEW q \in Seq(Msgs), NEW c \in Msgs \cup {NULL},
         NEW r, r = a \/ (c # NULL /\ r = Append(a, c))
  PROVE  /\ Begins(r, (a \o OneOf(c)) \o q)
         /\ Begins(a, r)
         /\ Len(r) <= Len(a) + 1
<1>1. CASE r = a
  <2>1. OneOf(c) \in Seq(Msgs)
    BY OneOfType
  <2>2. OneOf(c) \o q \in Seq(Msgs)
    BY <2>1, ConcatProperties
  <2>3. (a \o OneOf(c)) \o q = a \o (OneOf(c) \o q)
    BY <2>1, ConcatAssociative
  <2>4. Begins(a, a) /\ Begins(a, a \o (OneOf(c) \o q))
    BY <2>2 DEF Begins
  <2>. QED  BY <1>1, <2>3, <2>4
<1>2. CASE c # NULL /\ r = Append(a, c)
  <2>1. c \in Msgs /\ r \in Seq(Msgs) /\ Len(r) = Len(a) + 1
    BY <1>2
  <2>2. a \o OneOf(c) = r
    BY <1>2, <2>1, AppendToConcat DEF OneOf
  <2>3. Begins(r, r \o q) /\ Begins(a, r)
    BY <1>2, <2>1, BeginsFacts
  <2>. QED  BY <2>1, <2>2, <2>3
<1>. QED  BY <1>1, <1>2

-----------------------------------------------------------------------------
(* A live direction of the right shape is safe.                            *)
LEMMA LiveIsSafe ==
  ASSUME TypeOK', NEW e \in Ends, SenderState(e)', Live(e)'
  PROVE  /\ Begins(rcvd[peer(e)], sent[e])'
         /\ Begins(acked[e], rcvd[peer(e)])'
         /\ (Len(rcvd[peer(e)]) <= Len(acked[e]) + 1)'
<1>1. /\ acked'[e] \in Seq(Msgs) /\ acl_tx_q'[e] \in Seq(Msgs)
      /\ cur_tx_msg'[e] \in Msgs \cup {NULL}
  BY DEF TypeOK
<1>2. /\ sent'[e] = (acked'[e] \o OneOf(cur_tx_msg'[e])) \o acl_tx_q'[e]
      /\ \/ rcvd'[peer(e)] = acked'[e]
         \/ cur_tx_msg'[e] # NULL /\ rcvd'[peer(e)] = Append(acked'[e], cur_tx_msg'[e])
  BY DEF SenderState, Current, OneOf
<1>. QED  BY <1>1, <1>2, ShapeIsSafe

LEMMA LinkInvInit == Init => LinkInv
<1>. SUFFICES ASSUME Init PROVE LinkInv
  OBVIOUS
<1>1. ASSUME NEW e \in Ends PROVE DirInv(e)
  <2>1. SenderState(e)
    BY DEF Init, SenderState, Live
  <2>2. SeqnAgree(e) /\ PktIsCurrent(e) /\ AckIsCurrent(e)
    BY EndFacts DEF Init, SeqnAgree, PktIsCurrent, AckIsCurrent, Live
  <2>3. /\ rcvd[peer(e)] = << >> /\ sent[e] = << >> /\ acked[e] = << >>
        /\ ~Live(e)
    BY EndFacts DEF Init, Live
  <2>. QED  BY <2>1, <2>2, <2>3, BeginsEmpty DEF DirInv
<1>2. AirInSlot
  BY DEF Init, AirInSlot
<1>. QED  BY <1>1, <1>2 DEF LinkInv

(* The queue and clock steps.                                              *)
LEMMA InvTxAcl ==
  ASSUME TypeOK, LinkInv, NEW f \in Ends, NEW m \in Msgs, TxAcl(f, m)
  PROVE  LinkInv'
<1>1. ASSUME NEW e \in Ends PROVE DirInv(e)'
  <2>0. DirInv(e)
    BY DEF LinkInv
  <2>1. SeqnAgree(e)' /\ PktIsCurrent(e)' /\ AckIsCurrent(e)'
    BY <2>0 DEF DirInv, TxAcl, ll, SeqnAgree, PktIsCurrent, AckIsCurrent, Live,
                IsDelivered
  <2>6. /\ Begins(acked[e], rcvd[peer(e)])'
        /\ (Live(e) => Len(rcvd[peer(e)]) <= Len(acked[e]) + 1)'
    BY <2>0 DEF DirInv, TxAcl, Live
  <2>2. /\ sent[e] \in Seq(Msgs) /\ rcvd[peer(e)] \in Seq(Msgs)
        /\ acl_tx_q[e] \in Seq(Msgs) /\ acked[e] \in Seq(Msgs)
        /\ OneOf(cur_tx_msg[e]) \in Seq(Msgs)
    <3>1. cur_tx_msg[e] \in Msgs \cup {NULL}
      BY DEF TypeOK
    <3>2. OneOf(cur_tx_msg[e]) \in Seq(Msgs)
      BY <3>1, OneOfType
    <3>. QED  BY <3>2, EndFacts DEF TypeOK
  <2>3. /\ sent'[e] = IF e = f THEN Append(sent[e], m) ELSE sent[e]
        /\ acl_tx_q'[e] = IF e = f THEN Append(acl_tx_q[e], m) ELSE acl_tx_q[e]
        /\ UNCHANGED <<acked, rcvd, cur_tx_msg, task, state>>
    BY DEF TxAcl, TypeOK, ll
  <2>4. Begins(rcvd[peer(e)], sent[e])'
    BY <2>0, <2>2, <2>3, BeginsFacts DEF DirInv
  <2>5. SenderState(e)'
    <3>1. acked[e] \o OneOf(cur_tx_msg[e]) \in Seq(Msgs)
      BY <2>2, ConcatProperties
    <3>2. Append((acked[e] \o OneOf(cur_tx_msg[e])) \o acl_tx_q[e], m) =
            (acked[e] \o OneOf(cur_tx_msg[e])) \o Append(acl_tx_q[e], m)
      BY <2>2, <3>1, AppendToConcat
    <3>. QED
      BY <2>0, <2>3, <3>2 DEF DirInv, SenderState, Live, Current, OneOf
  <2>. QED  BY <2>1, <2>4, <2>5, <2>6 DEF DirInv
<1>2. AirInSlot'
  BY DEF LinkInv, AirInSlot, TxAcl
<1>. QED  BY <1>1, <1>2 DEF LinkInv

-----------------------------------------------------------------------------
(* What the end's answer leaves behind: its queue and register still hold  *)
(* the same messages, and the packet it prepares is the register's.        *)
Answered(f, tx, cur, seqn, arqn) ==
  /\ loc_seqn' = [loc_seqn EXCEPT ![f] = seqn]
  /\ loc_arqn' = [loc_arqn EXCEPT ![f] = 0]
  /\ tx => /\ task' = [task EXCEPT ![f] = "tx"]
           /\ pkt'[f] # NoPkt
           /\ pkt'[f].seqn = seqn
           /\ pkt'[f].arqn = arqn
           /\ pkt'[f].msg = cur_tx_msg'[f]
  /\ ~tx => task' = [task EXCEPT ![f] = "rx"] /\ pkt'[f] = pkt[f]
  /\ cur # NULL => cur_tx_msg'[f] = cur
  /\ \A a \in Seq(Msgs) :
       (a \o OneOf(cur_tx_msg'[f])) \o acl_tx_q'[f] = (a \o OneOf(cur)) \o acl_tx_q[f]
  /\ \A e \in Ends : e # f => /\ cur_tx_msg'[e] = cur_tx_msg[e]
                              /\ acl_tx_q'[e] = acl_tx_q[e]
                              /\ pkt'[e] = pkt[e]

LEMMA RespondEffect ==
  ASSUME TypeOK, NEW f \in Ends, NEW tx \in BOOLEAN, NEW cur \in Msgs \cup {NULL},
         NEW seqn \in Flag, NEW arqn \in Flag, arqn = 1 => tx,
         Respond(f, tx, cur, seqn, arqn)
  PROVE  Answered(f, tx, cur, seqn, arqn)
<1>0. acl_tx_q[f] \in Seq(Msgs)
  BY DEF TypeOK
<1>1. CASE tx = TRUE
  <2>. DEFINE fetch == cur = NULL /\ acl_tx_q[f] # << >>
              m == IF fetch THEN Head(acl_tx_q[f]) ELSE cur
              type == IF m # NULL THEN "ACL"
                      ELSE IF f = "master" THEN "POLL" ELSE "NULL"
              p == [type |-> type, arqn |-> arqn, seqn |-> seqn, msg |-> m]
  <2>1. /\ cur_tx_msg' = [cur_tx_msg EXCEPT ![f] = m]
        /\ acl_tx_q' = IF fetch THEN [acl_tx_q EXCEPT ![f] = Tail(acl_tx_q[f])]
                                ELSE acl_tx_q
        /\ pkt' = [pkt EXCEPT ![f] = p]
        /\ loc_seqn' = [loc_seqn EXCEPT ![f] = seqn]
        /\ loc_arqn' = [loc_arqn EXCEPT ![f] = 0]
        /\ task' = [task EXCEPT ![f] = "tx"]
    BY <1>1 DEF Respond, ll_prepare_tx
  <2>2. m \in Msgs \cup {NULL} /\ type \in {"POLL", "NULL", "ACL"}
    BY <1>0
  <2>3. p \in Pkt
    BY <2>2 DEF Pkt
  <2>4. p # NoPkt /\ p.seqn = seqn /\ p.arqn = arqn /\ p.msg = m
    BY <2>3, NoPktAssumption
  <2>5. cur # NULL => m = cur
    OBVIOUS
  <2>6. ASSUME NEW a \in Seq(Msgs), fetch
        PROVE  (a \o OneOf(m)) \o Tail(acl_tx_q[f]) = (a \o OneOf(cur)) \o acl_tx_q[f]
    <3>1. m = Head(acl_tx_q[f]) /\ m \in Msgs
      BY <1>0, <2>6
    <3>2. OneOf(m) = <<Head(acl_tx_q[f])>> /\ OneOf(cur) = << >>
      BY <2>6, <3>1, LinkAssumption DEF OneOf
    <3>. QED  BY <1>0, <2>6, <3>2, FetchKeeps
  <2>7. ~fetch => m = cur
    OBVIOUS
  <2>. HIDE DEF m, p, fetch
  <2>8. cur_tx_msg'[f] = m /\ pkt'[f] = p
    BY <2>1 DEF TypeOK
  <2>9. \A e \in Ends : e # f => /\ cur_tx_msg'[e] = cur_tx_msg[e]
                                /\ acl_tx_q'[e] = acl_tx_q[e]
                                /\ pkt'[e] = pkt[e]
    BY <2>1 DEF TypeOK
  <2>10. acl_tx_q'[f] = IF fetch THEN Tail(acl_tx_q[f]) ELSE acl_tx_q[f]
    BY <2>1 DEF TypeOK
  <2>11. ASSUME NEW a \in Seq(Msgs)
         PROVE  (a \o OneOf(cur_tx_msg'[f])) \o acl_tx_q'[f] = (a \o OneOf(cur)) \o acl_tx_q[f]
    BY <2>6, <2>7, <2>8, <2>10
  <2>. QED  BY <1>1, <2>1, <2>4, <2>5, <2>8, <2>9, <2>11 DEF Answered
<1>2. CASE tx = FALSE
  <2>1. ScheduleRx(f, cur, seqn, arqn) /\ arqn = 0
    BY <1>2 DEF Respond, Flag
  <2>. QED  BY <1>2, <2>1 DEF ScheduleRx, TypeOK, Answered
<1>. QED  BY <1>1, <1>2

(* The direction whose sender has just processed a reception and answers.  *)
LEMMA SenderSide ==
  ASSUME TypeOK, TypeOK', NEW f \in Ends, NEW tx \in BOOLEAN,
         NEW cur \in Msgs \cup {NULL}, NEW seqn \in Flag, NEW arqn \in Flag,
         arqn = 1 => tx, Respond(f, tx, cur, seqn, arqn),
         air' = NoPkt, pkt[f] = NoPkt, state'[f] # "PAGE",
         sent'[f] = (acked'[f] \o OneOf(cur)) \o acl_tx_q[f],
         \/ rcvd'[peer(f)] = acked'[f]
         \/ cur # NULL /\ rcvd'[peer(f)] = Append(acked'[f], cur),
         Live(peer(f)) => (rmt_seqn'[peer(f)] = seqn <=> rcvd'[peer(f)] = acked'[f]),
         pkt[peer(f)] # NoPkt /\ pkt[peer(f)].arqn = 1 => rcvd'[peer(f)] # acked'[f]
  PROVE  DirInv(f)'
<1>0. Answered(f, tx, cur, seqn, arqn)
  BY RespondEffect
<1>1. task'[f] \in {"tx", "rx"} /\ (tx <=> task'[f] = "tx")
  <2>1. CASE tx = TRUE
    BY <1>0, <2>1 DEF TypeOK, Answered
  <2>2. CASE tx = FALSE
    BY <1>0, <2>2 DEF TypeOK, Answered
  <2>. QED  BY <2>1, <2>2
<1>2. loc_seqn'[f] = seqn /\ loc_arqn'[f] = 0
  BY <1>0 DEF TypeOK, Answered
<1>3. task'[peer(f)] = task[peer(f)]
  BY <1>0, EndFacts DEF TypeOK, Answered
<1>4. acked'[f] \in Seq(Msgs) /\ pkt'[peer(f)] = pkt[peer(f)]
  BY <1>0, EndFacts DEF TypeOK, Answered
<1>5. SenderState(f)'
  <2>1. sent'[f] = (acked'[f] \o OneOf(cur_tx_msg'[f])) \o acl_tx_q'[f]
    BY <1>0, <1>4 DEF Answered
  <2>. QED  BY <1>0, <2>1 DEF SenderState, Current, OneOf, Answered
<1>6. SeqnAgree(f)'
  BY <1>2, <1>3 DEF SeqnAgree, IsDelivered, Live
<1>7. PktIsCurrent(f)'
  BY <1>0, <1>1, <1>2 DEF PktIsCurrent, Answered
<1>8. AckIsCurrent(f)'
  BY <1>2, <1>4 DEF AckIsCurrent, IsDelivered
<1>. QED  BY <1>1, <1>5, <1>6, <1>7, <1>8, LiveIsSafe DEF DirInv, Live

(* The direction whose receiver, f, has just processed a reception.        *)
LEMMA ReceiverSide ==
  ASSUME TypeOK, TypeOK', NEW f \in Ends, NEW e \in Ends, e = peer(f), DirInv(e),
         task[f] = "rx", task'[e] = task[e], state'[e] = state[e],
         pkt'[e] = pkt[e], cur_tx_msg'[e] = cur_tx_msg[e],
         acl_tx_q'[e] = acl_tx_q[e], loc_seqn'[e] = loc_seqn[e],
         loc_arqn'[e] = loc_arqn[e], sent'[e] = sent[e], acked'[e] = acked[e],
         rcvd'[e] = rcvd[e], air' = NoPkt,
         \/ rcvd'[f] = rcvd[f] /\ rmt_seqn'[f] = rmt_seqn[f]
         \/ /\ Live(e) /\ rcvd[f] = acked[e] /\ rmt_seqn[f] = loc_seqn[e]
            /\ cur_tx_msg[e] # NULL /\ rcvd'[f] = Append(rcvd[f], cur_tx_msg[e])
            /\ rmt_seqn'[f] = 1 - rmt_seqn[f],
         Live(e) /\ pkt'[f] # NoPkt /\ pkt'[f].arqn = 1 => rcvd'[f] # acked[e]
  PROVE  DirInv(e)'
<1>1. peer(e) = f /\ (Live(e)' <=> Live(e)) /\ Live(f)
  BY EndFacts DEF Live
<1>2. /\ acked[e] \in Seq(Msgs) /\ loc_seqn[e] \in Flag /\ rmt_seqn[f] \in Flag
      /\ cur_tx_msg[e] \in Msgs \cup {NULL}
  BY DEF TypeOK
<1>3. cur_tx_msg[e] # NULL => Append(acked[e], cur_tx_msg[e]) # acked[e]
  BY <1>2
<1>4. SenderState(e)'
  <2>1. SenderState(e)
    BY DEF DirInv
  <2>2. Current(e)' = Current(e)
    BY DEF Current
  <2>3. (Live(e) => sent[e] = (acked[e] \o Current(e)) \o acl_tx_q[e])'
    BY <1>1, <2>1, <2>2 DEF SenderState
  <2>4. Live(e) => \/ rcvd'[f] = acked[e]
                   \/ cur_tx_msg[e] # NULL /\ rcvd'[f] = Append(acked[e], cur_tx_msg[e])
    BY <1>1, <2>1 DEF SenderState
  <2>5. (state[e] = "PAGE" => ~Live(e) /\ sent[e] = acl_tx_q[e] /\ acked[e] = << >> /\ rcvd[e] = << >>)'
    BY <1>1, <2>1 DEF SenderState
  <2>. QED  BY <1>1, <2>3, <2>4, <2>5 DEF SenderState
<1>5. SeqnAgree(e)'
  <2>1. CASE rcvd'[f] = rcvd[f] /\ rmt_seqn'[f] = rmt_seqn[f]
    BY <1>1, <2>1 DEF DirInv, SeqnAgree, IsDelivered, Live
  <2>2. CASE ~(rcvd'[f] = rcvd[f] /\ rmt_seqn'[f] = rmt_seqn[f])
    <3>1. rmt_seqn'[f] # loc_seqn[e]
      BY <1>2, <2>2 DEF Flag
    <3>2. rcvd'[f] # acked[e]
      BY <1>3, <2>2
    <3>. QED  BY <1>1, <3>1, <3>2 DEF SeqnAgree, IsDelivered
  <2>. QED  BY <2>1, <2>2
<1>6. PktIsCurrent(e)'
  BY <1>1 DEF DirInv, PktIsCurrent
<1>7. AckIsCurrent(e)'
  BY <1>1 DEF DirInv, AckIsCurrent, IsDelivered
<1>8. CASE Live(e)
  BY <1>1, <1>4, <1>5, <1>6, <1>7, <1>8, LiveIsSafe DEF DirInv
<1>9. CASE ~Live(e)
  <2>1. /\ Begins(rcvd[peer(e)], sent[e])'
        /\ Begins(acked[e], rcvd[peer(e)])'
    BY <1>1, <1>9 DEF DirInv
  <2>. QED  BY <1>1, <1>4, <1>5, <1>6, <1>7, <1>9, <2>1 DEF DirInv
<1>. QED  BY <1>8, <1>9

-----------------------------------------------------------------------------
(* One lemma per step.                                                     *)

(* A step that changes neither end's link state and empties the air.       *)
LEMMA InvQuiet ==
  ASSUME TypeOK, LinkInv, TurnPasses \/ Tick
  PROVE  LinkInv'
<1>1. /\ air' = NoPkt
      /\ UNCHANGED <<rmt_seqn, loc_seqn, loc_arqn, cur_tx_msg, state, acl_tx_q,
                     task, pkt, sent, rcvd, acked>>
  BY DEF TurnPasses, Tick, Advance, ll, hist
<1>2. ASSUME NEW e \in Ends PROVE DirInv(e)'
  <2>0. DirInv(e)
    BY DEF LinkInv
  <2>1. SenderState(e)' /\ SeqnAgree(e)'
    BY <1>1, <2>0 DEF DirInv, SenderState, SeqnAgree, Live, Current, IsDelivered
  <2>2. PktIsCurrent(e)' /\ AckIsCurrent(e)'
    BY <1>1, <2>0 DEF DirInv, PktIsCurrent, AckIsCurrent, Live, IsDelivered
  <2>. QED  BY <1>1, <2>0, <2>1, <2>2 DEF DirInv, Live
<1>. QED  BY <1>1, <1>2 DEF LinkInv, AirInSlot

LEMMA InvHost ==
  ASSUME TypeOK, LinkInv, NEW f \in Ends, HostRead(f) \/ Idle(f)
  PROVE  LinkInv'
<1>1. /\ UNCHANGED <<rmt_seqn, loc_seqn, loc_arqn, cur_tx_msg, acl_tx_q, air, slot,
                     task, pkt, sent, rcvd, acked>>
      /\ \A e \in Ends : state'[e] = "PAGE" => state[e] = "PAGE"
  BY DEF HostRead, Idle, ll, hist, TypeOK
<1>2. ASSUME NEW e \in Ends PROVE DirInv(e)'
  <2>0. DirInv(e)
    BY DEF LinkInv
  <2>1. SenderState(e)' /\ SeqnAgree(e)'
    BY <1>1, <2>0 DEF DirInv, SenderState, SeqnAgree, Live, Current, IsDelivered
  <2>2. PktIsCurrent(e)' /\ AckIsCurrent(e)'
    BY <1>1, <2>0 DEF DirInv, PktIsCurrent, AckIsCurrent, Live, IsDelivered
  <2>. QED  BY <1>1, <2>0, <2>1, <2>2 DEF DirInv, Live
<1>. QED  BY <1>1, <1>2 DEF LinkInv, AirInSlot

LEMMA InvPage ==
  ASSUME TypeOK, LinkInv, Page
  PROVE  LinkInv'
<1>1. ASSUME NEW e \in Ends PROVE DirInv(e)'
  <2>0. DirInv(e) /\ peer(e) \in Ends
    BY EndFacts DEF LinkInv
  <2>1. /\ sent'[e] = << >> /\ acked'[e] = << >> /\ rcvd'[e] = << >>
        /\ rcvd'[peer(e)] = << >> /\ acl_tx_q'[e] = << >>
        /\ ~Live(e) /\ task' = task
        /\ UNCHANGED <<rmt_seqn, loc_seqn, loc_arqn, cur_tx_msg, pkt, air, slot>>
    BY <2>0 DEF Page, ll, Live
  <2>2. SenderState(e)' /\ SeqnAgree(e)'
    BY <2>1 DEF SenderState, SeqnAgree, Live
  <2>3. PktIsCurrent(e)' /\ AckIsCurrent(e)'
    BY <2>0, <2>1 DEF DirInv, PktIsCurrent, AckIsCurrent, Live
  <2>. QED  BY <2>1, <2>2, <2>3, BeginsEmpty DEF DirInv, Live
<1>. QED  BY <1>1 DEF LinkInv, AirInSlot, Page

LEMMA InvTransmit ==
  ASSUME TypeOK, LinkInv, NEW f \in Ends, Transmit(f)
  PROVE  LinkInv'
<1>1. /\ air' = pkt[f] /\ slot' = RxSlot(peer(f))
      /\ task[f] = "tx" /\ task'[f] = "rx" /\ pkt'[f] = NoPkt
      /\ \A e \in Ends : e # f => task'[e] = task[e] /\ pkt'[e] = pkt[e]
      /\ UNCHANGED <<rmt_seqn, loc_seqn, loc_arqn, cur_tx_msg, state, acl_tx_q,
                     sent, rcvd, acked>>
  BY SlotFacts DEF Transmit, Advance, ll, hist, TypeOK
<1>2. DirInv(f) /\ DirInv(peer(f)) /\ peer(f) \in Ends /\ peer(f) # f /\ peer(peer(f)) = f
  BY EndFacts DEF LinkInv
<1>3. \A e \in Ends : Live(e)' <=> Live(e)
  BY <1>1 DEF Live
<1>4. ASSUME NEW e \in Ends PROVE DirInv(e)'
  <2>0. DirInv(e) /\ peer(e) \in Ends
    BY EndFacts DEF LinkInv
  <2>1. SenderState(e)' /\ SeqnAgree(e)'
    BY <1>1, <1>3, <2>0 DEF DirInv, SenderState, SeqnAgree, Current, IsDelivered
  <2>2. CASE e = f
    <3>1. PktIsCurrent(e)'
      BY <1>1, <1>2, <2>2 DEF DirInv, PktIsCurrent
    <3>2. AckIsCurrent(e)'
      <4>1. RxSlot(peer(f)) # RxSlot(f)
        BY SlotFacts
      <4>. QED
        BY <1>1, <1>2, <1>3, <2>2, <4>1 DEF DirInv, AckIsCurrent, IsDelivered
    <3>. QED  BY <1>1, <1>3, <2>0, <2>1, <3>1, <3>2 DEF DirInv
  <2>3. CASE e = peer(f)
    <3>1. RxSlot(peer(f)) # RxSlot(f)
      BY SlotFacts
    <3>2. PktIsCurrent(e)'
      BY <1>1, <1>2, <2>3, <3>1 DEF DirInv, PktIsCurrent
    <3>3. AckIsCurrent(e)'
      BY <1>1, <1>2, <1>3, <2>3 DEF DirInv, AckIsCurrent, IsDelivered
    <3>. QED  BY <1>1, <1>3, <2>0, <2>1, <3>2, <3>3 DEF DirInv
  <2>. QED  BY <2>2, <2>3, EndFacts
<1>5. AirInSlot'
  BY <1>1, <1>2, SlotFacts DEF AirInSlot
<1>. QED  BY <1>4, <1>5 DEF LinkInv

LEMMA InvConnect ==
  ASSUME TypeOK, TypeOK', LinkInv, Connect \/ ConnectSlaveOnly
  PROVE  LinkInv'
<1>1. /\ \A e \in Ends : state[e] = "PAGE" /\ ~Live(e)
      /\ slot = "master_tx" /\ slot' = slot /\ air' = air
      /\ UNCHANGED <<sent, rcvd, acked>>
  BY DEF Connect, ConnectSlaveOnly, hist, Live
<1>2. ASSUME NEW e \in Ends
      PROVE  /\ sent[e] = acl_tx_q[e] /\ acked[e] = << >> /\ rcvd[e] = << >>
             /\ rcvd[peer(e)] = << >> /\ pkt[e] = NoPkt
             /\ acl_tx_q[e] \in Seq(Msgs)
  <2>1. /\ peer(e) \in Ends
        /\ SenderState(e) /\ SenderState(peer(e)) /\ PktIsCurrent(e)
    BY EndFacts DEF LinkInv, DirInv
  <2>. QED  BY <1>1, <2>1 DEF SenderState, PktIsCurrent, Live, TypeOK
<1>3. air = NoPkt
  BY <1>1 DEF LinkInv, AirInSlot
<1>4. /\ loc_arqn' = [loc_arqn EXCEPT !["slave"] = 0] \/ loc_arqn' = [e \in Ends |-> 0]
      /\ cur_tx_msg'["slave"] = NULL /\ acl_tx_q'["slave"] = acl_tx_q["slave"]
      /\ loc_seqn'["slave"] = 1 /\ rmt_seqn'["slave"] = 1
      /\ task'["slave"] = "rx" /\ pkt'["slave"] = pkt["slave"]
      /\ \A e \in Ends : state'[e] # "PAGE"
  <2>1. CASE Connect
    <3>1. "slave" \in Ends /\ "slave" # "master"
      BY DEF Ends
    <3>2. acl_tx_q'["slave"] = acl_tx_q["slave"] /\ pkt'["slave"] = pkt["slave"]
      BY <2>1, <3>1 DEF Connect, TypeOK
    <3>. QED  BY <2>1, <3>1, <3>2 DEF Connect, ll_init
  <2>2. CASE ConnectSlaveOnly
    <3>1. "slave" \in Ends
      BY DEF Ends
    <3>2. \A e \in Ends : state'[e] # "PAGE"
      BY <2>2 DEF ConnectSlaveOnly
    <3>3. cur_tx_msg'["slave"] = NULL /\ loc_seqn'["slave"] = 1 /\ task'["slave"] = "rx"
      BY <2>2, <3>1 DEF ConnectSlaveOnly, ScheduleRx, TypeOK
    <3>. QED  BY <2>2, <3>1, <3>2, <3>3 DEF ConnectSlaveOnly, ScheduleRx, ll_init
  <2>. QED  BY <2>1, <2>2
<1>5. \A e \in Ends : loc_arqn'[e] = 0
  <2>1. CASE loc_arqn' = [loc_arqn EXCEPT !["slave"] = 0]
    <3>1. loc_arqn["master"] = 0
      BY <1>1 DEF LinkInv, DirInv, AckIsCurrent, Ends
    <3>. QED  BY <2>1, <3>1 DEF TypeOK, Ends
  <2>2. CASE loc_arqn' = [e \in Ends |-> 0]
    BY <2>2
  <2>. QED  BY <1>4, <2>1, <2>2
<1>6. \/ /\ task'["master"] = "off" /\ pkt'["master"] = pkt["master"]
      \/ /\ Connect
         /\ task'["master"] = "tx" /\ pkt'["master"].seqn = 1
         /\ pkt'["master"].arqn = 0 /\ pkt'["master"] # NoPkt
         /\ pkt'["master"].msg = cur_tx_msg'["master"]
         /\ loc_seqn'["master"] = 1 /\ rmt_seqn'["master"] = 1
  <2>1. CASE Connect
    <3>. DEFINE fetch == acl_tx_q["master"] # << >>
                m == IF fetch THEN Head(acl_tx_q["master"]) ELSE NULL
                p == [type |-> IF fetch THEN "ACL" ELSE "POLL", arqn |-> 0,
                      seqn |-> 1, msg |-> m]
    <3>1. acl_tx_q["master"] \in Seq(Msgs)
      BY DEF TypeOK, Ends
    <3>2. p \in Pkt
      BY <3>1 DEF Pkt, Flag
    <3>3. p # NoPkt
      BY <3>2, NoPktAssumption
    <3>4. pkt'["master"] = p /\ cur_tx_msg'["master"] = m
      BY <2>1 DEF Connect, TypeOK, Ends
    <3>5. task'["master"] = "tx" /\ loc_seqn'["master"] = 1 /\ rmt_seqn'["master"] = 1
      BY <2>1 DEF Connect, ll_init, Ends
    <3>. QED  BY <2>1, <3>3, <3>4, <3>5
  <2>2. CASE ConnectSlaveOnly
    <3>1. task'["master"] = task["master"] /\ task["master"] = "off"
      BY <2>2 DEF ConnectSlaveOnly, ScheduleRx, TypeOK, Ends
    <3>2. pkt'["master"] = pkt["master"]
      BY <2>2 DEF ConnectSlaveOnly, ScheduleRx
    <3>. QED  BY <3>1, <3>2
  <2>. QED  BY <2>1, <2>2
<1>7. \A e \in Ends : Live(e)' => loc_seqn'[e] = 1 /\ rmt_seqn'[e] = 1
  BY <1>4, <1>6 DEF Live, Ends
<1>8. ASSUME NEW e \in Ends PROVE DirInv(e)'
  <2>1. Live(e)' => sent'[e] = (acked'[e] \o Current(e)') \o acl_tx_q'[e]
    <3>1. CASE e = "slave"
      <4>1. (<< >> \o << >>) \o acl_tx_q[e] = acl_tx_q[e]
        BY <1>2, ConcatEmptySeq
      <4>. QED  BY <1>1, <1>2, <1>4, <3>1, <4>1 DEF Current
    <3>2. CASE e = "master" /\ Connect
      <4>1. (<< >> \o << >>) \o acl_tx_q[e] = acl_tx_q[e]
        BY <1>2, ConcatEmptySeq
      <4>2. CASE acl_tx_q[e] = << >>
        <5>1. cur_tx_msg'[e] = NULL /\ acl_tx_q'[e] = acl_tx_q[e]
          BY <3>2, <4>2 DEF Connect, Ends
        <5>. QED  BY <1>1, <1>2, <4>1, <5>1 DEF Current
      <4>3. CASE acl_tx_q[e] # << >>
        <5>1. /\ cur_tx_msg'[e] = Head(acl_tx_q[e])
              /\ acl_tx_q'[e] = Tail(acl_tx_q[e])
          BY <3>2, <4>3 DEF Connect, TypeOK, Ends
        <5>2. Head(acl_tx_q[e]) \in Msgs
          BY <1>2, <4>3
        <5>3. Head(acl_tx_q[e]) # NULL
          BY <5>2, LinkAssumption
        <5>4. (<< >> \o <<Head(acl_tx_q[e])>>) \o Tail(acl_tx_q[e]) = acl_tx_q[e]
          BY <1>2, <4>1, <4>3, FetchKeeps
        <5>. QED  BY <1>1, <1>2, <5>1, <5>3, <5>4 DEF Current
      <4>. QED  BY <4>2, <4>3
    <3>3. CASE e = "master" /\ ~Connect
      BY <1>6, <3>3 DEF Live
    <3>. QED  BY <3>1, <3>2, <3>3 DEF Ends
  <2>2. rcvd'[peer(e)] = << >> /\ acked'[e] = << >> /\ sent'[e] \in Seq(Msgs)
    BY <1>1, <1>2 DEF TypeOK
  <2>3. SenderState(e)'
    BY <1>4, <2>1, <2>2 DEF SenderState
  <2>4. SeqnAgree(e)'
    BY <1>7, <2>2, EndFacts DEF SeqnAgree, IsDelivered
  <2>5. PktIsCurrent(e)'
    <3>1. air' # NoPkt => FALSE
      BY <1>1, <1>3
    <3>2. CASE e = "slave"
      BY <1>2, <1>4, <3>1, <3>2 DEF PktIsCurrent
    <3>3. CASE e = "master"
      BY <1>2, <1>6, <3>1, <3>3 DEF PktIsCurrent
    <3>. QED  BY <3>2, <3>3 DEF Ends
  <2>6. AckIsCurrent(e)'
    <3>1. \A d \in Ends : pkt'[d] = NoPkt \/ pkt'[d].arqn = 0
      BY <1>2, <1>4, <1>6 DEF Ends
    <3>. QED  BY <1>1, <1>3, <1>5, <3>1, EndFacts DEF AckIsCurrent
  <2>7. /\ Begins(rcvd[peer(e)], sent[e])' /\ Begins(acked[e], rcvd[peer(e)])'
        /\ (Len(rcvd[peer(e)]) <= Len(acked[e]) + 1)'
    BY <2>2 DEF Begins
  <2>. QED  BY <2>3, <2>4, <2>5, <2>6, <2>7 DEF DirInv
<1>. QED  BY <1>1, <1>3, <1>8 DEF LinkInv, AirInSlot

(* The end gives up the link.                                              *)
LEMMA InvGiveUp ==
  ASSUME TypeOK, LinkInv, NEW f \in Ends, RxCanceled(f) \/ RxTimeout(f)
  PROVE  LinkInv'
<1>1. /\ air' = NoPkt /\ task[f] = "rx" /\ ~Live(f)'
      /\ \A e \in Ends : /\ e # f => task'[e] = task[e] /\ cur_tx_msg'[e] = cur_tx_msg[e]
                         /\ state'[e] = "PAGE" => state[e] = "PAGE"
      /\ task'[f] = "off"
      /\ UNCHANGED <<rmt_seqn, loc_seqn, loc_arqn, acl_tx_q, pkt, sent, rcvd, acked>>
  BY DEF RxCanceled, RxTimeout, ll_reset, Listening, Advance, hist, TypeOK, Live
<1>2. ASSUME NEW e \in Ends PROVE DirInv(e)'
  <2>0. DirInv(e) /\ DirInv(f) /\ peer(e) \in Ends
    BY EndFacts DEF LinkInv
  <2>1. SenderState(e)'
    <3>1. CASE e = f
      BY <1>1, <2>0, <3>1 DEF DirInv, SenderState, Live
    <3>2. CASE e # f
      BY <1>1, <2>0, <3>2 DEF DirInv, SenderState, Live, Current
    <3>. QED  BY <3>1, <3>2
  <2>2. Live(e)' => Live(e) /\ e # f
    BY <1>1 DEF Live
  <2>3. SeqnAgree(e)'
    <3>1. e = f \/ peer(e) = f
      BY EndFacts
    <3>. QED  BY <1>1, <3>1 DEF SeqnAgree, Live
  <2>4. PktIsCurrent(e)'
    BY <1>1, <2>0 DEF DirInv, PktIsCurrent
  <2>5. AckIsCurrent(e)'
    BY <1>1, <2>0, <2>2 DEF DirInv, AckIsCurrent, IsDelivered
  <2>. QED  BY <1>1, <2>0, <2>1, <2>2, <2>3, <2>4, <2>5 DEF DirInv
<1>. QED  BY <1>1, <1>2 DEF LinkInv, AirInSlot

(* A slot without a packet for this end: it keeps what it has, and answers *)
(* if it is the master.                                                    *)
LEMMA InvNoPacket ==
  ASSUME TypeOK, TypeOK', LinkInv, NEW f \in Ends, RxNothing(f) \/ RxForeign(f)
  PROVE  LinkInv'
<1>. DEFINE d == peer(f)
<1>1. /\ DirInv(f) /\ DirInv(d) /\ d \in Ends /\ d # f /\ peer(d) = f
      /\ \A e \in Ends : e = f \/ e = d
  BY EndFacts DEF LinkInv
<1>2. /\ task[f] = "rx" /\ air' = NoPkt /\ state[f] = "CONNECTED"
      /\ UNCHANGED <<rmt_seqn, state, sent, rcvd, acked>>
  BY DEF RxNothing, RxForeign, Listening, Advance, hist
<1>3. loc_arqn[f] = 0 /\ pkt[f] = NoPkt /\ Live(f)
  BY <1>1, <1>2 DEF DirInv, AckIsCurrent, PktIsCurrent, Live
<1>4. /\ cur_tx_msg[f] \in Msgs \cup {NULL} /\ loc_seqn[f] \in Flag
      /\ loc_arqn[f] \in Flag
  BY DEF TypeOK
<1>5. PICK tx \in BOOLEAN : Respond(f, tx, cur_tx_msg[f], loc_seqn[f], loc_arqn[f])
  <2>1. CASE RxNothing(f)
    BY <2>1 DEF RxNothing
  <2>2. CASE RxForeign(f)
    BY <2>2 DEF RxForeign, Respond
  <2>. QED  BY <2>1, <2>2
<1>6. Answered(f, tx, cur_tx_msg[f], loc_seqn[f], loc_arqn[f])
  BY <1>3, <1>4, <1>5, RespondEffect
<1>7. DirInv(f)'
  <2>1. /\ sent'[f] = (acked'[f] \o OneOf(cur_tx_msg[f])) \o acl_tx_q[f]
        /\ \/ rcvd'[d] = acked'[f]
           \/ cur_tx_msg[f] # NULL /\ rcvd'[d] = Append(acked'[f], cur_tx_msg[f])
    BY <1>1, <1>2, <1>3 DEF DirInv, SenderState, Current, OneOf
  <2>2. Live(d) => (rmt_seqn'[d] = loc_seqn[f] <=> rcvd'[d] = acked'[f])
    BY <1>1, <1>2, <1>3 DEF DirInv, SeqnAgree, IsDelivered
  <2>3. pkt[d] # NoPkt /\ pkt[d].arqn = 1 => rcvd'[d] # acked'[f]
    BY <1>1, <1>2, <1>3 DEF DirInv, AckIsCurrent, IsDelivered
  <2>4. state'[f] # "PAGE" /\ (loc_arqn[f] = 1 => tx)
    BY <1>2, <1>3
  <2>. QED
    BY <1>2, <1>3, <1>4, <1>5, <2>1, <2>2, <2>3, <2>4, SenderSide
<1>8. DirInv(d)'
  <2>1. /\ cur_tx_msg'[d] = cur_tx_msg[d] /\ acl_tx_q'[d] = acl_tx_q[d]
        /\ pkt'[d] = pkt[d] /\ loc_seqn'[d] = loc_seqn[d]
        /\ loc_arqn'[d] = loc_arqn[d]
    BY <1>1, <1>6 DEF Answered, TypeOK
  <2>2. task'[d] = task[d]
    <3>1. CASE tx = TRUE
      BY <1>1, <1>6, <3>1 DEF Answered, TypeOK
    <3>2. CASE tx = FALSE
      BY <1>1, <1>6, <3>2 DEF Answered, TypeOK
    <3>. QED  BY <3>1, <3>2
  <2>3. pkt'[f] # NoPkt => pkt'[f].arqn = 0
    <3>1. CASE tx = TRUE
      BY <1>3, <1>6, <3>1 DEF Answered
    <3>2. CASE tx = FALSE
      BY <1>3, <1>6, <3>2 DEF Answered
    <3>. QED  BY <3>1, <3>2
  <2>. QED  BY <1>1, <1>2, <2>1, <2>2, <2>3, ReceiverSide
<1>9. AirInSlot'
  BY <1>2 DEF AirInSlot
<1>. QED  BY <1>1, <1>7, <1>8, <1>9 DEF LinkInv

(* What a packet on the air in f's receive slot says.                      *)
LEMMA AirFacts ==
  ASSUME TypeOK, LinkInv, NEW f \in Ends, Listening(f), air # NoPkt
  PROVE  LET d == peer(f) IN
         /\ Live(f) /\ Live(d) /\ pkt[f] = NoPkt /\ pkt[d] = NoPkt
         /\ loc_arqn[f] = 0
         /\ air.seqn = loc_seqn[d] /\ air.msg = cur_tx_msg[d] /\ air \in Pkt
         /\ air.arqn = 1 => rcvd[d] # acked[f]
         /\ air.seqn = rmt_seqn[f] <=> rcvd[f] = acked[d]
<1>. DEFINE d == peer(f)
<1>1. DirInv(f) /\ DirInv(d) /\ d \in Ends /\ d # f /\ peer(d) = f
  BY EndFacts DEF LinkInv
<1>2. slot = RxSlot(f) /\ task[f] = "rx" /\ Live(f) /\ air \in Pkt
  BY DEF Listening, Live, TypeOK
<1>3. /\ task[d] = "rx" /\ Live(d) /\ air.seqn = loc_seqn[d]
      /\ air.msg = cur_tx_msg[d] /\ pkt[d] = NoPkt
  BY <1>1, <1>2 DEF DirInv, PktIsCurrent, Live
<1>4. pkt[f] = NoPkt /\ loc_arqn[f] = 0
  BY <1>1, <1>2 DEF DirInv, PktIsCurrent, AckIsCurrent
<1>5. air.arqn = 1 => rcvd[d] # acked[f]
  BY <1>1, <1>2 DEF DirInv, AckIsCurrent, IsDelivered
<1>6. air.seqn = rmt_seqn[f] <=> rcvd[f] = acked[d]
  BY <1>1, <1>2, <1>3 DEF DirInv, SeqnAgree, IsDelivered
<1>. QED  BY <1>2, <1>3, <1>4, <1>5, <1>6

(* What the acknowledgement in a packet does to the sender's side.         *)
LEMMA AckEffect ==
  ASSUME TypeOK, LinkInv, NEW f \in Ends, Listening(f), air # NoPkt,
         acked' = IF IsAck(f) THEN [acked EXCEPT ![f] = Append(@, cur_tx_msg[f])]
                              ELSE acked
  PROVE  LET d == peer(f) IN
         /\ acked'[d] = acked[d]
         /\ sent[f] = (acked'[f] \o OneOf(CurAfterAck(f))) \o acl_tx_q[f]
         /\ \/ rcvd[d] = acked'[f]
            \/ /\ CurAfterAck(f) # NULL
               /\ rcvd[d] = Append(acked'[f], CurAfterAck(f))
         /\ rmt_seqn[d] = SeqnAfterAck(f) <=> rcvd[d] = acked'[f]
<1>. DEFINE d == peer(f)
<1>1. /\ DirInv(f) /\ d \in Ends /\ d # f /\ Live(f) /\ Live(d)
      /\ air.arqn = 1 => rcvd[d] # acked[f]
  BY AirFacts, EndFacts DEF LinkInv
<1>2. /\ sent[f] = (acked[f] \o OneOf(cur_tx_msg[f])) \o acl_tx_q[f]
      /\ \/ rcvd[d] = acked[f]
         \/ cur_tx_msg[f] # NULL /\ rcvd[d] = Append(acked[f], cur_tx_msg[f])
      /\ rmt_seqn[d] = loc_seqn[f] <=> rcvd[d] = acked[f]
  BY <1>1 DEF DirInv, SenderState, SeqnAgree, IsDelivered, Current, OneOf
<1>3. acked[f] \in Seq(Msgs) /\ acl_tx_q[f] \in Seq(Msgs)
  BY DEF TypeOK
<1>4. CASE IsAck(f)
  <2>1. cur_tx_msg[f] \in Msgs /\ rcvd[d] = Append(acked[f], cur_tx_msg[f])
    BY <1>1, <1>2, <1>4 DEF IsAck, TypeOK
  <2>2. acked'[f] = rcvd[d] /\ acked'[d] = acked[d]
    BY <1>1, <1>4, <2>1 DEF TypeOK
  <2>3. CurAfterAck(f) = NULL /\ OneOf(CurAfterAck(f)) = << >>
    BY <1>4 DEF CurAfterAck, OneOf
  <2>4. acked[f] \o OneOf(cur_tx_msg[f]) = acked'[f] \o << >>
    BY <1>3, <2>1, <2>2, AckKeeps, LinkAssumption DEF OneOf
  <2>5. rmt_seqn[d] = SeqnAfterAck(f)
    <3>1. rmt_seqn[d] # loc_seqn[f]
      BY <1>1, <1>2, <1>4 DEF IsAck
    <3>2. rmt_seqn[d] \in Flag /\ loc_seqn[f] \in Flag
      BY <1>1 DEF TypeOK
    <3>. QED  BY <1>4, <3>1, <3>2 DEF SeqnAfterAck, Flag
  <2>. QED  BY <1>2, <2>2, <2>3, <2>4, <2>5
<1>5. CASE ~IsAck(f)
  BY <1>2, <1>5 DEF CurAfterAck, SeqnAfterAck
<1>. QED  BY <1>4, <1>5

(* A received packet acknowledges in one direction and carries data in the *)
(* other.                                                                  *)
LEMMA InvRxPacket ==
  ASSUME TypeOK, TypeOK', LinkInv, NEW f \in Ends, NEW g \in BOOLEAN, RxPacket(f, g)
  PROVE  LinkInv'
<1>. DEFINE d == peer(f)
            cur == CurAfterAck(f)
            seqn == SeqnAfterAck(f)
            arqn == ArqnAfter(f, g)
<1>1. /\ DirInv(d) /\ d \in Ends /\ d # f /\ peer(d) = f
      /\ \A e \in Ends : e = f \/ e = d
  BY EndFacts DEF LinkInv
<1>2. /\ Listening(f) /\ task[f] = "rx" /\ air' = NoPkt /\ air # NoPkt
      /\ state[f] = "CONNECTED" /\ UNCHANGED <<state, sent>>
      /\ acked' = IF IsAck(f) THEN [acked EXCEPT ![f] = Append(@, cur_tx_msg[f])]
                              ELSE acked
  BY DEF RxPacket, Listening, Advance
<1>3. /\ Live(f) /\ Live(d) /\ pkt[f] = NoPkt /\ pkt[d] = NoPkt
      /\ loc_arqn[f] = 0 /\ air.seqn = loc_seqn[d] /\ air.msg = cur_tx_msg[d]
      /\ air.seqn = rmt_seqn[f] <=> rcvd[f] = acked[d]
  BY <1>2, AirFacts
<1>4. /\ acked'[d] = acked[d]
      /\ sent[f] = (acked'[f] \o OneOf(cur)) \o acl_tx_q[f]
      /\ rcvd[d] = acked'[f] \/ (cur # NULL /\ rcvd[d] = Append(acked'[f], cur))
      /\ rmt_seqn[d] = seqn <=> rcvd[d] = acked'[f]
  BY <1>2, AckEffect
<1>5. /\ rcvd'[d] = rcvd[d] /\ rmt_seqn'[d] = rmt_seqn[d]
      /\ \/ ~IsNew(f, g) /\ rcvd'[f] = rcvd[f] /\ rmt_seqn'[f] = rmt_seqn[f]
         \/ /\ IsNew(f, g)
            /\ rcvd'[f] = Append(rcvd[f], air.msg) /\ rmt_seqn'[f] = 1 - rmt_seqn[f]
  <2>1. CASE IsNew(f, g)
    BY <1>1, <2>1 DEF RxPacket, TypeOK
  <2>2. CASE ~IsNew(f, g)
    BY <2>2 DEF RxPacket
  <2>. QED  BY <2>1, <2>2
<1>6. cur \in Msgs \cup {NULL} /\ seqn \in Flag /\ arqn \in Flag
  BY AfterAckType
<1>7. PICK tx \in BOOLEAN : Respond(f, tx, cur, seqn, arqn) /\ (arqn = 1 => tx)
  <2>. DEFINE t == f = "master" \/ air.type = "POLL" \/ arqn = 1
  <2>1. t \in BOOLEAN /\ Respond(f, t, cur, seqn, arqn) /\ (arqn = 1 => t)
    BY DEF RxPacket
  <2>. QED  BY <2>1
<1>. HIDE DEF cur, seqn, arqn
<1>8. Answered(f, tx, cur, seqn, arqn)
  BY <1>6, <1>7, RespondEffect
<1>9. DirInv(f)'
  BY <1>2, <1>3, <1>4, <1>5, <1>6, <1>7, SenderSide
<1>10. DirInv(d)'
  <2>1. /\ cur_tx_msg'[d] = cur_tx_msg[d] /\ acl_tx_q'[d] = acl_tx_q[d]
        /\ pkt'[d] = pkt[d] /\ loc_seqn'[d] = loc_seqn[d]
        /\ loc_arqn'[d] = loc_arqn[d]
    BY <1>1, <1>8 DEF Answered, TypeOK
  <2>2. task'[d] = task[d]
    <3>1. CASE tx = TRUE
      BY <1>1, <1>8, <3>1 DEF Answered, TypeOK
    <3>2. CASE tx = FALSE
      BY <1>1, <1>8, <3>2 DEF Answered, TypeOK
    <3>. QED  BY <3>1, <3>2
  <2>3. \/ rcvd'[f] = rcvd[f] /\ rmt_seqn'[f] = rmt_seqn[f]
        \/ /\ Live(d) /\ rcvd[f] = acked[d] /\ rmt_seqn[f] = loc_seqn[d]
           /\ cur_tx_msg[d] # NULL /\ rcvd'[f] = Append(rcvd[f], cur_tx_msg[d])
           /\ rmt_seqn'[f] = 1 - rmt_seqn[f]
    BY <1>3, <1>5 DEF IsNew, HasCrc
  <2>4. pkt'[f] # NoPkt /\ pkt'[f].arqn = 1 => rcvd'[f] # acked[d]
    <3>. SUFFICES ASSUME pkt'[f] # NoPkt, pkt'[f].arqn = 1
                  PROVE  rcvd'[f] # acked[d]
      OBVIOUS
    <3>1. arqn = 1
      <4>1. CASE tx = TRUE
        BY <1>8, <4>1 DEF Answered
      <4>2. CASE tx = FALSE
        BY <1>3, <1>8, <4>2 DEF Answered
      <4>. QED  BY <4>1, <4>2
    <3>2. IsDuplicate(f) \/ IsNew(f, g)
      BY <1>3, <3>1 DEF arqn, ArqnAfter
    <3>3. CASE IsNew(f, g)
      <4>1. rcvd[f] = acked[d] /\ cur_tx_msg[d] # NULL
        BY <1>3, <3>3 DEF IsNew, HasCrc
      <4>2. rcvd[f] \in Seq(Msgs) /\ cur_tx_msg[d] \in Msgs
        BY <1>1, <4>1 DEF TypeOK
      <4>3. rcvd'[f] = Append(rcvd[f], cur_tx_msg[d])
        BY <1>3, <1>5, <3>3
      <4>. QED  BY <4>1, <4>2, <4>3
    <3>4. CASE ~IsNew(f, g)
      <4>1. air.seqn # rmt_seqn[f]
        BY <3>2, <3>4 DEF IsDuplicate
      <4>. QED  BY <1>3, <1>5, <3>4, <4>1
    <3>. QED  BY <3>3, <3>4
  <2>. QED
    BY <1>1, <1>2, <1>4, <1>5, <2>1, <2>2, <2>3, <2>4, ReceiverSide
<1>11. AirInSlot'
  BY <1>2 DEF AirInSlot
<1>. QED  BY <1>1, <1>9, <1>10, <1>11 DEF LinkInv

LEMMA InvRxDie ==
  ASSUME TypeOK, TypeOK', LinkInv, NEW f \in Ends, RxDie(f)
  PROVE  LinkInv'
<1>. DEFINE d == peer(f)
<1>1. /\ DirInv(f) /\ DirInv(d) /\ d \in Ends /\ d # f /\ peer(d) = f
      /\ \A e \in Ends : e = f \/ e = d
  BY EndFacts DEF LinkInv
<1>2. /\ Listening(f) /\ air' = NoPkt /\ air # NoPkt
      /\ acked' = IF IsAck(f) THEN [acked EXCEPT ![f] = Append(@, cur_tx_msg[f])]
                              ELSE acked
      /\ state'[f] = "HALTED" /\ state'[d] = state[d]
      /\ task'[f] = "off" /\ task'[d] = task[d]
      /\ cur_tx_msg'[d] = cur_tx_msg[d] /\ loc_seqn'[d] = loc_seqn[d]
      /\ UNCHANGED <<rmt_seqn, loc_arqn, acl_tx_q, pkt, sent, rcvd>>
  BY <1>1 DEF RxDie, Listening, Advance, TypeOK
<1>3. Live(f) /\ Live(d) /\ pkt[f] = NoPkt /\ pkt[d] = NoPkt /\ loc_arqn[f] = 0
  BY <1>2, AirFacts
<1>4. /\ acked'[d] = acked[d]
      /\ \/ rcvd[d] = acked'[f]
         \/ CurAfterAck(f) # NULL /\ rcvd[d] = Append(acked'[f], CurAfterAck(f))
  BY <1>2, AckEffect
<1>5. ~Live(f)' /\ (Live(d)' <=> Live(d))
  BY <1>2 DEF Live
<1>6. DirInv(f)'
  <2>1. SenderState(f)' /\ SeqnAgree(f)'
    BY <1>2, <1>5 DEF SenderState, SeqnAgree
  <2>2. PktIsCurrent(f)' /\ AckIsCurrent(f)'
    BY <1>2, <1>3, <1>5 DEF PktIsCurrent, AckIsCurrent
  <2>3. Begins(rcvd[d], sent[f])'
    BY <1>1, <1>2 DEF DirInv
  <2>4. Begins(acked[f], rcvd[d])'
    <3>1. acked'[f] \in Seq(Msgs) /\ CurAfterAck(f) \in Msgs \cup {NULL}
      BY AfterAckType DEF TypeOK
    <3>. QED  BY <1>2, <1>4, <3>1, ShapeIsSafe
  <2>. QED  BY <1>5, <2>1, <2>2, <2>3, <2>4 DEF DirInv
<1>7. DirInv(d)'
  <2>1. SenderState(d)'
    BY <1>1, <1>2, <1>4, <1>5 DEF DirInv, SenderState, Current
  <2>2. SeqnAgree(d)'
    BY <1>1, <1>5 DEF SeqnAgree
  <2>3. PktIsCurrent(d)' /\ AckIsCurrent(d)'
    BY <1>1, <1>2, <1>3 DEF DirInv, PktIsCurrent, AckIsCurrent
  <2>. QED  BY <1>1, <1>2, <1>4, <1>5, <2>1, <2>2, <2>3 DEF DirInv
<1>8. AirInSlot'
  BY <1>2 DEF AirInSlot
<1>. QED  BY <1>1, <1>6, <1>7, <1>8 DEF LinkInv

-----------------------------------------------------------------------------
(* The ARQ invariant holds in every reachable state: at any time the peer  *)
(* has all acknowledged messages and at most the current one besides, and  *)
(* the sequence bits tell which.                                           *)
THEOREM LinkInvHolds == Spec => []LinkInv
<1>1. TypeOK /\ TypeOK' /\ LinkInv /\ [Next]_vars => LinkInv'
  <2>. SUFFICES ASSUME TypeOK, TypeOK', LinkInv, [Next]_vars PROVE LinkInv'
    OBVIOUS
  <2>1. ASSUME NEW e \in Ends, NEW m \in Msgs, TxAcl(e, m) PROVE LinkInv'
    BY <2>1, InvTxAcl
  <2>2. ASSUME NEW e \in Ends, HostRead(e) \/ Idle(e) PROVE LinkInv'
    BY <2>2, InvHost
  <2>3. ASSUME NEW e \in Ends, Transmit(e) PROVE LinkInv'
    BY <2>3, InvTransmit
  <2>4. ASSUME NEW e \in Ends, Rx(e) PROVE LinkInv'
    BY <2>4, InvGiveUp, InvNoPacket, InvRxPacket, InvRxDie DEF Rx
  <2>5. CASE Page
    BY <2>5, InvPage
  <2>6. CASE Connect \/ ConnectSlaveOnly
    BY <2>6, InvConnect
  <2>7. CASE TurnPasses \/ Tick
    BY <2>7, InvQuiet
  <2>8. CASE UNCHANGED vars
    <3>1. UNCHANGED <<rmt_seqn, loc_seqn, loc_arqn, cur_tx_msg, state, acl_tx_q, air,
                      slot, task, pkt, sent, rcvd, acked>>
      BY <2>8 DEF vars, ll, hist
    <3>. QED
      BY <3>1, ZenonT(60)
              DEF LinkInv, DirInv, AirInSlot, SenderState, SeqnAgree, PktIsCurrent,
                  AckIsCurrent, Live, Current, IsDelivered
  <2>. QED  BY <2>1, <2>2, <2>3, <2>4, <2>5, <2>6, <2>7, <2>8 DEF Next
<1>. QED  BY <1>1, LinkInvInit, TypeCorrect, PTL DEF Spec

(* Each host gets the other's messages in order, each at most once.        *)
THEOREM InOrder == Spec => []InOrderOnce
<1>1. LinkInv => InOrderOnce
  BY DEF LinkInv, DirInv, InOrderOnce
<1>. QED  BY <1>1, LinkInvHolds, PTL

(* A message is given up as acknowledged only after it was delivered, and  *)
(* at most one message is ahead of its acknowledgement.                    *)
THEOREM AckedDelivered == Spec => []AckedOnlyIfDelivered
<1>1. LinkInv => AckedOnlyIfDelivered
  BY DEF LinkInv, DirInv, AckedOnlyIfDelivered, Live
<1>. QED  BY <1>1, LinkInvHolds, PTL

(* While the link is up, every accepted message is acknowledged, current   *)
(* or still queued.                                                        *)
THEOREM NoLoss == Spec => []NothingLost
<1>1. LinkInv => NothingLost
  BY DEF LinkInv, DirInv, SenderState, NothingLost
<1>. QED  BY <1>1, LinkInvHolds, PTL

-----------------------------------------------------------------------------
(* Refinement.                                                             *)

(* A sequence grown by one that is still a prefix took the next element.   *)
LEMMA NextElement ==
  ASSUME NEW s \in Seq(Msgs), NEW t \in Seq(Msgs), NEW x \in Msgs,
         Begins(Append(s, x), t)
  PROVE  Len(s) < Len(t) /\ t[Len(s) + 1] = x
<1>1. Append(s, x) \in Seq(Msgs) /\ Len(Append(s, x)) = Len(s) + 1
  OBVIOUS
<1>2. Append(s, x)[Len(s) + 1] = x
  OBVIOUS
<1>3. Len(s) + 1 <= Len(t) /\ t[Len(s) + 1] = Append(s, x)[Len(s) + 1]
  BY <1>1 DEF Begins
<1>. QED  BY <1>2, <1>3

LEMMA ConfirmStep ==
  ASSUME TypeOK, LinkInv, LinkInv', NEW f \in Ends, rcvd'[peer(f)] = rcvd[peer(f)],
         acked' = IF IsAck(f) THEN [acked EXCEPT ![f] = Append(@, cur_tx_msg[f])]
                              ELSE acked
  PROVE  Reliable!Confirm(f) \/ UNCHANGED acked
<1>1. CASE IsAck(f)
  <2>1. /\ cur_tx_msg[f] \in Msgs /\ acked[f] \in Seq(Msgs)
        /\ rcvd[peer(f)] \in Seq(Msgs)
    BY <1>1, EndFacts DEF IsAck, TypeOK
  <2>2. Begins(Append(acked[f], cur_tx_msg[f]), rcvd[peer(f)])
    BY <1>1 DEF LinkInv, DirInv, TypeOK
  <2>3. /\ Len(acked[f]) < Len(rcvd[peer(f)])
        /\ rcvd[peer(f)][Len(acked[f]) + 1] = cur_tx_msg[f]
    BY <2>1, <2>2, NextElement
  <2>. QED  BY <1>1, <2>3 DEF Reliable!Confirm, Reliable!CanConfirm
<1>2. CASE ~IsAck(f)
  BY <1>2
<1>. QED  BY <1>1, <1>2

LEMMA DeliverStep ==
  ASSUME TypeOK, LinkInv, LinkInv', NEW f \in Ends, NEW g \in BOOLEAN, RxPacket(f, g)
  PROVE  Reliable!Deliver(f) \/ UNCHANGED rcvd
<1>1. CASE IsNew(f, g)
  <2>1. rcvd' = [rcvd EXCEPT ![f] = Append(@, air.msg)] /\ sent' = sent
    BY <1>1 DEF RxPacket
  <2>2. air.msg \in Msgs
    BY <1>1 DEF RxPacket, IsNew, HasCrc, TypeOK, Pkt
  <2>3. /\ rcvd[f] \in Seq(Msgs) /\ sent[peer(f)] \in Seq(Msgs)
        /\ peer(peer(f)) = f /\ peer(f) \in Ends
    BY EndFacts DEF TypeOK
  <2>4. Begins(rcvd'[f], sent'[peer(f)])
    BY <2>3 DEF LinkInv, DirInv
  <2>5. Begins(Append(rcvd[f], air.msg), sent[peer(f)])
    BY <2>1, <2>4 DEF TypeOK
  <2>6. /\ Len(rcvd[f]) < Len(sent[peer(f)])
        /\ sent[peer(f)][Len(rcvd[f]) + 1] = air.msg
    BY <2>2, <2>3, <2>5, NextElement
  <2>. QED
    BY <2>1, <2>6 DEF Reliable!Deliver, Reliable!CanDeliver, Reliable!NextFor
<1>2. CASE ~IsNew(f, g)
  BY <1>2 DEF RxPacket
<1>. QED  BY <1>1, <1>2

(* Two devices with their queues, sequence bits and retransmissions, over  *)
(* a lossy channel, are a reliable link.                                   *)
THEOREM LinkImplementsReliable == Spec => ImplementsReliableLink
<1>1. Init => Reliable!Init
  BY DEF Init, Reliable!Init, Reliable!Nothing
<1>2. TypeOK /\ LinkInv /\ LinkInv' /\ [Next]_vars => [Reliable!Next]_(Reliable!linkVars)
  <2>. SUFFICES ASSUME TypeOK, LinkInv, LinkInv', [Next]_vars
                PROVE  Reliable!Next \/ UNCHANGED <<sent, rcvd, acked>>
    BY DEF Reliable!linkVars
  <2>1. ASSUME NEW e \in Ends, NEW m \in Msgs, TxAcl(e, m)
        PROVE  Reliable!Next
    BY <2>1 DEF TxAcl, Reliable!Next, Reliable!Send
  <2>2. CASE Page
    BY <2>2 DEF Page, Reliable!Next, Reliable!Reconnect, Reliable!Nothing
  <2>3. ASSUME NEW e \in Ends, NEW g \in BOOLEAN, RxPacket(e, g)
        PROVE  Reliable!Next
    <3>1. Reliable!Confirm(e) \/ UNCHANGED acked
      <4>1. rcvd'[peer(e)] = rcvd[peer(e)]
        BY <2>3, EndFacts DEF RxPacket, TypeOK
      <4>2. acked' = IF IsAck(e) THEN [acked EXCEPT ![e] = Append(@, cur_tx_msg[e])]
                                 ELSE acked
        BY <2>3 DEF RxPacket
      <4>. QED  BY <4>1, <4>2, ConfirmStep
    <3>2. Reliable!Deliver(e) \/ UNCHANGED rcvd
      BY <2>3, DeliverStep
    <3>3. sent' = sent
      BY <2>3 DEF RxPacket
    <3>. QED  BY <3>1, <3>2, <3>3 DEF Reliable!Next, Reliable!Receive
  <2>4. ASSUME NEW e \in Ends, RxDie(e)
        PROVE  Reliable!Next
    <3>1. /\ UNCHANGED <<sent, rcvd>>
          /\ acked' = IF IsAck(e) THEN [acked EXCEPT ![e] = Append(@, cur_tx_msg[e])]
                                  ELSE acked
      BY <2>4 DEF RxDie
    <3>2. Reliable!Confirm(e) \/ UNCHANGED acked
      BY <3>1, ConfirmStep
    <3>. QED  BY <3>1, <3>2 DEF Reliable!Next, Reliable!Receive
  <2>5. ASSUME NEW e \in Ends, \/ HostRead(e) \/ Idle(e) \/ Transmit(e)
                               \/ RxCanceled(e) \/ RxTimeout(e)
                               \/ RxNothing(e) \/ RxForeign(e)
        PROVE  UNCHANGED <<sent, rcvd, acked>>
    BY <2>5 DEF HostRead, Idle, Transmit, RxCanceled, RxTimeout, ll_reset,
                RxNothing, RxForeign, hist
  <2>6. CASE Connect \/ ConnectSlaveOnly \/ TurnPasses \/ Tick \/ UNCHANGED vars
    BY <2>6 DEF Connect, ConnectSlaveOnly, TurnPasses, Tick, vars, hist
  <2>. QED  BY <2>1, <2>2, <2>3, <2>4, <2>5, <2>6 DEF Next, Rx
<1>. QED
  BY <1>1, <1>2, TypeCorrect, LinkInvHolds, PTL
  DEF Spec, ImplementsReliableLink, Reliable!Spec
=============================================================================
