-------------------------------- MODULE Lmp --------------------------------
(***************************************************************************)
(* ubtbr's link manager (lmp.py) at one end of a connection and another    *)
(* device's at the other: the exchange that sets an unencrypted connection *)
(* up.  The link below delivers every message once and in order, which is  *)
(* LinkLayer's subject.  A message is its opcode; ext(op) stands for the   *)
(* opcodes behind the escape.                                              *)
(***************************************************************************)
EXTENDS Naturals, Sequences, FiniteSets

CONSTANTS Roles,    \* roles ubtbr takes: "master", "slave"
          Refused   \* requests the other device may refuse

VARIABLES role, rmt, up, down, setup, peer, afh, stopped
vars == <<role, rmt, up, down, setup, peer, afh, stopped>>
\* rmt: what the master has learnt; up, down: messages to and from the other device, which
\* peer describes; setup: handle_setup_complete was called; afh: set_afh commands handed to the
\* device; stopped: the connection is being closed.

Infos == <<"features", "features_ext", "version", "name", "key_size_mask">>
InfoSet == {Infos[i] : i \in DOMAIN Infos}
Req(x) == <<"req", x>>
Res(x) == <<"res", x>>
Accepted(x) == <<"accepted", x>>
NotAccepted(x) == <<"not_accepted", x>>
Connect == <<"req", "host_connection">>
SetupComplete == <<"setup_complete", "">>
SetAfh == <<"req", "set_afh">>
Detach == <<"detach", "">>

---------------------------------------------------------------------------
\* The first thing still unknown is asked for; then the connection.
send_info_req(known) ==
  LET unknown == {i \in DOMAIN Infos : Infos[i] \notin known}
  IN IF unknown = {} THEN Connect
     ELSE Req(Infos[CHOOSE i \in unknown : \A j \in unknown : i <= j])

lmp_send(msgs) == up' = up \o msgs

\* Requests both roles answer: version, features, extended features and name.
handle_info_req(op) == op[1] = "req" /\ op[2] \in InfoSet \ {"key_size_mask"}

LMPMaster_forgets(op) ==
  /\ IF op[1] = "res"
     THEN rmt' = (rmt \cup {op[2]}) \ {"key_size_mask"} /\ lmp_send(<<send_info_req(rmt')>>) /\ UNCHANGED setup
     ELSE IF op = SetupComplete
     THEN lmp_send(<<SetupComplete>>) /\ setup' = TRUE /\ UNCHANGED rmt
     ELSE UNCHANGED <<rmt, up, setup>>
  /\ UNCHANGED <<afh, stopped>>
LMPMaster(op) ==
  /\ IF op[1] = "res"
     THEN rmt' = rmt \cup {op[2]} /\ lmp_send(<<send_info_req(rmt \cup {op[2]})>>) /\ UNCHANGED setup
     ELSE IF op = SetupComplete
     THEN lmp_send(<<SetupComplete>>) /\ setup' = TRUE /\ UNCHANGED rmt
     ELSE \* handle_accepted, handle_not_accepted, slot offset, switch and anything else
          UNCHANGED <<rmt, up, setup>>
  /\ UNCHANGED <<afh, stopped>>

LMPSlave(op) ==
  /\ UNCHANGED rmt
  /\ IF op = Connect THEN lmp_send(<<Accepted(op)>>) /\ UNCHANGED <<setup, afh, stopped>>
     ELSE IF op = SetupComplete
     THEN lmp_send(<<SetupComplete>>) /\ setup' = TRUE /\ UNCHANGED <<afh, stopped>>
     ELSE IF op = SetAfh
     THEN lmp_send(<<Accepted(op)>>) /\ afh' = afh + 1 /\ UNCHANGED <<setup, stopped>>
     ELSE IF op = Detach THEN stopped' = TRUE /\ UNCHANGED <<up, setup, afh>>
     ELSE UNCHANGED <<up, setup, afh, stopped>>

receive ==
  /\ down # << >> /\ down' = Tail(down)
  /\ LET op == Head(down) IN
       IF handle_info_req(op) THEN lmp_send(<<Res(op[2])>>) /\ UNCHANGED <<rmt, setup, afh, stopped>>
       ELSE IF role = "master" THEN LMPMaster(op) ELSE LMPSlave(op)
  /\ UNCHANGED <<role, peer>>

---------------------------------------------------------------------------
(* The other device: it answers what it is asked, may refuse, asks what it *)
(* wants to know, one thing at a time, and completes the setup once the    *)
(* connection is accepted and nothing of its own is open.                  *)
NewPeer == [asked |-> {}, open |-> FALSE, connected |-> FALSE, complete |-> FALSE,
            done |-> FALSE, afh |-> FALSE, left |-> FALSE]
PeerSend(msg) == down' = Append(down, msg)

PeerReceive ==
  /\ up # << >> /\ up' = Tail(up)
  /\ LET op == Head(up) IN
       \/ /\ op[1] = "req" /\ (op = Connect \/ op[2] \in InfoSet)
          /\ \/ PeerSend(IF op = Connect THEN Accepted(op) ELSE Res(op[2]))
                /\ peer' = [peer EXCEPT !.connected = @ \/ op = Connect]
             \/ op[2] \in Refused /\ PeerSend(NotAccepted(op)) /\ UNCHANGED peer
       \/ /\ op[1] \in {"res", "accepted"}
          /\ peer' = [peer EXCEPT !.open = FALSE, !.connected = @ \/ op = Accepted(Connect)]
          /\ UNCHANGED down
       \/ op = SetupComplete /\ peer' = [peer EXCEPT !.done = TRUE] /\ UNCHANGED down
  /\ UNCHANGED <<role, rmt, setup, afh, stopped>>

PeerAct ==
  /\ ~peer.open /\ ~peer.left
  /\ \/ \E x \in InfoSet \ {"key_size_mask"} :
          /\ ~peer.complete /\ x \notin peer.asked /\ PeerSend(Req(x))
          /\ peer' = [peer EXCEPT !.asked = @ \cup {x}, !.open = TRUE]
     \/ /\ role = "slave" /\ ~peer.connected /\ PeerSend(Connect)
        /\ peer' = [peer EXCEPT !.open = TRUE]
     \/ /\ peer.connected /\ ~peer.complete /\ PeerSend(SetupComplete)
        /\ peer' = [peer EXCEPT !.complete = TRUE]
     \/ /\ role = "slave" /\ peer.done /\ ~peer.afh /\ PeerSend(SetAfh)
        /\ peer' = [peer EXCEPT !.afh = TRUE, !.open = TRUE]
     \/ /\ role = "slave" /\ peer.done /\ PeerSend(Detach)
        /\ peer' = [peer EXCEPT !.left = TRUE]
  /\ UNCHANGED <<role, rmt, up, setup, afh, stopped>>

Init == /\ role \in Roles /\ rmt = {} /\ down = << >>
        /\ up = IF role = "master" THEN <<send_info_req({})>> ELSE << >>     \* start
        /\ setup = FALSE /\ peer = NewPeer /\ afh = 0 /\ stopped = FALSE
Next == receive \/ PeerReceive \/ PeerAct
Spec == Init /\ [][Next]_vars
\* Threads run and the other device goes on with the setup.
FairSpec == Spec /\ WF_vars(receive) /\ WF_vars(PeerReceive) /\ WF_vars(PeerAct)

---------------------------------------------------------------------------
\* The setup completes at both ends, whoever asks what in which order, with everything asked
\* for answered, for a device that answers what ubtbr asks (lmp.py:380-506).
SetupEnds == <>[](setup /\ peer.done /\ (role = "master" => rmt = InfoSet))
============================================================================
