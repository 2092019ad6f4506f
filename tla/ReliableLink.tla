---------------------------- MODULE ReliableLink ----------------------------
(***************************************************************************)
(* What the link layer promises the two hosts of a connection: the ACL     *)
(* messages one host hands to its device reach the other host in order and *)
(* at most once, and a device gives up a message as acknowledged only      *)
(* after the peer has passed it on.  Either end may stop at any time.      *)
(***************************************************************************)
EXTENDS Sequences, Naturals

CONSTANTS Ends,         \* the two ends of the connection
          peer(_),      \* the other end
          Msgs          \* ACL messages

VARIABLES sent,         \* sent[e]: messages accepted from the host of e
          rcvd,         \* rcvd[e]: messages handed to the host of e
          acked         \* acked[e]: messages e has dropped as acknowledged

linkVars == <<sent, rcvd, acked>>

Nothing == [e \in Ends |-> << >>]

Init == sent = Nothing /\ rcvd = Nothing /\ acked = Nothing

Send(e, m) == /\ sent' = [sent EXCEPT ![e] = Append(@, m)]
              /\ UNCHANGED <<rcvd, acked>>

(* The next message of the peer, if there is one.                          *)
CanDeliver(e) == Len(rcvd[e]) < Len(sent[peer(e)])
NextFor(e) == sent[peer(e)][Len(rcvd[e]) + 1]

Deliver(e) == CanDeliver(e) /\ rcvd' = [rcvd EXCEPT ![e] = Append(@, NextFor(e))]

(* The message of e that is delivered but not yet dropped.                 *)
CanConfirm(e) == Len(acked[e]) < Len(rcvd[peer(e)])
Confirm(e) == /\ CanConfirm(e)
              /\ acked' = [acked EXCEPT ![e] =
                             Append(@, rcvd[peer(e)][Len(acked[e]) + 1])]

(* One received packet may both acknowledge and carry data.                *)
Receive(e) == /\ Deliver(e) \/ UNCHANGED rcvd
              /\ Confirm(e) \/ UNCHANGED acked
              /\ UNCHANGED sent

(* A new connection starts from nothing.                                   *)
Reconnect == sent' = Nothing /\ rcvd' = Nothing /\ acked' = Nothing

Next == \/ \E e \in Ends : \/ \E m \in Msgs : Send(e, m)
                           \/ Receive(e)
        \/ Reconnect

Spec == Init /\ [][Next]_linkVars
=============================================================================
