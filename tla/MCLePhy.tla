------------------------------ MODULE MCLePhy ------------------------------
(* The follower in two settings, in one run; in a third, beside the other    *)
(* parts that keep time, it is in MCSignals.                                 *)
(* Busy: a main loop later than a whole interval, a pool that runs empty,    *)
(* bad requests and restarts; the constants are in the configuration.        *)
(* Leaving: a connection with lost packets and a map update, that ends, and a   *)
(* host that may have the follower leave it.                                 *)
EXTENDS LePhy

VARIABLE setting

Leaving == INSTANCE LePhy WITH
  Interval <- 4000, NewInterval <- 5000, SUPERVISION <- 10000, WinOffset <- 125, Procedures <- {"map"},
  Unheard <- {"after"}, Advertised <- {"connect"}, EVENTS <- 3, MaxLag <- 10, HostMay <- {"cancel"}

FollowInit == \/ setting = "busy" /\ Init
              \/ setting = "leaving" /\ Leaving!Init
FollowNext == /\ UNCHANGED setting
              /\ \/ setting = "busy" /\ Next
                 \/ setting = "leaving" /\ Leaving!Next

\* The fairness of FairSpec.
LeavingFair ==
  /\ WF_vars(setting = "leaving" /\ Leaving!DmaIrq) /\ WF_vars(setting = "leaving" /\ Leaving!TimerIrq)
  /\ WF_vars(setting = "leaving" /\ Leaving!MainLoop) /\ WF_vars(setting = "leaving" /\ Leaving!Pass)
  /\ WF_vars(setting = "leaving" /\ Leaving!Anchor) /\ WF_vars(setting = "leaving" /\ Leaving!Reply)
  /\ WF_vars(setting = "leaving" /\ Leaving!PacketEnds)
FollowSpec == FollowInit /\ [][FollowNext]_<<setting, vars>> /\ LeavingFair

(* OneOwner and EveryBufferOwned are LePhy's, in either setting.             *)

(* A connection that ends while it is followed is given up: after the        *)
(* supervision timeout the sniffer is back on the advertising channel        *)
(* (LePhy!GivesUp).                                                          *)
ConnectionGivenUp == setting = "leaving" => GivesUp
=============================================================================
