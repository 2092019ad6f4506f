---------------------------- MODULE MCLinkLayer ----------------------------
(***************************************************************************)
(* Model checking of LinkLayer.  One direction carries enough messages for *)
(* the sequence bit to come round to its first value, the other enough for *)
(* data and acknowledgements to share packets.                             *)
(***************************************************************************)
EXTENDS LinkLayer

MasterSendsMost == [e \in Ends |-> IF e = "master" THEN 3 ELSE 1]
SlaveOnly == [e \in Ends |-> IF e = "slave" THEN 1 ELSE 0]
=============================================================================
