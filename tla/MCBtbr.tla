------------------------------- MODULE MCBtbr ------------------------------
(* The parts of btbr that interrupts and the main loop share, in one run:    *)
(* the message ring, the control and its tasks over the agenda, the message  *)
(* transport, the timers of the clock interrupt. Each behaviour is a         *)
(* behaviour of one of them, and the others rest in their initial state.     *)
(*                                                                           *)
(* The ring has four slots, so it fills (three messages), empties and wraps  *)
(* within a few steps, with the main loop and the interrupts both producing  *)
(* and consuming; the firmware's has eight, and Btbr_proofs covers every     *)
(* size. The control runs with the firmware's own numbers: its idle handler  *)
(* waits 30 steps of a counter, in which at least 29 interrupts are taken.   *)
EXTENDS MsgQueue, BtrUsb, Btctl

VARIABLES
  part,
  afh_clkn, timers, count, afh_buf, map, announced, piconet, inbox, connections, spoiled, afh_dead

-----------------------------------------------------------------------------
Afh == INSTANCE BtrAfh WITH clkn <- afh_clkn, dead <- afh_dead,
  BTPHY_TIMER_COUNT <- 3, Maps <- {"m1", "m2"}, Lead <- 3, Life <- 11

afhVars == <<afh_clkn, timers, count, afh_buf, map, announced, piconet, inbox, connections, spoiled, afh_dead>>

BtbrInit == part \in {"ring", "ctl", "usb", "afh"} /\ Init /\ CtlInit /\ UInit /\ Afh!AInit
BtbrNext ==
  /\ UNCHANGED part
  /\ \/ part = "ring" /\ Next /\ UNCHANGED <<ctlVars, uvars, afhVars>>
     \/ part = "ctl" /\ CtlNext /\ UNCHANGED <<vars, uvars, afhVars>>
     \/ part = "usb" /\ UNext /\ UNCHANGED <<vars, ctlVars, afhVars>>
     \/ part = "afh" /\ Afh!ANext /\ UNCHANGED <<vars, ctlVars, uvars>>
BtbrSpec == BtbrInit /\ [][BtbrNext]_<<part, vars, ctlVars, uvars, afhVars>>

-----------------------------------------------------------------------------
(* CheckedStaysTrue and ImplementsFifo are MsgQueue's; BuffersKept,          *)
(* MessagesWhole and NothingStuck are BtrUsb's; TasksNeverCollide and        *)
(* StandbyIsQuiet are Btctl's.                                               *)

(* btbr hops with its master's map at each instant, unless a timer of an     *)
(* earlier connection acts in this one (BtrAfh!MapWithMaster).               *)
MapWithMaster == part = "afh" => Afh!MapWithMaster
=============================================================================
