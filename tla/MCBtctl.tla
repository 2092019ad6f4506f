------------------------------ MODULE MCBtctl ------------------------------
(***************************************************************************)
(* Model checking of Btctl with the firmware's own numbers.  The idle      *)
(* handler waits for 30 steps of a free-running counter, during which at   *)
(* least 29 timer interrupts are taken.                                    *)
(***************************************************************************)
EXTENDS Btctl
=============================================================================
