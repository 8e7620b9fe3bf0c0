---------------------------- MODULE MCInterrupts ----------------------------
(* The instance is small as it is: three devices, bounded bursts.          *)
EXTENDS Interrupts
=============================================================================
