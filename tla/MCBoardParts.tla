---------------------------- MODULE MCBoardParts ----------------------------
(***************************************************************************)
(* One key and its times; two UARTs, whose rings do not divide the index;   *)
(* a pin of either kind; a count of three bytes of three values; a session  *)
(* in which the sequence numbers come round.                                *)
(***************************************************************************)
EXTENDS BoardParts
=============================================================================
