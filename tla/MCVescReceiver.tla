---------------------------- MODULE MCVescReceiver ----------------------------
(* VescReceiver for TLC: bytes less than 4, so that the end of a frame and *)
(* the beginning of the next look like a long frame, as in the code.       *)
EXTENDS VescReceiver
=============================================================================
