--------------------------- MODULE MCReceiverFlow ---------------------------
(* ReceiverFlow for TLC.                                                   *)
EXTENDS ReceiverFlow
=============================================================================
