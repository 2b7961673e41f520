----------------------------- MODULE MCSenderArq -----------------------------
(* SenderArq for TLC: the receivers are interchangeable in the runs that   *)
(* check safety.                                                           *)
EXTENDS SenderArq, TLC

PeerSymmetry == Permutations(Peers)

=============================================================================
